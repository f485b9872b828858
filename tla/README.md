# Verification of P.I.L.A

TLA+ models of the ledger, the wallet, the node requests, the HTTP server and
client and the JSON library of P.I.L.A, checked with TLC and, in part, proved with
TLAPS. Line numbers are those of the
files in `src/`.

## 1. The system

P.I.L.A is a small block chain in C++. The repository holds a ledger
(`Pila 2.0.cpp`), a wallet (`Wallet.cpp`), the requests one node makes to the
others (`requests.hpp`), Merkle root and nonce search (`common.hpp`,
`hash.hpp`), and Simple-Web-Server (`server_http.hpp`, `client_http.hpp`,
`utility.hpp`, `status_code.hpp`) through which nodes are to talk, with
nlohmann/json (`json.hh`) for what they say. The program that would put the
parts together (the `main` of a node with its resources) is not in the
repository; `Pila 2.0.cpp` and `Wallet.cpp` each have a `main` of their own.

### Components

| component | state | operations | what makes it correct |
|---|---|---|---|
| scope runner, `utility.hpp` 298-340 | one atomic counter | `continue_lock`, `~SharedLock`, `stop` | no increment is lost, `stop` comes back only when nobody is inside a scope, nobody enters after it |
| HTTP server, `server_http.hpp` | the set `connections`, the acceptor, the `io_service`; for each connection a socket, a timer, a request with its stream buffer; the scope runner | `start`, `accept`, the read, resource and write handlers, timeouts, upgrade, `stop`, the destructor | one operation at a time on a connection, a response has the connection to itself, every wait is timed, `stop` leaves no connection served, no handler uses a server that is gone |
| ledger, class `PILA` in `Pila 2.0.cpp` | `chain`, `pending_transactions` | `add_transaction`, `mine_pending_transactions`, `is_chain_valid`, `chaotic_encryption` | the chain is linked and is found valid, a changed chain is not, no transaction is lost or doubled, the reward is paid once, the search ends |
| wallet, `Wallet.cpp` | the key pair, `wallet.txt`, the image files of the codes | construction (load, or generate and save), `generate_transaction_qrcode`, `verify_transaction` | the key outlives the run, a code stays provable, no run works with a key that was not read |
| node requests, `requests.hpp` | the list of nodes and the chain of the node that calls | `getChainFromNodes`, `addSelfToNetwork`, `sendNewChain` | a node that joins takes the longest chain it is answered and becomes known; a new chain is posted to every node of the list |
| Merkle root and nonce search, `common.hpp`, `hash.hpp` | locals only | `getMerkleRoot`, `findHash` | the root depends on the whole list, the nonce is the first that meets the target, the search ends |
| HTTP text, `utility.hpp` 37-295, `Response` and the reads of `server_http.hpp` | the stream buffer of a connection | percent encoding, query strings, headers, request and status lines, content disposition, `write` of a response | what one side writes the other reads, however its bytes are cut on the way; a malformed text is refused |
| status codes, `status_code.hpp` | a constant table | two lookups | they are inverse |
| HTTP client, `client_http.hpp` | a pool of threads on one `io_context`; for each request a chain of handlers on a connection | `request` with its redirects, `stop`, `join`, the destructor | the callback of a request is called once; the destructor comes back |
| JSON library, `json.hh` (nlohmann/json 2.1.1) | a value, iterators into it | element access, insertion and removal, comparison, `dump` and `parse` with callbacks, pointers, `flatten`, `patch` and `diff`, MessagePack and CBOR | what is written in any of the four forms is read back; cut input is noticed; `<` and `==` agree; a loop that erases or inserts misses nothing |
| build file, page, images, license | none | none | none |

### How they interact

* The HTTP server asks the scope runner for a lock at the start of each handler
  and leaves the handler without touching the server if it gets none; its
  destructor calls `handler_runner->stop()` before anything else.
* `requests.hpp` calls the client synchronously, once for each node in turn; at
  the other end stands a program with the resources `/latestchain`, `/addnode`
  and `/newchain`, which is not in the repository. Chain and list of nodes are
  shared between the loops of a
  request and the handlers that run beside them: nothing is copied or locked.
* Server and client meet in the bytes on the wire. The resources of a node are to
  answer with JSON; `requests.hpp` calls `json::parse` on what it is answered.
* Ledger and wallet share nothing but the idea of a transaction. The ledger has
  no lock and its calls follow one another; the wallet shares `wallet.txt` with
  earlier and with concurrent runs of the program.

### What is hard about it

* *Interleaving:* exchanges on the counter; handlers of a thread pool, timers
  and `stop()` on one connection; lists that grow while a loop goes through
  them; two runs that save to one file.
* *Order and life time:* the final write of a response is started by whoever
  drops the last reference to it; `connections` holds raw pointers; timers and
  completions may be queued already when they are cancelled.
* *Failure:* requests that fail are reported and forgotten; a run may end
  between truncating its file and writing it; nobody may answer.
* *Numbers:* the nonce runs past the greatest `int`, the reward is a `double`
  that goes through an `int`, levels of a tree of odd length are padded, the
  nonce search has an upper bound; JSON numbers change between three
  representations, five widths and two binary formats.
* *Pieces:* a request arrives in any pieces, content may come with its head; an
  encoding may end anywhere; a parser's callback rejects parts while it goes on.
* *Hidden state:* the hash depends on a generator behind `random_shuffle` that
  is seeded through `std::rand`.

`PROJECT.json` lists each of these hazards at the line where it bites, with the
properties that would catch it.

## 2. Modules

| module | what it is |
|---|---|
| `ScopeGate` | what a scope runner promises: a gate, open until it is closed for good while nobody is inside |
| `ScopeRunner`, `MCScopeRunner` | the atomic counter, one step per access; implements `ScopeGate` |
| `ScopeRunnerProofs` | theorems about it |
| `Session` | what the server promises about its connections: the stages each goes through, in their order |
| `HttpServer`, `MCHttpServer` | the server over asio, with the gate in place of the counter; implements `Session` |
| `HttpServerProofs` | theorems about it |
| `Ledger`, `MCLedger`, `LedgerProofs` | the class `PILA`, its instance and its theorems |
| `SequenceFacts` | facts about sequences that both `LedgerProofs` and `MerkleProofs` rest on: induction, joining a sequence of sequences |
| `Wallet`, `MCWallet`, `WalletProofs` | the wallet and the file it shares with other runs |
| `ChainSync`, `MCChainSync`, `ChainSyncProofs` | the three request functions on every node at once |
| `Merkle`, `MCMerkle`, `MerkleProofs` | `getMerkleRoot` and `findHash` |
| `HttpText` | the texts of HTTP as operators on bytes |
| `HttpWire`, `MCHttpWire` | a peer and a server that exchange these texts over a stream buffer |
| `HttpClient`, `MCHttpClient`, `HttpClientProofs` | the chains of handlers of a client's requests and its pool |
| `JsonValue`, `JsonText`, `JsonPatch`, `JsonBinary` | values and their containers, text, pointers and patches, binary formats |
| `JsonDocument`, `MCJson` | a program that calls all of these |

The JSON modules declare `RECURSIVE` operators, for values are nested; no module
with a theorem reaches them. Definitions marked *Mutation of X*, and variants
named after what they leave out (`RedirectUncounted`, `RemainingAll`,
`unescapeTildeFirst`), are definitions as a plausible bug would make them; no
specification uses them, and each shows that some property notices the bug.

### ScopeRunner

`continue_lock` is a plain load (`Load`), then a loop of
`compare_exchange_weak`: it succeeds (`Acquire`), fails and reloads `expected`
(`Retry`), or finds a negative value and gives up (`Refuse`). A spurious failure
changes nothing and is a stuttering step. `~SharedLock` is `Release`, the
`fetch_sub`. `stop` is `CallStop`, then `Close` when the exchange of 0 for -1
succeeds, or `SeeClosed` when it finds a negative counter; a failed exchange on a
positive count sets `expected` back to 0 and is a stuttering step.

### HttpServer

asio is modelled as the source uses it. `ops` holds the asynchronous operations,
each pending or completed with a result; a completion waits in `ops` until a
thread of the pool takes it (`Begin`: cancel the timer, ask the runner). The
handler then is in `running` until its body takes place as one step, so that
`stop()`, timers and other handlers come in between. The steps follow the code:

| steps | code |
|---|---|
| `Start`, `Accept`, `AcceptDone` | `start`, `accept` and the handler of `async_accept` (319-360, 581-603) |
| `ReadRequest`, `ReadDropped`, `ReadTooLarge`, `ReadContent` | `read_request_and_content` (420-491) |
| `Upgrade`, `Dispatch` | `find_resource`, `write_response` (494-557) |
| `ResourceReturns`, `Keep`, `SendPart`, `SendDone`, `LetGo`, `DropResponse`, `FinalDone` | the resource function, the user's references to its `Response`, `Response::send`, and the deleter that sends what is left and reads on |
| `Expire`, `TimedOut` | `set_timeout`, `cancel_timeout`, `close` (220-247) |
| `CallStop`, `CloseAcceptor`, `Sweep`, `StopIo` | `stop` (363-378), three steps that handlers on other threads run between |
| `Destruct`, `FreeIo` | `~ServerBase` (380-383) and the members that go after it |
| `Destroy` | the deleter in `create_connection` (401-412) |
| `PeerConnects`, `Transfer`, `Cancelled` | the network and asio: external |

What a request or a response holds is left out but for the branch it takes: each
way the header can send a handler is one step that the model may take. `setup`
says who owns the `io_service`, how many threads run it, which timeouts are on,
whether upgrades are served and how often the server is started; it is chosen in
the first state. asio assigns the socket of a peer as the handler of its accept
begins, not as the peer connects: a connection that waits for its handler has no
socket which `stop()` could close. A function `on_upgrade` takes the socket or
leaves it (`Upgrade`). `FreeIo` waits for nothing: with an `io_service` of its
own the server takes operations, timers and sessions with it, also of a
connection whose `Response` the user still holds. What the user does with such a
`Response` then (a `send`, or letting it go) uses an `io_service` that is gone,
which is undefined; the model has no step for it.

`Session` is the same server with nothing but a stage for each connection:
nobody's, accepting, reading the head, reading the content, serving, answering,
rejecting, ended. `StageOf` tells the stage from the state of `HttpServer`: a
connection is served as long as somebody holds its `Response`, and otherwise is
where its operation, or the handler of it, is. What is between two stages, the
timers, completions that wait for a thread, `stop()`, is a stuttering step of
`Session`. A request that has reached a resource can only go on to be answered
(`Answer`), or be dropped with the server (`Drop`); the next one is read after the
answer (`Again`); once the runner is stopped nothing begins.

Two handlers of one connection that belong to sends of the user and have the
same result are one element of `running`: nothing they do differs.

### HttpText, HttpWire

A text is the sequence of its bytes, and each operator does what the function of
its name does to them, loops over characters being folds or recursive functions.
A `multimap` of fields is the sequence of its pairs, since the order of its
iteration is left open. `status_code.hpp` is its list of numbers; the wording is
the constant `Phrase`.

In `HttpWire` a peer, which is not in the repository, writes a request as HTTP
asks (`Ask`), or one of a few that are malformed. Its bytes arrive one by one or
as many as a read takes (`Arrive`). `ReadHead` is the handler of
`async_read_until`: what the parser leaves stays in the stream buffer, and what
came after the first end of a head counts as content, so that `Remaining` is
read. The two differ in a request with a line that has no colon, at which the
parser stops early: the program then gets lines of the head as content
(`Ragged` are such requests). The program answers with any status, fields
and content, and the peer parses the answer with the reader of the client. The
operations, timers and threads around this are in `HttpServer`, which leaves the
bytes out; the two modules divide `read_request_and_content` between them.

A request that fills the buffer (`MaxBuffer`) may or may not be refused,
depending on the pieces in which it came. The loop of `HttpHeader::parse` would
not end on a stream that stops inside a header line; `read_until` keeps such
streams from it. Bytes of a pipelined request are dropped with the buffer;
the peer of the model does not pipeline.

### HttpClient

The file does not compile as it stands: handlers call `response(connection)` and
`request(connection)`, which are not members, and use members of `Connection`
that are not declared. The model reads them as the comment at its head says, and
follows the text of the file in everything else. A request is in `phase` at the
operation whose handler comes next; `ConnectDone`, `HandshakeDone`, `WriteDone`,
`HeadDone`, `LineDone`, `ChunkDone`, `FirstRead` and `NextRead` are the handlers,
`Redirect` is the callback that `request` wraps around the user's, `Stop`,
`CallJoin`, `Joined`, `Destroy` and `Destroyed` are the pool's.

The text has some consequences which the phases name: a timer is set and never
waited on, so no timeout (`timeout_connect`, or `timeout`, at 89 and after) ends anything and a
silent peer stays (`silent`); a content is read in pieces of what is available,
and a read of nothing succeeds at once, so that it never ends (`content`); a
chunk leads to a recursion without end (`spin`), which uses up the stack of its
thread and so ends the program (`StackEnds`), and the last chunk to no
callback (`lost`); after `join` the destructor joins again, which throws
(`terminated`). `ClientBase::connect`, `handshake` and `write` are never called.
That a callback holds its connection, which then is not freed, is left out.

### The JSON modules

A value is a record with `m_type` and the member of the union it selects; an
array is a sequence, an object a function, a string its bytes, a number its eight
bytes. An operation that throws returns an `exception` and changes nothing else.
`JsonValue` has the constructors from lists, element access, insertion and
removal, iterators as offsets, conversions and comparison; `JsonText` the lexer
(to a list of tokens, with a table of escapes of its own), the parser with its
callback, and `dump`; `JsonPatch` the
pointers, `flatten`, `patch` and `diff`; `JsonBinary` both formats, written with
the narrowest width and read from any. `snprintf`, `strtod` and the casts to
`double` belong to library and processor: they are tables (`FloatText`,
`FloatValue`, `AsFloat`), given in `MCJson` for the values at the borders.

`JsonDocument` is a program with two values and an iterator. Its actions are calls
of the library: `Assign`, `List`, `Fill`, `Push`, `Set`, `Erase`, `Apply` (a
patch), `Empty`, `Copy`, `Swap`, `Move`, `EraseHere`, `EraseRest`, `InsertHere`.
Reading and writing are then properties of every value that is reached.

What the modules also record: `operator[]` with a pointer changes a null before it
throws; `remove` in a patch ignores a primitive parent (12582-12599); the depth
given to a parser's callback drifts after a rejected start event; `dump` writes
invalid UTF-8 that `parse` refuses; a NUL ends what `parse` reads; 15 digits of a
`double` do not always name it; CBOR 0x3b wraps above 2^63 (7559); `<` is not
transitive where a negative integer is cast to unsigned.

### Ledger

A call is a step, except `mine_pending_transactions`, which is `Mine`, then one
`TryNextNonce` per turn of its loop, then `Found`. SHA-256 is taken to be free
of collisions: a digest is what was hashed, and `TransactionText` keeps the way
it is put together, without delimiters around the names. The shuffle of
`chaotic_encryption` is the state `rng` of the generator it draws from: with
`SeededShuffle` every call draws alike, without it each call moves the state. The
makefile asks for libc++, whose `random_shuffle` does not draw from `std::rand`:
the run takes `SeededShuffle = FALSE`, and the proofs cover both. A digest has
the shuffle it was made with in front (`ShuffleOf`). The
nonce has the range of an `int` (`HalfRange`); past the greatest one, where the
code is undefined, it becomes the least one, as builds do. `Reward` cuts the
`double` off. The words that the code puts around the fields are named
(`SenderMark`, `ReceiverMark`, `AmountMark`, `EndMark`). `NamesDelimited` says that
no name holds one, `AmountsPrinted` that no amount is printed as one and no two
amounts alike; the code sees to neither. The instance has both as an assumption,
and so has the one theorem that needs them. `submitted` and `cut` are history variables: what was entered, and
how much of it each block and its predecessors hold.

### Wallet

The constructor is `Start` (load, and otherwise generate), `Open` (truncate),
`WritePublic`, `WritePrivate` (each `std::endl` flushes), and a run may `End`
anywhere. The file may not open (`OpenFails`), or the disk be full (`WriteFails`),
which the code does not look at. A key of which a part was written counts as not
written. The file is two places, since all public keys have one length and a
run writes at the offset it has reached; `Lines` rebuilds the lines of the file
from what stands in the places, and `LoadedKey` looks for the two labels the way
`load_wallet` does. `sound` is a history variable: runs so far have followed one
another, and the file could always be opened and written.

### ChainSync

Every node is in one request function at a time; each turn of its loop is a step
(`Get`, `Add`, `Send`, or `Fails`), and the loop condition reads the size of the
list again. A block is the node that found it, and a chain the sequence of its
blocks, so chains of one length differ when different nodes found their blocks.

The programs at both ends are not in the repository. `requests.hpp` shows what
they are asked, and the model has of their handlers no more than that
(external): `/latestchain` answers with the chain of its node or with something
that is no object with a length (`Answer`), `/addnode` puts the port it is given at
the end of its list (`AddNode`), and `/newchain` takes the chain it is given or
leaves it (`PostedChain`), for nothing in the repository says by which rule. What
members come to agree on is therefore not a property of this code, and none is
stated: the properties are about whom the loops reach and with what. A node may
find a block whenever it is ready (`NewChain`). `smooth` is a history variable: no
request has failed, no answer was garbled, no node is down; `sent` is another:
the posts the loop a node is in has had answered.

### Merkle

A node of the tree is the sequence of the leaves below it, which is what an
injective hash keeps of it. `Level` is one turn of the loop of `getMerkleRoot`
with its padding, `Found`, `Missed` and `Exhausted` are the turns of `findHash`;
`meets` is the set of nonces whose hash has the target in front, any set: so the
shuffle of `hash.hpp`, the one the ledger has too, can be left out here.

## 3. Runs

All runs end within a few minutes on two workers.

| run | instance | what it shows |
|---|---|---|
| `scope_runner` | 3 callers, 2 stoppers | the counter is the number of locks alive (`CountIsInside`), implements the gate (`GateSpec`), and `stop` comes back (`StopReturns`) |
| `server` | 3 connections; two threads of the user's with upgrades and no timeout for content, and a server with its own `io_service` and both timeouts | `OneOperation`, `ResponseExclusive`, `WaitIsTimed`, `NoDanglingConnection`, `StopMissesOne` through all interleavings of handlers, timers, user code, `stop()` and the destructor; the connections go through the stages of `Session` (`SessionSpec`) |
| `server_live` | 2 connections, one thread, of the user's or of a server with its own `io_service` that is started twice | a closed connection goes (`ClosedIsReleased`), a silent peer does not hold a read for ever (`ReadsEnd`), the destructor releases every connection but one whose `Response` the user keeps beyond the `io_service` (`DestructReleases`); no more accepts are under way than the server was started (`AcceptChains`) |
| `server_accept_spin` | `io_service` of the user | *violated:* `StopEndsAccepting`, see 5 |
| `ledger` | 3 blocks, 2 waiting transactions, a 2-bit `int`, times of which one meets no target, a shuffle that differs from call to call | `ChainLinked`, `AcceptedAsMined`, `NothingLost`, `AlterationNoticed`, `MiningEnds` |
| `wallet` | 2 runs at once, 3 keys, a file that may not open, a disk that may be full | `NoBlankKey` always, `KeyOnDisk` for runs that follow one another |
| `wallet_owner` | 1 run after another | *violated:* `CodesKeepTheirOwner`, see 5 |
| `chain_sync` | 2 members, 1 joiner, chains of up to two blocks that may fork, failures, garbled answers | `JoinerIsKnown` and `SentSoFar` as long as nothing fails |
| `merkle` | lists of up to 7 of 2 leaves, all sets of 3 nonces | `RootHoldsTheList`, through the whole search for the nonce |
| `http_wire` | requests and answers of a few methods, paths, queries with every sign of the encoding, `%` before digits and letters too, fields and contents, malformed ones and some with a line without a colon; a buffer of 72 bytes | the program gets the request that was sent, and only what is no request is refused (`RequestArrives`, `FieldsArrive`); the peer can read the answer (`ResponseArrives`); no read waits for bytes that are there (`ReadsWhatComes`) |
| `http_client` | 2 requests, 2 origins, one thread, at most 2 redirects | one callback for each request (`CalledBackOnce`), which comes but for the holes named above (`CallbackComes`); the destructor comes back but for three of them (`DestructorReturns`) |
| `json` | two values of weight 4, two keys of which one holds `/` and `~`, values at every border | `TextReturns`, `BinaryReturns`, `FlattenReturns`, `PatchReaches`, `PointerFollows`: what is written, flattened or diffed comes back; `TruncationThrows` and `DecodedSettles` for cut and changed bytes; `FilterReturns` for the parser's callback; `OrderAgrees`; `LoopGoesOn` for iterators |

Further invariants stand in the modules and are proved for every instance, which
is more than a run could show: `StopExcludes`, `StoppedForever`,
`NoBodyAfterDestruct`, `UpgradedNotSwept`, `RewardFollows`, `OnlyTextHides`,
`JoinedAtLongest`, `FirstNonce`, and most type invariants.

Three more configurations show a disagreement of section 5 and are run by hand:

    tlc -config MCHttpServerLateAccept.cfg MCHttpServer
    tlc -config MCLedgerUnseeded.cfg MCLedger
    tlc -config MCChainSyncNobody.cfg MCChainSync

### Bounds

* *Three callers* let one hold a lock, one have loaded a stale counter and one
  come late; *two stoppers* let a second one find the runner closed.
* *Three connections:* one always waits for a peer, so two are served side by
  side, which is all that connections share; a step of the model takes one
  connection besides the one `accept` makes. *Two threads* are what it takes for
  a handler to run inside another one's. *Two starts* (`server_live`) let the completion
  of an old accept meet a new chain; that the other invariants hold for a server
  that is started again is proved, for any number of starts.
* *Two-bit nonces* make the search wrap within two turns; *three states* of the
  generator are enough for it to differ between mining and checking, and between
  the blocks of one chain; *three
  blocks* are the genesis block, one block that has a predecessor without a hash
  and one that has one with it, with an inner block to remove.
* *Three keys* allow a key, its replacement, and one that replaces that.
* *Lists of seven leaves* have odd levels at the leaves, above them, and at both.
* *Chains of up to two blocks* can be behind, ahead or a fork of one another; *one
  joiner* comes into a list while the loop of either member goes through it, and
  *two members* send at once and join their chains in either order.
* *A buffer of 72 bytes* is passed by the longest requests and not by the
  others. *Arrivals* of one byte or of all that fits, in any order, cut a request
  at every place.
* *Two redirects, two origins* are a loop of redirects and its limit; *one thread*
  is held by one handler that does not come back.
* *Weight four* (an element counts one, a value at a border two) is a container in
  a container beside a second value, or two values at a border in one container;
  *containers of 15 and 16* elements are the border of the short forms of
  MessagePack; strings have the lengths at the other borders, and numbers stand
  on either side of each width. The long containers come alone.

Deadlock is checked where the system cannot stop (`scope_runner`, `http_wire`,
`json`); elsewhere the bounds, or the end of the program, stop the model.

### Fairness

* `ScopeRunner`: a thread inside a call runs on; nobody is bound to make a new
  call. `StopReturns` also assumes that from some time on nobody tries to enter,
  for the code does not keep callers from taking the counter up again.
* `HttpServer`: asio runs the queued completions in the order they came, so a
  completion that waits while the pool is now and then free is run in the end:
  strong fairness for `Begin` and `TimedOut` of each connection. Timers expire,
  a closed socket cancels its operations, bodies of handlers return, the user
  lets a kept response go, `stop()` goes on: weak fairness. The network is not
  fair, and nobody is bound to start, stop or send. The liveness properties end
  where the server's own `io_service` has been stopped: nothing runs then.
* `HttpClient`: a handler whose operation has ended is run as long as a thread is
  free (weak fairness for the handlers of each request), a recursion without end
  meets the end of the stack (weak fairness for `StackEnds`), and `join` and the
  destructor come back when `run()` does. A peer may fall silent at any operation.
* `Ledger`: the loop of the search turns. `Merkle` says so of its two loops, but no
  property of its run needs it.

## 4. Proofs

TLAPS checks these for every value of the constants.

`ScopeRunnerProofs`, from `CallersFinite` alone:

* `CounterCorrect`, `StopIsExclusive`, `StopIsPermanent`, `TypeCorrect`. The
  types of the steps (`Typed`) are inductive by themselves, but that the counter
  never goes below -1 is not: a `Release` at -1 would take it there. The
  inductive invariant is `IInv == CountIsInside /\ ReturnedMeansStopped`: the
  counter is the cardinality of the set of callers inside, or -1 with none, and
  whoever has returned from `stop` has seen it negative. `AcquireAdds` and
  `ReleaseRemoves` say that a step changes the set by one caller; the rest is
  the arithmetic of cardinalities.
* `Refinement`: every step of the counter is an `Enter`, a `Leave`, a `Close` or
  no step of `ScopeGate`. `HttpServer` uses the gate in place of the counter on
  the strength of this.

`LedgerProofs`, from the assumptions on the constants of `Ledger`, for every
target `Meets`, every width of an `int` and chains of every length:

* `TypeCorrect`, `ChainIsLinked`, `NothingIsLost` and `RewardIsNext`: these
  invariants are inductive relative to the type invariant; `FoundStep`,
  `CandidateIsBlock` and `FoundChain` say what the one step that grows the chain
  does to it.
* `AcceptedFromItsShuffles`, with or without `SeededShuffle`: the check accepts a
  chain the class has built from a state of the generator if and only if the
  shuffles that follow on this state are those its blocks were mined with. One
  direction needs that mining and checking hash the same text of every block, the
  other that a digest tells its shuffle. That the chain is always accepted
  (`OwnChainValid`) follows where every shuffle is the same; where the shuffle does
  not draw from `std::rand` it is false: `MCLedgerUnseeded.cfg`.
* `OnlySameTextHides`: whatever state the generator is in and whatever the names
  are, no change of a
  mined block and no missing inner block passes `is_chain_valid`, except a list of
  transactions for one with the same text. A digest tells what went into it
  (`DigestTells`), so the hashes of a linked chain differ pairwise, by induction
  along the chain (`HashesDiffer`). A block that is changed, or follows on a
  missing one, then has another hash than the check computes (`BlockChanged`,
  `BlockMissing`).
* `AlterationsNoticed`, under `NamesDelimited` and `AmountsPrinted`: the text tells the
  list (`TextTells`), for it can be cut in one way only at its last words
  (`CutAtLast`), and so the list is taken apart from its end. Without these
  hypotheses the statement is false: a name may hold the text of a transaction.

`MerkleProofs`, for every set of leaves, list and number of nonces:

* `TypeCorrect` and `FirstIsFound`. The invariant `IInv` adds to the two that a
  level which is not empty has a last leaf to be padded with (`LeafToPadWith`),
  and that at the head of the loop every nonce before the one at hand has been
  tried in vain (`TriedInVain`), without which a nonce that is found need not be
  the first. `PaddedIsEven` and `PairsAreNodes` are the arithmetic of the pairs.
* `RootHolds`: below every level are the leaves of the list in order, with copies
  of the last one after them (`IsPadded`). To join neighbours does not change the
  order of the leaves (`FlattenPairs`), and padding adds the last leaf once more.

`HttpServerProofs`, from the assumptions on the constants of `HttpServer`, for any
set of connections and any set of setups:

* `OneAtATime`, `ResponseAlone`, `PointersLive`, `NobodyInside`. None of these is
  inductive alone. The invariant is `TypeOK /\ Turns`: whatever keeps a connection
  alive is in one of a few places (`Held`), and an operation under way excludes a
  running handler and a response, which exclude each other (`HandlersAlone`,
  `OperationsAlone`, `ResourcesHold`); no body runs after the destructor.
  `NextTurns` goes through the actions: each hands the connection's turn on
  (`HandsOn`) and does not copy it.
* `WaitsTimed`: relative to `Turns`, for the handler that cancels the timer is the
  only thing of its connection that runs.
* `SweepSafe`: an upgraded connection is not among those of the set.
* `AtMostOneMissed`: after the sweep at most one socket is open on a connection
  that is served, in a server that was started once. The invariant
  (`Overlooking`) says for every state how many connections `stop()` does not see:
  one that is served and open is in the set, but for at most one (`Overlooked`),
  and while there is one no other accept can bring a peer (`Expected`). Most steps
  change nothing of this (`CalmKeeps`). That no
  socket at all is open (`StopClosesAll`) is false, see 5.
* `AcceptsBounded`: a call of `start` begins a chain of accepts, in which the handler
  of one makes the next. `AcceptChains` compares the operations and handlers of
  these chains with the number of calls; the invariant (`Chains`) adds that they
  are finitely many. Each step takes one for another (`OneForAnother`), ends one,
  or is a call of `start`.
* `SessionsInOrder`: `HttpServer` implements `Session`. `StageOf` chooses one of the
  operations or handlers of a connection; under `Turns` all that it can choose from
  have one stage (`StagesAreTold`), so the choice does not matter. The initial
  states are mapped to the initial state. For each step every connection keeps
  its stage or moves by one of the moves of `Session` (`NextMoves`), shown by a lemma
  for each kind of step (`BeginMoves`, `ReadMoves`, `ReturnMoves` and so on):
  `UntouchedMoves` is for the connections the step does not concern, and `HandlerEnds`
  and `ResponseDropped` say what a handler, or the last reference to a `Response`,
  leaves behind. Besides `Turns` the proof needs that a server of which only the
  `io_service` is left to free has stopped its runner (`Gone`): a request that is
  being served is dropped in no other state.

`WalletProofs`, for keys of any length in PEM and any number of runs:

* `KeysAreReal` and `KeyIsSaved`. `NothingIsLoaded` is the point: in no state of
  the file, whatever has been left in it, does `load_wallet` find the two labels
  on the first two lines. Every run therefore has a key it has generated
  (`HasKey`), and runs that follow one another have written of it what their place
  in the program says (`Saved`).

`ChainSyncProofs`, for any finite sets of members and joiners and chains of any
length, and whatever `/newchain` does with a chain:

* `StartsLongest`: the chain a node takes is that of one answer, and none is longer
  (`BiggestIsLongest`, which rests on the well-foundedness of the numbers).
* `JoinersKnown`: the nodes that the loop of `addSelfToNetwork` has passed know the
  node, and lists only grow at their end.
* `SentHolds`: the positions the loop of `sendNewChain` has passed and its posts
  belong to each other one to one, while the list grows behind it: no node is in a
  list twice.
* `TypeCorrect`: that a list never has a node twice, nor the node itself (`Apart`), is
  what the handler of `/addnode` does not look for; it holds because a node that
  joins goes through a list of members once, and each has it for the first time.

`HttpClientProofs`, for any requests, origins, limit of redirects and pool:

* `OneCallback`: the invariant is inductive with the range
  of the phases (`Typed`); `GoingOn`, `CallingBack` and `Responding` are what a
  handler can come to, and `Handling` goes through the handlers.

`SequenceFacts` has the induction that the proofs about chains, levels and texts
need. The induction theorems of the library take a predicate as a parameter,
which the provers cannot instantiate; `SetInduction` speaks of the set of the
numbers for which a statement holds, and each induction names that set.

Only model-checked:

* liveness and fairness everywhere, with all of `server_live`, `StopReturns`,
  `MiningEnds`, `CallbackComes` and `DestructorReturns`: beyond the prover;
* the JSON modules: their values are nested and their operators `RECURSIVE`, of
  which the prover can be told nothing;
* `HttpWire`: its properties say that a text is read back as it was written, an
  induction over the bytes for each operator of `HttpText`. The run has texts with
  every sign the operators tell apart, cut at every place.

## 5. Where code and documents disagree

Each is shown by the run or the configuration named with it.

* **`stop()` and a peer that has just been accepted** (`server_http.hpp` 367;
  `MCHttpServerLateAccept.cfg`). "Stop accepting new requests, and close current
  connections" (362), but the sweep goes through `connections` once. asio assigns
  the socket in the completion handler, so a peer accepted before `stop()` whose
  handler runs after it has a socket nobody closes, and is served. `StopMissesOne`
  (`server`) says that this happens to one connection only.
* **Accepting without end** (`server_http.hpp` 590; `server_accept_spin`). The
  accept handler calls
  `accept()` again after every error but `operation_aborted`. If a handler does
  so after `stop()` has closed the acceptor of a server on an `io_service` of
  the user's, the new operation fails with another error, and so on for ever.
* **The shuffle that is not seeded** (`Pila 2.0.cpp` 72; `MCLedgerUnseeded.cfg`). `srand` is to fix the
  shuffle, but `std::random_shuffle` need not draw from `std::rand`, and that of
  libc++, which the makefile asks for, does not. Mining and checking then
  shuffle differently and a chain that was just mined is invalid, unless the
  generator happens to repeat the shuffles (`AcceptedAsMined`, in `ledger`).
* **The key that is not read back** (`Wallet.cpp` 88; `wallet_owner`). `load_wallet` expects the
  private key on the second line, but a PEM key has several lines. The
  constructor replaces the key, and what was signed with the old one cannot be
  proved any more, though a note "serve como um comprovante de propriedade"
  (`README.md` 7).
* **A network without an answer** (`requests.hpp` 47; `MCChainSyncNobody.cfg`). `getChainFromNodes` is to
  return "JSON object of the blockchain" (28), and reads the first element of an
  empty vector when every request has failed.
* **A percent sign that is taken for an encoding** (`utility.hpp` 51, 67;
  `http_wire`). `encode`, which "returns percent-encoded string" (41), leaves `%` as
  it is, so that the value `a%41` arrives as `aA` among the "percent-decoded values"
  (99). `FieldsArrive` names these values as its exception (`Decodes`); the run
  has them, and is violated without it.
* **What is not always true** (`json.hh` 12410). That `j == j.flatten().unflatten()`
  "is always true" does not hold of an object whose first key is "0", which comes
  back as an array, nor of empty containers, which `flatten` turns into null. The
  property `FlattenReturns` is stated without them (`Flattens`).

## 6. What is left out

* The page, the images, the build file and the license: nothing that runs in the
  program.
* Of `json.hh`: conversions to and from user types, allocators, streams as input
  and output (the line buffer of the lexer, the state of a stream), reverse
  iterators as a type of their own, the depth of the stack. Text that is not
  JSON is covered as far as the callbacks and the cut or changed encodings of
  `json` go; `insert` of a range of another value that is no array is unchecked
  in the code and not called.
* Of `client_http.hpp`: the members that are never called, TLS beyond the step of
  the handshake, the contents of a response. `ChainSync` models a request as one
  step that may fail.
* Of the texts: `QueryString::create` does not encode names; the instance of
  `http_wire` has names without signs of the encoding. The path of a request has a
  `?` only before its query.
* The data race on the acceptor between `accept()` and `stop()`: the two are
  atomic steps in either order.
* A timer that has expired before an upgrade closes a socket that is gone; the
  code dereferences a null pointer there, and the model keeps the step without
  an effect.
* Collisions of SHA-256. Names that contain the words around them, with which
  two lists of transactions have one text, are kept out of `AlterationNoticed`
  and of its instance; `OnlySameTextHides` holds with them.
* The cut of a code at its first NUL byte, and the contents of an image.
* What the handlers of `/newchain` and `/addnode` do besides: they are not in the
  repository, and `ChainSync` lets the first take or leave a chain as it likes.
* A destructor of the server that is called from one of its handlers, which would
  wait for that handler, and the use of a `Response` whose `io_service` is gone.
* In `Merkle`, the shuffle of `hash.hpp`: it is that of the ledger.


## 7. Plan

Done, in this order: the scope runner with its abstract gate and proofs, the
server over the gate, the ledger with its proofs, the wallet, the node requests,
the Merkle root; then the texts and bytes of HTTP, the client, the JSON library,
and the proofs about server, wallet and node requests; then those that take an
induction (the alterations of a chain, the root of a tree) and the chains of
accepts; and the abstract sessions, which the server is shown to implement.

Next:

1. Reading of JSON text that is not well-formed: that `parse` refuses it at the
   first byte that cannot belong to a value.
2. Proofs about `HttpText`: that percent encoding and the fields of a header are
   read back, one induction over the bytes for each operator.
