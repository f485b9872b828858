----------------------------- MODULE HttpServer -----------------------------
(***************************************************************************)
(* SimpleWeb::ServerBase (server_http.hpp): the accept chain, the chain of *)
(* asynchronous operations that serves the requests of a connection, the   *)
(* timer of each connection, and stop() and the destructor running beside  *)
(* the handlers of the thread pool.                                        *)
(*                                                                         *)
(* asio is modelled as the source uses it.  An asynchronous operation is a *)
(* record in "ops": it is pending until it completes with a result, and    *)
(* its completion stays queued until a thread of the pool runs its handler.*)
(* A handler begins (cancel_timeout, continue_lock) and ends (its body) in *)
(* two steps, so that stop(), timeouts and other handlers fall in between. *)
(* The scope runner is the abstract gate that module ScopeRunner shows the *)
(* atomic counter to implement.                                            *)
(***************************************************************************)
EXTENDS Naturals, FiniteSets

CONSTANTS
  Conns,            \* Connection objects alive at a time (a bound)
  Setups            \* the ways the server may be set up, see Setup

(* internal: start() makes the io_service, the user has not given one;      *)
(* threads: threads that run it; timeoutRequest, timeoutContent: these two  *)
(* of Config are not 0; upgrade: on_upgrade is set; starts: calls of        *)
(* start() (a bound).                                                       *)
Setup == [internal : BOOLEAN, threads : Nat \ {0}, timeoutRequest : BOOLEAN,
          timeoutContent : BOOLEAN, upgrade : BOOLEAN, starts : Nat \ {0}]

ASSUME ConnsAssumption == IsFiniteSet(Conns)
ASSUME SetupsAssumption == Setups \subseteq Setup

VARIABLES
  setup,        \* how the server is set up
  alive,        \* Connection objects that exist
  connections,  \* ServerBase::connections
  sock,         \* the socket of each connection
  timer,        \* connections whose steady_timer is waiting
  closing,      \* connections with an expired timer whose handler is queued
  ops,          \* asynchronous operations, pending or completed
  running,      \* handlers that hold a SharedLock of handler_runner
  refs,         \* who holds the Response of each connection's request
  acceptor,     \* "open" or "closed"
  io,           \* the io_service: "running", "stopped" or "freed"
  runner,       \* handler_runner: "open" or "stopped"
  ctl,          \* where the thread is that starts, stops and destroys
  starts        \* calls of start() so far

connVars == <<alive, connections, sock>>
timeVars == <<timer, closing>>
ctlVars  == <<setup, acceptor, io, runner, ctl, starts>>
vars == <<connVars, timeVars, ops, running, refs, ctlVars>>

Kinds == {"accept", "header", "body", "send", "final", "reject"}
Results == {"pending", "ok", "full", "error", "aborted"}

OpsOf(c) == {o \in ops : o.conn = c}
RunningOf(c) == {h \in running : h.conn = c}

(* An operation that is started on a socket that is not open completes at  *)
(* once, with an error other than operation_aborted.                       *)
Operation(c, kind, open) ==
  [conn |-> c, kind |-> kind, res |-> IF open THEN "pending" ELSE "error"]

SocketOp(c, kind) == Operation(c, kind, sock[c] = "open")

(* Connection::set_timeout; the timer it replaces is cancelled. *)
SetTimeout(c, on) == timer' = IF on THEN timer \cup {c} ELSE timer \ {c}
-----------------------------------------------------------------------------
Init == /\ alive = {} /\ connections = {}
        /\ sock = [c \in Conns |-> "none"]
        /\ timer = {} /\ closing = {}
        /\ ops = {} /\ running = {}
        /\ refs = [c \in Conns |-> {}]
        /\ setup \in Setups
        /\ acceptor = "closed" /\ io = "stopped" /\ runner = "open"
        /\ ctl = "stopped" /\ starts = 0

(* Mutation of Accept: a connection is entered when it is first served. *)
AcceptUnlisted(c) == /\ c \in Conns \ alive
                     /\ alive' = alive \cup {c}
                     /\ UNCHANGED connections

(* accept(): a fresh connection, put into connections, waits for a peer.   *)
Accept(c) ==
  /\ c \in Conns \ alive
  /\ alive' = alive \cup {c}
  /\ connections' = connections \cup {c}

(* start(): with an internal io_service it comes back only when run() has   *)
(* ended on every thread, so a second start finds no handler running.       *)
Start == /\ ctl = "stopped" /\ runner = "open" /\ starts < setup.starts
         /\ setup.internal => running = {}
         /\ \E c \in Conns : /\ Accept(c)
                             /\ ops' = ops \cup {Operation(c, "accept", TRUE)}
         /\ acceptor' = "open" /\ io' = "running"
         /\ ctl' = "serving" /\ starts' = starts + 1
         /\ UNCHANGED <<sock, timeVars, running, refs, runner, setup>>
-----------------------------------------------------------------------------
(* The network and asio. *)

(* A peer connects.  asio assigns the socket to the connection when it runs *)
(* the handler, see Begin: until then stop() finds nothing there to close.  *)
PeerConnects(o) ==
  /\ o \in ops /\ o.kind = "accept" /\ o.res = "pending" /\ acceptor = "open"
  /\ ops' = (ops \ {o}) \cup {[o EXCEPT !.res = "ok"]}
  /\ UNCHANGED <<connVars, timeVars, running, refs, ctlVars>>

(* A read or write of an open socket ends: all of it, the stream buffer at *)
(* its maximal size (reads only), or an error such as a lost peer.         *)
Transfer(o) ==
  /\ o \in ops /\ o.kind # "accept" /\ o.res = "pending"
  /\ sock[o.conn] = "open"
  /\ \E r \in {"ok", "error"} \cup (IF o.kind \in {"header", "body"}
                                    THEN {"full"} ELSE {}) :
        ops' = (ops \ {o}) \cup {[o EXCEPT !.res = r]}
  /\ UNCHANGED <<connVars, timeVars, running, refs, ctlVars>>

(* Closing a socket cancels its pending operation. *)
Cancelled(o) ==
  /\ o \in ops /\ o.kind # "accept" /\ o.res = "pending"
  /\ sock[o.conn] # "open"
  /\ ops' = (ops \ {o}) \cup {[o EXCEPT !.res = "error"]}
  /\ UNCHANGED <<connVars, timeVars, running, refs, ctlVars>>

(* The timer expires: its handler is queued and can no longer be cancelled. *)
Expire(c) == /\ c \in timer
             /\ timer' = timer \ {c}
             /\ closing' = closing \cup {c}
             /\ UNCHANGED <<connVars, ops, running, refs, ctlVars>>

ThreadFree == io = "running" /\ Cardinality(running) < setup.threads

(* Mutation of TimedOut: an operation that is under way is left alone. *)
TimedOutSparing(c) ==
  /\ c \in closing /\ ThreadFree
  /\ closing' = closing \ {c}
  /\ sock' = IF OpsOf(c) = {} THEN [sock EXCEPT ![c] = "closed"] ELSE sock
  /\ UNCHANGED <<alive, connections, timer, ops, running, refs, ctlVars>>

(* The handler of the timer: self->close().  When on_upgrade has taken the  *)
(* socket away this dereferences a null pointer: such a step is kept as one *)
(* without effect.                                                          *)
TimedOut(c) == /\ c \in closing /\ ThreadFree
               /\ closing' = closing \ {c}
               /\ sock' = [sock EXCEPT ![c] = IF @ = "open" THEN "closed" ELSE @]
               /\ UNCHANGED <<alive, connections, timer, ops, running, refs, ctlVars>>
-----------------------------------------------------------------------------
(* Handlers. *)

(* Mutation of DropResponse: the other references do not count. *)
DropResponseEager(c, opsLeft, runningLeft, refsLeft) ==
  /\ SetTimeout(c, setup.timeoutContent)
  /\ ops' = opsLeft \cup {SocketOp(c, "final")}

(* The deleter of the Response runs when its last reference goes; it sends  *)
(* what the stream buffer holds.  An explicit send keeps a reference until  *)
(* its handler is gone.                                                     *)
DropResponse(c, opsLeft, runningLeft, refsLeft) ==
  LET unused == /\ refsLeft = {}
                /\ ~ \E x \in opsLeft \cup runningLeft :
                        x.conn = c /\ x.kind = "send"
                /\ ~ \E h \in runningLeft : h.conn = c /\ h.inResource
  IN IF unused THEN /\ SetTimeout(c, setup.timeoutContent)
                    /\ ops' = opsLeft \cup {SocketOp(c, "final")}
               ELSE /\ ops' = opsLeft
                    /\ UNCHANGED timer

(* A thread takes a completion from the queue.  Every handler but accept's  *)
(* cancels the timer before it asks the runner; a stopped runner ends it.   *)
Begin(o) ==
  /\ o \in ops /\ o.res # "pending" /\ ThreadFree
  /\ o.kind = "accept" => Conns \ alive # {}    \* bound: one is left for accept()
  /\ sock' = IF o.kind = "accept" /\ o.res = "ok"
             THEN [sock EXCEPT ![o.conn] = "open"] ELSE sock
  /\ IF runner = "open"
     THEN /\ ops' = ops \ {o}
          /\ running' = running \cup
               {[conn |-> o.conn, kind |-> o.kind, res |-> o.res, inResource |-> FALSE]}
          /\ timer' = IF o.kind = "accept" THEN timer ELSE timer \ {o.conn}
     ELSE /\ UNCHANGED running
          /\ IF o.kind = "send" /\ refs[o.conn] = {}
             THEN DropResponse(o.conn, ops \ {o}, running, {})
             ELSE /\ ops' = ops \ {o}
                  /\ timer' = IF o.kind = "accept" THEN timer ELSE timer \ {o.conn}
  /\ UNCHANGED <<alive, connections, closing, refs, ctlVars>>

(* Mutation of ReadRequest: the header is read without a timeout. *)
ReadRequestUntimed(h, opsNow) ==
  /\ UNCHANGED timer
  /\ ops' = opsNow \cup {SocketOp(h.conn, "header")}

(* read_request_and_content, as the end of handler h. *)
ReadRequest(h, opsNow) ==
  /\ SetTimeout(h.conn, setup.timeoutRequest)
  /\ ops' = opsNow \cup {SocketOp(h.conn, "header")}

(* Mutation of AcceptDone: a failed accept is repeated besides the next one. *)
AcceptDoneRepeats(h) ==
  /\ h \in running /\ h.kind = "accept" /\ h.res # "aborted"
  /\ running' = running \ {h}
  /\ LET next == {Operation(h.conn, "accept", acceptor = "open") : x \in {h.res} \ {"ok"}}
     IN \E c \in Conns :
          /\ Accept(c)
          /\ ops' = ops \cup next \cup {Operation(c, "accept", acceptor = "open")}
  /\ UNCHANGED <<sock, timer, closing, refs, ctlVars>>

(* The handler of async_accept: the next accept unless the operation was   *)
(* aborted, then the first read.                                           *)
AcceptDone(h) ==
  /\ h \in running /\ h.kind = "accept"
  /\ running' = running \ {h}
  /\ IF h.res = "aborted"
     THEN UNCHANGED <<alive, connections, timer, ops>>
     ELSE \E c \in Conns :
            LET next == ops \cup {Operation(c, "accept", acceptor = "open")}
            IN /\ Accept(c)
               /\ IF h.res = "ok" THEN ReadRequest(h, next)
                                  ELSE ops' = next /\ UNCHANGED timer
  /\ UNCHANGED <<sock, closing, refs, ctlVars>>

IsRead(h) == h \in running /\ h.kind \in {"header", "body"} /\ ~ h.inResource

(* Mutation of ReadDropped: after an error the header is read once more. *)
ReadDroppedRetries(h) ==
  /\ IsRead(h) /\ h.res # "full"
  /\ running' = running \ {h}
  /\ IF h.res = "error" THEN ReadRequest(h, ops) ELSE UNCHANGED <<ops, timer>>
  /\ UNCHANGED <<connVars, closing, refs, ctlVars>>

(* An error, a request that does not parse, a Content-Length that is not a  *)
(* number, no resource for it: the handler ends and the session with it.    *)
ReadDropped(h) ==
  /\ IsRead(h) /\ h.res # "full"
  /\ running' = running \ {h}
  /\ UNCHANGED <<connVars, timeVars, ops, refs, ctlVars>>

(* Mutation of ReadTooLarge: the content is read all the same. *)
ReadTooLargeReadsOn(h) ==
  /\ IsRead(h) /\ h.res = "full"
  /\ running' = running \ {h}
  /\ SetTimeout(h.conn, setup.timeoutContent)
  /\ ops' = ops \cup {SocketOp(h.conn, "reject"), SocketOp(h.conn, "body")}
  /\ UNCHANGED <<connVars, closing, refs, ctlVars>>

(* The stream buffer is full: 413, sent by a Response without a deleter.    *)
ReadTooLarge(h) ==
  /\ IsRead(h) /\ h.res = "full"
  /\ running' = running \ {h}
  /\ SetTimeout(h.conn, setup.timeoutContent)
  /\ ops' = ops \cup {SocketOp(h.conn, "reject")}
  /\ UNCHANGED <<connVars, closing, refs, ctlVars>>

(* The header announces more content than has arrived. *)
ReadContent(h) ==
  /\ IsRead(h) /\ h.kind = "header" /\ h.res = "ok"
  /\ running' = running \ {h}
  /\ SetTimeout(h.conn, setup.timeoutContent)
  /\ ops' = ops \cup {SocketOp(h.conn, "body")}
  /\ UNCHANGED <<connVars, closing, refs, ctlVars>>

(* find_resource shows on_upgrade the socket of an Upgrade request: it      *)
(* takes the socket or leaves it, and the session ends.                     *)
Upgrade(h) ==
  /\ setup.upgrade /\ IsRead(h) /\ h.res = "ok"
  /\ running' = running \ {h}
  /\ connections' = connections \ {h.conn}
  /\ \E taken \in {"moved", sock[h.conn]} : sock' = [sock EXCEPT ![h.conn] = taken]
  /\ UNCHANGED <<alive, timeVars, ops, refs, ctlVars>>

(* find_resource and write_response: the resource function runs. *)
Dispatch(h) ==
  /\ IsRead(h) /\ h.res = "ok"
  /\ SetTimeout(h.conn, setup.timeoutContent)
  /\ refs' = [refs EXCEPT ![h.conn] = {"fn"}]
  /\ running' = (running \ {h}) \cup {[h EXCEPT !.inResource = TRUE]}
  /\ UNCHANGED <<connVars, closing, ops, ctlVars>>

(* Mutation of ResourceReturns: a Response that is the last goes unsent. *)
ResourceReturnsSilent(h) ==
  /\ h \in running /\ h.inResource
  /\ running' = running \ {h}
  /\ refs' = [refs EXCEPT ![h.conn] = @ \ {"fn"}]
  /\ UNCHANGED <<connVars, timeVars, ops, ctlVars>>

(* The resource function returns or throws; either way its reference goes.  *)
ResourceReturns(h) ==
  /\ h \in running /\ h.inResource
  /\ running' = running \ {h}
  /\ refs' = [refs EXCEPT ![h.conn] = @ \ {"fn"}]
  /\ DropResponse(h.conn, ops, running \ {h}, refs[h.conn] \ {"fn"})
  /\ UNCHANGED <<connVars, closing, ctlVars>>

(* User code: keeps the Response beyond the resource function, sends a part *)
(* of it (one send at a time), lets it go.  Both need the io_service: used  *)
(* when it is gone they are undefined, and not modelled.                    *)
Keep(c) == /\ "fn" \in refs[c]
           /\ refs' = [refs EXCEPT ![c] = @ \cup {"user"}]
           /\ UNCHANGED <<connVars, timeVars, ops, running, ctlVars>>

SendPart(c) == /\ refs[c] # {} /\ OpsOf(c) = {} /\ io # "freed"
               /\ SetTimeout(c, setup.timeoutContent)
               /\ ops' = ops \cup {SocketOp(c, "send")}
               /\ UNCHANGED <<connVars, closing, running, refs, ctlVars>>

LetGo(c) == /\ "user" \in refs[c] /\ io # "freed"
            /\ refs' = [refs EXCEPT ![c] = @ \ {"user"}]
            /\ DropResponse(c, ops, running, refs[c] \ {"user"})
            /\ UNCHANGED <<connVars, closing, running, ctlVars>>

(* The handler of an explicit send calls the user's callback and ends. *)
SendDone(h) ==
  /\ h \in running /\ h.kind = "send"
  /\ running' = running \ {h}
  /\ DropResponse(h.conn, ops, running \ {h}, refs[h.conn])
  /\ UNCHANGED <<connVars, closing, refs, ctlVars>>

(* The handler of the deleter's send: the next request of the connection,   *)
(* or, by version, header, close_connection_after_response or error, none.  *)
FinalDone(h) ==
  /\ h \in running /\ h.kind = "final"
  /\ running' = running \ {h}
  /\ \/ h.res = "ok" /\ ReadRequest(h, ops)
     \/ UNCHANGED <<ops, timer>>
  /\ UNCHANGED <<connVars, closing, refs, ctlVars>>

RejectDone(h) ==
  /\ h \in running /\ h.kind = "reject"
  /\ running' = running \ {h}
  /\ UNCHANGED <<connVars, timeVars, ops, refs, ctlVars>>

Unreferenced(c) == /\ OpsOf(c) = {} /\ RunningOf(c) = {} /\ refs[c] = {}
                   /\ c \notin timer \cup closing

(* Mutation of Destroy: the pointer stays in connections. *)
DestroyListed(c) == /\ c \in alive /\ Unreferenced(c)
                    /\ alive' = alive \ {c}
                    /\ sock' = [sock EXCEPT ![c] = "none"]
                    /\ UNCHANGED <<connections, timeVars, ops, running, refs, ctlVars>>

(* The deleter of create_connection: out of connections, then deleted. *)
Destroy(c) == /\ c \in alive /\ Unreferenced(c)
              /\ alive' = alive \ {c}
              /\ connections' = connections \ {c}
              /\ sock' = [sock EXCEPT ![c] = "none"]
              /\ UNCHANGED <<timeVars, ops, running, refs, ctlVars>>
-----------------------------------------------------------------------------
(* stop() and ~ServerBase. *)

CallStop == /\ ctl = "serving" /\ ctl' = "closing"
            /\ UNCHANGED <<connVars, timeVars, ops, running, refs,
                           acceptor, io, runner, starts, setup>>

(* ~ServerBase: handler_runner->stop() waits for the handlers that hold a   *)
(* lock, then stop().  start() is a member function: a server with its own  *)
(* io_service is destroyed after start() has come back.                     *)
Destruct == /\ ctl \in {"serving", "stopped"} /\ runner = "open" /\ starts > 0
            /\ setup.internal => ctl = "stopped"
            /\ running = {}
            /\ runner' = "stopped" /\ ctl' = "closing"
            /\ UNCHANGED <<connVars, timeVars, ops, running, refs,
                           acceptor, io, starts, setup>>

(* Mutation of CloseAcceptor: the acceptor is left open. *)
CloseAcceptorNot ==
  /\ ctl = "closing" /\ ctl' = "sweeping"
  /\ UNCHANGED <<connVars, timeVars, ops, running, refs, acceptor, io, runner, starts, setup>>

CloseAcceptor ==
  /\ ctl = "closing" /\ ctl' = "sweeping"
  /\ acceptor' = "closed"
  /\ ops' = {IF o.kind = "accept" /\ o.res = "pending"
             THEN [o EXCEPT !.res = "aborted"] ELSE o : o \in ops}
  /\ UNCHANGED <<connVars, timeVars, running, refs, io, runner, starts, setup>>

(* Under connections_mutex: close every connection, clear the set. *)
Sweep ==
  /\ ctl = "sweeping" /\ ctl' = "stoppingIo"
  /\ sock' = [c \in Conns |-> IF c \in connections /\ sock[c] = "open"
                              THEN "closed" ELSE sock[c]]
  /\ connections' = {}
  /\ UNCHANGED <<alive, timeVars, ops, running, refs, acceptor, io, runner, starts, setup>>

StopIo ==
  /\ ctl = "stoppingIo"
  /\ ctl' = IF runner = "open" THEN "stopped" ELSE "destroyed"
  /\ io' = IF setup.internal THEN "stopped" ELSE io
  /\ UNCHANGED <<connVars, timeVars, ops, running, refs, acceptor, runner, starts, setup>>

(* The members of the server go: with its own io_service the queued and the *)
(* pending operations and the timers go too, and with them the sessions,    *)
(* whoever still holds a Response of one.                                   *)
FreeIo == /\ ctl = "destroyed" /\ setup.internal /\ io # "freed"
          /\ io' = "freed"
          /\ ops' = {} /\ timer' = {} /\ closing' = {}
          /\ UNCHANGED <<connVars, running, refs, setup, acceptor, runner, ctl, starts>>
-----------------------------------------------------------------------------
Network == \/ \E o \in ops : PeerConnects(o) \/ Transfer(o) \/ Cancelled(o)
           \/ \E c \in Conns : Expire(c)

User == \E c \in Conns : Keep(c) \/ SendPart(c) \/ LetGo(c)

Body(h) == \/ AcceptDone(h) \/ ReadDropped(h) \/ ReadTooLarge(h) \/ ReadContent(h)
           \/ Upgrade(h) \/ Dispatch(h) \/ ResourceReturns(h)
           \/ SendDone(h) \/ FinalDone(h) \/ RejectDone(h)

Handlers == \/ \E o \in ops : Begin(o)
            \/ \E h \in running : Body(h)
            \/ \E c \in Conns : TimedOut(c) \/ Destroy(c)

Control == \/ Start \/ CallStop \/ Destruct
           \/ CloseAcceptor \/ Sweep \/ StopIo \/ FreeIo

Next == Network \/ User \/ Handlers \/ Control

Spec == Init /\ [][Next]_vars

(* asio runs the queued completions in turn: one that is queued again and   *)
(* again beside a busy pool is run in the end.  Timers expire, closing a    *)
(* socket cancels its operation, a handler and a call run on, and the user  *)
(* lets a Response go that it has kept.  The network is not fair: a peer    *)
(* may stay silent, and nobody is bound to start, to stop or to send.       *)
BeginOf(c) == \E o \in OpsOf(c) : Begin(o)
BodyOf(c) == \E h \in RunningOf(c) : Body(h)
CancelledOf(c) == \E o \in OpsOf(c) : Cancelled(o)

Fairness ==
  /\ \A c \in Conns : /\ SF_vars(BeginOf(c)) /\ WF_vars(BodyOf(c))
                      /\ SF_vars(TimedOut(c)) /\ WF_vars(Expire(c))
                      /\ WF_vars(CancelledOf(c)) /\ WF_vars(LetGo(c))
                      /\ WF_vars(Destroy(c))
  /\ WF_vars(CloseAcceptor) /\ WF_vars(Sweep) /\ WF_vars(StopIo) /\ WF_vars(FreeIo)

FairSpec == Spec /\ Fairness
-----------------------------------------------------------------------------
TypeOK ==
  /\ alive \subseteq Conns /\ connections \subseteq Conns
  /\ sock \in [Conns -> {"none", "open", "closed", "moved"}]
  /\ timer \subseteq Conns /\ closing \subseteq Conns
  /\ ops \subseteq [conn : Conns, kind : Kinds, res : Results]
  /\ running \subseteq [conn : Conns, kind : Kinds, res : Results \ {"pending"},
                       inResource : BOOLEAN]
  /\ refs \in [Conns -> SUBSET {"fn", "user"}]
  /\ setup \in Setups
  /\ acceptor \in {"open", "closed"} /\ io \in {"running", "stopped", "freed"}
  /\ runner \in {"open", "stopped"} /\ starts \in 0 .. setup.starts
  /\ ctl \in {"serving", "stopped", "closing", "sweeping", "stoppingIo", "destroyed"}

(* At most one asynchronous operation is under way on a connection, timeouts, *)
(* callbacks of the user and stop() notwithstanding: asio forbids a second    *)
(* composed read or write, and the stream buffer of the request has no lock   *)
(* (server_http.hpp:94, 422, 463).                                            *)
OneOperation == \A c \in Conns : Cardinality(OpsOf(c)) <= 1

(* The Response of a request has the connection for itself until it has been  *)
(* sent: as long as somebody holds it, the next request is not read and the   *)
(* final write is not under way (server_http.hpp:531-557).                    *)
ResponseExclusive ==
  \A c \in Conns : refs[c] # {} => \A o \in OpsOf(c) : o.kind = "send"

(* A read or write that waits for the peer is timed: its timer runs, or has   *)
(* expired and is about to close the socket.  No cancel_timeout of an earlier *)
(* handler hits the timer of a later operation (server_http.hpp:227-247).     *)
WaitIsTimed ==
  \A o \in ops : /\ o.kind # "accept" /\ o.res = "pending" /\ sock[o.conn] = "open"
                 /\ IF o.kind = "header" THEN setup.timeoutRequest ELSE setup.timeoutContent
                 => o.conn \in timer \cup closing

(* connections holds raw pointers: each is to a Connection that still exists, *)
(* so stop() never closes through a dangling one (server_http.hpp:404-411).   *)
NoDanglingConnection == connections \subseteq alive

Served(c) == OpsOf(c) \cup RunningOf(c) # {} \/ refs[c] # {}

(* stop() misses at most one connection that is served on: the one a peer had *)
(* come to, and whose socket asio assigned only when stop() had gone through  *)
(* the connections (server_http.hpp:362, 404-411, 581-591).                   *)
StopMissesOne ==
  starts = 1 /\ ctl \in {"stoppingIo", "stopped", "destroyed"}
    => \A c, d \in Conns : /\ Served(c) /\ sock[c] = "open"
                           /\ Served(d) /\ sock[d] = "open"
                           => c = d

(* After stop() has gone through the connections no socket the server has     *)
(* accepted is open, until it is started again (server_http.hpp:362, "close   *)
(* current connections").  The connection that StopMissesOne allows breaks it.*)
StopClosesAll == ctl \in {"stoppingIo", "stopped", "destroyed"}
                   => \A c \in Conns : sock[c] # "open"

(* Once the destructor has passed handler_runner->stop() no body of a handler *)
(* runs: none can use the server that is being taken apart.                   *)
NoBodyAfterDestruct == runner = "stopped" => running = {}

(* The accept operations and handlers under way are at most as many as the    *)
(* calls of start(): an accept handler that calls accept() hands its place on.*)
AcceptChains == Cardinality({x \in ops \cup running : x.kind = "accept"}) <= starts

(* stop() closes through the sockets of connections: none of them is a null  *)
(* pointer because on_upgrade has taken its socket (server_http.hpp:499).     *)
UpgradedNotSwept == \A c \in connections : sock[c] # "moved"

(* A connection whose socket has been closed, by a timeout or by stop(), goes:*)
(* keep-alive does not serve it for ever, and no handler holds on to it.  A   *)
(* server that stops its own io_service keeps what is left until it is        *)
(* started again or destroyed (server_http.hpp:533-556).                      *)
ClosedIsReleased == \A c \in Conns :
  (sock[c] = "closed") ~> (sock[c] # "closed" \/ io # "running")

(* A peer that stays silent does not hold a read for ever while the           *)
(* io_service runs (server_http.hpp:236-239, 421, 462).                       *)
ReadsEnd == \A c \in Conns :
  (\E o \in OpsOf(c) : o.kind \in {"header", "body"} /\ o.res = "pending")
    ~> \/ \A o \in OpsOf(c) : o.kind \in {"header", "body"} => o.res # "pending"
       \/ io # "running"

(* After ~ServerBase every session ends and every connection is deleted,     *)
(* whoever owns the io_service; what the io_service of the server leaves      *)
(* behind is held by a Response the user has kept beyond it                   *)
(* (server_http.hpp:317, 380-383).                                            *)
DestructReleases ==
  (ctl = "destroyed") ~> (\A c \in alive : io = "freed" /\ "user" \in refs[c])

(* After stop() the accept operations come to an end unless the server is     *)
(* started again or destroyed (server_http.hpp:362, "Stop accepting new       *)
(* requests").                                                                *)
StopEndsAccepting ==
  (ctl = "stopped" /\ starts > 0)
    ~> (ctl # "stopped" \/ \A x \in ops \cup running : x.kind # "accept")

(* The stage a connection is in: it is served as long as somebody holds its   *)
(* Response, otherwise its operation or its handler tells.                    *)
StageAt == [accept |-> "accepting", header |-> "reading", body |-> "content",
            send |-> "serving", final |-> "answering", reject |-> "rejecting"]

StageOf(c) ==
  IF c \notin alive THEN "none"
  ELSE IF refs[c] # {} THEN "serving"
  ELSE IF OpsOf(c) # {} THEN StageAt[(CHOOSE o \in OpsOf(c) : TRUE).kind]
  ELSE IF RunningOf(c) # {} THEN StageAt[(CHOOSE h \in RunningOf(c) : TRUE).kind]
  ELSE "ended"

(* Every connection goes through the stages of a session in their order: a    *)
(* request that has reached its resource is answered before the next one is   *)
(* read, and dropped only after the destructor (server_http.hpp:531-557).     *)
Sessions == INSTANCE Session WITH stage <- [c \in Conns |-> StageOf(c)],
                                  open <- runner = "open"

SessionSpec == Sessions!Spec
=============================================================================
