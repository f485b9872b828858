------------------------------ MODULE HttpClient ------------------------------
(***************************************************************************)
(* The requests of one HttpClient of client_http.hpp: the chain of         *)
(* handlers each of them is, and the pool of threads they run on.          *)
(*                                                                         *)
(* The file names members it does not declare.  The model takes            *)
(* response(connection) and request(connection) in the handlers of request *)
(* for response_read and request_write, and the connection's callback and  *)
(* on_progress for what request stores there and a user may store there.   *)
(* ClientBase::connect, handshake and write are not called.                *)
(*                                                                         *)
(* Nobody stops the scope runner of a connection, so continue_lock always  *)
(* gives a lock.  Timers are set and never waited on: they do nothing.     *)
(***************************************************************************)
EXTENDS Naturals, FiniteSets

CONSTANTS
  Requests,       \* calls of request() by the user
  Origins,        \* host, port and target
  MaxRedirects,   \* Config::max_redirects, 0 for no limit
  PoolSize        \* thread_pool_size

ASSUME PoolAssumption == PoolSize \in Nat \ {0}
ASSUME RedirectsAssumption == MaxRedirects \in Nat

VARIABLES
  phase,    \* of a request: "idle", the operation it waits for, "silent" when
            \* that never ends, "spin" in a recursion without end, "lost" when
            \* its handlers are over without a callback, and "done"
  origin,   \* where it goes
  secure,   \* whether with an ssl_context
  hops,     \* its redirection_count
  unsent,   \* whether its stream buffer holds anything
  calls,    \* calls of the user's callback
  client,   \* "up", "joining", "joined", "destructing", "gone" or "terminated"
  stopped   \* of ioc_

vars == <<phase, origin, secure, hops, unsent, calls, client, stopped>>

Init ==
  /\ phase = [r \in Requests |-> "idle"]
  /\ origin \in [Requests -> Origins]
  /\ secure \in [Requests -> BOOLEAN]
  /\ hops = [r \in Requests |-> 0]
  /\ unsent = [r \in Requests |-> FALSE]
  /\ calls = [r \in Requests |-> 0]
  /\ client = "up" /\ stopped = FALSE

Operations == {"connect", "handshake", "write", "head", "line", "chunk", "first", "content"}

\* A handler that does not return has a thread to itself.
ThreadFree == Cardinality({r \in Requests : phase[r] = "spin"}) < PoolSize

Ask(r) ==
  /\ phase[r] = "idle" /\ client \in {"up", "joining", "joined"}
  /\ phase' = [phase EXCEPT ![r] = "connect"]
  /\ unsent' = [unsent EXCEPT ![r] = TRUE]
  /\ UNCHANGED <<origin, secure, hops, calls, client, stopped>>

-----------------------------------------------------------------------------
(***************************************************************************)
(* The handlers.                                                           *)
(***************************************************************************)

Completes(r, operation) ==
  /\ phase[r] = operation
  /\ ~stopped /\ ThreadFree
  /\ client \notin {"gone", "terminated"}
  /\ UNCHANGED <<secure, client, stopped>>

GoesOn(r, operation) ==
  /\ phase' = [phase EXCEPT ![r] = operation]
  /\ UNCHANGED <<origin, hops, unsent, calls>>

CallsBack(r) ==
  /\ phase' = [phase EXCEPT ![r] = "done"]
  /\ calls' = [calls EXCEPT ![r] = @ + 1]
  /\ UNCHANGED <<origin, hops, unsent>>

\* A response that asks for another place, by a host with a port and a target.
Refused(r, place) ==
  \/ place = origin[r]
  \/ MaxRedirects > 0 /\ hops[r] + 1 > MaxRedirects

RedirectUncounted(r, place) ==
  IF Refused(r, place)
  THEN CallsBack(r)
  ELSE /\ phase' = [phase EXCEPT ![r] = "connect"]
       /\ origin' = [origin EXCEPT ![r] = place]
       /\ unsent' = [unsent EXCEPT ![r] = TRUE]
       /\ UNCHANGED <<hops, calls>>

RedirectAfterRefusal(r, place) ==
  /\ phase' = [phase EXCEPT ![r] = "connect"]
  /\ origin' = [origin EXCEPT ![r] = place]
  /\ hops' = [hops EXCEPT ![r] = IF Refused(r, place) THEN @ ELSE @ + 1]
  /\ unsent' = [unsent EXCEPT ![r] = TRUE]
  /\ calls' = [calls EXCEPT ![r] = IF Refused(r, place) THEN @ + 1 ELSE @]

Redirect(r, place) ==
  IF Refused(r, place)
  THEN CallsBack(r)
  ELSE /\ phase' = [phase EXCEPT ![r] = "connect"]
       /\ origin' = [origin EXCEPT ![r] = place]
       /\ hops' = [hops EXCEPT ![r] = @ + 1]
       /\ unsent' = [unsent EXCEPT ![r] = TRUE]
       /\ UNCHANGED calls

\* What the callback of the connection does with a response of the peer; one
\* the client makes before it has read a header asks for no other place.
Respond(r) == CallsBack(r) \/ \E place \in Origins : Redirect(r, place)

ConnectDone(r) ==
  /\ Completes(r, "connect")
  /\ \/ GoesOn(r, IF secure[r] THEN "handshake" ELSE "write")
     \/ CallsBack(r)

HandshakeDone(r) ==
  /\ Completes(r, "handshake")
  /\ GoesOn(r, "write") \/ CallsBack(r)

\* What is written is consumed, and a buffer with nothing in it written again,
\* which always succeeds.
WriteDone(r) ==
  /\ Completes(r, "write")
  /\ \/ /\ unsent[r]
        /\ unsent' = [unsent EXCEPT ![r] = FALSE]
        /\ UNCHANGED <<phase, origin, hops, calls>>
     \/ unsent[r] /\ CallsBack(r)
     \/ ~unsent[r] /\ GoesOn(r, "head")

HeadDone(r) ==
  /\ Completes(r, "head")
  /\ \/ GoesOn(r, "first")
     \/ GoesOn(r, "line")
     \/ Respond(r)
     \/ CallsBack(r)

\* read_chunked_transfer_encoded with the end of the stream or another error.
ChunksEnd(r) == Respond(r) \/ CallsBack(r)

\* After a line with length 0 nothing is read and nobody called.
LineDone(r) ==
  /\ Completes(r, "line")
  /\ \/ GoesOn(r, "chunk")
     \/ GoesOn(r, "lost")
     \/ ChunksEnd(r)

\* read_chunked_transfer_encoded calls itself as long as there is no error, and
\* with the same error code.
ChunkDone(r) ==
  /\ Completes(r, "chunk")
  /\ \/ GoesOn(r, "spin")
     \/ ChunksEnd(r)

\* read_content: nothing is called when on_progress says no.  The first read
\* can meet the end of the stream or another error.
FirstRead(r) ==
  /\ Completes(r, "first")
  /\ \/ GoesOn(r, "content")
     \/ GoesOn(r, "lost")
     \/ Respond(r)
     \/ CallsBack(r)

\* A later read asks for the bytes that are available: for none when there are
\* none, and such a read succeeds at once, at the end of the stream also.  It
\* can meet another error, of a connection that is reset, when there were some.
NextRead(r) ==
  /\ Completes(r, "content")
  /\ GoesOn(r, "content") \/ GoesOn(r, "lost") \/ CallsBack(r)

Handler(r) ==
  \/ ConnectDone(r) \/ HandshakeDone(r) \/ WriteDone(r) \/ HeadDone(r)
  \/ LineDone(r) \/ ChunkDone(r) \/ FirstRead(r) \/ NextRead(r)

\* The recursion has used up the stack of its thread: the program ends.
StackEnds(r) ==
  /\ phase[r] = "spin" /\ client # "terminated"
  /\ client' = "terminated"
  /\ UNCHANGED <<phase, origin, secure, hops, unsent, calls, stopped>>

\* The peer says nothing more, and keeps the connection.
FallSilent(r) ==
  /\ phase[r] \in Operations \ {"content"} /\ (phase[r] = "write" => unsent[r])
  /\ phase' = [phase EXCEPT ![r] = "silent"]
  /\ UNCHANGED <<origin, secure, hops, unsent, calls, client, stopped>>

-----------------------------------------------------------------------------
(***************************************************************************)
(* The pool.                                                               *)
(***************************************************************************)

Stop ==
  /\ ~stopped /\ client \in {"up", "joining", "joined"}
  /\ stopped' = TRUE
  /\ UNCHANGED <<phase, origin, secure, hops, unsent, calls, client>>

\* ioc_.run() of every thread comes back: no handler holds one, and ioc_ is
\* stopped or without work.
RunReturns ==
  /\ \A r \in Requests : phase[r] # "spin"
  /\ \/ stopped
     \/ /\ client = "destructing"
        /\ \A r \in Requests : phase[r] \notin Operations \cup {"silent"}

CallJoin ==
  /\ client = "up"
  /\ client' = "joining"
  /\ UNCHANGED <<phase, origin, secure, hops, unsent, calls, stopped>>

Joined ==
  /\ client = "joining" /\ RunReturns
  /\ client' = "joined"
  /\ UNCHANGED <<phase, origin, secure, hops, unsent, calls, stopped>>

\* Threads that have been joined are joined again, which throws in a destructor.
Destroy ==
  /\ client \in {"up", "joined"}
  /\ client' = IF client = "joined" THEN "terminated" ELSE "destructing"
  /\ UNCHANGED <<phase, origin, secure, hops, unsent, calls, stopped>>

Destroyed ==
  /\ client = "destructing" /\ RunReturns
  /\ client' = "gone"
  /\ UNCHANGED <<phase, origin, secure, hops, unsent, calls, stopped>>

Next ==
  \/ \E r \in Requests : Ask(r) \/ Handler(r) \/ StackEnds(r) \/ FallSilent(r)
  \/ Stop \/ CallJoin \/ Joined \/ Destroy \/ Destroyed

\* Operations that end are handled, a recursion without end meets the end of the
\* stack, and the threads of a pool come back.
Fairness == /\ \A r \in Requests : WF_vars(Handler(r)) /\ WF_vars(StackEnds(r))
            /\ WF_vars(Joined) /\ WF_vars(Destroyed)
Spec == Init /\ [][Next]_vars /\ Fairness

-----------------------------------------------------------------------------
(***************************************************************************)
(* Properties.                                                             *)
(***************************************************************************)

\* The user's callback is called at most once for a request, whatever fails and
\* however often the peer sends it elsewhere, and by nothing after the last of
\* its handlers.
CalledBackOnce ==
  \A r \in Requests : calls[r] = IF phase[r] = "done" THEN 1 ELSE 0

\* A request leads to its callback, also between peers that send it to each
\* other for ever, but where the chain of handlers has a hole: the peer is
\* silent (no timeout ends that), a content has begun (its last read is never
\* known for the last), a chunk has come or the last one has, on_progress has
\* said no, another request holds the only thread or has ended the program, or
\* ioc_ has been stopped.
Unanswered(r) == \/ phase[r] \in {"silent", "content", "spin", "lost"}
                 \/ stopped \/ ~ThreadFree \/ client = "terminated"
CallbackComes ==
  MaxRedirects > 0 => \A r \in Requests : phase[r] = "connect" ~> (calls[r] = 1 \/ Unanswered(r))

\* The destructor, which joins the threads of the pool, comes back: also while
\* peers send requests to each other for ever, and whoever stops ioc_ meanwhile;
\* but not from a request whose peer is silent, whose content has begun or which
\* is in the recursion.
Endless(r) == phase[r] \in {"silent", "content", "spin"}
DestructorReturns ==
  MaxRedirects > 0 =>
    client = "destructing" ~> (client = "gone" \/ \E r \in Requests : Endless(r))
===============================================================================
