------------------------------- MODULE Session -------------------------------
(***************************************************************************)
(* What the server promises about the connections it serves: each goes     *)
(* through the stages of HTTP in their order, on its own, whatever the     *)
(* others, the timers and the program do.  A request that has reached a    *)
(* resource is answered before the next is read, and none that has is      *)
(* dropped as long as the server is there.  Once it is gone no session     *)
(* begins and none goes back to reading.                                   *)
(***************************************************************************)
CONSTANT Conns          \* the connections

VARIABLES
  stage,                \* where each connection is
  open                  \* the server has not been destroyed

sessionVars == <<stage, open>>

Stages == {"none", "accepting", "reading", "content", "serving", "answering", "rejecting", "ended"}

Init == /\ stage = [c \in Conns |-> "none"]
        /\ open = TRUE

(* The moves of a connection from one stage to another. *)
Await(from, to)   == open /\ from = "none" /\ to = "accepting"
Greet(from, to)   == open /\ from = "accepting" /\ to = "reading"
ReadOn(from, to)  == open /\ from = "reading" /\ to = "content"
Serve(from, to)   == open /\ from \in {"reading", "content"} /\ to = "serving"
Reject(from, to)  == open /\ from \in {"reading", "content"} /\ to = "rejecting"
Answer(from, to)  == from = "serving" /\ to = "answering"
Again(from, to)   == open /\ from = "answering" /\ to = "reading"
End(from, to)     == from \in Stages \ {"none", "serving"} /\ to = "ended"
Drop(from, to)    == ~open /\ from = "serving" /\ to = "ended"
Release(from, to) == from = "ended" /\ to = "none"

Move(from, to) ==
  \/ Await(from, to) \/ Greet(from, to) \/ ReadOn(from, to) \/ Serve(from, to) \/ Reject(from, to)
  \/ Answer(from, to) \/ Again(from, to) \/ End(from, to) \/ Drop(from, to) \/ Release(from, to)

(* Several may move at once: a handler of accept turns to the next peer,    *)
(* an io_service that goes ends every session.                              *)
Next == /\ DOMAIN stage' = Conns
        /\ \A c \in Conns : LET from == stage[c]
                               to == stage'[c]
                           IN  from = to \/ Move(from, to)
        /\ open' => open

Spec == Init /\ [][Next]_sessionVars
=============================================================================
