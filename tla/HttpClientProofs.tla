-------------------------- MODULE HttpClientProofs --------------------------
(***************************************************************************)
(* Theorems about module HttpClient, for any set of requests, origins, any *)
(* limit of redirects and any size of the pool.                            *)
(***************************************************************************)
EXTENDS HttpClient, TLAPS

Phases == Operations \cup {"idle", "silent", "spin", "lost", "done"}

Typed == /\ phase \in [Requests -> Phases]
         /\ calls \in [Requests -> {0, 1}]

Inv == Typed /\ CalledBackOnce

(* A handler that goes on to an operation, or to one of the holes, calls     *)
(* nobody.                                                                   *)
LEMMA GoingOn ==
  ASSUME Typed, CalledBackOnce, NEW r \in Requests, phase[r] # "done",
         NEW next \in Phases \ {"done"}, GoesOn(r, next)
  PROVE  Typed' /\ CalledBackOnce'
BY DEF GoesOn, Typed, CalledBackOnce

(* The callback is the last of a request's handlers. *)
LEMMA CallingBack ==
  ASSUME Typed, CalledBackOnce, NEW r \in Requests, phase[r] # "done", CallsBack(r)
  PROVE  Typed' /\ CalledBackOnce'
<1>1. calls[r] = 0
  BY DEF CalledBackOnce
<1> QED BY <1>1 DEF CallsBack, Typed, Phases, CalledBackOnce

(* A redirect is either refused, with a callback, or a connection anew.      *)
LEMMA Responding ==
  ASSUME Typed, CalledBackOnce, NEW r \in Requests, phase[r] # "done", Respond(r)
  PROVE  Typed' /\ CalledBackOnce'
<1>1. CASE CallsBack(r)
  BY <1>1, CallingBack
<1>2. ASSUME NEW place \in Origins, Redirect(r, place), ~ Refused(r, place)
      PROVE  Typed' /\ CalledBackOnce'
  <2>1. phase' = [phase EXCEPT ![r] = "connect"] /\ UNCHANGED calls
    BY <1>2 DEF Redirect
  <2> QED BY <2>1 DEF Typed, Phases, Operations, CalledBackOnce
<1> QED BY <1>1, <1>2 DEF Respond, Redirect

(* A handler moves its request on, calls back, or responds. *)
LEMMA Handling ==
  ASSUME Typed, CalledBackOnce, NEW r \in Requests, Handler(r)
  PROVE  Typed' /\ CalledBackOnce'
<1> USE DEF Completes, Operations, Phases
<1>1. phase[r] # "done"
  BY DEF Handler, ConnectDone, HandshakeDone, WriteDone, HeadDone, LineDone, ChunkDone, FirstRead, NextRead
<1>2. CASE ConnectDone(r)
  BY <1>1, <1>2, GoingOn, CallingBack DEF ConnectDone
<1>3. CASE HandshakeDone(r)
  BY <1>1, <1>3, GoingOn, CallingBack DEF HandshakeDone
<1>4. CASE WriteDone(r)
  <2>1. CASE UNCHANGED <<phase, origin, hops, calls>>
    BY <2>1 DEF Typed, CalledBackOnce
  <2> QED BY <1>1, <1>4, <2>1, GoingOn, CallingBack DEF WriteDone
<1>5. CASE HeadDone(r)
  BY <1>1, <1>5, GoingOn, CallingBack, Responding DEF HeadDone
<1>6. CASE LineDone(r)
  BY <1>1, <1>6, GoingOn, CallingBack, Responding DEF LineDone, ChunksEnd
<1>7. CASE ChunkDone(r)
  BY <1>1, <1>7, GoingOn, CallingBack, Responding DEF ChunkDone, ChunksEnd
<1>8. CASE FirstRead(r)
  BY <1>1, <1>8, GoingOn, CallingBack, Responding DEF FirstRead
<1>9. CASE NextRead(r)
  BY <1>1, <1>9, GoingOn, CallingBack DEF NextRead
<1> QED BY <1>2, <1>3, <1>4, <1>5, <1>6, <1>7, <1>8, <1>9 DEF Handler

(* Nobody has been called at the start. *)
LEMMA InitInv == Init => Inv
BY DEF Init, Inv, Typed, Phases, CalledBackOnce

(* A request is asked for once, and its handlers do as they should.         *)
LEMMA NextInv == Inv /\ [Next]_vars => Inv'
<1> SUFFICES ASSUME Inv, [Next]_vars PROVE Inv'
  OBVIOUS
<1> USE DEF Inv
<1>1. ASSUME NEW r \in Requests, Ask(r) \/ FallSilent(r) PROVE Inv'
  BY <1>1 DEF Ask, FallSilent, Typed, Phases, Operations, CalledBackOnce
<1>2. ASSUME NEW r \in Requests, Handler(r) PROVE Inv'
  BY <1>2, Handling
<1>3. CASE UNCHANGED <<phase, calls>>
  BY <1>3 DEF Typed, CalledBackOnce
<1>4. Stop \/ CallJoin \/ Joined \/ Destroy \/ Destroyed => UNCHANGED <<phase, calls>>
  BY DEF Stop, CallJoin, Joined, Destroy, Destroyed
<1>5. \A r \in Requests : StackEnds(r) => UNCHANGED <<phase, calls>>
  BY DEF StackEnds
<1> QED BY <1>1, <1>2, <1>3, <1>4, <1>5 DEF Next, vars

(* The invariant holds in every reachable state. *)
LEMMA InvHolds == Spec => []Inv
BY InitInv, NextInv, PTL DEF Spec

-----------------------------------------------------------------------------
(* The user's callback is called at most once for a request, and after it no *)
(* handler of the request runs (client_http.hpp:424-452).                    *)
THEOREM OneCallback == Spec => []CalledBackOnce
BY InvHolds, PTL DEF Inv
=============================================================================
