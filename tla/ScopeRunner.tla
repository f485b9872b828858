----------------------------- MODULE ScopeRunner -----------------------------
(***************************************************************************)
(* SimpleWeb::ScopeRunner (utility.hpp): one atomic counter that lets asio *)
(* handlers be cancelled without stopping the io_service.  A handler runs  *)
(* its body between continue_lock and the destructor of the SharedLock it  *)
(* got; the destructor of the server calls stop and spins until no handler *)
(* is inside, and from then on continue_lock refuses everybody.            *)
(*                                                                         *)
(* Every access to the counter is a step of its own: the plain load of     *)
(* continue_lock, each compare_exchange_weak, the fetch_sub of the         *)
(* destructor.  A compare_exchange_weak that fails spuriously leaves the   *)
(* counter and "expected" as they were: it is a stuttering step.           *)
(***************************************************************************)
EXTENDS Integers, FiniteSets

CONSTANTS
  Callers,      \* activations of continue_lock; a nested one is a caller too
  Stoppers      \* threads that call stop

ASSUME CallersFinite == IsFiniteSet(Callers)

VARIABLES
  count,        \* std::atomic<long> ScopeRunner::count
  expected,     \* the local variable "expected" of each continue_lock
  pc,           \* where each caller is
  stopPc        \* where each stopper is

vars == <<count, expected, pc, stopPc>>

(* The callers that hold a SharedLock. *)
Inside == {c \in Callers : pc[c] = "inside"}

Init == /\ count = 0
        /\ expected = [c \in Callers |-> 0]
        /\ pc = [c \in Callers |-> "outside"]
        /\ stopPc = [t \in Stoppers |-> "idle"]

(* long expected = count; *)
Load(c) == /\ pc[c] \in {"outside", "refused"}
           /\ expected' = [expected EXCEPT ![c] = count]
           /\ pc' = [pc EXCEPT ![c] = "trying"]
           /\ UNCHANGED <<count, stopPc>>

(* Mutation of Acquire: a store in place of the exchange. *)
AcquireStale(c) == /\ pc[c] = "trying"
                   /\ expected[c] >= 0
                   /\ count' = expected[c] + 1
                   /\ pc' = [pc EXCEPT ![c] = "inside"]
                   /\ UNCHANGED <<expected, stopPc>>

(* The exchange succeeds: the caller gets a SharedLock. *)
Acquire(c) == /\ pc[c] = "trying"
              /\ expected[c] >= 0
              /\ count = expected[c]
              /\ count' = expected[c] + 1
              /\ pc' = [pc EXCEPT ![c] = "inside"]
              /\ UNCHANGED <<expected, stopPc>>

(* The exchange fails and reloads "expected" with the value it found. *)
Retry(c) == /\ pc[c] = "trying"
            /\ expected[c] >= 0
            /\ count # expected[c]
            /\ expected' = [expected EXCEPT ![c] = count]
            /\ UNCHANGED <<count, pc, stopPc>>

(* The loop ends on a negative value: continue_lock returns nullptr. *)
Refuse(c) == /\ pc[c] = "trying"
             /\ expected[c] < 0
             /\ pc' = [pc EXCEPT ![c] = "refused"]
             /\ UNCHANGED <<count, expected, stopPc>>

(* Mutation of Release: the lock goes and the count stays. *)
ReleaseSilent(c) == /\ pc[c] = "inside"
                    /\ pc' = [pc EXCEPT ![c] = "outside"]
                    /\ UNCHANGED <<count, expected, stopPc>>

(* ~SharedLock: count.fetch_sub(1). *)
Release(c) == /\ pc[c] = "inside"
              /\ count' = count - 1
              /\ pc' = [pc EXCEPT ![c] = "outside"]
              /\ UNCHANGED <<expected, stopPc>>

(* A thread calls stop, with its own "expected" at 0. *)
CallStop(t) == /\ stopPc[t] = "idle"
               /\ stopPc' = [stopPc EXCEPT ![t] = "spinning"]
               /\ UNCHANGED <<count, expected, pc>>

(* Mutation of Close: "expected" is not set back to 0 after a failed        *)
(* exchange, and the next one exchanges whatever count it has found.        *)
CloseEarly(t) == /\ stopPc[t] = "spinning"
                 /\ count >= 0
                 /\ count' = -1
                 /\ stopPc' = [stopPc EXCEPT ![t] = "returned"]
                 /\ UNCHANGED <<expected, pc>>

(* stop's exchange of 0 for -1 succeeds.  While count is positive it fails, *)
(* "expected" is set back to 0 and the loop turns without a state change.   *)
Close(t) == /\ stopPc[t] = "spinning"
            /\ count = 0
            /\ count' = -1
            /\ stopPc' = [stopPc EXCEPT ![t] = "returned"]
            /\ UNCHANGED <<expected, pc>>

(* stop's exchange fails on a negative count: somebody else has stopped it. *)
SeeClosed(t) == /\ stopPc[t] = "spinning"
                /\ count < 0
                /\ stopPc' = [stopPc EXCEPT ![t] = "returned"]
                /\ UNCHANGED <<count, expected, pc>>

ContinueLock(c) == Acquire(c) \/ Retry(c) \/ Refuse(c)

Stop(t) == Close(t) \/ SeeClosed(t)

Next == \/ \E c \in Callers : Load(c) \/ ContinueLock(c) \/ Release(c)
        \/ \E t \in Stoppers : CallStop(t) \/ Stop(t)

Spec == Init /\ [][Next]_vars

(* Threads that are in a call run on; nobody is bound to make a new call.  *)
Fairness == /\ \A c \in Callers : WF_vars(ContinueLock(c)) /\ WF_vars(Release(c))
            /\ \A t \in Stoppers : WF_vars(Stop(t))

FairSpec == Spec /\ Fairness
-----------------------------------------------------------------------------
Counts == Nat \cup {-1}

TypeOK == /\ count \in Counts
          /\ expected \in [Callers -> Counts]
          /\ pc \in [Callers -> {"outside", "trying", "inside", "refused"}]
          /\ stopPc \in [Stoppers -> {"idle", "spinning", "returned"}]

(* The counter is the number of SharedLocks alive, or -1 when the runner is *)
(* stopped and none is: no interleaving of exchanges and fetch_subs loses  *)
(* an increment or takes the counter below -1 (utility.hpp:299-328).        *)
CountIsInside == IF count < 0 THEN count = -1 /\ Inside = {}
                              ELSE count = Cardinality(Inside)

(* Once a call of stop has returned no handler body is running, and the     *)
(* destructor may take the server apart (utility.hpp:330, "Blocks until all *)
(* shared locks are released").                                             *)
StopExcludes == (\E t \in Stoppers : stopPc[t] = "returned") => Inside = {}

(* A stopped runner stays stopped, whatever calls and releases were under   *)
(* way (utility.hpp:330, "then prevents future shared locks").              *)
StoppedForever == [][count < 0 => count' = count]_vars

(* stop returns if from some time on nobody tries to enter a new scope: the *)
(* locks that are alive are released and the spinning exchange finds 0.     *)
StopReturns ==
  <>[](\A c \in Callers : pc[c] # "trying")
    => \A t \in Stoppers : (stopPc[t] = "spinning") ~> (stopPc[t] = "returned")

(* The counter implements the gate. *)
Gate == INSTANCE ScopeGate WITH open <- count >= 0, inside <- Inside

GateSpec == Gate!Spec
=============================================================================
