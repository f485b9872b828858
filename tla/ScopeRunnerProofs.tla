-------------------------- MODULE ScopeRunnerProofs --------------------------
(***************************************************************************)
(* Proofs about ScopeRunner, for every finite set of callers and every set *)
(* of stoppers.                                                            *)
(***************************************************************************)
EXTENDS ScopeRunner, FiniteSetTheorems, TLAPS

(* The types the arithmetic of the steps keeps by itself; that no count is  *)
(* below -1 follows from the inductive invariant only.                      *)
Typed == /\ count \in Int
         /\ expected \in [Callers -> Int]
         /\ pc \in [Callers -> {"outside", "trying", "inside", "refused"}]
         /\ stopPc \in [Stoppers -> {"idle", "spinning", "returned"}]

(* continue_lock and ~SharedLock leave the stoppers alone, and stop the       *)
(* callers: a step keeps the types of the one side, and the counter.         *)
LEMMA StepTyped ==
  ASSUME Typed, [Next]_vars
  PROVE  Typed'
<1> USE DEF Typed
<1> SUFFICES ASSUME Next PROVE Typed'
  BY DEF vars
<1>1. CASE \E c \in Callers : Load(c) \/ ContinueLock(c) \/ Release(c)
  <2>1. PICK c \in Callers : Load(c) \/ Acquire(c) \/ Retry(c) \/ Refuse(c) \/ Release(c)
    BY <1>1 DEF ContinueLock
  <2>2. count' \in Int /\ stopPc' = stopPc
    BY <2>1 DEF Load, Acquire, Retry, Refuse, Release
  <2>3. expected' = expected \/ expected' = [expected EXCEPT ![c] = count]
    BY <2>1 DEF Load, Acquire, Retry, Refuse, Release
  <2>4. \E at \in {"outside", "trying", "inside", "refused"} : pc' = pc \/ pc' = [pc EXCEPT ![c] = at]
    BY <2>1 DEF Load, Acquire, Retry, Refuse, Release
  <2> QED BY <2>2, <2>3, <2>4
<1>2. CASE \E t \in Stoppers : CallStop(t) \/ Stop(t)
  <2>1. count' \in {count, -1} /\ UNCHANGED <<expected, pc>>
    BY <1>2 DEF CallStop, Stop, Close, SeeClosed
  <2>2. stopPc' \in [Stoppers -> {"idle", "spinning", "returned"}]
    BY <1>2 DEF CallStop, Stop, Close, SeeClosed
  <2> QED BY <2>1, <2>2
<1> QED BY <1>1, <1>2 DEF Next

LEMMA IntegerTypes == Spec => []Typed
<1>1. Init => Typed
  BY DEF Init, Typed
<1> QED BY <1>1, StepTyped, PTL DEF Spec
-----------------------------------------------------------------------------
(* A set of callers is finite, so its cardinality counts.                   *)
LEMMA InsideFinite == IsFiniteSet(Inside) /\ Cardinality(Inside) \in Nat
<1>1. Inside \subseteq Callers
  BY DEF Inside
<1>2. IsFiniteSet(Inside)
  BY <1>1, CallersFinite, FS_Subset
<1>3. QED
  BY <1>2, FS_CardinalityType

(* The caller that gets a lock is the one element that Inside gains.        *)
LEMMA AcquireAdds ==
  ASSUME Typed, NEW c \in Callers, Acquire(c)
  PROVE  /\ Inside' = Inside \cup {c}
         /\ Cardinality(Inside') = Cardinality(Inside) + 1
<1>1. Inside' = Inside \cup {c} /\ c \notin Inside
  BY DEF Acquire, Inside, Typed
<1>2. QED
  BY <1>1, InsideFinite, FS_AddElement

(* The caller that drops its lock is the one element that Inside loses.     *)
LEMMA ReleaseRemoves ==
  ASSUME Typed, NEW c \in Callers, Release(c)
  PROVE  /\ Inside' = Inside \ {c} /\ c \in Inside
         /\ Cardinality(Inside') = Cardinality(Inside) - 1
<1>1. Inside' = Inside \ {c} /\ c \in Inside
  BY DEF Release, Inside, Typed
<1>2. QED
  BY <1>1, InsideFinite, FS_RemoveElement

(* No other step changes who is inside. *)
LEMMA InsideKept ==
  ASSUME Typed, [Next]_vars,
         ~ \E c \in Callers : Acquire(c) \/ Release(c)
  PROVE  Inside' = Inside
<1>1. ASSUME NEW c \in Callers, Load(c) \/ Retry(c) \/ Refuse(c)
      PROVE  Inside' = Inside
  BY <1>1 DEF Load, Retry, Refuse, Inside, Typed
<1>2. ASSUME NEW t \in Stoppers, CallStop(t) \/ Stop(t)
      PROVE  Inside' = Inside
  BY <1>2 DEF CallStop, Stop, Close, SeeClosed, Inside
<1>3. CASE UNCHANGED vars
  BY <1>3 DEF vars, Inside
<1>4. QED
  BY <1>1, <1>2, <1>3 DEF Next, ContinueLock

(* A call of stop returns only when the counter is negative. *)
ReturnedMeansStopped ==
  (\E t \in Stoppers : stopPc[t] = "returned") => count < 0

IInv == CountIsInside /\ ReturnedMeansStopped

LEMMA InductiveInvariant ==
  ASSUME Typed, IInv, [Next]_vars
  PROVE  IInv'
<1> USE DEF IInv
<1>1. ASSUME NEW c \in Callers, Acquire(c) PROVE IInv'
  <2>1. count >= 0 /\ count' = count + 1 /\ stopPc' = stopPc
    BY <1>1 DEF Acquire, Typed
  <2>2. Cardinality(Inside') = count + 1
    BY <1>1, <2>1, AcquireAdds DEF CountIsInside, Typed
  <2>3. CountIsInside'
    BY <2>1, <2>2 DEF CountIsInside, Typed
  <2>4. ReturnedMeansStopped'
    BY <2>1 DEF ReturnedMeansStopped, Typed
  <2>5. QED
    BY <2>3, <2>4
<1>2. ASSUME NEW c \in Callers, Release(c) PROVE IInv'
  <2>1. c \in Inside /\ count >= 0
    BY <1>2, ReleaseRemoves DEF CountIsInside, Typed
  <2>2. Cardinality(Inside) = count /\ Cardinality(Inside') = count - 1
    BY <1>2, <2>1, ReleaseRemoves DEF CountIsInside, Typed
  <2>3. Cardinality(Inside) # 0
    BY <2>1, InsideFinite, FS_EmptySet
  <2>4. CountIsInside'
    BY <1>2, <2>2, <2>3, InsideFinite DEF CountIsInside, Release, Typed
  <2>5. ReturnedMeansStopped'
    BY <1>2, <2>1 DEF ReturnedMeansStopped, Release, Typed
  <2>6. QED
    BY <2>4, <2>5
<1>3. ASSUME NEW t \in Stoppers, Close(t) PROVE IInv'
  <2>1. Inside = {}
    BY <1>3, InsideFinite, FS_EmptySet DEF CountIsInside, Close
  <2>2. Inside' = Inside
    BY <1>3 DEF Close, Inside
  <2>3. QED
    BY <1>3, <2>1, <2>2 DEF CountIsInside, ReturnedMeansStopped, Close
<1>4. ASSUME UNCHANGED count, Inside' = Inside,
             \A t \in Stoppers : stopPc'[t] = "returned"
                                   => stopPc[t] = "returned" \/ count < 0
      PROVE  IInv'
  BY <1>4 DEF CountIsInside, ReturnedMeansStopped
<1>5. CASE /\ ~ \E c \in Callers : Acquire(c) \/ Release(c)
           /\ ~ \E t \in Stoppers : Close(t)
  <2>1. Inside' = Inside
    BY <1>5, InsideKept
  <2>2. ASSUME NEW c \in Callers, Load(c) \/ Retry(c) \/ Refuse(c)
        PROVE  IInv'
    BY <2>1, <2>2, <1>4 DEF Load, Retry, Refuse
  <2>3. ASSUME NEW t \in Stoppers, CallStop(t) \/ SeeClosed(t)
        PROVE  IInv'
    BY <2>1, <2>3, <1>4 DEF CallStop, SeeClosed, Typed
  <2>4. CASE UNCHANGED vars
    BY <2>1, <2>4, <1>4 DEF vars
  <2>5. QED
    BY <1>5, <2>2, <2>3, <2>4 DEF Next, ContinueLock, Stop
<1>6. QED
  BY <1>1, <1>2, <1>3, <1>5

LEMMA InvariantHolds == Spec => []IInv
<1>1. Init => IInv
  <2> SUFFICES ASSUME Init PROVE IInv
    OBVIOUS
  <2>1. Inside = {}
    BY DEF Init, Inside
  <2>2. QED
    BY <2>1, FS_EmptySet
       DEF Init, IInv, CountIsInside, ReturnedMeansStopped
<1>2. Typed /\ IInv /\ [Next]_vars => IInv'
  BY InductiveInvariant
<1>3. QED
  BY <1>1, <1>2, IntegerTypes, PTL DEF Spec
-----------------------------------------------------------------------------
(* Every variable keeps its type: the counter and what the callers have read*)
(* of it are never below -1 (utility.hpp:300, 319-328).                     *)
THEOREM TypeCorrect == Spec => []TypeOK
<1>1. Typed /\ IInv => count \in Counts
  BY InsideFinite DEF Typed, IInv, CountIsInside, Counts
<1>2. Init => TypeOK
  BY DEF Init, TypeOK, Counts
<1>3. TypeOK /\ Typed /\ IInv /\ [Next]_vars /\ Typed' /\ IInv' => TypeOK'
  <2> SUFFICES ASSUME TypeOK, Typed, IInv, [Next]_vars, Typed', IInv'
               PROVE  TypeOK'
    OBVIOUS
  <2>1. count' \in Counts
    <3>1. (Typed /\ IInv => count \in Counts)'
      BY <1>1, PTL
    <3>2. QED
      BY <3>1
  <2>2. expected' \in [Callers -> Counts]
    <3>1. ASSUME NEW c \in Callers, Load(c) \/ Retry(c)
          PROVE  expected' \in [Callers -> Counts]
      BY <3>1 DEF Load, Retry, TypeOK
    <3>2. CASE ~ \E c \in Callers : Load(c) \/ Retry(c)
      BY <3>2 DEF Next, ContinueLock, Acquire, Refuse, Release, CallStop,
                  Stop, Close, SeeClosed, vars, TypeOK
    <3>3. QED
      BY <3>1, <3>2
  <2>3. QED
    BY <2>1, <2>2 DEF TypeOK, Typed
<1>4. QED
  BY <1>2, <1>3, IntegerTypes, InvariantHolds, PTL DEF Spec

(* The counter always equals the number of SharedLocks alive, or is -1 with *)
(* none alive (ScopeRunner::continue_lock and stop, utility.hpp:319-339).   *)
THEOREM CounterCorrect == Spec => []CountIsInside
<1>1. IInv => CountIsInside
  BY DEF IInv
<1>2. QED
  BY <1>1, InvariantHolds, PTL

(* Whoever has returned from stop knows that no handler body is running     *)
(* (the guarantee ~ServerBase relies on, server_http.hpp:380-383).          *)
THEOREM StopIsExclusive == Spec => []StopExcludes
<1>1. Typed /\ IInv => StopExcludes
  BY DEF Typed, IInv, CountIsInside, ReturnedMeansStopped, StopExcludes
<1>2. QED
  BY <1>1, InvariantHolds, IntegerTypes, PTL

(* After a stop the counter never moves again (utility.hpp:330). *)
THEOREM StopIsPermanent == Spec => StoppedForever
<1>1. Typed /\ IInv /\ [Next]_vars => [count < 0 => count' = count]_vars
  <2> SUFFICES ASSUME Typed, IInv, [Next]_vars, count < 0
               PROVE  count' = count
    OBVIOUS
  <2>1. Inside = {}
    BY DEF IInv, CountIsInside
  <2>2. ASSUME NEW c \in Callers, Load(c) \/ ContinueLock(c) \/ Release(c)
        PROVE  count' = count
    BY <2>1, <2>2
       DEF Load, ContinueLock, Acquire, Retry, Refuse, Release, Inside, Typed
  <2>3. ASSUME NEW t \in Stoppers, CallStop(t) \/ Stop(t)
        PROVE  count' = count
    BY <2>3 DEF CallStop, Stop, Close, SeeClosed
  <2>4. QED
    BY <2>2, <2>3 DEF Next, vars
<1>2. QED
  BY <1>1, InvariantHolds, IntegerTypes, PTL DEF Spec, StoppedForever
-----------------------------------------------------------------------------
(* The counter and its exchanges implement the abstract gate: every step is *)
(* an Enter, a Leave, a Close or leaves the gate as it is.                  *)
THEOREM Refinement == Spec => GateSpec
<1>1. Init => Gate!Init
  BY DEF Init, Gate!Init, Inside
<1>2. Typed /\ IInv /\ [Next]_vars => [Gate!Next]_(Gate!gateVars)
  <2> SUFFICES ASSUME Typed, IInv, [Next]_vars
               PROVE  [Gate!Next]_(Gate!gateVars)
    OBVIOUS
  <2>1. ASSUME NEW c \in Callers, Acquire(c) PROVE Gate!Enter(c)
    BY <2>1, AcquireAdds DEF Gate!Enter, Acquire, Inside, Typed
  <2>2. ASSUME NEW c \in Callers, Release(c) PROVE Gate!Leave(c)
    <3>1. c \in Inside /\ Inside' = Inside \ {c} /\ count >= 0
      BY <2>2, ReleaseRemoves DEF IInv, CountIsInside, Typed
    <3>2. Cardinality(Inside) # 0 /\ Cardinality(Inside) \in Nat
      BY <3>1, InsideFinite, FS_EmptySet
    <3>3. (count >= 0)' = (count >= 0)
      BY <2>2, <3>1, <3>2 DEF IInv, CountIsInside, Release, Typed
    <3>4. QED
      BY <3>1, <3>3 DEF Gate!Leave
  <2>3. ASSUME NEW t \in Stoppers, Close(t) PROVE Gate!Close
    <3>1. Inside = {} /\ Inside' = {}
      BY <2>3, InsideFinite, FS_EmptySet DEF IInv, CountIsInside, Close, Inside
    <3>2. QED
      BY <2>3, <3>1 DEF Gate!Close, Close
  <2>4. CASE /\ ~ \E c \in Callers : Acquire(c) \/ Release(c)
             /\ ~ \E t \in Stoppers : Close(t)
    <3>1. Inside' = Inside
      BY <2>4, InsideKept
    <3>2. count' = count
      BY <2>4 DEF Next, vars, Load, ContinueLock, Retry, Refuse, CallStop,
                  Stop, SeeClosed
    <3>3. QED
      BY <3>1, <3>2 DEF Gate!gateVars
  <2>5. QED
    BY <2>1, <2>2, <2>3, <2>4 DEF Gate!Next
<1>3. QED
  BY <1>1, <1>2, InvariantHolds, IntegerTypes, PTL
     DEF Spec, GateSpec, Gate!Spec
=============================================================================
