------------------------- MODULE DispatchQueue_proof -------------------------
(***************************************************************************)
(* Proofs that the safety invariants of DispatchQueue hold for every set   *)
(* of tasks, every assignment of sessions and every MaxParallel.           *)
(***************************************************************************)
EXTENDS DispatchQueue, TLAPS, FiniteSetTheorems, SequenceTheorems

Positions == 1..Len(items)

(* A task is queued once, is not queued while it is in flight, and is in    *)
(* neither place before it is submitted.                                    *)
OnePlace ==
    /\ \A i, j \in Positions : items[i] = items[j] => i = j
    /\ \A i \in Positions : items[i] \notin inFlight
    /\ \A t \in Tasks : put[t] = "new" =>
          t \notin inFlight /\ \A i \in Positions : items[i] # t

IInv == TypeOK /\ OnePlace /\ UnfinishedCounts /\ SessionSerial
-----------------------------------------------------------------------------
(* The set of tasks in flight is finite. *)
LEMMA InFlightFinite ==
    ASSUME TypeOK
    PROVE  IsFiniteSet(inFlight) /\ Cardinality(inFlight) \in Nat
<1>1. IsFiniteSet(inFlight)
  BY QueueAssumption, FS_Subset DEF QueueAssumption, TypeOK
<1> QED  BY <1>1, FS_CardinalityType

(* Taking the i-th item out keeps the others, in their order. *)
LEMMA RemoveItemFacts ==
    ASSUME items \in Seq(Tasks), NEW i \in Positions
    PROVE  /\ RemoveItem(i) \in Seq(Tasks)
           /\ Len(RemoveItem(i)) = Len(items) - 1
           /\ \A k \in 1..(Len(items) - 1) :
                 RemoveItem(i)[k] = items[IF k < i THEN k ELSE k + 1]
<1> DEFINE left == SubSeq(items, 1, i - 1)
           right == SubSeq(items, i + 1, Len(items))
<1>0. Len(items) \in Nat /\ \A k \in 1..Len(items) : items[k] \in Tasks
  BY LenProperties, ElementOfSeq
<1>1. /\ left \in Seq(Tasks)
      /\ Len(left) = i - 1
      /\ \A k \in 1..(i - 1) : left[k] = items[k]
  <2>1. \A k \in 1..(i - 1) : items[k] \in Tasks
    BY <1>0 DEF Positions
  <2>2. /\ left \in Seq(Tasks)
        /\ Len(left) = IF 1 <= i - 1 THEN (i - 1) - 1 + 1 ELSE 0
        /\ \A k \in 1..((i - 1) - 1 + 1) : left[k] = items[1 + k - 1]
    BY <1>0, <2>1, SubSeqProperties DEF Positions
  <2> QED  BY <1>0, <2>2 DEF Positions
<1>2. /\ right \in Seq(Tasks)
      /\ Len(right) = Len(items) - i
      /\ \A k \in 1..(Len(items) - i) : right[k] = items[i + k]
  <2>1. \A k \in (i + 1)..Len(items) : items[k] \in Tasks
    BY <1>0 DEF Positions
  <2>2. /\ right \in Seq(Tasks)
        /\ Len(right) = IF i + 1 <= Len(items) THEN Len(items) - (i + 1) + 1 ELSE 0
        /\ \A k \in 1..(Len(items) - (i + 1) + 1) : right[k] = items[(i + 1) + k - 1]
    BY <1>0, <2>1, SubSeqProperties DEF Positions
  <2> QED  BY <1>0, <2>2 DEF Positions
<1>3. /\ left \o right \in Seq(Tasks)
      /\ Len(left \o right) = Len(left) + Len(right)
      /\ \A k \in 1..(Len(left) + Len(right)) :
            (left \o right)[k] = IF k <= Len(left) THEN left[k] ELSE right[k - Len(left)]
  BY <1>1, <1>2, ConcatProperties
<1>4. RemoveItem(i) = left \o right
  BY DEF RemoveItem
<1> HIDE DEF left, right
<1>5. ASSUME NEW k \in 1..(Len(items) - 1)
      PROVE  (left \o right)[k] = items[IF k < i THEN k ELSE k + 1]
  <2>1. CASE k < i
    BY <1>0, <1>1, <1>2, <1>3, <2>1 DEF Positions
  <2>2. CASE ~(k < i)
    BY <1>0, <1>1, <1>2, <1>3, <2>2 DEF Positions
  <2> QED  BY <2>1, <2>2
<1>6. Len(left \o right) = Len(items) - 1
  BY <1>0, <1>1, <1>2, <1>3 DEF Positions
<1> QED  BY <1>3, <1>4, <1>5, <1>6
-----------------------------------------------------------------------------
(* The counter and the two parts of SessionSerial, step by step. *)

LEMMA InitIInv == Init => IInv
<1> SUFFICES ASSUME Init PROVE IInv
  OBVIOUS
<1>1. items = <<>> /\ Len(items) = 0 /\ inFlight = {} /\ Cardinality(inFlight) = 0
  BY FS_EmptySet DEF Init
<1>2. TypeOK
  <2>1. items \in Seq(Tasks)
    BY <1>1, EmptySeq
  <2> QED  BY <2>1 DEF Init, TypeOK
<1>3. OnePlace
  BY <1>1 DEF OnePlace, Positions
<1>4. UnfinishedCounts
  BY <1>1 DEF UnfinishedCounts, Init
<1>5. SessionSerial
  BY <1>1, QueueAssumption DEF SessionSerial, QueueAssumption
<1> QED  BY <1>2, <1>3, <1>4, <1>5 DEF IInv

LEMMA PushIInv ==
    ASSUME IInv, NEW t \in Tasks, Push(t)
    PROVE  IInv'
<1> USE DEF IInv
<1>1. Cardinality(inFlight) \in Nat /\ Len(items) \in Nat
  BY InFlightFinite, LenProperties DEF TypeOK
<1>2. /\ items' \in Seq(Tasks)
      /\ Len(items') = Len(items) + 1
      /\ \A k \in 1..Len(items) : items'[k] = items[k]
      /\ items'[Len(items) + 1] = t
  BY AppendProperties DEF Push, TypeOK
<1>3. put[t] = "new" /\ put' = [put EXCEPT ![t] = "pushed"] /\ inFlight' = inFlight
  BY DEF Push, consumer
<1>4. TypeOK'
  BY <1>2 DEF TypeOK, Push, consumer, joiner
<1>5. OnePlace'
  <2>1. t \notin inFlight /\ \A i \in 1..Len(items) : items[i] # t
    BY <1>3 DEF OnePlace, Positions
  <2>2. ASSUME NEW i \in 1..Len(items')
        PROVE  i = Len(items) + 1 \/ i \in 1..Len(items)
    BY <1>1, <1>2
  <2>3. \A i, j \in 1..Len(items') : items'[i] = items'[j] => i = j
    BY <1>1, <1>2, <2>1, <2>2 DEF OnePlace, Positions
  <2>4. \A i \in 1..Len(items') : items'[i] \notin inFlight'
    BY <1>2, <1>3, <2>1, <2>2 DEF OnePlace, Positions
  <2>5. ASSUME NEW u \in Tasks, put'[u] = "new"
        PROVE  u \notin inFlight' /\ \A i \in 1..Len(items') : items'[i] # u
    <3>1. u # t /\ put[u] = "new"
      BY <1>3, <2>5 DEF TypeOK
    <3> QED  BY <1>2, <1>3, <2>2, <3>1 DEF OnePlace, Positions
  <2> QED  BY <2>3, <2>4, <2>5 DEF OnePlace, Positions
<1>6. UnfinishedCounts'
  BY <1>1, <1>2, <1>3 DEF UnfinishedCounts, Push
<1>7. SessionSerial'
  BY <1>3 DEF SessionSerial
<1> QED  BY <1>4, <1>5, <1>6, <1>7

LEMMA TakeIInv ==
    ASSUME IInv, NEW i \in DOMAIN items, Take(i)
    PROVE  IInv'
<1> USE DEF IInv
<1>0. Len(items) \in Nat /\ i \in Positions /\ items[i] \in Tasks
  BY LenProperties, ElementOfSeq DEF TypeOK, Positions
<1>1. /\ items' \in Seq(Tasks)
      /\ Len(items') = Len(items) - 1
      /\ \A k \in 1..(Len(items) - 1) : items'[k] = items[IF k < i THEN k ELSE k + 1]
  BY <1>0, RemoveItemFacts DEF Take, TypeOK
<1>2. /\ inFlight' = inFlight \cup {items[i]}
      /\ items[i] \notin inFlight
      /\ IsFiniteSet(inFlight) /\ Cardinality(inFlight) \in Nat
      /\ Cardinality(inFlight') = Cardinality(inFlight) + 1
  BY <1>0, InFlightFinite, FS_AddElement DEF Take, OnePlace
<1>3. unfinished' = unfinished /\ put' = put /\ UNCHANGED joiner
  BY DEF Take
<1>4. TypeOK'
  BY <1>0, <1>1, <1>2, <1>3 DEF TypeOK, Take, DropArrived, joiner
<1>5. OnePlace'
  <2>1. ASSUME NEW k \in 1..Len(items')
        PROVE  \E m \in Positions : m # i /\ items'[k] = items[m] /\ m = IF k < i THEN k ELSE k + 1
    <3> DEFINE m == IF k < i THEN k ELSE k + 1
    <3>1. k \in 1..(Len(items) - 1) /\ i \in Nat  BY <1>0, <1>1 DEF Positions
    <3>2. items'[k] = items[m]  BY <1>1, <3>1
    <3>3. m \in Positions /\ m # i  BY <1>0, <3>1 DEF Positions
    <3> QED  BY <3>2, <3>3
  <2>2. \A k, n \in 1..Len(items') : items'[k] = items'[n] => k = n
    <3> SUFFICES ASSUME NEW k \in 1..Len(items'), NEW n \in 1..Len(items'), items'[k] = items'[n]
                 PROVE  k = n
      OBVIOUS
    <3>1. PICK km \in Positions : items'[k] = items[km] /\ km = IF k < i THEN k ELSE k + 1
      BY <2>1
    <3>2. PICK nm \in Positions : items'[n] = items[nm] /\ nm = IF n < i THEN n ELSE n + 1
      BY <2>1
    <3>3. km = nm
      BY <3>1, <3>2 DEF OnePlace
    <3> QED  BY <1>0, <3>1, <3>2, <3>3 DEF Positions
  <2>3. \A k \in 1..Len(items') : items'[k] \notin inFlight'
    BY <1>0, <1>2, <2>1 DEF OnePlace
  <2>4. ASSUME NEW u \in Tasks, put'[u] = "new"
        PROVE  u \notin inFlight' /\ \A k \in 1..Len(items') : items'[k] # u
    BY <1>0, <1>2, <1>3, <2>1, <2>4 DEF OnePlace
  <2> QED  BY <2>2, <2>3, <2>4 DEF OnePlace, Positions
<1>6. UnfinishedCounts'
  BY <1>0, <1>1, <1>2, <1>3 DEF UnfinishedCounts
<1>7. SessionSerial'
  <2>1. Cardinality(inFlight') <= MaxParallel
    BY <1>2, QueueAssumption DEF Take, CanTake, QueueAssumption
  <2>2. \A u \in inFlight : SessionOf[u] # SessionOf[items[i]]
    <3>1. CASE Serial
      <4>1. Cardinality(inFlight) = 0
        BY <1>2, <3>1 DEF Take, CanTake, Serial
      <4> QED  BY <1>2, <4>1, FS_EmptySet
    <3>2. CASE ~Serial
      BY <3>2 DEF Take, CanTake, First, Eligible
    <3> QED  BY <3>1, <3>2
  <2> QED  BY <1>2, <2>1, <2>2 DEF SessionSerial
<1> QED  BY <1>4, <1>5, <1>6, <1>7

LEMMA FinishIInv ==
    ASSUME IInv, NEW t \in Tasks, Finish(t)
    PROVE  IInv'
<1> USE DEF IInv
<1>1. /\ t \in inFlight /\ inFlight' = inFlight \ {t}
      /\ items' = items /\ put' = put /\ unfinished' = unfinished - 1
  BY DEF Finish
<1>2. /\ IsFiniteSet(inFlight) /\ Cardinality(inFlight) \in Nat /\ Len(items) \in Nat
      /\ Cardinality(inFlight') = Cardinality(inFlight) - 1
  BY <1>1, InFlightFinite, FS_RemoveElement, LenProperties DEF TypeOK
<1>3. Cardinality(inFlight) # 0
  BY <1>1, <1>2, FS_EmptySet
<1>4. UnfinishedCounts'
  BY <1>1, <1>2 DEF UnfinishedCounts
<1>5. TypeOK'
  <2>1. unfinished' \in Nat
    BY <1>1, <1>2, <1>3 DEF UnfinishedCounts
  <2> QED  BY <1>1, <2>1 DEF TypeOK, Finish, DropArrived, joiner
<1>6. OnePlace'
  BY <1>1 DEF OnePlace, Positions
<1>7. SessionSerial'
  BY <1>1, <1>2, QueueAssumption DEF SessionSerial, QueueAssumption
<1> QED  BY <1>4, <1>5, <1>6, <1>7

LEMMA AbortIInv ==
    ASSUME IInv, Abort
    PROVE  IInv'
<1> USE DEF IInv
<1>1. /\ inFlight' = {} /\ Cardinality(inFlight') = 0
      /\ items' = items /\ put' = put /\ unfinished' = unfinished - Cardinality(inFlight)
  BY FS_EmptySet DEF Abort
<1>2. Cardinality(inFlight) \in Nat /\ Len(items) \in Nat
  BY InFlightFinite, LenProperties DEF TypeOK
<1>3. UnfinishedCounts'
  BY <1>1, <1>2 DEF UnfinishedCounts
<1>4. TypeOK'
  <2>1. unfinished' \in Nat
    BY <1>1, <1>2 DEF UnfinishedCounts
  <2> QED  BY <1>1, <2>1 DEF TypeOK, Abort, DropArrived, joiner
<1>5. OnePlace'
  BY <1>1 DEF OnePlace, Positions
<1>6. SessionSerial'
  BY <1>1, QueueAssumption DEF SessionSerial, QueueAssumption
<1> QED  BY <1>3, <1>4, <1>5, <1>6

(* The steps that leave the queue, the counter and the tasks in flight      *)
(* alone.                                                                   *)
Elsewhere ==
    \/ \E t \in Tasks : NotifyOne(t)
    \/ Register \/ Park \/ Wake \/ SignalIdle
    \/ JoinRegister \/ JoinCheck \/ JoinWake
    \/ UNCHANGED vars

LEMMA ElsewhereIInv ==
    ASSUME IInv, Elsewhere
    PROVE  IInv'
<1> USE DEF IInv
<1>1. /\ items' = items /\ inFlight' = inFlight /\ unfinished' = unfinished
      /\ \A u \in Tasks : put'[u] = "new" => put[u] = "new"
  BY DEF Elsewhere, NotifyOne, Register, Park, Wake, SignalIdle, JoinRegister, JoinCheck,
         JoinWake, consumer, joiner, vars, TypeOK
<1>2. TypeOK'
  <2> USE DEF TypeOK, consumer, joiner
  <2>1. ASSUME NEW t \in Tasks, NotifyOne(t) PROVE TypeOK'
    BY <2>1 DEF NotifyOne
  <2>2. CASE Register
    BY <2>2 DEF Register
  <2>3. CASE Park
    BY <2>3 DEF Park
  <2>4. CASE Wake
    BY <2>4 DEF Wake
  <2>5. CASE SignalIdle
    BY <2>5 DEF SignalIdle
  <2>6. CASE JoinRegister
    BY <2>6 DEF JoinRegister
  <2>7. CASE JoinCheck
    BY <2>7 DEF JoinCheck
  <2>8. CASE JoinWake
    BY <2>8 DEF JoinWake
  <2>9. CASE UNCHANGED vars
    BY <2>9 DEF vars
  <2> QED  BY <2>1, <2>2, <2>3, <2>4, <2>5, <2>6, <2>7, <2>8, <2>9 DEF Elsewhere
<1>3. OnePlace'
  BY <1>1 DEF OnePlace, Positions
<1>4. UnfinishedCounts'
  BY <1>1 DEF UnfinishedCounts
<1>5. SessionSerial'
  BY <1>1 DEF SessionSerial
<1> QED  BY <1>2, <1>3, <1>4, <1>5

LEMMA NextIInv == IInv /\ [Next]_vars => IInv'
<1> SUFFICES ASSUME IInv, [Next]_vars PROVE IInv'
  OBVIOUS
<1>1. ASSUME NEW t \in Tasks, Push(t) PROVE IInv'
  BY <1>1, PushIInv
<1>2. ASSUME NEW i \in DOMAIN items, Take(i) PROVE IInv'
  BY <1>2, TakeIInv
<1>3. ASSUME NEW t \in Tasks, Finish(t) PROVE IInv'
  BY <1>3, FinishIInv
<1>4. CASE Abort
  BY <1>4, AbortIInv
<1>5. CASE Elsewhere
  BY <1>5, ElsewhereIInv
<1> QED  BY <1>1, <1>2, <1>3, <1>4, <1>5 DEF Next, Dispatch, Elsewhere

LEMMA InductiveInvariant == Spec => []IInv
  BY InitIInv, NextIInv, PTL DEF Spec, SafeSpec

(* The variables keep their types, whatever tasks and sessions there are:   *)
(* task_done's saturating_sub never meets a counter that is already zero.   *)
THEOREM TypeCorrect == Spec => []TypeOK
<1>1. IInv => TypeOK
  BY DEF IInv
<1> QED  BY <1>1, InductiveInvariant, PTL

(* The counter join() waits for is the number of queued tasks and tasks in  *)
(* flight, however pushes, takes, ends and the abort interleave.            *)
THEOREM CountsUnfinished == Spec => []UnfinishedCounts
<1>1. IInv => UnfinishedCounts
  BY DEF IInv
<1> QED  BY <1>1, InductiveInvariant, PTL

(* Two tasks of one session are never in flight together, and at most       *)
(* MaxParallel tasks are.                                                   *)
THEOREM SessionsAreSerial == Spec => []SessionSerial
<1>1. IInv => SessionSerial
  BY DEF IInv
<1> QED  BY <1>1, InductiveInvariant, PTL
-----------------------------------------------------------------------------
(* The two wakeup invariants are inductive beside IInv. *)

LEMMA NoMissedWorkStep == IInv /\ NoMissedWork /\ [Next]_vars => NoMissedWork'
<1> SUFFICES ASSUME IInv, NoMissedWork, [Next]_vars,
                    loop' = "wait", arrived' = "waiting",
                    NEW i \in DOMAIN items', CanTake(i)'
             PROVE  \E t \in Tasks : put'[t] = "pushed"
  BY DEF NoMissedWork
<1> USE DEF CanTake, First, Eligible, consumer, joiner
<1>1. ASSUME NEW t \in Tasks, Push(t) PROVE put'[t] = "pushed"
  BY <1>1 DEF Push, IInv, TypeOK
<1>2. ASSUME NEW t \in Tasks, NotifyOne(t) PROVE FALSE
  BY <1>2 DEF NotifyOne
<1>3. CASE Park
  BY <1>3 DEF Park
<1>4. ASSUME NEW j \in DOMAIN items, Take(j) PROVE FALSE
  <2>1. Serial
    BY <1>4 DEF Take
  <2> QED  BY <1>4, <2>1 DEF Take, DropArrived
<1>5. ASSUME NEW t \in Tasks, Finish(t) PROVE FALSE
  BY <1>5 DEF Finish
<1>6. CASE Register \/ Wake \/ SignalIdle \/ Abort
  BY <1>6 DEF Register, Wake, SignalIdle, Abort
<1>7. CASE JoinRegister \/ JoinCheck \/ JoinWake \/ UNCHANGED vars
  <2>1. UNCHANGED <<items, inFlight, loop, arrived, put>>
    BY <1>7 DEF JoinRegister, JoinCheck, JoinWake, vars
  <2>2. CanTake(i)
    BY <2>1
  <2> QED  BY <2>1, <2>2 DEF NoMissedWork
<1> QED  BY <1>1, <1>2, <1>3, <1>4, <1>5, <1>6, <1>7 DEF Next, Dispatch

(* No wakeup is lost between a producer and the dispatch loop. *)
THEOREM WorkIsNotMissed == Spec => []NoMissedWork
<1>1. Init => NoMissedWork
  BY DEF Init, NoMissedWork
<1> QED  BY <1>1, InductiveInvariant, NoMissedWorkStep, PTL DEF Spec, SafeSpec

LEMMA NoMissedIdleStep == IInv /\ NoMissedIdle /\ [Next]_vars => NoMissedIdle'
<1> SUFFICES ASSUME IInv, NoMissedIdle, [Next]_vars,
                    join' = "wait", ~joinWoken', unfinished' = 0
             PROVE  loop' \in {"signal", "lastSignal"}
  BY DEF NoMissedIdle
<1> USE DEF consumer, joiner
<1>0. unfinished \in Nat /\ joinWoken \in BOOLEAN
  BY DEF IInv, TypeOK
<1>1. ASSUME NEW t \in Tasks, Push(t) PROVE FALSE
  BY <1>0, <1>1 DEF Push
<1>2. ASSUME NEW t \in Tasks, Finish(t) PROVE loop' = "signal"
  BY <1>2 DEF Finish
<1>3. CASE Abort
  <2>1. CASE inFlight = {}
    <3>1. unfinished' = unfinished
      BY <1>0, <1>3, <2>1, FS_EmptySet DEF Abort
    <3> QED  BY <1>3, <3>1 DEF Abort, NoMissedIdle
  <2>2. CASE inFlight # {}
    BY <1>3, <2>2 DEF Abort
  <2> QED  BY <2>1, <2>2
<1>4. CASE SignalIdle
  BY <1>0, <1>4 DEF SignalIdle
<1>5. CASE JoinRegister \/ JoinCheck \/ JoinWake
  BY <1>5 DEF JoinRegister, JoinCheck, JoinWake
<1>6. CASE UNCHANGED vars
  BY <1>6 DEF vars, NoMissedIdle
<1>7. ASSUME NEW t \in Tasks, NotifyOne(t) PROVE loop' \in {"signal", "lastSignal"}
  BY <1>7 DEF NotifyOne, NoMissedIdle
<1>8. CASE Register \/ Park \/ Wake
  BY <1>8 DEF Register, Park, Wake, NoMissedIdle
<1>9. ASSUME NEW i \in DOMAIN items, Take(i) PROVE loop' \in {"signal", "lastSignal"}
  BY <1>9 DEF Take, NoMissedIdle
<1> QED  BY <1>1, <1>2, <1>3, <1>4, <1>5, <1>6, <1>7, <1>8, <1>9 DEF Next, Dispatch

(* A caller of join() does not sleep past the moment the counter reaches    *)
(* zero.                                                                    *)
THEOREM IdleIsNotMissed == Spec => []NoMissedIdle
<1>1. Init => NoMissedIdle
  BY DEF Init, NoMissedIdle
<1> QED  BY <1>1, InductiveInvariant, NoMissedIdleStep, PTL DEF Spec, SafeSpec
-----------------------------------------------------------------------------
(* The loops implement the scheduler step by step.                          *)

(* The tasks the refinement counts as ended, and the scheduler's gate. *)
Ended == {t \in Tasks : put[t] # "new" /\ t \notin inFlight
                          /\ \A i \in DOMAIN items : items[i] # t}
Open == loop \notin {"lastSignal", "dead"}

(* A step that moves no task and leaves the gate alone is a stutter. *)
LEMMA StutterMaps ==
    ASSUME IInv, UNCHANGED <<items, inFlight>>, Open' = Open,
           \A t \in Tasks : put'[t] = "new" <=> put[t] = "new"
    PROVE  UNCHANGED Scheduler!vars
<1>1. Ended' = Ended
  BY DEF Ended
<1> QED  BY <1>1 DEF Scheduler!vars, Ended, Open

LEMMA PushMaps ==
    ASSUME IInv, NEW t \in Tasks, Push(t)
    PROVE  Scheduler!Submit(t)
<1>1. /\ put[t] = "new" /\ put' = [put EXCEPT ![t] = "pushed"] /\ inFlight' = inFlight
      /\ items' = Append(items, t) /\ loop' = loop
  BY DEF Push, consumer
<1>2. t \notin inFlight /\ \A i \in DOMAIN items : items[i] # t
  BY <1>1, LenProperties DEF IInv, OnePlace, Positions, TypeOK
<1>3. /\ items' \in Seq(Tasks)
      /\ Len(items') = Len(items) + 1
      /\ \A k \in 1..Len(items) : items'[k] = items[k]
      /\ items'[Len(items) + 1] = t
  BY <1>1, AppendProperties DEF IInv, TypeOK
<1>4. /\ DOMAIN items = 1..Len(items) /\ Len(items) \in Nat
      /\ DOMAIN items' = 1..(Len(items) + 1)
  BY <1>3, LenProperties DEF IInv, TypeOK
<1>5. \A u \in Tasks : (\A i \in DOMAIN items' : items'[i] # u)
                          <=> u # t /\ \A i \in DOMAIN items : items[i] # u
  BY <1>3, <1>4
<1>6. \A u \in Tasks : u # t => put'[u] = put[u]
  BY <1>1 DEF IInv, TypeOK
<1>7. Ended' = Ended
  BY <1>1, <1>5, <1>6 DEF Ended
<1>8. t \notin Scheduler!Submitted
  BY <1>1, <1>2 DEF Scheduler!Submitted
<1> QED  BY <1>1, <1>7, <1>8 DEF Scheduler!Submit, Ended

LEMMA TakeMaps ==
    ASSUME IInv, NEW i \in DOMAIN items, Take(i)
    PROVE  \E s \in Sessions : Scheduler!Start(s)
<1> DEFINE s == SessionOf[items[i]]
<1>0. /\ Len(items) \in Nat /\ DOMAIN items = Positions /\ items[i] \in Tasks
      /\ i \in Positions
  BY LenProperties, ElementOfSeq DEF IInv, TypeOK, Positions
<1>1. s \in Sessions
  BY <1>0, QueueAssumption DEF QueueAssumption
<1>2. /\ items' = RemoveItem(i)
      /\ inFlight' = inFlight \cup {items[i]}
      /\ put' = put /\ loop = "look" /\ loop' \in {"look", "wait"}
  BY DEF Take
<1>3. Cardinality(inFlight) < MaxParallel /\ First(i)
  BY DEF Take, CanTake
<1>4. \A t \in inFlight : SessionOf[t] # s
  <2>1. CASE Serial
    <3>1. Cardinality(inFlight) = 0 /\ IsFiniteSet(inFlight)
      BY <1>3, <2>1, InFlightFinite DEF Serial, IInv
    <3> QED  BY <3>1, FS_EmptySet
  <2>2. CASE ~Serial
    BY <1>3, <2>2 DEF First, Eligible
  <2> QED  BY <2>1, <2>2
<1>5. \A j \in 1..(i - 1) : SessionOf[items[j]] # s
  <2> SUFFICES ASSUME NEW j \in 1..(i - 1), SessionOf[items[j]] = s PROVE FALSE
    OBVIOUS
  <2>1. ~Eligible(j)
    BY <1>3 DEF First
  <2> QED  BY <1>4, <2>1 DEF Eligible
<1>6. /\ items' \in Seq(Tasks)
      /\ Len(items') = Len(items) - 1
      /\ \A k \in 1..(Len(items) - 1) : items'[k] = items[IF k < i THEN k ELSE k + 1]
  BY <1>0, <1>2, RemoveItemFacts DEF IInv, TypeOK
<1>7. DOMAIN items' = 1..(Len(items) - 1)
  BY <1>0, <1>6, LenProperties
<1>8. ASSUME NEW u \in Tasks
      PROVE  (u \notin inFlight' /\ \A k \in DOMAIN items' : items'[k] # u)
                <=> (u \notin inFlight /\ \A k \in DOMAIN items : items[k] # u)
  <2>1. CASE u = items[i]
    BY <1>0, <1>2, <2>1
  <2>2. ASSUME u # items[i], NEW k \in DOMAIN items, items[k] = u
        PROVE  \E n \in DOMAIN items' : items'[n] = u
    <3>1. CASE k < i
      BY <1>0, <1>6, <1>7, <2>2, <3>1 DEF Positions
    <3>2. CASE k > i
      <4>1. k - 1 \in DOMAIN items' /\ ~(k - 1 < i) /\ k - 1 + 1 = k
        BY <1>0, <1>7, <3>2 DEF Positions
      <4>2. items'[k - 1] = items[k]
        BY <1>6, <1>7, <4>1
      <4> QED  BY <2>2, <4>1, <4>2
    <3> QED  BY <1>0, <2>2, <3>1, <3>2 DEF Positions
  <2>3. ASSUME NEW n \in DOMAIN items', items'[n] = u
        PROVE  \E k \in DOMAIN items : items[k] = u
    BY <1>0, <1>6, <1>7, <2>3 DEF Positions
  <2> QED  BY <1>2, <2>1, <2>2, <2>3
<1>9. Ended' = Ended
  BY <1>2, <1>8 DEF Ended
<1>10. Open /\ Open'
  BY <1>2 DEF Open
<1>11. Scheduler!OldestOf(s, i) /\ Scheduler!Without(i) = RemoveItem(i)
  BY <1>5 DEF Scheduler!OldestOf, Scheduler!Without, RemoveItem
<1>12. Scheduler!Cardinality(inFlight) = Cardinality(inFlight)
  BY Zenon DEF Scheduler!Cardinality, Cardinality
<1>13. Scheduler!Start(s)
  BY <1>2, <1>3, <1>4, <1>9, <1>10, <1>11, <1>12 DEF Scheduler!Start, Ended, Open
<1> QED  BY <1>1, <1>13

LEMMA FinishMaps ==
    ASSUME IInv, NEW t \in Tasks, Finish(t)
    PROVE  Scheduler!Finish(t)
<1>1. /\ t \in inFlight /\ inFlight' = inFlight \ {t}
      /\ items' = items /\ put' = put
      /\ loop \in {"wait", "polled"} /\ loop' \in {"signal", "polled"}
  BY DEF Finish
<1>2. put[t] # "new" /\ \A i \in DOMAIN items : items[i] # t
  BY <1>1, LenProperties DEF IInv, OnePlace, Positions, TypeOK
<1>3. Ended' = Ended \cup {t}
  BY <1>1, <1>2 DEF Ended
<1>4. Open /\ Open'
  BY <1>1 DEF Open
<1> QED  BY <1>1, <1>3, <1>4 DEF Scheduler!Finish, Ended, Open

LEMMA AbortMaps ==
    ASSUME IInv, Abort
    PROVE  Scheduler!Close
<1>1. /\ inFlight' = {} /\ items' = items /\ put' = put
      /\ loop = "wait" /\ loop' \in {"lastSignal", "dead"}
  BY DEF Abort
<1>2. \A t \in inFlight : t \in Tasks /\ put[t] # "new" /\ \A i \in DOMAIN items : items[i] # t
  BY LenProperties DEF IInv, OnePlace, Positions, TypeOK
<1>3. Ended' = Ended \cup inFlight
  BY <1>1, <1>2 DEF Ended
<1>4. Open /\ ~Open'
  BY <1>1 DEF Open
<1> QED  BY <1>1, <1>3, <1>4 DEF Scheduler!Close, Ended, Open

LEMMA ElsewhereMaps ==
    ASSUME IInv, Elsewhere
    PROVE  UNCHANGED Scheduler!vars
<1>1. UNCHANGED <<items, inFlight>> /\ Open' = Open
  BY DEF Elsewhere, NotifyOne, Register, Park, Wake, SignalIdle, JoinRegister, JoinCheck,
         JoinWake, consumer, joiner, vars, Open
<1>2. \A u \in Tasks : put'[u] = "new" <=> put[u] = "new"
  BY DEF Elsewhere, NotifyOne, Register, Park, Wake, SignalIdle, JoinRegister, JoinCheck,
         JoinWake, vars, IInv, TypeOK
<1> QED  BY <1>1, <1>2, StutterMaps

(* Every step of the loops is a step of the scheduler or a stutter: one     *)
(* task per session at a time, a session's tasks in the order they were     *)
(* submitted, at most MaxParallel, and nothing starts after the abort.      *)
THEOREM QueueImplementsScheduler == Spec => Scheduler!SafeSpec
<1>1. Init => Scheduler!Init
  BY DEF Init, Scheduler!Init
<1>2. IInv /\ [Next]_vars => [Scheduler!Next]_(Scheduler!vars)
  <2> SUFFICES ASSUME IInv, [Next]_vars
               PROVE  Scheduler!Next \/ UNCHANGED Scheduler!vars
    OBVIOUS
  <2>1. ASSUME NEW t \in Tasks, Push(t) PROVE Scheduler!Next
    BY <2>1, PushMaps DEF Scheduler!Next
  <2>2. ASSUME NEW i \in DOMAIN items, Take(i) PROVE Scheduler!Next
    BY <2>2, TakeMaps DEF Scheduler!Next
  <2>3. ASSUME NEW t \in Tasks, Finish(t) PROVE Scheduler!Next
    BY <2>3, FinishMaps DEF Scheduler!Next
  <2>4. CASE Abort
    BY <2>4, AbortMaps DEF Scheduler!Next
  <2>5. CASE Elsewhere
    BY <2>5, ElsewhereMaps
  <2> QED  BY <2>1, <2>2, <2>3, <2>4, <2>5 DEF Next, Dispatch, Elsewhere
<1> QED  BY <1>1, <1>2, InductiveInvariant, PTL DEF Spec, SafeSpec, Scheduler!SafeSpec
=============================================================================
