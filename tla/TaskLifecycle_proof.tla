------------------------ MODULE TaskLifecycle_proof ------------------------
(***************************************************************************)
(* Proofs about TaskLifecycle, for every number of events and stops, every *)
(* MaxSteps and with stuck workers, failures and shutdown allowed or not:  *)
(* its types; that no worker starts on a task that is being closed; and    *)
(* that the sets of Shared say where a task is.  Then, under the           *)
(* circumstances of the runs: that cards are settled, that evidence is     *)
(* sealed once, and that a shutdown closes what it cuts off.               *)
(***************************************************************************)
EXTENDS TaskLifecycle, TLAPS, SequenceTheorems, FiniteSetTheorems

(* What the types rest on: a step is only begun below max_steps, and what   *)
(* closes a task knows how it ended.                                        *)
WorkerKnows ==
    \A t \in Tasks :
        /\ pc[t] = "chat" => copy[t].steps < MaxSteps
        /\ pc[t] \in {"notice", "close", "record"} => copy[t].row.status \in Terminal

(* And a handler that is about to touch a task has one.                     *)
Busy == {"append", "push", "record", "record2", "enqueue", "command", "note",
         "abandon", "gone"} \cup CancelPCs
HandlerKnows == \A c \in Callers : call[c].pc \in Busy => call[c].task \in Tasks

TInv == TypeOK /\ WorkerKnows /\ HandlerKnows
-----------------------------------------------------------------------------
LEMMA ListingOf ==
    ASSUME NEW S \in SUBSET Tasks, NEW f \in [S -> Row]
    PROVE  f \in Listing
BY DEF Listing

LEMMA ListedRows ==
    ASSUME NEW f \in Listing
    PROVE  DOMAIN f \in SUBSET Tasks /\ \A t \in DOMAIN f : f[t] \in Row
BY DEF Listing

LEMMA RowTypes ==
    /\ Absent \in Row /\ Created \in Row
    /\ \A r \in Row, s \in Status : [r EXCEPT !.status = s] \in Row
    /\ \A r \in Row : [r EXCEPT !.hash = TRUE] \in Row
BY DEF Row, Absent, Created, Status, Active, Terminal

LEMMA LogTypes ==
    ASSUME TypeOK, NEW t \in Tasks, NEW k \in Kinds
    PROVE  /\ Append(log[t], k) \in Seq(Kinds)
           /\ Len(log[t]) \in Nat
BY AppendProperties, LenProperties DEF TypeOK, StoreTypes
-----------------------------------------------------------------------------
LEMMA InitTInv == Init => TInv
<1> SUFFICES ASSUME Init PROVE TInv
  OBVIOUS
<1>1. Nothing \in Listing
  <2>1. Nothing \in [{} -> Row]
    BY DEF Nothing
  <2> QED  BY <2>1, ListingOf
<1>2. <<>> \in Seq(Kinds) /\ <<>> \in Seq(Tasks)
  BY EmptySeq
<1>3. Idle \in Call
  BY <1>1, RowTypes DEF Idle, CallPCs, Call
<1>4. TypeOK
  <2>1. call \in [Callers -> Call]
    <3>1. [Idle EXCEPT !.pc = "create"] \in Call
      BY <1>3 DEF CallPCs, Call
    <3> QED  BY <1>3, <3>1 DEF Init
  <2>2. copy \in [Tasks -> [row : Row, steps : 0..MaxSteps, last : BOOLEAN]]
    BY RowTypes, LifecycleAssumption DEF Init, LifecycleAssumption
  <2>3. FirstEvent \in Events
    BY LifecycleAssumption DEF LifecycleAssumption
  <2> QED  BY <1>2, <2>1, <2>2, <2>3, RowTypes DEF Init, TypeOK, StoreTypes,
                    WorldTypes, SharedTypes, WorkerTypes, PCs, WorkerPCs
<1>5. WorkerKnows
  BY DEF Init, WorkerKnows
<1>6. HandlerKnows
  BY DEF Init, HandlerKnows, Busy, CancelPCs, Idle
<1> QED  BY <1>4, <1>5, <1>6 DEF TInv
-----------------------------------------------------------------------------
(* The parts of the state, one at a time. *)

LEMMA LogIsTyped ==
    ASSUME TypeOK, NEW t \in Tasks, NEW k \in Kinds, Record(t, k), UNCHANGED <<row, manifest>>
    PROVE  StoreTypes'
BY LogTypes DEF TypeOK, StoreTypes, Record

LEMMA RowIsTyped ==
    ASSUME TypeOK, NEW t \in Tasks, NEW r \in Row, Write(t, r), UNCHANGED <<log, manifest>>
    PROVE  StoreTypes'
BY DEF TypeOK, StoreTypes, Write

(* What an action leaves alone keeps its types.                             *)
CallInv == call \in [Callers -> Call] /\ HandlerKnows

LEMMA KeepStore ==
    ASSUME TInv, UNCHANGED store PROVE StoreTypes'
BY DEF TInv, TypeOK, StoreTypes, store
LEMMA KeepWorld ==
    ASSUME TInv, UNCHANGED world PROVE WorldTypes'
BY DEF TInv, TypeOK, WorldTypes, world
LEMMA KeepShared ==
    ASSUME TInv, UNCHANGED shared PROVE SharedTypes'
BY DEF TInv, TypeOK, SharedTypes, shared
LEMMA KeepWorker ==
    ASSUME TInv, UNCHANGED worker PROVE WorkerTypes' /\ WorkerKnows'
BY DEF TInv, TypeOK, WorkerTypes, WorkerKnows, worker
LEMMA KeepCall ==
    ASSUME TInv, UNCHANGED call PROVE CallInv'
BY DEF TInv, TypeOK, CallInv, HandlerKnows

LEMMA Parts ==
    ASSUME StoreTypes', WorldTypes', SharedTypes', WorkerTypes' /\ WorkerKnows', CallInv'
    PROVE  TInv'
BY DEF TInv, TypeOK, CallInv

(* Only the call of one handler is touched.                                 *)
LEMMA OnlyCall ==
    ASSUME TInv, UNCHANGED <<store, world, shared, worker>>, CallInv'
    PROVE  TInv'
BY KeepStore, KeepWorld, KeepShared, KeepWorker, Parts

(* A handler goes on at p, with a task if it is to touch one.               *)
LEMMA Goes ==
    ASSUME TInv, NEW c \in Callers, NEW k \in Call, call' = [call EXCEPT ![c] = k],
           k.pc \in Busy => k.task \in Tasks
    PROVE  CallInv'
BY DEF TInv, TypeOK, CallInv, HandlerKnows

LEMMA GoesOn ==
    ASSUME TInv, NEW c \in Callers, NEW p \in CallPCs, Go(c, p),
           p \in Busy => call[c].task \in Tasks
    PROVE  CallInv'
<1> DEFINE k == [call[c] EXCEPT !.pc = p]
<1>1. call[c] \in Call /\ call \in [Callers -> Call]
  BY DEF TInv, TypeOK
<1>2. k \in Call /\ k.pc = p /\ k.task = call[c].task
  BY <1>1 DEF Call
<1>3. call' = [call EXCEPT ![c] = k]
  BY <1>1 DEF Go
<1> HIDE DEF k
<1> QED  BY <1>2, <1>3, Goes
-----------------------------------------------------------------------------
(* The handlers of events. *)

LEMMA FollowTInv ==
    ASSUME TInv, NEW e \in Events, FollowTurn(e) \/ Follow(e)
    PROVE  TInv'
<1>0. /\ e \in Callers /\ TypeOK
      /\ {"list", "choose", "append", "push", "create", "record", "record2", "enqueue", "done",
          "mark", "gone", "abandon"} \subseteq CallPCs
      /\ {"created", "received"} \subseteq Kinds
      /\ call[e].task \in Tasks \cup {NoTask} /\ call[e].listed \in Listing
      /\ call[e] \in Call /\ call \in [Callers -> Call]
      /\ call[e].pc \in Busy => call[e].task \in Tasks
  BY DEF Callers, TInv, TypeOK, CallPCs, CancelPCs, Kinds, Call, HandlerKnows
<1>1. CASE FollowTurn(e)
  <2>1. WorldTypes'
    BY <1>0, <1>1 DEF FollowTurn, WorldTypes, TypeOK
  <2>2. CallInv'
    BY <1>0, <1>1, GoesOn DEF FollowTurn, Busy, CancelPCs
  <2>3. StoreTypes' /\ SharedTypes' /\ WorkerTypes' /\ WorkerKnows'
    BY <1>1, KeepStore, KeepShared, KeepWorker DEF FollowTurn
  <2> QED  BY <2>1, <2>2, <2>3, Parts
<1>2. CASE FollowList(e)
  <2> DEFINE S == {u \in Tasks : row[u].status \in Active}
             f == [t \in S |-> row[t]]
  <2>1. f \in Listing
    <3>1. S \in SUBSET Tasks /\ f \in [S -> Row]
      BY <1>0 DEF TypeOK, StoreTypes
    <3> HIDE DEF S, f
    <3> QED  BY <3>1, ListingOf
  <2>2. call' = [call EXCEPT ![e].pc = "choose", ![e].listed = f]
    BY <1>2 DEF FollowList
  <2> HIDE DEF S, f
  <2>3. CallInv'
    <3> DEFINE k == [call[e] EXCEPT !.pc = "choose", !.listed = f]
    <3>1. k \in Call /\ k.pc \notin Busy
      BY <1>0, <2>1 DEF Call, Busy, CancelPCs
    <3>2. call' = [call EXCEPT ![e] = k]
      BY <1>0, <2>2
    <3> HIDE DEF k
    <3> QED  BY <1>0, <3>1, <3>2, Goes
  <2> QED  BY <1>2, <2>3, OnlyCall DEF FollowList
<1>3. CASE FollowChoose(e)
  <2>1. Nothing \in Listing /\ Absent \in Row
    <3>1. Nothing \in [{} -> Row]
      BY DEF Nothing
    <3> QED  BY <3>1, RowTypes, ListingOf
  <2>2. SteerPool(DOMAIN call[e].listed) \subseteq Tasks \cap DOMAIN call[e].listed
    BY <1>0, ListedRows DEF SteerPool
  <2>3. \E p \in {"create", "append", "abandon"}, t \in Tasks \cup {NoTask}, r \in Row :
          /\ call' = [call EXCEPT ![e].pc = p, ![e].task = t, ![e].row = r, ![e].listed = Nothing]
          /\ p # "create" => t \in Tasks
    <3>1. \A t \in Tasks : t \in DOMAIN call[e].listed => call[e].listed[t] \in Row
      BY <1>0, ListedRows
    <3> QED  BY <1>3, <2>1, <2>2, <3>1 DEF FollowChoose
  <2>4. CallInv'
    <3> PICK p \in {"create", "append", "abandon"}, t \in Tasks \cup {NoTask}, r \in Row :
          /\ call' = [call EXCEPT ![e].pc = p, ![e].task = t, ![e].row = r, ![e].listed = Nothing]
          /\ p # "create" => t \in Tasks
      BY <2>3
    <3> DEFINE k == [call[e] EXCEPT !.pc = p, !.task = t, !.row = r, !.listed = Nothing]
    <3>1. k \in Call /\ k.pc = p /\ k.task = t
      BY <1>0, <2>1 DEF Call
    <3>2. call' = [call EXCEPT ![e] = k]
      BY <1>0
    <3>3. k.pc \in Busy => k.task \in Tasks
      BY <3>1 DEF Busy, CancelPCs
    <3> HIDE DEF k
    <3> QED  BY <1>0, <3>1, <3>2, <3>3, Goes
  <2> QED  BY <1>3, <2>4, OnlyCall DEF FollowChoose
<1>4. CASE FollowAppend(e)
  <2>1. call[e].task \in Tasks
    BY <1>0, <1>4 DEF FollowAppend, At, Busy
  <2>2. StoreTypes'
    BY <1>0, <1>4, <2>1, LogIsTyped DEF FollowAppend
  <2>3. CallInv'
    BY <1>0, <1>4, <2>1, GoesOn DEF FollowAppend
  <2>4. WorldTypes' /\ SharedTypes' /\ WorkerTypes' /\ WorkerKnows'
    BY <1>4, KeepWorld, KeepShared, KeepWorker DEF FollowAppend
  <2> QED  BY <2>2, <2>3, <2>4, Parts
<1>5. CASE FollowPush(e)
  <2>1. SharedTypes'
    BY <1>0, <1>5 DEF FollowPush, TypeOK, SharedTypes
  <2>2. CallInv'
    BY <1>0, <1>5, GoesOn DEF FollowPush, Busy, CancelPCs
  <2>3. StoreTypes' /\ WorldTypes' /\ WorkerTypes' /\ WorkerKnows'
    BY <1>5, KeepStore, KeepWorld, KeepWorker DEF FollowPush
  <2> QED  BY <2>1, <2>2, <2>3, Parts
<1>6. CASE StartCreate(e)
  <2>1. PICK t \in Tasks : /\ Write(t, Created)
                           /\ call' = [call EXCEPT ![e].pc = "record", ![e].task = t]
    BY <1>6 DEF StartCreate
  <2>2. StoreTypes'
    BY <1>0, <1>6, <2>1, RowTypes, RowIsTyped DEF StartCreate
  <2>3. CallInv'
    <3> DEFINE k == [call[e] EXCEPT !.pc = "record", !.task = t]
    <3>1. k \in Call /\ k.task = t
      BY <1>0 DEF Call
    <3>2. call' = [call EXCEPT ![e] = k]
      BY <1>0, <2>1
    <3> HIDE DEF k
    <3> QED  BY <1>0, <3>1, <3>2, Goes
  <2>4. WorldTypes' /\ SharedTypes' /\ WorkerTypes' /\ WorkerKnows'
    BY <1>6, KeepWorld, KeepShared, KeepWorker DEF StartCreate
  <2> QED  BY <2>2, <2>3, <2>4, Parts
<1>7. CASE StartRecord(e)
  <2>1. call[e].task \in Tasks
    BY <1>0, <1>7 DEF StartRecord, At, Busy
  <2>2. StoreTypes'
    BY <1>0, <1>7, <2>1, LogIsTyped DEF StartRecord
  <2>3. CallInv'
    BY <1>0, <1>7, <2>1, GoesOn DEF StartRecord
  <2>4. WorldTypes' /\ SharedTypes' /\ WorkerTypes' /\ WorkerKnows'
    BY <1>7, KeepWorld, KeepShared, KeepWorker DEF StartRecord
  <2> QED  BY <2>2, <2>3, <2>4, Parts
<1>8. CASE StartEnqueue(e)
  <2>1. call[e].task \in Tasks
    BY <1>0, <1>8 DEF StartEnqueue, At, Busy
  <2>2. SharedTypes'
    BY <1>0, <1>8, <2>1, AppendProperties DEF StartEnqueue, TypeOK, SharedTypes
  <2>3. CallInv'
    BY <1>0, <1>8, GoesOn DEF StartEnqueue, Busy, CancelPCs
  <2>4. StoreTypes' /\ WorldTypes' /\ WorkerTypes' /\ WorkerKnows'
    BY <1>8, KeepStore, KeepWorld, KeepWorker DEF StartEnqueue
  <2> QED  BY <2>2, <2>3, <2>4, Parts
<1>9. CASE Abandon(e)
  <2>1. call[e].task \in Tasks
    BY <1>0, <1>9 DEF Abandon, At, Busy
  <2>2. SharedTypes'
    BY <1>0, <1>9, <2>1 DEF Abandon, TypeOK, SharedTypes
  <2>3. CallInv'
    BY <1>0, <1>9, <2>1, GoesOn DEF Abandon
  <2>4. StoreTypes' /\ WorldTypes' /\ WorkerTypes' /\ WorkerKnows'
    BY <1>9, KeepStore, KeepWorld, KeepWorker DEF Abandon
  <2> QED  BY <2>2, <2>3, <2>4, Parts
<1>10. CASE AbandonReturns(e)
  <2>1. CallInv'
    BY <1>0, <1>10, GoesOn DEF AbandonReturns, At, Busy
  <2> QED  BY <1>10, <2>1, OnlyCall DEF AbandonReturns
<1> QED  BY <1>1, <1>2, <1>3, <1>4, <1>5, <1>6, <1>7, <1>8, <1>9, <1>10 DEF Follow
-----------------------------------------------------------------------------
(* The stops, and cancel_task. *)

LEMMA StopTInv ==
    ASSUME TInv, NEW s \in Stoppers, StopResolve(s) \/ Stop(s)
    PROVE  TInv'
<1>0. /\ s \in Callers /\ TypeOK
      /\ {"command", "mark", "refused", "note"} \subseteq CallPCs
      /\ "received" \in Kinds
      /\ call \in [Callers -> Call] /\ row \in [Tasks -> Row]
      /\ call[s].pc \in Busy => call[s].task \in Tasks
  BY DEF Callers, TInv, TypeOK, StoreTypes, CallPCs, CancelPCs, Kinds, HandlerKnows
<1>1. CASE StopResolve(s)
  <2>1. CallInv'
    <3>1. CASE \E t \in Tasks, p \in {"command", "mark"} :
                 call' = [call EXCEPT ![s].pc = p, ![s].task = t, ![s].row = row[t]]
      <4> PICK t \in Tasks, p \in {"command", "mark"} :
                 call' = [call EXCEPT ![s].pc = p, ![s].task = t, ![s].row = row[t]]
        BY <3>1
      <4> DEFINE k == [call[s] EXCEPT !.pc = p, !.task = t, !.row = row[t]]
      <4>1. k \in Call /\ k.task = t
        BY <1>0 DEF Call
      <4>2. call' = [call EXCEPT ![s] = k]
        BY <1>0
      <4> HIDE DEF k
      <4> QED  BY <1>0, <4>1, <4>2, Goes
    <3>2. CASE \E t \in Tasks : call' = [call EXCEPT ![s].pc = "refused", ![s].task = t]
      <4> PICK t \in Tasks : call' = [call EXCEPT ![s].pc = "refused", ![s].task = t]
        BY <3>2
      <4> DEFINE k == [call[s] EXCEPT !.pc = "refused", !.task = t]
      <4>1. k \in Call /\ k.task = t
        BY <1>0 DEF Call
      <4>2. call' = [call EXCEPT ![s] = k]
        BY <1>0
      <4> HIDE DEF k
      <4> QED  BY <1>0, <4>1, <4>2, Goes
    <3> QED  BY <1>1, <3>1, <3>2 DEF StopResolve
  <2> QED  BY <1>1, <2>1, OnlyCall DEF StopResolve
<1>2. CASE StopCommand(s)
  <2>1. CallInv'
    BY <1>0, <1>2, GoesOn DEF StopCommand, At, Busy
  <2> QED  BY <1>2, <2>1, OnlyCall DEF StopCommand
<1>3. CASE StopNote(s)
  <2>1. call[s].task \in Tasks
    BY <1>0, <1>3 DEF StopNote, At, Busy
  <2>2. StoreTypes'
    BY <1>0, <1>3, <2>1, LogIsTyped DEF StopNote
  <2>3. CallInv'
    BY <1>0, <1>3, <2>1, GoesOn DEF StopNote
  <2>4. WorldTypes' /\ SharedTypes' /\ WorkerTypes' /\ WorkerKnows'
    BY <1>3, KeepWorld, KeepShared, KeepWorker DEF StopNote
  <2> QED  BY <2>2, <2>3, <2>4, Parts
<1> QED  BY <1>1, <1>2, <1>3 DEF Stop

LEMMA CancelTInv ==
    ASSUME TInv, NEW c \in Callers, Cancel(c) \/ CancelWriteFails(c)
    PROVE  TInv'
<1>0. /\ TypeOK /\ CancelPCs \cup {"tell", "told", "unsaved", "returned", "create", "pick"} \subseteq CallPCs
      /\ Terminal \subseteq Kinds
      /\ call \in [Callers -> Call] /\ call[c] \in Call /\ call[c].row \in Row
      /\ call[c].pc \in Busy => call[c].task \in Tasks
      /\ CancelPCs \subseteq Busy
  BY DEF TInv, TypeOK, CallPCs, Kinds, HandlerKnows, Busy, Call
<1>1. CASE CancelMark(c)
  <2>1. call[c].task \in Tasks
    BY <1>0, <1>1 DEF CancelMark, At, CancelPCs
  <2>2. SharedTypes'
    BY <1>0, <1>1, <2>1 DEF CancelMark, TypeOK, SharedTypes
  <2>3. CallInv'
    <3> DEFINE b == call[c].task \in running
               k == [call[c] EXCEPT !.pc = "reread", !.ran = b]
    <3>0. b \in BOOLEAN /\ call' = [call EXCEPT ![c].pc = "reread", ![c].ran = b]
      BY <1>1 DEF CancelMark
    <3> HIDE DEF b
    <3>1. k \in Call /\ k.task = call[c].task
      BY <1>0, <3>0 DEF Call, CancelPCs
    <3>2. call' = [call EXCEPT ![c] = k]
      BY <1>0, <3>0
    <3> HIDE DEF k
    <3> QED  BY <2>1, <3>1, <3>2, Goes
  <2>4. StoreTypes' /\ WorldTypes' /\ WorkerTypes' /\ WorkerKnows'
    BY <1>1, KeepStore, KeepWorld, KeepWorker DEF CancelMark
  <2> QED  BY <2>2, <2>3, <2>4, Parts
<1>2. CASE CancelReread(c)
  <2>1. CallInv'
    BY <1>0, <1>2, GoesOn DEF CancelReread, At, CancelPCs
  <2> QED  BY <1>2, <2>1, OnlyCall DEF CancelReread
<1>3. CASE CancelWrite(c)
  <2> DEFINE r == [call[c].row EXCEPT !.status = "cancelled"]
             p == IF call[c].ran THEN "tell" ELSE "close"
  <2>1. call[c].task \in Tasks /\ r \in Row /\ p \in CallPCs
    BY <1>0, <1>3, RowTypes DEF CancelWrite, At, CancelPCs, Status, Terminal
  <2>2. Write(call[c].task, r) /\ call' = [call EXCEPT ![c].pc = p, ![c].row = r]
    BY <1>3 DEF CancelWrite
  <2> HIDE DEF r, p
  <2>3. StoreTypes'
    BY <1>0, <1>3, <2>1, <2>2, RowIsTyped DEF CancelWrite
  <2>4. CallInv'
    <3> DEFINE k == [call[c] EXCEPT !.pc = p, !.row = r]
    <3>1. k \in Call /\ k.task = call[c].task
      BY <1>0, <2>1 DEF Call
    <3>2. call' = [call EXCEPT ![c] = k]
      BY <1>0, <2>2
    <3> HIDE DEF k
    <3> QED  BY <2>1, <3>1, <3>2, Goes
  <2>5. WorldTypes' /\ SharedTypes' /\ WorkerTypes' /\ WorkerKnows'
    BY <1>3, KeepWorld, KeepShared, KeepWorker DEF CancelWrite
  <2> QED  BY <2>3, <2>4, <2>5, Parts
<1>4. CASE CancelWriteFails(c)
  <2>1. CallInv'
    BY <1>0, <1>4, GoesOn DEF CancelWriteFails, Busy, CancelPCs
  <2> QED  BY <1>4, <2>1, OnlyCall DEF CancelWriteFails
<1>5. CASE CancelRecord(c)
  <2>1. call[c].task \in Tasks /\ "cancelled" \in Kinds
    BY <1>0, <1>5 DEF CancelRecord, At, CancelPCs, Terminal
  <2>2. StoreTypes'
    BY <1>0, <1>5, <2>1, LogIsTyped DEF CancelRecord
  <2>3. CallInv'
    BY <1>0, <1>5, <2>1, GoesOn DEF CancelRecord, CancelPCs
  <2>4. WorldTypes' /\ SharedTypes' /\ WorkerTypes' /\ WorkerKnows'
    BY <1>5, KeepWorld, KeepShared, KeepWorker DEF CancelRecord
  <2> QED  BY <2>2, <2>3, <2>4, Parts
<1>6. CASE CancelCard(c)
  <2>1. call[c].task \in Tasks
    BY <1>0, <1>6 DEF CancelCard, At, CancelPCs
  <2>2. WorldTypes'
    BY <1>0, <1>6, <2>1 DEF CancelCard, TypeOK, WorldTypes, Terminal
  <2>3. CallInv'
    BY <1>0, <1>6, <2>1, GoesOn DEF CancelCard, CancelPCs
  <2>4. StoreTypes' /\ SharedTypes' /\ WorkerTypes' /\ WorkerKnows'
    BY <1>6, KeepStore, KeepShared, KeepWorker DEF CancelCard
  <2> QED  BY <2>2, <2>3, <2>4, Parts
<1>7. CASE CancelSeal(c)
  <2>1. call[c].task \in Tasks
    BY <1>0, <1>7 DEF CancelSeal, At, CancelPCs
  <2>2. StoreTypes'
    <3>1. Len(log[call[c].task]) \in Nat
      BY <1>0, <2>1, LenProperties DEF TypeOK, StoreTypes
    <3> QED  BY <1>0, <1>7, <2>1, <3>1 DEF CancelSeal, TypeOK, StoreTypes
  <2>3. CallInv'
    <3> DEFINE k == [call[c] EXCEPT !.pc = "stamp", !.row.hash = TRUE]
    <3>1. k \in Call /\ k.task = call[c].task
      <4>1. [call[c].row EXCEPT !.hash = TRUE] \in Row
        BY <1>0, RowTypes
      <4> QED  BY <1>0, <4>1 DEF Call, CancelPCs
    <3>2. call' = [call EXCEPT ![c] = k]
      <4>1. call' = [call EXCEPT ![c].pc = "stamp", ![c].row.hash = TRUE]
        BY <1>7 DEF CancelSeal
      <4> QED  BY <1>0, <4>1 DEF Call, Row
    <3> HIDE DEF k
    <3> QED  BY <2>1, <3>1, <3>2, Goes
  <2>4. WorldTypes' /\ SharedTypes' /\ WorkerTypes' /\ WorkerKnows'
    BY <1>7, KeepWorld, KeepShared, KeepWorker DEF CancelSeal
  <2> QED  BY <2>2, <2>3, <2>4, Parts
<1>8. CASE CancelStamp(c)
  <2>1. call[c].task \in Tasks
    BY <1>0, <1>8 DEF CancelStamp, At, CancelPCs
  <2>2. StoreTypes'
    BY <1>0, <1>8, <2>1, RowIsTyped DEF CancelStamp
  <2>3. CallInv'
    BY <1>0, <1>8, <2>1, GoesOn DEF CancelStamp
  <2>4. WorldTypes' /\ SharedTypes' /\ WorkerTypes' /\ WorkerKnows'
    BY <1>8, KeepWorld, KeepShared, KeepWorker DEF CancelStamp
  <2> QED  BY <2>2, <2>3, <2>4, Parts
<1>9. CASE CancelTell(c)
  <2>1. \E p \in {"told", "unsaved", "create", "pick"} : Go(c, p)
    BY <1>9 DEF CancelTell
  <2>2. CallInv'
    BY <1>0, <2>1, GoesOn DEF Busy, CancelPCs
  <2> QED  BY <1>9, <2>2, OnlyCall DEF CancelTell
<1> QED  BY <1>1, <1>2, <1>3, <1>4, <1>5, <1>6, <1>7, <1>8, <1>9 DEF Cancel
-----------------------------------------------------------------------------
(* The dispatch and the worker.                                             *)

Copy == [row : Row, steps : 0..MaxSteps, last : BOOLEAN]

(* Task t goes on to q, with the copy k of its row.                         *)
LEMMA WorkerGoes ==
    ASSUME TInv, NEW t \in Tasks, NEW q \in PCs, NEW k \in Copy,
           pc' = [pc EXCEPT ![t] = q], copy' = [copy EXCEPT ![t] = k],
           live' \in [Tasks -> Row], context' \in [Tasks -> [Events -> Nat]],
           q = "chat" => k.steps < MaxSteps,
           q \in {"notice", "close", "record"} => k.row.status \in Terminal
    PROVE  WorkerTypes' /\ WorkerKnows'
BY DEF TInv, TypeOK, WorkerTypes, WorkerKnows, Copy

(* The same with its copy as it was.                                        *)
LEMMA WorkerMoves ==
    ASSUME TInv, NEW t \in Tasks, NEW q \in PCs,
           pc' = [pc EXCEPT ![t] = q], copy' = copy,
           live' \in [Tasks -> Row], context' \in [Tasks -> [Events -> Nat]],
           q = "chat" => copy[t].steps < MaxSteps,
           q \in {"notice", "close", "record"} => copy[t].row.status \in Terminal
    PROVE  WorkerTypes' /\ WorkerKnows'
BY DEF TInv, TypeOK, WorkerTypes, WorkerKnows, Copy

LEMMA RunTInv ==
    ASSUME TInv, NEW t \in Tasks, Run(t) \/ WorkerError(t)
    PROVE  TInv'
<1>0. /\ TypeOK /\ WorkerKnows
      /\ copy \in [Tasks -> Copy] /\ copy[t].row \in Row /\ copy[t] \in Copy
      /\ live \in [Tasks -> Row] /\ context \in [Tasks -> [Events -> Nat]]
      /\ pc \in [Tasks -> PCs] /\ row[t] \in Row
  BY DEF TInv, TypeOK, WorkerTypes, StoreTypes, Copy
<1>p. /\ DOMAIN Saved = {"plan", "carded", "save", "answer", "settle"}
      /\ DOMAIN AfterSave = {"planned", "cardSaved", "stepSaved", "answerSaved", "settled"}
      /\ \A q \in DOMAIN Saved : Saved[q] \in DOMAIN AfterSave
      /\ \A q \in DOMAIN AfterSave : AfterSave[q] \in {"top", "tool", "send", "return"}
  BY DEF Saved, AfterSave
<1>q. PCs = {"none", "fetch", "admit", "clear", "arm", "ran", "disarm", "finish", "over",
             "plan", "carded", "save", "answer", "settle",
             "build", "chat", "card", "tool", "send", "notice", "close", "record", "seal",
             "planned", "cardSaved", "stepSaved", "answerSaved", "settled", "top", "act", "return"}
  BY <1>p DEF PCs, WorkerPCs, RunPCs
<1>r. /\ \A st \in Status : [copy[t] EXCEPT !.row.status = st] \in Copy
      /\ [copy[t] EXCEPT !.row.hash = TRUE] \in Copy
      /\ [copy[t] EXCEPT !.row = row[t]] \in Copy
      /\ [copy[t] EXCEPT !.row.card = TRUE, !.row.status = "working"] \in Copy
      /\ [copy[t] EXCEPT !.last = TRUE, !.row.status = "failed"] \in Copy
  BY <1>0 DEF Copy, Row, Status, Active, Terminal
<1>s. {"planning", "working", "answering", "failed", "cancelled", "delivered"} \subseteq Status
  BY DEF Status, Active, Terminal
<1>t. /\ {"failed", "cancelled", "delivered"} = Terminal
      /\ {"work"} \cup Terminal \subseteq Kinds
  BY DEF Terminal, Kinds
<1>w. ASSUME NEW q \in PCs, NEW k \in Copy,
             pc' = [pc EXCEPT ![t] = q], copy' = [copy EXCEPT ![t] = k],
             UNCHANGED <<live, context>>,
             q = "chat" => k.steps < MaxSteps,
             q \in {"notice", "close", "record"} => k.row.status \in Terminal
      PROVE  WorkerTypes' /\ WorkerKnows'
  BY <1>0, <1>w, WorkerGoes
<1>m. ASSUME NEW q \in PCs, pc' = [pc EXCEPT ![t] = q], copy' = copy,
             UNCHANGED <<live, context>>,
             q = "chat" => copy[t].steps < MaxSteps,
             q \in {"notice", "close", "record"} => copy[t].row.status \in Terminal
      PROVE  WorkerTypes' /\ WorkerKnows'
  BY <1>0, <1>m, WorkerMoves
<1>1. CASE Fetch(t)
  <2>1. WorkerTypes' /\ WorkerKnows'
    <3>1. CASE Step(t, "fetch", "admit") /\ copy' = [copy EXCEPT ![t].row = row[t]]
      <4>1. copy' = [copy EXCEPT ![t] = [copy[t] EXCEPT !.row = row[t]]]
        BY <1>0, <3>1
      <4> QED  BY <1>1, <1>q, <1>r, <1>w, <3>1, <4>1 DEF Fetch, Step
    <3>2. CASE Step(t, "fetch", "finish") /\ UNCHANGED copy
      BY <1>1, <1>q, <1>m, <3>2 DEF Fetch, Step
    <3> QED  BY <1>1, <3>1, <3>2 DEF Fetch
  <2>2. StoreTypes' /\ WorldTypes' /\ SharedTypes' /\ CallInv'
    BY <1>1, KeepStore, KeepWorld, KeepShared, KeepCall DEF Fetch
  <2> QED  BY <2>1, <2>2, Parts
<1>2. CASE Admit(t)
  <2>1. WorkerTypes' /\ WorkerKnows'
    BY <1>2, <1>q, <1>m DEF Admit, Step
  <2>2. SharedTypes'
    BY <1>0, <1>2 DEF Admit, TypeOK, SharedTypes
  <2>3. StoreTypes' /\ WorldTypes' /\ CallInv'
    BY <1>2, KeepStore, KeepWorld, KeepCall DEF Admit
  <2> QED  BY <2>1, <2>2, <2>3, Parts
<1>3. CASE ClearSteer(t)
  <2>1. WorkerTypes' /\ WorkerKnows'
    BY <1>3, <1>q, <1>m DEF ClearSteer, Step
  <2>2. SharedTypes'
    BY <1>0, <1>3 DEF ClearSteer, TypeOK, SharedTypes
  <2>3. StoreTypes' /\ WorldTypes' /\ CallInv'
    BY <1>3, KeepStore, KeepWorld, KeepCall DEF ClearSteer
  <2> QED  BY <2>1, <2>2, <2>3, Parts
<1>4. CASE Arm(t)
  <2>1. WorkerTypes' /\ WorkerKnows'
    BY <1>0, <1>4, <1>q, WorkerMoves DEF Arm, Step
  <2>2. SharedTypes'
    BY <1>0, <1>4 DEF Arm, TypeOK, SharedTypes
  <2>3. StoreTypes' /\ WorldTypes' /\ CallInv'
    BY <1>4, KeepStore, KeepWorld, KeepCall DEF Arm
  <2> QED  BY <2>1, <2>2, <2>3, Parts
<1>5. CASE LeaveRunning(t)
  <2>1. WorkerTypes' /\ WorkerKnows'
    BY <1>5, <1>q, <1>m DEF LeaveRunning, Step
  <2>2. SharedTypes'
    BY <1>0, <1>5 DEF LeaveRunning, TypeOK, SharedTypes
  <2>3. StoreTypes' /\ WorldTypes' /\ CallInv'
    BY <1>5, KeepStore, KeepWorld, KeepCall DEF LeaveRunning
  <2> QED  BY <2>1, <2>2, <2>3, Parts
<1>6. CASE Disarm(t)
  <2>1. WorkerTypes' /\ WorkerKnows'
    BY <1>6, <1>q, <1>m DEF Disarm, Step
  <2>2. SharedTypes'
    BY <1>0, <1>6 DEF Disarm, TypeOK, SharedTypes
  <2>3. StoreTypes' /\ WorldTypes' /\ CallInv'
    BY <1>6, KeepStore, KeepWorld, KeepCall DEF Disarm
  <2> QED  BY <2>1, <2>2, <2>3, Parts
<1>7. CASE FinishTask(t)
  <2>1. WorkerTypes' /\ WorkerKnows'
    BY <1>7, <1>q, <1>m DEF FinishTask, Step
  <2>2. SharedTypes'
    BY <1>0, <1>7 DEF FinishTask, TypeOK, SharedTypes
  <2>3. StoreTypes' /\ WorldTypes' /\ CallInv'
    BY <1>7, KeepStore, KeepWorld, KeepCall DEF FinishTask
  <2> QED  BY <2>1, <2>2, <2>3, Parts
<1>8. CASE BuildMessages(t)
  <2>1. WorkerTypes' /\ WorkerKnows'
    <3>1. copy' = [copy EXCEPT ![t] = [copy[t] EXCEPT !.row.status = "planning"]]
      BY <1>0, <1>8 DEF BuildMessages, Copy, Row
    <3>2. context' \in [Tasks -> [Events -> Nat]]
      BY <1>0, <1>8 DEF BuildMessages
    <3> QED  BY <1>0, <1>8, <1>q, <1>r, <1>s, <3>1, <3>2, WorkerGoes DEF BuildMessages, Step
  <2>2. StoreTypes' /\ WorldTypes' /\ SharedTypes' /\ CallInv'
    BY <1>8, KeepStore, KeepWorld, KeepShared, KeepCall DEF OnlyWorker, BuildMessages
  <2> QED  BY <2>1, <2>2, Parts
<1>9. CASE Save(t)
  <2>1. WorkerTypes' /\ WorkerKnows'
    <3>1. Saved[pc[t]] \in PCs \ {"chat", "notice", "close", "record"}
      BY <1>9, <1>p, <1>q DEF Save
    <3> QED  BY <1>9, <1>m, <3>1 DEF Save
  <2>3. StoreTypes'
    BY <1>0, <1>9, RowIsTyped DEF Save
  <2>2. WorldTypes' /\ SharedTypes' /\ CallInv'
    BY <1>9, KeepWorld, KeepShared, KeepCall DEF OnlyWorker, Save
  <2> QED  BY <2>1, <2>2, <2>3, Parts
<1>10. CASE Refresh(t)
  <2>1. WorkerTypes' /\ WorkerKnows'
    <3>1. AfterSave[pc[t]] \in PCs \ {"chat", "notice", "close", "record"}
      BY <1>10, <1>p, <1>q DEF Refresh
    <3> QED  BY <1>0, <1>10, <3>1, WorkerMoves DEF Refresh
  <2>2. StoreTypes' /\ WorldTypes' /\ SharedTypes' /\ CallInv'
    BY <1>10, KeepStore, KeepWorld, KeepShared, KeepCall DEF OnlyWorker, Refresh
  <2> QED  BY <2>1, <2>2, Parts
<1>11. CASE Fail(t)
  <2>1. WorkerTypes' /\ WorkerKnows'
    <3> DEFINE k == [copy[t] EXCEPT !.row.status = "failed"]
    <3>1. copy' = [copy EXCEPT ![t] = k]
      BY <1>0, <1>11 DEF Fail, Copy, Row
    <3>2. pc' = [pc EXCEPT ![t] = "notice"] /\ UNCHANGED <<live, context>>
      BY <1>11 DEF Fail, Step, OnlyWorker
    <3>3. k \in Copy /\ k.row.status \in Terminal
      BY <1>0, <1>r, <1>s, <1>t DEF Copy, Row
    <3> HIDE DEF k
    <3> QED  BY <1>q, <1>w, <3>1, <3>2, <3>3
  <2>2. StoreTypes' /\ WorldTypes' /\ SharedTypes' /\ CallInv'
    BY <1>11, KeepStore, KeepWorld, KeepShared, KeepCall DEF OnlyWorker, Fail
  <2> QED  BY <2>1, <2>2, Parts
<1>12. CASE StopAtTop(t)
  <2>1. WorkerTypes' /\ WorkerKnows'
    <3> DEFINE k == [copy[t] EXCEPT !.row.status = "cancelled"]
    <3>1. copy' = [copy EXCEPT ![t] = k]
      BY <1>0, <1>12 DEF StopAtTop, Copy, Row
    <3>2. pc' = [pc EXCEPT ![t] = "close"] /\ UNCHANGED <<live, context>>
      BY <1>12 DEF StopAtTop, Step, OnlyWorker
    <3>3. k \in Copy /\ k.row.status \in Terminal
      BY <1>0, <1>r, <1>s, <1>t DEF Copy, Row
    <3> HIDE DEF k
    <3> QED  BY <1>q, <1>w, <3>1, <3>2, <3>3
  <2>2. StoreTypes' /\ WorldTypes' /\ SharedTypes' /\ CallInv'
    BY <1>12, KeepStore, KeepWorld, KeepShared, KeepCall DEF OnlyWorker, StopAtTop
  <2> QED  BY <2>1, <2>2, Parts
<1>13. CASE Drain(t)
  <2>1. WorkerTypes' /\ WorkerKnows'
    <3>1. context' \in [Tasks -> [Events -> Nat]]
      BY <1>0, <1>13 DEF Drain
    <3> QED  BY <1>0, <1>13, <1>q, <3>1, WorkerMoves DEF Drain, Step
  <2>3. SharedTypes'
    BY <1>0, <1>13 DEF Drain, TypeOK, SharedTypes
  <2>2. StoreTypes' /\ WorldTypes' /\ CallInv'
    BY <1>13, KeepStore, KeepWorld, KeepCall DEF Drain
  <2> QED  BY <2>1, <2>2, <2>3, Parts
<1>14. CASE Chat(t)
  <2>1. WorkerTypes' /\ WorkerKnows'
    <3> DEFINE k == [copy[t] EXCEPT !.steps = @ + 1]
    <3>1. copy' = [copy EXCEPT ![t] = k]
      BY <1>0, <1>14 DEF Chat, Copy
    <3>2. copy[t].steps < MaxSteps
      BY <1>0, <1>14 DEF Chat, Step, WorkerKnows
    <3>3. k \in Copy
      BY <1>0, <3>2, LifecycleAssumption DEF Copy, LifecycleAssumption
    <3> HIDE DEF k
    <3> QED  BY <1>14, <1>q, <1>w, <3>1, <3>3 DEF Chat, Step
  <2>3. StoreTypes'
    BY <1>0, <1>14, <1>t, LogIsTyped, KeepStore DEF Chat, TInv, store
  <2>2. WorldTypes' /\ SharedTypes' /\ CallInv'
    BY <1>14, KeepWorld, KeepShared, KeepCall DEF OnlyWorker, Chat
  <2> QED  BY <2>1, <2>2, <2>3, Parts
<1>15. CASE Act(t)
  <2>1. WorkerTypes' /\ WorkerKnows'
    <3>1. CASE UNCHANGED copy
      <4>1. \E q \in {"top", "save", "tool", "card", "answer"} : pc' = [pc EXCEPT ![t] = q]
        BY <1>15 DEF Act, Step
      <4> QED  BY <1>15, <1>q, <1>m, <3>1, <4>1 DEF Act
    <3>2. CASE /\ Step(t, "act", "answer")
               /\ \E st \in Status : copy' = [copy EXCEPT ![t].row.status = st]
      <4>1. PICK st \in Status : copy' = [copy EXCEPT ![t].row.status = st]
        BY <3>2
      <4>2. copy' = [copy EXCEPT ![t] = [copy[t] EXCEPT !.row.status = st]]
        BY <1>0, <4>1 DEF Copy, Row
      <4> QED  BY <1>15, <1>q, <1>r, <1>w, <3>2, <4>2 DEF Act, Step
    <3> QED  BY <1>15, <1>s, <3>1, <3>2 DEF Act
  <2>2. StoreTypes' /\ WorldTypes' /\ SharedTypes' /\ CallInv'
    BY <1>15, KeepStore, KeepWorld, KeepShared, KeepCall DEF OnlyWorker, Act
  <2> QED  BY <2>1, <2>2, Parts
<1>16. CASE SendCard(t)
  <2>1. WorkerTypes' /\ WorkerKnows'
    <3>1. copy' = [copy EXCEPT ![t] = [copy[t] EXCEPT !.row.card = TRUE, !.row.status = "working"]]
      BY <1>0, <1>16 DEF SendCard, Copy, Row
    <3> QED  BY <1>16, <1>q, <1>r, <1>w, <3>1 DEF SendCard, Step
  <2>3. WorldTypes'
    BY <1>0, <1>16 DEF SendCard, TypeOK, WorldTypes
  <2>2. StoreTypes' /\ SharedTypes' /\ CallInv'
    BY <1>16, KeepStore, KeepShared, KeepCall DEF SendCard
  <2> QED  BY <2>1, <2>2, <2>3, Parts
<1>17. CASE RunTool(t)
  <2>1. WorkerTypes' /\ WorkerKnows'
    <3>1. CASE Step(t, "tool", "save") /\ UNCHANGED copy
      BY <1>17, <1>q, <1>m, <3>1 DEF RunTool, Step
    <3>2. CASE Step(t, "tool", "answer") /\ copy' = [copy EXCEPT ![t].row.status = "working"]
      <4>1. copy' = [copy EXCEPT ![t] = [copy[t] EXCEPT !.row.status = "working"]]
        BY <1>0, <3>2 DEF Copy, Row
      <4> QED  BY <1>17, <1>q, <1>r, <1>s, <1>w, <3>2, <4>1 DEF RunTool, Step
    <3> QED  BY <1>17, <3>1, <3>2 DEF RunTool
  <2>2. StoreTypes' /\ WorldTypes' /\ SharedTypes' /\ CallInv'
    BY <1>17, KeepStore, KeepWorld, KeepShared, KeepCall DEF OnlyWorker, RunTool
  <2> QED  BY <2>1, <2>2, Parts
<1>18. CASE SendAnswer(t)
  <2>1. WorkerTypes' /\ WorkerKnows'
    <3> DEFINE k == [copy[t] EXCEPT !.row.status = "delivered"]
    <3>1. copy' = [copy EXCEPT ![t] = k]
      BY <1>0, <1>18 DEF SendAnswer, Copy, Row
    <3>2. pc' = [pc EXCEPT ![t] = "close"] /\ UNCHANGED <<live, context>>
      BY <1>18 DEF SendAnswer, Step
    <3>3. k \in Copy /\ k.row.status \in Terminal
      BY <1>0, <1>r, <1>s, <1>t DEF Copy, Row
    <3> HIDE DEF k
    <3> QED  BY <1>q, <1>w, <3>1, <3>2, <3>3
  <2>3. WorldTypes'
    BY <1>0, <1>18 DEF SendAnswer, TypeOK, WorldTypes
  <2>2. StoreTypes' /\ SharedTypes' /\ CallInv'
    BY <1>18, KeepStore, KeepShared, KeepCall DEF SendAnswer
  <2> QED  BY <2>1, <2>2, <2>3, Parts
<1>19. CASE SendNotice(t)
  <2>1. WorkerTypes' /\ WorkerKnows'
    <3>1. copy[t].row.status \in Terminal
      BY <1>0, <1>19 DEF SendNotice, Step, WorkerKnows
    <3> QED  BY <1>19, <1>q, <1>m, <3>1 DEF SendNotice, Step
  <2>2. StoreTypes' /\ WorldTypes' /\ SharedTypes' /\ CallInv'
    BY <1>19, KeepStore, KeepWorld, KeepShared, KeepCall DEF OnlyWorker, SendNotice
  <2> QED  BY <2>1, <2>2, Parts
<1>20. CASE CloseCard(t)
  <2>1. WorkerTypes' /\ WorkerKnows'
    <3>1. copy[t].row.status \in Terminal
      BY <1>0, <1>20 DEF CloseCard, Step, WorkerKnows
    <3> QED  BY <1>20, <1>q, <1>m, <3>1 DEF CloseCard, Step
  <2>3. StoreTypes' /\ WorldTypes'
    <3>1. copy[t].row.status \in Terminal
      BY <1>0, <1>20 DEF CloseCard, Step, WorkerKnows
    <3>2. WorldTypes'
      BY <1>0, <1>20, <3>1 DEF CloseCard, TypeOK, WorldTypes
    <3>3. StoreTypes'
      BY <1>0, <1>20, <1>t, LogIsTyped, KeepStore DEF CloseCard, store
    <3> QED  BY <3>2, <3>3
  <2>2. SharedTypes' /\ CallInv'
    BY <1>20, KeepShared, KeepCall DEF CloseCard
  <2> QED  BY <2>1, <2>2, <2>3, Parts
<1>21. CASE CloseRecord(t)
  <2>1. WorkerTypes' /\ WorkerKnows'
    BY <1>21, <1>q, <1>m DEF CloseRecord, Step
  <2>3. StoreTypes'
    <3>1. copy[t].row.status \in Kinds
      BY <1>0, <1>21, <1>t DEF CloseRecord, Step, WorkerKnows
    <3> QED  BY <1>0, <1>21, <3>1, LogIsTyped DEF CloseRecord
  <2>2. WorldTypes' /\ SharedTypes' /\ CallInv'
    BY <1>21, KeepWorld, KeepShared, KeepCall DEF OnlyWorker, CloseRecord
  <2> QED  BY <2>1, <2>2, <2>3, Parts
<1>22. CASE Seal(t)
  <2>1. WorkerTypes' /\ WorkerKnows'
    <3>1. copy' = [copy EXCEPT ![t] = [copy[t] EXCEPT !.row.hash = TRUE]]
      BY <1>0, <1>22 DEF Seal, Copy, Row
    <3> QED  BY <1>22, <1>q, <1>r, <1>w, <3>1 DEF Seal, Step
  <2>3. StoreTypes'
    <3>1. Len(log[t]) \in Nat
      BY <1>0, LenProperties DEF TypeOK, StoreTypes
    <3> QED  BY <1>0, <1>22, <3>1 DEF Seal, TypeOK, StoreTypes
  <2>2. WorldTypes' /\ SharedTypes' /\ CallInv'
    BY <1>22, KeepWorld, KeepShared, KeepCall DEF OnlyWorker, Seal
  <2> QED  BY <2>1, <2>2, <2>3, Parts
<1>23. CASE Return(t)
  <2>1. WorkerTypes' /\ WorkerKnows'
    <3>1. live' \in [Tasks -> Row]
      BY <1>0, <1>23, RowTypes DEF Return
    <3> QED  BY <1>0, <1>23, <1>q, <3>1, WorkerMoves DEF Return, Step
  <2>2. StoreTypes' /\ WorldTypes' /\ SharedTypes' /\ CallInv'
    BY <1>23, KeepStore, KeepWorld, KeepShared, KeepCall DEF OnlyWorker, Return
  <2> QED  BY <2>1, <2>2, Parts
<1>24. CASE Abandoned(t)
  <2>1. WorkerTypes' /\ WorkerKnows'
    BY <1>24, <1>q, <1>m DEF Abandoned
  <2>2. StoreTypes' /\ WorldTypes' /\ SharedTypes' /\ CallInv'
    BY <1>24, KeepStore, KeepWorld, KeepShared, KeepCall DEF OnlyWorker, Abandoned
  <2> QED  BY <2>1, <2>2, Parts
<1>25. CASE WorkerError(t)
  <2>1. WorkerTypes' /\ WorkerKnows'
    <3> DEFINE k == [copy[t] EXCEPT !.last = TRUE, !.row.status = "failed"]
    <3>1. copy' = [copy EXCEPT ![t] = k]
      BY <1>0, <1>25 DEF WorkerError, Copy, Row
    <3>2. k \in Copy /\ k.row.status \in Terminal
      BY <1>0, <1>r, <1>t DEF Copy, Row
    <3> HIDE DEF k
    <3> QED  BY <1>25, <1>q, <1>w, <3>1, <3>2 DEF WorkerError
  <2>2. StoreTypes' /\ WorldTypes' /\ SharedTypes' /\ CallInv'
    BY <1>25, KeepStore, KeepWorld, KeepShared, KeepCall DEF OnlyWorker, WorkerError
  <2> QED  BY <2>1, <2>2, Parts
<1> QED  BY <1>1, <1>2, <1>3, <1>4, <1>5, <1>6, <1>7, <1>8, <1>9, <1>10, <1>11, <1>12, <1>13, <1>14, <1>15, <1>16, <1>17, <1>18, <1>19, <1>20, <1>21, <1>22, <1>23, <1>24, <1>25 DEF Run

LEMMA PopTInv ==
    ASSUME TInv, Pop
    PROVE  TInv'
<1>1. queue \in Seq(Tasks) /\ queue # <<>> /\ TypeOK
  BY DEF Pop, TInv, TypeOK, SharedTypes
<1>2. Head(queue) \in Tasks /\ Tail(queue) \in Seq(Tasks)
  BY <1>1, HeadTailProperties
<1>3. SharedTypes'
  BY <1>1, <1>2 DEF Pop, TypeOK, SharedTypes
<1>4. WorkerTypes' /\ WorkerKnows'
  BY <1>2, WorkerMoves DEF Pop, Step, PCs, TInv, TypeOK, WorkerTypes
<1>5. StoreTypes' /\ WorldTypes' /\ CallInv'
  BY KeepStore, KeepWorld, KeepCall DEF Pop
<1> QED  BY <1>3, <1>4, <1>5, Parts

LEMMA AppTInv ==
    ASSUME TInv, AppAbort \/ AppPick
    PROVE  TInv'
<1>0. /\ TypeOK /\ App \in Callers /\ call \in [Callers -> Call] /\ call[App] \in Call
      /\ {"pick", "mark", "down"} \subseteq CallPCs
      /\ live \in [Tasks -> Row] /\ WorkerKnows /\ pc \in [Tasks -> PCs]
  BY DEF TInv, TypeOK, Callers, CallPCs, CancelPCs, WorkerTypes
<1>1. CASE AppAbort
  <2> DEFINE S == {u \in Tasks : live[u] # Absent}
             f == [t \in S |-> live[t]]
             dropped == {t \in Tasks : InDispatch(t)}
  <2>1. f \in Listing
    <3>1. S \in SUBSET Tasks /\ f \in [S -> Row]
      BY <1>0
    <3> HIDE DEF S, f
    <3> QED  BY <3>1, ListingOf
  <2>2. call' = [call EXCEPT ![App].pc = "pick", ![App].listed = f]
    BY <1>1 DEF AppAbort
  <2> HIDE DEF S, f
  <2>3. CallInv'
    <3> DEFINE k == [call[App] EXCEPT !.pc = "pick", !.listed = f]
    <3>1. k \in Call /\ k.pc \notin Busy
      BY <1>0, <2>1 DEF Call, Busy, CancelPCs
    <3>2. call' = [call EXCEPT ![App] = k]
      BY <1>0, <2>2
    <3> HIDE DEF k
    <3> QED  BY <1>0, <3>1, <3>2, Goes
  <2>4. SharedTypes'
    <3>1. /\ queue' = queue /\ owned' = owned \ dropped /\ running' = running \ dropped
          /\ cancelled' = cancelled /\ runner' = "aborted"
          /\ steer' = [t \in Tasks |-> IF t \in dropped THEN {} ELSE steer[t]]
          /\ signal' = [t \in Tasks |-> IF t \in dropped THEN "none" ELSE signal[t]]
      BY <1>1 DEF AppAbort
    <3> HIDE DEF dropped
    <3> QED  BY <1>0, <3>1 DEF TypeOK, SharedTypes
  <2>5. WorkerTypes' /\ WorkerKnows'
    <3>1. pc' = [t \in Tasks |-> IF t \in dropped THEN "over" ELSE pc[t]]
      BY <1>1 DEF AppAbort
    <3>2. UNCHANGED <<copy, live, context>>
      BY <1>1 DEF AppAbort
    <3>3. "over" \in PCs
      BY DEF PCs
    <3> HIDE DEF dropped
    <3>4. pc' \in [Tasks -> PCs] /\ \A t \in Tasks : pc'[t] = "over" \/ pc'[t] = pc[t]
      BY <1>0, <3>1, <3>3
    <3> QED  BY <1>0, <3>2, <3>4 DEF TypeOK, WorkerTypes, WorkerKnows
  <2>6. StoreTypes' /\ WorldTypes'
    BY <1>1, KeepStore, KeepWorld DEF AppAbort
  <2> QED  BY <2>3, <2>4, <2>5, <2>6, Parts
<1>2. CASE AppPick
  <2> DEFINE left == call[App].listed
  <2>0. left \in Listing
    BY <1>0 DEF Call
  <2>1. CallInv'
    <3>1. CASE Go(App, "down")
      BY <1>0, <3>1, GoesOn DEF Busy, CancelPCs
    <3>2. CASE \E t \in DOMAIN left :
                call' = [call EXCEPT ![App].pc = "mark", ![App].task = t, ![App].row = left[t],
                                     ![App].listed = [u \in DOMAIN left \ {t} |-> left[u]]]
      <4>1. PICK t \in DOMAIN left :
                call' = [call EXCEPT ![App].pc = "mark", ![App].task = t, ![App].row = left[t],
                                     ![App].listed = [u \in DOMAIN left \ {t} |-> left[u]]]
        BY <3>2
      <4> DEFINE f == [u \in DOMAIN left \ {t} |-> left[u]]
                 k == [call[App] EXCEPT !.pc = "mark", !.task = t, !.row = left[t], !.listed = f]
      <4>2. f \in Listing
        <5>1. DOMAIN left \ {t} \in SUBSET Tasks /\ f \in [DOMAIN left \ {t} -> Row]
          BY <2>0, ListedRows
        <5> HIDE DEF f
        <5> QED  BY <5>1, ListingOf
      <4>3. t \in Tasks /\ left[t] \in Row
        BY <2>0, ListedRows
      <4>4. call' = [call EXCEPT ![App].pc = "mark", ![App].task = t, ![App].row = left[t],
                                 ![App].listed = f]
        BY <4>1
      <4> HIDE DEF f, left
      <4>5. k \in Call /\ k.task = t
        BY <1>0, <4>2, <4>3 DEF Call
      <4>6. call' = [call EXCEPT ![App] = k]
        BY <1>0, <4>4
      <4> HIDE DEF k
      <4> QED  BY <1>0, <4>3, <4>5, <4>6, Goes
    <3> QED  BY <1>2, <3>1, <3>2 DEF AppPick
  <2> QED  BY <1>2, <2>1, OnlyCall DEF AppPick
<1> QED  BY <1>1, <1>2
-----------------------------------------------------------------------------
LEMMA NextTInv == TInv /\ [Next]_vars => TInv'
<1> SUFFICES ASSUME TInv, [Next]_vars PROVE TInv'
  OBVIOUS
<1>1. CASE UNCHANGED vars
  <2>1. UNCHANGED <<store, world, shared, worker>> /\ UNCHANGED call
    BY <1>1 DEF vars
  <2> QED  BY <2>1, KeepCall, OnlyCall
<1>2. CASE Next
  BY <1>2, FollowTInv, StopTInv, CancelTInv, RunTInv, PopTInv, AppTInv DEF Next
<1> QED  BY <1>1, <1>2

(* Types of the state, for every choice of the constants: rows and chains,  *)
(* the sets of Shared, and no step beyond max_steps.                        *)
THEOREM TypeCorrect == Spec => []TypeOK
<1>1. TInv => TypeOK
  BY DEF TInv
<1> QED  BY InitTInv, NextTInv, <1>1, PTL DEF Spec, SafeSpec
-----------------------------------------------------------------------------
(* No worker starts on what is being closed.  What makes it inductive is    *)
(* that a cancellation past its mark has its task in `cancelled`, which     *)
(* nothing leaves, and that Admit looks there before it enters `running`.   *)

PastMark == CancelPCs \ {"mark"}
Marked == \A c \in Callers : call[c].pc \in PastMark => call[c].task \in cancelled

(* How a handler may come past its mark, and stay there.                    *)
Came(c) ==
    call'[c].pc \in PastMark =>
        /\ call'[c].task = call[c].task
        /\ \/ call[c].pc \in PastMark /\ call'[c].ran = call[c].ran
           \/ /\ call'[c].task \in cancelled'
              /\ call'[c].ran = (call[c].task \in running) /\ running' = running

LEMMA HandlersCome ==
    ASSUME TInv, [Next]_vars
    PROVE  \A c \in Callers : Came(c)
<1>0. call \in [Callers -> Call] /\ Events \subseteq Callers /\ Stoppers \subseteq Callers
      /\ App \in Callers
  BY DEF TInv, TypeOK, Callers
<1>1. ASSUME NEW d \in Callers,
             \A c \in Callers \ {d} : call'[c] = call[c], Came(d)
      PROVE  \A c \in Callers : Came(c)
  BY <1>1 DEF Came
<1>g. ASSUME NEW d \in Callers, NEW p, p \notin PastMark, Go(d, p)
      PROVE  \A c \in Callers : Came(c)
  <2>1. call'[d].pc = p /\ \A c \in Callers \ {d} : call'[c] = call[c]
    BY <1>0, <1>g DEF Go, Call
  <2> QED  BY <1>1, <1>g, <2>1 DEF Came
<1>h. ASSUME NEW d \in Callers, NEW p, Go(d, p), call[d].pc \in PastMark
      PROVE  \A c \in Callers : Came(c)
  <2>1. /\ call'[d].task = call[d].task /\ call'[d].ran = call[d].ran
        /\ \A c \in Callers \ {d} : call'[c] = call[c]
    BY <1>0, <1>h DEF Go, Call
  <2> QED  BY <1>1, <1>h, <2>1 DEF Came
<1>2. CASE UNCHANGED call
  BY <1>2 DEF Came
<1>3. ASSUME NEW e \in Events, FollowTurn(e) \/ Follow(e)
      PROVE  \A c \in Callers : Came(c)
  <2>1. call'[e].pc \notin PastMark /\ \A c \in Callers \ {e} : call'[c] = call[c]
    <3>1. CASE FollowList(e)
      BY <1>0, <3>1 DEF FollowList, PastMark, CancelPCs, Call
    <3>2. CASE FollowChoose(e)
      <4>1. \E p \in {"create", "append", "abandon"} : \E t, r :
              call' = [call EXCEPT ![e].pc = p, ![e].task = t, ![e].row = r, ![e].listed = Nothing]
        BY <3>2 DEF FollowChoose
      <4> QED  BY <1>0, <4>1 DEF PastMark, CancelPCs, Call
    <3>3. CASE StartCreate(e)
      BY <1>0, <3>3 DEF StartCreate, PastMark, CancelPCs, Call
    <3>4. CASE \E p \in {"list", "push", "done", "record2", "enqueue", "mark", "gone"} : Go(e, p)
      BY <1>0, <3>4 DEF Go, PastMark, CancelPCs, Call
    <3> QED  BY <1>3, <3>1, <3>2, <3>3, <3>4 DEF Follow, FollowTurn, FollowAppend, FollowPush,
                StartRecord, StartEnqueue, Abandon, AbandonReturns
  <2> QED  BY <1>0, <1>1, <2>1 DEF Came
<1>4. ASSUME NEW s \in Stoppers, StopResolve(s) \/ Stop(s)
      PROVE  \A c \in Callers : Came(c)
  <2>1. CASE StopResolve(s)
    <3>1. call'[s].pc \notin PastMark /\ \A c \in Callers \ {s} : call'[c] = call[c]
      BY <1>0, <2>1 DEF StopResolve, PastMark, CancelPCs, Call
    <3> QED  BY <1>0, <1>1, <3>1 DEF Came
  <2>2. CASE \E p \in {"mark", "note"} : Go(s, p)
    BY <1>0, <1>g, <2>2 DEF PastMark, CancelPCs
  <2> QED  BY <1>4, <2>1, <2>2 DEF Stop, StopCommand, StopNote
<1>5. ASSUME NEW d \in Callers, Cancel(d) \/ CancelWriteFails(d)
      PROVE  \A c \in Callers : Came(c)
  <2>1. CASE CancelMark(d)
    <3> DEFINE b == call[d].task \in running
    <3>1. call' = [call EXCEPT ![d].pc = "reread", ![d].ran = b]
      BY <2>1 DEF CancelMark
    <3>2. running' = running /\ call[d].task \in cancelled'
      BY <2>1 DEF CancelMark
    <3>3. b = (call[d].task \in running)
      OBVIOUS
    <3> HIDE DEF b
    <3>4. /\ call'[d].task = call[d].task /\ call'[d].ran = b
          /\ \A c \in Callers \ {d} : call'[c] = call[c]
      BY <1>0, <3>1 DEF Call
    <3> QED  BY <1>1, <3>2, <3>3, <3>4 DEF Came
  <2>2. CASE CancelWrite(d)
    <3>1. /\ call'[d].task = call[d].task /\ call'[d].ran = call[d].ran
          /\ call[d].pc \in PastMark
          /\ \A c \in Callers \ {d} : call'[c] = call[c]
      BY <1>0, <2>2 DEF CancelWrite, At, PastMark, CancelPCs, Call
    <3> QED  BY <1>1, <3>1 DEF Came
  <2>3. CASE CancelSeal(d)
    <3>1. /\ call'[d].task = call[d].task /\ call'[d].ran = call[d].ran
          /\ call[d].pc \in PastMark
          /\ \A c \in Callers \ {d} : call'[c] = call[c]
      BY <1>0, <2>3 DEF CancelSeal, At, PastMark, CancelPCs, Call, Row
    <3> QED  BY <1>1, <3>1 DEF Came
  <2>4. CASE CancelReread(d) \/ CancelRecord(d) \/ CancelCard(d) \/ CancelStamp(d)
    <3>1. call[d].pc \in PastMark /\ \E p \in CallPCs : Go(d, p)
      BY <2>4 DEF CancelReread, CancelRecord, CancelCard, CancelStamp, At, PastMark,
                  CancelPCs, CallPCs
    <3> QED  BY <1>h, <3>1
  <2>5. CASE CancelTell(d) \/ CancelWriteFails(d)
    <3>1. \E p \in {"told", "unsaved", "create", "pick", "returned"} : Go(d, p)
      BY <2>5 DEF CancelTell, CancelWriteFails
    <3> QED  BY <1>g, <3>1 DEF PastMark, CancelPCs
  <2> QED  BY <1>5, <2>1, <2>2, <2>3, <2>4, <2>5 DEF Cancel
<1>6. CASE AppAbort \/ AppPick
  <2>1. call'[App].pc \notin PastMark /\ \A c \in Callers \ {App} : call'[c] = call[c]
    <3>1. CASE Go(App, "down")
      BY <1>0, <3>1 DEF Go, PastMark, CancelPCs, Call
    <3>2. CASE \E f : call' = [call EXCEPT ![App].pc = "pick", ![App].listed = f]
      BY <1>0, <3>2 DEF PastMark, CancelPCs, Call
    <3>3. CASE \E t, r, f : call' = [call EXCEPT ![App].pc = "mark", ![App].task = t,
                                                ![App].row = r, ![App].listed = f]
      BY <1>0, <3>3 DEF PastMark, CancelPCs, Call
    <3>4. CASE AppAbort
      BY <3>2, <3>4 DEF AppAbort
    <3>5. CASE AppPick
      BY <3>1, <3>3, <3>5 DEF AppPick
    <3> QED  BY <1>6, <3>4, <3>5
  <2> QED  BY <1>0, <1>1, <2>1 DEF Came
<1>7. CASE Pop
  BY <1>2, <1>7 DEF Pop
<1>8. ASSUME NEW t \in Tasks, Run(t) \/ WorkerError(t)
      PROVE  UNCHANGED call
  BY <1>8 DEF Run, WorkerError, OnlyWorker, Fetch, Admit, ClearSteer, Arm, BuildMessages, Save,
       Refresh, Fail, StopAtTop, Drain, Chat, Act, SendCard, RunTool, SendAnswer, SendNotice,
       CloseCard, CloseRecord, Seal, Return, Abandoned, LeaveRunning, Disarm, FinishTask
<1> QED  BY <1>2, <1>3, <1>4, <1>5, <1>6, <1>7, <1>8 DEF Next, vars

(* Nothing leaves `cancelled`, and only Admit enters `running`.             *)
LEMMA SetsStep ==
    ASSUME [Next]_vars
    PROVE  /\ cancelled \subseteq cancelled'
           /\ \/ running' \subseteq running
              \/ \E t \in Tasks \ cancelled : running' = running \cup {t} /\ UNCHANGED call
<1>1. ASSUME NEW e \in Events, FollowTurn(e) \/ Follow(e)
      PROVE  UNCHANGED <<cancelled, running>>
  BY <1>1 DEF Follow, FollowTurn, FollowList, FollowChoose, FollowAppend, FollowPush, StartCreate,
       StartRecord, StartEnqueue, Abandon, AbandonReturns, shared
<1>2. ASSUME NEW s \in Stoppers, StopResolve(s) \/ Stop(s)
      PROVE  UNCHANGED <<cancelled, running>>
  BY <1>2 DEF StopResolve, Stop, StopCommand, StopNote, shared
<1>3. ASSUME NEW c \in Callers, Cancel(c) \/ CancelWriteFails(c)
      PROVE  running' = running /\ cancelled \subseteq cancelled'
  BY <1>3 DEF Cancel, CancelMark, CancelReread, CancelWrite, CancelWriteFails, CancelRecord,
       CancelCard, CancelSeal, CancelStamp, CancelTell, shared
<1>4. CASE Pop \/ AppAbort \/ AppPick
  BY <1>4 DEF Pop, AppAbort, AppPick, shared
<1>5. ASSUME NEW t \in Tasks, Run(t) \/ WorkerError(t)
      PROVE  /\ cancelled' = cancelled
             /\ \/ running' \subseteq running
                \/ t \notin cancelled /\ running' = running \cup {t} /\ UNCHANGED call
  <2>1. CASE Admit(t) \/ LeaveRunning(t)
    BY <2>1 DEF Admit, LeaveRunning
  <2>2. CASE UNCHANGED <<cancelled, running>>
    BY <2>2
  <2> QED  BY <1>5, <2>1, <2>2
       DEF Run, WorkerError, OnlyWorker, shared, Fetch, ClearSteer, Arm, BuildMessages, Save,
       Refresh, Fail, StopAtTop, Drain, Chat, Act, SendCard, RunTool, SendAnswer, SendNotice,
       CloseCard, CloseRecord, Seal, Return, Abandoned, Disarm, FinishTask
<1>6. CASE UNCHANGED vars
  BY <1>6 DEF vars, shared
<1> QED  BY <1>1, <1>2, <1>3, <1>4, <1>5, <1>6 DEF Next

LEMMA InitStopped == Init => Marked /\ StoppedBeforeRun
BY DEF Init, Marked, StoppedBeforeRun, PastMark, CancelPCs, Idle

LEMMA NextStopped ==
    ASSUME TInv, Marked, StoppedBeforeRun, [Next]_vars
    PROVE  Marked' /\ StoppedBeforeRun'
<1>1. \A c \in Callers : Came(c)
  BY HandlersCome
<1>2. Marked'
  BY <1>1, SetsStep DEF Marked, Came
<1>3. StoppedBeforeRun'
  <2> SUFFICES ASSUME NEW c \in Callers, (call[c].pc \in PastMark /\ ~call[c].ran)'
               PROVE  (call[c].task \notin running)'
    BY DEF StoppedBeforeRun, PastMark
  <2>1. Came(c)
    BY <1>1
  <2>2. CASE UNCHANGED call
    BY <2>2, SetsStep DEF Marked, StoppedBeforeRun, PastMark
  <2>3. CASE running' \subseteq running
    BY <2>1, <2>3 DEF Came, StoppedBeforeRun, PastMark
  <2> QED  BY <2>2, <2>3, SetsStep
<1> QED  BY <1>2, <1>3

(* A cancellation that found the task not running has it to itself: with    *)
(* any number of stops and events, stuck workers, failures and a shutdown,  *)
(* no worker starts on a task while cancel_task closes it.                  *)
THEOREM NoRunIntoACancel == Spec => []StoppedBeforeRun
<1>1. Init => TInv /\ Marked /\ StoppedBeforeRun
  BY InitTInv, InitStopped
<1>2. TInv /\ Marked /\ StoppedBeforeRun /\ [Next]_vars => (TInv /\ Marked /\ StoppedBeforeRun)'
  BY NextTInv, NextStopped
<1> QED  BY <1>1, <1>2, PTL DEF Spec, SafeSpec

-----------------------------------------------------------------------------
(* The sets of Shared tell where a task is.  It is inductive with what      *)
(* keeps a task from being queued or dispatched twice: a number that is in  *)
(* use has a row, a row never goes back to "absent", and StartCreate only   *)
(* takes a number that has none.                                            *)

InQueue(t) == \E i \in DOMAIN queue : queue[i] = t
Starting(c) == call[c].pc \in {"record", "record2", "enqueue"}
Hand == WorkerPCs \cup {"clear", "arm", "ran"}
Writing == {"close", "card", "seal", "stamp"}

QueueDistinct == \A i, j \in DOMAIN queue : queue[i] = queue[j] => i = j
QueueWaits == \A t \in Tasks : InQueue(t) => pc[t] = "none"
StartsOnce == \A c \in Callers : Starting(c) =>
    /\ ~InQueue(call[c].task) /\ pc[call[c].task] = "none"
    /\ row[call[c].task].status # "absent"
    /\ \A d \in Callers : Starting(d) /\ call[d].task = call[c].task => d = c
UsedHasRow == \A t \in Tasks : InQueue(t) \/ pc[t] # "none" => row[t].status # "absent"
CopyHasRow == \A t \in Tasks : pc[t] \in {"admit", "clear", "arm"} \cup WorkerPCs =>
    copy[t].row.status # "absent"
CancelHasRow == \A c \in Callers : call[c].pc \in Writing => call[c].row.status = "cancelled"

LiveInv == /\ QueueDistinct /\ QueueWaits /\ StartsOnce /\ UsedHasRow /\ CopyHasRow
           /\ CancelHasRow /\ OwnedIsLive

LEMMA InitLive == Init => LiveInv
BY DEF Init, LiveInv, QueueDistinct, QueueWaits, StartsOnce, UsedHasRow, CopyHasRow, CancelHasRow,
       OwnedIsLive, InQueue, Starting, Writing, Idle, InDispatch, InWorker, WorkerPCs, RunPCs,
       Saved, AfterSave

(* A step of t's dispatch: where it may go, and what becomes of the sets.   *)
RunFrame(t) ==
    /\ queue' = queue /\ call' = call
    /\ pc[t] \notin {"none", "over"} /\ pc'[t] # "none"
    /\ \A u \in Tasks \ {t} : pc'[u] = pc[u]
    /\ owned' = IF pc'[t] = "over" THEN owned \ {t} ELSE owned
    /\ \/ (pc[t] \in Hand <=> pc'[t] \in Hand) /\ running' = running
       \/ pc'[t] \in Hand /\ running' = running \cup {t}
       \/ pc'[t] \notin Hand /\ running' = running \ {t}

LEMMA PCNames ==
    /\ WorkerPCs = {"plan", "carded", "save", "answer", "settle",
             "build", "chat", "card", "tool", "send", "notice", "close", "record", "seal",
             "planned", "cardSaved", "stepSaved", "answerSaved", "settled", "top", "act", "return"}
    /\ RunPCs \subseteq WorkerPCs
    /\ \A q \in DOMAIN Saved : q \in WorkerPCs /\ Saved[q] \in WorkerPCs
    /\ \A q \in DOMAIN AfterSave : q \in WorkerPCs /\ AfterSave[q] \in WorkerPCs
BY DEF WorkerPCs, RunPCs, Saved, AfterSave

LEMMA RunSteps ==
    ASSUME TInv, NEW t \in Tasks, Run(t) \/ WorkerError(t)
    PROVE  RunFrame(t)
<1>0. pc \in [Tasks -> PCs]
  BY DEF TInv, TypeOK, WorkerTypes
<1>1. CASE Fetch(t) \/ ClearSteer(t) \/ Arm(t) \/ Disarm(t)
  BY <1>0, <1>1, PCNames DEF Fetch, ClearSteer, Arm, Disarm, Step, RunFrame, Hand, shared
<1>2. CASE Admit(t) \/ LeaveRunning(t) \/ FinishTask(t)
  BY <1>0, <1>2, PCNames DEF Admit, LeaveRunning, FinishTask, Step, RunFrame, Hand, shared
<1>3. ASSUME NEW p \in WorkerPCs, NEW q \in WorkerPCs \cup {"ran"},
             pc[t] = p, pc' = [pc EXCEPT ![t] = q],
             UNCHANGED <<queue, owned, running, call>>
      PROVE  RunFrame(t)
  BY <1>0, <1>3, PCNames DEF RunFrame, Hand
<1>4. CASE BuildMessages(t) \/ Save(t) \/ Refresh(t) \/ Fail(t) \/ StopAtTop(t) \/ Drain(t)
  BY <1>3, <1>4, PCNames DEF BuildMessages, Save, Refresh, Fail, StopAtTop, Drain, Step,
     OnlyWorker, shared
<1>5. CASE Chat(t) \/ Act(t) \/ SendCard(t) \/ RunTool(t) \/ SendAnswer(t) \/ SendNotice(t)
  BY <1>3, <1>5, PCNames DEF Chat, Act, SendCard, RunTool, SendAnswer, SendNotice, Step,
     OnlyWorker, shared
<1>6. CASE CloseCard(t) \/ CloseRecord(t) \/ Seal(t) \/ Return(t) \/ Abandoned(t)
  BY <1>3, <1>6, PCNames DEF CloseCard, CloseRecord, Seal, Return, Abandoned, InWorker, Step,
     OnlyWorker, shared
<1>7. CASE WorkerError(t)
  <2>1. pc[t] \in WorkerPCs /\ {"return", "notice"} \subseteq WorkerPCs
    BY <1>7, PCNames DEF WorkerError
  <2>2. \E q \in {"return", "notice"} : pc' = [pc EXCEPT ![t] = q]
    BY <1>7 DEF WorkerError
  <2>3. UNCHANGED <<queue, owned, running, call>>
    BY <1>7 DEF WorkerError, OnlyWorker, shared
  <2> QED  BY <1>3, <2>1, <2>2, <2>3
<1> QED  BY <1>1, <1>2, <1>4, <1>5, <1>6, <1>7 DEF Run

LEMMA RunLive ==
    ASSUME TInv, LiveInv, NEW t \in Tasks, RunFrame(t)
    PROVE  QueueDistinct' /\ QueueWaits' /\ OwnedIsLive'
<1>0. /\ \A u \in Tasks : InQueue(u)' <=> InQueue(u)
      /\ owned = {u \in Tasks : InDispatch(u) \/ InQueue(u)}
      /\ running = {u \in Tasks : pc[u] \in Hand}
  BY DEF RunFrame, InQueue, LiveInv, OwnedIsLive, InWorker, Hand
<1>1. QueueDistinct' /\ QueueWaits'
  BY <1>0 DEF RunFrame, LiveInv, QueueDistinct, QueueWaits
<1>2. owned' = {u \in Tasks : InDispatch(u) \/ InQueue(u)}'
  BY <1>0 DEF RunFrame, InDispatch, LiveInv, QueueWaits
<1>3. running' = {u \in Tasks : pc[u] \in Hand}'
  BY <1>0 DEF RunFrame
<1> QED  BY <1>1, <1>2, <1>3 DEF OwnedIsLive, InQueue, InWorker, Hand

(* What handlers and shutdown do to the task of a handler, and to its row.  *)
CallFrame(c) ==
    /\ Starting(c)' => \/ Starting(c) /\ call'[c].task = call[c].task
                       \/ /\ call'[c].task \in Tasks
                          /\ row[call'[c].task].status = "absent"
                          /\ row'[call'[c].task].status # "absent"
                          /\ \A d \in Callers \ {c} : call'[d] = call[d]
    /\ call'[c].pc \in Writing => call'[c].row.status = "cancelled"

LEMMA CallSteps ==
    ASSUME TInv, CancelHasRow, [Next]_vars
    PROVE  \A c \in Callers : CallFrame(c)
<1>0. /\ call \in [Callers -> Call] /\ Events \subseteq Callers /\ Stoppers \subseteq Callers
      /\ App \in Callers /\ row \in [Tasks -> Row] /\ HandlerKnows
  BY DEF TInv, TypeOK, Callers, StoreTypes
<1>1. ASSUME NEW d \in Callers,
             \A c \in Callers \ {d} : call'[c] = call[c], CallFrame(d)
      PROVE  \A c \in Callers : CallFrame(c)
  BY <1>1 DEF CallFrame, Starting, CancelHasRow
<1>f. ASSUME NEW d \in Callers, \A c \in Callers \ {d} : call'[c] = call[c],
             call'[d].pc \notin Writing \cup {"record", "record2", "enqueue"}
      PROVE  \A c \in Callers : CallFrame(c)
  BY <1>1, <1>f DEF CallFrame, Starting
<1>g. ASSUME NEW d \in Callers, NEW p, Go(d, p),
             p \notin Writing \cup {"record", "record2", "enqueue"}
      PROVE  \A c \in Callers : CallFrame(c)
  <2>1. call'[d].pc = p /\ \A c \in Callers \ {d} : call'[c] = call[c]
    BY <1>0, <1>g DEF Go, Call
  <2> QED  BY <1>f, <1>g, <2>1
<1>2. CASE UNCHANGED call
  BY <1>2 DEF CallFrame, Starting, CancelHasRow
<1>3. ASSUME NEW e \in Events, FollowTurn(e) \/ Follow(e)
      PROVE  \A c \in Callers : CallFrame(c)
  <2>1. CASE FollowList(e)
    <3>1. /\ call'[e].pc = "choose" /\ \A c \in Callers \ {e} : call'[c] = call[c]
      BY <1>0, <2>1 DEF FollowList, Call
    <3> QED  BY <1>0, <1>f, <3>1 DEF Writing
  <2>2. CASE FollowChoose(e)
    <3>1. \E p \in {"create", "append", "abandon"} : \E t, r :
            call' = [call EXCEPT ![e].pc = p, ![e].task = t, ![e].row = r, ![e].listed = Nothing]
      BY <2>2 DEF FollowChoose
    <3>2. /\ call'[e].pc \in {"create", "append", "abandon"}
          /\ \A c \in Callers \ {e} : call'[c] = call[c]
      BY <1>0, <3>1 DEF Call
    <3> QED  BY <1>0, <1>f, <3>2 DEF Writing
  <2>3. CASE StartCreate(e)
    <3>1. PICK t \in Tasks : /\ row[t].status = "absent" /\ Write(t, Created)
                             /\ call' = [call EXCEPT ![e].pc = "record", ![e].task = t]
      BY <2>3 DEF StartCreate
    <3>2. /\ call'[e].pc = "record" /\ call'[e].task = t
          /\ \A c \in Callers \ {e} : call'[c] = call[c]
      BY <1>0, <3>1 DEF Call
    <3>3. row'[t].status # "absent"
      BY <1>0, <3>1 DEF Write, Created, Absent
    <3> QED  BY <1>0, <1>1, <3>1, <3>2, <3>3 DEF CallFrame, Starting, Writing
  <2>4. CASE StartRecord(e)
    <3>1. /\ call'[e].pc \in {"record2", "enqueue"} /\ call'[e].task = call[e].task
          /\ Starting(e)
          /\ \A c \in Callers \ {e} : call'[c] = call[c]
      BY <1>0, <2>4 DEF StartRecord, Starting, At, Go, Call
    <3> QED  BY <1>0, <1>1, <3>1 DEF CallFrame, Writing
  <2>5. CASE \E p \in {"list", "push", "done", "mark", "gone"} : Go(e, p)
    BY <1>0, <1>g, <2>5 DEF Writing
  <2> QED  BY <1>3, <2>1, <2>2, <2>3, <2>4, <2>5 DEF Follow, FollowTurn, FollowAppend, FollowPush,
              StartEnqueue, Abandon, AbandonReturns
<1>4. ASSUME NEW s \in Stoppers, StopResolve(s) \/ Stop(s)
      PROVE  \A c \in Callers : CallFrame(c)
  <2>1. CASE StopResolve(s)
    <3>1. /\ call'[s].pc \in {"command", "mark", "refused"}
          /\ \A c \in Callers \ {s} : call'[c] = call[c]
      BY <1>0, <2>1 DEF StopResolve, Call
    <3> QED  BY <1>0, <1>f, <3>1 DEF Writing
  <2>2. CASE \E p \in {"mark", "note"} : Go(s, p)
    BY <1>0, <1>g, <2>2 DEF Writing
  <2> QED  BY <1>4, <2>1, <2>2 DEF Stop, StopCommand, StopNote
<1>5. ASSUME NEW d \in Callers, Cancel(d) \/ CancelWriteFails(d)
      PROVE  \A c \in Callers : CallFrame(c)
  <2>1. CASE CancelMark(d)
    <3> DEFINE b == call[d].task \in running
    <3>1. call' = [call EXCEPT ![d].pc = "reread", ![d].ran = b]
      BY <2>1 DEF CancelMark
    <3> HIDE DEF b
    <3>2. call'[d].pc = "reread" /\ \A c \in Callers \ {d} : call'[c] = call[c]
      BY <1>0, <3>1 DEF Call
    <3> QED  BY <1>f, <3>2 DEF Writing
  <2>2. CASE CancelWrite(d)
    <3> DEFINE r == [call[d].row EXCEPT !.status = "cancelled"]
               p == IF call[d].ran THEN "tell" ELSE "close"
    <3>1. r.status = "cancelled"
      BY <1>0 DEF Call, Row
    <3>2. call' = [call EXCEPT ![d].pc = p, ![d].row = r]
      BY <2>2 DEF CancelWrite
    <3>3. p \in {"tell", "close"}
      OBVIOUS
    <3> HIDE DEF r, p
    <3>4. /\ call'[d].pc \in {"tell", "close"} /\ call'[d].row = r
          /\ \A c \in Callers \ {d} : call'[c] = call[c]
      BY <1>0, <3>2, <3>3 DEF Call
    <3> QED  BY <1>1, <3>1, <3>4 DEF CallFrame, Starting
  <2>3. CASE CancelSeal(d)
    <3>1. call' = [call EXCEPT ![d].pc = "stamp", ![d].row.hash = TRUE] /\ At(d, "seal")
      BY <2>3 DEF CancelSeal
    <3>2. /\ call'[d].pc = "stamp" /\ call'[d].row.status = call[d].row.status
          /\ \A c \in Callers \ {d} : call'[c] = call[c]
      BY <1>0, <3>1 DEF Call, Row
    <3> QED  BY <1>1, <3>1, <3>2 DEF CallFrame, Starting, CancelHasRow, Writing, At
  <2>4. CASE CancelRecord(d) \/ CancelCard(d)
    <3>1. \E p \in {"card", "tell", "seal"} : Go(d, p) /\ call[d].pc \in Writing
      BY <2>4 DEF CancelRecord, CancelCard, At, Writing
    <3>2. /\ call'[d].pc \in {"card", "tell", "seal"} /\ call'[d].row = call[d].row
          /\ \A c \in Callers \ {d} : call'[c] = call[c]
      BY <1>0, <3>1 DEF Go, Call
    <3> QED  BY <1>1, <3>1, <3>2 DEF CallFrame, Starting, CancelHasRow, Writing
  <2>5. CASE CancelReread(d) \/ CancelStamp(d) \/ CancelTell(d) \/ CancelWriteFails(d)
    <3>1. \E p \in {"told", "unsaved", "create", "pick", "returned", "tell", "write"} : Go(d, p)
      BY <2>5 DEF CancelTell, CancelReread, CancelStamp, CancelWriteFails
    <3> QED  BY <1>g, <3>1 DEF Writing
  <2> QED  BY <1>5, <2>1, <2>2, <2>3, <2>4, <2>5 DEF Cancel
<1>6. CASE AppAbort \/ AppPick
  <2>1. /\ call'[App].pc \in {"down", "pick", "mark"}
        /\ \A c \in Callers \ {App} : call'[c] = call[c]
    <3>1. CASE Go(App, "down")
      BY <1>0, <3>1 DEF Go, Call
    <3>2. CASE \E f : call' = [call EXCEPT ![App].pc = "pick", ![App].listed = f]
      BY <1>0, <3>2 DEF Call
    <3>3. CASE \E t, r, f : call' = [call EXCEPT ![App].pc = "mark", ![App].task = t,
                                                ![App].row = r, ![App].listed = f]
      BY <1>0, <3>3 DEF Call
    <3>4. CASE AppAbort
      BY <3>2, <3>4 DEF AppAbort
    <3>5. CASE AppPick
      BY <3>1, <3>3, <3>5 DEF AppPick
    <3> QED  BY <1>6, <3>4, <3>5
  <2> QED  BY <1>0, <1>f, <2>1 DEF Writing
<1>7. CASE Pop
  BY <1>2, <1>7 DEF Pop
<1>8. ASSUME NEW t \in Tasks, Run(t) \/ WorkerError(t)
      PROVE  UNCHANGED call
  BY <1>8, RunSteps DEF RunFrame
<1> QED  BY <1>2, <1>3, <1>4, <1>5, <1>6, <1>7, <1>8 DEF Next, vars

(* A row that is there stays there.                                         *)
LEMMA RowsStay ==
    ASSUME TInv, CopyHasRow, CancelHasRow, [Next]_vars
    PROVE  \A t \in Tasks : row[t].status # "absent" => row'[t].status # "absent"
<1>0. /\ call \in [Callers -> Call] /\ row \in [Tasks -> Row]
      /\ Events \subseteq Callers /\ HandlerKnows
  BY DEF TInv, TypeOK, Callers, StoreTypes
<1>1. ASSUME NEW u \in Tasks, NEW r \in Row, r.status # "absent", Write(u, r)
      PROVE  \A t \in Tasks : row[t].status # "absent" => row'[t].status # "absent"
  BY <1>0, <1>1 DEF Write
<1>2. CASE UNCHANGED row
  BY <1>2
<1>3. ASSUME NEW e \in Events, FollowTurn(e) \/ Follow(e)
      PROVE  \A t \in Tasks : row[t].status # "absent" => row'[t].status # "absent"
  <2>1. CASE StartCreate(e)
    <3>1. Created \in Row /\ Created.status # "absent"
      BY RowTypes DEF Created, Absent
    <3> QED  BY <1>1, <2>1, <3>1 DEF StartCreate
  <2>2. CASE UNCHANGED row
    BY <2>2
  <2> QED  BY <1>3, <2>1, <2>2 DEF Follow, FollowTurn, FollowList, FollowChoose, FollowAppend,
              FollowPush, StartRecord, StartEnqueue, Abandon, AbandonReturns, store
<1>4. ASSUME NEW s \in Stoppers, StopResolve(s) \/ Stop(s)
      PROVE  UNCHANGED row
  BY <1>4 DEF StopResolve, Stop, StopCommand, StopNote, store
<1>5. ASSUME NEW c \in Callers, Cancel(c) \/ CancelWriteFails(c)
      PROVE  \A t \in Tasks : row[t].status # "absent" => row'[t].status # "absent"
  <2>0. call[c].row \in Row /\ (call[c].pc \in Busy => call[c].task \in Tasks)
    BY <1>0 DEF Call, HandlerKnows
  <2>1. CASE CancelWrite(c)
    <3> DEFINE r == [call[c].row EXCEPT !.status = "cancelled"]
    <3>1. Write(call[c].task, r) /\ call[c].task \in Tasks
      BY <2>0, <2>1 DEF CancelWrite, At, Busy, CancelPCs
    <3>2. r \in Row /\ r.status # "absent"
      BY <2>0 DEF Row, Status, Terminal
    <3> HIDE DEF r
    <3> QED  BY <1>1, <3>1, <3>2
  <2>2. CASE CancelStamp(c)
    <3>1. Write(call[c].task, call[c].row) /\ call[c].task \in Tasks
      BY <2>0, <2>2 DEF CancelStamp, At, Busy, CancelPCs
    <3>2. call[c].row.status # "absent"
      BY <2>2 DEF CancelStamp, At, CancelHasRow, Writing
    <3> QED  BY <1>1, <2>0, <3>1, <3>2
  <2>3. CASE UNCHANGED row
    BY <2>3
  <2> QED  BY <1>5, <2>1, <2>2, <2>3 DEF Cancel, CancelMark, CancelReread, CancelWriteFails,
              CancelRecord, CancelCard, CancelSeal, CancelTell, store
<1>6. CASE Pop \/ AppAbort \/ AppPick
  BY <1>6 DEF Pop, AppAbort, AppPick, store
<1>7. ASSUME NEW u \in Tasks, Run(u) \/ WorkerError(u)
      PROVE  \A t \in Tasks : row[t].status # "absent" => row'[t].status # "absent"
  <2>1. CASE Save(u)
    <3>1. copy[u].row \in Row /\ copy[u].row.status # "absent"
      BY <2>1, PCNames DEF Save, CopyHasRow, TInv, TypeOK, WorkerTypes
    <3> QED  BY <1>1, <2>1, <3>1 DEF Save
  <2>2. CASE UNCHANGED row
    BY <2>2
  <2>3. CASE Fetch(u) \/ Admit(u) \/ ClearSteer(u) \/ Arm(u) \/ LeaveRunning(u) \/ Disarm(u)
             \/ FinishTask(u) \/ Drain(u) \/ SendCard(u) \/ SendAnswer(u)
    BY <2>3 DEF Fetch, Admit, ClearSteer, Arm, LeaveRunning, Disarm, FinishTask, Drain,
       SendCard, SendAnswer, store
  <2>4. CASE WorkerError(u) \/ BuildMessages(u) \/ Refresh(u) \/ Fail(u) \/ StopAtTop(u)
             \/ Chat(u) \/ Act(u) \/ RunTool(u) \/ SendNotice(u) \/ CloseCard(u)
             \/ CloseRecord(u) \/ Seal(u) \/ Return(u) \/ Abandoned(u)
    BY <2>4 DEF WorkerError, BuildMessages, Refresh, Fail, StopAtTop, Chat, Act, RunTool,
       SendNotice, CloseCard, CloseRecord, Seal, Return, Abandoned, store
  <2> QED  BY <1>7, <2>1, <2>3, <2>4 DEF Run
<1> QED  BY <1>2, <1>3, <1>4, <1>5, <1>6, <1>7 DEF Next, vars, store

(* A worker's copy is one of a row that is there.                           *)
LEMMA CopiesHaveRows ==
    ASSUME TInv, UsedHasRow, CopyHasRow, [Next]_vars
    PROVE  CopyHasRow'
<1> DEFINE Holds == {"admit", "clear", "arm"} \cup WorkerPCs
<1>0. /\ copy \in [Tasks -> Copy] /\ pc \in [Tasks -> PCs] /\ row \in [Tasks -> Row]
  BY DEF TInv, TypeOK, StoreTypes, WorkerTypes, Copy
<1>1. ASSUME NEW u \in Tasks, NEW k \in Copy,
             \A t \in Tasks \ {u} : pc'[t] = pc[t] /\ copy'[t] = copy[t],
             copy'[u] = k, pc'[u] \in Holds => k.row.status # "absent"
      PROVE  CopyHasRow'
  BY <1>1 DEF CopyHasRow
<1>2. CASE UNCHANGED worker
  BY <1>2 DEF CopyHasRow, worker
<1>3. ASSUME NEW e \in Events, FollowTurn(e) \/ Follow(e)
      PROVE  UNCHANGED worker
  BY <1>3 DEF Follow, FollowTurn, FollowList, FollowChoose, FollowAppend, FollowPush, StartCreate,
       StartRecord, StartEnqueue, Abandon, AbandonReturns
<1>4. ASSUME NEW s \in Stoppers, StopResolve(s) \/ Stop(s)
      PROVE  UNCHANGED worker
  BY <1>4 DEF StopResolve, Stop, StopCommand, StopNote
<1>5. ASSUME NEW c \in Callers, Cancel(c) \/ CancelWriteFails(c)
      PROVE  UNCHANGED worker
  BY <1>5 DEF Cancel, CancelMark, CancelReread, CancelWrite, CancelWriteFails, CancelRecord,
       CancelCard, CancelSeal, CancelStamp, CancelTell
<1>6. CASE Pop
  <2>1. queue \in Seq(Tasks) /\ queue # <<>>
    BY <1>6 DEF Pop, TInv, TypeOK, SharedTypes
  <2>2. Head(queue) \in Tasks
    BY <2>1, HeadTailProperties
  <2>3. pc'[Head(queue)] = "fetch" /\ copy' = copy
        /\ \A t \in Tasks \ {Head(queue)} : pc'[t] = pc[t]
    BY <1>0, <1>6, <2>2 DEF Pop, Step
  <2> QED  BY <1>0, <1>1, <2>2, <2>3, PCNames
<1>7. CASE AppAbort
  <2>1. copy' = copy /\ \A t \in Tasks : pc'[t] = "over" \/ pc'[t] = pc[t]
    BY <1>7 DEF AppAbort
  <2> QED  BY <2>1, PCNames DEF CopyHasRow
<1>8. CASE AppPick
  BY <1>2, <1>8 DEF AppPick
<1>9. ASSUME NEW u \in Tasks, Run(u) \/ WorkerError(u)
      PROVE  CopyHasRow'
  <2>0. copy[u] \in Copy /\ copy[u].row \in Row
        /\ \A t \in Tasks \ {u} : pc'[t] = pc[t]
    BY <1>0, <1>9, RunSteps DEF Copy, RunFrame
  <2>1. CASE Fetch(u)
    <3>1. CASE copy' = [copy EXCEPT ![u].row = row[u]] /\ pc[u] = "fetch"
      <4> DEFINE k == [copy[u] EXCEPT !.row = row[u]]
      <4>1. copy' = [copy EXCEPT ![u] = k] /\ k \in Copy /\ k.row = row[u]
        BY <1>0, <2>0, <3>1 DEF Copy
      <4>2. row[u].status # "absent"
        BY <3>1 DEF UsedHasRow
      <4> HIDE DEF k
      <4> QED  BY <1>0, <1>1, <2>0, <4>1, <4>2
    <3>2. CASE UNCHANGED copy /\ pc'[u] = "finish"
      BY <1>0, <1>1, <2>0, <3>2, PCNames
    <3> QED  BY <1>0, <2>1, <3>1, <3>2 DEF Fetch, Step
  <2>2. CASE UNCHANGED copy /\ (pc'[u] \in Holds => pc[u] \in Holds)
    BY <1>0, <1>1, <2>0, <2>2 DEF CopyHasRow
  <2>3. CASE /\ \E st \in Status \ {"absent"} : copy' = [copy EXCEPT ![u].row.status = st]
    <3>1. PICK st \in Status \ {"absent"} : copy' = [copy EXCEPT ![u].row.status = st]
      BY <2>3
    <3> DEFINE k == [copy[u] EXCEPT !.row.status = st]
    <3>2. copy' = [copy EXCEPT ![u] = k] /\ k \in Copy /\ k.row.status # "absent"
      BY <1>0, <2>0, <3>1 DEF Copy, Row
    <3> HIDE DEF k
    <3> QED  BY <1>0, <1>1, <2>0, <3>2
  <2>4. /\ {"planning", "working", "answering", "failed", "cancelled", "delivered"}
             \subseteq Status \ {"absent"}
    BY DEF Status, Active, Terminal
  <2>5. CASE Admit(u) \/ ClearSteer(u) \/ Arm(u) \/ LeaveRunning(u) \/ Disarm(u) \/ FinishTask(u)
    BY <1>0, <2>2, <2>5, PCNames DEF Admit, ClearSteer, Arm, LeaveRunning, Disarm, FinishTask, Step
  <2>6. CASE Save(u) \/ Refresh(u) \/ Drain(u) \/ SendNotice(u) \/ CloseCard(u) \/ CloseRecord(u)
             \/ Return(u) \/ Abandoned(u)
    <3>1. pc[u] \in WorkerPCs
      BY <2>6, PCNames DEF Save, Refresh, Drain, SendNotice, CloseCard, CloseRecord, Return,
         Abandoned, InWorker, Step
    <3>2. UNCHANGED copy
      BY <2>6 DEF Save, Refresh, Drain, SendNotice, CloseCard, CloseRecord, Return, Abandoned
    <3> QED  BY <2>2, <3>1, <3>2
  <2>7. CASE BuildMessages(u) \/ Fail(u) \/ StopAtTop(u) \/ SendAnswer(u)
    BY <2>3, <2>4, <2>7 DEF BuildMessages, Fail, StopAtTop, SendAnswer
  <2>8. CASE Act(u) \/ RunTool(u)
    <3>1. pc[u] \in WorkerPCs
      BY <2>8, PCNames DEF Act, RunTool, Step
    <3> QED  BY <2>2, <2>3, <2>4, <2>8, <3>1 DEF Act, RunTool
  <2>9. CASE Chat(u) \/ Seal(u)
    <3>1. pc[u] \in Holds
      BY <2>9, PCNames DEF Chat, Seal, Step
    <3>2. copy'[u].row.status = copy[u].row.status /\ copy'[u] \in Copy
          /\ \A t \in Tasks \ {u} : copy'[t] = copy[t]
      <4>1. CASE Chat(u)
        <5>1. copy[u].steps < MaxSteps
          BY <4>1 DEF Chat, Step, TInv, WorkerKnows
        <5>2. copy' = [copy EXCEPT ![u].steps = @ + 1]
          BY <4>1 DEF Chat
        <5> QED  BY <1>0, <5>1, <5>2, LifecycleAssumption DEF Copy, LifecycleAssumption
      <4>2. CASE Seal(u)
        <5>1. copy' = [copy EXCEPT ![u].row.hash = TRUE]
          BY <4>2 DEF Seal
        <5> QED  BY <1>0, <5>1 DEF Copy, Row
      <4> QED  BY <2>9, <4>1, <4>2
    <3> QED  BY <1>1, <2>0, <3>1, <3>2 DEF CopyHasRow
  <2>10. CASE SendCard(u)
    <3> DEFINE k == [copy[u] EXCEPT !.row.card = TRUE, !.row.status = "working"]
    <3>1. copy' = [copy EXCEPT ![u] = k]
      BY <1>0, <2>10 DEF SendCard, Copy, Row
    <3>2. k \in Copy /\ k.row.status # "absent"
      BY <2>0, <2>4 DEF Copy, Row
    <3> HIDE DEF k
    <3> QED  BY <1>0, <1>1, <2>0, <3>1, <3>2
  <2>11. CASE WorkerError(u)
    <3> DEFINE k == [copy[u] EXCEPT !.last = TRUE, !.row.status = "failed"]
    <3>1. copy' = [copy EXCEPT ![u] = k]
      BY <1>0, <2>11 DEF WorkerError, Copy, Row
    <3>2. k \in Copy /\ k.row.status # "absent"
      BY <2>0, <2>4 DEF Copy, Row
    <3> HIDE DEF k
    <3> QED  BY <1>0, <1>1, <2>0, <3>1, <3>2
  <2> QED  BY <1>9, <2>1, <2>5, <2>6, <2>7, <2>8, <2>9, <2>10, <2>11 DEF Run
<1> QED  BY <1>2, <1>3, <1>4, <1>5, <1>6, <1>7, <1>8, <1>9 DEF Next, vars

(* The queue and the sets, a group of actions at a time.                    *)
SetsLive == QueueDistinct /\ QueueWaits /\ OwnedIsLive

LEMMA SetsAreKept ==
    ASSUME TInv, LiveInv, [Next]_vars
    PROVE  /\ SetsLive'
           /\ \A t \in Tasks : (InQueue(t) \/ pc[t] # "none")' =>
                 \/ InQueue(t) \/ pc[t] # "none"
                 \/ \E c \in Callers : Starting(c) /\ call[c].task = t /\ ~Starting(c)'
<1> DEFINE Goal == /\ SetsLive'
                   /\ \A t \in Tasks : (InQueue(t) \/ pc[t] # "none")' =>
                         \/ InQueue(t) \/ pc[t] # "none"
                         \/ \E c \in Callers : Starting(c) /\ call[c].task = t /\ ~Starting(c)'
<1>0. /\ owned = {u \in Tasks : InDispatch(u) \/ InQueue(u)}
      /\ running = {u \in Tasks : pc[u] \in Hand}
      /\ pc \in [Tasks -> PCs] /\ queue \in Seq(Tasks) /\ Events \subseteq Callers
      /\ call \in [Callers -> Call]
  BY DEF TInv, TypeOK, WorkerTypes, SharedTypes, LiveInv, OwnedIsLive, InQueue, InWorker, Hand,
         Callers
<1>1. ASSUME UNCHANGED <<queue, owned, running, pc>> PROVE Goal
  BY <1>1 DEF SetsLive, LiveInv, QueueDistinct, QueueWaits, OwnedIsLive, InQueue, InDispatch, InWorker
<1>2. ASSUME NEW e \in Events, StartEnqueue(e) PROVE Goal
  <2> DEFINE t == call[e].task
  <2>1. t \in Tasks /\ Starting(e)
    BY <1>0, <1>2 DEF StartEnqueue, At, Starting, Busy, TInv, HandlerKnows
  <2>2. queue' = Append(queue, t) /\ owned' = owned \cup {t} /\ UNCHANGED <<running, pc>>
    BY <1>2 DEF StartEnqueue, worker
  <2>3. ~Starting(e)'
    BY <1>0, <1>2 DEF StartEnqueue, Starting, Go, Call
  <2>4. ~InQueue(t) /\ pc[t] = "none"
    BY <1>0, <2>1 DEF LiveInv, StartsOnce
  <2> HIDE DEF t
  <2>a. /\ DOMAIN queue = 1..Len(queue) /\ Len(queue) \in Nat
        /\ DOMAIN queue' = 1..(Len(queue) + 1)
        /\ queue'[Len(queue) + 1] = t
        /\ \A i \in 1..Len(queue) : queue'[i] = queue[i]
    BY <1>0, <2>1, <2>2, LenProperties, AppendProperties
  <2>b. \A i \in DOMAIN queue' : i \in DOMAIN queue \/ i = Len(queue) + 1
    BY <2>a
  <2>c. /\ DOMAIN queue \subseteq DOMAIN queue' /\ Len(queue) + 1 \in DOMAIN queue'
        /\ \A i \in DOMAIN queue : queue'[i] = queue[i] /\ queue[i] # t
    BY <2>a, <2>4 DEF InQueue
  <2>5. \A u \in Tasks : InQueue(u)' <=> InQueue(u) \/ u = t
    BY <2>a, <2>b, <2>c DEF InQueue
  <2>6. QueueDistinct'
    <3>1. ASSUME NEW i \in DOMAIN queue', NEW j \in DOMAIN queue', queue'[i] = queue'[j]
          PROVE  i = j
      BY <2>a, <2>b, <2>c, <3>1 DEF QueueDistinct, LiveInv
    <3> QED  BY <3>1 DEF QueueDistinct
  <2>7. QueueWaits'
    BY <2>2, <2>4, <2>5 DEF QueueWaits, LiveInv
  <2>8. OwnedIsLive'
    BY <1>0, <2>1, <2>2, <2>5 DEF OwnedIsLive, InQueue, InDispatch, InWorker, Hand
  <2> QED  BY <1>0, <2>1, <2>2, <2>3, <2>5, <2>6, <2>7, <2>8 DEF SetsLive, t
<1>3. ASSUME NEW e \in Events, FollowTurn(e) \/ Follow(e) PROVE Goal
  <2>1. CASE StartEnqueue(e)
    BY <1>2, <2>1
  <2>2. CASE UNCHANGED <<queue, owned, running, pc>>
    BY <1>1, <2>2
  <2> QED  BY <1>3, <2>1, <2>2 DEF Follow, FollowTurn, FollowList, FollowChoose, FollowAppend,
              FollowPush, StartCreate, StartRecord, Abandon, AbandonReturns, shared, worker
<1>4. ASSUME NEW s \in Stoppers, StopResolve(s) \/ Stop(s) PROVE Goal
  BY <1>1, <1>4 DEF StopResolve, Stop, StopCommand, StopNote, shared, worker
<1>5. ASSUME NEW c \in Callers, Cancel(c) \/ CancelWriteFails(c) PROVE Goal
  <2>1. UNCHANGED <<queue, owned, running, pc>>
    BY <1>5 DEF Cancel, CancelMark, CancelReread, CancelWrite, CancelWriteFails, CancelRecord,
       CancelCard, CancelSeal, CancelStamp, CancelTell, shared, worker
  <2> QED  BY <1>1, <2>1
<1>6. CASE Pop
  <2> DEFINE t == Head(queue)
  <2>1. /\ queue # <<>> /\ t \in Tasks /\ queue' = Tail(queue) /\ InQueue(t)
        /\ Tail(queue) \in Seq(Tasks) /\ Len(Tail(queue)) = Len(queue) - 1
        /\ \A i \in 1..Len(Tail(queue)) : Tail(queue)[i] = queue[i + 1]
    BY <1>0, <1>6, HeadTailProperties DEF Pop, InQueue
  <2>2. /\ pc[t] = "none" /\ pc' = [pc EXCEPT ![t] = "fetch"]
        /\ UNCHANGED <<owned, running>>
    BY <1>6 DEF Pop, Step
  <2>3. t = queue[1]
    BY <1>0, <2>1
  <2> HIDE DEF t
  <2>4. \A u \in Tasks : InQueue(u)' <=> InQueue(u) /\ u # t
    <3>1. ASSUME NEW u \in Tasks, InQueue(u)' PROVE InQueue(u) /\ u # t
      <4>1. PICK i \in 1..Len(Tail(queue)) : queue[i + 1] = u
        BY <1>0, <2>1, <3>1 DEF InQueue
      <4>2. i + 1 \in DOMAIN queue /\ 1 \in DOMAIN queue /\ i + 1 # 1
        BY <1>0, <2>1
      <4> QED  BY <2>3, <4>1, <4>2 DEF InQueue, LiveInv, QueueDistinct
    <3>2. ASSUME NEW u \in Tasks, InQueue(u), u # t PROVE InQueue(u)'
      <4>1. PICK i \in DOMAIN queue : queue[i] = u
        BY <3>2 DEF InQueue
      <4>2. i - 1 \in 1..Len(Tail(queue)) /\ i = (i - 1) + 1
        BY <1>0, <2>1, <2>3, <3>2, <4>1
      <4>3. Tail(queue)[i - 1] = u
        BY <2>1, <4>1, <4>2
      <4> QED  BY <1>0, <2>1, <4>2, <4>3 DEF InQueue
    <3> QED  BY <3>1, <3>2
  <2>5. QueueDistinct'
    <3> SUFFICES ASSUME NEW i \in 1..Len(Tail(queue)), NEW j \in 1..Len(Tail(queue)),
                        Tail(queue)[i] = Tail(queue)[j]
                 PROVE  i = j
      BY <1>0, <2>1 DEF QueueDistinct
    <3>1. i + 1 \in DOMAIN queue /\ j + 1 \in DOMAIN queue /\ queue[i + 1] = queue[j + 1]
      BY <1>0, <2>1
    <3> QED  BY <3>1 DEF LiveInv, QueueDistinct
  <2>6. QueueWaits'
    BY <1>0, <2>1, <2>2, <2>4 DEF QueueWaits, LiveInv
  <2>7. owned' = {u \in Tasks : InDispatch(u) \/ InQueue(u)}'
    BY <1>0, <2>1, <2>2, <2>4 DEF InDispatch
  <2>8. running' = {u \in Tasks : pc[u] \in Hand}'
    BY <1>0, <2>1, <2>2, PCNames DEF Hand
  <2>9. OwnedIsLive'
    BY <2>7, <2>8 DEF OwnedIsLive, InQueue, InWorker, Hand
  <2>10. \A u \in Tasks : (InQueue(u) \/ pc[u] # "none")' => InQueue(u) \/ pc[u] # "none"
    BY <1>0, <2>1, <2>2, <2>4
  <2> QED  BY <2>5, <2>6, <2>9, <2>10 DEF SetsLive
<1>7. CASE AppAbort
  <2> DEFINE D == {u \in Tasks : InDispatch(u)}
  <2>1. /\ pc' = [u \in Tasks |-> IF u \in D THEN "over" ELSE pc[u]]
        /\ owned' = owned \ D /\ running' = running \ D /\ queue' = queue
    BY <1>7 DEF AppAbort
  <2>2. \A u \in Tasks : InQueue(u)' <=> InQueue(u)
    BY <2>1 DEF InQueue
  <2>3. \A u \in Tasks : InQueue(u) => u \notin D
    BY DEF InDispatch, LiveInv, QueueWaits
  <2>4. \A u \in Tasks : pc'[u] = IF u \in D THEN "over" ELSE pc[u]
    BY <2>1
  <2>5. \A u \in Tasks : ~InDispatch(u)'
    BY <2>4 DEF InDispatch
  <2>6. owned' = {u \in Tasks : InDispatch(u) \/ InQueue(u)}'
    BY <1>0, <2>1, <2>2, <2>3, <2>5
  <2>7. running' = {u \in Tasks : pc[u] \in Hand}'
    BY <1>0, <2>1, <2>4, PCNames DEF Hand
  <2>8. QueueDistinct' /\ QueueWaits'
    BY <2>1, <2>2, <2>3, <2>4 DEF QueueDistinct, QueueWaits, LiveInv
  <2>9. OwnedIsLive'
    BY <2>6, <2>7 DEF OwnedIsLive, InQueue, InWorker, Hand
  <2>10. \A u \in Tasks : (InQueue(u) \/ pc[u] # "none")' => InQueue(u) \/ pc[u] # "none"
    BY <2>2, <2>4 DEF InDispatch
  <2> QED  BY <2>8, <2>9, <2>10 DEF SetsLive
<1>8. CASE AppPick
  BY <1>1, <1>8 DEF AppPick, shared, worker
<1>9. ASSUME NEW t \in Tasks, Run(t) \/ WorkerError(t) PROVE Goal
  <2>1. RunFrame(t)
    BY <1>9, RunSteps
  <2>2. SetsLive'
    BY <2>1, RunLive DEF SetsLive
  <2>3. \A u \in Tasks : (InQueue(u) \/ pc[u] # "none")' => InQueue(u) \/ pc[u] # "none"
    BY <2>1 DEF RunFrame, InQueue
  <2> QED  BY <2>2, <2>3
<1>10. CASE UNCHANGED vars
  BY <1>1, <1>10 DEF vars, shared, worker
<1> QED  BY <1>3, <1>4, <1>5, <1>6, <1>7, <1>8, <1>9, <1>10 DEF Next

LEMMA NextLive ==
    ASSUME TInv, LiveInv, [Next]_vars
    PROVE  LiveInv'
<1>0. /\ SetsLive' /\ CopyHasRow'
      /\ \A t \in Tasks : row[t].status # "absent" => row'[t].status # "absent"
      /\ \A c \in Callers : CallFrame(c)
  BY SetsAreKept, CopiesHaveRows, RowsStay, CallSteps DEF LiveInv
<1>1. TInv'
  BY NextTInv
<1>2. CancelHasRow'
  BY <1>0 DEF CancelHasRow, CallFrame
<1>t. \A c \in Callers : Starting(c) => call[c].task \in Tasks
  BY DEF TInv, HandlerKnows, Starting, Busy
<1>3. UsedHasRow'
  BY <1>0, <1>t, SetsAreKept DEF UsedHasRow, LiveInv, StartsOnce
<1>4. StartsOnce'
  <2> SUFFICES ASSUME NEW c \in Callers, Starting(c)'
               PROVE  /\ (~InQueue(call[c].task) /\ pc[call[c].task] = "none")'
                      /\ (row[call[c].task].status # "absent")'
                      /\ \A d \in Callers : (Starting(d) /\ call[d].task = call[c].task)' => d = c
    BY DEF StartsOnce
  <2>0. PICK t : t = call'[c].task
    OBVIOUS
  <2>1. CASE Starting(c) /\ t = call[c].task
    <3>1. t \in Tasks /\ ~InQueue(t) /\ pc[t] = "none" /\ row[t].status # "absent"
      BY <1>t, <2>1 DEF LiveInv, StartsOnce
    <3>2. \A d \in Callers : Starting(d) /\ call[d].task = t => d = c
      BY <2>1 DEF LiveInv, StartsOnce
    <3>3. ~InQueue(t)' /\ pc'[t] = "none"
      <4>1. ~InQueue(t)' /\ ~(pc[t] # "none")'
        BY <3>1, <3>2, <2>0, SetsAreKept
      <4> QED  BY <4>1
    <3>4. row'[t].status # "absent"
      BY <1>0, <3>1
    <3>5. \A d \in Callers : Starting(d)' /\ call'[d].task = t => d = c
      <4> SUFFICES ASSUME NEW d \in Callers, Starting(d)', call'[d].task = t
                   PROVE  d = c
        OBVIOUS
      <4>1. Starting(d) /\ call[d].task = t
        BY <1>0, <3>1 DEF CallFrame
      <4> QED  BY <3>2, <4>1
    <3> QED  BY <2>0, <3>3, <3>4, <3>5 DEF InQueue
  <2>2. CASE /\ t \in Tasks /\ row[t].status = "absent" /\ row'[t].status # "absent"
             /\ \A d \in Callers \ {c} : call'[d] = call[d]
    <3>1. ~InQueue(t) /\ pc[t] = "none"
      BY <2>2 DEF LiveInv, UsedHasRow
    <3>2. \A d \in Callers : Starting(d) => call[d].task # t
      BY <2>2 DEF LiveInv, StartsOnce
    <3>3. ~InQueue(t)' /\ pc'[t] = "none"
      <4>1. ~InQueue(t)' /\ ~(pc[t] # "none")'
        BY <2>2, <3>1, <3>2, SetsAreKept
      <4> QED  BY <4>1
    <3>4. \A d \in Callers \ {c} : Starting(d)' => call'[d].task # t
      BY <2>2, <3>2 DEF Starting
    <3> QED  BY <2>0, <2>2, <3>3, <3>4 DEF InQueue
  <2> QED  BY <1>0, <2>0, <2>1, <2>2 DEF CallFrame
<1> QED  BY <1>0, <1>2, <1>3, <1>4 DEF LiveInv, SetsLive

(* Owned from the queue to the end of the dispatch, running while a worker  *)
(* may have it: with any number of events and stops, failures at any call,  *)
(* stuck workers and an abort, no entry of Shared is lost or left behind.   *)
THEOREM SetsTellTheTruth == Spec => []OwnedIsLive
<1>1. Init => TInv /\ LiveInv
  BY InitTInv, InitLive
<1>2. TInv /\ LiveInv /\ [Next]_vars => (TInv /\ LiveInv)'
  BY NextTInv, NextLive
<1>3. LiveInv => OwnedIsLive
  BY DEF LiveInv
<1> QED  BY <1>1, <1>2, <1>3, PTL DEF Spec, SafeSpec
-----------------------------------------------------------------------------
(* How a task is closed.  The theorems below are about the circumstances in *)
(* which the code keeps their properties, those of the runs: no worker is   *)
(* found stuck and no call fails, which MayStick and MayFail rule out.      *)

NobodyStuck ==
    /\ \A t \in Tasks : signal[t] # "fired"
    /\ \A e \in Events : call[e].pc \notin {"abandon", "gone", "tell", "returned"} \cup CancelPCs

(* What a step of t's dispatch does to t, one component at a time.          *)
Others(t) == \A u \in Tasks \ {t} :
    /\ pc'[u] = pc[u] /\ row'[u] = row[u] /\ log'[u] = log[u] /\ manifest'[u] = manifest[u]
    /\ card'[u] = card[u] /\ copy'[u] = copy[u] /\ live'[u] = live[u]
Passes(t, p, q) == pc[t] = p /\ pc'[t] = q
SameCopy(t) == copy'[t].row.status = copy[t].row.status /\ copy'[t].row.card = copy[t].row.card
NewStatus(t, s) == copy'[t].row.status = s /\ copy'[t].row.card = copy[t].row.card
Books(t) == row'[t] = row[t] /\ log'[t] = log[t] /\ manifest'[t] = manifest[t] /\ card'[t] = card[t]

Plainly(t) ==
    \/ /\ <<pc[t], pc'[t]>> \in {<<"clear", "arm">>, <<"act", "top">>, <<"act", "save">>,
                                <<"tool", "save">>, <<"notice", "close">>, <<"ran", "disarm">>,
                                <<"disarm", "finish">>, <<"finish", "over">>}
       /\ SameCopy(t)
    \/ Passes(t, "fetch", "admit") /\ copy'[t].row = row[t]
    \/ Passes(t, "admit", "finish") /\ t \in cancelled /\ SameCopy(t)
    \/ Passes(t, "admit", "clear") /\ t \notin cancelled /\ SameCopy(t)
    \/ Passes(t, "top", "chat") /\ t \notin cancelled /\ SameCopy(t)
    \/ Passes(t, "act", IF copy[t].row.card THEN "tool" ELSE "card") /\ SameCopy(t)
    \/ Passes(t, "build", "plan") /\ NewStatus(t, "planning")
    \/ Passes(t, "act", "answer") /\ (NewStatus(t, "working") \/ NewStatus(t, "answering"))
    \/ Passes(t, "tool", "answer") /\ NewStatus(t, "working")
    \/ Passes(t, "send", "close") /\ NewStatus(t, "delivered")
    \/ \E p \in {"top", "chat", "act", "tool"} : Passes(t, p, "notice") /\ NewStatus(t, "failed")
    \/ Passes(t, "top", "close") /\ t \in cancelled /\ NewStatus(t, "cancelled")

Moves(t) ==
    \/ Plainly(t) /\ Books(t) /\ live'[t] = live[t]
    \/ /\ \/ Passes(t, "arm", "build")
          \/ \E p \in DOMAIN AfterSave : Passes(t, p, AfterSave[p])
       /\ live'[t] = copy[t].row /\ SameCopy(t) /\ Books(t)
    \/ Passes(t, "return", "ran") /\ live'[t] = Absent /\ SameCopy(t) /\ Books(t)
    \/ /\ \E p \in DOMAIN Saved : Passes(t, p, Saved[p])
       /\ row'[t] = copy[t].row /\ SameCopy(t)
       /\ UNCHANGED <<log, manifest, card, live>>
    \/ /\ Passes(t, "card", "carded") /\ card'[t] = "working" /\ copy'[t].row.card
       /\ copy'[t].row.status = "working"
       /\ UNCHANGED <<row, log, manifest, live>>
    \/ /\ \/ Passes(t, "chat", "act") /\ log'[t] = Append(log[t], "work") /\ card' = card
          \/ /\ Passes(t, "close", "record")
             /\ \/ copy[t].row.card /\ card'[t] = copy[t].row.status /\ log'[t] = Append(log[t], "work")
                \/ ~copy[t].row.card /\ UNCHANGED <<card, log>>
          \/ Passes(t, "record", "seal") /\ log'[t] = Append(log[t], copy[t].row.status) /\ card' = card
       /\ SameCopy(t) /\ UNCHANGED <<row, manifest, live>>
    \/ /\ Passes(t, "seal", "settle") /\ manifest'[t] = Len(log[t]) /\ SameCopy(t)
       /\ UNCHANGED <<row, log, card, live>>

LEMMA NewCopy ==
    ASSUME TInv, NEW t \in Tasks, NEW s, copy' = [copy EXCEPT ![t].row.status = s]
    PROVE  NewStatus(t, s) /\ \A u \in Tasks \ {t} : copy'[u] = copy[u]
BY DEF TInv, TypeOK, WorkerTypes, Row, NewStatus

LEMMA RunMoves ==
    ASSUME TInv, NobodyStuck, NEW t \in Tasks, Run(t), ~MayFail
    PROVE  Others(t) /\ Moves(t) /\ UNCHANGED <<cancelled, runner, call>>
<1>0. /\ pc \in [Tasks -> PCs] /\ row \in [Tasks -> Row]
      /\ copy \in [Tasks -> Copy] /\ log \in [Tasks -> Seq(Kinds)]
      /\ manifest \in [Tasks -> Nat] /\ live \in [Tasks -> Row]
      /\ card \in [Tasks -> {"none", "working"} \cup Terminal]
  BY DEF TInv, TypeOK, StoreTypes, WorldTypes, WorkerTypes, Copy
<1>c. copy[t] \in Copy /\ copy[t].row \in Row
  BY <1>0 DEF Copy
<1>s. ASSUME NEW p, NEW q, Step(t, p, q)
      PROVE  Passes(t, p, q) /\ \A u \in Tasks \ {t} : pc'[u] = pc[u]
  BY <1>0, <1>s DEF Step, Passes
<1>u. ASSUME UNCHANGED copy PROVE SameCopy(t)
  BY <1>u DEF SameCopy
<1>1. CASE Fetch(t)
  <2>1. Step(t, "fetch", "admit") /\ copy' = [copy EXCEPT ![t].row = row[t]]
    BY <1>1 DEF Fetch
  <2>2. copy'[t].row = row[t] /\ \A u \in Tasks \ {t} : copy'[u] = copy[u]
    BY <1>0, <2>1 DEF Copy
  <2>3. UNCHANGED <<row, log, manifest, card, live, cancelled, runner, call>>
    BY <1>1 DEF Fetch, store, world, shared
  <2> QED  BY <1>s, <2>1, <2>2, <2>3 DEF Others, Moves, Plainly, Books
<1>2. CASE Admit(t) \/ ClearSteer(t) \/ LeaveRunning(t) \/ Disarm(t) \/ FinishTask(t) \/ Drain(t)
           \/ SendNotice(t)
  <2>1. UNCHANGED <<row, log, manifest, card, live, copy, cancelled, runner, call>>
    BY <1>2 DEF Admit, ClearSteer, LeaveRunning, Disarm, FinishTask, Drain, SendNotice,
                OnlyWorker, store, world, shared
  <2>2. Plainly(t) /\ \A u \in Tasks \ {t} : pc'[u] = pc[u]
    BY <1>2, <1>s, <1>u, <2>1 DEF Passes, Admit, ClearSteer, LeaveRunning, Disarm, FinishTask, Drain,
                SendNotice, Plainly
  <2> QED  BY <2>1, <2>2 DEF Others, Moves, Books
<1>3. CASE Arm(t)
  <2>1. UNCHANGED <<row, log, manifest, card, copy, cancelled, runner, call>>
    BY <1>3 DEF Arm, store, world
  <2>2. Step(t, "arm", "build") /\ live' = [live EXCEPT ![t] = copy[t].row]
    BY <1>3 DEF Arm
  <2> QED  BY <1>0, <1>s, <1>u, <2>1, <2>2 DEF Others, Moves, Books
<1>4. CASE BuildMessages(t)
  <2>1. UNCHANGED <<row, log, manifest, card, live, cancelled, runner, call>>
    BY <1>4 DEF BuildMessages, OnlyWorker, store, world, shared
  <2>2. Step(t, "build", "plan") /\ copy' = [copy EXCEPT ![t].row.status = "planning"]
    BY <1>4 DEF BuildMessages
  <2> QED  BY <1>s, <2>1, <2>2, NewCopy DEF Others, Moves, Plainly, Books
<1>5. CASE Save(t)
  <2>1. UNCHANGED <<log, manifest, card, live, copy, cancelled, runner, call>>
    BY <1>5 DEF Save, OnlyWorker, world, shared
  <2>2. /\ pc[t] \in DOMAIN Saved /\ pc' = [pc EXCEPT ![t] = Saved[pc[t]]]
        /\ row' = [row EXCEPT ![t] = copy[t].row]
    BY <1>5 DEF Save, Write
  <2>3. \E p \in DOMAIN Saved : Passes(t, p, Saved[p])
    BY <1>0, <2>2 DEF Passes
  <2> QED  BY <1>0, <1>u, <2>1, <2>2, <2>3 DEF Others, Moves
<1>6. CASE Refresh(t)
  <2>1. UNCHANGED <<row, log, manifest, card, copy, cancelled, runner, call>>
    BY <1>6 DEF Refresh, OnlyWorker, store, world, shared
  <2>2. /\ pc[t] \in DOMAIN AfterSave /\ pc' = [pc EXCEPT ![t] = AfterSave[pc[t]]]
        /\ live' = [live EXCEPT ![t] = copy[t].row]
    BY <1>6 DEF Refresh
  <2>3. \E p \in DOMAIN AfterSave : Passes(t, p, AfterSave[p])
    BY <1>0, <2>2 DEF Passes
  <2> QED  BY <1>0, <1>u, <2>1, <2>2, <2>3 DEF Others, Moves, Books
<1>7. CASE Fail(t)
  <2>1. UNCHANGED <<row, log, manifest, card, live, cancelled, runner, call>>
    BY <1>7 DEF Fail, OnlyWorker, store, world, shared
  <2>2. /\ pc[t] \in {"top", "chat", "act", "tool"} /\ pc' = [pc EXCEPT ![t] = "notice"]
        /\ copy' = [copy EXCEPT ![t].row.status = "failed"]
    BY <1>7 DEF Fail
  <2>3. \E p \in {"top", "chat", "act", "tool"} : Passes(t, p, "notice")
    BY <1>0, <2>2 DEF Passes
  <2> QED  BY <1>0, <2>1, <2>2, <2>3, NewCopy DEF Others, Moves, Plainly, Books
<1>8. CASE StopAtTop(t)
  <2>1. UNCHANGED <<row, log, manifest, card, live, cancelled, runner, call>>
    BY <1>8 DEF StopAtTop, OnlyWorker, store, world, shared
  <2>2. /\ t \in cancelled /\ Step(t, "top", "close")
        /\ copy' = [copy EXCEPT ![t].row.status = "cancelled"]
    BY <1>8 DEF StopAtTop
  <2> QED  BY <1>s, <2>1, <2>2, NewCopy DEF Others, Moves, Plainly, Books
<1>9. CASE Chat(t)
  <2>1. UNCHANGED <<row, manifest, card, live, cancelled, runner, call>>
    BY <1>9 DEF Chat, OnlyWorker, world, shared
  <2>2. /\ Step(t, "chat", "act") /\ log' = [log EXCEPT ![t] = Append(@, "work")]
        /\ copy' = [copy EXCEPT ![t].steps = @ + 1]
    BY <1>9 DEF Chat, Record
  <2>3. SameCopy(t) /\ \A u \in Tasks \ {t} : copy'[u] = copy[u]
    BY <1>0, <2>2 DEF SameCopy, Copy
  <2> QED  BY <1>0, <1>s, <2>1, <2>2, <2>3 DEF Others, Moves
<1>10. CASE Act(t)
  <2>1. UNCHANGED <<row, log, manifest, card, live, cancelled, runner, call>>
    BY <1>10 DEF Act, OnlyWorker, store, world, shared
  <2>2. CASE Step(t, "act", "answer") /\ copy' = [copy EXCEPT ![t].row.status =
                        IF copy[t].row.card THEN "working" ELSE "answering"]
    <3>1. NewStatus(t, IF copy[t].row.card THEN "working" ELSE "answering")
          /\ \A u \in Tasks \ {t} : copy'[u] = copy[u]
      BY <2>2, NewCopy
    <3>2. NewStatus(t, "working") \/ NewStatus(t, "answering")
      BY <3>1 DEF NewStatus
    <3> QED  BY <1>s, <2>1, <2>2, <3>1, <3>2 DEF Others, Moves, Plainly, Books
  <2>3. CASE UNCHANGED copy /\ \E q \in {"top", "save"} : Step(t, "act", q)
    <3>1. Plainly(t) /\ \A u \in Tasks \ {t} : pc'[u] = pc[u]
      BY <1>s, <1>u, <2>3 DEF Passes, Plainly
    <3> QED  BY <2>1, <2>3, <3>1 DEF Others, Moves, Books
  <2>4. CASE UNCHANGED copy /\ Step(t, "act", IF copy[t].row.card THEN "tool" ELSE "card")
    <3>1. Plainly(t) /\ \A u \in Tasks \ {t} : pc'[u] = pc[u]
      BY <1>s, <1>u, <2>4 DEF Plainly
    <3> QED  BY <2>1, <2>4, <3>1 DEF Others, Moves, Books
  <2> QED  BY <1>10, <2>2, <2>3, <2>4 DEF Act
<1>11. CASE SendCard(t)
  <2>1. UNCHANGED <<row, log, manifest, live, cancelled, runner, call>>
    BY <1>11 DEF SendCard, store, shared
  <2>2. /\ Step(t, "card", "carded") /\ card' = [card EXCEPT ![t] = "working"]
        /\ copy' = [copy EXCEPT ![t].row.card = TRUE, ![t].row.status = "working"]
    BY <1>11 DEF SendCard
  <2>3. /\ copy'[t].row.card /\ copy'[t].row.status = "working"
        /\ \A u \in Tasks \ {t} : copy'[u] = copy[u]
    BY <1>0, <2>2 DEF Copy, Row
  <2> QED  BY <1>0, <1>s, <2>1, <2>2, <2>3 DEF Others, Moves
<1>12. CASE RunTool(t)
  <2>1. UNCHANGED <<row, log, manifest, card, live, cancelled, runner, call>>
    BY <1>12 DEF RunTool, OnlyWorker, store, world, shared
  <2>2. CASE Step(t, "tool", "save") /\ UNCHANGED copy
    BY <1>s, <1>u, <2>1, <2>2 DEF Passes, Others, Moves, Plainly, Books
  <2>3. CASE Step(t, "tool", "answer") /\ copy' = [copy EXCEPT ![t].row.status = "working"]
    BY <1>s, <2>1, <2>3, NewCopy DEF Others, Moves, Plainly, Books
  <2> QED  BY <1>12, <2>2, <2>3 DEF RunTool
<1>13. CASE SendAnswer(t)
  <2>1. UNCHANGED <<row, log, manifest, card, live, cancelled, runner, call>>
    BY <1>13 DEF SendAnswer, store, shared
  <2>2. Step(t, "send", "close") /\ copy' = [copy EXCEPT ![t].row.status = "delivered"]
    BY <1>13 DEF SendAnswer
  <2> QED  BY <1>s, <2>1, <2>2, NewCopy DEF Others, Moves, Plainly, Books
<1>14. CASE CloseCard(t)
  <2>1. UNCHANGED <<row, manifest, live, copy, cancelled, runner, call>>
    BY <1>14 DEF CloseCard, shared
  <2>2. /\ Step(t, "close", "record")
        /\ IF copy[t].row.card
           THEN /\ card' = [card EXCEPT ![t] = copy[t].row.status]
                /\ log' = [log EXCEPT ![t] = Append(@, "work")]
           ELSE UNCHANGED <<card, log>>
    BY <1>14 DEF CloseCard, Record
  <2>3. CASE copy[t].row.card
    BY <1>0, <1>s, <1>u, <2>1, <2>2, <2>3 DEF Others, Moves
  <2>4. CASE ~copy[t].row.card
    BY <1>0, <1>s, <1>u, <2>1, <2>2, <2>4 DEF Others, Moves
  <2> QED  BY <2>3, <2>4
<1>15. CASE CloseRecord(t)
  <2>1. UNCHANGED <<row, manifest, card, live, copy, cancelled, runner, call>>
    BY <1>15 DEF CloseRecord, OnlyWorker, world, shared
  <2>2. Step(t, "record", "seal") /\ log' = [log EXCEPT ![t] = Append(@, copy[t].row.status)]
    BY <1>15 DEF CloseRecord, Record
  <2> QED  BY <1>0, <1>s, <1>u, <2>1, <2>2 DEF Others, Moves
<1>16. CASE Seal(t)
  <2>1. UNCHANGED <<row, log, card, live, cancelled, runner, call>>
    BY <1>16 DEF Seal, OnlyWorker, world, shared
  <2>2. /\ Step(t, "seal", "settle") /\ manifest' = [manifest EXCEPT ![t] = Len(log[t])]
        /\ copy' = [copy EXCEPT ![t].row.hash = TRUE]
    BY <1>16 DEF Seal
  <2>3. SameCopy(t) /\ \A u \in Tasks \ {t} : copy'[u] = copy[u]
    BY <1>0, <2>2 DEF SameCopy, Copy, Row
  <2> QED  BY <1>0, <1>s, <2>1, <2>2, <2>3 DEF Others, Moves
<1>17. CASE Return(t)
  <2>1. UNCHANGED <<row, log, manifest, card, copy, cancelled, runner, call>>
    BY <1>17 DEF Return, OnlyWorker, store, world, shared
  <2>2. Step(t, "return", "ran") /\ live' = [live EXCEPT ![t] = Absent]
    BY <1>17 DEF Return
  <2> QED  BY <1>0, <1>s, <1>u, <2>1, <2>2 DEF Others, Moves, Books
<1>18. CASE Abandoned(t)
  BY <1>18 DEF Abandoned, NobodyStuck
<1> QED  BY <1>1, <1>2, <1>3, <1>4, <1>5, <1>6, <1>7, <1>8, <1>9, <1>10, <1>11, <1>12, <1>13,
            <1>14, <1>15, <1>16, <1>17, <1>18 DEF Run
-----------------------------------------------------------------------------
(* What the handler of an event or a stop does outside its cancellation.    *)
HandlerMoves(c) ==
    /\ UNCHANGED <<manifest, card, pc, copy, live, cancelled, runner, running>>
    /\ \A d \in Callers \ {c} : call'[d] = call[d]
    /\ call'[c].pc \notin PastMark
    /\ \/ row' = row
       \/ \E t \in Tasks : row[t].status = "absent" /\ row' = [row EXCEPT ![t] = Created]
    /\ \/ log' = log
       \/ \E t \in Tasks, k \in {"created", "received"} :
             log' = [log EXCEPT ![t] = Append(@, k)]

LEMMA GoMoves ==
    ASSUME TInv, NEW c \in Callers, NEW p, Go(c, p)
    PROVE  /\ call'[c].pc = p /\ call'[c].row = call[c].row /\ call'[c].task = call[c].task
           /\ call'[c].ran = call[c].ran /\ call'[c].listed = call[c].listed
           /\ \A d \in Callers \ {c} : call'[d] = call[d]
BY DEF TInv, TypeOK, Go, Call

LEMMA EventMoves ==
    ASSUME TInv, NobodyStuck, ~MayStick, NEW e \in Events, FollowTurn(e) \/ Follow(e)
    PROVE  /\ HandlerMoves(e) /\ signal' = signal
           /\ call'[e].pc \notin {"abandon", "gone", "tell", "returned"} \cup CancelPCs
<1>0. /\ call \in [Callers -> Call] /\ e \in Callers
      /\ call[e].pc \notin {"abandon", "gone"}
      /\ call[e].pc \in Busy => call[e].task \in Tasks
  BY DEF TInv, TypeOK, Callers, NobodyStuck, HandlerKnows
<1>1. CASE FollowTurn(e)
  <2>1. Go(e, "list") /\ UNCHANGED <<row, log, manifest, card, pc, copy, live, cancelled, runner, running, signal>>
    BY <1>1 DEF FollowTurn, store, shared, worker
  <2> QED  BY <1>0, <2>1, GoMoves DEF HandlerMoves, PastMark, CancelPCs
<1>2. CASE FollowList(e)
  <2>1. UNCHANGED <<row, log, manifest, card, pc, copy, live, cancelled, runner, running, signal>>
    BY <1>2 DEF FollowList, store, world, shared, worker
  <2>2. call'[e].pc = "choose" /\ \A d \in Callers \ {e} : call'[d] = call[d]
    BY <1>0, <1>2 DEF FollowList, Call
  <2> QED  BY <2>1, <2>2 DEF HandlerMoves, PastMark, CancelPCs
<1>3. CASE FollowChoose(e)
  <2>1. UNCHANGED <<row, log, manifest, card, pc, copy, live, cancelled, runner, running, signal>>
    BY <1>3 DEF FollowChoose, store, world, shared, worker
  <2>2. \E p \in {"create", "append"} : \E t, r :
            call' = [call EXCEPT ![e].pc = p, ![e].task = t, ![e].row = r, ![e].listed = Nothing]
    BY <1>3 DEF FollowChoose
  <2>3. call'[e].pc \in {"create", "append"} /\ \A d \in Callers \ {e} : call'[d] = call[d]
    BY <1>0, <2>2 DEF Call
  <2> QED  BY <2>1, <2>3 DEF HandlerMoves, PastMark, CancelPCs
<1>4. CASE FollowAppend(e)
  <2>1. UNCHANGED <<row, manifest, card, pc, copy, live, cancelled, runner, running, signal>>
    BY <1>4 DEF FollowAppend, world, shared, worker
  <2>2. Go(e, "push") /\ call[e].task \in Tasks /\ Record(call[e].task, "received")
    BY <1>0, <1>4 DEF FollowAppend, At, Busy
  <2>3. call'[e].pc = "push" /\ \A d \in Callers \ {e} : call'[d] = call[d]
    BY <1>0, <2>2, GoMoves
  <2>4. \E t \in Tasks, k \in {"created", "received"} : log' = [log EXCEPT ![t] = Append(@, k)]
    BY <2>2 DEF Record
  <2> QED  BY <2>1, <2>3, <2>4 DEF HandlerMoves, PastMark, CancelPCs
<1>5. CASE FollowPush(e)
  <2>1. Go(e, "done") /\ UNCHANGED <<row, log, manifest, card, pc, copy, live, cancelled, runner, running, signal>>
    BY <1>5 DEF FollowPush, store, world, worker
  <2> QED  BY <1>0, <2>1, GoMoves DEF HandlerMoves, PastMark, CancelPCs
<1>6. CASE StartCreate(e)
  <2>1. UNCHANGED <<log, manifest, card, pc, copy, live, cancelled, runner, running, signal>>
    BY <1>6 DEF StartCreate, world, shared, worker
  <2>2. PICK t \in Tasks : /\ row[t].status = "absent" /\ Write(t, Created)
                           /\ call' = [call EXCEPT ![e].pc = "record", ![e].task = t]
    BY <1>6 DEF StartCreate
  <2>3. call'[e].pc = "record" /\ \A d \in Callers \ {e} : call'[d] = call[d]
    BY <1>0, <2>2 DEF Call
  <2> QED  BY <2>1, <2>2, <2>3 DEF HandlerMoves, PastMark, CancelPCs, Write
<1>7. CASE StartRecord(e)
  <2>1. UNCHANGED <<row, manifest, card, pc, copy, live, cancelled, runner, running, signal>>
    BY <1>7 DEF StartRecord, world, shared, worker
  <2>2. \E k \in {"created", "received"} : Record(call[e].task, k)
    BY <1>7 DEF StartRecord
  <2>3. call[e].task \in Tasks
    BY <1>0, <1>7 DEF StartRecord, At, Busy
  <2>4. \E p \in {"record2", "enqueue"} : Go(e, p)
    BY <1>7 DEF StartRecord
  <2>5. call'[e].pc \in {"record2", "enqueue"} /\ \A d \in Callers \ {e} : call'[d] = call[d]
    BY <1>0, <2>4, GoMoves
  <2>6. \E t \in Tasks, k \in {"created", "received"} : log' = [log EXCEPT ![t] = Append(@, k)]
    BY <2>2, <2>3 DEF Record
  <2> QED  BY <2>1, <2>5, <2>6 DEF HandlerMoves, PastMark, CancelPCs
<1>8. CASE StartEnqueue(e)
  <2>1. Go(e, "done") /\ UNCHANGED <<row, log, manifest, card, pc, copy, live, cancelled, runner, running, signal>>
    BY <1>8 DEF StartEnqueue, store, world, worker
  <2> QED  BY <1>0, <2>1, GoMoves DEF HandlerMoves, PastMark, CancelPCs
<1>9. CASE Abandon(e) \/ AbandonReturns(e)
  BY <1>0, <1>9 DEF Abandon, AbandonReturns, At
<1> QED  BY <1>1, <1>2, <1>3, <1>4, <1>5, <1>6, <1>7, <1>8, <1>9 DEF Follow

LEMMA StopMoves ==
    ASSUME TInv, NEW s \in Stoppers, StopResolve(s) \/ Stop(s)
    PROVE  HandlerMoves(s) /\ signal' = signal
<1>0. /\ call \in [Callers -> Call] /\ s \in Callers
      /\ call[s].pc \in Busy => call[s].task \in Tasks
  BY DEF TInv, TypeOK, Callers, HandlerKnows
<1>1. CASE StopResolve(s)
  <2>1. UNCHANGED <<row, log, manifest, card, pc, copy, live, cancelled, runner, running, signal>>
    BY <1>1 DEF StopResolve, store, world, shared, worker
  <2>a. \/ \E t \in Tasks, p \in {"command", "mark"} :
             call' = [call EXCEPT ![s].pc = p, ![s].task = t, ![s].row = row[t]]
        \/ \E t \in Tasks : call' = [call EXCEPT ![s].pc = "refused", ![s].task = t]
    BY <1>1 DEF StopResolve
  <2>2. call'[s].pc \in {"command", "mark", "refused"} /\ \A d \in Callers \ {s} : call'[d] = call[d]
    BY <1>0, <2>a DEF Call
  <2> QED  BY <2>1, <2>2 DEF HandlerMoves, PastMark, CancelPCs
<1>2. CASE StopCommand(s)
  <2>1. UNCHANGED <<row, log, manifest, card, pc, copy, live, cancelled, runner, running, signal>>
    BY <1>2 DEF StopCommand, store, world, shared, worker
  <2>2. \E p \in {"mark", "note"} : Go(s, p)
    BY <1>2 DEF StopCommand
  <2> QED  BY <1>0, <2>1, <2>2, GoMoves DEF HandlerMoves, PastMark, CancelPCs
<1>3. CASE StopNote(s)
  <2>1. UNCHANGED <<row, manifest, card, pc, copy, live, cancelled, runner, running, signal>>
    BY <1>3 DEF StopNote, world, shared, worker
  <2>2. Go(s, "mark") /\ call[s].task \in Tasks /\ Record(call[s].task, "received")
    BY <1>0, <1>3 DEF StopNote, At, Busy
  <2>3. call'[s].pc = "mark" /\ \A d \in Callers \ {s} : call'[d] = call[d]
    BY <1>0, <2>2, GoMoves
  <2>4. \E t \in Tasks, k \in {"created", "received"} : log' = [log EXCEPT ![t] = Append(@, k)]
    BY <2>2 DEF Record
  <2> QED  BY <2>1, <2>3, <2>4 DEF HandlerMoves, PastMark, CancelPCs
<1> QED  BY <1>1, <1>2, <1>3 DEF Stop

(* A cancellation: the row and the closing records, and where it goes on.   *)
CancelMoves(c) ==
    LET k == call[c]
        Only(p) == /\ call'[c].pc = p /\ call'[c].ran = k.ran
                   /\ call'[c].listed = k.listed /\ call'[c].task = k.task
    IN /\ \A d \in Callers \ {c} : call'[d] = call[d]
       /\ UNCHANGED <<pc, copy, live, runner, running, signal>>
       /\ \/ /\ k.pc = "mark" /\ call'[c].pc = "reread" /\ call'[c].task = k.task
             /\ call'[c].listed = k.listed
             /\ cancelled' = cancelled \cup {k.task}
             /\ call'[c].ran = (k.task \in running)
             /\ UNCHANGED <<row, log, manifest, card>>
          \/ /\ k.pc = "reread" /\ UNCHANGED <<row, log, manifest, card, cancelled>>
             /\ Only(IF row[k.task].status \in Terminal THEN "tell" ELSE "write")
          \/ /\ k.pc = "write" /\ row' = [row EXCEPT ![k.task] = call'[c].row]
             /\ call'[c].row.status = "cancelled" /\ UNCHANGED <<log, manifest, card, cancelled>>
             /\ Only(IF k.ran THEN "tell" ELSE "close")
          \/ /\ k.pc = "close" /\ log' = [log EXCEPT ![k.task] = Append(@, "cancelled")]
             /\ UNCHANGED <<row, manifest, card, cancelled>> /\ Only("card")
          \/ /\ k.pc = "card" /\ (card' = card \/ card' = [card EXCEPT ![k.task] = "cancelled"])
             /\ UNCHANGED <<row, log, manifest, cancelled>>
             /\ (Only("tell") \/ Only("seal"))
          \/ /\ k.pc = "seal" /\ manifest' = [manifest EXCEPT ![k.task] = Len(log[k.task])]
             /\ UNCHANGED <<row, log, card, cancelled>> /\ Only("stamp")
          \/ /\ k.pc = "stamp" /\ row' = [row EXCEPT ![k.task] = k.row]
             /\ UNCHANGED <<log, manifest, card, cancelled>> /\ Only("tell")
          \/ /\ k.pc \in {"tell", "returned"} /\ UNCHANGED <<row, log, manifest, card, cancelled>>
             /\ \E p \in {"told", "unsaved", "create", "pick"} : Only(p)

LEMMA CancelsMove ==
    ASSUME TInv, NEW c \in Callers, Cancel(c)
    PROVE  CancelMoves(c)
<1>0. /\ call \in [Callers -> Call] /\ call[c] \in Call
      /\ call[c].pc \in Busy => call[c].task \in Tasks
  BY DEF TInv, TypeOK, HandlerKnows
<1>1. CASE CancelMark(c)
  <2> DEFINE b == call[c].task \in running
             k == [call[c] EXCEPT !.pc = "reread", !.ran = b]
  <2>1. b \in BOOLEAN
    OBVIOUS
  <2>2. call' = [call EXCEPT ![c].pc = "reread", ![c].ran = b]
    BY <1>1 DEF CancelMark
  <2>3. /\ call[c].pc = "mark" /\ cancelled' = cancelled \cup {call[c].task}
        /\ UNCHANGED <<row, log, manifest, card, pc, copy, live, runner, running, signal>>
    BY <1>1 DEF CancelMark, At, store, world, worker
  <2>4. b = (call[c].task \in running)
    OBVIOUS
  <2> HIDE DEF b
  <2>5. /\ call'[c].pc = "reread" /\ call'[c].task = call[c].task
        /\ call'[c].listed = call[c].listed /\ call'[c].ran = b
        /\ \A d \in Callers \ {c} : call'[d] = call[d]
    BY <1>0, <2>1, <2>2 DEF Call
  <2> QED  BY <2>3, <2>4, <2>5 DEF CancelMoves
<1>2. CASE CancelReread(c)
  <2>1. UNCHANGED <<row, log, manifest, card, pc, copy, live, cancelled, runner, running, signal>>
    BY <1>2 DEF CancelReread, store, world, shared, worker
  <2>2. /\ call[c].pc = "reread"
        /\ Go(c, IF row[call[c].task].status \in Terminal THEN "tell" ELSE "write")
    BY <1>2 DEF CancelReread, At
  <2> QED  BY <2>1, <2>2, GoMoves DEF CancelMoves
<1>3. CASE CancelWrite(c)
  <2> DEFINE r == [call[c].row EXCEPT !.status = "cancelled"]
             p == IF call[c].ran THEN "tell" ELSE "close"
  <2>1. r.status = "cancelled"
    BY <1>0 DEF Call, Row
  <2>2. call' = [call EXCEPT ![c].pc = p, ![c].row = r] /\ row' = [row EXCEPT ![call[c].task] = r]
    BY <1>3 DEF CancelWrite, Write
  <2>3. call[c].pc = "write"
        /\ UNCHANGED <<log, manifest, card, pc, copy, live, cancelled, runner, running, signal>>
    BY <1>3 DEF CancelWrite, At, world, shared, worker
  <2> HIDE DEF r
  <2>4. /\ call'[c].pc = p /\ call'[c].row = r /\ call'[c].task = call[c].task
        /\ call'[c].ran = call[c].ran /\ call'[c].listed = call[c].listed
        /\ \A d \in Callers \ {c} : call'[d] = call[d]
    BY <1>0, <2>2 DEF Call
  <2> QED  BY <2>1, <2>2, <2>3, <2>4 DEF CancelMoves
<1>4. CASE CancelRecord(c)
  <2>1. /\ UNCHANGED <<row, manifest, card, pc, copy, live, cancelled, runner, running, signal>>
        /\ call[c].pc = "close" /\ Go(c, "card")
        /\ log' = [log EXCEPT ![call[c].task] = Append(@, "cancelled")]
    BY <1>4 DEF CancelRecord, At, Record, world, shared, worker
  <2> QED  BY <2>1, GoMoves DEF CancelMoves
<1>5. CASE CancelCard(c)
  <2>1. /\ UNCHANGED <<row, log, manifest, pc, copy, live, cancelled, runner, running, signal>>
        /\ call[c].pc = "card" /\ Go(c, IF call[c].row.hash THEN "tell" ELSE "seal")
        /\ card' = card \/ card' = [card EXCEPT ![call[c].task] = "cancelled"]
    BY <1>5 DEF CancelCard, At, store, shared, worker
  <2> QED  BY <2>1, GoMoves DEF CancelMoves
<1>6. CASE CancelSeal(c)
  <2>1. /\ UNCHANGED <<row, log, card, pc, copy, live, cancelled, runner, running, signal>>
        /\ call[c].pc = "seal"
        /\ call' = [call EXCEPT ![c].pc = "stamp", ![c].row.hash = TRUE]
        /\ manifest' = [manifest EXCEPT ![call[c].task] = Len(log[call[c].task])]
    BY <1>6 DEF CancelSeal, At, world, shared, worker
  <2>2. /\ call'[c].pc = "stamp" /\ call'[c].task = call[c].task
        /\ call'[c].ran = call[c].ran /\ call'[c].listed = call[c].listed
        /\ \A d \in Callers \ {c} : call'[d] = call[d]
    BY <1>0, <2>1 DEF Call, Row
  <2> QED  BY <2>1, <2>2 DEF CancelMoves
<1>7. CASE CancelStamp(c)
  <2>1. /\ UNCHANGED <<log, manifest, card, pc, copy, live, cancelled, runner, running, signal>>
        /\ call[c].pc = "stamp" /\ Go(c, "tell")
        /\ row' = [row EXCEPT ![call[c].task] = call[c].row]
    BY <1>7 DEF CancelStamp, At, Write, world, shared, worker
  <2> QED  BY <2>1, GoMoves DEF CancelMoves
<1>8. CASE CancelTell(c)
  <2>1. /\ UNCHANGED <<row, log, manifest, card, pc, copy, live, cancelled, runner, running, signal>>
        /\ call[c].pc \in {"tell", "returned"}
    BY <1>8 DEF CancelTell, At, store, world, shared, worker
  <2>2. \E p \in {"told", "unsaved", "create", "pick"} : Go(c, p)
    BY <1>8 DEF CancelTell
  <2> QED  BY <2>1, <2>2, GoMoves DEF CancelMoves
<1> QED  BY <1>1, <1>2, <1>3, <1>4, <1>5, <1>6, <1>7, <1>8 DEF Cancel
-----------------------------------------------------------------------------
(* No worker is found stuck.                                                *)
LEMMA NobodyIsStuck ==
    ASSUME TInv, NobodyStuck, ~MayStick, [Next]_vars
    PROVE  NobodyStuck'
<1>0. /\ call \in [Callers -> Call] /\ Events \subseteq Callers /\ App \notin Events
      /\ Events \cap Stoppers = {} /\ App \in Callers /\ Stoppers \subseteq Callers
      /\ signal \in [Tasks -> {"none", "armed", "fired"}]
  BY LifecycleAssumption DEF TInv, TypeOK, SharedTypes, Callers, LifecycleAssumption
<1>1. ASSUME NEW c \in Callers \ Events, signal' = signal, \A d \in Callers \ {c} : call'[d] = call[d]
      PROVE  NobodyStuck'
  BY <1>0, <1>1 DEF NobodyStuck
<1>2. ASSUME NEW e \in Events, FollowTurn(e) \/ Follow(e) PROVE NobodyStuck'
  BY <1>0, <1>2, EventMoves DEF NobodyStuck, HandlerMoves
<1>3. ASSUME NEW s \in Stoppers, StopResolve(s) \/ Stop(s) PROVE NobodyStuck'
  BY <1>0, <1>1, <1>3, StopMoves DEF HandlerMoves
<1>4. ASSUME NEW c \in Callers, Cancel(c) PROVE NobodyStuck'
  <2>1. c \notin Events
    BY <1>4 DEF NobodyStuck, Cancel, CancelMark, CancelReread, CancelWrite, CancelRecord, CancelCard,
       CancelSeal, CancelStamp, CancelTell, At, CancelPCs
  <2> QED  BY <1>1, <1>4, <2>1, CancelsMove DEF CancelMoves
<1>5. ASSUME NEW c \in Callers, CancelWriteFails(c) PROVE NobodyStuck'
  <2>1. c \notin Events /\ Go(c, "returned") /\ signal' = signal
    BY <1>5 DEF NobodyStuck, CancelWriteFails, At, CancelPCs, shared
  <2> QED  BY <1>1, <2>1, GoMoves
<1>6. CASE Pop
  BY <1>6 DEF Pop, NobodyStuck
<1>7. ASSUME NEW t \in Tasks, Run(t) \/ WorkerError(t) PROVE NobodyStuck'
  <2>1. UNCHANGED call
    BY <1>7, RunSteps DEF RunFrame
  <2>2. CASE Arm(t) \/ Disarm(t)
    BY <1>0, <2>1, <2>2 DEF Arm, Disarm, NobodyStuck
  <2>3. CASE UNCHANGED signal
    BY <2>1, <2>3 DEF NobodyStuck
  <2> QED  BY <1>7, <2>2, <2>3
       DEF Run, WorkerError, OnlyWorker, shared, Fetch, Admit, LeaveRunning, ClearSteer, BuildMessages,
       Save, Refresh, Fail, StopAtTop, Drain, Chat, Act, SendCard, RunTool, SendAnswer, SendNotice,
       CloseCard, CloseRecord, Seal, Return, Abandoned, FinishTask
<1>8. CASE AppAbort
  <2>1. /\ \A t \in Tasks : signal'[t] \in {"none", signal[t]}
        /\ \E f : call' = [call EXCEPT ![App].pc = "pick", ![App].listed = f]
    BY <1>8 DEF AppAbort
  <2>2. \A d \in Callers \ {App} : call'[d] = call[d]
    BY <1>0, <2>1
  <2> QED  BY <1>0, <2>1, <2>2 DEF NobodyStuck
<1>9. CASE AppPick
  <2>1. \A d \in Callers \ {App} : call'[d] = call[d]
    BY <1>0, <1>9 DEF AppPick, Go
  <2> QED  BY <1>0, <1>1, <1>9, <2>1 DEF AppPick, shared
<1>10. CASE UNCHANGED vars
  BY <1>10 DEF vars, shared, NobodyStuck
<1> QED  BY <1>2, <1>3, <1>4, <1>5, <1>6, <1>7, <1>8, <1>9, <1>10 DEF Next

LEMMA InitNobodyStuck == Init => NobodyStuck
BY DEF Init, NobodyStuck, Idle, CancelPCs, Callers
-----------------------------------------------------------------------------
(* The card.  From the moment it is sent to the moment it is closed, the    *)
(* worker is on its way to close it.                                        *)
CardPCs == {"carded", "cardSaved", "tool", "save", "stepSaved", "top", "chat", "act", "answer",
            "answerSaved", "send", "notice", "close"}
CardInv ==
    /\ call[App].pc = "idle"
    /\ \A t \in Tasks : card[t] = "working" => copy[t].row.card /\ pc[t] \in CardPCs

LEMMA InitCardInv == Init => CardInv
BY LifecycleAssumption DEF Init, CardInv, Idle, Callers, LifecycleAssumption

LEMMA NextCardInv ==
    ASSUME TInv, NobodyStuck, CardInv, ~MayStick, ~MayFail, ~MayAbort, [Next]_vars
    PROVE  CardInv'
<1>0. /\ call \in [Callers -> Call] /\ Events \subseteq Callers /\ App \notin Events
      /\ App \notin Stoppers /\ App \in Callers /\ Stoppers \subseteq Callers
      /\ pc \in [Tasks -> PCs] /\ card \in [Tasks -> {"none", "working"} \cup Terminal]
  BY LifecycleAssumption DEF TInv, TypeOK, WorldTypes, WorkerTypes, Callers, LifecycleAssumption
<1>1. ASSUME NEW c \in Callers \ {App}, HandlerMoves(c) PROVE CardInv'
  BY <1>0, <1>1 DEF CardInv, HandlerMoves
<1>2. ASSUME NEW e \in Events, FollowTurn(e) \/ Follow(e) PROVE CardInv'
  BY <1>0, <1>1, <1>2, EventMoves
<1>3. ASSUME NEW s \in Stoppers, StopResolve(s) \/ Stop(s) PROVE CardInv'
  BY <1>0, <1>1, <1>3, StopMoves
<1>4. ASSUME NEW c \in Callers, Cancel(c) PROVE CardInv'
  <2>1. CancelMoves(c)
    BY <1>4, CancelsMove
  <2>2. c # App
    BY <2>1 DEF CancelMoves, CardInv
  <2>3. UNCHANGED <<pc, copy, call[App]>>
    BY <1>0, <2>1, <2>2 DEF CancelMoves
  <2>4. card' = card \/ card' = [card EXCEPT ![call[c].task] = "cancelled"]
    BY <2>1 DEF CancelMoves
  <2>5. \A t \in Tasks : card'[t] = "working" => card[t] = "working"
    BY <1>0, <2>4
  <2> QED  BY <2>3, <2>5 DEF CardInv
<1>5. CASE Pop
  <2>1. /\ UNCHANGED <<card, copy, call>> /\ Step(Head(queue), "none", "fetch")
    BY <1>5 DEF Pop, world
  <2> QED  BY <1>0, <2>1 DEF CardInv, CardPCs, Step
<1>6. ASSUME NEW t \in Tasks, Run(t) PROVE CardInv'
  <2>1. Others(t) /\ Moves(t) /\ UNCHANGED call
    BY <1>6, RunMoves
  <2>2. card'[t] = "working" => copy'[t].row.card /\ pc'[t] \in CardPCs
    <3>1. CASE Plainly(t) /\ Books(t)
      BY <3>1 DEF Plainly, Books, CardInv, CardPCs, Passes, SameCopy, NewStatus
    <3>2. CASE Passes(t, "close", "record") /\ copy[t].row.card /\ card'[t] = copy[t].row.status
      <4>1. copy[t].row.status \in Terminal
        BY <3>2 DEF TInv, WorkerKnows, Passes
      <4> QED  BY <3>2, <4>1 DEF Terminal
    <3>3. CASE Passes(t, "card", "carded") /\ copy'[t].row.card
      BY <3>3 DEF Passes, CardPCs
    <3>4. ASSUME SameCopy(t), card'[t] = card[t], pc[t] \in CardPCs => pc'[t] \in CardPCs
          PROVE  card'[t] = "working" => copy'[t].row.card /\ pc'[t] \in CardPCs
      BY <3>4 DEF CardInv, SameCopy
    <3>5. CASE SameCopy(t) /\ card'[t] = card[t] /\ \E p \in DOMAIN Saved : Passes(t, p, Saved[p])
      BY <3>4, <3>5 DEF CardPCs, Passes, Saved
    <3>6. CASE SameCopy(t) /\ card'[t] = card[t] /\ \E p \in DOMAIN AfterSave : Passes(t, p, AfterSave[p])
      BY <3>4, <3>6 DEF CardPCs, Passes, AfterSave
    <3>7. CASE SameCopy(t) /\ card'[t] = card[t] /\ Passes(t, "close", "record") /\ ~copy[t].row.card
      BY <3>7 DEF CardInv
    <3>8. CASE SameCopy(t) /\ card'[t] = card[t]
               /\ \/ Passes(t, "arm", "build") \/ Passes(t, "return", "ran") \/ Passes(t, "chat", "act")
                  \/ Passes(t, "record", "seal") \/ Passes(t, "seal", "settle")
      BY <3>4, <3>8 DEF CardPCs, Passes
    <3> QED  BY <2>1, <3>1, <3>2, <3>3, <3>5, <3>6, <3>7, <3>8 DEF Moves, Books
  <2> QED  BY <2>1, <2>2 DEF CardInv, Others
<1>7. CASE AppAbort \/ AppPick
  BY <1>7 DEF AppAbort, AppPick, At, CardInv
<1>8. ASSUME NEW c \in Callers, NEW t \in Tasks, CancelWriteFails(c) \/ WorkerError(t) PROVE FALSE
  BY <1>8 DEF CancelWriteFails, WorkerError
<1>9. CASE UNCHANGED vars
  BY <1>9 DEF vars, world, worker, CardInv
<1> QED  BY <1>2, <1>3, <1>4, <1>5, <1>6, <1>7, <1>9
         DEF Next, CancelWriteFails, WorkerError

(* A card that was sent does not go on saying "working" when its task is    *)
(* over, however stops and follow-ups come, as long as no worker is found   *)
(* stuck, no call fails and the process is not shut down past its grace     *)
(* period: each of these may leave the card as it was.                      *)
THEOREM CardsAreSettled ==
    ASSUME ~MayStick, ~MayFail, ~MayAbort
    PROVE  Spec => []CardSettled
<1>1. Init => TInv /\ NobodyStuck /\ CardInv
  BY InitTInv, InitNobodyStuck, InitCardInv
<1>2. TInv /\ NobodyStuck /\ CardInv /\ [Next]_vars => (TInv /\ NobodyStuck /\ CardInv)'
  BY NextTInv, NobodyIsStuck, NextCardInv
<1>3. CardInv => CardSettled
  BY DEF CardInv, CardSettled, CardPCs
<1> QED  BY <1>1, <1>2, <1>3, PTL DEF Spec, SafeSpec
-----------------------------------------------------------------------------
(* The manifest.  Until the worker seals, its task has none; a task with a  *)
(* manifest is terminal in the store, or the worker is about to save it so; *)
(* and a cancellation that is going to write one has found none.            *)
BeforeSeal == {"clear", "arm", "build", "plan", "planned", "card", "carded", "cardSaved", "tool",
               "save", "stepSaved", "top", "chat", "act", "answer", "answerSaved", "send",
               "notice", "close", "record", "seal"}
SealInv ==
    /\ call[App].pc = "idle"
    /\ \A t \in Tasks :
        /\ pc[t] \in {"seal", "settle"} => copy[t].row.status \in Terminal
        /\ pc[t] \in BeforeSeal => manifest[t] = 0
        /\ manifest[t] # 0 => row[t].status \in Terminal \/ pc[t] = "settle"
        /\ manifest[t] # 0 /\ pc[t] \in {"none", "fetch", "admit"} => t \in cancelled
    /\ \A c \in Callers :
        /\ call[c].pc \in {"write", "close", "card", "seal"} /\ ~call[c].ran =>
             manifest[call[c].task] = 0
        /\ call[c].pc \in Writing => ~call[c].ran /\ row[call[c].task].status \in Terminal

LEMMA InitSealInv == Init => SealInv
BY LifecycleAssumption DEF Init, SealInv, Idle, Callers, LifecycleAssumption, BeforeSeal, Writing

SealCalm == TInv /\ Marked /\ StoppedBeforeRun /\ LiveInv /\ NobodyStuck

LEMMA HandInRun ==
    ASSUME LiveInv
    PROVE  \A t \in Tasks : pc[t] \in BeforeSeal \cup {"settle"} => t \in running
BY PCNames DEF LiveInv, OwnedIsLive, InWorker, BeforeSeal

LEMMA NextSealInv ==
    ASSUME SealCalm, SealInv, ~MayStick, ~MayFail, ~MayAbort,
           \A s, u \in Stoppers : s = u, [Next]_vars
    PROVE  SealInv' /\ \A t \in Tasks : manifest[t] # 0 => manifest'[t] = manifest[t]
<1> USE DEF SealCalm
<1> DEFINE Goal == SealInv' /\ \A t \in Tasks : manifest[t] # 0 => manifest'[t] = manifest[t]
<1>0. /\ call \in [Callers -> Call] /\ Callers = Events \cup Stoppers \cup {App}
      /\ App \notin Events /\ App \notin Stoppers
      /\ pc \in [Tasks -> PCs] /\ row \in [Tasks -> Row] /\ manifest \in [Tasks -> Nat]
      /\ copy \in [Tasks -> Copy] /\ log \in [Tasks -> Seq(Kinds)]
      /\ \A c \in Callers : call[c].pc \in Busy => call[c].task \in Tasks
  BY LifecycleAssumption DEF TInv, TypeOK, StoreTypes, WorkerTypes, Callers, LifecycleAssumption,
     HandlerKnows, Copy
<1>r. \A t \in Tasks : pc[t] \in BeforeSeal \cup {"settle"} => t \in running
  BY HandInRun
<1>h. ASSUME NEW c \in Callers \ {App}, HandlerMoves(c) PROVE Goal
  <2>1. \A t \in Tasks : row[t].status \in Terminal => row'[t].status \in Terminal
    BY <1>0, <1>h, RowTypes DEF HandlerMoves, Terminal
  <2>2. call'[App].pc = "idle"
    BY <1>h, <1>0 DEF HandlerMoves, SealInv
  <2>3. ASSUME NEW t \in Tasks
        PROVE  /\ pc'[t] \in {"seal", "settle"} => copy'[t].row.status \in Terminal
               /\ pc'[t] \in BeforeSeal => manifest'[t] = 0
               /\ manifest'[t] # 0 => row'[t].status \in Terminal \/ pc'[t] = "settle"
               /\ manifest'[t] # 0 /\ pc'[t] \in {"none", "fetch", "admit"} => t \in cancelled'
    BY <1>h, <2>1 DEF HandlerMoves, SealInv
  <2>4. ASSUME NEW d \in Callers
        PROVE  /\ call'[d].pc \in {"write", "close", "card", "seal"} /\ ~call'[d].ran =>
                     manifest'[call'[d].task] = 0
               /\ call'[d].pc \in Writing => ~call'[d].ran /\ row'[call'[d].task].status \in Terminal
    <3>1. CASE d = c
      BY <1>h, <3>1 DEF HandlerMoves, PastMark, CancelPCs, Writing
    <3>2. CASE d # c
      <4>1. call'[d] = call[d]
        BY <1>h, <3>2 DEF HandlerMoves
      <4>2. call[d].pc \in Writing => call[d].task \in Tasks
        BY <1>0 DEF Writing, Busy, CancelPCs
      <4> QED  BY <1>h, <2>1, <4>1, <4>2 DEF HandlerMoves, SealInv
    <3> QED  BY <3>1, <3>2
  <2> QED  BY <1>h, <2>2, <2>3, <2>4 DEF HandlerMoves, SealInv
<1>1. ASSUME NEW e \in Events, FollowTurn(e) \/ Follow(e) PROVE Goal
  BY <1>0, <1>1, <1>h, EventMoves
<1>2. ASSUME NEW s \in Stoppers, StopResolve(s) \/ Stop(s) PROVE Goal
  BY <1>0, <1>2, <1>h, StopMoves
<1>3. ASSUME NEW c \in Callers, Cancel(c) PROVE Goal
  <2> DEFINE t == call[c].task
             p == call[c].pc
  <2>1. CancelMoves(c)
    BY <1>3, CancelsMove
  <2>2. /\ \A d \in Callers \ {c} : call'[d] = call[d]
        /\ UNCHANGED <<pc, copy, running>>
    BY <2>1 DEF CancelMoves
  <2>3. p \in CancelPCs \cup {"tell", "returned"}
    BY <2>1 DEF CancelMoves, CancelPCs
  <2>4. c \in Stoppers
    BY <1>0, <2>3 DEF NobodyStuck, SealInv, CancelPCs
  <2>5. \A d \in Callers \ {c} : call[d].pc \notin CancelPCs
    BY <1>0, <2>4 DEF NobodyStuck, SealInv, CancelPCs
  <2>6. p \in CancelPCs => t \in Tasks
    BY <1>0 DEF Busy
  <2>7. p \in PastMark => t \in cancelled /\ (~call[c].ran => t \notin running)
    BY DEF Marked, StoppedBeforeRun, PastMark
  <2>8. \A d \in Callers \ {c} : call'[d].pc \notin {"write"} \cup Writing
    BY <2>2, <2>5 DEF CancelPCs, Writing
  <2>9. call'[App].pc = "idle"
    BY <1>0, <2>2, <2>4 DEF SealInv
  <2>p. p \in PastMark <=> p \in {"reread", "write", "close", "card", "seal", "stamp"}
    BY DEF PastMark, CancelPCs
  <2>q. p \in PastMark => p \in CancelPCs
    BY DEF PastMark
  <2>w. \A q : q \in {"write", "close", "card", "seal"} => q \in {"write"} \cup Writing
    BY DEF Writing
  <2>c. ASSUME \A u \in Tasks :
                  /\ pc'[u] \in BeforeSeal => manifest'[u] = 0
                  /\ manifest'[u] # 0 => row'[u].status \in Terminal \/ pc'[u] = "settle"
                  /\ manifest'[u] # 0 /\ pc'[u] \in {"none", "fetch", "admit"} => u \in cancelled'
                  /\ manifest[u] # 0 => manifest'[u] = manifest[u],
               call'[c].pc \in {"write", "close", "card", "seal"} /\ ~call'[c].ran =>
                     manifest'[call'[c].task] = 0,
               call'[c].pc \in Writing => ~call'[c].ran /\ row'[call'[c].task].status \in Terminal
        PROVE  Goal
    BY <2>2, <2>8, <2>9, <2>c, <2>w DEF SealInv
  <2> HIDE DEF t, p, Goal
  <2>10. CASE p = "mark"
    <3>1. /\ cancelled' = cancelled \cup {t} /\ UNCHANGED <<row, manifest>>
          /\ call'[c].pc = "reread"
      BY <2>1, <2>10 DEF CancelMoves, t, p
    <3> QED  BY <2>2, <2>c, <3>1 DEF SealInv, Writing
  <2>11. CASE p = "reread"
    <3>1. /\ UNCHANGED <<row, manifest, cancelled>> /\ call'[c].task = t
          /\ call'[c].ran = call[c].ran
          /\ call'[c].pc = IF row[t].status \in Terminal THEN "tell" ELSE "write"
      BY <2>1, <2>11 DEF CancelMoves, t, p
    <3>2. call'[c].pc = "write" /\ ~call'[c].ran => manifest[t] = 0
      <4> SUFFICES ASSUME call'[c].pc = "write", ~call[c].ran, manifest[t] # 0 PROVE FALSE
        BY <3>1
      <4>1. t \in Tasks /\ t \notin running /\ row[t].status \notin Terminal
        BY <2>11, <2>6, <2>7, <2>p, <2>q, <3>1
      <4> QED  BY <1>r, <4>1 DEF SealInv
    <3> QED  BY <2>2, <2>c, <3>1, <3>2 DEF SealInv, Writing
  <2>12. CASE p = "write"
    <3>1. /\ UNCHANGED <<manifest, cancelled>> /\ call'[c].task = t
          /\ call'[c].ran = call[c].ran /\ row' = [row EXCEPT ![t] = call'[c].row]
          /\ call'[c].row.status = "cancelled"
          /\ call'[c].pc = IF call[c].ran THEN "tell" ELSE "close"
      BY <2>1, <2>12 DEF CancelMoves, t, p
    <3>2. \A u \in Tasks : row'[u].status \in Terminal \/ row'[u] = row[u]
      BY <1>0, <3>1 DEF Terminal
    <3>3. row'[t].status \in Terminal
      BY <1>0, <2>12, <2>6, <2>p, <2>q, <3>1 DEF Terminal
    <3>4. ~call[c].ran => manifest[t] = 0
      BY <2>12 DEF SealInv, t, p
    <3> QED  BY <2>2, <2>c, <3>1, <3>2, <3>3, <3>4 DEF SealInv, Writing
  <2>13. CASE p \in {"close", "card"}
    <3>1. /\ UNCHANGED <<row, manifest, cancelled>> /\ call'[c].task = t
          /\ call'[c].ran = call[c].ran /\ call'[c].pc \in {"card", "seal", "tell"}
      BY <2>1, <2>13 DEF CancelMoves, t, p
    <3>2. ~call[c].ran /\ manifest[t] = 0 /\ row[t].status \in Terminal
      BY <2>13 DEF SealInv, Writing, t, p
    <3> QED  BY <2>2, <2>c, <3>1, <3>2 DEF SealInv, Writing
  <2>14. CASE p = "seal"
    <3>1. /\ UNCHANGED <<row, cancelled>> /\ call'[c].task = t
          /\ call'[c].ran = call[c].ran /\ call'[c].pc = "stamp"
          /\ manifest' = [manifest EXCEPT ![t] = Len(log[t])]
      BY <2>1, <2>14 DEF CancelMoves, t, p
    <3>2. ~call[c].ran /\ manifest[t] = 0 /\ row[t].status \in Terminal
      BY <2>14 DEF SealInv, Writing, t, p
    <3>3. t \in Tasks /\ t \in cancelled /\ t \notin running
      BY <2>14, <2>6, <2>7, <2>p, <2>q, <3>2
    <3>4. \A u \in Tasks : u # t => manifest'[u] = manifest[u]
      BY <1>0, <3>1
    <3>5. pc[t] \notin BeforeSeal
      BY <1>r, <3>3
    <3> QED  BY <2>2, <2>c, <3>1, <3>2, <3>3, <3>4, <3>5 DEF SealInv, Writing
  <2>15. CASE p = "stamp"
    <3>1. /\ UNCHANGED <<manifest, cancelled>> /\ row' = [row EXCEPT ![t] = call[c].row]
          /\ call'[c].pc = "tell"
      BY <2>1, <2>15 DEF CancelMoves, t, p
    <3>2. call[c].row.status = "cancelled"
      BY <2>15 DEF LiveInv, CancelHasRow, Writing, p
    <3>3. \A u \in Tasks : row'[u].status \in Terminal \/ row'[u] = row[u]
      BY <1>0, <3>1, <3>2 DEF Terminal
    <3> QED  BY <2>2, <2>c, <3>1, <3>3 DEF SealInv, Writing
  <2>16. CASE p \in {"tell", "returned"}
    <3>1. /\ UNCHANGED <<row, manifest, cancelled>>
          /\ call'[c].pc \in {"told", "unsaved", "create", "pick"}
      BY <2>1, <2>16 DEF CancelMoves, t, p
    <3> QED  BY <2>2, <2>c, <3>1 DEF SealInv, Writing
  <2> QED  BY <2>3, <2>10, <2>11, <2>12, <2>13, <2>14, <2>15, <2>16 DEF CancelPCs
<1>4. CASE Pop
  <2>1. UNCHANGED <<row, manifest, copy, cancelled, call>> /\ Step(Head(queue), "none", "fetch")
    BY <1>4 DEF Pop, store
  <2>2. \A u \in Tasks : pc'[u] = pc[u] \/ (pc[u] = "none" /\ pc'[u] = "fetch")
    BY <1>0, <2>1 DEF Step
  <2> QED  BY <2>1, <2>2 DEF SealInv, BeforeSeal
<1>5. ASSUME NEW t \in Tasks, Run(t) PROVE Goal
  <2>1. Others(t) /\ Moves(t) /\ UNCHANGED <<cancelled, call>>
    BY <1>5, RunMoves
  <2>2. ASSUME NEW c \in Callers, call[c].pc \in Writing
        PROVE  /\ row'[call[c].task] = row[call[c].task]
               /\ manifest'[call[c].task] = manifest[call[c].task]
    <3>1. call[c].task \in Tasks /\ call[c].task \notin running
      BY <1>0, <2>2 DEF SealInv, StoppedBeforeRun, Writing, Busy, CancelPCs
    <3>2. CASE call[c].task # t
      BY <2>1, <3>1, <3>2 DEF Others
    <3>3. CASE call[c].task = t
      <4>1. pc[t] \notin BeforeSeal \cup {"settle"}
        BY <1>r, <3>1, <3>3
      <4>2. pc[t] \notin DOMAIN Saved /\ pc[t] \notin {"seal", "card", "chat", "close", "record"}
        BY <4>1 DEF BeforeSeal, Saved
      <4> QED  BY <2>1, <3>3, <4>2 DEF Moves, Books, Passes
    <3> QED  BY <3>2, <3>3
  <2>3. ASSUME NEW c \in Callers, call[c].pc = "write", ~call[c].ran
        PROVE  manifest'[call[c].task] = manifest[call[c].task]
    <3>1. call[c].task \in Tasks /\ call[c].task \notin running
      BY <1>0, <2>3 DEF StoppedBeforeRun, Busy, CancelPCs
    <3>2. CASE call[c].task # t
      BY <2>1, <3>1, <3>2 DEF Others
    <3>3. CASE call[c].task = t
      <4>1. pc[t] # "seal"
        BY <1>r, <3>1, <3>3 DEF BeforeSeal
      <4> QED  BY <2>1, <3>3, <4>1 DEF Moves, Books, Passes
    <3> QED  BY <3>2, <3>3
  <2>4. /\ pc'[t] \in {"seal", "settle"} => copy'[t].row.status \in Terminal
        /\ pc'[t] \in BeforeSeal => manifest'[t] = 0
        /\ manifest'[t] # 0 => row'[t].status \in Terminal \/ pc'[t] = "settle"
        /\ manifest'[t] # 0 /\ pc'[t] \in {"none", "fetch", "admit"} => t \in cancelled'
        /\ manifest[t] # 0 => manifest'[t] = manifest[t]
    <3>0. pc[t] = "record" => copy[t].row.status \in Terminal
      BY DEF TInv, WorkerKnows
    <3>1. CASE Plainly(t) /\ Books(t)
      <4>1. pc'[t] \notin {"seal", "settle", "none", "fetch"} /\ pc[t] # "settle"
        BY <3>1 DEF Plainly, Passes
      <4>2. pc'[t] = "admit" => pc[t] = "fetch"
        BY <3>1 DEF Plainly, Passes
      <4>3. pc'[t] \in BeforeSeal => pc[t] \in BeforeSeal \/ (pc[t] = "admit" /\ t \notin cancelled)
        BY <3>1 DEF Plainly, Passes, BeforeSeal
      <4> QED  BY <2>1, <3>1, <4>1, <4>2, <4>3 DEF SealInv, Books
    <3>2. CASE \E p \in DOMAIN Saved : Passes(t, p, Saved[p]) /\ row'[t] = copy[t].row
                                       /\ SameCopy(t) /\ UNCHANGED manifest
      <4>1. CASE pc[t] = "settle" /\ pc'[t] = "settled"
        BY <3>2, <4>1 DEF SealInv, BeforeSeal
      <4>2. CASE pc[t] \in BeforeSeal /\ pc'[t] \notin {"seal", "settle"}
        BY <3>2, <4>2 DEF SealInv
      <4> QED  BY <3>2, <4>1, <4>2 DEF Saved, Passes, BeforeSeal
    <3>3. CASE \E p \in DOMAIN AfterSave : Passes(t, p, AfterSave[p]) /\ SameCopy(t) /\ Books(t)
      BY <3>3 DEF SealInv, BeforeSeal, AfterSave, Passes, Books
    <3>4. CASE SameCopy(t) /\ Books(t) /\ (Passes(t, "arm", "build") \/ Passes(t, "return", "ran"))
      BY <3>4 DEF SealInv, BeforeSeal, Passes, Books
    <3>5. CASE /\ UNCHANGED <<row, manifest>>
               /\ \/ Passes(t, "card", "carded") \/ Passes(t, "chat", "act")
                  \/ Passes(t, "close", "record")
      BY <3>5 DEF SealInv, BeforeSeal, Passes
    <3>6. CASE UNCHANGED <<row, manifest>> /\ SameCopy(t) /\ Passes(t, "record", "seal")
      BY <3>0, <3>6 DEF SealInv, BeforeSeal, Passes, SameCopy
    <3>7. CASE UNCHANGED row /\ SameCopy(t) /\ Passes(t, "seal", "settle")
      BY <3>7 DEF SealInv, BeforeSeal, Passes, SameCopy
    <3> QED  BY <2>1, <3>1, <3>2, <3>3, <3>4, <3>5, <3>6, <3>7 DEF Moves
  <2>5. \A c \in Callers : call[c].pc \in {"close", "card", "seal"} => call[c].pc \in Writing
    BY DEF Writing
  <2>6. ASSUME NEW c \in Callers
        PROVE  /\ call'[c].pc \in {"write", "close", "card", "seal"} /\ ~call'[c].ran =>
                     manifest'[call'[c].task] = 0
               /\ call'[c].pc \in Writing => ~call'[c].ran /\ row'[call'[c].task].status \in Terminal
    BY <2>1, <2>2, <2>3, <2>5 DEF SealInv
  <2> QED  BY <2>1, <2>4, <2>6 DEF SealInv, Others
<1>6. CASE AppAbort \/ AppPick
  BY <1>6 DEF AppAbort, AppPick, At, SealInv
<1>7. CASE UNCHANGED vars
  BY <1>7 DEF vars, store, shared, worker, SealInv
<1> QED  BY <1>1, <1>2, <1>3, <1>4, <1>5, <1>6, <1>7
         DEF Next, CancelWriteFails, WorkerError

(* The evidence of a task is finalized once, by the worker or by the stop,  *)
(* wherever the stop finds it: with one person stopping it, no worker found *)
(* stuck, no failing call and no abort, each of which may seal it again.    *)
THEOREM SealedForGood ==
    ASSUME ~MayStick, ~MayFail, ~MayAbort, \A s, u \in Stoppers : s = u
    PROVE  Spec => SealedOnce
<1>1. Init => SealCalm /\ SealInv
  BY InitTInv, InitStopped, InitLive, InitNobodyStuck, InitSealInv DEF SealCalm
<1>2. SealCalm /\ SealInv /\ [Next]_vars => (SealCalm /\ SealInv)'
  BY NextTInv, NextStopped, NextLive, NobodyIsStuck, NextSealInv DEF SealCalm
<1>3. SealCalm /\ SealInv /\ [Next]_vars
        => [\A t \in Tasks : manifest[t] # 0 => manifest'[t] = manifest[t]]_vars
  BY NextSealInv
<1> QED  BY <1>1, <1>2, <1>3, PTL DEF Spec, SafeSpec, SealedOnce
-----------------------------------------------------------------------------
(* Shutdown.  While the runner is up, the store and the chain of a task     *)
(* follow from where its dispatch is; after the abort, what was in the      *)
(* worker's hands is closed, or listed for App, or in App's hands.          *)

LastIs(t, s) == \E i \in Closing(t) : log[t][i] = s /\ \A j \in Closing(t) : j <= i
Closed(t) == row[t].status \in Terminal /\ LastIs(t, row[t].status)

Early == {"none", "fetch", "admit", "clear", "arm"}
Underway == {"build", "plan", "planned", "card", "carded", "cardSaved", "tool", "save", "stepSaved",
             "top", "chat", "act", "answer", "answerSaved", "send"}
EndingPCs == {"notice", "close", "record"}
SettledPCs == {"settled", "return", "ran", "disarm", "finish", "over"}

UpTask(t) ==
    /\ pc[t] \in Early \cup Underway \cup EndingPCs => Closing(t) = {} /\ row[t].status \notin Terminal
    /\ pc[t] \in {"admit", "clear", "arm"} \cup Underway => copy[t].row.status \notin Terminal
    /\ pc[t] \in {"seal", "settle"} => /\ row[t].status \notin Terminal
                                       /\ copy[t].row.status \in Terminal
                                       /\ LastIs(t, copy[t].row.status)
    /\ pc[t] \in SettledPCs => Closed(t)
    /\ live[t] # Absent <=> InWorker(t)
Up == runner = "up" => /\ call[App].pc = "idle" /\ cancelled = {}
                       /\ \A t \in Tasks : UpTask(t)

Untold(t) == \/ t \in DOMAIN call[App].listed
             \/ call[App].task = t /\ call[App].pc \in {"mark", "reread", "write"}
DownTask(t) ==
    /\ pc[t] \in {"none", "over"}
    /\ row[t].status \in Terminal => Closed(t) \/ (call[App].pc = "close" /\ call[App].task = t)
    /\ row[t].status \notin Terminal /\ (live[t] # Absent \/ Closing(t) # {}) => Untold(t)
Down == runner = "aborted" =>
    /\ call[App].pc \notin {"idle", "returned"}
    /\ call[App].pc \in PastMark => ~call[App].ran
    /\ call[App].pc = "write" => row[call[App].task].status \notin Terminal
    /\ call[App].pc \in Writing => row[call[App].task].status = "cancelled"
    /\ call[App].pc = "down" => DOMAIN call[App].listed = {}
    /\ \A t \in Tasks : DownTask(t)

(* What an entry of the chain does to the closing records. *)
LEMMA RecordCloses ==
    ASSUME TInv, NEW t \in Tasks, NEW k \in Kinds, log'[t] = Append(log[t], k)
    PROVE  /\ k \in Terminal => LastIs(t, k)'
           /\ k \notin Terminal => /\ Closing(t)' = {} <=> Closing(t) = {}
                                   /\ \A s : LastIs(t, s) => LastIs(t, s)'
<1>1. /\ log[t] \in Seq(Kinds) /\ Len(log[t]) \in Nat
      /\ DOMAIN log[t] = 1..Len(log[t])
  BY LenProperties DEF TInv, TypeOK, StoreTypes
<1>2. /\ DOMAIN log'[t] = 1..(Len(log[t]) + 1)
      /\ \A i \in 1..Len(log[t]) : log'[t][i] = log[t][i]
      /\ log'[t][Len(log[t]) + 1] = k
  BY <1>1, AppendProperties, LenProperties
<1>3. CASE k \in Terminal
  <2>1. Len(log[t]) + 1 \in Closing(t)' /\ \A j \in Closing(t)' : j <= Len(log[t]) + 1
    BY <1>1, <1>2, <1>3 DEF Closing
  <2> QED  BY <1>2, <1>3, <2>1 DEF LastIs
<1>4. CASE k \notin Terminal
  <2>1. Closing(t)' = Closing(t)
    BY <1>1, <1>2, <1>4 DEF Closing
  <2>2. \A i \in Closing(t) : log'[t][i] = log[t][i]
    BY <1>1, <1>2 DEF Closing
  <2> QED  BY <1>4, <2>1, <2>2 DEF LastIs
<1> QED  BY <1>3, <1>4

(* And with the chain unchanged they stay as they are. *)
LEMMA ChainStays ==
    ASSUME NEW t \in Tasks, log'[t] = log[t]
    PROVE  /\ Closing(t)' = Closing(t)
           /\ \A s : LastIs(t, s)' <=> LastIs(t, s)
BY DEF Closing, LastIs

LEMMA InitShut == Init => Up /\ Down
<1> SUFFICES ASSUME Init PROVE Up /\ Down
  OBVIOUS
<1>1. call[App].pc = "idle"
  BY LifecycleAssumption DEF Init, Idle, Callers, LifecycleAssumption
<1>2. ASSUME NEW t \in Tasks PROVE UpTask(t)
  <2>1. log[t] = <<>> /\ pc[t] = "none" /\ row[t] = Absent /\ live[t] = Absent
    BY DEF Init
  <2>2. Closing(t) = {}
    BY <2>1 DEF Closing
  <2>3. row[t].status \notin Terminal
    BY <2>1 DEF Absent, Terminal
  <2> QED  BY <2>1, <2>2, <2>3, PCNames DEF UpTask, Early, Underway, EndingPCs, SettledPCs, InWorker
<1> QED  BY <1>1, <1>2 DEF Init, Up, Down

(* A handler of an event closes nothing and opens nothing that was closed. *)
LEMMA HandlerShut ==
    ASSUME TInv, Up, Down, NEW e \in Callers \ {App}, HandlerMoves(e)
    PROVE  /\ Up' /\ Down'
           /\ \A t \in Tasks : row[t].status = "delivered" => row'[t].status = "delivered"
<1>0. /\ row \in [Tasks -> Row] /\ log \in [Tasks -> Seq(Kinds)] /\ App \in Callers
      /\ \A c \in Callers : call[c].pc \in Busy => call[c].task \in Tasks
  BY DEF TInv, TypeOK, StoreTypes, Callers, HandlerKnows
<1>1. /\ UNCHANGED <<pc, copy, live, cancelled, runner>> /\ call'[App] = call[App]
  BY <1>0 DEF HandlerMoves
<1>2. ASSUME NEW t \in Tasks
      PROVE  row'[t] = row[t] \/ (row[t].status = "absent" /\ row'[t].status = "created")
  BY <1>0 DEF HandlerMoves, Created, Absent
<1>3. ASSUME NEW t \in Tasks
      PROVE  /\ Closing(t)' = {} <=> Closing(t) = {}
             /\ \A s : LastIs(t, s) => LastIs(t, s)'
  <2>1. log'[t] = log[t] \/ \E k \in {"created", "received"} : log'[t] = Append(log[t], k)
    BY <1>0 DEF HandlerMoves
  <2>2. {"created", "received"} \subseteq Kinds /\ \A k \in {"created", "received"} : k \notin Terminal
    BY DEF Kinds, Terminal
  <2> QED  BY <2>1, <2>2, RecordCloses, ChainStays
<1>4. ASSUME NEW t \in Tasks
      PROVE  (row'[t].status \in Terminal <=> row[t].status \in Terminal)
             /\ (Closed(t) => Closed(t)')
  <2>1. CASE row'[t] = row[t]
    BY <1>3, <2>1 DEF Closed
  <2>2. CASE row[t].status = "absent" /\ row'[t].status = "created"
    BY <2>2 DEF Closed, Terminal
  <2> QED  BY <1>2, <2>1, <2>2
<1>5. Up'
  BY <1>1, <1>3, <1>4 DEF Up, UpTask, InWorker
<1>6. Down'
  <2>1. call[App].pc = "write" \/ call[App].pc \in Writing => call[App].task \in Tasks
    BY <1>0 DEF Writing, Busy, CancelPCs
  <2>2. \A t \in Tasks : row[t].status = "cancelled" => row'[t].status = "cancelled"
    BY <1>2
  <2>3. ASSUME runner = "aborted" PROVE \A t \in Tasks : DownTask(t)'
    BY <1>1, <1>3, <1>4, <2>3 DEF Down, DownTask, Untold
  <2> QED  BY <1>1, <1>4, <2>1, <2>2, <2>3 DEF Down
<1>7. \A t \in Tasks : row[t].status = "delivered" => row'[t].status = "delivered"
  BY <1>2
<1> QED  BY <1>5, <1>6, <1>7

(* App closes one by one what the abort left in the worker's hands.         *)
LEMMA AppCancels ==
    ASSUME TInv, LiveInv, Up, Down, Cancel(App)
    PROVE  /\ Up' /\ Down'
           /\ \A t \in Tasks : row[t].status = "delivered" => row'[t].status = "delivered"
<1> DEFINE k == call[App]
           t == call[App].task
<1>0. /\ row \in [Tasks -> Row] /\ log \in [Tasks -> Seq(Kinds)] /\ App \in Callers
      /\ k.pc \in Busy => t \in Tasks
      /\ runner \in {"up", "aborted"}
  BY DEF TInv, TypeOK, StoreTypes, SharedTypes, Callers, HandlerKnows
<1>1. CancelMoves(App)
  BY <1>0, CancelsMove
<1>2. /\ runner = "aborted" /\ runner' = "aborted"
      /\ UNCHANGED <<pc, copy, live, running>>
  BY <1>0, <1>1 DEF CancelMoves, Up
<1>3. Up'
  BY <1>2 DEF Up
<1>4. running = {}
  BY <1>2, PCNames DEF LiveInv, OwnedIsLive, Down, DownTask, InWorker
<1>5. /\ k.pc \in PastMark => ~k.ran
      /\ k.pc = "write" => row[t].status \notin Terminal
      /\ k.pc \in Writing => row[t].status = "cancelled"
      /\ \A u \in Tasks : DownTask(u)
      /\ k.pc # "returned"
  BY <1>2 DEF Down
<1>p. /\ PastMark = {"reread", "write", "close", "card", "seal", "stamp"}
      /\ Writing = {"close", "card", "seal", "stamp"}
      /\ \A p \in {"mark", "reread", "write", "close", "card", "seal", "stamp"} : p \in Busy
      /\ "cancelled" \in Terminal /\ "cancelled" \in Kinds
      /\ "delivered" # "cancelled"
  BY DEF PastMark, CancelPCs, Writing, Busy, Terminal, Kinds
<1> HIDE DEF k, t
<1>6. CASE k.pc = "mark"
  <2>1. /\ UNCHANGED <<row, log>> /\ call'[App].pc = "reread" /\ call'[App].task = t
        /\ call'[App].listed = k.listed /\ call'[App].ran = (t \in running)
    BY <1>1, <1>6 DEF CancelMoves, k, t
  <2>2. \A u \in Tasks : DownTask(u)'
    BY <1>2, <1>5, <1>6, <2>1, ChainStays DEF DownTask, Untold, Closed, k, t
  <2>3. ~call'[App].ran
    BY <1>4, <2>1
  <2> QED  BY <1>2, <1>3, <1>p, <2>1, <2>2, <2>3 DEF Down
<1>7. CASE k.pc = "reread"
  <2>1. /\ UNCHANGED <<row, log>> /\ call'[App].task = t /\ call'[App].listed = k.listed
        /\ call'[App].ran = k.ran
        /\ call'[App].pc = IF row[t].status \in Terminal THEN "tell" ELSE "write"
    BY <1>1, <1>7 DEF CancelMoves, k, t
  <2>2. \A u \in Tasks : DownTask(u)'
    BY <1>2, <1>5, <1>7, <2>1, ChainStays DEF DownTask, Untold, Closed, k, t
  <2>3. ~call'[App].ran
    BY <1>5, <1>7, <1>p, <2>1
  <2> QED  BY <1>2, <1>3, <1>p, <2>1, <2>2, <2>3 DEF Down
<1>8. CASE k.pc = "write"
  <2>1. /\ log' = log /\ call'[App].task = t /\ call'[App].listed = k.listed
        /\ call'[App].ran = k.ran /\ row' = [row EXCEPT ![t] = call'[App].row]
        /\ call'[App].row.status = "cancelled" /\ call'[App].pc = "close"
    BY <1>1, <1>5, <1>8, <1>p DEF CancelMoves, k, t
  <2>2. t \in Tasks /\ row'[t].status = "cancelled" /\ \A u \in Tasks \ {t} : row'[u] = row[u]
    BY <1>0, <1>8, <1>p, <2>1
  <2>3. ASSUME NEW u \in Tasks PROVE DownTask(u)'
    <3>1. CASE u = t
      BY <1>2, <1>5, <1>p, <2>1, <2>2, <3>1 DEF DownTask
    <3>2. CASE u # t
      <4>1. row'[u] = row[u] /\ (Closed(u)' <=> Closed(u)) /\ Closing(u)' = Closing(u)
        BY <2>1, <2>2, <3>2, ChainStays DEF Closed
      <4>2. DownTask(u)
        BY <1>5
      <4> QED  BY <1>2, <1>8, <2>1, <3>2, <4>1, <4>2 DEF DownTask, Untold, k, t
    <3> QED  BY <3>1, <3>2
  <2>4. \A u \in Tasks : row[u].status = "delivered" => row'[u].status = "delivered"
    BY <1>5, <1>8, <2>2 DEF Terminal
  <2>5. ~call'[App].ran
    BY <1>5, <1>8, <1>p, <2>1
  <2> QED  BY <1>2, <1>3, <1>p, <2>1, <2>2, <2>3, <2>4, <2>5 DEF Down
<1>9. CASE k.pc = "close"
  <2>1. /\ row' = row /\ call'[App].task = t /\ call'[App].listed = k.listed
        /\ call'[App].ran = k.ran /\ call'[App].pc = "card"
        /\ log' = [log EXCEPT ![t] = Append(@, "cancelled")]
    BY <1>1, <1>9 DEF CancelMoves, k, t
  <2>2. /\ t \in Tasks /\ log'[t] = Append(log[t], "cancelled")
        /\ \A u \in Tasks \ {t} : log'[u] = log[u]
        /\ row'[t].status = "cancelled"
    BY <1>0, <1>5, <1>9, <1>p, <2>1
  <2>3. ASSUME NEW u \in Tasks, u = t PROVE LastIs(u, "cancelled")'
    <3>1. log'[u] = Append(log[u], "cancelled") /\ "cancelled" \in Kinds /\ "cancelled" \in Terminal
      BY <1>p, <2>2, <2>3
    <3> QED  BY <3>1, RecordCloses
  <2>4. ASSUME NEW u \in Tasks PROVE DownTask(u)'
    <3>1. CASE u = t
      <4>1. row'[u].status = "cancelled" /\ LastIs(u, "cancelled")'
        BY <2>2, <2>3, <3>1
      <4>2. Closed(u)'
        BY <1>p, <4>1 DEF Closed
      <4> QED  BY <1>2, <1>5, <1>p, <4>1, <4>2 DEF DownTask
    <3>2. CASE u # t
      <4>1. (Closed(u)' <=> Closed(u)) /\ Closing(u)' = Closing(u)
        BY <2>1, <2>2, <3>2, ChainStays DEF Closed
      <4>2. DownTask(u)
        BY <1>5
      <4> QED  BY <1>2, <1>9, <2>1, <3>2, <4>1, <4>2 DEF DownTask, Untold, k, t
    <3> QED  BY <3>1, <3>2
  <2>5. ~call'[App].ran
    BY <1>5, <1>9, <1>p, <2>1
  <2> QED  BY <1>2, <1>3, <1>p, <2>1, <2>2, <2>4, <2>5 DEF Down
<1>10. CASE k.pc \in {"card", "seal"}
  <2>1. /\ UNCHANGED <<row, log>> /\ call'[App].task = t /\ call'[App].listed = k.listed
        /\ call'[App].ran = k.ran /\ call'[App].pc \in {"tell", "seal", "stamp"}
    BY <1>1, <1>10 DEF CancelMoves, k, t
  <2>2. \A u \in Tasks : DownTask(u)'
    BY <1>2, <1>5, <1>10, <2>1, ChainStays DEF DownTask, Untold, Closed, k, t
  <2>3. ~call'[App].ran /\ row'[t].status = "cancelled"
    BY <1>5, <1>10, <1>p, <2>1
  <2> QED  BY <1>2, <1>3, <1>p, <2>1, <2>2, <2>3 DEF Down
<1>11. CASE k.pc = "stamp"
  <2>1. /\ log' = log /\ call'[App].task = t /\ call'[App].listed = k.listed
        /\ call'[App].ran = k.ran /\ call'[App].pc = "tell"
        /\ row' = [row EXCEPT ![t] = k.row]
    BY <1>1, <1>11 DEF CancelMoves, k, t
  <2>2. k.row.status = "cancelled" /\ row[t].status = "cancelled"
    BY <1>0, <1>5, <1>11, <1>p DEF LiveInv, CancelHasRow, k
  <2>3. /\ t \in Tasks /\ row'[t].status = "cancelled"
        /\ \A u \in Tasks : row'[u].status = row[u].status
    BY <1>0, <1>11, <1>p, <2>1, <2>2
  <2>4. ASSUME NEW u \in Tasks PROVE DownTask(u)'
    <3>1. (Closed(u)' <=> Closed(u)) /\ Closing(u)' = Closing(u)
      BY <2>1, <2>3, ChainStays DEF Closed
    <3>2. DownTask(u)
      BY <1>5
    <3> QED  BY <1>2, <1>11, <2>1, <2>3, <3>1, <3>2 DEF DownTask, Untold, k, t
  <2> QED  BY <1>2, <1>3, <1>p, <2>1, <2>3, <2>4 DEF Down
<1>12. CASE k.pc \in {"tell", "returned"}
  <2>1. /\ UNCHANGED <<row, log>> /\ call'[App].task = t /\ call'[App].listed = k.listed
        /\ call'[App].pc \in {"told", "unsaved", "create", "pick"}
    BY <1>1, <1>12 DEF CancelMoves, k, t
  <2>2. \A u \in Tasks : DownTask(u)'
    BY <1>2, <1>5, <1>12, <2>1, ChainStays DEF DownTask, Untold, Closed, k, t
  <2> QED  BY <1>2, <1>3, <1>p, <2>1, <2>2 DEF Down
<1> QED  BY <1>1, <1>6, <1>7, <1>8, <1>9, <1>10, <1>11, <1>12 DEF CancelMoves, k

(* The dispatch of a task, with nothing cancelled. *)
LEMMA RunShut ==
    ASSUME TInv, LiveInv, NobodyStuck, Up, Down, ~MayFail, NEW t \in Tasks, Run(t)
    PROVE  /\ Up' /\ Down'
           /\ \A u \in Tasks : row[u].status = "delivered" => row'[u].status = "delivered"
<1>0. /\ runner = "up" /\ t \notin cancelled /\ UpTask(t)
  <2>1. pc[t] \notin {"none", "over"}
    BY RunSteps DEF RunFrame
  <2>2. runner = "up"
    BY <2>1 DEF Down, DownTask, TInv, TypeOK, SharedTypes
  <2> QED  BY <2>2 DEF Up
<1>1. Others(t) /\ Moves(t) /\ UNCHANGED <<cancelled, runner, call>>
  BY RunMoves
<1>2. Down'
  BY <1>0, <1>1 DEF Down
<1>3. ASSUME NEW u \in Tasks \ {t} PROVE UpTask(u)'
  <2>1. UpTask(u)
    BY <1>0 DEF Up
  <2>2. (Closed(u)' <=> Closed(u)) /\ Closing(u)' = Closing(u)
        /\ \A s : LastIs(u, s)' <=> LastIs(u, s)
    BY <1>1, ChainStays DEF Others, Closed
  <2> QED  BY <1>1, <2>1, <2>2 DEF UpTask, Others, InWorker
<1>4. copy[t].row # Absent \/ pc[t] \notin {"arm"} \cup WorkerPCs
  BY DEF LiveInv, CopyHasRow, Absent
<1>5. /\ copy[t].row.status \in Terminal \/ pc[t] \notin {"close", "record"}
      /\ {"planning", "working", "answering"} \cap Terminal = {}
      /\ "work" \in Kinds /\ "work" \notin Terminal /\ Terminal \subseteq Kinds
  BY DEF TInv, WorkerKnows, Terminal, Kinds
<1>6. UpTask(t)' /\ (row[t].status = "delivered" => row'[t].status = "delivered")
  <2>1. CASE Plainly(t) /\ Books(t) /\ live'[t] = live[t]
    <3>1. (Closed(t)' <=> Closed(t)) /\ Closing(t)' = Closing(t) /\ row'[t] = row[t]
      BY <2>1, ChainStays DEF Closed, Books
    <3>2. /\ pc'[t] \in Early \cup Underway \cup EndingPCs
             => pc[t] \in Early \cup Underway \cup EndingPCs
          /\ pc'[t] \notin {"seal", "settle"}
          /\ pc'[t] \in SettledPCs => pc[t] \in SettledPCs
          /\ InWorker(t)' <=> InWorker(t)
      BY <1>0, <2>1, PCNames
         DEF Plainly, Passes, Early, Underway, EndingPCs, SettledPCs, InWorker
    <3>3. pc'[t] \in {"admit", "clear", "arm"} \cup Underway => copy'[t].row.status \notin Terminal
      BY <1>0, <1>5, <2>1 DEF Plainly, Passes, SameCopy, NewStatus, UpTask, Early, Underway
    <3> QED  BY <1>0, <2>1, <3>1, <3>2, <3>3 DEF UpTask
  <2>2. CASE /\ \/ Passes(t, "arm", "build")
                \/ \E p \in DOMAIN AfterSave : Passes(t, p, AfterSave[p])
             /\ live'[t] = copy[t].row /\ SameCopy(t) /\ Books(t)
    <3>1. (Closed(t)' <=> Closed(t)) /\ Closing(t)' = Closing(t) /\ row'[t] = row[t]
      BY <2>2, ChainStays DEF Closed, Books
    <3>2. \/ pc[t] \in {"arm"} \cup Underway /\ pc'[t] \in Underway
          \/ pc[t] = "settled" /\ pc'[t] = "return"
      BY <2>2 DEF Passes, AfterSave, Underway
    <3>3. live'[t] # Absent /\ InWorker(t)'
      BY <1>4, <2>2, <3>2, PCNames DEF InWorker, Underway
    <3> QED  BY <1>0, <2>2, <3>1, <3>2, <3>3
             DEF UpTask, SameCopy, Early, Underway, EndingPCs, SettledPCs
  <2>3. CASE Passes(t, "return", "ran") /\ live'[t] = Absent /\ SameCopy(t) /\ Books(t)
    <3>1. (Closed(t)' <=> Closed(t)) /\ Closing(t)' = Closing(t) /\ row'[t] = row[t]
      BY <2>3, ChainStays DEF Closed, Books
    <3>2. ~InWorker(t)'
      BY <2>3, PCNames DEF Passes, InWorker
    <3> QED  BY <1>0, <2>3, <3>1, <3>2
             DEF Passes, UpTask, Early, Underway, EndingPCs, SettledPCs
  <2>4. CASE /\ \E p \in DOMAIN Saved : Passes(t, p, Saved[p])
             /\ row'[t] = copy[t].row /\ SameCopy(t) /\ UNCHANGED <<log, manifest, card, live>>
    <3>1. Closing(t)' = Closing(t) /\ \A s : LastIs(t, s)' <=> LastIs(t, s)
      BY <2>4, ChainStays
    <3>2. \/ pc[t] \in Underway /\ pc'[t] \in Underway
          \/ pc[t] = "settle" /\ pc'[t] = "settled"
      BY <2>4 DEF Passes, Saved, Underway
    <3>3. InWorker(t) /\ InWorker(t)'
      BY <3>2, PCNames DEF InWorker, Underway
    <3>4. row[t].status # "delivered"
      BY <1>0, <3>2 DEF UpTask, Terminal
    <3>5. CASE pc[t] \in Underway /\ pc'[t] \in Underway
      BY <1>0, <2>4, <3>1, <3>3, <3>4, <3>5
         DEF UpTask, SameCopy, Early, Underway, EndingPCs, SettledPCs
    <3>6. CASE pc[t] = "settle" /\ pc'[t] = "settled"
      <4>1. Closed(t)'
        BY <1>0, <2>4, <3>1, <3>6 DEF UpTask, Closed
      <4> QED  BY <1>0, <2>4, <3>3, <3>4, <3>6, <4>1
               DEF UpTask, Early, Underway, EndingPCs, SettledPCs
    <3> QED  BY <3>2, <3>5, <3>6
  <2>5. CASE /\ Passes(t, "card", "carded") /\ card'[t] = "working" /\ copy'[t].row.card
             /\ copy'[t].row.status = "working" /\ UNCHANGED <<row, log, manifest, live>>
    <3>1. Closing(t)' = Closing(t) /\ InWorker(t) /\ InWorker(t)'
      BY <2>5, ChainStays, PCNames DEF Passes, InWorker
    <3> QED  BY <1>0, <1>5, <2>5, <3>1
             DEF Passes, UpTask, Early, Underway, EndingPCs, SettledPCs
  <2>6. CASE Passes(t, "chat", "act") /\ log'[t] = Append(log[t], "work")
             /\ SameCopy(t) /\ UNCHANGED <<row, manifest, live>>
    <3>1. (Closing(t)' = {} <=> Closing(t) = {}) /\ InWorker(t) /\ InWorker(t)'
      BY <1>5, <2>6, RecordCloses, PCNames DEF Passes, InWorker
    <3> QED  BY <1>0, <2>6, <3>1
             DEF Passes, SameCopy, UpTask, Early, Underway, EndingPCs, SettledPCs
  <2>7. CASE /\ Passes(t, "close", "record")
             /\ log'[t] = Append(log[t], "work") \/ UNCHANGED log
             /\ SameCopy(t) /\ UNCHANGED <<row, manifest, live>>
    <3>1. (Closing(t)' = {} <=> Closing(t) = {}) /\ InWorker(t) /\ InWorker(t)'
      BY <1>5, <2>7, RecordCloses, ChainStays, PCNames DEF Passes, InWorker
    <3> QED  BY <1>0, <2>7, <3>1
             DEF Passes, SameCopy, UpTask, Early, Underway, EndingPCs, SettledPCs
  <2>8. CASE Passes(t, "record", "seal") /\ log'[t] = Append(log[t], copy[t].row.status)
             /\ SameCopy(t) /\ UNCHANGED <<row, manifest, live>>
    <3>1. copy[t].row.status \in Terminal /\ copy[t].row.status \in Kinds
      BY <1>5, <2>8 DEF Passes
    <3>2. PICK s : s = copy[t].row.status
      OBVIOUS
    <3>3. LastIs(t, s)' /\ InWorker(t) /\ InWorker(t)'
      BY <2>8, <3>1, <3>2, RecordCloses, PCNames DEF Passes, InWorker
    <3>4. copy'[t].row.status = s
      BY <2>8, <3>2 DEF SameCopy
    <3>5. LastIs(t, copy[t].row.status)'
      BY <3>3, <3>4
    <3> QED  BY <1>0, <2>8, <3>1, <3>2, <3>3, <3>4, <3>5
             DEF Passes, UpTask, Early, Underway, EndingPCs, SettledPCs
  <2>9. CASE /\ Passes(t, "seal", "settle") /\ SameCopy(t) /\ UNCHANGED <<row, log, card, live>>
    <3>1. Closing(t)' = Closing(t) /\ \A s : LastIs(t, s)' <=> LastIs(t, s)
      BY <2>9, ChainStays
    <3>2. LastIs(t, copy[t].row.status) /\ copy'[t].row.status = copy[t].row.status
      BY <1>0, <2>9 DEF Passes, UpTask, SameCopy
    <3>3. LastIs(t, copy[t].row.status)' /\ InWorker(t) /\ InWorker(t)'
      BY <2>9, <3>1, <3>2, PCNames DEF Passes, InWorker
    <3> QED  BY <1>0, <2>9, <3>2, <3>3
             DEF Passes, UpTask, Early, Underway, EndingPCs, SettledPCs
  <2> QED  BY <1>1, <2>1, <2>2, <2>3, <2>4, <2>5, <2>6, <2>7, <2>8, <2>9 DEF Moves
<1>7. \A u \in Tasks : row[u].status = "delivered" => row'[u].status = "delivered"
  BY <1>1, <1>6 DEF Others
<1>8. Up'
  BY <1>0, <1>1, <1>3, <1>6 DEF Up
<1> QED  BY <1>2, <1>7, <1>8

(* The abort leaves to App what was in the worker's hands. *)
LEMMA AbortShut ==
    ASSUME TInv, Up, AppAbort
    PROVE  Up' /\ Down' /\ row' = row
<1>0. /\ runner = "up" /\ runner' = "aborted" /\ pc \in [Tasks -> PCs]
      /\ call \in [Callers -> Call] /\ App \in Callers /\ call[App] \in Call
  BY DEF AppAbort, TInv, TypeOK, WorkerTypes, Callers
<1>1. UNCHANGED <<row, log, live>>
  BY DEF AppAbort, store
<1>2. call' = [call EXCEPT ![App].pc = "pick",
                           ![App].listed = [t \in {u \in Tasks : live[u] # Absent} |-> live[t]]]
  BY DEF AppAbort
<1>3. call'[App].pc = "pick" /\ DOMAIN call'[App].listed = {u \in Tasks : live[u] # Absent}
  BY <1>0, <1>2 DEF Call
<1>4. ASSUME NEW t \in Tasks
      PROVE  /\ pc'[t] \in {"none", "over"}
             /\ pc[t] \in {"none", "fetch", "admit", "over"} \/ InWorker(t)
  <2>1. /\ pc' = [u \in Tasks |-> IF u \in {v \in Tasks : InDispatch(v)} THEN "over" ELSE pc[u]]
        /\ \A u \in {v \in Tasks : InDispatch(v)} : pc[u] \in {"fetch", "admit"} \/ InWorker(u)
    BY DEF AppAbort
  <2> QED  BY <1>0, <2>1 DEF InDispatch
<1>5. ASSUME NEW t \in Tasks PROVE DownTask(t)'
  <2>1. UpTask(t)
    BY <1>0 DEF Up
  <2>2. (Closed(t)' <=> Closed(t)) /\ Closing(t)' = Closing(t) /\ row'[t] = row[t]
    BY <1>1, ChainStays DEF Closed
  <2>3. live[t] # Absent => Untold(t)'
    BY <1>3 DEF Untold
  <2>4. CASE InWorker(t)
    <3>1. live[t] # Absent
      BY <2>1, <2>4 DEF UpTask
    <3>2. row[t].status \in Terminal => Closed(t)
      BY <2>1, <2>4, PCNames DEF UpTask, InWorker, Early, Underway, EndingPCs, SettledPCs
    <3> QED  BY <1>4, <2>2, <2>3, <3>1, <3>2 DEF DownTask
  <2>5. CASE ~InWorker(t)
    <3>1. pc[t] \in {"none", "fetch", "admit", "over"} /\ live[t] = Absent
      BY <1>4, <2>1, <2>5 DEF UpTask
    <3>2. \/ row[t].status \notin Terminal /\ Closing(t) = {}
          \/ Closed(t) /\ row[t].status \in Terminal
      BY <2>1, <3>1 DEF UpTask, Early, SettledPCs, Closed
    <3> QED  BY <1>1, <1>4, <2>2, <3>1, <3>2 DEF DownTask
  <2> QED  BY <2>4, <2>5
<1>6. Down'
  BY <1>3, <1>5 DEF Down, PastMark, CancelPCs, Writing
<1> QED  BY <1>0, <1>1, <1>6 DEF Up

LEMMA PickShut ==
    ASSUME TInv, Up, Down, AppPick
    PROVE  Up' /\ Down' /\ row' = row
<1>0. /\ call \in [Callers -> Call] /\ App \in Callers /\ call[App] \in Call
      /\ call[App].pc = "pick" /\ runner \in {"up", "aborted"}
  BY DEF AppPick, At, TInv, TypeOK, SharedTypes, Callers
<1>1. UNCHANGED <<row, log, live, pc, runner, cancelled>> /\ runner = "aborted"
  BY <1>0 DEF AppPick, store, shared, worker, Up
<1>2. \A u \in Tasks : DownTask(u)
  BY <1>1 DEF Down
<1>3. CASE call[App].listed = Nothing /\ Go(App, "down")
  <2>1. call'[App].pc = "down" /\ call'[App].listed = call[App].listed
    BY <1>0, <1>3, GoMoves
  <2>2. DOMAIN call'[App].listed = {}
    BY <1>3, <2>1 DEF Nothing
  <2>3. \A u \in Tasks : DownTask(u)'
    BY <1>0, <1>1, <1>2, <2>1, ChainStays DEF DownTask, Untold, Closed
  <2> QED  BY <1>1, <2>1, <2>2, <2>3 DEF Up, Down, PastMark, CancelPCs, Writing
<1>4. ASSUME NEW t \in DOMAIN call[App].listed,
             call' = [call EXCEPT ![App].pc = "mark", ![App].task = t,
                                  ![App].row = call[App].listed[t],
                                  ![App].listed = [u \in DOMAIN call[App].listed \ {t}
                                                     |-> call[App].listed[u]]]
      PROVE  Down'
  <2>1. /\ call'[App].pc = "mark" /\ call'[App].task = t
        /\ DOMAIN call'[App].listed = DOMAIN call[App].listed \ {t}
    BY <1>0, <1>4 DEF Call
  <2>2. ASSUME NEW u \in Tasks PROVE DownTask(u)'
    <3>1. Untold(u) => Untold(u)'
      BY <1>0, <2>1 DEF Untold
    <3> QED  BY <1>0, <1>1, <1>2, <3>1, ChainStays DEF DownTask, Closed
  <2> QED  BY <1>1, <2>1, <2>2 DEF Down, PastMark, CancelPCs, Writing
<1>5. Down'
  BY <1>3, <1>4 DEF AppPick
<1> QED  BY <1>1, <1>5 DEF Up

LEMMA PopShut ==
    ASSUME TInv, LiveInv, Up, Down, Pop
    PROVE  Up' /\ Down' /\ row' = row
<1>0. pc \in [Tasks -> PCs] /\ queue \in Seq(Tasks) /\ queue # <<>> /\ runner = "up"
  BY DEF Pop, TInv, TypeOK, WorkerTypes, SharedTypes
<1>1. UNCHANGED <<row, log, copy, live, runner, cancelled, call>>
  BY DEF Pop, store
<1>2. PICK t \in Tasks : pc[t] = "none" /\ pc' = [pc EXCEPT ![t] = "fetch"]
  <2>1. Head(queue) \in Tasks
    BY <1>0, HeadTailProperties
  <2> QED  BY <2>1 DEF Pop, Step
<1>3. ASSUME NEW u \in Tasks PROVE UpTask(u)'
  <2>1. UpTask(u)
    BY <1>0 DEF Up
  <2>2. (Closed(u)' <=> Closed(u)) /\ Closing(u)' = Closing(u)
        /\ \A s : LastIs(u, s)' <=> LastIs(u, s)
    BY <1>1, ChainStays DEF Closed
  <2>3. CASE u = t
    BY <1>0, <1>1, <1>2, <2>1, <2>2, <2>3, PCNames
       DEF UpTask, InWorker, Early, Underway, EndingPCs, SettledPCs
  <2>4. CASE u # t
    <3>1. pc'[u] = pc[u]
      BY <1>0, <1>2, <2>4
    <3> QED  BY <1>1, <2>1, <2>2, <3>1 DEF UpTask, InWorker
  <2> QED  BY <2>3, <2>4
<1> QED  BY <1>0, <1>1, <1>3 DEF Up, Down

ShutCalm == TInv /\ LiveInv /\ NobodyStuck

LEMMA NextShut ==
    ASSUME ShutCalm, Up, Down, Stoppers = {}, ~MayStick, ~MayFail, [Next]_vars
    PROVE  /\ Up' /\ Down'
           /\ \A t \in Tasks : row[t].status = "delivered" => row'[t].status = "delivered"
<1> USE DEF ShutCalm
<1>0. /\ Events \subseteq Callers \ {App} /\ Callers = Events \cup {App}
  BY LifecycleAssumption DEF Callers, LifecycleAssumption
<1>1. CASE \E e \in Events : FollowTurn(e) \/ Follow(e)
  BY <1>0, <1>1, EventMoves, HandlerShut
<1>2. ASSUME NEW c \in Callers, Cancel(c) \/ CancelWriteFails(c) PROVE c = App /\ Cancel(c)
  <2>1. Cancel(c)
    BY <1>2 DEF CancelWriteFails
  <2>2. call[c].pc \in CancelPCs \cup {"tell", "returned"}
    BY <2>1 DEF Cancel, CancelMark, CancelReread, CancelWrite, CancelRecord, CancelCard,
                CancelSeal, CancelStamp, CancelTell, At, CancelPCs
  <2> QED  BY <1>0, <2>1, <2>2 DEF NobodyStuck
<1>3. CASE \E c \in Callers : Cancel(c) \/ CancelWriteFails(c)
  BY <1>2, <1>3, AppCancels
<1>4. CASE Pop
  BY <1>4, PopShut
<1>5. CASE \E t \in Tasks : Run(t) \/ WorkerError(t)
  BY <1>5, RunShut DEF WorkerError
<1>6. CASE AppAbort \/ AppPick
  BY <1>6, AbortShut, PickShut
<1>7. CASE UNCHANGED vars
  <2>1. UNCHANGED <<pc, row, log, copy, live, runner, cancelled, call>>
    BY <1>7 DEF vars, store, shared, worker
  <2>2. \A t \in Tasks : (Closed(t)' <=> Closed(t)) /\ Closing(t)' = Closing(t)
                         /\ \A s : LastIs(t, s)' <=> LastIs(t, s)
    BY <2>1, ChainStays DEF Closed
  <2>3. \A t \in Tasks : (UpTask(t)' <=> UpTask(t)) /\ (DownTask(t)' <=> DownTask(t))
    BY <2>1, <2>2 DEF UpTask, DownTask, Untold, InWorker
  <2> QED  BY <2>1, <2>3 DEF Up, Down
<1> QED  BY <1>1, <1>3, <1>4, <1>5, <1>6, <1>7 DEF Next

(* What the abort of shutdown cuts off in the worker's hands ends with a    *)
(* closing record on its chain, in shutdowns with no stop under way, no     *)
(* stuck worker and no failing call (shutdown, run.rs).                     *)
THEOREM WhatIsCutOffIsClosed ==
    ASSUME Stoppers = {}, ~MayStick, ~MayFail
    PROVE  Spec => []StrandedIsClosed
<1>1. Init => ShutCalm /\ Up /\ Down
  BY InitTInv, InitLive, InitNobodyStuck, InitShut DEF ShutCalm
<1>2. ShutCalm /\ Up /\ Down /\ [Next]_vars => (ShutCalm /\ Up /\ Down)'
  BY NextTInv, NextLive, NobodyIsStuck, NextShut DEF ShutCalm
<1>3. ShutCalm /\ Up /\ Down => StrandedIsClosed
  <2> SUFFICES ASSUME ShutCalm, Up, Down, At(App, "down"), NEW t \in Tasks, live[t] # Absent
               PROVE  Closing(t) # {}
    BY DEF StrandedIsClosed
  <2>1. runner = "aborted" /\ call[App].pc = "down"
    BY DEF At, Up, ShutCalm, TInv, TypeOK, SharedTypes
  <2>2. ~Untold(t) /\ DownTask(t)
    BY <2>1 DEF Down, Untold
  <2> QED  BY <2>1, <2>2 DEF DownTask, Closed, LastIs
<1> QED  BY <1>1, <1>2, <1>3, PTL DEF Spec, SafeSpec

(* Under the same circumstances store and chain tell one story: a task that *)
(* is closed and left alone has the status its last closing record names    *)
(* (cancel_task_by in dispatch.rs, finish in deliver.rs).                   *)
THEOREM StoreAndChainAgree ==
    ASSUME Stoppers = {}, ~MayStick, ~MayFail
    PROVE  Spec => []Agreement
<1>1. Init => ShutCalm /\ Up /\ Down
  BY InitTInv, InitLive, InitNobodyStuck, InitShut DEF ShutCalm
<1>2. ShutCalm /\ Up /\ Down /\ [Next]_vars => (ShutCalm /\ Up /\ Down)'
  BY NextTInv, NextLive, NobodyIsStuck, NextShut DEF ShutCalm
<1>3. ShutCalm /\ Up /\ Down => Agreement
  <2> SUFFICES ASSUME ShutCalm, Up, Down, NEW t \in Tasks, Quiet(t), Closing(t) # {}
               PROVE  row[t].status = log[t][CHOOSE i \in Closing(t) : \A j \in Closing(t) : j <= i]
    BY DEF Agreement
  <2>1. Closed(t)
    <3>1. CASE runner = "up"
      BY <3>1 DEF Quiet, Up, UpTask, Early, SettledPCs
    <3>2. CASE runner = "aborted"
      <4>1. call[App].pc = "down" /\ ~Untold(t)
        BY <3>2 DEF Quiet, Down, Untold
      <4> QED  BY <3>2, <4>1 DEF Down, DownTask
    <3> QED  BY <3>1, <3>2 DEF ShutCalm, TInv, TypeOK, SharedTypes
  <2>2. PICK i \in Closing(t) : log[t][i] = row[t].status /\ \A j \in Closing(t) : j <= i
    BY <2>1 DEF Closed, LastIs
  <2>3. Closing(t) \subseteq Nat
    BY LogTypes, LenProperties DEF Closing, ShutCalm, TInv, TypeOK, StoreTypes
  <2>4. \A k \in Closing(t) : (\A j \in Closing(t) : j <= k) => k = i
    BY <2>2, <2>3
  <2> QED  BY <2>2, <2>4
<1> QED  BY <1>1, <1>2, <1>3, PTL DEF Spec, SafeSpec

(* And a delivered task stays delivered: the shutdown re-reads the row it   *)
(* is about to cancel, which may be older than the store (cancel_task_by).  *)
THEOREM DeliveredForGood ==
    ASSUME Stoppers = {}, ~MayStick, ~MayFail
    PROVE  Spec => DeliveredStays
<1>1. Init => ShutCalm /\ Up /\ Down
  BY InitTInv, InitLive, InitNobodyStuck, InitShut DEF ShutCalm
<1>2. ShutCalm /\ Up /\ Down /\ [Next]_vars => (ShutCalm /\ Up /\ Down)'
  BY NextTInv, NextLive, NobodyIsStuck, NextShut DEF ShutCalm
<1>3. ShutCalm /\ Up /\ Down /\ [Next]_vars
        => [\A t \in Tasks : row[t].status = "delivered" => row'[t].status = "delivered"]_vars
  BY NextShut
<1> QED  BY <1>1, <1>2, <1>3, PTL DEF Spec, SafeSpec, DeliveredStays
=============================================================================
