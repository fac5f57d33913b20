------------------------- MODULE SandboxLease_proof -------------------------
(***************************************************************************)
(* Proofs about SandboxLease, for any tasks, calls, containers and faults: *)
(* what is booked for a task and what works for it is its own container,   *)
(* once a task is released nothing is built for it any more, and as long as*)
(* nothing fails a task has one sandbox and a call outlives the loss of it.*)
(***************************************************************************)
EXTENDS SandboxLease, FiniteSetTheorems, TLAPS

PCs == {"idle", "look", "wait", "create", "start", "probe", "request", "working", "lost", "done"}
Results == {"none", "ok", "missing", "timeout", "sandbox", "refused", "dropped"}
CallState == [pc : PCs, id : Ids \cup {None}, dead : Ids \cup {None}, result : Results]
Container == [at : {"none", "created", "running", "gone"}, task : Tasks \cup {None}, old : BOOLEAN]
WithBox == {"start", "probe", "request", "working", "lost"}

Assumed ==
  /\ Asks \subseteq [Calls -> [task : Tasks, kind : Kind]]
  /\ MaxBoxes \in Nat /\ MaxFaults \in Nat
  /\ None \notin Ids

Types ==
  /\ ask \in Asks
  /\ registered \subseteq Tasks /\ held \subseteq Calls
  /\ booked \in [Tasks -> Ids \cup {None}] /\ closing \in [Tasks -> Ids \cup {None}]
  /\ call \in [Calls -> CallState]
  /\ box \in [Ids -> {"no", "fresh", "idle"}]
  /\ container \in [Ids -> Container]
  /\ reaper \in [pc : {"asleep", "orphans", "release"}, known : SUBSET Ids, victims : SUBSET Ids]
  /\ faults \in 0..MaxFaults

\* A container that is booked, or that a call has in hand, was made for that
\* task; and a call that has begun is of a task that is not yet released.
Booked == \A t \in Tasks : booked[t] # None =>
            /\ t \in registered
            /\ container[booked[t]].task = t /\ container[booked[t]].at # "none"
InHand == \A c \in Calls :
            /\ call[c].pc \in WithBox =>
                 /\ call[c].id \in Ids
                 /\ container[call[c].id].task = Task(c) /\ container[call[c].id].at # "none"
            /\ call[c].pc \notin {"idle", "done"} => Task(c) \in registered

\* What is to be released, and what is a box, has been made.
Real == /\ \A t \in Tasks : closing[t] # None => container[closing[t]].at # "none"
        /\ \A i \in Ids : box[i] # "no" => container[i].at # "none"
        /\ \A i \in reaper.victims : container[i].at # "none"

IInv == Types /\ Booked /\ InHand /\ Real
-----------------------------------------------------------------------------
\* A task is a task (loop.rs hands its own task_id to the gateway).
LEMMA TaskOfCall == ASSUME Assumed, Types, NEW c \in Calls PROVE Task(c) \in Tasks
  BY DEF Assumed, Types, Task

\* The records of calls and containers with some of their fields replaced.
LEMMA CallPc ==
  \A k \in CallState, p \in PCs :
    /\ [k EXCEPT !.pc = p] \in CallState /\ [k EXCEPT !.pc = p].pc = p
    /\ [k EXCEPT !.pc = p].id = k.id /\ [k EXCEPT !.pc = p].dead = k.dead
    /\ [k EXCEPT !.pc = p].result = k.result
  BY DEF CallState
LEMMA CallId ==
  \A k \in CallState, i \in Ids \cup {None} :
    /\ [k EXCEPT !.id = i] \in CallState /\ [k EXCEPT !.id = i].pc = k.pc
    /\ [k EXCEPT !.id = i].id = i /\ [k EXCEPT !.id = i].dead = k.dead
    /\ [k EXCEPT !.id = i].result = k.result
  BY DEF CallState
LEMMA CallDead ==
  \A k \in CallState, p \in PCs, i \in Ids \cup {None} :
    [k EXCEPT !.pc = p, !.dead = i] \in CallState /\ [k EXCEPT !.pc = p, !.dead = i].pc = p
  BY DEF CallState
LEMMA CallResult ==
  \A k \in CallState, p \in PCs, r \in Results :
    [k EXCEPT !.pc = p, !.result = r] \in CallState /\ [k EXCEPT !.pc = p, !.result = r].pc = p
  BY DEF CallState
LEMMA ContainerOf ==
  \A k \in Container, a \in {"none", "created", "running", "gone"}, t \in Tasks \cup {None} :
    [k EXCEPT !.at = a, !.task = t] \in Container /\ [k EXCEPT !.at = a, !.task = t].at = a
    /\ [k EXCEPT !.at = a, !.task = t].task = t
  BY DEF Container

\* One call moves; the others and the rest of its record stay.
LEMMA GoMoves ==
  ASSUME Types, NEW c \in Calls, NEW p \in PCs, Go(c, p)
  PROVE  /\ call' \in [Calls -> CallState]
         /\ call'[c].pc = p /\ call'[c].id = call[c].id
         /\ call'[c].dead = call[c].dead /\ call'[c].result = call[c].result
         /\ \A d \in Calls \ {c} : call'[d] = call[d]
<1> DEFINE k == [call[c] EXCEPT !.pc = p]
<1>1. /\ k \in CallState /\ k.pc = p /\ k.id = call[c].id
      /\ k.dead = call[c].dead /\ k.result = call[c].result
  BY CallPc DEF Types
<1>2. call' = [call EXCEPT ![c] = k]  BY DEF Go, Types
<1> HIDE DEF k
<1> QED  BY <1>1, <1>2 DEF Types

LEMMA UseMoves ==
  ASSUME Types, NEW c \in Calls, NEW i \in Ids, Use(c, i)
  PROVE  /\ call' \in [Calls -> CallState]
         /\ call'[c].pc = "request" /\ call'[c].id = i
         /\ call'[c].dead = call[c].dead /\ call'[c].result = call[c].result
         /\ \A d \in Calls \ {c} : call'[d] = call[d]
<1> DEFINE k == [call[c] EXCEPT !.pc = "request", !.id = i]
<1>1. /\ k \in CallState /\ k.pc = "request" /\ k.id = i
      /\ k.dead = call[c].dead /\ k.result = call[c].result
  <2> DEFINE h == [call[c] EXCEPT !.pc = "request"]
  <2>1. /\ h \in CallState /\ h.pc = "request"
        /\ h.dead = call[c].dead /\ h.result = call[c].result
    <3>1. call[c] \in CallState /\ "request" \in PCs  BY DEF Types, PCs
    <3> QED  BY <3>1, CallPc
  <2>2. k = [h EXCEPT !.id = i]  OBVIOUS
  <2> HIDE DEF h, k
  <2> QED  BY <2>1, <2>2, CallId
<1>2. call' = [call EXCEPT ![c] = k]  BY DEF Use, Types
<1> HIDE DEF k
<1> QED  BY <1>1, <1>2 DEF Types

LEMMA ReturnMoves ==
  ASSUME Types, NEW c \in Calls, NEW r \in Results, Return(c, r)
  PROVE  /\ call' \in [Calls -> CallState]
         /\ call'[c].pc = "done" /\ call'[c].id = call[c].id
         /\ call'[c].dead = call[c].dead /\ call'[c].result = r
         /\ \A d \in Calls \ {c} : call'[d] = call[d]
<1> DEFINE k == [call[c] EXCEPT !.pc = "done", !.result = r]
<1>1. k \in CallState /\ k.pc = "done"
  <2>1. call[c] \in CallState /\ "done" \in PCs  BY DEF Types, PCs
  <2> QED  BY <2>1, CallResult
<1>2. k.id = call[c].id /\ k.dead = call[c].dead /\ k.result = r
  BY DEF Types, CallState
<1>3. call' = [call EXCEPT ![c] = k]  BY DEF Return, Types
<1> HIDE DEF k
<1> QED  BY <1>1, <1>2, <1>3 DEF Types

\* Whatever becomes of a container, it keeps the task it was made for.
Kept == /\ container' \in [Ids -> Container]
        /\ \A i \in Ids : container[i].at # "none" =>
             container'[i].at # "none" /\ container'[i].task = container[i].task
        /\ \A i \in Ids : container[i].at = "none" /\ container'[i].at # "none" =>
             container'[i].task \in registered

LEMMA DisposeKeeps ==
  ASSUME Types, NEW i \in Ids, container[i].at # "none", Dispose(i) \/ DisposeFails(i)
  PROVE  Kept /\ box' \in [Ids -> {"no", "fresh", "idle"}]
<1>1. box' \in [Ids -> {"no", "fresh", "idle"}]  BY DEF Types, Dispose, DisposeFails
<1>2. CASE container' = container  BY <1>1, <1>2 DEF Types, Kept
<1>3. CASE Dispose(i)
  <2> DEFINE k == [container[i] EXCEPT !.at = "gone"]
  <2>1. k \in Container /\ k.at = "gone" /\ k.task = container[i].task  BY DEF Types, Container
  <2>2. container' = [container EXCEPT ![i] = k]  BY <1>3 DEF Dispose, Types
  <2> HIDE DEF k
  <2> QED  BY <1>1, <2>1, <2>2 DEF Types, Kept
<1> QED  BY <1>2, <1>3 DEF Dispose, DisposeFails
-----------------------------------------------------------------------------
LEMMA InitIInv == ASSUME Assumed PROVE Init => IInv
<1> SUFFICES ASSUME Init PROVE IInv  OBVIOUS
<1> USE DEF Init, Assumed
<1>1. Waiting \in CallState /\ Waiting.pc = "idle"  BY DEF Waiting, CallState, PCs, Results
<1>2. call \in [Calls -> CallState] /\ \A c \in Calls : call[c].pc = "idle"
  <2> HIDE DEF Waiting
  <2> QED  BY <1>1
<1>3. Types  BY <1>2 DEF Types, Container
<1> QED  BY <1>2, <1>3 DEF IInv, Booked, InHand, Real, WithBox

\* A step of one call keeps the invariant if what it books and takes in hand
\* is the container of its task.
LEMMA CallStep ==
  ASSUME Assumed, IInv, NEW c \in Calls,
         UNCHANGED <<ask, registered, closing, reaper>>, faults' \in 0..MaxFaults,
         held' \subseteq Calls,
         call' \in [Calls -> CallState], \A d \in Calls \ {c} : call'[d] = call[d],
         Kept, box' \in [Ids -> {"no", "fresh", "idle"}],
         \A i \in Ids : box'[i] # "no" => container'[i].at # "none",
         booked' \in [Tasks -> Ids \cup {None}],
         \A t \in Tasks : booked'[t] \notin {None, booked[t]} =>
            /\ t \in registered
            /\ container'[booked'[t]].task = t /\ container'[booked'[t]].at # "none",
         call'[c].pc \in WithBox =>
            /\ call'[c].id \in Ids /\ container'[call'[c].id].task = Task(c)
            /\ container'[call'[c].id].at # "none",
         call'[c].pc \notin {"idle", "done"} => Task(c) \in registered
  PROVE  IInv'
<1> USE DEF IInv
<1>1. Types'  BY DEF Types, Kept
<1>2. Booked'  BY DEF Booked, Types, Kept
<1>3. InHand'  BY DEF InHand, Task, Types, Kept
<1>4. Real'
  <2>1. \A t \in Tasks : closing'[t] # None => container'[closing'[t]].at # "none"
    BY DEF Real, Types, Kept, Assumed
  <2>2. reaper.victims \subseteq Ids  BY DEF Types
  <2> QED  BY <2>1, <2>2 DEF Real, Kept
<1> QED  BY <1>1, <1>2, <1>3, <1>4

LEMMA SameKept == ASSUME Types, UNCHANGED container PROVE Kept
  BY DEF Types, Kept
-----------------------------------------------------------------------------
\* The gateway (gateway.rs): nothing begins for a task that is released, and
\* what is booked for a task is its own.
LEMMA BeginIInv ==
  ASSUME Assumed, IInv, NEW c \in Calls, Begin(c)
  PROVE  IInv'
<1> USE DEF IInv
<1>1. Kept  BY SameKept DEF Begin, sandboxes
<1>2. CASE Task(c) \in registered /\ Go(c, "look")
  <2>1. call' \in [Calls -> CallState] /\ call'[c].pc = "look"
        /\ \A d \in Calls \ {c} : call'[d] = call[d]
    BY <1>2, GoMoves DEF PCs
  <2> QED  BY <1>1, <1>2, <2>1, CallStep DEF Begin, core, sandboxes, Types, Real, WithBox
<1>3. CASE Return(c, "refused")
  <2>1. call' \in [Calls -> CallState] /\ call'[c].pc = "done"
        /\ \A d \in Calls \ {c} : call'[d] = call[d]
    BY <1>3, ReturnMoves DEF Results
  <2> QED  BY <1>1, <2>1, CallStep DEF Begin, core, sandboxes, Types, Real, WithBox
<1> QED  BY <1>2, <1>3 DEF Begin

LEMMA LookUpIInv ==
  ASSUME Assumed, IInv, NEW c \in Calls, LookUp(c)
  PROVE  IInv'
<1> USE DEF IInv
<1>1. Kept  BY SameKept DEF LookUp, sandboxes
<1>2. Task(c) \in Tasks /\ Task(c) \in registered
  BY TaskOfCall DEF LookUp, At, InHand
<1>3. CASE booked[Task(c)] # None /\ Use(c, booked[Task(c)])
  <2>1. call' \in [Calls -> CallState] /\ call'[c].id = booked[Task(c)]
        /\ \A d \in Calls \ {c} : call'[d] = call[d]
    BY <1>2, <1>3, UseMoves DEF Types
  <2>2. container'[booked[Task(c)]].task = Task(c) /\ container'[booked[Task(c)]].at # "none"
    BY <1>2, <1>3 DEF Booked, LookUp, sandboxes
  <2>3. booked[Task(c)] \in Ids  BY <1>2, <1>3 DEF Types
  <2> QED
    BY <1>1, <1>2, <2>1, <2>2, <2>3, CallStep DEF LookUp, core, sandboxes, Types, Real
<1>4. CASE Go(c, "wait")
  <2>1. call' \in [Calls -> CallState] /\ call'[c].pc = "wait"
        /\ \A d \in Calls \ {c} : call'[d] = call[d]
    BY <1>4, GoMoves DEF PCs
  <2> QED  BY <1>1, <1>2, <2>1, CallStep DEF LookUp, core, sandboxes, Types, Real, WithBox
<1>5. CASE Return(c, "ok") \/ Return(c, "missing")
  <2>1. call' \in [Calls -> CallState] /\ call'[c].pc = "done"
        /\ \A d \in Calls \ {c} : call'[d] = call[d]
    BY <1>5, ReturnMoves DEF Results
  <2> QED  BY <1>1, <2>1, CallStep DEF LookUp, core, sandboxes, Types, Real, WithBox
<1> QED  BY <1>3, <1>4, <1>5 DEF LookUp

LEMMA TakeLockIInv ==
  ASSUME Assumed, IInv, NEW c \in Calls, TakeLock(c)
  PROVE  IInv'
<1> USE DEF IInv
<1>1. Kept  BY SameKept DEF TakeLock, sandboxes
<1>2. Task(c) \in Tasks /\ Task(c) \in registered
  BY TaskOfCall DEF TakeLock, At, InHand
<1>3. CASE booked[Task(c)] # None
  <2>1. Use(c, booked[Task(c)]) /\ held' = held  BY <1>3 DEF TakeLock
  <2>2. call' \in [Calls -> CallState] /\ call'[c].id = booked[Task(c)]
        /\ \A d \in Calls \ {c} : call'[d] = call[d]
    BY <1>2, <1>3, <2>1, UseMoves DEF Types
  <2>3. container'[booked[Task(c)]].task = Task(c) /\ container'[booked[Task(c)]].at # "none"
    BY <1>2, <1>3 DEF Booked, TakeLock, sandboxes
  <2>4. booked[Task(c)] \in Ids  BY <1>2, <1>3 DEF Types
  <2> QED
    BY <1>1, <1>2, <2>1, <2>2, <2>3, <2>4, CallStep DEF TakeLock, sandboxes, Types, Real
<1>4. CASE booked[Task(c)] = None
  <2>1. Go(c, "create") /\ held' = held \cup {c}  BY <1>4 DEF TakeLock
  <2>2. call' \in [Calls -> CallState] /\ call'[c].pc = "create"
        /\ \A d \in Calls \ {c} : call'[d] = call[d]
    BY <2>1, GoMoves DEF PCs
  <2> QED  BY <1>1, <1>2, <2>1, <2>2, CallStep DEF TakeLock, sandboxes, Types, Real, WithBox
<1> QED  BY <1>3, <1>4

\* Docker.Acquire: the container carries the label of the task (docker.go).
LEMMA CreateIInv ==
  ASSUME Assumed, IInv, NEW c \in Calls, Create(c)
  PROVE  IInv' /\ Kept
<1> USE DEF IInv
<1>1. Task(c) \in Tasks /\ Task(c) \in registered
  BY TaskOfCall DEF Create, At, InHand
<1>2. PICK i \in Ids :
        /\ container[i].at = "none"
        /\ container' = [container EXCEPT ![i].at = "created", ![i].task = Task(c)]
        /\ call' = [call EXCEPT ![c].pc = "start", ![c].id = i]
  BY DEF Create
<1> DEFINE k == [container[i] EXCEPT !.at = "created", !.task = Task(c)]
           l == [call[c] EXCEPT !.pc = "start", !.id = i]
<1>3. k \in Container /\ k.at = "created" /\ k.task = Task(c)
  <2>1. container[i] \in Container  BY DEF Types
  <2> QED  BY <1>1, <2>1, ContainerOf
<1>4. l \in CallState /\ l.pc = "start" /\ l.id = i
  <2> DEFINE h == [call[c] EXCEPT !.pc = "start"]
  <2>1. h \in CallState /\ h.pc = "start"
    <3>1. call[c] \in CallState /\ "start" \in PCs  BY DEF Types, PCs
    <3> QED  BY <3>1, CallPc
  <2>2. l = [h EXCEPT !.id = i]  OBVIOUS
  <2> HIDE DEF h, l
  <2> QED  BY <2>1, <2>2, CallId
<1>5. container' = [container EXCEPT ![i] = k] /\ call' = [call EXCEPT ![c] = l]
  BY <1>2 DEF Types
<1> HIDE DEF k, l
<1>6. Kept /\ container'[i].task = Task(c) /\ container'[i].at # "none"
  <2>1. container'[i] = k /\ \A j \in Ids \ {i} : container'[j] = container[j]
    BY <1>5 DEF Types
  <2>2. container' \in [Ids -> Container]  BY <1>3, <1>5 DEF Types
  <2> QED  BY <1>1, <1>2, <1>3, <2>1, <2>2 DEF Kept
<1>7. call' \in [Calls -> CallState] /\ call'[c].pc = "start" /\ call'[c].id = i
      /\ \A d \in Calls \ {c} : call'[d] = call[d]
  BY <1>4, <1>5 DEF Types
<1>8. \A j \in Ids : box'[j] # "no" => container'[j].at # "none"
  BY <1>6 DEF Real, Kept, Create
<1> QED  BY <1>1, <1>6, <1>7, <1>8, CallStep DEF Create, core, Types

LEMMA StartIInv ==
  ASSUME Assumed, IInv, NEW c \in Calls, Start(c)
  PROVE  IInv' /\ Kept
<1> USE DEF IInv
<1> DEFINE i == call[c].id
<1>1. i \in Ids /\ container[i].task = Task(c) /\ container[i].at # "none" /\ Task(c) \in registered
  BY DEF Start, At, InHand, WithBox
<1> DEFINE k == [container[i] EXCEPT !.at = "running"]
<1>2. k \in Container /\ k.at = "running" /\ k.task = Task(c)  BY <1>1 DEF Types, Container
<1>3. container' = [container EXCEPT ![i] = k]  BY <1>1 DEF Start, Types
<1> HIDE DEF k
<1>4. Kept /\ container'[i].task = Task(c) /\ container'[i].at # "none"
  BY <1>1, <1>2, <1>3 DEF Types, Kept
<1>5. call' \in [Calls -> CallState] /\ call'[c].pc = "probe" /\ call'[c].id = i
      /\ \A d \in Calls \ {c} : call'[d] = call[d]
  BY GoMoves DEF Start, PCs
<1>6. box' \in [Ids -> {"no", "fresh", "idle"}]
      /\ \A j \in Ids : box'[j] # "no" => container'[j].at # "none"
  BY <1>1, <1>4 DEF Real, Kept, Start, Types
<1> QED  BY <1>1, <1>4, <1>5, <1>6, CallStep DEF Start, core, Types

LEMMA ProbeIInv ==
  ASSUME Assumed, IInv, NEW c \in Calls, Probe(c)
  PROVE  IInv'
<1> USE DEF IInv
<1> DEFINE i == call[c].id
<1>1. i \in Ids /\ container[i].task = Task(c) /\ container[i].at # "none"
      /\ Task(c) \in registered /\ Task(c) \in Tasks
  BY TaskOfCall DEF Probe, At, InHand, WithBox
<1>2. Kept  BY SameKept DEF Probe, sandboxes
<1>3. call' \in [Calls -> CallState] /\ call'[c].pc = "request" /\ call'[c].id = i
      /\ \A d \in Calls \ {c} : call'[d] = call[d]
  BY GoMoves DEF Probe, PCs
<1>4. booked' = [booked EXCEPT ![Task(c)] = i]  BY DEF Probe
<1>5. booked' \in [Tasks -> Ids \cup {None}]  BY <1>1, <1>4 DEF Types
<1>6. \A t \in Tasks : booked'[t] \notin {None, booked[t]} => t = Task(c) /\ booked'[t] = i
  BY <1>1, <1>4 DEF Types
<1> QED
  BY <1>1, <1>2, <1>3, <1>5, <1>6, CallStep DEF Probe, sandboxes, Types, Real

LEMMA RequestIInv ==
  ASSUME Assumed, IInv, NEW c \in Calls, Request(c)
  PROVE  IInv'
<1> USE DEF IInv
<1> DEFINE p == IF box[call[c].id] = "no" THEN "lost" ELSE "working"
<1>1. /\ call[c].id \in Ids /\ container[call[c].id].task = Task(c)
      /\ container[call[c].id].at # "none" /\ Task(c) \in registered
  BY DEF Request, At, InHand, WithBox
<1>2. Kept  BY SameKept DEF Request, sandboxes
<1>3. p \in PCs /\ p \in WithBox /\ Go(c, p)  BY DEF Request, PCs, WithBox
<1> HIDE DEF p
<1>4. call' \in [Calls -> CallState] /\ call'[c].id = call[c].id
      /\ \A d \in Calls \ {c} : call'[d] = call[d]
  BY <1>3, GoMoves
<1> QED  BY <1>1, <1>2, <1>4, CallStep DEF Request, core, sandboxes, Types, Real

LEMMA WorkIInv ==
  ASSUME Assumed, IInv, NEW c \in Calls, Work(c)
  PROVE  IInv'
<1> USE DEF IInv
<1>1. Kept  BY SameKept DEF Work
<1>2. call[c].id \in Ids /\ container[call[c].id].at # "none"
  BY DEF Work, At, InHand, WithBox
<1>3. call' \in [Calls -> CallState] /\ call'[c].pc = "done"
      /\ \A d \in Calls \ {c} : call'[d] = call[d]
  BY ReturnMoves DEF Work, Results
<1>4. box' \in [Ids -> {"no", "fresh", "idle"}]
      /\ \A j \in Ids : box'[j] # "no" => container'[j].at # "none"
  BY <1>2 DEF Real, Work, Types
<1> QED  BY <1>1, <1>3, <1>4, CallStep DEF Work, core, Types, WithBox

LEMMA WorkFindsNothingIInv ==
  ASSUME Assumed, IInv, NEW c \in Calls, WorkFindsNothing(c)
  PROVE  IInv'
<1> USE DEF IInv
<1>1. Kept  BY SameKept DEF WorkFindsNothing
<1>2. /\ call[c].id \in Ids /\ container[call[c].id].task = Task(c)
      /\ container[call[c].id].at # "none" /\ Task(c) \in registered
  BY DEF WorkFindsNothing, At, InHand, WithBox
<1>3. call' \in [Calls -> CallState] /\ \A d \in Calls \ {c} : call'[d] = call[d]
  BY GoMoves, ReturnMoves DEF WorkFindsNothing, PCs, Results
<1>4. call'[c].pc # "done" => call'[c].id = call[c].id
  BY GoMoves, ReturnMoves DEF WorkFindsNothing, PCs, Results
<1>5. box' \in [Ids -> {"no", "fresh", "idle"}]
      /\ \A j \in Ids : box'[j] # "no" => container'[j].at # "none"
  BY <1>2 DEF Real, WorkFindsNothing, Types
<1> QED  BY <1>1, <1>2, <1>3, <1>4, <1>5, CallStep DEF WorkFindsNothing, core, Types, WithBox

LEMMA RequestFailsIInv ==
  ASSUME Assumed, IInv, NEW c \in Calls, RequestFails(c)
  PROVE  IInv'
<1> USE DEF IInv
<1>1. Kept  BY SameKept DEF RequestFails, sandboxes
<1>2. call' \in [Calls -> CallState] /\ call'[c].pc = "done"
      /\ \A d \in Calls \ {c} : call'[d] = call[d]
  BY ReturnMoves DEF RequestFails, Results
<1>3. faults' \in 0..MaxFaults  BY DEF RequestFails, Fault, Types, Assumed
<1> QED  BY <1>1, <1>2, <1>3, CallStep DEF RequestFails, core, sandboxes, Types, Real, WithBox

LEMMA AcquireFailsIInv ==
  ASSUME Assumed, IInv, NEW c \in Calls, AcquireFails(c)
  PROVE  IInv' /\ Kept
<1> USE DEF IInv
<1>1. Kept /\ box' \in [Ids -> {"no", "fresh", "idle"}]
      /\ \A j \in Ids : box'[j] # "no" => container'[j].at # "none"
  <2>1. CASE UNCHANGED sandboxes
    BY <2>1, SameKept DEF sandboxes, Types, Real
  <2>2. CASE ~At(c, "create")
    <3>1. call[c].id \in Ids /\ container[call[c].id].at # "none"
      BY <2>2 DEF AcquireFails, At, InHand, WithBox
    <3>2. Dispose(call[c].id) \/ DisposeFails(call[c].id)  BY <2>2 DEF AcquireFails
    <3>3. \A j \in Ids : box'[j] # "no" => box[j] # "no"
      BY <3>1, <3>2 DEF Dispose, DisposeFails, Types
    <3>4. Kept /\ box' \in [Ids -> {"no", "fresh", "idle"}]  BY <3>1, <3>2, DisposeKeeps
    <3> QED  BY <3>3, <3>4 DEF Real, Kept
  <2> QED  BY <2>1, <2>2 DEF AcquireFails
<1>2. call' \in [Calls -> CallState] /\ call'[c].pc = "done"
      /\ \A d \in Calls \ {c} : call'[d] = call[d]
  BY ReturnMoves DEF AcquireFails, Results
<1>3. faults' \in 0..MaxFaults /\ held' \subseteq Calls
  BY DEF AcquireFails, Fault, Types, Assumed
<1> QED  BY <1>1, <1>2, <1>3, CallStep DEF AcquireFails, Types, WithBox

LEMMA LostIInv ==
  ASSUME Assumed, IInv, NEW c \in Calls, Lost(c)
  PROVE  IInv'
<1> USE DEF IInv
<1>1. Kept  BY SameKept DEF Lost, sandboxes
<1>2. Task(c) \in Tasks /\ Task(c) \in registered /\ call[c].id \in Ids
  BY TaskOfCall DEF Lost, At, InHand, WithBox
<1>3. booked' \in [Tasks -> Ids \cup {None}] /\ \A t \in Tasks : booked'[t] \in {None, booked[t]}
  BY <1>2 DEF Lost, Types
<1>4. CASE call' = [call EXCEPT ![c].pc = "look", ![c].dead = call[c].id]
  <2> DEFINE k == [call[c] EXCEPT !.pc = "look", !.dead = call[c].id]
  <2>1. k \in CallState /\ k.pc = "look"
    <3>1. call[c] \in CallState /\ "look" \in PCs  BY DEF Types, PCs
    <3> QED  BY <1>2, <3>1, CallDead
  <2>2. call' = [call EXCEPT ![c] = k]  BY <1>4 DEF Types
  <2> HIDE DEF k
  <2>3. call' \in [Calls -> CallState] /\ call'[c].pc = "look"
        /\ \A d \in Calls \ {c} : call'[d] = call[d]
    BY <2>1, <2>2 DEF Types
  <2> QED  BY <1>1, <1>2, <1>3, <2>3, CallStep DEF Lost, sandboxes, Types, Real, WithBox
<1>5. CASE \E r \in Results : Return(c, r)
  <2>1. call' \in [Calls -> CallState] /\ call'[c].pc = "done"
        /\ \A d \in Calls \ {c} : call'[d] = call[d]
    BY <1>5, ReturnMoves
  <2> QED  BY <1>1, <1>3, <2>1, CallStep DEF Lost, sandboxes, Types, Real, WithBox
<1> QED  BY <1>4, <1>5 DEF Lost, Results

LEMMA DropIInv ==
  ASSUME Assumed, IInv, NEW c \in Calls, Drop(c)
  PROVE  IInv'
<1> USE DEF IInv
<1>1. Kept  BY SameKept DEF Drop
<1>2. call' \in [Calls -> CallState] /\ call'[c].pc = "done"
      /\ \A d \in Calls \ {c} : call'[d] = call[d]
  BY ReturnMoves DEF Drop, Results
<1>3. box' \in [Ids -> {"no", "fresh", "idle"}]
      /\ \A j \in Ids : box'[j] # "no" => container'[j].at # "none"
  BY DEF Real, Drop, Types
<1>4. held' \subseteq Calls  BY DEF Drop, Types
<1> QED  BY <1>1, <1>2, <1>3, <1>4, CallStep DEF Drop, Types, WithBox
-----------------------------------------------------------------------------
\* A step of the reaper, of a release or of time leaves calls and bookings.
LEMMA BoxStep ==
  ASSUME Assumed, IInv, UNCHANGED <<ask, core, call>>, Kept,
         faults' \in 0..MaxFaults, closing' \in [Tasks -> Ids \cup {None}],
         \A t \in Tasks : closing'[t] \in {None, closing[t]},
         box' \in [Ids -> {"no", "fresh", "idle"}],
         \A i \in Ids : box'[i] # "no" => box[i] # "no",
         reaper' \in [pc : {"asleep", "orphans", "release"}, known : SUBSET Ids,
                      victims : SUBSET Ids],
         \A i \in reaper'.victims : container[i].at # "none"
  PROVE  IInv'
<1> USE DEF IInv
<1>1. Types'  BY DEF Types, Kept, core
<1>2. Booked'  BY DEF Booked, Types, Kept, core
<1>3. InHand'  BY DEF InHand, Task, Types, Kept, core
<1>4. Real'
  <2>1. \A t \in Tasks : closing'[t] # None => container'[closing'[t]].at # "none"
    BY DEF Real, Types, Kept, Assumed
  <2>2. reaper'.victims \subseteq Ids  OBVIOUS
  <2> QED  BY <2>1, <2>2 DEF Real, Kept
<1> QED  BY <1>1, <1>2, <1>3, <1>4

\* release_task (gateway.rs): it takes the booking with it.
LEMMA ReleaseTaskIInv ==
  ASSUME Assumed, IInv, NEW t \in Tasks, ReleaseTask(t)
  PROVE  IInv'
<1> USE DEF IInv, ReleaseTask, sandboxes
<1>1. Types'  BY DEF Types
<1>2. Booked'  BY DEF Booked, Types
<1>3. InHand'  BY DEF InHand, Task, Types
<1>4. Real'
  <2>1. \A u \in Tasks : closing'[u] # None => container[closing'[u]].at # "none"
    BY DEF Real, Booked, Types
  <2> QED  BY <2>1 DEF Real
<1> QED  BY <1>1, <1>2, <1>3, <1>4

LEMMA ReleaseIInv ==
  ASSUME Assumed, IInv, NEW t \in Tasks, Release(t)
  PROVE  IInv' /\ Kept
<1> USE DEF IInv
<1>1. closing[t] \in Ids /\ container[closing[t]].at # "none"
  BY DEF Release, Types, Real
<1>2. Kept /\ box' \in [Ids -> {"no", "fresh", "idle"}]
      /\ \A j \in Ids : box'[j] # "no" => box[j] # "no"
  <2>1. CASE UNCHANGED sandboxes  BY <2>1, SameKept DEF sandboxes, Types
  <2>2. CASE Dispose(closing[t]) \/ DisposeFails(closing[t])
    <3>1. \A j \in Ids : box'[j] # "no" => box[j] # "no"
      BY <1>1, <2>2 DEF Dispose, DisposeFails, Types
    <3> QED  BY <1>1, <2>2, <3>1, DisposeKeeps
  <2> QED  BY <2>1, <2>2 DEF Release
<1>3. faults' \in 0..MaxFaults  BY DEF Release, Fault, Types, Assumed
<1>4. closing' \in [Tasks -> Ids \cup {None}] /\ \A u \in Tasks : closing'[u] \in {None, closing[u]}
  BY DEF Release, Types
<1> QED  BY <1>2, <1>3, <1>4, BoxStep DEF Release, Types, Real

\* ReapIdle (docker.go): what it removes has been made.
LEMMA ReaperIInv ==
  ASSUME Assumed, IInv, Reaper
  PROVE  IInv' /\ Kept
<1> USE DEF IInv
<1>1. CASE ReapBoxes
  <2>1. Kept  BY <1>1, SameKept DEF ReapBoxes, sandboxes
  <2>2. \A j \in Ids : box[j] = "idle" => container[j].at # "none"  BY DEF Real
  <2> QED  BY <1>1, <2>1, <2>2, BoxStep DEF ReapBoxes, Reap, sandboxes, Types
<1>2. CASE ReapOrphans
  <2>1. Kept  BY <1>2, SameKept DEF ReapOrphans, sandboxes
  <2>2. \A i \in Orphans : i \in Ids /\ container[i].at # "none"  BY DEF Orphans, Exists
  <2>3. reaper' \in [pc : {"asleep", "orphans", "release"}, known : SUBSET Ids,
                     victims : SUBSET Ids]
        /\ reaper'.victims \subseteq reaper.victims \cup Orphans
    <3>1. Orphans \subseteq Ids  BY <2>2
    <3>2. \E V \in {reaper.victims, reaper.victims \cup Orphans} :
            reaper' = [reaper EXCEPT !.pc = "release", !.victims = V]
      <4>1. CASE Reap([reaper EXCEPT !.pc = "release", !.victims = @ \cup Orphans])
        BY <4>1 DEF Reap
      <4>2. CASE Reap([reaper EXCEPT !.pc = "release"])
        <5>1. reaper' = [reaper EXCEPT !.pc = "release", !.victims = reaper.victims]
          BY <4>2 DEF Reap, Types
        <5> QED  BY <5>1
      <4> QED  BY <1>2, <4>1, <4>2 DEF ReapOrphans
    <3>3. PICK V \in {reaper.victims, reaper.victims \cup Orphans} :
            reaper' = [reaper EXCEPT !.pc = "release", !.victims = V]
      BY <3>2
    <3> QED  BY <3>1, <3>3 DEF Types
  <2>4. faults' \in 0..MaxFaults  BY <1>2 DEF ReapOrphans, Fault, Types, Assumed
  <2> QED  BY <1>2, <2>1, <2>2, <2>3, <2>4, BoxStep DEF ReapOrphans, sandboxes, Types, Real
<1>3. CASE ReapOne
  <2>1. PICK i \in reaper.victims :
          /\ Reap([reaper EXCEPT !.victims = @ \ {i}])
          /\ \/ Dispose(i) /\ UNCHANGED faults
             \/ DisposeFails(i) /\ Fault
    BY <1>3 DEF ReapOne
  <2>2. i \in Ids /\ container[i].at # "none"  BY DEF Types, Real
  <2>3. Kept /\ box' \in [Ids -> {"no", "fresh", "idle"}]  BY <2>1, <2>2, DisposeKeeps
  <2>4. \A j \in Ids : box'[j] # "no" => box[j] # "no"
    BY <2>1, <2>2 DEF Dispose, DisposeFails, Types
  <2>5. reaper' \in [pc : {"asleep", "orphans", "release"}, known : SUBSET Ids,
                     victims : SUBSET Ids]
        /\ reaper'.victims \subseteq reaper.victims
    BY <2>1 DEF Reap, Types
  <2>6. faults' \in 0..MaxFaults  BY <2>1 DEF Fault, Types, Assumed
  <2> QED  BY <1>3, <2>3, <2>4, <2>5, <2>6, BoxStep DEF ReapOne, Types, Real
<1>4. CASE ReapEnds
  <2>1. Kept  BY <1>4, SameKept DEF ReapEnds, sandboxes
  <2> QED  BY <1>4, <2>1, BoxStep DEF ReapEnds, Reap, sandboxes, Types
<1> QED  BY <1>1, <1>2, <1>3, <1>4 DEF Reaper

LEMMA AgeIInv ==
  ASSUME Assumed, IInv, NEW i \in Ids, Age(i)
  PROVE  IInv' /\ Kept
<1> USE DEF IInv
<1> DEFINE k == [container[i] EXCEPT !.old = TRUE]
<1>1. k \in Container /\ k.at = container[i].at /\ k.task = container[i].task
  BY DEF Types, Container
<1>2. container' = [container EXCEPT ![i] = k]  BY DEF Age, Types
<1> HIDE DEF k
<1>3. Kept  BY <1>1, <1>2 DEF Types, Kept
<1>4. box' \in [Ids -> {"no", "fresh", "idle"}] /\ \A j \in Ids : box'[j] # "no" => box[j] # "no"
  BY DEF Age, Types
<1> QED  BY <1>3, <1>4, BoxStep DEF Age, Types, Real

\* Edge restarts: its boxes are gone, its requests have failed; the bookings
\* of core stay as they are.
LEMMA RestartIInv ==
  ASSUME Assumed, IInv, NEW kept \in SUBSET Ids, Restart(kept)
  PROVE  IInv' /\ Kept
<1> USE DEF IInv
<1>1. Kept
  <2>1. \A i \in Ids : [container[i] EXCEPT !.at = "gone"] \in Container
        /\ [container[i] EXCEPT !.at = "gone"].task = container[i].task
        /\ [container[i] EXCEPT !.at = "gone"].at = "gone"
    BY DEF Types, Container
  <2>2. \A i \in Ids : box[i] # "no" => container[i].at # "none"  BY DEF Real
  <2>3. \A i \in Ids : \/ container'[i] = container[i]
                       \/ box[i] # "no" /\ container'[i] = [container[i] EXCEPT !.at = "gone"]
    BY DEF Restart
  <2>4. container' \in [Ids -> Container]  BY <2>1 DEF Restart, Types
  <2> QED  BY <2>1, <2>2, <2>3, <2>4 DEF Kept
<1>2. /\ call' \in [Calls -> CallState]
      /\ \A c \in Calls : call'[c] = call[c] \/ call'[c].pc = "done"
  <2>1. \A c \in Calls : [call[c] EXCEPT !.pc = "done", !.result = "sandbox"] \in CallState
        /\ [call[c] EXCEPT !.pc = "done", !.result = "sandbox"].pc = "done"
    <3>1. "done" \in PCs /\ "sandbox" \in Results /\ \A c \in Calls : call[c] \in CallState
      BY DEF PCs, Results, Types
    <3> QED  BY <3>1, CallResult
  <2> DEFINE F == {c \in Calls : call[c].pc \in {"create", "start", "probe", "working"}}
             k == [c \in Calls |-> [call[c] EXCEPT !.pc = "done", !.result = "sandbox"]]
  <2>2. call' = [c \in Calls |-> IF c \in F THEN k[c] ELSE call[c]]
    <3>1. call' = [c \in Calls |-> IF c \in F
                     THEN [call[c] EXCEPT !.pc = "done", !.result = "sandbox"] ELSE call[c]]
      BY Zenon DEF Restart
    <3> QED  BY <3>1
  <2>3. \A c \in Calls : k[c] \in CallState /\ k[c].pc = "done"  BY <2>1
  <2> HIDE DEF k, F
  <2> QED  BY <2>2, <2>3 DEF Types
<1>3. /\ box' \in [Ids -> {"no", "fresh", "idle"}] /\ \A i \in Ids : box'[i] = "no"
      /\ closing' \in [Tasks -> Ids \cup {None}] /\ \A t \in Tasks : closing'[t] = None
      /\ held' \subseteq Calls /\ faults' \in 0..MaxFaults
      /\ UNCHANGED <<ask, registered, booked>>
      /\ reaper' = [pc |-> "asleep", known |-> {}, victims |-> {}]
  <2>1. /\ box' = [i \in Ids |-> "no"] /\ closing' = [t \in Tasks |-> None]
        /\ \E F \in SUBSET Calls : held' = held \ F
        /\ UNCHANGED <<ask, registered, booked>>
        /\ reaper' = [pc |-> "asleep", known |-> {}, victims |-> {}]
    <3>1. held' \in {held \ F : F \in SUBSET Calls}  BY DEF Restart
    <3>2. \E F \in SUBSET Calls : held' = held \ F  BY <3>1
    <3> QED  BY <3>2 DEF Restart, Reap
  <2>2. faults' \in 0..MaxFaults
    <3>1. Fault /\ faults \in 0..MaxFaults  BY DEF Restart, Types
    <3> QED  BY <3>1 DEF Fault, Assumed
  <2> QED  BY <2>1, <2>2 DEF Types
<1>4. Types'  BY <1>1, <1>2, <1>3 DEF Types, Kept
<1>5. Booked'  BY <1>1, <1>3 DEF Booked, Types, Kept
<1>6. InHand'  BY <1>1, <1>2, <1>3 DEF InHand, Task, Types, Kept, WithBox
<1>7. Real'  BY <1>3 DEF Real
<1> QED  BY <1>1, <1>4, <1>5, <1>6, <1>7
-----------------------------------------------------------------------------
LEMMA StepIInv ==
  ASSUME Assumed, IInv, [Next]_vars
  PROVE  IInv' /\ Kept
<1>1. CASE UNCHANGED vars
  <2>1. IInv'
    BY <1>1 DEF vars, core, sandboxes, IInv, Types, Booked, InHand, Real, Task
  <2> QED  BY <1>1, <2>1, SameKept DEF vars, sandboxes, IInv
<1>2. ASSUME NEW c \in Calls, Step(c) PROVE IInv' /\ Kept
  <2>1. CASE UNCHANGED container
    <3>1. Kept  BY <2>1, SameKept DEF IInv
    <3> QED
      BY <1>2, <3>1, BeginIInv, LookUpIInv, TakeLockIInv, CreateIInv, StartIInv, ProbeIInv,
         AcquireFailsIInv, RequestIInv, WorkIInv, WorkFindsNothingIInv, RequestFailsIInv,
         LostIInv, DropIInv DEF Step
  <2>2. CASE container' # container
    <3>1. Create(c) \/ Start(c) \/ AcquireFails(c)
      BY <1>2, <2>2 DEF Step, Begin, LookUp, TakeLock, Probe, Request, Work, WorkFindsNothing,
                        RequestFails, Lost, Drop, sandboxes
    <3> QED  BY <3>1, CreateIInv, StartIInv, AcquireFailsIInv
  <2> QED  BY <2>1, <2>2
<1>3. ASSUME NEW t \in Tasks, ReleaseTask(t) PROVE IInv' /\ Kept
  BY <1>3, ReleaseTaskIInv, SameKept DEF ReleaseTask, sandboxes, IInv
<1>4. ASSUME NEW t \in Tasks, Release(t) PROVE IInv' /\ Kept  BY <1>4, ReleaseIInv
<1>5. CASE Reaper  BY <1>5, ReaperIInv
<1>6. ASSUME NEW i \in Ids, Age(i) PROVE IInv' /\ Kept  BY <1>6, AgeIInv
<1>7. ASSUME NEW kept \in SUBSET Ids, Restart(kept) PROVE IInv' /\ Kept  BY <1>7, RestartIInv
<1> QED  BY <1>1, <1>2, <1>3, <1>4, <1>5, <1>6, <1>7 DEF Next

LEMMA Invariance == ASSUME Assumed PROVE Spec => []IInv
<1>1. Init => IInv  BY InitIInv
<1>2. IInv /\ [Next]_vars => IInv'  BY StepIInv
<1> QED  BY <1>1, <1>2, PTL DEF Spec

LEMMA IInvOwnContainer == IInv => OwnContainer
  BY DEF IInv, Booked, InHand, OwnContainer, At, WithBox

\* Whatever is dropped, fails, ages or restarts, the sandbox that is booked for
\* a task, and the one its code runs in, was made for that task and no other,
\* and nothing is booked for a task that release_task has ended (gateway.rs).
THEOREM EachItsOwn == ASSUME Assumed PROVE Spec => []OwnContainer
<1>1. IInv => OwnContainer  BY IInvOwnContainer
<1> QED  BY <1>1, Invariance, PTL

\* Once release_task has taken the token of a task, no container is made for
\* it any more: a call that was under way is over by then, and none begins
\* (gateway.rs call, release_task).
THEOREM NothingBuiltAfterRelease == ASSUME Assumed PROVE Spec => ReleasedForGood
<1>1. IInv /\ [Next]_vars =>
        [\A i \in Ids : container[i].at = "none" /\ container'[i].at # "none"
           => container'[i].task \in registered]_vars
  BY StepIInv DEF Kept
<1> QED  BY <1>1, Invariance, PTL DEF Spec, ReleasedForGood
-----------------------------------------------------------------------------
\* The acquire locks: who has one, and one per task.  A result is the last word.
Locks == /\ \A c \in Calls : c \in held <=> call[c].pc \in {"create", "start", "probe"}
         /\ \A c, d \in held : Task(c) = Task(d) => c = d
         /\ \A c \in Calls : call[c].result # "none" => call[c].pc = "done"

\* Nobody else has to do with a container that a call is starting.
Starting(c) == call[c].pc \in {"start", "probe"}
Fresh == \A c \in Calls : Starting(c) =>
           /\ container[call[c].id].at = (IF call[c].pc = "start" THEN "created" ELSE "running")
           /\ box[call[c].id] = (IF call[c].pc = "start" THEN "no" ELSE "fresh")
           /\ ~container[call[c].id].old /\ call[c].id \notin reaper.victims
           /\ \A t \in Tasks : closing[t] # call[c].id /\ booked[t] # call[c].id
           /\ \A d \in Calls \ {c} : call[d].pc \in WithBox => call[d].id # call[c].id

\* A sandbox that has been handed over has been running, and has its box for as
\* long as it does.
HandedOver(i) == /\ container[i].at \in {"running", "gone"}
                 /\ container[i].at = "running" => box[i] # "no"

\* As long as nothing has failed, what a call has found dead is gone, and the
\* call does not come across it again.
Spared(c) ==
  /\ call[c].pc \in {"request", "working", "lost"} => HandedOver(call[c].id)
  /\ call[c].pc = "lost" => container[call[c].id].at = "gone"
  /\ call[c].dead # None =>
       /\ container[call[c].dead].at = "gone"
       /\ booked[Task(c)] # call[c].dead
       /\ call[c].pc \in WithBox => call[c].id # call[c].dead
  /\ call[c].result = "sandbox" =>
       /\ call[c].id # None /\ container[call[c].id].at = "gone"
       /\ call[c].dead # None /\ call[c].dead # call[c].id
Unharmed == faults = 0 => /\ \A t \in Tasks : booked[t] # None => HandedOver(booked[t])
                          /\ \A c \in Calls : Spared(c)

\* As long as nothing has been dropped or removed either, a container is the
\* only one of its task, and booked, or being started, or left over.
Clean == /\ faults = 0 /\ \A i \in Ids : container[i].at # "gone"
         /\ \A c \in Calls : call[c].result # "dropped"
Made(i) == container[i].at # "none"
Alone == Clean =>
  /\ \A i, j \in Ids : Made(i) /\ Made(j) /\ container[i].task = container[j].task => i = j
  /\ \A c \in Calls, i \in Ids :
       call[c].pc = "create" /\ Made(i) => container[i].task # Task(c)
  /\ \A i \in Ids : Made(i) =>
       \/ booked[container[i].task] = i \/ container[i].task \notin registered
       \/ \E c \in Calls : Starting(c) /\ call[c].id = i
Blank == \A i \in Ids : ~Made(i) => container[i].task = None /\ ~container[i].old

JInv == IInv /\ Locks /\ Fresh /\ Unharmed /\ Alone /\ Blank

LEMMA InitJInv == ASSUME Assumed PROVE Init => JInv
<1> SUFFICES ASSUME Init PROVE JInv  OBVIOUS
<1>1. IInv  BY InitIInv
<1>2. /\ \A c \in Calls : /\ call[c].pc = "idle" /\ call[c].result = "none"
                          /\ call[c].dead = None
      /\ \A i \in Ids : container[i].at = "none" /\ container[i].task = None
                        /\ container[i].old = FALSE
      /\ \A t \in Tasks : booked[t] = None
      /\ held = {}
  BY DEF Init, Waiting
<1>3. Locks /\ Fresh /\ Unharmed /\ Alone /\ Blank
  BY <1>2 DEF Locks, Fresh, Starting, Unharmed, Spared, Alone, Blank, Made
<1> QED  BY <1>1, <1>3 DEF JInv
-----------------------------------------------------------------------------
\* A call that does not hold its lock goes on: it uses what is booked or what
\* it had in hand, and may find out that this is dead and forget it.
LEMMA QuietCall ==
  ASSUME Assumed, JInv, IInv', NEW c \in Calls,
         UNCHANGED <<ask, registered, held, closing, container, reaper>>,
         faults' \in Nat, faults' >= faults,
         \A d \in Calls \ {c} : call'[d] = call[d],
         call[c].pc \notin {"create", "start", "probe", "done"},
         call'[c].pc \notin {"create", "start", "probe"},
         call'[c].result # "none" => call'[c].pc = "done",
         \A i \in Ids : \/ box'[i] = box[i]
                        \/ box[i] = "idle" /\ box'[i] = "fresh"
                        \/ i = call[c].id /\ ~Exists(i),
         \A t \in Tasks : booked'[t] \in {booked[t], None},
         booked' = booked \/ (faults = 0 => call[c].pc = "lost"),
         call'[c].pc \in WithBox => \/ call'[c].id = booked[Task(c)] /\ booked[Task(c)] # None
                                    \/ call'[c].id = call[c].id
                                       /\ call[c].pc \in {"request", "working", "lost"},
         faults' = 0 /\ call'[c].pc = "lost" => container[call'[c].id].at = "gone",
         \/ call'[c].dead = call[c].dead
         \/ call[c].pc = "lost" /\ call'[c].dead = call[c].id /\ call'[c].pc = "look"
              /\ booked'[Task(c)] = None,
         faults' = 0 /\ call'[c].result = "sandbox" =>
            /\ call[c].pc = "lost" /\ call[c].dead # None
            /\ call'[c].id = call[c].id /\ call'[c].dead = call[c].dead
  PROVE  JInv'
<1> USE DEF JInv
<1>0. /\ \A d \in Calls : Task(d)' = Task(d) /\ Task(d) \in Tasks
      /\ faults \in Nat /\ faults' \in Nat /\ call[c].result = "none"
      /\ \A d \in Calls : call[d].pc \in WithBox => call[d].id \in Ids
      /\ \A t \in Tasks : booked[t] # None => booked[t] \in Ids
      /\ None \notin Ids /\ held \subseteq Calls
  BY TaskOfCall DEF IInv, Types, Task, Locks, InHand, Assumed
<1>1. Locks'
  <2>1. \A d \in Calls : d \in held <=> call'[d].pc \in {"create", "start", "probe"}
    BY DEF Locks
  <2>2. \A d \in Calls : call'[d].result # "none" => call'[d].pc = "done"  BY DEF Locks
  <2>3. \A d, e \in held : Task(d)' = Task(e)' => d = e  BY <1>0 DEF Locks
  <2> QED  BY <2>1, <2>2, <2>3 DEF Locks
<1>2. Fresh'
  <2> SUFFICES ASSUME NEW d \in Calls, Starting(d)'
               PROVE  /\ container[call[d].id].at = (IF call[d].pc = "start" THEN "created" ELSE "running")
                      /\ box'[call[d].id] = (IF call[d].pc = "start" THEN "no" ELSE "fresh")
                      /\ ~container[call[d].id].old /\ call[d].id \notin reaper.victims
                      /\ call[d] = call'[d]
                      /\ \A t \in Tasks : closing[t] # call[d].id /\ booked'[t] # call[d].id
                      /\ \A e \in Calls \ {d} : call'[e].pc \in WithBox => call'[e].id # call[d].id
    BY DEF Fresh
  <2>1. d # c /\ call'[d] = call[d] /\ Starting(d) /\ call[d].id \in Ids
    BY <1>0 DEF Starting, WithBox
  <2>2. /\ container[call[d].id].at = (IF call[d].pc = "start" THEN "created" ELSE "running")
        /\ box[call[d].id] = (IF call[d].pc = "start" THEN "no" ELSE "fresh")
        /\ ~container[call[d].id].old /\ call[d].id \notin reaper.victims
        /\ \A t \in Tasks : closing[t] # call[d].id /\ booked[t] # call[d].id
        /\ \A e \in Calls \ {d} : call[e].pc \in WithBox => call[e].id # call[d].id
    BY <2>1 DEF Fresh
  <2>3. box'[call[d].id] = box[call[d].id]
    BY <2>1, <2>2 DEF Exists, Starting
  <2>4. \A t \in Tasks : booked'[t] # call[d].id  BY <1>0, <2>1, <2>2
  <2>5. \A e \in Calls \ {d} : call'[e].pc \in WithBox => call'[e].id # call[d].id
    BY <1>0, <2>1, <2>2 DEF WithBox
  <2> QED  BY <2>1, <2>2, <2>3, <2>4, <2>5
<1>3. Unharmed'
  <2> SUFFICES ASSUME faults' = 0
               PROVE  /\ \A t \in Tasks : booked'[t] # None => HandedOver(booked[t])'
                      /\ \A d \in Calls : Spared(d)'
    BY <1>0 DEF Unharmed, HandedOver
  <2>1. faults = 0  BY <1>0
  <2>2. \A i \in Ids : HandedOver(i) => HandedOver(i)'
    BY DEF HandedOver, Exists, IInv, Types, Container
  <2>3. \A t \in Tasks : booked'[t] # None => booked'[t] = booked[t] /\ HandedOver(booked[t])'
    BY <1>0, <2>1, <2>2 DEF Unharmed
  <2>4. ASSUME NEW d \in Calls \ {c} PROVE Spared(d)'
    <3>1. Spared(d) /\ call'[d] = call[d]  BY <2>1 DEF Unharmed
    <3>2. booked'[Task(d)] \in {booked[Task(d)], None} /\ Task(d)' = Task(d)  BY <1>0
    <3> QED  BY <1>0, <2>2, <3>1, <3>2 DEF Spared, WithBox
  <2>5. Spared(c)'
    <3>1. Spared(c)  BY <2>1 DEF Unharmed
    <3>2. call'[c].pc \in WithBox => \E i \in Ids : i = call'[c].id /\ HandedOver(i)'
      BY <1>0, <2>1, <2>2, <3>1 DEF Spared, Unharmed, WithBox
    <3>3. call'[c].dead # None =>
            /\ container[call'[c].dead].at = "gone"
            /\ booked'[Task(c)] # call'[c].dead
            /\ call'[c].pc \in WithBox => call'[c].id # call'[c].dead
      BY <1>0, <3>1 DEF Spared, WithBox
    <3>4. call'[c].result = "sandbox" =>
            /\ call'[c].id # None /\ container[call'[c].id].at = "gone"
            /\ call'[c].dead # None /\ call'[c].dead # call'[c].id
      BY <1>0, <3>1 DEF Spared, WithBox
    <3> QED  BY <1>0, <3>2, <3>3, <3>4 DEF Spared, WithBox, HandedOver
  <2> QED  BY <2>3, <2>4, <2>5
<1>4. Alone'
  <2> SUFFICES ASSUME Clean' PROVE Alone'  BY DEF Alone
  <2>1. Clean  BY <1>0 DEF Clean
  <2>2. booked' = booked
    BY <1>0, <2>1 DEF Clean, Unharmed, Spared, WithBox
  <2> QED  BY <1>0, <2>1, <2>2 DEF Alone, Made, Starting
<1>5. Blank'  BY DEF Blank, Made
<1> QED  BY <1>1, <1>2, <1>3, <1>4, <1>5

LEMMA QuietCalls ==
  ASSUME Assumed, JInv, IInv', NEW c \in Calls,
         \/ Begin(c) \/ LookUp(c) \/ (TakeLock(c) /\ held' = held) \/ Request(c) \/ Work(c)
         \/ WorkFindsNothing(c) \/ RequestFails(c)
  PROVE  JInv'
<1> USE DEF JInv
<1>0. /\ Types /\ faults \in Nat /\ Task(c) \in Tasks
      /\ booked[Task(c)] \in Ids \cup {None}
      /\ call[c].pc # "done" => call[c].result = "none"
      /\ call[c].pc \in WithBox => call[c].id \in Ids
  BY TaskOfCall DEF IInv, Types, Locks, InHand, Assumed
<1>g. ASSUME NEW p \in PCs, Go(c, p)
      PROVE  /\ call'[c].pc = p /\ call'[c].id = call[c].id
             /\ call'[c].dead = call[c].dead /\ call'[c].result = call[c].result
             /\ \A d \in Calls \ {c} : call'[d] = call[d]
  BY <1>0, <1>g, GoMoves
<1>r. ASSUME NEW r \in Results, Return(c, r)
      PROVE  /\ call'[c].pc = "done" /\ call'[c].id = call[c].id
             /\ call'[c].dead = call[c].dead /\ call'[c].result = r
             /\ \A d \in Calls \ {c} : call'[d] = call[d]
  BY <1>0, <1>r, ReturnMoves
<1>u. ASSUME booked[Task(c)] # None, Use(c, booked[Task(c)])
      PROVE  /\ call'[c].pc = "request" /\ call'[c].id = booked[Task(c)]
             /\ call'[c].dead = call[c].dead /\ call'[c].result = call[c].result
             /\ \A d \in Calls \ {c} : call'[d] = call[d]
  BY <1>0, <1>u, UseMoves
<1>1. CASE Begin(c)
  BY <1>0, <1>1, <1>g, <1>r, QuietCall DEF Begin, At, core, sandboxes, PCs, Results, WithBox
<1>2. CASE LookUp(c)
  BY <1>0, <1>2, <1>g, <1>r, <1>u, QuietCall DEF LookUp, At, core, sandboxes, PCs, Results, WithBox
<1>3. CASE TakeLock(c) /\ held' = held
  <2>1. booked[Task(c)] # None /\ Use(c, booked[Task(c)])
    <3>1. c \notin held  BY <1>3 DEF TakeLock, At, Locks
    <3> QED  BY <1>3, <3>1 DEF TakeLock
  <2> QED  BY <1>0, <1>3, <2>1, <1>u, QuietCall DEF TakeLock, At, sandboxes, WithBox
<1>4. CASE Request(c)
  <2>1. PICK p \in {"lost", "working"} : Go(c, p) /\ (p = "lost" => box[call[c].id] = "no")
    BY <1>4 DEF Request
  <2>2. faults = 0 /\ p = "lost" => container[call[c].id].at = "gone"
    BY <1>4, <2>1 DEF Request, At, Unharmed, Spared, HandedOver
  <2> QED  BY <1>0, <1>4, <2>1, <2>2, <1>g, QuietCall DEF Request, At, core, sandboxes, PCs, WithBox
<1>5. CASE Work(c)
  <2>1. PICK r \in {"ok", "timeout", "missing"} : Return(c, r)  BY <1>5 DEF Work
  <2>2. \A i \in Ids : box'[i] = box[i] \/ (box[i] = "idle" /\ box'[i] = "fresh")
    BY <1>0, <1>5 DEF Work, Types
  <2> QED  BY <1>0, <1>5, <2>1, <2>2, <1>r, QuietCall DEF Work, At, core, Results, WithBox
<1>6. CASE WorkFindsNothing(c)
  <2>1. \A i \in Ids : box'[i] = box[i] \/ (i = call[c].id /\ ~Exists(i))
    BY <1>0, <1>6 DEF WorkFindsNothing, Types
  <2>2. faults = 0 => container[call[c].id].at = "gone"
    BY <1>6 DEF WorkFindsNothing, At, Unharmed, Spared, HandedOver, Exists
  <2>3. Go(c, "lost") \/ Return(c, "missing")  BY <1>6 DEF WorkFindsNothing
  <2> QED
    BY <1>0, <1>6, <2>1, <2>2, <2>3, <1>g, <1>r, QuietCall
       DEF WorkFindsNothing, At, core, PCs, Results, WithBox
<1>7. CASE RequestFails(c)
  <2>1. PICK r \in {"missing", "sandbox"} : Return(c, r)  BY <1>7 DEF RequestFails
  <2>2. faults' = faults + 1  BY <1>7 DEF RequestFails, Fault
  <2> QED  BY <1>0, <1>7, <2>1, <2>2, <1>r, QuietCall DEF RequestFails, core, sandboxes, Results, WithBox
<1> QED  BY <1>1, <1>2, <1>3, <1>4, <1>5, <1>6, <1>7

LEMMA LostJInv ==
  ASSUME Assumed, JInv, IInv', NEW c \in Calls, Lost(c)
  PROVE  JInv'
<1> USE DEF JInv
<1>0. /\ Types /\ faults \in Nat /\ Task(c) \in Tasks /\ call[c].pc = "lost"
      /\ call[c].result = "none" /\ call[c].id \in Ids
  BY TaskOfCall DEF IInv, Types, Locks, InHand, Assumed, Lost, At, WithBox
<1>1. \A t \in Tasks : booked'[t] \in {booked[t], None}  BY <1>0 DEF Lost, Types
<1>2. CASE call' = [call EXCEPT ![c].pc = "look", ![c].dead = call[c].id]
           /\ booked' = [booked EXCEPT ![Task(c)] = None]
  <2> DEFINE k == [call[c] EXCEPT !.pc = "look", !.dead = call[c].id]
  <2>1. k.pc = "look" /\ k.dead = call[c].id /\ k.result = "none"
    BY <1>0 DEF Types, CallState
  <2>2. call' = [call EXCEPT ![c] = k]  BY <1>0, <1>2 DEF Types
  <2> HIDE DEF k
  <2>3. call'[c] = k /\ \A d \in Calls \ {c} : call'[d] = call[d]  BY <1>0, <2>2 DEF Types
  <2>4. booked'[Task(c)] = None  BY <1>0, <1>2 DEF Types
  <2> QED  BY <1>0, <1>1, <2>1, <2>3, <2>4, QuietCall DEF Lost, sandboxes, WithBox
<1>3. CASE \E r \in {"ok", "sandbox", "missing"} :
             Return(c, r) /\ (r = "sandbox" => call[c].dead # None)
  <2>1. PICK r \in {"ok", "sandbox", "missing"} :
          Return(c, r) /\ (r = "sandbox" => call[c].dead # None)
    BY <1>3
  <2>2. /\ call'[c].pc = "done" /\ call'[c].id = call[c].id
        /\ call'[c].dead = call[c].dead /\ call'[c].result = r
        /\ \A d \in Calls \ {c} : call'[d] = call[d]
    BY <1>0, <2>1, ReturnMoves DEF Results
  <2> QED  BY <1>0, <1>1, <2>1, <2>2, QuietCall DEF Lost, sandboxes, WithBox
<1> QED  BY <1>2, <1>3 DEF Lost

\* What every step of a call needs to know of the state before it.
LEMMA Facts ==
  ASSUME Assumed, JInv
  PROVE  /\ Types /\ faults \in Nat /\ None \notin Ids /\ held \subseteq Calls
         /\ \A d \in Calls : /\ Task(d) \in Tasks
                             /\ call[d].pc # "done" => call[d].result = "none"
                             /\ call[d].pc \in WithBox =>
                                  /\ call[d].id \in Ids /\ Made(call[d].id)
                                  /\ container[call[d].id].task = Task(d)
                             /\ call[d].pc \notin {"idle", "done"} => Task(d) \in registered
                             /\ call[d].dead \in Ids \cup {None} /\ call[d].id \in Ids \cup {None}
         /\ \A t \in Tasks : /\ booked[t] # None =>
                                  /\ booked[t] \in Ids /\ Made(booked[t])
                                  /\ container[booked[t]].task = t
                             /\ closing[t] # None => closing[t] \in Ids /\ Made(closing[t])
         /\ \A i \in Ids : /\ container[i].at \in {"none", "created", "running", "gone"}
                           /\ box[i] # "no" => Made(i)
         /\ \A i \in reaper.victims : i \in Ids /\ Made(i)
<1>1. Types /\ Booked /\ InHand /\ Real /\ Locks  BY DEF JInv, IInv
<1>2. faults \in Nat /\ None \notin Ids /\ held \subseteq Calls  BY <1>1 DEF Types, Assumed
<1>3. \A d \in Calls : Task(d) \in Tasks  BY <1>1, TaskOfCall
<1>4. \A d \in Calls : call[d].dead \in Ids \cup {None} /\ call[d].id \in Ids \cup {None}
  BY <1>1 DEF Types, CallState
<1>5. \A d \in Calls : call[d].pc # "done" => call[d].result = "none"  BY <1>1 DEF Locks
<1>6. \A i \in Ids : container[i].at \in {"none", "created", "running", "gone"}
  BY <1>1 DEF Types, Container
<1>7. \A t \in Tasks : /\ booked[t] # None => booked[t] \in Ids
                       /\ closing[t] # None => closing[t] \in Ids
  BY <1>1 DEF Types
<1>8. \A i \in reaper.victims : i \in Ids  BY <1>1 DEF Types
<1> QED  BY <1>1, <1>2, <1>3, <1>4, <1>5, <1>6, <1>7, <1>8 DEF Booked, InHand, Real, Made

\* Under the lock nothing is booked, so that nobody has made one yet.
LEMMA LockJInv ==
  ASSUME Assumed, JInv, NEW c \in Calls, TakeLock(c), held' # held
  PROVE  JInv'
<1> USE DEF JInv
<1>0. IInv'  BY TakeLockIInv
<1>1. /\ At(c, "wait") /\ ~Locked(c) /\ booked[Task(c)] = None
      /\ held' = held \cup {c} /\ Go(c, "create")
      /\ UNCHANGED <<ask, registered, booked, closing, container, box, reaper, faults>>
  BY DEF TakeLock, sandboxes
<1>2. /\ call'[c].pc = "create" /\ call'[c].id = call[c].id
      /\ call'[c].dead = call[c].dead /\ call'[c].result = call[c].result
      /\ \A d \in Calls \ {c} : call'[d] = call[d]
  BY <1>1, Facts, GoMoves DEF PCs
<1>3. \A d \in Calls : Task(d)' = Task(d)  BY <1>1 DEF Task
<1>4. Locks'
  <2>1. \A d \in Calls : d \in held' <=> call'[d].pc \in {"create", "start", "probe"}
    BY <1>1, <1>2 DEF Locks
  <2>2. \A d \in Calls : call'[d].result # "none" => call'[d].pc = "done"
    BY <1>1, <1>2, Facts DEF Locks, At
  <2>3. \A d, e \in held' : Task(d)' = Task(e)' => d = e
    BY <1>1, <1>3, Facts DEF Locks, Locked
  <2> QED  BY <2>1, <2>2, <2>3 DEF Locks
<1>5. Fresh'
  BY <1>1, <1>2 DEF Fresh, Starting, WithBox
<1>6. Unharmed'
  <2>1. ASSUME faults = 0, NEW d \in Calls PROVE Spared(d)'
    <3>1. Spared(d) /\ Task(d)' = Task(d)  BY <1>3, <2>1 DEF Unharmed
    <3> QED  BY <1>1, <1>2, <3>1, Facts DEF Spared, HandedOver, WithBox, At
  <2> QED  BY <1>1, <2>1 DEF Unharmed, HandedOver
<1>7. Alone'
  <2> SUFFICES ASSUME Clean' PROVE Alone'  BY DEF Alone
  <2>1. Clean  BY <1>1, <1>2 DEF Clean
  <2>2. ASSUME NEW i \in Ids, Made(i) PROVE container[i].task # Task(c)
    <3> SUFFICES ASSUME container[i].task = Task(c) PROVE FALSE  OBVIOUS
    <3>1. Task(c) \in registered /\ Task(c) \in Tasks  BY <1>1, Facts DEF At
    <3>2. PICK d \in Calls : Starting(d) /\ call[d].id = i
      BY <1>1, <2>1, <2>2, <3>1, Facts DEF Alone
    <3>3. d \in held /\ Task(d) = Task(c)
      BY <3>2, Facts DEF Locks, Starting, WithBox
    <3> QED  BY <1>1, <3>3 DEF Locked
  <2>3. \A d \in Calls : Starting(d) => Starting(d)' /\ call'[d] = call[d]
    BY <1>1, <1>2 DEF Starting, At
  <2>4. \A d \in Calls, i \in Ids :
          call'[d].pc = "create" /\ Made(i) => container[i].task # Task(d)
    BY <1>2, <2>1, <2>2 DEF Alone
  <2> QED  BY <1>1, <1>3, <2>1, <2>3, <2>4 DEF Alone, Made
<1>8. Blank'  BY <1>1 DEF Blank, Made
<1> QED  BY <1>0, <1>4, <1>5, <1>6, <1>7, <1>8

LEMMA CreateJInv ==
  ASSUME Assumed, JInv, NEW c \in Calls, Create(c)
  PROVE  JInv'
<1> USE DEF JInv
<1>0. IInv'  BY CreateIInv
<1>1. PICK i \in Ids :
        /\ container[i].at = "none"
        /\ container' = [container EXCEPT ![i].at = "created", ![i].task = Task(c)]
        /\ call' = [call EXCEPT ![c].pc = "start", ![c].id = i]
  BY DEF Create
<1>2. /\ At(c, "create") /\ UNCHANGED <<ask, registered, booked, held, closing, box, reaper, faults>>
  BY DEF Create, core
<1>3. /\ call'[c].pc = "start" /\ call'[c].id = i
      /\ call'[c].dead = call[c].dead /\ call'[c].result = call[c].result
      /\ \A d \in Calls \ {c} : call'[d] = call[d]
  <2> DEFINE k == [call[c] EXCEPT !.pc = "start", !.id = i]
  <2>1. /\ k.pc = "start" /\ k.id = i /\ k.dead = call[c].dead /\ k.result = call[c].result
    BY Facts DEF Types, CallState
  <2>2. call' = [call EXCEPT ![c] = k]  BY <1>1, Facts DEF Types
  <2> HIDE DEF k
  <2> QED  BY <2>1, <2>2, Facts DEF Types
<1>4. /\ container'[i].at = "created" /\ container'[i].task = Task(c)
      /\ container'[i].old = container[i].old
      /\ \A j \in Ids \ {i} : container'[j] = container[j]
  <2> DEFINE k == [container[i] EXCEPT !.at = "created", !.task = Task(c)]
  <2>1. k.at = "created" /\ k.task = Task(c) /\ k.old = container[i].old
    BY Facts DEF Types, Container
  <2>2. container' = [container EXCEPT ![i] = k]  BY <1>1, Facts DEF Types
  <2> HIDE DEF k
  <2> QED  BY <2>1, <2>2, Facts DEF Types
<1>5. \A d \in Calls : Task(d)' = Task(d)  BY <1>2 DEF Task
<1>6. ~Made(i) /\ i # None  BY <1>1, Facts DEF Made
<1>7. Locks'
  <2>1. \A d \in Calls : d \in held' <=> call'[d].pc \in {"create", "start", "probe"}
    BY <1>2, <1>3 DEF Locks, At
  <2>2. \A d \in Calls : call'[d].result # "none" => call'[d].pc = "done"
    BY <1>2, <1>3, Facts DEF Locks, At
  <2>3. \A d, e \in held' : Task(d)' = Task(e)' => d = e
    BY <1>2, <1>5, Facts DEF Locks
  <2> QED  BY <2>1, <2>2, <2>3 DEF Locks
<1>8. Fresh'
  <2>1. /\ box[i] = "no" /\ ~container[i].old /\ i \notin reaper.victims
        /\ \A t \in Tasks : closing[t] # i /\ booked[t] # i
        /\ \A d \in Calls : call[d].pc \in WithBox => call[d].id # i
    BY <1>6, Facts DEF Blank
  <2>2. ASSUME NEW d \in Calls \ {c}, Starting(d)
        PROVE  /\ container'[call[d].id] = container[call[d].id]
               /\ call'[c].id # call[d].id
    BY <1>3, <1>4, <2>1, <2>2, Facts DEF Starting, WithBox
  <2>3. \A d \in Calls \ {c} : Starting(d)' <=> Starting(d)  BY <1>3 DEF Starting
  <2> QED  BY <1>2, <1>3, <1>4, <2>1, <2>2, <2>3 DEF Fresh, Starting
<1>9. Unharmed'
  <2>1. \A j \in Ids : Made(j) => container'[j] = container[j]  BY <1>4, <1>6
  <2>2. ASSUME faults = 0, NEW d \in Calls PROVE Spared(d)'
    <3>1. Spared(d) /\ Task(d)' = Task(d)  BY <1>5, <2>2 DEF Unharmed
    <3>2. CASE d = c
      <4>1. call[c].dead # None => call[c].dead # i  BY <1>1, <3>1, <3>2 DEF Spared
      <4> QED
        BY <1>2, <1>3, <2>1, <3>1, <3>2, <4>1, Facts DEF Spared, HandedOver, WithBox, At, Made
    <3>3. CASE d # c
      <4>1. call'[d] = call[d]  BY <1>3, <3>3
      <4> QED  BY <1>2, <2>1, <3>1, <4>1, Facts DEF Spared, HandedOver, WithBox, Made
    <3> QED  BY <3>2, <3>3
  <2>3. ASSUME faults = 0, NEW t \in Tasks, booked[t] # None
        PROVE  \E j \in Ids : j = booked[t] /\ container'[j] = container[j] /\ HandedOver(j)
    BY <2>1, <2>3, Facts DEF Unharmed
  <2> QED  BY <1>2, <2>2, <2>3 DEF Unharmed, HandedOver
<1>10. Alone'
  <2> SUFFICES ASSUME Clean' PROVE Alone'  BY DEF Alone
  <2>1. Clean  BY <1>1, <1>2, <1>3, <1>4 DEF Clean
  <2>2. \A j \in Ids : Made(j) => container[j].task # Task(c)
    BY <1>2, <2>1 DEF Alone, At
  <2>3. \A j \in Ids : Made(j)' <=> Made(j) \/ j = i  BY <1>4 DEF Made
  <2>4. \A j, k \in Ids : Made(j)' /\ Made(k)' /\ container'[j].task = container'[k].task => j = k
    BY <1>4, <2>1, <2>2, <2>3 DEF Alone
  <2>5. ASSUME NEW d \in Calls, NEW j \in Ids, call'[d].pc = "create", Made(j)'
        PROVE  container'[j].task # Task(d)
    <3>1. d # c /\ call[d].pc = "create"  BY <1>3, <2>5
    <3>2. Task(d) # Task(c)  BY <1>2, <3>1 DEF Locks, At
    <3> QED  BY <1>4, <2>1, <2>3, <2>5, <3>1, <3>2 DEF Alone
  <2>6. ASSUME NEW j \in Ids, Made(j)'
        PROVE  \/ booked[container'[j].task] = j \/ container'[j].task \notin registered
               \/ \E d \in Calls : Starting(d)' /\ call'[d].id = j
    <3>1. CASE j = i  BY <1>3, <3>1 DEF Starting
    <3>2. CASE j # i
      <4>1. \/ booked[container[j].task] = j \/ container[j].task \notin registered
            \/ \E d \in Calls : Starting(d) /\ call[d].id = j
        BY <2>1, <2>3, <2>6, <3>2 DEF Alone
      <4>2. \A d \in Calls : Starting(d) => d # c  BY <1>2 DEF Starting, At
      <4> QED  BY <1>3, <1>4, <3>2, <4>1, <4>2 DEF Starting
    <3> QED  BY <3>1, <3>2
  <2> QED  BY <1>2, <1>5, <2>4, <2>5, <2>6 DEF Alone
<1>11. Blank'  BY <1>4 DEF Blank, Made
<1> QED  BY <1>0, <1>7, <1>8, <1>9, <1>10, <1>11

LEMMA StartJInv ==
  ASSUME Assumed, JInv, NEW c \in Calls, Start(c)
  PROVE  JInv'
<1> USE DEF JInv
<1> DEFINE i == call[c].id
<1>0. IInv'  BY StartIInv
<1>1. /\ At(c, "start") /\ Go(c, "probe") /\ i \in Ids /\ Made(i) /\ i # None
      /\ UNCHANGED <<ask, registered, booked, held, closing, reaper, faults>>
  BY Facts DEF Start, core, At, WithBox
<1>2. /\ call'[c].pc = "probe" /\ call'[c].id = i
      /\ call'[c].dead = call[c].dead /\ call'[c].result = call[c].result
      /\ \A d \in Calls \ {c} : call'[d] = call[d]
  BY <1>1, Facts, GoMoves DEF PCs
<1>3. /\ container'[i].at = "running" /\ container'[i].task = container[i].task
      /\ container'[i].old = container[i].old
      /\ \A j \in Ids \ {i} : container'[j] = container[j]
  <2> DEFINE k == [container[i] EXCEPT !.at = "running"]
  <2>1. k.at = "running" /\ k.task = container[i].task /\ k.old = container[i].old
    BY <1>1, Facts DEF Types, Container
  <2>2. container' = [container EXCEPT ![i] = k]  BY <1>1, Facts DEF Types, Start
  <2> HIDE DEF k
  <2> QED  BY <1>1, <2>1, <2>2, Facts DEF Types
<1>4. box'[i] = "fresh" /\ \A j \in Ids \ {i} : box'[j] = box[j]
  BY <1>1, Facts DEF Types, Start
<1>5. \A d \in Calls : Task(d)' = Task(d)  BY <1>1 DEF Task
<1>6. /\ container[i].at = "created" /\ ~container[i].old /\ i \notin reaper.victims
      /\ \A t \in Tasks : closing[t] # i /\ booked[t] # i
      /\ \A d \in Calls \ {c} : call[d].pc \in WithBox => call[d].id # i
  BY <1>1 DEF Fresh, Starting, At
<1> HIDE DEF i
<1>7. Locks'
  <2>1. \A d \in Calls : d \in held' <=> call'[d].pc \in {"create", "start", "probe"}
    BY <1>1, <1>2 DEF Locks, At
  <2>2. \A d \in Calls : call'[d].result # "none" => call'[d].pc = "done"
    BY <1>1, <1>2, Facts DEF Locks, At
  <2>3. \A d, e \in held' : Task(d)' = Task(e)' => d = e
    BY <1>1, <1>5, Facts DEF Locks
  <2> QED  BY <2>1, <2>2, <2>3 DEF Locks
<1>8. Fresh'
  <2>1. ASSUME NEW d \in Calls \ {c}, Starting(d)
        PROVE  call[d].id \in Ids \ {i} /\ call'[d] = call[d]
    BY <1>2, <1>6, <2>1, Facts DEF Starting, WithBox
  <2>2. \A d \in Calls \ {c} : Starting(d)' <=> Starting(d)  BY <1>2 DEF Starting
  <2> QED  BY <1>1, <1>2, <1>3, <1>4, <1>6, <2>1, <2>2 DEF Fresh, Starting, At, WithBox
<1>9. Unharmed'
  <2>1. \A j \in Ids \ {i} : HandedOver(j)' <=> HandedOver(j)  BY <1>3, <1>4 DEF HandedOver
  <2>2. ASSUME faults = 0, NEW d \in Calls PROVE Spared(d)'
    <3>1. Spared(d) /\ Task(d)' = Task(d)  BY <1>5, <2>2 DEF Unharmed
    <3>2. /\ call'[d].dead = call[d].dead /\ call'[d].id = call[d].id
          /\ call'[d].result = call[d].result
          /\ d # c => call'[d] = call[d]
      BY <1>2 DEF i
    <3>3. call[d].dead # None => call[d].dead \in Ids \ {i}  BY <1>6, <3>1, Facts DEF Spared
    <3>4. call[d].result = "sandbox" => call[d].id \in Ids \ {i}
      BY <1>6, <3>1, Facts DEF Spared
    <3>5. d # c /\ call[d].pc \in {"request", "working", "lost"} => call[d].id \in Ids \ {i}
      BY <1>6, Facts DEF WithBox
    <3>6. call'[c].pc = "probe" /\ call[c].pc = "start"  BY <1>1, <1>2 DEF At
    <3> QED
      BY <1>1, <1>3, <1>4, <3>1, <3>2, <3>3, <3>4, <3>5, <3>6 DEF Spared, HandedOver, WithBox
  <2>3. ASSUME faults = 0, NEW t \in Tasks, booked[t] # None PROVE HandedOver(booked[t])'
    <3>1. booked[t] \in Ids \ {i} /\ HandedOver(booked[t])
      BY <1>6, <2>3, Facts DEF Unharmed
    <3> QED  BY <1>1, <1>3, <1>4, <3>1 DEF HandedOver
  <2> QED  BY <1>1, <2>2, <2>3 DEF Unharmed, HandedOver
<1>10. Alone'
  <2> SUFFICES ASSUME Clean' PROVE Alone'  BY DEF Alone
  <2>1. Clean  BY <1>1, <1>2, <1>3, <1>6 DEF Clean
  <2>2. \A j \in Ids : (Made(j)' <=> Made(j)) /\ container'[j].task = container[j].task
    BY <1>1, <1>3 DEF Made
  <2>3. \A d \in Calls : /\ Starting(d)' <=> Starting(d)
                         /\ call'[d].id = call[d].id
                         /\ call'[d].pc = "create" <=> call[d].pc = "create"
    BY <1>1, <1>2 DEF Starting, At, i
  <2> QED  BY <1>1, <1>5, <2>1, <2>2, <2>3 DEF Alone
<1>11. Blank'  BY <1>1, <1>3 DEF Blank, Made
<1> QED  BY <1>0, <1>7, <1>8, <1>9, <1>10, <1>11

LEMMA ProbeJInv ==
  ASSUME Assumed, JInv, NEW c \in Calls, Probe(c)
  PROVE  JInv'
<1> USE DEF JInv
<1> DEFINE i == call[c].id
           t == Task(c)
<1>0. IInv'  BY ProbeIInv
<1>1. /\ At(c, "probe") /\ Go(c, "request") /\ i \in Ids /\ Made(i) /\ i # None /\ t \in Tasks
      /\ container[i].task = t
      /\ UNCHANGED <<ask, registered, closing, box, container, reaper, faults>>
      /\ held' = held \ {c}
  BY Facts DEF Probe, sandboxes, At, WithBox
<1>2. /\ call'[c].pc = "request" /\ call'[c].id = i
      /\ call'[c].dead = call[c].dead /\ call'[c].result = call[c].result
      /\ \A d \in Calls \ {c} : call'[d] = call[d]
  BY <1>1, Facts, GoMoves DEF PCs
<1>3. booked'[t] = i /\ \A u \in Tasks \ {t} : booked'[u] = booked[u]
  BY <1>1, Facts DEF Probe, Types
<1>5. \A d \in Calls : Task(d)' = Task(d) /\ Task(d) \in Tasks  BY <1>1, Facts DEF Task
<1>6. /\ container[i].at = "running" /\ box[i] = "fresh"
      /\ \A d \in Calls \ {c} : call[d].pc \in WithBox => call[d].id # i
  BY <1>1 DEF Fresh, Starting, At
<1> HIDE DEF i, t
<1>7. Locks'
  <2>1. \A d \in Calls : d \in held' <=> call'[d].pc \in {"create", "start", "probe"}
    BY <1>1, <1>2 DEF Locks
  <2>2. \A d \in Calls : call'[d].result # "none" => call'[d].pc = "done"
    BY <1>1, <1>2, Facts DEF Locks, At
  <2>3. \A d, e \in held' : Task(d)' = Task(e)' => d = e
    BY <1>1, <1>5, Facts DEF Locks
  <2> QED  BY <2>1, <2>2, <2>3 DEF Locks
<1>8. Fresh'
  <2>1. \A d \in Calls : Starting(d)' => Starting(d) /\ d # c /\ call'[d] = call[d]
    BY <1>2 DEF Starting
  <2>2. \A d \in Calls \ {c} : Starting(d) => call[d].id # i
    BY <1>6 DEF Starting, WithBox
  <2>3. call[c].pc \in WithBox /\ call'[c].id = call[c].id  BY <1>1, <1>2 DEF At, WithBox, i
  <2> QED  BY <1>1, <1>2, <1>3, <2>1, <2>2, <2>3 DEF Fresh
<1>9. Unharmed'
  <2>1. HandedOver(i)  BY <1>6 DEF HandedOver
  <2>2. ASSUME faults = 0, NEW d \in Calls PROVE Spared(d)'
    <3>1. Spared(d) /\ Task(d)' = Task(d) /\ Task(d) \in Tasks  BY <1>5, <2>2 DEF Unharmed
    <3>2. /\ call'[d].dead = call[d].dead /\ call'[d].id = call[d].id
          /\ call'[d].result = call[d].result
          /\ d # c => call'[d] = call[d]
      BY <1>2 DEF i
    <3>3. call[d].dead # None => call[d].dead # i  BY <1>6, <3>1 DEF Spared
    <3>4. booked'[Task(d)] = booked[Task(d)] \/ booked'[Task(d)] = i  BY <1>3, <3>1
    <3>5. call'[c].pc = "request" /\ call[c].pc = "probe" /\ call'[c].id = i  BY <1>1, <1>2 DEF At
    <3> QED  BY <1>1, <2>1, <3>1, <3>2, <3>3, <3>4, <3>5 DEF Spared, HandedOver, WithBox
  <2>3. ASSUME faults = 0, NEW u \in Tasks, booked'[u] # None
        PROVE  \E j \in Ids : j = booked'[u] /\ HandedOver(j)
    BY <1>1, <1>3, <2>1, <2>3, Facts DEF Unharmed
  <2> QED  BY <1>1, <2>2, <2>3 DEF Unharmed, HandedOver
<1>10. Alone'
  <2> SUFFICES ASSUME Clean' PROVE Alone'  BY DEF Alone
  <2>1. Clean  BY <1>1, <1>2, <1>6 DEF Clean, At, i
  <2>2. ASSUME NEW j \in Ids, Made(j)
        PROVE  \/ booked'[container[j].task] = j \/ container[j].task \notin registered
               \/ \E d \in Calls : Starting(d)' /\ call'[d].id = j
    <3>1. \/ booked[container[j].task] = j \/ container[j].task \notin registered
          \/ \E d \in Calls : Starting(d) /\ call[d].id = j
      BY <2>1, <2>2 DEF Alone
    <3>2. CASE container[j].task = t
      <4>1. j = i  BY <1>1, <2>1, <2>2, <3>2 DEF Alone
      <4> QED  BY <1>3, <3>2, <4>1
    <3>3. CASE container[j].task # t
      <4>1. j # i  BY <1>1, <3>3
      <4>2. \A d \in Calls : Starting(d) /\ call[d].id = j => Starting(d)' /\ call'[d].id = j
        BY <1>2, <4>1 DEF Starting, i
      <4>3. container[j].task \in registered => container[j].task \in Tasks  BY Facts DEF Types
      <4> QED  BY <1>3, <3>1, <3>3, <4>2, <4>3
    <3> QED  BY <3>2, <3>3
  <2>3. \A d \in Calls : call'[d].pc = "create" => call[d].pc = "create"  BY <1>2
  <2> QED  BY <1>1, <1>5, <2>1, <2>2, <2>3 DEF Alone, Made
<1>11. Blank'  BY <1>1 DEF Blank, Made
<1> QED  BY <1>0, <1>7, <1>8, <1>9, <1>10, <1>11

\* What ends an acquire, but not for good, ends the time in which nothing fails
\* or is dropped; the others that are starting one are not touched.
LEMMA EndsBadly ==
  ASSUME Assumed, JInv, IInv', NEW c \in Calls, call[c].pc \notin {"idle", "done"},
         UNCHANGED <<ask, registered, booked, closing, reaper>>,
         held' = held \ {c}, faults' \in Nat, faults' >= faults,
         call'[c].pc = "done", call'[c].id = call[c].id, call'[c].dead = call[c].dead,
         call'[c].result = "dropped" \/ (faults' > faults /\ call'[c].result # "none"),
         \A d \in Calls \ {c} : call'[d] = call[d],
         \A i \in Ids : \/ container'[i] = container[i] /\ box'[i] = box[i]
                        \/ /\ Starting(c) /\ i = call[c].id
                           /\ container'[i] = container[i] \/ faults' > faults,
         \A i \in Ids : Made(i) => Made(i)', Kept
  PROVE  JInv'
<1> USE DEF JInv
<1>1. \A d \in Calls : Task(d)' = Task(d)  BY DEF Task
<1>2. Locks'
  <2>1. \A d \in Calls : d \in held' <=> call'[d].pc \in {"create", "start", "probe"}
    BY DEF Locks
  <2>2. \A d \in Calls : call'[d].result # "none" => call'[d].pc = "done"  BY DEF Locks
  <2>3. \A d, e \in held' : Task(d)' = Task(e)' => d = e  BY <1>1, Facts DEF Locks
  <2> QED  BY <2>1, <2>2, <2>3 DEF Locks
<1>3. Fresh'
  <2>1. \A d \in Calls : Starting(d)' => Starting(d) /\ d # c /\ call'[d] = call[d]
    BY DEF Starting
  <2>2. \A d \in Calls : Starting(d) /\ d # c =>
          container'[call[d].id] = container[call[d].id] /\ box'[call[d].id] = box[call[d].id]
    BY Facts DEF Starting, WithBox, Fresh
  <2>3. \A d \in Calls : call'[d].pc \in WithBox => call'[d] = call[d]  BY DEF WithBox
  <2> QED  BY <2>1, <2>2, <2>3 DEF Fresh
<1>4. Unharmed'
  <2> SUFFICES ASSUME faults' = 0
               PROVE  /\ \A t \in Tasks : booked[t] # None => HandedOver(booked[t])'
                      /\ \A d \in Calls : Spared(d)'
    BY DEF Unharmed, HandedOver
  <2>1. faults = 0 /\ call'[c].result = "dropped" /\ \A i \in Ids : container'[i] = container[i]
    BY Facts
  <2>2. \A i \in Ids : box'[i] # box[i] =>
          /\ \A t \in Tasks : booked[t] # i
          /\ \A d \in Calls \ {c} : call[d].pc \in WithBox => call[d].id # i
    BY DEF Fresh
  <2>3. ASSUME NEW t \in Tasks, booked[t] # None PROVE HandedOver(booked[t])'
    <3>1. booked[t] \in Ids /\ HandedOver(booked[t])  BY <2>1, <2>3, Facts DEF Unharmed
    <3>2. box'[booked[t]] = box[booked[t]]  BY <2>2, <3>1
    <3> QED  BY <2>1, <3>1, <3>2 DEF HandedOver
  <2>4. ASSUME NEW d \in Calls \ {c} PROVE Spared(d)'
    <3>1. Spared(d) /\ call'[d] = call[d] /\ Task(d)' = Task(d)  BY <1>1, <2>1 DEF Unharmed
    <3>2. call[d].pc \in WithBox => call[d].id \in Ids /\ box'[call[d].id] = box[call[d].id]
      BY <2>2, Facts
    <3>3. /\ call[d].dead # None => container'[call[d].dead] = container[call[d].dead]
          /\ call[d].id # None => container'[call[d].id] = container[call[d].id]
      BY <2>1, Facts
    <3> QED  BY <3>1, <3>2, <3>3, Facts DEF Spared, HandedOver, WithBox
  <2>5. Spared(c)'
    <3>1. Spared(c)  BY <2>1 DEF Unharmed
    <3>2. call[c].dead # None => container'[call[c].dead] = container[call[c].dead]
      BY <2>1, Facts
    <3> QED  BY <1>1, <2>1, <3>1, <3>2 DEF Spared, WithBox
  <2> QED  BY <2>3, <2>4, <2>5
<1>5. Alone'
  <2>1. ~Clean'
    <3>1. CASE call'[c].result = "dropped"  BY <3>1 DEF Clean
    <3>2. CASE faults' > faults  BY <3>2, Facts DEF Clean
    <3> QED  BY <3>1, <3>2
  <2> QED  BY <2>1 DEF Alone
<1>6. Blank'
  <2>1. \A i \in Ids : ~Made(i)' => ~Made(i) /\ container'[i] = container[i]
    BY Facts DEF Starting, WithBox
  <2> QED  BY <2>1 DEF Blank
<1> QED  BY <1>2, <1>3, <1>4, <1>5, <1>6

LEMMA AcquireFailsJInv ==
  ASSUME Assumed, JInv, NEW c \in Calls, AcquireFails(c)
  PROVE  JInv'
<1> USE DEF JInv
<1>0. IInv' /\ Kept  BY AcquireFailsIInv
<1>1. /\ call[c].pc \in {"create", "start", "probe"}
      /\ UNCHANGED <<ask, registered, booked, closing, reaper>>
      /\ held' = held \ {c} /\ faults' = faults + 1 /\ Return(c, "sandbox")
  BY DEF AcquireFails, Fault
<1>2. /\ call'[c].pc = "done" /\ call'[c].id = call[c].id /\ call'[c].dead = call[c].dead
      /\ call'[c].result = "sandbox"
      /\ \A d \in Calls \ {c} : call'[d] = call[d]
  BY <1>1, Facts, ReturnMoves DEF Results
<1>3. \A i \in Ids : \/ container'[i] = container[i] /\ box'[i] = box[i]
                     \/ Starting(c) /\ i = call[c].id
  BY <1>1, Facts DEF AcquireFails, At, Starting, Dispose, DisposeFails, sandboxes, Types
<1>4. \A i \in Ids : Made(i) => Made(i)'  BY <1>0 DEF Kept, Made
<1> QED  BY <1>0, <1>1, <1>2, <1>3, <1>4, Facts, EndsBadly

LEMMA DropJInv ==
  ASSUME Assumed, JInv, NEW c \in Calls, Drop(c)
  PROVE  JInv'
<1> USE DEF JInv
<1>0. IInv'  BY DropIInv
<1>1. /\ call[c].pc \notin {"idle", "done"} /\ UNCHANGED <<ask, registered, booked, closing, container, reaper, faults>>
      /\ held' = held \ {c} /\ Return(c, "dropped")
  BY DEF Drop
<1>2. /\ call'[c].pc = "done" /\ call'[c].id = call[c].id /\ call'[c].dead = call[c].dead
      /\ call'[c].result = "dropped"
      /\ \A d \in Calls \ {c} : call'[d] = call[d]
  BY <1>1, Facts, ReturnMoves DEF Results
<1>3. \A i \in Ids : box'[i] = box[i] \/ (Starting(c) /\ i = call[c].id)
  BY Facts DEF Drop, At, Starting, Types
<1>4. Kept /\ \A i \in Ids : Made(i) => Made(i)'
  BY <1>1, Facts, SameKept DEF Made
<1> QED  BY <1>0, <1>1, <1>2, <1>3, <1>4, Facts, EndsBadly
-----------------------------------------------------------------------------
\* What edge, its reaper and time do to boxes and containers that no call is
\* starting; and what release_task forgets is of a task that is over.
LEMMA WorldStep ==
  ASSUME Assumed, JInv, IInv', Kept, UNCHANGED <<ask, call, held>>,
         faults' \in Nat, faults' >= faults,
         \A d \in Calls : Starting(d) =>
            container'[call[d].id] = container[call[d].id] /\ box'[call[d].id] = box[call[d].id],
         \A i \in Ids : Made(i)' => Made(i),
         \A i \in Ids : ~Made(i) => container'[i] = container[i],
         \A i \in Ids : \/ container'[i].at = container[i].at
                           /\ (box'[i] = "no" => box[i] = "no" \/ faults' > faults)
                        \/ container'[i].at = "gone",
         registered' \subseteq registered,
         \A t \in Tasks : /\ booked'[t] = booked[t] \/ (booked'[t] = None /\ t \notin registered')
                          /\ closing'[t] \in {closing[t], None, booked[t]},
         \A i \in reaper'.victims : i \in reaper.victims \/ box[i] = "idle" \/ container[i].old
  PROVE  JInv'
<1> USE DEF JInv
<1>1. \A d \in Calls : Task(d)' = Task(d) /\ Task(d) \in Tasks  BY Facts DEF Task
<1>2. Locks'  BY <1>1, Facts DEF Locks
<1>3. Fresh'
  <2> SUFFICES ASSUME NEW d \in Calls, Starting(d)
               PROVE  /\ call[d].id \notin reaper'.victims
                      /\ \A t \in Tasks : closing'[t] # call[d].id /\ booked'[t] # call[d].id
    BY DEF Fresh, Starting
  <2>1. call[d].id \in Ids /\ call[d].id # None  BY Facts DEF Starting, WithBox
  <2>2. call[d].id \notin reaper'.victims  BY DEF Fresh
  <2>3. \A t \in Tasks : closing'[t] # call[d].id /\ booked'[t] # call[d].id
    BY <2>1 DEF Fresh
  <2> QED  BY <2>2, <2>3
<1>4. Unharmed'
  <2> SUFFICES ASSUME faults' = 0
               PROVE  /\ \A t \in Tasks : booked'[t] # None =>
                           \E i \in Ids : i = booked'[t] /\ HandedOver(i)'
                      /\ \A d \in Calls : Spared(d)'
    BY DEF Unharmed, HandedOver
  <2>1. faults = 0 /\ faults' = faults  BY Facts
  <2>2. \A i \in Ids : HandedOver(i) => HandedOver(i)'  BY <2>1 DEF HandedOver
  <2>3. \A i \in Ids : container[i].at = "gone" => container'[i].at = "gone"  OBVIOUS
  <2>4. ASSUME NEW d \in Calls PROVE Spared(d)'
    <3>1. Spared(d) /\ Task(d)' = Task(d) /\ booked'[Task(d)] \in {booked[Task(d)], None}
      BY <1>1, <2>1 DEF Unharmed
    <3> QED  BY <2>2, <2>3, <3>1, Facts DEF Spared, WithBox, HandedOver
  <2>5. \A t \in Tasks : booked'[t] # None => booked'[t] = booked[t]  OBVIOUS
  <2> QED  BY <2>1, <2>2, <2>4, <2>5, Facts DEF Unharmed
<1>5. Alone'
  <2> SUFFICES ASSUME Clean' PROVE Alone'  BY DEF Alone
  <2>1. Clean /\ \A i \in Ids : container'[i].at = container[i].at  BY Facts DEF Clean
  <2>2. \A i \in Ids : (Made(i)' <=> Made(i)) /\ (Made(i) => container'[i].task = container[i].task)
    BY <2>1 DEF Made, Kept
  <2>3. ASSUME NEW i \in Ids, Made(i)
        PROVE  \/ booked'[container[i].task] = i \/ container[i].task \notin registered'
               \/ \E d \in Calls : Starting(d) /\ call[d].id = i
    <3>1. container[i].task \in registered' => container[i].task \in Tasks  BY Facts DEF Types
    <3> QED  BY <2>1, <2>3, <3>1 DEF Alone
  <2> QED  BY <1>1, <2>1, <2>2, <2>3 DEF Alone, Starting
<1>6. Blank'
  <2>1. \A i \in Ids : ~Made(i)' => ~Made(i)  BY DEF Kept, Made
  <2> QED  BY <2>1 DEF Blank
<1> QED  BY <1>2, <1>3, <1>4, <1>5, <1>6

LEMMA DisposeMoves ==
  ASSUME Types, NEW i \in Ids, Dispose(i) \/ DisposeFails(i)
  PROVE  /\ box'[i] = "no" /\ \A j \in Ids \ {i} : box'[j] = box[j]
         /\ \A j \in Ids \ {i} : container'[j] = container[j]
         /\ container'[i] = container[i] \/ container'[i].at = "gone"
         /\ Dispose(i) => container'[i].at = "gone"
  BY DEF Types, Container, Dispose, DisposeFails

LEMMA ReleaseTaskJInv ==
  ASSUME Assumed, JInv, NEW t \in Tasks, ReleaseTask(t)
  PROVE  JInv'
<1>1. IInv' /\ Kept  BY ReleaseTaskIInv, SameKept DEF ReleaseTask, sandboxes, JInv, IInv
<1>2. \A u \in Tasks : /\ booked'[u] = booked[u] \/ (booked'[u] = None /\ u \notin registered')
                       /\ closing'[u] \in {closing[u], None, booked[u]}
  BY Facts DEF ReleaseTask, Types
<1> QED  BY <1>1, <1>2, Facts, WorldStep DEF ReleaseTask, sandboxes, Made

LEMMA ReleaseJInv ==
  ASSUME Assumed, JInv, NEW t \in Tasks, Release(t)
  PROVE  JInv'
<1> DEFINE i == closing[t]
<1>1. IInv' /\ Kept  BY ReleaseIInv DEF JInv
<1>2. i \in Ids /\ Made(i)  BY Facts DEF Release
<1>3. /\ UNCHANGED <<ask, registered, booked, held, call, reaper>>
      /\ \A u \in Tasks : closing'[u] \in {closing[u], None}
  BY Facts DEF Release, core, Types
<1>4. \/ Dispose(i) /\ faults' = faults
      \/ DisposeFails(i) /\ faults' = faults + 1
      \/ faults' = faults + 1 /\ UNCHANGED <<box, container>>
  BY DEF Release, Fault, sandboxes
<1>5. \A d \in Calls : Starting(d) => call[d].id \in Ids /\ call[d].id # i
  BY Facts DEF JInv, Fresh, Starting, WithBox
<1> HIDE DEF i
<1>6. /\ \A j \in Ids \ {i} : box'[j] = box[j] /\ container'[j] = container[j]
      /\ \/ container'[i] = container[i] /\ faults' > faults
         \/ container'[i].at = "gone"
  BY <1>2, <1>4, Facts, DisposeMoves
<1>7. /\ \A j \in Ids : Made(j)' => Made(j)
      /\ \A j \in Ids : ~Made(j) => container'[j] = container[j]
  BY <1>2, <1>6 DEF Made
<1>8. /\ \A d \in Calls : Starting(d) =>
           container'[call[d].id] = container[call[d].id] /\ box'[call[d].id] = box[call[d].id]
      /\ \A j \in Ids : \/ container'[j].at = container[j].at
                           /\ (box'[j] = "no" => box[j] = "no" \/ faults' > faults)
                        \/ container'[j].at = "gone"
      /\ faults' \in Nat /\ faults' >= faults
  BY <1>4, <1>5, <1>6, Facts
<1> QED  BY <1>1, <1>3, <1>7, <1>8, WorldStep

LEMMA ReaperJInv ==
  ASSUME Assumed, JInv, Reaper
  PROVE  JInv'
<1>1. IInv' /\ Kept  BY ReaperIInv DEF JInv
<1>2. UNCHANGED <<ask, registered, booked, held, call, closing>>
  BY DEF Reaper, ReapBoxes, ReapOrphans, ReapOne, ReapEnds, core
<1>3. CASE ReapBoxes \/ ReapOrphans \/ ReapEnds
  <2>1. UNCHANGED <<box, container>> /\ faults' \in Nat /\ faults' >= faults
    BY <1>3, Facts DEF ReapBoxes, ReapOrphans, ReapEnds, Fault, sandboxes
  <2>2. \A i \in reaper'.victims : i \in reaper.victims \/ box[i] = "idle" \/ container[i].old
    <3>1. CASE ReapBoxes \/ ReapEnds
      BY <3>1, Facts DEF ReapBoxes, ReapEnds, Reap, Types
    <3>2. CASE ReapOrphans
      <4>1. reaper' \in {[reaper EXCEPT !.pc = "release", !.victims = @ \cup Orphans],
                        [reaper EXCEPT !.pc = "release"]}
        BY <3>2 DEF ReapOrphans, Reap
      <4>2. reaper'.victims \in {reaper.victims, reaper.victims \cup Orphans}
        <5>1. reaper \in [pc : {"asleep", "orphans", "release"}, known : SUBSET Ids,
                          victims : SUBSET Ids]
          BY Facts DEF Types
        <5> HIDE DEF Orphans
        <5> QED  BY <4>1, <5>1
      <4> QED  BY <4>2 DEF Orphans
    <3> QED  BY <1>3, <3>1, <3>2
  <2> QED  BY <1>1, <1>2, <2>1, <2>2, WorldStep DEF Made
<1>4. CASE ReapOne
  <2>1. PICK i \in reaper.victims :
          /\ Reap([reaper EXCEPT !.victims = @ \ {i}])
          /\ \/ Dispose(i) /\ UNCHANGED faults
             \/ DisposeFails(i) /\ Fault
    BY <1>4 DEF ReapOne
  <2>2. i \in Ids /\ Made(i)  BY Facts
  <2>3. \A d \in Calls : Starting(d) => call[d].id \in Ids /\ call[d].id # i
    BY Facts DEF JInv, Fresh, Starting, WithBox
  <2>4. faults' \in Nat /\ faults' >= faults /\ (faults' = faults => Dispose(i))
    BY <2>1, Facts DEF Fault
  <2>5. /\ \A j \in Ids \ {i} : box'[j] = box[j] /\ container'[j] = container[j]
        /\ \/ container'[i] = container[i] /\ faults' > faults
           \/ container'[i].at = "gone"
    BY <2>1, <2>2, <2>4, Facts, DisposeMoves
  <2>6. /\ \A j \in Ids : Made(j)' => Made(j)
        /\ \A j \in Ids : ~Made(j) => container'[j] = container[j]
    BY <2>2, <2>5 DEF Made
  <2>7. /\ \A d \in Calls : Starting(d) =>
             container'[call[d].id] = container[call[d].id] /\ box'[call[d].id] = box[call[d].id]
        /\ \A j \in Ids : \/ container'[j].at = container[j].at
                             /\ (box'[j] = "no" => box[j] = "no" \/ faults' > faults)
                          \/ container'[j].at = "gone"
    BY <2>3, <2>5
  <2>8. \A j \in reaper'.victims : j \in reaper.victims
    BY <2>1, Facts DEF Reap, Types
  <2> QED  BY <1>1, <1>2, <2>4, <2>6, <2>7, <2>8, WorldStep
<1> QED  BY <1>3, <1>4 DEF Reaper

LEMMA AgeJInv ==
  ASSUME Assumed, JInv, NEW i \in Ids, Age(i)
  PROVE  JInv'
<1>1. IInv' /\ Kept  BY AgeIInv DEF JInv
<1>2. UNCHANGED <<ask, registered, booked, held, call, closing, reaper, faults>> /\ Made(i)
  BY DEF Age, core, Exists, Made
<1>3. /\ container'[i].at = container[i].at
      /\ \A j \in Ids \ {i} : container'[j] = container[j]
  <2> DEFINE k == [container[i] EXCEPT !.old = TRUE]
  <2>1. k.at = container[i].at  BY Facts DEF Types, Container
  <2>2. container' = [container EXCEPT ![i] = k]  BY Facts DEF Age, Types
  <2> HIDE DEF k
  <2> QED  BY <2>1, <2>2, Facts DEF Types
<1>4. /\ \A j \in Ids \ {i} : box'[j] = box[j]
      /\ box'[i] = "no" => box[i] = "no"
  BY Facts DEF Age, Types
<1>5. \A d \in Calls : Starting(d) => call[d].id \in Ids /\ call[d].id # i
  BY Facts DEF Age, Starting, WithBox
<1> QED  BY <1>1, <1>2, <1>3, <1>4, <1>5, Facts, WorldStep DEF Made

\* What is being started when edge restarts fails.
LEMMA RestartJInv ==
  ASSUME Assumed, JInv, NEW kept \in SUBSET Ids, Restart(kept)
  PROVE  JInv'
<1> USE DEF JInv
<1>1. IInv' /\ Kept  BY RestartIInv
<1>2. faults' = faults + 1 /\ UNCHANGED <<ask, registered, booked>>  BY DEF Restart, Fault
<1> DEFINE F == {c \in Calls : call[c].pc \in {"create", "start", "probe", "working"}}
           k == [c \in Calls |-> [call[c] EXCEPT !.pc = "done", !.result = "sandbox"]]
<1>3. \A c \in Calls : k[c].pc = "done" /\ k[c].result = "sandbox"
  <2>1. \A c \in Calls : call[c] \in CallState  BY Facts DEF Types
  <2>2. \A r \in CallState : [r EXCEPT !.pc = "done", !.result = "sandbox"].pc = "done"
                           /\ [r EXCEPT !.pc = "done", !.result = "sandbox"].result = "sandbox"
    BY DEF CallState
  <2> QED  BY <2>1, <2>2
<1>4. call' = [c \in Calls |-> IF c \in F THEN k[c] ELSE call[c]] /\ held' = held \ F
  <2>1. call' = [c \in Calls |-> IF c \in F
                   THEN [call[c] EXCEPT !.pc = "done", !.result = "sandbox"] ELSE call[c]]
    BY Zenon DEF Restart
  <2>2. held' = held \ F  BY Zenon DEF Restart
  <2> QED  BY <2>1, <2>2
<1>5. \A c \in Calls : call[c].pc \in {"create", "start", "probe"} => c \in F  OBVIOUS
<1> HIDE DEF F, k
<1>6. \A c \in Calls : \/ c \in F /\ call'[c].pc = "done" /\ call'[c].result = "sandbox"
                       \/ c \notin F /\ call'[c] = call[c]
  BY <1>3, <1>4
<1>7. \A c \in Calls : call'[c].pc \notin {"create", "start", "probe"}  BY <1>5, <1>6
<1>8. held' = {}  BY <1>4, <1>5, Facts DEF Locks
<1>9. Locks'
  <2>1. \A c \in Calls : call'[c].result # "none" => call'[c].pc = "done"
    BY <1>6 DEF Locks
  <2> QED  BY <1>7, <1>8, <2>1 DEF Locks
<1>10. Fresh' /\ Unharmed' /\ Alone'
  BY <1>2, <1>7, Facts DEF Fresh, Starting, Unharmed, Alone, Clean
<1>11. Blank'
  <2>1. \A i \in Ids : ~Made(i)' => ~Made(i)  BY <1>1 DEF Kept, Made
  <2>2. \A i \in Ids : ~Made(i) => container'[i] = container[i]
    <3>1. \A i \in Ids : ~Made(i) => box[i] = "no"  BY Facts
    <3> QED  BY <3>1 DEF Restart
  <2> QED  BY <2>1, <2>2 DEF Blank
<1> QED  BY <1>1, <1>9, <1>10, <1>11
-----------------------------------------------------------------------------
LEMMA StepJInv ==
  ASSUME Assumed, JInv, [Next]_vars
  PROVE  JInv'
<1>0. IInv' /\ Kept  BY StepIInv DEF JInv
<1>1. CASE UNCHANGED vars
  BY <1>0, <1>1, Facts, WorldStep DEF vars, core, sandboxes, Made
<1>2. ASSUME NEW c \in Calls, Step(c) PROVE JInv'
  <2>1. CASE TakeLock(c) /\ held' # held  BY <2>1, LockJInv
  <2>2. CASE Create(c) \/ Start(c) \/ Probe(c) \/ AcquireFails(c) \/ Lost(c) \/ Drop(c)
    BY <1>0, <2>2, CreateJInv, StartJInv, ProbeJInv, AcquireFailsJInv, LostJInv, DropJInv
  <2>3. CASE \/ Begin(c) \/ LookUp(c) \/ (TakeLock(c) /\ held' = held) \/ Request(c) \/ Work(c)
             \/ WorkFindsNothing(c) \/ RequestFails(c)
    BY <1>0, <2>3, QuietCalls
  <2> QED  BY <1>2, <2>1, <2>2, <2>3 DEF Step
<1>3. ASSUME NEW t \in Tasks, ReleaseTask(t) \/ Release(t) PROVE JInv'
  BY <1>3, ReleaseTaskJInv, ReleaseJInv
<1>4. CASE Reaper  BY <1>4, ReaperJInv
<1>5. ASSUME NEW i \in Ids, Age(i) PROVE JInv'  BY <1>5, AgeJInv
<1>6. ASSUME NEW kept \in SUBSET Ids, Restart(kept) PROVE JInv'  BY <1>6, RestartJInv
<1> QED  BY <1>1, <1>2, <1>3, <1>4, <1>5, <1>6 DEF Next

LEMMA JInvariance == ASSUME Assumed PROVE Spec => []JInv
<1>1. Init => JInv  BY InitJInv
<1>2. JInv /\ [Next]_vars => JInv'  BY StepJInv
<1> QED  BY <1>1, <1>2, PTL DEF Spec

LEMMA JInvTypes == ASSUME Assumed PROVE JInv => TypeOK
<1> SUFFICES ASSUME JInv PROVE TypeOK  OBVIOUS
<1>1. \A c \in Calls : call[c].pc \in WithBox => call[c].id \in Ids  BY Facts
<1> QED  BY <1>1, Facts DEF TypeOK, Types, CallState, PCs, Results, Container, WithBox

LEMMA JInvBuiltOnce == ASSUME Assumed, None \notin Tasks PROVE JInv => BuiltOnce
<1> SUFFICES ASSUME JInv, Clean, NEW t \in Tasks
             PROVE  Cardinality({i \in Ids : container[i].task = t}) <= 1
  BY DEF BuiltOnce, Clean, Undisturbed
<1> DEFINE S == {i \in Ids : container[i].task = t}
<1>1. \A i, j \in S : i = j
  <2>1. \A i \in S : Made(i)  BY DEF JInv, Blank
  <2> QED  BY <2>1 DEF JInv, Alone
<1>2. CASE S = {}  BY <1>2, FS_EmptySet
<1>3. CASE S # {}
  <2>1. PICK i \in S : TRUE  BY <1>3
  <2>2. S = {i}  BY <1>1, <2>1
  <2>3. Cardinality({i}) = 1  BY FS_Singleton
  <2> QED  BY <2>2, <2>3
<1> QED  BY <1>2, <1>3

LEMMA JInvFailsOnlyTwice == ASSUME Assumed PROVE JInv => FailsOnlyTwice
<1> SUFFICES ASSUME JInv, NEW c \in Calls, faults = 0, call[c].result = "sandbox"
             PROVE  /\ call[c].dead # None /\ call[c].dead # call[c].id
                    /\ ~Exists(call[c].dead) /\ ~Exists(call[c].id)
  BY DEF FailsOnlyTwice, Undisturbed
<1>1. Spared(c)  BY DEF JInv, Unharmed
<1> QED  BY <1>1 DEF Spared, Exists

\* The state keeps its types, and a call that talks to a sandbox has one.
THEOREM TypeCorrect == ASSUME Assumed PROVE Spec => []TypeOK
<1>1. JInv => TypeOK  BY JInvTypes
<1> QED  BY <1>1, JInvariance, PTL

\* As long as nothing fails, is dropped or removed, no task gets two sandboxes,
\* however many of its calls need one at the same time (gateway.rs
\* acquire_locks, the second look under the lock).
THEOREM OneBuiltEach == ASSUME Assumed, None \notin Tasks PROVE Spec => []BuiltOnce
<1>1. JInv => BuiltOnce  BY JInvBuiltOnce
<1> QED  BY <1>1, JInvariance, PTL

\* As long as nothing fails, a call is refused for its sandbox only after it has
\* lost two different ones: what the reaper took costs nothing by itself, and a
\* dead sandbox is not used again (python_exec.rs, attachments.rs).
THEOREM TwoLossesToFail == ASSUME Assumed PROVE Spec => []FailsOnlyTwice
<1>1. JInv => FailsOnlyTwice  BY JInvFailsOnlyTwice
<1> QED  BY <1>1, JInvariance, PTL
=============================================================================
