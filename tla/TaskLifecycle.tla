---------------------------- MODULE TaskLifecycle ----------------------------
(***************************************************************************)
(* The life of the tasks of one session in core: they are started by the   *)
(* session's events (control/routing, control/sessions), dispatched one at *)
(* a time (control/dispatch), run by the worker (worker/loop, worker/      *)
(* deliver), steered by follow-up events, stopped by !stop, replaced when  *)
(* stuck, and cut off by the shutdown of app.  All of these run in threads *)
(* of one runtime: a step of the model is what the code does between two   *)
(* awaits, or under one lock.                                              *)
(*                                                                         *)
(* A task is its number, in creation order.  Its row in the store keeps    *)
(* the status, whether evidence_root_hash is set and whether card_id is.   *)
(* Its evidence chain keeps the records the rest depends on: what started  *)
(* it ("created"), what it was told ("received"), its work ("work", one    *)
(* per model call, standing for the tool and card records of that step     *)
(* too) and the closing records.                                           *)
(***************************************************************************)
EXTENDS Naturals, Sequences, FiniteSets

CONSTANTS Events,     \* the messages people post in the session's thread
          FirstEvent, \* the one that opened the session
          Stoppers,   \* the !stop commands and stop buttons pressed
          App,        \* the shutdown sequence
          MaxSteps,   \* max_steps
          MayStick,   \* workers may be found stuck (no progress for stuck_after)
          MayFail,    \* store, evidence and platform calls of a worker may fail
          MayAbort    \* the process may be shut down past its grace period

ASSUME LifecycleAssumption ==
    /\ IsFiniteSet(Events) /\ FirstEvent \in Events
    /\ Events \cap Stoppers = {} /\ App \notin Events \cup Stoppers
    /\ MaxSteps \in Nat \ {0}
    /\ {MayStick, MayFail, MayAbort} \subseteq BOOLEAN

Tasks == 1..Cardinality(Events)
NoTask == 0
Callers == Events \cup Stoppers \cup {App}

Active == {"created", "planning", "working"}
Terminal == {"delivered", "failed", "cancelled"}
Status == {"absent", "answering"} \cup Active \cup Terminal
Row == [status : Status, hash : BOOLEAN, card : BOOLEAN]
Absent == [status |-> "absent", hash |-> FALSE, card |-> FALSE]
Created == [Absent EXCEPT !.status = "created"]

VARIABLES
    row,        \* the store's row of each task
    log,        \* its evidence chain
    manifest,   \* how many records its manifest covers; 0: not finalized
    card,       \* what its card shows on the platform
    replied,    \* the tasks whose answer has been posted
    turns,      \* the events that are in the session's transcript
    queue,      \* Shared.queue
    owned, running, cancelled, steer,   \* the sets of the same names in Shared
    signal,     \* Shared.abandon: the entry of each task
    runner,     \* the task that runs run_forever: "up" or "aborted"
    pc,         \* where run_one and the worker are with each task
    copy,       \* the worker's own copy of the row, its steps and its last try
    live,       \* AgentWorker.in_flight: the last saved copy of each task
    context,    \* how often each event's text is in the task's messages
    call        \* the handler of each event, stop and the shutdown

store == <<row, log, manifest>>
world == <<card, replied, turns>>
shared == <<queue, owned, running, cancelled, steer, signal, runner>>
worker == <<pc, copy, live, context>>
vars == <<store, world, shared, worker, call>>

Nothing == [t \in {} |-> Absent]  \* the empty list of rows
Idle == [pc |-> "idle", task |-> NoTask, row |-> Absent, ran |-> FALSE, listed |-> Nothing]

Init ==
    /\ row = [t \in Tasks |-> Absent]
    /\ log = [t \in Tasks |-> <<>>]
    /\ manifest = [t \in Tasks |-> 0]
    /\ card = [t \in Tasks |-> "none"]
    /\ replied = {} /\ turns = {FirstEvent}
    /\ queue = <<>>
    /\ owned = {} /\ running = {} /\ cancelled = {}
    /\ steer = [t \in Tasks |-> {}]
    /\ signal = [t \in Tasks |-> "none"]
    /\ runner = "up"
    /\ pc = [t \in Tasks |-> "none"]
    /\ copy = [t \in Tasks |-> [row |-> Absent, steps |-> 0, last |-> FALSE]]
    /\ live = [t \in Tasks |-> Absent]
    /\ context = [t \in Tasks |-> [e \in Events |-> 0]]
    /\ call = [c \in Callers |-> IF c = FirstEvent THEN [Idle EXCEPT !.pc = "create"] ELSE Idle]
-----------------------------------------------------------------------------
(* Helpers.  At(c, p): the handler c is at p; Go(c, p): it goes on at p.   *)

At(c, p) == call[c].pc = p
Go(c, p) == call' = [call EXCEPT ![c].pc = p]
Step(t, p, q) == pc[t] = p /\ pc' = [pc EXCEPT ![t] = q]
Record(t, kind) == log' = [log EXCEPT ![t] = Append(@, kind)]
Write(t, r) == row' = [row EXCEPT ![t] = r]
-----------------------------------------------------------------------------
(* An event in the session's thread: continue_session, start_task.         *)

FollowTurn(e) ==
    /\ e \in Events /\ At(e, "idle") /\ runner = "up"
    /\ turns' = turns \cup {e}
    /\ Go(e, "list")
    /\ UNCHANGED <<store, card, replied, shared, worker>>

FollowList(e) ==
    /\ At(e, "list")
    /\ call' = [call EXCEPT ![e].pc = "choose",
                            ![e].listed = [t \in {u \in Tasks : row[u].status \in Active} |-> row[t]]]
    /\ UNCHANGED <<store, world, shared, worker>>

(* steer_target picks the last of the pool: the running tasks of those this *)
(* process has taken and nobody cancelled, or else all of these.            *)
SteerPool(listed) ==
    LET mine == (listed \cap owned) \ cancelled
    IN  IF mine \cap running # {} THEN mine \cap running ELSE mine

FollowChoose(e) ==
    /\ At(e, "choose")
    /\ LET listed == call[e].listed
           pool == SteerPool(DOMAIN listed)
           Goes(p, t, r) == call' = [call EXCEPT ![e].pc = p, ![e].task = t, ![e].row = r,
                                                 ![e].listed = Nothing]
       IN  \/ pool = {} /\ Goes("create", NoTask, Absent)
           \/ \E t \in pool :
                 /\ \A u \in pool : u <= t
                 /\ \/ Goes("append", t, Absent)
                    \/ MayStick /\ t \in running /\ Goes("abandon", t, listed[t])
    /\ UNCHANGED <<store, world, shared, worker>>

FollowAppend(e) ==
    /\ At(e, "append")
    /\ Record(call[e].task, "received")
    /\ Go(e, "push")
    /\ UNCHANGED <<row, manifest, world, shared, worker>>

FollowPush(e) ==
    /\ At(e, "push")
    /\ steer' = [steer EXCEPT ![call[e].task] = @ \cup {e}]
    /\ Go(e, "done")
    /\ UNCHANGED <<store, world, queue, owned, running, cancelled, signal, runner, worker>>

StartCreate(e) ==
    /\ At(e, "create")
    /\ \E t \in Tasks :
         /\ row[t].status = "absent"
         /\ \A u \in 1..(t - 1) : row[u].status # "absent"
         /\ Write(t, Created)
         /\ call' = [call EXCEPT ![e].pc = "record", ![e].task = t]
    /\ UNCHANGED <<log, manifest, world, shared, worker>>

StartRecord(e) ==
    /\ \/ At(e, "record") /\ Record(call[e].task, "created") /\ Go(e, "record2")
       \/ At(e, "record2") /\ Record(call[e].task, "received") /\ Go(e, "enqueue")
    /\ UNCHANGED <<row, manifest, world, shared, worker>>

StartEnqueue(e) ==
    /\ At(e, "enqueue")
    /\ owned' = owned \cup {call[e].task}
    /\ queue' = Append(queue, call[e].task)
    /\ Go(e, "done")
    /\ UNCHANGED <<store, world, running, cancelled, steer, signal, runner, worker>>
-----------------------------------------------------------------------------
(* !stop and the stop button: the target is read off the list; a task that *)
(* is delivering is refused, an active one is cancelled, for !stop after    *)
(* the command was recorded on its chain.                                   *)

StopResolve(s) ==
    /\ s \in Stoppers /\ At(s, "idle") /\ runner = "up"
    /\ \E t \in Tasks :
         \/ /\ row[t].status \in Active
            /\ \E p \in {"command", "mark"} :
                 call' = [call EXCEPT ![s].pc = p, ![s].task = t, ![s].row = row[t]]
         \/ /\ row[t].status = "answering" /\ t \in running
            /\ call' = [call EXCEPT ![s].pc = "refused", ![s].task = t]
    /\ UNCHANGED <<store, world, shared, worker>>

(* record_command: re-read, then append unless the task is settled *)
StopCommand(s) ==
    /\ At(s, "command")
    /\ LET r == row[call[s].task]
       IN  Go(s, IF r.status \in Terminal \/ r.hash THEN "mark" ELSE "note")
    /\ UNCHANGED <<store, world, shared, worker>>

StopNote(s) ==
    /\ At(s, "note")
    /\ Record(call[s].task, "received")
    /\ Go(s, "mark")
    /\ UNCHANGED <<row, manifest, world, shared, worker>>
-----------------------------------------------------------------------------
(* cancel_task_by, called by a stop, a stuck replacement or the shutdown.  *)

CancelMark_ReadsRunningEarlier(c) ==
    /\ At(c, "mark")
    /\ cancelled' = cancelled \cup {call[c].task}
    /\ call' = [call EXCEPT ![c].pc = "reread", ![c].ran = FALSE]
    /\ UNCHANGED <<store, world, queue, owned, running, steer, signal, runner, worker>>

CancelMark(c) ==
    /\ At(c, "mark")
    /\ cancelled' = cancelled \cup {call[c].task}
    /\ call' = [call EXCEPT ![c].pc = "reread", ![c].ran = call[c].task \in running]
    /\ UNCHANGED <<store, world, queue, owned, running, steer, signal, runner, worker>>

CancelReread_TrustsSnapshot(c) ==
    /\ At(c, "reread")
    /\ Go(c, IF call[c].row.status \in Terminal THEN "tell" ELSE "write")
    /\ UNCHANGED <<store, world, shared, worker>>

CancelReread(c) ==
    /\ At(c, "reread")
    /\ Go(c, IF row[call[c].task].status \in Terminal THEN "tell" ELSE "write")
    /\ UNCHANGED <<store, world, shared, worker>>

CancelWrite_LeavesItToTheWorker(c) ==
    /\ At(c, "write")
    /\ LET r == [call[c].row EXCEPT !.status = "cancelled"]
       IN  /\ Write(call[c].task, r)
           /\ call' = [call EXCEPT ![c].pc = "tell", ![c].row = r]
    /\ UNCHANGED <<log, manifest, world, shared, worker>>

(* update_task with the status set in the row the caller passed *)
CancelWrite(c) ==
    /\ At(c, "write")
    /\ LET r == [call[c].row EXCEPT !.status = "cancelled"]
       IN  /\ Write(call[c].task, r)
           /\ call' = [call EXCEPT ![c].pc = IF call[c].ran THEN "tell" ELSE "close",
                                   ![c].row = r]
    /\ UNCHANGED <<log, manifest, world, shared, worker>>

CancelWriteFails(c) ==
    /\ MayFail /\ At(c, "write")
    /\ Go(c, "returned")
    /\ UNCHANGED <<store, world, shared, worker>>

CancelRecord(c) ==
    /\ At(c, "close")
    /\ Record(call[c].task, "cancelled")
    /\ Go(c, "card")
    /\ UNCHANGED <<row, manifest, world, shared, worker>>

CancelCard(c) ==
    /\ At(c, "card")
    /\ card' = IF call[c].row.card THEN [card EXCEPT ![call[c].task] = "cancelled"] ELSE card
    /\ Go(c, IF call[c].row.hash THEN "tell" ELSE "seal")
    /\ UNCHANGED <<store, replied, turns, shared, worker>>

(* finalize_evidence: finalize, then the second update_task *)
CancelSeal(c) ==
    /\ At(c, "seal")
    /\ manifest' = [manifest EXCEPT ![call[c].task] = Len(log[call[c].task])]
    /\ call' = [call EXCEPT ![c].pc = "stamp", ![c].row.hash = TRUE]
    /\ UNCHANGED <<row, log, world, shared, worker>>

CancelStamp(c) ==
    /\ At(c, "stamp")
    /\ Write(call[c].task, call[c].row)
    /\ Go(c, "tell")
    /\ UNCHANGED <<log, manifest, world, shared, worker>>

(* The stop tells the user; the stuck replacement tells him too and starts  *)
(* a new task; the shutdown says nothing and takes the next one.            *)
CancelTell(c) ==
    /\ \/ At(c, "tell") /\ Go(c, CASE c \in Stoppers -> "told"
                                   [] c \in Events -> "create"
                                   [] OTHER -> "pick")
       \/ At(c, "returned") /\ Go(c, CASE c \in Stoppers -> "unsaved"
                                       [] c \in Events -> "create"
                                       [] OTHER -> "pick")
    /\ UNCHANGED <<store, world, shared, worker>>
-----------------------------------------------------------------------------
(* A stuck task: abandon_running fires its signal and waits, five seconds   *)
(* at most, for it to leave `running`.                                      *)

Abandon(e) ==
    /\ At(e, "abandon")
    /\ LET t == call[e].task
       IN  IF signal[t] = "none" THEN Go(e, "mark") /\ UNCHANGED signal
           ELSE Go(e, "gone") /\ signal' = [signal EXCEPT ![t] = "fired"]
    /\ UNCHANGED <<store, world, queue, owned, running, cancelled, steer, runner, worker>>

AbandonReturns(e) ==
    /\ At(e, "gone")
    /\ Go(e, "mark")
    /\ UNCHANGED <<store, world, shared, worker>>
-----------------------------------------------------------------------------
(* The dispatch of a task: run_one, run_task, dispatch_task and the guards. *)

InDispatch(t) == pc[t] \notin {"none", "over"}

Pop ==
    /\ runner = "up" /\ queue # <<>>
    /\ \A t \in Tasks : ~InDispatch(t)
    /\ queue' = Tail(queue)
    /\ Step(Head(queue), "none", "fetch")
    /\ UNCHANGED <<store, world, owned, running, cancelled, steer, signal, runner,
                   copy, live, context, call>>

Fetch_ReturnsUnguarded(t) ==
    /\ \/ /\ Step(t, "fetch", "admit")
          /\ copy' = [copy EXCEPT ![t].row = row[t]]
       \/ MayFail /\ Step(t, "fetch", "over") /\ UNCHANGED copy
    /\ UNCHANGED <<store, world, shared, live, context, call>>

Fetch(t) ==
    /\ \/ /\ Step(t, "fetch", "admit")
          /\ copy' = [copy EXCEPT ![t].row = row[t]]
       \/ MayFail /\ Step(t, "fetch", "finish") /\ UNCHANGED copy
    /\ UNCHANGED <<store, world, shared, live, context, call>>

Admit_IgnoresStop(t) ==
    /\ Step(t, "admit", "clear")
    /\ running' = running \cup {t}
    /\ UNCHANGED <<store, world, queue, owned, cancelled, steer, signal, runner,
                   copy, live, context, call>>

(* cancelled is looked at and running entered in one critical section *)
Admit(t) ==
    /\ \/ t \in cancelled /\ Step(t, "admit", "finish") /\ UNCHANGED running
       \/ t \notin cancelled /\ Step(t, "admit", "clear") /\ running' = running \cup {t}
    /\ UNCHANGED <<store, world, queue, owned, cancelled, steer, signal, runner,
                   copy, live, context, call>>

ClearSteer(t) ==
    /\ Step(t, "clear", "arm")
    /\ steer' = [steer EXCEPT ![t] = {}]
    /\ UNCHANGED <<store, world, queue, owned, running, cancelled, signal, runner,
                   copy, live, context, call>>

(* the abandon entry, then worker.run up to its first await *)
Arm(t) ==
    /\ Step(t, "arm", "build")
    /\ signal' = [signal EXCEPT ![t] = "armed"]
    /\ live' = [live EXCEPT ![t] = copy[t].row]
    /\ UNCHANGED <<store, world, queue, owned, running, cancelled, steer, runner,
                   copy, context, call>>

(* RunningGuard, AbandonGuard, FinishGuard, in the order they drop *)
LeaveRunning(t) ==
    /\ Step(t, "ran", "disarm")
    /\ running' = running \ {t}
    /\ UNCHANGED <<store, world, queue, owned, cancelled, steer, signal, runner,
                   copy, live, context, call>>

Disarm(t) ==
    /\ Step(t, "disarm", "finish")
    /\ signal' = [signal EXCEPT ![t] = "none"]
    /\ UNCHANGED <<store, world, queue, owned, running, cancelled, steer, runner,
                   copy, live, context, call>>

FinishTask_KeepsOwned(t) ==
    /\ Step(t, "finish", "over")
    /\ steer' = [steer EXCEPT ![t] = {}]
    /\ UNCHANGED <<store, world, queue, owned, running, cancelled, signal, runner,
                   copy, live, context, call>>

FinishTask(t) ==
    /\ Step(t, "finish", "over")
    /\ steer' = [steer EXCEPT ![t] = {}]
    /\ owned' = owned \ {t}
    /\ UNCHANGED <<store, world, queue, running, cancelled, signal, runner,
                   copy, live, context, call>>
-----------------------------------------------------------------------------
(* The worker.  RunPCs are its awaits: there a failing call ends in fail(), *)
(* and there the abandon signal or the abort of the runner drops it.        *)

Saved == [plan |-> "planned", carded |-> "cardSaved", save |-> "stepSaved",
          answer |-> "answerSaved", settle |-> "settled"]
AfterSave == [planned |-> "top", cardSaved |-> "tool", stepSaved |-> "top",
              answerSaved |-> "send", settled |-> "return"]
RunPCs == DOMAIN Saved \cup
          {"build", "chat", "card", "tool", "send", "notice", "close", "record", "seal"}
WorkerPCs == RunPCs \cup DOMAIN AfterSave \cup {"top", "act", "return"}
InWorker(t) == pc[t] \in WorkerPCs

OnlyWorker == UNCHANGED <<world, shared, call>>

BuildMessages(t) ==
    /\ Step(t, "build", "plan")
    /\ context' = [context EXCEPT ![t] = [e \in Events |-> IF e \in turns THEN 1 ELSE 0]]
    /\ copy' = [copy EXCEPT ![t].row.status = "planning"]
    /\ OnlyWorker /\ UNCHANGED <<store, live>>

(* save(): update_task with the worker's copy, then the in_flight snapshot *)
Save(t) ==
    /\ pc[t] \in DOMAIN Saved
    /\ pc' = [pc EXCEPT ![t] = Saved[pc[t]]]
    /\ Write(t, copy[t].row)
    /\ OnlyWorker /\ UNCHANGED <<log, manifest, copy, live, context>>

Refresh(t) ==
    /\ pc[t] \in DOMAIN AfterSave
    /\ pc' = [pc EXCEPT ![t] = AfterSave[pc[t]]]
    /\ live' = [live EXCEPT ![t] = copy[t].row]
    /\ OnlyWorker /\ UNCHANGED <<store, copy, context>>

(* fail(): from the loop, for its limits, the model or the tools *)
Fail(t) ==
    /\ \/ pc[t] = "top" /\ t \notin cancelled
       \/ pc[t] \in {"chat", "act", "tool"}
    /\ pc' = [pc EXCEPT ![t] = "notice"]
    /\ copy' = [copy EXCEPT ![t].row.status = "failed"]
    /\ OnlyWorker /\ UNCHANGED <<store, live, context>>

StopAtTop_LeavesCard(t) ==
    /\ t \in cancelled
    /\ Step(t, "top", "record")
    /\ copy' = [copy EXCEPT ![t].row.status = "cancelled"]
    /\ OnlyWorker /\ UNCHANGED <<store, live, context>>

(* the top of a step: is_cancelled *)
StopAtTop(t) ==
    /\ t \in cancelled
    /\ Step(t, "top", "close")
    /\ copy' = [copy EXCEPT ![t].row.status = "cancelled"]
    /\ OnlyWorker /\ UNCHANGED <<store, live, context>>

Drain_NoStepLimit(t) ==
    /\ t \notin cancelled /\ copy[t].steps <= MaxSteps
    /\ Step(t, "top", "chat")
    /\ context' = [context EXCEPT ![t] =
                     [e \in Events |-> IF e \in steer[t] THEN @[e] + 1 ELSE @[e]]]
    /\ steer' = [steer EXCEPT ![t] = {}]
    /\ UNCHANGED <<store, world, queue, owned, running, cancelled, signal, runner,
                   copy, live, call>>

(* drain_steer *)
Drain(t) ==
    /\ t \notin cancelled /\ copy[t].steps < MaxSteps
    /\ Step(t, "top", "chat")
    /\ context' = [context EXCEPT ![t] =
                     [e \in Events |-> IF e \in steer[t] THEN @[e] + 1 ELSE @[e]]]
    /\ steer' = [steer EXCEPT ![t] = {}]
    /\ UNCHANGED <<store, world, queue, owned, running, cancelled, signal, runner,
                   copy, live, call>>

Chat(t) ==
    /\ Step(t, "chat", "act")
    /\ copy' = [copy EXCEPT ![t].steps = @ + 1]
    /\ Record(t, "work")
    /\ OnlyWorker /\ UNCHANGED <<row, manifest, live, context>>

(* The model's answer: a final (or text, on the first step), a text that    *)
(* earns a nudge, an invalid final, or tools.                               *)
Act(t) ==
    /\ \/ /\ Step(t, "act", "answer")
          /\ copy' = [copy EXCEPT ![t].row.status =
                        IF copy[t].row.card THEN "working" ELSE "answering"]
       \/ Step(t, "act", "top") /\ UNCHANGED copy
       \/ Step(t, "act", "save") /\ UNCHANGED copy
       \/ Step(t, "act", IF copy[t].row.card THEN "tool" ELSE "card") /\ UNCHANGED copy
    /\ OnlyWorker /\ UNCHANGED <<store, live, context>>

(* ensure_card: send_card, then the row *)
SendCard(t) ==
    /\ Step(t, "card", "carded")
    /\ card' = [card EXCEPT ![t] = "working"]
    /\ copy' = [copy EXCEPT ![t].row.card = TRUE, ![t].row.status = "working"]
    /\ UNCHANGED <<store, replied, turns, shared, live, context, call>>

(* the tools of one answer; a final may close the batch *)
RunTool(t) ==
    /\ \/ Step(t, "tool", "save") /\ UNCHANGED copy
       \/ Step(t, "tool", "answer") /\ copy' = [copy EXCEPT ![t].row.status = "working"]
    /\ OnlyWorker /\ UNCHANGED <<store, live, context>>

(* deliver() *)
SendAnswer(t) ==
    /\ Step(t, "send", "close")
    /\ replied' = replied \cup {t}
    /\ copy' = [copy EXCEPT ![t].row.status = "delivered"]
    /\ UNCHANGED <<store, card, turns, shared, live, context, call>>

SendNotice(t) ==
    /\ Step(t, "notice", "close")
    /\ OnlyWorker /\ UNCHANGED <<store, copy, live, context>>

(* close_card, the closing record, finish(): finalize, then Save *)
CloseCard(t) ==
    /\ Step(t, "close", "record")
    /\ IF copy[t].row.card
       THEN card' = [card EXCEPT ![t] = copy[t].row.status] /\ Record(t, "work")
       ELSE UNCHANGED <<card, log>>
    /\ UNCHANGED <<row, manifest, replied, turns, shared, copy, live, context, call>>

CloseRecord(t) ==
    /\ Step(t, "record", "seal")
    /\ Record(t, copy[t].row.status)
    /\ OnlyWorker /\ UNCHANGED <<row, manifest, copy, live, context>>

Seal_WithoutSave(t) ==
    /\ Step(t, "seal", "return")
    /\ manifest' = [manifest EXCEPT ![t] = Len(log[t])]
    /\ copy' = [copy EXCEPT ![t].row.hash = TRUE]
    /\ OnlyWorker /\ UNCHANGED <<row, log, live, context>>

Seal(t) ==
    /\ Step(t, "seal", "settle")
    /\ manifest' = [manifest EXCEPT ![t] = Len(log[t])]
    /\ copy' = [copy EXCEPT ![t].row.hash = TRUE]
    /\ OnlyWorker /\ UNCHANGED <<row, log, live, context>>

Return(t) ==
    /\ Step(t, "return", "ran")
    /\ live' = [live EXCEPT ![t] = Absent]
    /\ OnlyWorker /\ UNCHANGED <<store, copy, context>>

(* A call fails: run() answers with fail(), and gives up when that fails    *)
(* too, with the failure in memory only.                                    *)
WorkerError(t) ==
    /\ MayFail /\ pc[t] \in RunPCs \ {"chat", "notice"}
    /\ copy' = [copy EXCEPT ![t].last = TRUE, ![t].row.status = "failed"]
    /\ pc' = [pc EXCEPT ![t] = IF copy[t].last THEN "return" ELSE "notice"]
    /\ OnlyWorker /\ UNCHANGED <<store, live, context>>

(* select!: the abandon signal drops the worker's future *)
Abandoned(t) ==
    /\ signal[t] = "fired" /\ InWorker(t)
    /\ pc' = [pc EXCEPT ![t] = "ran"]
    /\ OnlyWorker /\ UNCHANGED <<store, copy, live, context>>
-----------------------------------------------------------------------------
(* shutdown: past the grace period the runner is aborted, the guards drop,  *)
(* and what the worker still had in flight is cancelled one by one.         *)

AppAbort ==
    /\ MayAbort /\ runner = "up"
    /\ At(App, "idle")
    /\ LET dropped == {t \in Tasks : InDispatch(t)}
       IN  /\ dropped # {} \/ queue # <<>>
           /\ \A t \in dropped : pc[t] \in {"fetch", "admit"} \/ InWorker(t)
           /\ pc' = [t \in Tasks |-> IF t \in dropped THEN "over" ELSE pc[t]]
           /\ owned' = owned \ dropped
           /\ running' = running \ dropped
           /\ steer' = [t \in Tasks |-> IF t \in dropped THEN {} ELSE steer[t]]
           /\ signal' = [t \in Tasks |-> IF t \in dropped THEN "none" ELSE signal[t]]
    /\ runner' = "aborted"
    /\ call' = [call EXCEPT ![App].pc = "pick",
                            ![App].listed = [t \in {u \in Tasks : live[u] # Absent} |-> live[t]]]
    /\ UNCHANGED <<store, world, queue, cancelled, copy, live, context>>

AppPick ==
    /\ At(App, "pick")
    /\ LET left == call[App].listed
       IN  \/ \E t \in DOMAIN left :
                call' = [call EXCEPT ![App].pc = "mark", ![App].task = t, ![App].row = left[t],
                                     ![App].listed = [u \in DOMAIN left \ {t} |-> left[u]]]
           \/ left = Nothing /\ Go(App, "down")
    /\ UNCHANGED <<store, world, shared, worker>>
-----------------------------------------------------------------------------
Follow(e) == \/ FollowList(e) \/ FollowChoose(e) \/ FollowAppend(e) \/ FollowPush(e)
             \/ StartCreate(e) \/ StartRecord(e) \/ StartEnqueue(e)
             \/ Abandon(e) \/ AbandonReturns(e)

Cancel(c) == \/ CancelMark(c) \/ CancelReread(c) \/ CancelWrite(c) \/ CancelRecord(c)
             \/ CancelCard(c) \/ CancelSeal(c) \/ CancelStamp(c) \/ CancelTell(c)

Stop(s) == StopCommand(s) \/ StopNote(s)

Run(t) == \/ Fetch(t) \/ Admit(t) \/ ClearSteer(t) \/ Arm(t)
          \/ BuildMessages(t) \/ Save(t) \/ Refresh(t) \/ Fail(t) \/ StopAtTop(t) \/ Drain(t)
          \/ Chat(t) \/ Act(t) \/ SendCard(t) \/ RunTool(t)
          \/ SendAnswer(t) \/ SendNotice(t) \/ CloseCard(t) \/ CloseRecord(t)
          \/ Seal(t) \/ Return(t) \/ Abandoned(t)
          \/ LeaveRunning(t) \/ Disarm(t) \/ FinishTask(t)

Next == \/ \E e \in Events : FollowTurn(e) \/ Follow(e)
        \/ \E s \in Stoppers : StopResolve(s) \/ Stop(s)
        \/ \E c \in Callers : Cancel(c) \/ CancelWriteFails(c)
        \/ Pop
        \/ \E t \in Tasks : Run(t) \/ WorkerError(t)
        \/ AppAbort \/ AppPick

(* Threads are scheduled and awaited calls return: while a handler, the     *)
(* dispatch loop, the worker or the shutdown can go on, one of them does;    *)
(* as each has finitely many steps, so does every one in the end.  Nothing   *)
(* forces an event, a stop, a failure or a shutdown to happen.               *)
Progress == \/ \E e \in Events : Follow(e)
            \/ \E s \in Stoppers : Stop(s)
            \/ \E c \in Callers : Cancel(c)
            \/ Pop
            \/ \E t \in Tasks : Run(t)
            \/ AppPick

SafeSpec == Init /\ [][Next]_vars
Spec == SafeSpec /\ WF_vars(Progress)
-----------------------------------------------------------------------------
PCs == {"none", "fetch", "admit", "clear", "arm", "ran", "disarm", "finish", "over"}
         \cup WorkerPCs
CancelPCs == {"mark", "reread", "write", "close", "card", "seal", "stamp"}
CallPCs == {"idle", "list", "choose", "append", "push", "create", "record", "record2",
            "enqueue", "done", "command", "note", "refused", "tell", "returned", "told",
            "unsaved", "abandon", "gone", "pick", "down"} \cup CancelPCs
Kinds == {"created", "received", "work"} \cup Terminal
Listing == UNION {[S -> Row] : S \in SUBSET Tasks}
Call == [pc : CallPCs, task : Tasks \cup {NoTask}, row : Row, ran : BOOLEAN, listed : Listing]

StoreTypes == /\ row \in [Tasks -> Row]
              /\ log \in [Tasks -> Seq(Kinds)]
              /\ manifest \in [Tasks -> Nat]
WorldTypes == /\ card \in [Tasks -> {"none", "working"} \cup Terminal]
              /\ replied \in SUBSET Tasks /\ turns \in SUBSET Events
SharedTypes == /\ queue \in Seq(Tasks)
               /\ owned \in SUBSET Tasks /\ running \in SUBSET Tasks
               /\ cancelled \in SUBSET Tasks
               /\ steer \in [Tasks -> SUBSET Events]
               /\ signal \in [Tasks -> {"none", "armed", "fired"}]
               /\ runner \in {"up", "aborted"}
WorkerTypes == /\ pc \in [Tasks -> PCs]
               /\ copy \in [Tasks -> [row : Row, steps : 0..MaxSteps, last : BOOLEAN]]
               /\ live \in [Tasks -> Row]
               /\ context \in [Tasks -> [Events -> Nat]]

(* The types of the state: rows, records and sets of Shared, and the places *)
(* at which the handlers and the worker may be.                             *)
TypeOK == StoreTypes /\ WorldTypes /\ SharedTypes /\ WorkerTypes /\ call \in [Callers -> Call]

Closing(t) == {i \in DOMAIN log[t] : log[t][i] \in Terminal}

(* Nobody is at work on t: neither the dispatch, a handler nor shutdown.    *)
Quiet(t) ==
    /\ pc[t] \in {"none", "over"}
    /\ call[App].pc \in {"idle", "down"}
    /\ \A c \in Callers : call[c].task = t =>
          call[c].pc \notin {"append", "push", "record", "record2", "enqueue", "command",
                             "note", "abandon", "gone"} \cup CancelPCs
-----------------------------------------------------------------------------
(* Properties that hold of the code, under the circumstances each run sets. *)

(* A task is closed once: worker and cancel_task never both append a        *)
(* closing record, which is what the critical section of dispatch_task and  *)
(* cancel_task is for (dispatch.rs).                                        *)
ClosedOnce == \A t \in Tasks : Cardinality(Closing(t)) <= 1

(* Its evidence is finalized once: the manifest a root hash was handed out  *)
(* for is not written again (finalize_evidence, deliver.rs finish).         *)
SealedOnce == [][\A t \in Tasks : manifest[t] # 0 => manifest'[t] = manifest[t]]_vars

(* A cancellation that found the task not running has it to itself: no      *)
(* worker starts on it while the row, chain and card are being closed.      *)
StoppedBeforeRun ==
    \A c \in Callers :
        (call[c].pc \in CancelPCs \ {"mark"} /\ ~call[c].ran) => call[c].task \notin running

(* Store and chain tell one story: once all is quiet about a task that has  *)
(* been closed, its row has the status its last closing record names.       *)
Agreement ==
    \A t \in Tasks : (Quiet(t) /\ Closing(t) # {}) =>
        row[t].status = log[t][CHOOSE i \in Closing(t) : \A j \in Closing(t) : j <= i]

(* A card that was sent does not go on saying "working" once the task is    *)
(* over.                                                                    *)
CardSettled == \A t \in Tasks : (pc[t] = "over" /\ Quiet(t)) => card[t] # "working"

(* A delivered task stays delivered: cancel_task re-reads the row because a *)
(* snapshot may be stale (dispatch.rs).                                     *)
DeliveredStays ==
    [][\A t \in Tasks : row[t].status = "delivered" => row'[t].status = "delivered"]_vars

(* The sets of Shared tell where a task is: owned from the queue to the end *)
(* of its dispatch, running while a worker may have it.  !status, steering  *)
(* and cancellation rely on it, the guards of dispatch.rs keep it.          *)
OwnedIsLive ==
    /\ owned = {t \in Tasks : InDispatch(t) \/ \E i \in DOMAIN queue : queue[i] = t}
    /\ running = {t \in Tasks : InWorker(t) \/ pc[t] \in {"clear", "arm", "ran"}}

(* A task that is marked cancelled is closed in the end: the row terminal   *)
(* and the evidence finalized, whoever of worker and cancel_task does it.   *)
StopCloses ==
    (cancelled # {}) ~> (\A t \in cancelled : row[t].status \in Terminal /\ manifest[t] # 0)

(* What the abort of shutdown cuts off in the worker's hands is closed by   *)
(* shutdown: it ends with a closing record on its chain (run.rs).           *)
StrandedIsClosed ==
    At(App, "down") => \A t \in Tasks : live[t] # Absent => Closing(t) # {}

(* Every task the queue took leaves the dispatcher, unless that is aborted. *)
TaskEnds == \A t \in Tasks : (t \in owned) ~> (t \notin owned \/ runner = "aborted")
-----------------------------------------------------------------------------
(* Statements of the comments and tests of control, worker and app that the *)
(* code does not keep.                                                      *)

(* deliver.rs: the closing record is the last of the chain.                 *)
ClosingRecordIsLast == \A t \in Tasks : Closing(t) \subseteq {Len(log[t])}

(* sessions.rs: a chain starts with task_created, event_received.           *)
ChainStart ==
    \A t \in Tasks : /\ Len(log[t]) > 0 => log[t][1] = "created"
                     /\ Len(log[t]) > 1 => log[t][2] = "received"

(* dispatch.rs, FinishGuard: no follow-up waits in a queue that no worker   *)
(* is going to drain.                                                       *)
NoStrandedSteer == \A t \in Tasks : steer[t] # {} => t \in owned

(* dispatch.rs, dispatch_task: no message stands twice in the context.      *)
HeardOnce == \A t \in Tasks, e \in Events : context[t][e] <= 1

(* dispatch.rs, tests: one session never has two active tasks.              *)
OneActiveTask == Cardinality({t \in Tasks : row[t].status \in Active}) <= 1

(* commands/mod.rs, StopTarget: nobody is told "stopped" of a task whose    *)
(* answer is posted after that.                                             *)
ToldMeansStopped ==
    [][\A s \in Stoppers : (At(s, "told") /\ call[s].task \in replied') => call[s].task \in replied]_vars

(* run.rs, shutdown: what was popped before the abort is closed by it.      *)
CutOffIsClosed ==
    At(App, "down") => \A t \in Tasks : pc[t] = "over" => row[t].status \in Terminal
=============================================================================
