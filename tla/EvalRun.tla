------------------------------ MODULE EvalRun ------------------------------
(***************************************************************************)
(* One scenario of an evaluation: evals/src/runner.rs drives the plan of    *)
(* events into a control plane and waits, judges and clears up.  With        *)
(* `--sandbox docker` the worker's calls go through SandboxProbe, which      *)
(* counts those under way (evals/src/real_stack.rs), and LeasedSandbox,      *)
(* which knows what has to be given back (app/src/wiring.rs), to edge.  The  *)
(* plane dispatches one task at a time; of its worker the talk and the      *)
(* sandbox are kept.  A deadline may pass wherever it runs.                  *)
(***************************************************************************)
EXTENDS Naturals, Sequences

CONSTANTS
  Plans,      \* sequences of events: what each starts and what it waits for
  MaxBoxes,   \* bound on the sandboxes a task asks for
  MaxFaults,  \* bound on what fails, is dropped for its timeout, or panics
  None

VARIABLES
  plan, next,   \* dispatch_plan, and the event to come
  pc,           \* where run_scenario is; "idle" and "settle" are in settle()
  phase,        \* of the result; None until it is known
  loop,         \* the task of run_forever: None, "up", "dead" or "stopped"
  queue,
  task,         \* per event its task: where its worker is, its sandbox, and
                \* how many it has asked for
  model,        \* ModelProbe.in_flight
  failed,       \* ModelProbe.last_failed
  sandbox,      \* SandboxProbe.in_flight
  live,         \* LeasedSandbox.live
  owed,         \* what close_all has taken from it and not given back yet
  boxes,        \* the containers there are
  untold,       \* those whose acquire was dropped before its answer
  kept,         \* those edge refused to release
  early,        \* an event was sent before what it was to wait for
  faults

runner == <<plan, next, pc, phase>>
edge == <<live, owed, boxes, untold, kept>>
counts == <<model, failed, sandbox>>
vars == <<runner, loop, queue, task, counts, edge, early, faults>>

Events == DOMAIN plan
At(t, where) == task[t].pc = where
Started == {t \in Events : ~At(t, None)}
Active == {t \in Started : ~At(t, "over")}        \* by their rows
Unfinished == {t \in Active : ~At(t, "dropped")}  \* what join() waits for
AtWork == Unfinished \ {t \in Events : At(t, "created")}
Goes(t, where) == task' = [task EXCEPT ![t].pc = where]
Fault == faults < MaxFaults /\ faults' = faults + 1

Init ==
  /\ plan \in Plans /\ next = 1 /\ pc = "wiring" /\ phase = None
  /\ loop = None /\ queue = <<>>
  /\ task = [t \in Events |-> [pc |-> None, box |-> None, asked |-> 0]]
  /\ model = 0 /\ failed = FALSE /\ sandbox = 0
  /\ live = {} /\ owed = {} /\ boxes = {} /\ untold = {} /\ kept = {}
  /\ early = FALSE /\ faults = 0

-----------------------------------------------------------------------------
\* The plane and its worker

Works(t) == loop = "up" /\ t \in Events
Same == UNCHANGED <<runner, loop, early>>

Pop ==
  /\ loop = "up" /\ queue # <<>> /\ AtWork = {}
  /\ Goes(Head(queue), "work") /\ queue' = Tail(queue)
  /\ Same /\ UNCHANGED <<counts, edge, faults>>

Ask(t) ==
  /\ Works(t) /\ (At(t, "work") \/ At(t, "backoff"))
  /\ Goes(t, "chat") /\ model' = model + 1
  /\ Same /\ UNCHANGED <<queue, failed, sandbox, edge, faults>>

Answers(t) ==
  /\ Works(t) /\ At(t, "chat")
  /\ model' = model - 1
  /\ \/ Goes(t, "work") /\ failed' = FALSE /\ UNCHANGED faults
     \/ Goes(t, "backoff") /\ failed' = TRUE /\ Fault
  /\ Same /\ UNCHANGED <<queue, sandbox, edge>>

\* A call goes through track: it counts until it has come back.
Call(t, where) ==
  /\ Goes(t, where) /\ sandbox' = sandbox + 1
  /\ Same /\ UNCHANGED <<queue, model, failed, owed, boxes, untold, kept, faults>>
Back(t) ==
  /\ Works(t) /\ sandbox' = sandbox - 1
  /\ Same /\ UNCHANGED <<queue, model, failed>>

Acquire(t) ==
  /\ Works(t) /\ At(t, "work") /\ task[t].box = None /\ task[t].asked < MaxBoxes
  /\ Call(t, "acquire") /\ UNCHANGED live
Box(t) == <<t, task[t].asked>>
Make(t) ==
  /\ Works(t) /\ At(t, "acquire")
  /\ Goes(t, "made") /\ boxes' = boxes \cup {Box(t)}
  /\ Same /\ UNCHANGED <<queue, counts, live, owed, untold, kept, faults>>
Acquired(t) ==
  /\ At(t, "made") /\ Back(t)
  /\ task' = [task EXCEPT ![t] = [pc |-> "work", box |-> Box(t), asked |-> @.asked + 1]]
  /\ live' = live \cup {Box(t)}
  /\ UNCHANGED <<owed, boxes, untold, kept, faults>>
NotAcquired(t) ==
  /\ At(t, "acquire") /\ Back(t) /\ Fault
  /\ task' = [task EXCEPT ![t].pc = "work", ![t].asked = @ + 1] /\ UNCHANGED edge

Exec(t) == Works(t) /\ At(t, "work") /\ task[t].box # None /\ Call(t, "exec") /\ UNCHANGED live
Executed(t) == At(t, "exec") /\ Back(t) /\ Goes(t, "work") /\ UNCHANGED <<edge, faults>>

\* The gateway's timeout drops the call; track does not get to its end.
TimesOut(t) ==
  /\ Works(t) /\ task[t].pc \in {"acquire", "made", "exec"} /\ Fault
  /\ untold' = IF At(t, "made") THEN untold \cup {Box(t)} ELSE untold
  /\ task' = [task EXCEPT ![t].pc = "work", ![t].asked = IF At(t, "exec") THEN @ ELSE @ + 1]
  /\ Same /\ UNCHANGED <<queue, counts, live, owed, boxes, kept>>

\* The end of a task; LeasedSandbox forgets the sandbox before it asks edge.
End(t) ==
  /\ Works(t) /\ (At(t, "work") \/ At(t, "backoff"))
  /\ IF task[t].box = None
     THEN Goes(t, "over") /\ Same /\ UNCHANGED <<queue, counts, edge, faults>>
     ELSE Call(t, "release") /\ live' = live \ {task[t].box}
Released(t) ==
  /\ At(t, "release") /\ Back(t) /\ Goes(t, "over")
  /\ \/ boxes' = boxes \ {task[t].box} /\ UNCHANGED <<kept, faults>>
     \/ kept' = kept \cup {task[t].box} /\ Fault /\ UNCHANGED boxes
  /\ UNCHANGED <<live, owed, untold>>

\* run_forever ends, with all that it is in the middle of.
Drops ==
  /\ task' = [t \in Events |-> IF t \in AtWork THEN [task[t] EXCEPT !.pc = "dropped"] ELSE task[t]]
  /\ untold' = untold \cup {Box(t) : t \in {u \in Events : At(u, "made")}}
  /\ kept' = kept \cup {task[t].box : t \in {u \in Events : At(u, "release")}}
Panic ==
  /\ loop = "up" /\ Fault /\ loop' = "dead" /\ Drops
  /\ UNCHANGED <<runner, queue, counts, live, owed, boxes, early>>

-----------------------------------------------------------------------------
\* run_scenario

System == UNCHANGED <<queue, counts, edge>>
Ends(why) == pc' = "closing" /\ phase' = why /\ UNCHANGED <<plan, next>>

\* execute up to start_loop.
Start ==
  /\ pc = "wiring"
  /\ \/ pc' = "plan" /\ loop' = "up" /\ UNCHANGED <<plan, next, phase, faults>>
     \/ Fault /\ Ends("wiring") /\ UNCHANGED loop
     \/ Fault /\ Ends("drive") /\ loop' = "stopped"
  /\ System /\ UNCHANGED <<task, early>>

After == IF next > Len(plan) THEN "settle" ELSE plan[next].after

\* drive: the next event at once or after its wait, and at last settle.
Wait ==
  /\ pc = "plan" /\ After # "none" /\ pc' = After
  /\ System /\ UNCHANGED <<plan, next, phase, loop, task, early, faults>>

\* settle, once join() has returned.
Busy == model > 0 \/ (failed /\ Active # {}) \/ sandbox > 0
Quiet == Unfinished = {} /\ ~Busy /\ queue = <<>>

Last(S) == CHOOSE t \in S : \A u \in S : u <= t
Running == Started # {} /\ ~At(Last(Started), "created")

\* What is waited for is there, or the deadline passes.
Waited ==
  /\ pc \in {"idle", "running", "settle"}
  /\ \/ pc' = (CASE pc = "settle" -> "stopping" [] OTHER -> "send")
        /\ (IF pc = "running" THEN Running ELSE Quiet) /\ UNCHANGED phase
     \/ pc' = "stopping" /\ phase' = IF pc = "settle" THEN "drive" ELSE "dispatch"
  /\ System /\ UNCHANGED <<plan, next, loop, task, early, faults>>

\* emit: handle_event is awaited.  If it panics, run_scenario catches that, and
\* execute does not come to stop_loop.
Send ==
  /\ pc = "send" \/ (pc = "plan" /\ After = "none")
  /\ early' = (early \/ (plan[next].after = "idle" /\ Unfinished # {})
                     \/ (plan[next].after = "running" /\ ~Running))
  /\ \/ /\ pc' = "plan" /\ next' = next + 1
        /\ IF plan[next].starts THEN Goes(next, "created") /\ queue' = Append(queue, next)
                                ELSE UNCHANGED <<task, queue>>
        /\ UNCHANGED <<phase, faults>>
     \/ /\ Fault /\ UNCHANGED <<next, task, queue>>
        /\ \/ pc' = "stopping" /\ phase' = "dispatch"
           \/ pc' = "closing" /\ phase' = "error"
  /\ UNCHANGED <<plan, loop, counts, edge>>

\* stop_loop: what it finds matters only if drive had no complaint.
Stop ==
  /\ pc = "stopping"
  /\ IF loop = "up" THEN Drops ELSE UNCHANGED <<task, untold, kept>>
  /\ loop' = "stopped"
  /\ phase' = IF loop = "dead" /\ phase = None THEN "drive" ELSE phase
  /\ pc' = "closing"
  /\ UNCHANGED <<plan, next, queue, counts, live, owed, boxes, early, faults>>

\* Deps::close: LeasedSandbox.close_all takes what there is and gives back one
\* after the other.
Close ==
  /\ pc = "closing" /\ pc' = "giving" /\ owed' = live /\ live' = {}
  /\ UNCHANGED <<plan, next, phase, loop, queue, task, counts, boxes, untold, kept, early, faults>>
GiveBack ==
  /\ pc = "giving"
  /\ \E b \in owed :
       /\ owed' = owed \ {b}
       /\ \/ boxes' = boxes \ {b} /\ UNCHANGED <<kept, faults>>
          \/ kept' = kept \cup {b} /\ Fault /\ UNCHANGED boxes
  /\ UNCHANGED <<runner, loop, queue, task, counts, live, untold, early>>

\* run_checks, if there is something to judge; a check may panic.
Judge ==
  /\ pc = "giving" /\ owed = {} /\ pc' = "over"
  /\ \/ phase' = (IF phase = None THEN "ok" ELSE phase) /\ UNCHANGED faults
     \/ phase = None /\ phase' = "assert" /\ UNCHANGED faults
     \/ phase = None /\ phase' = "error" /\ Fault
  /\ System /\ UNCHANGED <<plan, next, loop, task, early>>

Next ==
  \/ Pop \/ Panic \/ Start \/ Wait \/ Waited \/ Send \/ Stop \/ Close \/ GiveBack \/ Judge
  \/ \E t \in Events : \/ Ask(t) \/ Answers(t) \/ Acquire(t) \/ Make(t) \/ Acquired(t) \/ NotAcquired(t)
                       \/ Exec(t) \/ Executed(t) \/ TimesOut(t) \/ End(t) \/ Released(t)

Spec == Init /\ [][Next]_vars

-----------------------------------------------------------------------------
\* Every variable holds what its declaration says, the counters at least what
\* is under way.
TypeOK ==
  /\ next \in 1 .. Len(plan) + 1 /\ phase \in {None, "wiring", "dispatch", "drive", "assert", "error", "ok"}
  /\ loop \in {None, "up", "dead", "stopped"} /\ (AtWork # {} => loop = "up")
  /\ \A i \in DOMAIN queue : At(queue[i], "created")
  /\ (\E t \in Events : At(t, "chat")) => model > 0
  /\ (\E t \in Events : task[t].pc \in {"acquire", "made", "exec", "release"}) => sandbox > 0
  /\ live \subseteq boxes /\ faults \in 0..MaxFaults

\* Once the scenario is judged no container is left of it, but for those
\* nobody was told of and those edge refused to release, wherever the loop was
\* stopped or fell over (LeasedSandbox, Deps::close).
NothingIsLeft == (pc = "over" /\ loop \in {None, "stopped"}) => boxes \subseteq untold \cup kept

\* A scenario is judged by its checks only when all its events have been
\* handled, in time, and every task has come to its end under a loop that
\* lived (execute, drive, settle).
JudgedIsDone ==
  phase \in {"ok", "assert"} => next > Len(plan) /\ Active = {} /\ loop = "stopped"

\* No event goes out before what its `after` waits for (wait_before_dispatch).
InTime == ~early

\* Refuted by a handler that panics: the handle of the loop is dropped, which
\* does not stop it, and its worker goes on after the scenario was closed.
OverIsStopped == pc = "over" => loop \in {None, "stopped"}

\* Refuted by a sandbox call that the gateway's timeout drops: SandboxProbe
\* goes on counting it, and the scenario is said never to come to rest
\* although nothing runs (real_stack.rs, track).
BusyIsReal == (pc = "settle" /\ Unfinished = {}) => ~Busy
=============================================================================
