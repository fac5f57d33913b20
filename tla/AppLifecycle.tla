---------------------------- MODULE AppLifecycle ----------------------------
(***************************************************************************)
(* The life of `aite run` (core/crates/app/src/cli.rs, run.rs) and the     *)
(* socket it listens on for edge (edge-client/src/ingress.rs): assemble,   *)
(* install the signal handlers, take off (tables, orphans of the last      *)
(* life, ingress socket, dispatch), serve until told to stop, and shut     *)
(* down in the frozen order.  One process follows another on the same      *)
(* data directory and the same socket path; with overlap, the next one may *)
(* be started while the last one is still there.                           *)
(*                                                                         *)
(* A task stands for all that a process runs.  What happens to a single    *)
(* task at shutdown is the subject of TaskLifecycle.                       *)
(***************************************************************************)
EXTENDS Naturals

CONSTANTS
  Procs,     \* the processes, each of which lives once
  Overlaps,  \* the values of overlap to start from
  MaxFaults  \* bound: kills, deaths of the dispatch loop and calls that fail

VARIABLES
  overlap,   \* whether a process may start while another lives
  pc,        \* where each process is
  file,      \* the process that bound the socket file at the path, or "none"
  listening, \* processes whose listener is open
  hits,      \* signals each process has handled
  stop,      \* StopSignal
  runner,    \* the task of run_forever: "none", "running" or "ended"
  timedOut,  \* join() did not return within the grace period
  task,      \* the task of each process, as its row says
  status,    \* the exit status of each process, "none" while it lives
  faults

vars == <<overlap, pc, file, listening, hits, stop, runner, timedOut, task, status, faults>>

Living == {p \in Procs : pc[p] \notin {"new", "exited"}}

Init ==
  /\ overlap \in Overlaps
  /\ pc = [p \in Procs |-> "new"]
  /\ file = "none"
  /\ listening = {}
  /\ hits = [p \in Procs |-> 0]
  /\ stop = [p \in Procs |-> FALSE]
  /\ runner = [p \in Procs |-> "none"]
  /\ timedOut = [p \in Procs |-> FALSE]
  /\ task = [p \in Procs |-> "none"]
  /\ status = [p \in Procs |-> "none"]
  /\ faults = 0

\* From one step of run_app to the next.
Goto(p, from, to) == pc[p] = from /\ pc' = [pc EXCEPT ![p] = to]

Fault == faults < MaxFaults /\ faults' = faults + 1

-----------------------------------------------------------------------------
\* cli::run and the beginning of run_app.

Start(p) ==
  /\ overlap \/ Living = {}
  /\ Goto(p, "new", "build")
  /\ UNCHANGED <<overlap, file, listening, hits, stop, runner, timedOut, task, status, faults>>

\* build_app has its reasons not to take off (configuration, prompt, contract).
BuildFails(p) ==
  /\ Fault
  /\ Goto(p, "build", "exited")
  /\ status' = [status EXCEPT ![p] = "startup"]
  /\ UNCHANGED <<overlap, file, listening, hits, stop, runner, timedOut, task>>

\* install_signal_handlers: from here on a signal is a stop.
InstallHandlers(p) ==
  /\ Goto(p, "build", "init")
  /\ UNCHANGED <<overlap, file, listening, hits, stop, runner, timedOut, task, status, faults>>

\* takeoff: store.init; what fails goes to the shutdown, with its error.
InitStore(p) ==
  /\ \/ Goto(p, "init", "recover") /\ UNCHANGED <<status, faults>>
     \/ Fault /\ Goto(p, "init", "down") /\ status' = [status EXCEPT ![p] = "failing"]
  /\ UNCHANGED <<overlap, file, listening, hits, stop, runner, timedOut, task>>

\* recover_orphans closes every active task the store knows.
Recover(p) ==
  /\ Goto(p, "recover", "look")
  /\ task' = [q \in Procs |-> IF task[q] = "running" THEN "orphaned" ELSE task[q]]
  /\ UNCHANGED <<overlap, file, listening, hits, stop, runner, timedOut, status, faults>>

-----------------------------------------------------------------------------
\* IngressServer::start: look whether the file is in use, clear it away, bind.

Look_TrustsTheFile(p) ==
  /\ IF file # "none"
     THEN Goto(p, "look", "down") /\ status' = [status EXCEPT ![p] = "failing"]
     ELSE Goto(p, "look", "bind") /\ UNCHANGED status
  /\ UNCHANGED <<overlap, file, listening, hits, stop, runner, timedOut, task, faults>>

Look(p) ==
  /\ \/ file = "none" /\ Goto(p, "look", "bind") /\ UNCHANGED status
     \/ /\ file \in listening
        /\ Goto(p, "look", "down")
        /\ status' = [status EXCEPT ![p] = "failing"]
     \/ file \in Procs \ listening /\ Goto(p, "look", "clear") /\ UNCHANGED status
  /\ UNCHANGED <<overlap, file, listening, hits, stop, runner, timedOut, task, faults>>

Clear(p) ==
  /\ Goto(p, "clear", "bind")
  /\ file' = "none"
  /\ UNCHANGED <<overlap, listening, hits, stop, runner, timedOut, task, status, faults>>

\* bind() refuses a path that exists.
Bind(p) ==
  /\ \/ /\ file = "none"
        /\ Goto(p, "bind", "spawn")
        /\ file' = p
        /\ listening' = listening \cup {p}
        /\ UNCHANGED status
     \/ /\ file # "none"
        /\ Goto(p, "bind", "down")
        /\ status' = [status EXCEPT ![p] = "failing"]
        /\ UNCHANGED <<file, listening>>
  /\ UNCHANGED <<overlap, hits, stop, runner, timedOut, task, faults>>

Spawn(p) ==
  /\ Goto(p, "spawn", "serve")
  /\ runner' = [runner EXCEPT ![p] = "running"]
  /\ UNCHANGED <<overlap, file, listening, hits, stop, timedOut, task, status, faults>>

-----------------------------------------------------------------------------
\* Serving.

\* edge delivers an event to whoever listens behind the path; it waits in the
\* queue until run_forever runs.
Deliver(p) ==
  /\ file = p /\ p \in listening
  /\ task[p] = "none"
  /\ task' = [task EXCEPT ![p] = "queued"]
  /\ UNCHANGED <<overlap, pc, file, listening, hits, stop, runner, timedOut, status, faults>>

Run(p) ==
  /\ runner[p] = "running" /\ task[p] = "queued"
  /\ task' = [task EXCEPT ![p] = "running"]
  /\ UNCHANGED <<overlap, pc, file, listening, hits, stop, runner, timedOut, status, faults>>

Finish(p) ==
  /\ runner[p] = "running" /\ task[p] \in {"running", "orphaned"}
  /\ task' = [task EXCEPT ![p] = "closed"]
  /\ UNCHANGED <<overlap, pc, file, listening, hits, stop, runner, timedOut, status, faults>>

RunnerDies(p) ==
  /\ Fault
  /\ runner[p] = "running"
  /\ runner' = [runner EXCEPT ![p] = "ended"]
  /\ UNCHANGED <<overlap, pc, file, listening, hits, stop, timedOut, task, status>>

\* serve: the stop, or the end of the dispatch loop.  Looking at the value
\* first is what hears a stop that came before anybody waited for it.
Serve(p) ==
  /\ stop[p] \/ runner[p] = "ended"
  /\ Goto(p, "serve", "down")
  /\ UNCHANGED <<overlap, file, listening, hits, stop, runner, timedOut, task, status, faults>>

-----------------------------------------------------------------------------
\* Signals.

\* Before the handlers are there a signal ends the process, the first one
\* after that sets the stop, the second one is exit(130).
FirstSignal_NeedsListener(p) ==
  /\ pc[p] \notin {"new", "build", "exited"}
  /\ hits[p] = 0
  /\ hits' = [hits EXCEPT ![p] = 1]
  /\ stop' = [stop EXCEPT ![p] = pc[p] = "serve"]
  /\ UNCHANGED <<overlap, pc, file, listening, runner, timedOut, task, status, faults>>

FirstSignal(p) ==
  /\ pc[p] \notin {"new", "build", "exited"}
  /\ hits[p] = 0
  /\ hits' = [hits EXCEPT ![p] = 1]
  /\ stop' = [stop EXCEPT ![p] = TRUE]
  /\ UNCHANGED <<overlap, pc, file, listening, runner, timedOut, task, status, faults>>

\* The kernel closes what a process has open; the socket file stays.
Gone_KeepsListening(p, how) ==
  /\ pc' = [pc EXCEPT ![p] = "exited"]
  /\ runner' = [runner EXCEPT ![p] = IF @ = "running" THEN "ended" ELSE @]
  /\ status' = [status EXCEPT ![p] = how]
  /\ UNCHANGED <<overlap, file, listening, stop, timedOut, task>>

Gone(p, how) ==
  /\ pc' = [pc EXCEPT ![p] = "exited"]
  /\ listening' = listening \ {p}
  /\ runner' = [runner EXCEPT ![p] = IF @ = "running" THEN "ended" ELSE @]
  /\ status' = [status EXCEPT ![p] = how]
  /\ UNCHANGED <<overlap, file, stop, timedOut, task>>

SecondSignal(p) ==
  /\ pc[p] \notin {"new", "build", "exited"}
  /\ hits[p] = 1
  /\ hits' = [hits EXCEPT ![p] = 2]
  /\ Gone(p, "hard")
  /\ UNCHANGED faults

Killed(p) ==
  /\ Fault
  /\ p \in Living
  /\ Gone(p, "killed")
  /\ UNCHANGED hits

-----------------------------------------------------------------------------
\* shutdown.

\* platform.stop: tonic closes the listener, ...
StopListening(p) ==
  /\ Goto(p, "down", IF p \in listening THEN "unlink" ELSE "join")
  /\ listening' = listening \ {p}
  /\ UNCHANGED <<overlap, file, hits, stop, runner, timedOut, task, status, faults>>

\* ... finishes what it serves, and the file at the path is removed.
Unlink(p) ==
  /\ Goto(p, "unlink", "join")
  /\ file' = "none"
  /\ UNCHANGED <<overlap, listening, hits, stop, runner, timedOut, task, status, faults>>

\* plane.join() within the grace period, unless the runner has ended.
Join(p) ==
  /\ Goto(p, "join", "abort")
  /\ \/ runner[p] # "running" /\ UNCHANGED timedOut
     \/ runner[p] = "running" /\ task[p] \in {"none", "closed"} /\ UNCHANGED timedOut
     \/ runner[p] = "running" /\ timedOut' = [timedOut EXCEPT ![p] = TRUE]
  /\ UNCHANGED <<overlap, file, listening, hits, stop, runner, task, status, faults>>

Abort(p) ==
  /\ Goto(p, "abort", "cancel")
  /\ runner' = [runner EXCEPT ![p] = IF @ = "running" THEN "ended" ELSE @]
  /\ UNCHANGED <<overlap, file, listening, hits, stop, timedOut, task, status, faults>>

\* What the worker had in hand when it was aborted is cancelled.
Cancel(p) ==
  /\ Goto(p, "cancel", "close")
  /\ task' = IF timedOut[p] /\ task[p] = "running" THEN [task EXCEPT ![p] = "closed"] ELSE task
  /\ UNCHANGED <<overlap, file, listening, hits, stop, runner, timedOut, status, faults>>

\* sandbox.close_all, store.close, and the exit status of the outcome.
Close(p) ==
  /\ Goto(p, "close", "exited")
  /\ status' = [status EXCEPT ![p] = IF @ = "failing" THEN "startup" ELSE "ok"]
  /\ UNCHANGED <<overlap, file, listening, hits, stop, runner, timedOut, task, faults>>

-----------------------------------------------------------------------------

RunApp(p) ==
  \/ BuildFails(p) \/ InstallHandlers(p) \/ InitStore(p) \/ Recover(p)
  \/ Look(p) \/ Clear(p) \/ Bind(p) \/ Spawn(p) \/ Serve(p)
  \/ StopListening(p) \/ Unlink(p) \/ Join(p) \/ Abort(p) \/ Cancel(p) \/ Close(p)

Next == \E p \in Procs :
  \/ RunApp(p)
  \/ Start(p)
  \/ Deliver(p) \/ Run(p) \/ Finish(p) \/ RunnerDies(p)
  \/ FirstSignal(p) \/ SecondSignal(p) \/ Killed(p)

\* A process that can go on does; nobody has to start, signal or kill it.
\* As each has finitely many steps, that some process goes on is enough.
Progress == \E p \in Procs : RunApp(p)

Spec == Init /\ [][Next]_vars /\ WF_vars(Progress)

-----------------------------------------------------------------------------

\* Types, and whoever listens is between bind and the stop of its platform.
TypeOK ==
  /\ pc \in [Procs -> {"new", "build", "init", "recover", "look", "clear", "bind", "spawn",
                       "serve", "down", "unlink", "join", "abort", "cancel", "close", "exited"}]
  /\ file \in Procs \cup {"none"}
  /\ hits \in [Procs -> 0..2]
  /\ stop \in [Procs -> BOOLEAN]
  /\ runner \in [Procs -> {"none", "running", "ended"}]
  /\ timedOut \in [Procs -> BOOLEAN]
  /\ task \in [Procs -> {"none", "queued", "running", "closed", "orphaned"}]
  /\ status \in [Procs -> {"none", "failing", "startup", "ok", "hard", "killed"}]
  /\ faults \in 0..MaxFaults
  /\ \A p \in listening : pc[p] \in {"spawn", "serve", "down"}

\* Only a core that really listens keeps another one from taking off: the file
\* that a crash or a hard exit leaves behind never does.
RefusedForALiveOne ==
  [][\A p \in Procs :
       pc[p] \in {"look", "bind"} /\ status[p] # "failing" /\ status'[p] = "failing"
         => overlap \/ \E q \in Procs \ {p} : q \in listening]_vars

\* A stop is heard whenever it comes after the handlers are installed, also
\* before serve() waits for it (run.rs, StopSignal::set): the process goes
\* through its shutdown and exits.
SignalledExits == \A p \in Procs : hits[p] > 0 => pc[p] = "exited"
StopIsHeard == <>[]SignalledExits

\* A core that exits by its own shutdown, its dispatch loop alive until then,
\* leaves no task that its row still calls running.
StoppedIsSettled ==
  \A p \in Procs : status[p] = "ok" /\ timedOut[p] => task[p] # "running"

\* Not kept with overlap.  Recovery fails only what a dead process left behind
\* (run.rs: 「把上一条命遗留的活跃任务收干净」); it comes before the look at the
\* socket that turns a second core away.
RunningIsNoOrphan ==
  [][\A p \in Procs : task[p] = "running" /\ task'[p] = "orphaned" => p \notin Living]_vars

\* Not kept with overlap.  A core that serves is the one behind the socket path
\* (ingress.rs: 「无条件删会把活着的实例静默挤下线」); start() looks before it removes
\* and stop() does not look at all.
ServingIsReachable == \A p \in Procs : pc[p] = "serve" => file = p

=============================================================================
