---------------------------- MODULE SandboxLease ----------------------------
(***************************************************************************)
(* The sandboxes of tasks.  Core's gateway (gateway.rs, tools) keeps the    *)
(* sandbox_id of each task and asks edge for one when a tool needs it; edge *)
(* (sandbox/docker.go) keeps its boxes, which it loses when it restarts;    *)
(* the Docker daemon keeps the containers.  The reaper of core's control    *)
(* plane lets edge remove what has been idle, and what carries the label    *)
(* but is in no box.  Nobody tells the gateway: a tool finds out when edge  *)
(* does not know the sandbox, forgets it, and tries once more in a new one. *)
(*                                                                         *)
(* A call is a future: the budget of the tool, or the end of the run it is  *)
(* part of, may drop it at any await; the request that edge is handling is  *)
(* cancelled with it.  Time is one bit: a box is idle when its last touch,  *)
(* a container old when its start, lies further back than idle_sec.         *)
(***************************************************************************)
EXTENDS Naturals, FiniteSets

CONSTANTS Tasks, Calls,
          Asks,         \* what the calls may be, as functions
          MaxBoxes,     \* how many containers may be created
          MaxFaults,    \* how often the daemon or a request fails, or edge restarts
          None

Ids == 1..MaxBoxes
Kind == {"python", "attachment", "list", "artifact"}

VARIABLES
    ask,        \* what each call is: chosen at the start, never changed
    registered, \* the tasks whose session token is known
    booked,     \* the gateway's sandbox_ids
    held,       \* the calls that hold the acquire lock of their task
    call,       \* where each call is
    closing,    \* the sandbox that release_task of each task has in hand
    box,        \* edge's boxes: "no", "fresh" or "idle"
    container,  \* the daemon's containers
    reaper,     \* where ReapIdle is
    faults

core == <<registered, booked, held>>
sandboxes == <<box, container>>
vars == <<ask, core, call, closing, sandboxes, reaper, faults>>

Waiting == [pc |-> "idle", id |-> None, dead |-> None, result |-> "none"]

Init ==
    /\ ask \in Asks
    /\ registered = Tasks
    /\ booked = [t \in Tasks |-> None]
    /\ held = {}
    /\ call = [c \in Calls |-> Waiting]
    /\ closing = [t \in Tasks |-> None]
    /\ box = [i \in Ids |-> "no"]
    /\ container = [i \in Ids |-> [at |-> "none", task |-> None, old |-> FALSE]]
    /\ reaper = [pc |-> "asleep", known |-> {}, victims |-> {}]
    /\ faults = 0
-----------------------------------------------------------------------------
At(c, p) == call[c].pc = p
Go(c, p) == call' = [call EXCEPT ![c].pc = p]
Use(c, i) == call' = [call EXCEPT ![c].pc = "request", ![c].id = i]
Return(c, r) == call' = [call EXCEPT ![c].pc = "done", ![c].result = r]
Task(c) == ask[c].task
Exists(i) == container[i].at \in {"created", "running"}
Fault == faults < MaxFaults /\ faults' = faults + 1

(* Release: the box goes first; the container may stay if the daemon fails *)
Dispose(i) == box' = [box EXCEPT ![i] = "no"] /\ container' = [container EXCEPT ![i].at = "gone"]
DisposeFails(i) == box' = [box EXCEPT ![i] = "no"] /\ UNCHANGED container
-----------------------------------------------------------------------------
(* P0ToolGateway::call: the token first; then tool, policy and arguments,   *)
(* which may refuse the call.                                              *)

Begin_TrustsCaller(c) ==
    /\ At(c, "idle")
    /\ \/ Go(c, "look")
       \/ Return(c, "refused")
    /\ UNCHANGED <<ask, core, closing, sandboxes, reaper, faults>>

Begin(c) ==
    /\ At(c, "idle")
    /\ \/ Task(c) \in registered /\ Go(c, "look")
       \/ Return(c, "refused")
    /\ UNCHANGED <<ask, core, closing, sandboxes, reaper, faults>>

LookUp_Unchecked(c) ==
    /\ At(c, "look")
    /\ Use(c, booked[Task(c)])
    /\ UNCHANGED <<ask, core, closing, sandboxes, reaper, faults>>

(* A sandbox that is booked is used.  Listing files, and fetching a product *)
(* of the task, do not start one.                                          *)
LookUp(c) ==
    /\ At(c, "look")
    /\ \/ booked[Task(c)] # None /\ Use(c, booked[Task(c)])
       \/ /\ booked[Task(c)] = None
          /\ \/ ask[c].kind \in {"python", "attachment"} /\ Go(c, "wait")
             \/ ask[c].kind = "list" /\ Return(c, "ok")
             \/ ask[c].kind = "artifact" /\ Return(c, "missing")
    /\ UNCHANGED <<ask, core, closing, sandboxes, reaper, faults>>

Locked(c) == \E d \in held : Task(d) = Task(c)

TakeLock_ChecksOnce(c) ==
    /\ At(c, "wait") /\ ~Locked(c)
    /\ held' = held \cup {c} /\ Go(c, "create")
    /\ UNCHANGED <<ask, registered, booked, closing, sandboxes, reaper, faults>>

(* The lock, and under it the look again.                                  *)
TakeLock(c) ==
    /\ At(c, "wait") /\ ~Locked(c)
    /\ IF booked[Task(c)] # None
       THEN Use(c, booked[Task(c)]) /\ UNCHANGED held
       ELSE Go(c, "create") /\ held' = held \cup {c}
    /\ UNCHANGED <<ask, registered, booked, closing, sandboxes, reaper, faults>>
-----------------------------------------------------------------------------
(* Docker.Acquire: create, start and book the box, probe.                  *)

Create(c) ==
    LET free == {i \in Ids : container[i].at = "none"}
    IN  /\ At(c, "create")
        /\ \E i \in free :
             /\ \A j \in free : i <= j
             /\ container' = [container EXCEPT ![i].at = "created", ![i].task = Task(c)]
             /\ call' = [call EXCEPT ![c].pc = "start", ![c].id = i]
        /\ UNCHANGED <<ask, core, closing, box, reaper, faults>>

Start(c) ==
    /\ At(c, "start")
    /\ container' = [container EXCEPT ![call[c].id].at = "running"]
    /\ box' = [box EXCEPT ![call[c].id] = "fresh"]
    /\ Go(c, "probe")
    /\ UNCHANGED <<ask, core, closing, reaper, faults>>

(* The probe passes and the answer reaches core, which books the sandbox.   *)
Probe(c) ==
    /\ At(c, "probe")
    /\ booked' = [booked EXCEPT ![Task(c)] = call[c].id]
    /\ held' = held \ {c}
    /\ Go(c, "request")
    /\ UNCHANGED <<ask, registered, closing, sandboxes, reaper, faults>>

(* Acquire fails: no image, no daemon, a container that does not start or   *)
(* is not fit; what was created is released, if the daemon lets it.         *)
AcquireFails(c) ==
    /\ call[c].pc \in {"create", "start", "probe"}
    /\ Fault
    /\ held' = held \ {c}
    /\ Return(c, "sandbox")
    /\ IF At(c, "create") THEN UNCHANGED sandboxes
       ELSE Dispose(call[c].id) \/ DisposeFails(call[c].id)
    /\ UNCHANGED <<ask, registered, booked, closing, reaper>>
-----------------------------------------------------------------------------
(* Exec, PutFile, ListFiles and GetFile: the box is looked up, the work is  *)
(* done in the container, the box is touched.                              *)

Request(c) ==
    /\ At(c, "request")
    /\ Go(c, IF box[call[c].id] = "no" THEN "lost" ELSE "working")
    /\ UNCHANGED <<ask, core, closing, sandboxes, reaper, faults>>

Touches(c) == ask[c].kind # "list"

(* Code that fails is no failure of the tool; code that timeout(1) ended is *)
Work(c) ==
    /\ At(c, "working") /\ Exists(call[c].id)
    /\ \/ Return(c, "ok")
       \/ ask[c].kind = "python" /\ Return(c, "timeout")
       \/ ask[c].kind = "artifact" /\ Return(c, "missing")
    /\ box' = IF Touches(c) /\ box[call[c].id] = "idle"
              THEN [box EXCEPT ![call[c].id] = "fresh"] ELSE box
    /\ UNCHANGED <<ask, core, closing, container, reaper, faults>>

(* The container is gone: the box goes too (execRun, putBytes), except that *)
(* GetFile takes it for a file that does not exist.                        *)
WorkFindsNothing(c) ==
    /\ At(c, "working") /\ ~Exists(call[c].id)
    /\ IF ask[c].kind = "artifact"
       THEN Return(c, "missing") /\ UNCHANGED box
       ELSE Go(c, "lost") /\ box' = [box EXCEPT ![call[c].id] = "no"]
    /\ UNCHANGED <<ask, core, closing, container, reaper, faults>>

RequestFails(c) ==
    /\ call[c].pc \in {"request", "working"}
    /\ Fault
    /\ Return(c, IF ask[c].kind = "artifact" THEN "missing" ELSE "sandbox")
    /\ UNCHANGED <<ask, core, closing, sandboxes, reaper>>

(* NotFound: forget_sandbox; the code is run, the attachment written, once  *)
(* more in a new sandbox; files are listed as none.                        *)
Lost(c) ==
    /\ At(c, "lost")
    /\ \/ /\ ask[c].kind \in {"python", "attachment"} /\ call[c].dead = None
          /\ booked' = [booked EXCEPT ![Task(c)] = None]
          /\ call' = [call EXCEPT ![c].pc = "look", ![c].dead = call[c].id]
       \/ /\ ask[c].kind \in {"python", "attachment"} /\ call[c].dead # None
          /\ Return(c, "sandbox") /\ UNCHANGED booked
       \/ /\ ask[c].kind = "list"
          /\ Return(c, "ok")
          /\ booked' = [booked EXCEPT ![Task(c)] = None]
       \/ ask[c].kind = "artifact" /\ Return(c, "missing") /\ UNCHANGED booked
    /\ UNCHANGED <<ask, registered, held, closing, sandboxes, reaper, faults>>

(* The budget is over, or the run is dropped.  A start that edge was about  *)
(* to make fails, and so does the release after it, on the same context;    *)
(* the answer of one that came through has nobody to go to.                 *)
Drop(c) ==
    /\ call[c].pc \notin {"idle", "done"}
    /\ Return(c, "dropped")
    /\ held' = held \ {c}
    /\ \/ UNCHANGED box
       \/ At(c, "probe") /\ box' = [box EXCEPT ![call[c].id] = "no"]
    /\ UNCHANGED <<ask, registered, booked, closing, container, reaper, faults>>
-----------------------------------------------------------------------------
(* release_task, when the run has ended: token and booking go, then edge is *)
(* asked to release the sandbox; a failure is logged.                      *)

ReleaseTask(t) ==
    /\ t \in registered
    /\ \A c \in Calls : Task(c) = t => call[c].pc \in {"idle", "done"}
    /\ registered' = registered \ {t}
    /\ booked' = [booked EXCEPT ![t] = None]
    /\ closing' = [closing EXCEPT ![t] = booked[t]]
    /\ UNCHANGED <<ask, held, call, sandboxes, reaper, faults>>

Release(t) ==
    /\ closing[t] # None
    /\ closing' = [closing EXCEPT ![t] = None]
    /\ \/ Dispose(closing[t]) /\ UNCHANGED faults
       \/ DisposeFails(closing[t]) /\ Fault
       \/ Fault /\ UNCHANGED sandboxes
    /\ UNCHANGED <<ask, core, call, reaper>>
-----------------------------------------------------------------------------
(* ReapIdle: the idle boxes, then the old containers that are in no box of  *)
(* the first look; one failure does not keep the others from going.        *)

Reap(r) == reaper' = r

ReapBoxes ==
    /\ reaper.pc = "asleep"
    /\ Reap([pc |-> "orphans", known |-> {j \in Ids : box[j] # "no"},
             victims |-> {j \in Ids : box[j] = "idle"}])
    /\ UNCHANGED <<ask, core, call, closing, sandboxes, faults>>

Orphans == {i \in Ids : Exists(i) /\ container[i].old /\ i \notin reaper.known}

ReapOrphans ==
    /\ reaper.pc = "orphans"
    /\ \/ Reap([reaper EXCEPT !.pc = "release", !.victims = @ \cup Orphans]) /\ UNCHANGED faults
       \/ Reap([reaper EXCEPT !.pc = "release"]) /\ Fault
    /\ UNCHANGED <<ask, core, call, closing, sandboxes>>

ReapOne ==
    /\ reaper.pc = "release"
    /\ \E i \in reaper.victims :
         /\ Reap([reaper EXCEPT !.victims = @ \ {i}])
         /\ \/ Dispose(i) /\ UNCHANGED faults
            \/ DisposeFails(i) /\ Fault
    /\ UNCHANGED <<ask, core, call, closing>>

ReapEnds ==
    /\ reaper.pc = "release" /\ reaper.victims = {}
    /\ Reap([pc |-> "asleep", known |-> {}, victims |-> {}])
    /\ UNCHANGED <<ask, core, call, closing, sandboxes, faults>>
-----------------------------------------------------------------------------
(* idle_sec pass.  An acquire is over before that (the budget of its call). *)
Age(i) ==
    /\ Exists(i) /\ (~container[i].old \/ box[i] = "fresh")
    /\ \A c \in Calls : call[c].id = i => call[c].pc \notin {"start", "probe"}
    /\ container' = [container EXCEPT ![i].old = TRUE]
    /\ box' = [box EXCEPT ![i] = IF @ = "no" THEN "no" ELSE "idle"]
    /\ UNCHANGED <<ask, core, call, closing, reaper, faults>>

(* Edge goes down and comes back: CloseAll removes what is booked, as far   *)
(* as it gets; a crash removes nothing.  What core was waiting for fails.   *)
Restart(kept) ==
    /\ Fault
    /\ kept \subseteq {i \in Ids : box[i] # "no"}
    /\ box' = [i \in Ids |-> "no"]
    /\ container' = [i \in Ids |-> IF box[i] = "no" \/ i \in kept THEN container[i]
                                   ELSE [container[i] EXCEPT !.at = "gone"]]
    /\ LET failed == {c \in Calls : call[c].pc \in {"create", "start", "probe", "working"}}
       IN  /\ call' = [c \in Calls |-> IF c \in failed
                         THEN [call[c] EXCEPT !.pc = "done", !.result = "sandbox"] ELSE call[c]]
           /\ held' = held \ failed
    /\ closing' = [t \in Tasks |-> None]
    /\ Reap([pc |-> "asleep", known |-> {}, victims |-> {}])
    /\ UNCHANGED <<ask, registered, booked>>
-----------------------------------------------------------------------------
Step(c) == \/ Begin(c) \/ LookUp(c) \/ TakeLock(c) \/ Create(c) \/ Start(c) \/ Probe(c)
           \/ AcquireFails(c) \/ Request(c) \/ Work(c) \/ WorkFindsNothing(c) \/ RequestFails(c)
           \/ Lost(c) \/ Drop(c)
Reaper == ReapBoxes \/ ReapOrphans \/ ReapOne \/ ReapEnds

Next == \/ \E c \in Calls : Step(c)
        \/ \E t \in Tasks : ReleaseTask(t) \/ Release(t)
        \/ Reaper
        \/ \E i \in Ids : Age(i)
        \/ \E kept \in SUBSET Ids : Restart(kept)

(* The reaper comes round for as long as core lives, and time passes.       *)
Aging == \E i \in Ids : Age(i)

Spec == Init /\ [][Next]_vars /\ WF_vars(Reaper) /\ WF_vars(Aging)
-----------------------------------------------------------------------------
(* The types of the state; a call that talks to a sandbox has one.          *)
TypeOK ==
    /\ ask \in Asks
    /\ registered \subseteq Tasks /\ held \subseteq Calls
    /\ booked \in [Tasks -> Ids \cup {None}] /\ closing \in [Tasks -> Ids \cup {None}]
    /\ call \in [Calls -> [pc : {"idle", "look", "wait", "create", "start", "probe", "request",
                                 "working", "lost", "done"},
                           id : Ids \cup {None}, dead : Ids \cup {None},
                           result : {"none", "ok", "missing", "timeout", "sandbox", "refused",
                                     "dropped"}]]
    /\ \A c \in Calls : call[c].pc \in {"start", "probe", "request", "working", "lost"}
                           => call[c].id \in Ids
    /\ box \in [Ids -> {"no", "fresh", "idle"}]
    /\ container \in [Ids -> [at : {"none", "created", "running", "gone"},
                              task : Tasks \cup {None}, old : BOOLEAN]]
    /\ reaper \in [pc : {"asleep", "orphans", "release"}, known : SUBSET Ids,
                   victims : SUBSET Ids]
    /\ faults \in 0..MaxFaults

Undisturbed == faults = 0

(* Two calls of a task that need a sandbox at once do not build one each    *)
(* (acquire_locks, the second look).                                       *)
BuiltOnce ==
    Undisturbed /\ (\A i \in Ids : container[i].at # "gone")
                /\ (\A c \in Calls : call[c].result # "dropped")
    => \A t \in Tasks : Cardinality({i \in Ids : container[i].task = t}) <= 1

(* A call that fails for its sandbox has lost two different ones: that the  *)
(* reaper took one while the model was thinking costs nothing, and a dead   *)
(* sandbox_id is not used again (run_python, download_attachment).         *)
FailsOnlyTwice ==
    \A c \in Calls : Undisturbed /\ call[c].result = "sandbox" =>
        /\ call[c].dead # None /\ call[c].dead # call[c].id
        /\ ~Exists(call[c].dead) /\ ~Exists(call[c].id)

(* What is booked for a task, and what works for it, is its own container;  *)
(* nothing is booked for a task that is over.                              *)
OwnContainer ==
    /\ \A t \in Tasks : booked[t] # None => container[booked[t]].task = t /\ t \in registered
    /\ \A c \in Calls : At(c, "working") => container[call[c].id].task = Task(c)

(* Once a task is released, nothing is built for it any more.              *)
ReleasedForGood ==
    [][\A i \in Ids : container[i].at = "none" /\ container'[i].at # "none"
           => container'[i].task \in registered]_vars

(* When all tasks are over, the machine ends up with no container of ours,  *)
(* whatever was dropped, failed or forgotten on the way (ReapIdle).        *)
Settled == registered = {} => \A i \in Ids : ~Exists(i)
Settles == <>[]Settled
-----------------------------------------------------------------------------
(* What the code does not keep: the reaper takes what is idle, never a      *)
(* sandbox in which a tool is at work.                                      *)
NotReapedAtWork ==
    Undisturbed => \A c \in Calls : At(c, "working") => Exists(call[c].id)
=============================================================================
