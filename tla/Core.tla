-------------------------------- MODULE Core --------------------------------
(***************************************************************************)
(* An event on its way to a task, the process around it, the sandboxes of   *)
(* its tools and the proxy that lets them out, the preflight before it and   *)
(* the database below, each by itself: scenario says which one runs, and     *)
(* the variables of the others are Off.                                     *)
(***************************************************************************)
EXTENDS Naturals, FiniteSets

CONSTANTS
    Off,                                             \* a variable of another component
    Events, Kinds, Thread, Mentioned, Bare, P2P,     \* routing
    SupportsThread, MayFail, MayCut, MaxErrors,
    Procs, Overlaps,                                 \* run
    MaxFaults,                                       \* run, lease, database: bound on faults
    Tasks, Calls, LeaseAsks, MaxBoxes,               \* lease
    Conns, ConnAsks, Policies, Preset, Reserved,     \* egress
    MaxChanges,                                      \* egress, preflight
    MaxFlaws,                                        \* preflight
    Cores, Chats, Files, Latest, Horizon, MaxNo      \* database

VARIABLES
    scenario, kind, seen, sessions, turns, tasks, handler, lock, clock, errors,
    overlap, pc, file, listening, hits, stop, runner, timedOut, task, status,
    faults, ask, registered, booked, held, call, closing, box, container, reaper,
    policy, changes, pol, killed, tracked, shut, copying, audit, closed, inflight,
    serve, offline, explicit, flaws, row, named, probe, changed, db, core, told,
    fresh, twice, shared, buried

all == <<scenario, kind, seen, sessions, turns, tasks, handler, lock, clock, errors,
         overlap, pc, file, listening, hits, stop, runner, timedOut, task, status,
         faults, ask, registered, booked, held, call, closing, box, container,
         reaper, policy, changes, pol, killed, tracked, shut, copying, audit,
         closed, inflight, serve, offline, explicit, flaws, row, named, probe,
         changed, db, core, told, fresh, twice, shared, buried>>
In(s) == scenario = s

Routing == INSTANCE SessionRouting_proof WITH NoThread <- Off
App == INSTANCE AppLifecycle
Lease == INSTANCE SandboxLease_proof WITH Asks <- LeaseAsks, None <- Off
Egress == INSTANCE EgressProxy WITH Asks <- ConnAsks
Flight == INSTANCE Preflight
Store == INSTANCE SessionStore WITH None <- Off

(* What each component assumes of its constants; Off is no task, no process   *)
(* and no number, no pattern of the preset reaches a reserved host           *)
(* (policy.go), and there are two migrations (migrate.rs).                   *)
ASSUME CoreAssumption ==
    /\ Routing!Assumed /\ Lease!Assumed
    /\ Off \notin Tasks /\ "none" \notin Procs /\ Overlaps \subseteq BOOLEAN
    /\ MaxFaults \in Nat /\ MaxChanges \in Nat /\ MaxFlaws \in Nat
    /\ IsFiniteSet(Conns)
    /\ \A p \in Preset : \A r \in Reserved : ~Egress!MatchesHost(p, r)
    /\ Latest = 2 /\ Horizon \in Nat \ {0} /\ Off \notin Nat
    /\ \A f \in Files : Store!FileIs(f)
-----------------------------------------------------------------------------
Init ==
    \/ /\ In("routing") /\ Routing!Init
       /\ overlap = Off /\ pc = Off /\ file = Off /\ listening = Off /\ hits = Off /\
          stop = Off /\ runner = Off /\ timedOut = Off /\ task = Off /\
          status = Off /\ faults = Off /\ ask = Off /\ registered = Off /\
          booked = Off /\ held = Off /\ call = Off /\ closing = Off /\ box = Off /\
          container = Off /\ reaper = Off /\ policy = Off /\ changes = Off /\
          pol = Off /\ killed = Off /\ tracked = Off /\ shut = Off /\
          copying = Off /\ audit = Off /\ closed = Off /\ inflight = Off /\
          serve = Off /\ offline = Off /\ explicit = Off /\ flaws = Off /\
          row = Off /\ named = Off /\ probe = Off /\ changed = Off /\ db = Off /\
          core = Off /\ told = Off /\ fresh = Off /\ twice = Off /\ shared = Off /\
          buried = Off
    \/ /\ In("run") /\ App!Init
       /\ kind = Off /\ seen = Off /\ sessions = Off /\ turns = Off /\ tasks = Off /\
          handler = Off /\ lock = Off /\ clock = Off /\ errors = Off /\ ask = Off /\
          registered = Off /\ booked = Off /\ held = Off /\ call = Off /\
          closing = Off /\ box = Off /\ container = Off /\ reaper = Off /\
          policy = Off /\ changes = Off /\ pol = Off /\ killed = Off /\
          tracked = Off /\ shut = Off /\ copying = Off /\ audit = Off /\
          closed = Off /\ inflight = Off /\ serve = Off /\ offline = Off /\
          explicit = Off /\ flaws = Off /\ row = Off /\ named = Off /\ probe = Off /\
          changed = Off /\ db = Off /\ core = Off /\ told = Off /\ fresh = Off /\
          twice = Off /\ shared = Off /\ buried = Off
    \/ /\ In("lease") /\ Lease!Init
       /\ kind = Off /\ seen = Off /\ sessions = Off /\ turns = Off /\ tasks = Off /\
          handler = Off /\ lock = Off /\ clock = Off /\ errors = Off /\
          overlap = Off /\ pc = Off /\ file = Off /\ listening = Off /\ hits = Off /\
          stop = Off /\ runner = Off /\ timedOut = Off /\ task = Off /\
          status = Off /\ policy = Off /\ changes = Off /\ pol = Off /\
          killed = Off /\ tracked = Off /\ shut = Off /\ copying = Off /\
          audit = Off /\ closed = Off /\ inflight = Off /\ serve = Off /\
          offline = Off /\ explicit = Off /\ flaws = Off /\ row = Off /\
          named = Off /\ probe = Off /\ changed = Off /\ db = Off /\ core = Off /\
          told = Off /\ fresh = Off /\ twice = Off /\ shared = Off /\ buried = Off
    \/ /\ In("egress") /\ Egress!Init
       /\ kind = Off /\ seen = Off /\ sessions = Off /\ turns = Off /\ tasks = Off /\
          handler = Off /\ lock = Off /\ clock = Off /\ errors = Off /\
          overlap = Off /\ file = Off /\ listening = Off /\ hits = Off /\
          stop = Off /\ runner = Off /\ timedOut = Off /\ task = Off /\
          status = Off /\ faults = Off /\ registered = Off /\ booked = Off /\
          held = Off /\ call = Off /\ closing = Off /\ box = Off /\
          container = Off /\ reaper = Off /\ offline = Off /\ explicit = Off /\
          flaws = Off /\ row = Off /\ named = Off /\ probe = Off /\ changed = Off /\
          db = Off /\ core = Off /\ told = Off /\ fresh = Off /\ twice = Off /\
          shared = Off /\ buried = Off
    \/ /\ In("preflight") /\ Flight!Init
       /\ kind = Off /\ seen = Off /\ sessions = Off /\ turns = Off /\ tasks = Off /\
          handler = Off /\ lock = Off /\ clock = Off /\ errors = Off /\
          overlap = Off /\ file = Off /\ listening = Off /\ hits = Off /\
          stop = Off /\ runner = Off /\ timedOut = Off /\ task = Off /\
          status = Off /\ faults = Off /\ ask = Off /\ registered = Off /\
          booked = Off /\ held = Off /\ call = Off /\ closing = Off /\
          container = Off /\ reaper = Off /\ policy = Off /\ pol = Off /\
          killed = Off /\ tracked = Off /\ shut = Off /\ copying = Off /\
          audit = Off /\ closed = Off /\ inflight = Off /\ serve = Off /\ db = Off /\
          core = Off /\ told = Off /\ fresh = Off /\ twice = Off /\ shared = Off /\
          buried = Off
    \/ /\ In("database") /\ Store!Init
       /\ kind = Off /\ seen = Off /\ sessions = Off /\ turns = Off /\ tasks = Off /\
          handler = Off /\ lock = Off /\ errors = Off /\ overlap = Off /\ pc = Off /\
          file = Off /\ listening = Off /\ hits = Off /\ stop = Off /\
          runner = Off /\ timedOut = Off /\ task = Off /\ status = Off /\
          ask = Off /\ registered = Off /\ booked = Off /\ held = Off /\
          call = Off /\ closing = Off /\ box = Off /\ container = Off /\
          reaper = Off /\ policy = Off /\ changes = Off /\ pol = Off /\
          killed = Off /\ tracked = Off /\ shut = Off /\ copying = Off /\
          audit = Off /\ closed = Off /\ inflight = Off /\ serve = Off /\
          offline = Off /\ explicit = Off /\ flaws = Off /\ row = Off /\
          named = Off /\ probe = Off /\ changed = Off

Next ==
    \/ /\ In("routing") /\ Routing!Next
       /\ UNCHANGED <<scenario, overlap, pc, file, listening, hits, stop, runner,
                       timedOut, task, status, faults, ask, registered, booked, held,
                       call, closing, box, container, reaper, policy, changes, pol,
                       killed, tracked, shut, copying, audit, closed, inflight,
                       serve, offline, explicit, flaws, row, named, probe, changed,
                       db, core, told, fresh, twice, shared, buried>>
    \/ /\ In("run") /\ App!Next
       /\ UNCHANGED <<scenario, kind, seen, sessions, turns, tasks, handler, lock,
                       clock, errors, ask, registered, booked, held, call, closing,
                       box, container, reaper, policy, changes, pol, killed, tracked,
                       shut, copying, audit, closed, inflight, serve, offline,
                       explicit, flaws, row, named, probe, changed, db, core, told,
                       fresh, twice, shared, buried>>
    \/ /\ In("lease") /\ Lease!Next
       /\ UNCHANGED <<scenario, kind, seen, sessions, turns, tasks, handler, lock,
                       clock, errors, overlap, pc, file, listening, hits, stop,
                       runner, timedOut, task, status, policy, changes, pol, killed,
                       tracked, shut, copying, audit, closed, inflight, serve,
                       offline, explicit, flaws, row, named, probe, changed, db,
                       core, told, fresh, twice, shared, buried>>
    \/ /\ In("egress") /\ Egress!Next
       /\ UNCHANGED <<scenario, kind, seen, sessions, turns, tasks, handler, lock,
                       clock, errors, overlap, file, listening, hits, stop, runner,
                       timedOut, task, status, faults, registered, booked, held,
                       call, closing, box, container, reaper, offline, explicit,
                       flaws, row, named, probe, changed, db, core, told, fresh,
                       twice, shared, buried>>
    \/ /\ In("preflight") /\ Flight!Next
       /\ UNCHANGED <<scenario, kind, seen, sessions, turns, tasks, handler, lock,
                       clock, errors, overlap, file, listening, hits, stop, runner,
                       timedOut, task, status, faults, ask, registered, booked, held,
                       call, closing, container, reaper, policy, pol, killed,
                       tracked, shut, copying, audit, closed, inflight, serve, db,
                       core, told, fresh, twice, shared, buried>>
    \/ /\ In("database") /\ Store!Next
       /\ UNCHANGED <<scenario, kind, seen, sessions, turns, tasks, handler, lock,
                       errors, overlap, pc, file, listening, hits, stop, runner,
                       timedOut, task, status, ask, registered, booked, held, call,
                       closing, box, container, reaper, policy, changes, pol, killed,
                       tracked, shut, copying, audit, closed, inflight, serve,
                       offline, explicit, flaws, row, named, probe, changed>>

(* The fairness of each component, for the one that runs.                   *)
own == CASE In("routing") -> Routing!vars [] In("run") -> App!vars
         [] In("lease") -> Lease!vars [] In("egress") -> Egress!vars
         [] In("preflight") -> Flight!vars [] In("database") -> Store!vars
Works == /\ UNCHANGED scenario
         /\ \/ In("routing") /\ Routing!Progress
            \/ In("run") /\ App!Progress
            \/ In("lease") /\ Lease!Reaper
            \/ In("egress") /\ Egress!Work
            \/ In("preflight") /\ Flight!Progress
Ages == UNCHANGED scenario /\ In("lease") /\ Lease!Aging

Fairness == WF_own(Works) /\ WF_own(Ages)

Spec == Init /\ [][Next]_all /\ Fairness
-----------------------------------------------------------------------------
(* The types of whichever component runs.                                   *)
TypeOK ==
    /\ In("routing") => Routing!TypeOK
    /\ In("run") => App!TypeOK
    /\ In("lease") => Lease!TypeOK
    /\ In("egress") => Egress!TypeOK
    /\ In("preflight") => Flight!TypeOK
    /\ In("database") => Store!TypeOK

(* An event offered, cut off and retried any number of times leaves its text *)
(* once in the right transcript, before its task may start, and a !restart   *)
(* takes its thread over (routing, sessions.rs, restart.rs).  In the         *)
(* database below an event is called new once, a message has one session, a  *)
(* task its own number, and version, columns and rows say what there is,     *)
(* whoever crashed and whoever else opened the file (migrate.rs, lib.rs).    *)
EventLandsOnce ==
    /\ In("routing") => /\ Routing!WrittenOnce /\ Routing!TaskKnowsItsMessage
                        /\ Routing!HandledIsWritten /\ Routing!RestartTakesOver
    /\ In("database") => /\ Store!AnswersStand /\ Store!NumbersDiffer
                         /\ Store!VersionIsTrue /\ Store!BothTakeOff
                         /\ Store!ColumnsAgree

(* Only a core that listens keeps another one from taking off, and one that  *)
(* has gone through its shutdown leaves no task running (ingress.rs, run.rs). *)
CleanSuccession ==
    /\ [][In("run") => \A p \in Procs :
             pc[p] \in {"look", "bind"} /\ status[p] # "failing" /\ status'[p] = "failing"
               => overlap \/ \E q \in Procs \ {p} : q \in listening]_all
    /\ [](In("run") => App!StoppedIsSettled)

(* One sandbox per task, its own, and a call fails for its sandbox only      *)
(* after it has lost two (acquire_locks, run_python, download_attachment).   *)
OneSandboxEach ==
    In("lease") => Lease!BuiltOnce /\ Lease!OwnContainer /\ Lease!FailsOnlyTwice

(* Once a task is released, nothing is built for it any more.               *)
ReleasedForGood ==
    [][In("lease") => \A i \in Lease!Ids :
          container[i].at = "none" /\ container'[i].at # "none"
              => container'[i].task \in registered]_all

(* What leaves a sandbox was granted and is audited once, and the proxy      *)
(* that has returned is quiet (policy.go, egress.go, tunnel.go).             *)
GrantedAndAudited ==
    In("egress") => /\ Egress!DialedIsGranted /\ Egress!TableIsSafe
                    /\ Egress!AuditedOnce /\ Egress!ReturnedIsQuiet

(* A green preflight is one that aite run takes off from, and what keeps it  *)
(* from that is named at once (preflight.rs).                               *)
GreenMeansGo ==
    In("preflight") => /\ Flight!GreenTakesOff /\ Flight!ReportedAtOnce
                       /\ Flight!GreenLeavesNoContainer

(* In the end every handler is over, its three attempts at a transcript      *)
(* having been enough, a stop has been heard, no container of ours is left   *)
(* when all tasks are over, a proxy told to stop has returned, and mending   *)
(* what preflight points out has made it green.                             *)
Settles ==
    <>[](/\ In("routing") => Routing!Quiet /\ Routing!NeverExhausted
         /\ In("run") => App!SignalledExits
         /\ In("lease") => Lease!Settled
         /\ In("egress") => Egress!Settled
         /\ In("preflight") => Flight!Green)
=============================================================================
