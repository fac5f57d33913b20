------------------------------ MODULE Services ------------------------------
(***************************************************************************)
(* What core's tasks lean on, the talk with the model, and what judges them, *)
(* the scenario of an evaluation, each by itself: scenario says which one    *)
(* runs, and the variables of the other are Off.                            *)
(***************************************************************************)
EXTENDS Naturals, FiniteSets, Sequences

CONSTANTS
    Off,                                             \* a variable of another component
    Tasks, Endpoints, Batches, Local, MaxSteps,      \* conversation
    MaxSteers, Cap, Whole, Retries, NudgeAt,
    MaxRepeats, MaxInvalid, MaxSandbox,
    Plans, MaxBoxes, MaxFaults                       \* evaluation

VARIABLES
    scenario, endpoint, msgs, work, echo, order, newest, plan, next, pc, phase,
    loop, queue, task, model, failed, sandbox, live, owed, boxes, untold, kept,
    early, faults

all == <<scenario, endpoint, msgs, work, echo, order, newest, plan, next, pc, phase, loop,
         queue, task, model, failed, sandbox, live, owed, boxes, untold, kept,
         early, faults>>
In(s) == scenario = s

Talk == INSTANCE AgentConversation WITH None <- Off
Judged == INSTANCE EvalRun WITH None <- Off

(* What a model may call, and what keeps the parts of a task apart.         *)
AllCalls == UNION {UNION {{b[i] : i \in DOMAIN b} : b \in Batches[t]} : t \in Tasks}
Named ==
    {"created", "work", "backoff", "chat", "acquire", "made", "exec", "release", "over",
     "dropped", "up", "dead", "stopped", "ok", "assert", "dispatch", "drive", "wiring", "error"}

(* An answer is a sequence of calls and every task has its limit (config.rs); *)
(* the cache holds something (echo.rs, ECHO_CACHE_CAP), a call is repeated   *)
(* before it is too often, and the worker itself runs `final` (loop.rs).  An *)
(* event of a plan waits for nothing, for rest or for a task that runs       *)
(* (scenario.rs), and Off is nowhere that a part of a run may be.            *)
ASSUME ServicesAssumption ==
    /\ MaxSteps \in [Tasks -> Nat] /\ MaxSteers \in Nat /\ Retries \in Nat
    /\ Cap \in Nat \ {0} /\ MaxRepeats \in Nat \ {0} /\ "final" \in Local
    /\ \A t \in Tasks : \A b \in Batches[t] : b \in Seq(AllCalls)
    /\ MaxBoxes \in Nat /\ MaxFaults \in Nat
    /\ \A p \in Plans : p \in Seq([starts : BOOLEAN, after : {"none", "idle", "running"}])
    /\ Off \notin Named
-----------------------------------------------------------------------------
Init ==
    \/ /\ In("conversation") /\ Talk!Init
       /\ plan = Off /\ next = Off /\ pc = Off /\ phase = Off /\ loop = Off /\
          queue = Off /\ task = Off /\ model = Off /\ failed = Off /\
          sandbox = Off /\ live = Off /\ owed = Off /\ boxes = Off /\ untold = Off /\
          kept = Off /\ early = Off /\ faults = Off
    \/ /\ In("evaluation") /\ Judged!Init
       /\ endpoint = Off /\ msgs = Off /\ work = Off /\ echo = Off /\ order = Off /\
          newest = Off

Next ==
    \/ /\ In("conversation") /\ Talk!Next
       /\ UNCHANGED <<scenario, plan, next, pc, phase, loop, queue, task, model,
                       failed, sandbox, live, owed, boxes, untold, kept, early,
                       faults>>
    \/ /\ In("evaluation") /\ Judged!Next
       /\ UNCHANGED <<scenario, endpoint, msgs, work, echo, order, newest>>

Spec == Init /\ [][Next]_all
-----------------------------------------------------------------------------
(* The types of whichever component runs.                                   *)
TypeOK ==
    /\ In("conversation") => Talk!TypeOK
    /\ In("evaluation") => Judged!TypeOK

(* What the model thought comes back with the call it belongs to, whatever   *)
(* ids the tasks share; every request is one that it accepts, and no tool    *)
(* spins (echo.rs, loop.rs).  What an evaluation says is as true: it judges  *)
(* a scenario when that is over, in the order it was planned, and leaves     *)
(* nothing of it (runner.rs, wiring.rs).                                    *)
HistoryIsTrue ==
    /\ In("conversation") => /\ Talk!NewestComesBack /\ Talk!ThoughtsBelong
                             /\ Talk!RequestsAreAccepted /\ Talk!NeverSpins
    /\ In("evaluation") => Judged!NothingIsLeft /\ Judged!JudgedIsDone /\ Judged!InTime
=============================================================================
