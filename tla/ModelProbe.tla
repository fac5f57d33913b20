----------------------------- MODULE ModelProbe -----------------------------
(***************************************************************************)
(* What an evaluation sees of the talk with the model: the wrapper around   *)
(* its client that records every chat and the report made of the records    *)
(* (evals/src/protocol_probe.rs).  The talk is AgentConversation's, of two   *)
(* tasks; the probe stands between worker and model and sees no more than   *)
(* the messages of each request and what comes back, so it has to tell by   *)
(* itself which requests are one task's.  setup says how the second task     *)
(* relates to the first: a "follow-up" in its session, one with the "window" *)
(* of the thread behind its transcript, or one of another session, "apart".  *)
(***************************************************************************)
EXTENDS Naturals, FiniteSets, Sequences, SequencesExt

CONSTANTS
  First, Second,
  Endpoints, Batches, Local, MaxSteps, Cap, Whole, Retries,
  NudgeAt, MaxRepeats, MaxInvalid, MaxSandbox,    \* as in AgentConversation
  MinRepeat,   \* MIN_REPEAT_RUN
  MaxErrors,   \* bound on chats that fail
  Offered,     \* the tools of a request
  None

VARIABLES
  endpoint, msgs, work, echo, order, newest,      \* the talk
  setup,
  obs,        \* ProbeState.observations, with the task each is of
  prev,       \* its prev_key, as the messages themselves, and prev_reply
  run,        \* its run, from 1 on
  attempt,
  flight,     \* the observation of a task's chat under way; their number is in_flight
  failed,     \* last_failed
  chain,      \* the tool_result events of each task
  mixed,      \* a chat of a task was recorded amid those of the other
  cut         \* an old result has given way since the task's last chat

talk == <<endpoint, msgs, work, echo, order, newest>>
probe == <<obs, prev, run, attempt, flight, failed>>
vars == <<talk, setup, probe, chain, mixed, cut>>

Both == {First, Second}           \* the tasks that talk
Worker == INSTANCE AgentConversation WITH Tasks <- Both, MaxSteers <- 0
At(t, pc) == work[t].pc = pc

Init ==
  /\ Worker!Init
  /\ setup \in {"follow-up", "window", "apart"}
  /\ obs = <<>> /\ prev = [sent |-> <<>>, reply |-> None] /\ run = 0 /\ attempt = 0
  /\ flight = [t \in Both |-> None] /\ failed = FALSE
  /\ chain = [t \in Both |-> <<>>] /\ mixed = FALSE /\ cut = [t \in Both |-> FALSE]

-----------------------------------------------------------------------------
\* The probe

\* message_key: what a message is on the wire.
Key(m) == <<m.role, m.calls, m.content, IF m.reply = None THEN None ELSE m.reply.id>>
Turn(role, what) == <<role, <<>>, what, None>>

\* The first thing it said was the reply.
Spoken(t) == work[t].end = "delivered" /\ Last(msgs[t]).role = "assistant" /\ Last(msgs[t]).calls = <<>>

\* A task that delivered leaves its reply in the transcript.
Replied(t) ==
  IF work[t].end # "delivered" THEN <<>>
  ELSE <<Turn("assistant", IF Spoken(t) THEN Last(msgs[t]).content ELSE <<"reply">>)>>

\* assemble: the transcript, and behind it the window.
Context(t) ==
  LET own == <<Turn("user", <<t>>)>> \o (IF setup = "window" THEN <<Turn("system", <<t>>)>> ELSE <<>>)
  IN  <<Turn("system", <<"prompt">>)>>
        \o (IF t = First \/ setup = "apart" THEN <<>> ELSE <<Turn("user", <<First>>)>> \o Replied(First))
        \o own
Request(t) == Context(t) \o [i \in DOMAIN msgs[t] |-> Key(msgs[t][i])]

\* A request goes on with the last one if that is its beginning and the reply
\* to it comes next; the very same again is a retry if the last chat failed.
IsContinuation(request) ==
  /\ prev.sent # <<>> /\ IsPrefix(prev.sent, request)
  /\ IF Len(request) = Len(prev.sent) THEN Last(obs).error
     ELSE prev.reply # None /\ request[Len(prev.sent) + 1] = prev.reply

\* open, before the model is called.
Open(t) ==
  /\ At(t, "ask") /\ flight[t] = None
  /\ LET request == Request(t)
         goes == IsContinuation(request)
     IN  /\ run' = IF goes THEN run ELSE run + 1
         /\ attempt' = IF goes THEN attempt + 1 ELSE 0
         /\ obs' = Append(obs, [task |-> t, run |-> run', attempt |-> attempt', error |-> FALSE,
                                text |-> <<>>, calls |-> <<>>, cut |-> cut[t]])
         /\ prev' = [prev EXCEPT !.sent = request]
  /\ flight' = [flight EXCEPT ![t] = Len(obs) + 1]
  /\ mixed' = (mixed \/ \E u \in Both \ {t} : ~At(u, "over") /\ \E i \in DOMAIN obs : obs[i].task = u)
  /\ cut' = [cut EXCEPT ![t] = FALSE]
  /\ UNCHANGED <<talk, setup, failed, chain>>

\* The turn comes back (absorb), without thoughts: the client has them.
Answered(t, calls, text) ==
  /\ flight[t] # None /\ Worker!Answered(t, calls, None, text)
  /\ LET m == msgs'[t][Len(msgs[t]) + 1]
     IN  /\ obs' = [obs EXCEPT ![flight[t]].text = m.content, ![flight[t]].calls = m.calls]
         /\ prev' = [prev EXCEPT !.reply = Key(m)]
  /\ failed' = FALSE /\ flight' = [flight EXCEPT ![t] = None]
  /\ UNCHANGED <<setup, run, attempt, chain, mixed, cut>>

\* The model fails: there is no reply that a retry could come behind.
Failed(t, class) ==
  /\ flight[t] # None /\ Cardinality({i \in DOMAIN obs : obs[i].error}) < MaxErrors
  /\ Worker!Refused(t, class)
  /\ obs' = [obs EXCEPT ![flight[t]].error = TRUE]
  /\ prev' = [prev EXCEPT !.reply = None]
  /\ failed' = TRUE /\ flight' = [flight EXCEPT ![t] = None]
  /\ UNCHANGED <<setup, run, attempt, chain, mixed, cut>>

-----------------------------------------------------------------------------
\* The worker between two chats, and the evidence of the tools it runs

Top(t) ==
  /\ t = First \/ setup = "apart" \/ At(First, "over")
  /\ Worker!Top(t)
  /\ LET sent == Len(prev.sent) - Len(Context(t))
     IN  cut' = [cut EXCEPT ![t] = \E i \in DOMAIN msgs[t] : i <= sent /\ msgs'[t][i] # msgs[t][i]]
  /\ UNCHANGED <<setup, probe, chain, mixed>>

Noted(t, row) ==
  /\ chain' = [chain EXCEPT ![t] = Append(@, row)]
  /\ UNCHANGED <<setup, probe, mixed, cut>>

Run(t, outcome) ==
  /\ Worker!Run(t, outcome)
  /\ Noted(t, [ok |-> outcome = "ok", error |-> outcome])
FinalRefused(t) == Worker!FinalRefused(t) /\ Noted(t, [ok |-> FALSE, error |-> "invalid"])
Ends(t) ==
  /\ Worker!GiveUpRepeating(t) \/ Worker!FinalGiven(t)
  /\ UNCHANGED <<setup, probe, chain, mixed, cut>>

Next ==
  \E t \in Both :
    \/ Open(t)
    \/ \E calls \in Batches[t], text \in {<<>>, <<"text">>} :
         (calls # <<>> => text = <<>>) /\ Answered(t, calls, text)
    \/ \E class \in {"never", "default"} : Failed(t, class)
    \/ Top(t) \/ FinalRefused(t) \/ Ends(t)
    \/ \E outcome \in {"ok", "invalid", "sandbox"} : Run(t, outcome)

Spec == Init /\ [][Next]_vars

-----------------------------------------------------------------------------
\* The report: analyze and what it calls, of everything recorded

Group(r) == SelectSeq(obs, LAMBDA o : o.run = r)
Steps(r) == SelectSeq(Group(r), LAMBDA o : ~o.error)

FinalIndex(r) == {i \in DOMAIN Steps(r) : \E k \in DOMAIN Steps(r)[i].calls : Steps(r)[i].calls[k].name = "final"}

\* The maximal stretches of positions of s where each and its next are Alike.
Stretches(s, Alike(_, _)) ==
  {<<i, j>> \in (DOMAIN s) \X (DOMAIN s) :
     /\ i <= j /\ \A k \in i .. j - 1 : Alike(s[k], s[k + 1])
     /\ i = 1 \/ ~Alike(s[i - 1], s[i])
     /\ j = Len(s) \/ ~Alike(s[j], s[j + 1])}

RetryBursts(r) ==
  LET g == Group(r)
      failing == {b \in Stretches(g, LAMBDA o, p : o.error /\ p.error) : g[b[1]].error}
  IN  {[failures |-> b[2] - b[1] + 1, recovered |-> b[2] < Len(g)] : b \in failing}

TextOnly(r) == {i \in DOMAIN Steps(r) : Steps(r)[i].calls = <<>>}
AsFinal(r) == {i \in TextOnly(r) : i = 1 /\ Steps(r)[i].text # <<>>}
Nudged(r) == TextOnly(r) \ AsFinal(r)

\* The calls of a run one after the other, by name and arguments.
RepeatLoops(r) ==
  LET flat == FlattenSeq([i \in DOMAIN Steps(r) |-> Steps(r)[i].calls])
  IN  {[call |-> Worker!Signature(flat[b[1]]), count |-> b[2] - b[1] + 1] :
         b \in {b \in Stretches(flat, LAMBDA c, d : Worker!Signature(c) = Worker!Signature(d)) :
                  b[2] - b[1] + 1 >= MinRepeat}}

Unknown == {c \in UNION {ToSet(obs[i].calls) : i \in DOMAIN obs} : c.name \notin Offered}

\* The rows of all chains, one counter for them together.
InvalidArgs ==
  FoldLeft(LAMBDA n, row : LET streak == CASE row.error = "invalid" -> n.streak + 1
                                           [] row.ok -> 0
                                           [] OTHER -> n.streak
                           IN  [streak |-> streak, worst |-> IF streak > n.worst THEN streak ELSE n.worst,
                                count |-> IF row.error = "invalid" THEN n.count + 1 ELSE n.count],
           [streak |-> 0, worst |-> 0, count |-> 0], chain[First] \o chain[Second])

\* The row of a run in the report: without a final, toFinal is 0.
RunRow(r) ==
  LET final == FinalIndex(r)
  IN  [steps |-> Len(Steps(r)), attempts |-> Len(Group(r)), reached |-> final # {},
       toFinal |-> IF final = {} THEN 0 ELSE CHOOSE i \in final : \A j \in final : i <= j]

HitMaxSteps == {t \in Both : work[t].steps >= MaxSteps[t]}

\* model_busy of deps.rs: why settle must not take silence for the end.
ModelBusy ==
  \/ \E t \in Both : flight[t] # None
  \/ failed /\ \E t \in Both : ~At(t, "over")

-----------------------------------------------------------------------------
\* Every variable holds what its declaration says, and the runs are numbered
\* in the order of the chats.
TypeOK ==
  /\ setup \in {"follow-up", "window", "apart"} /\ run \in 0 .. Len(obs)
  /\ \A i \in DOMAIN obs : /\ obs[i].run \in 1..run /\ obs[i].task \in Both
                           /\ i > 1 => obs[i].run \in {obs[i - 1].run, obs[i - 1].run + 1}
  /\ \A t \in Both : flight[t] # None => At(t, "ask") /\ obs[flight[t]].task = t
  /\ failed \in BOOLEAN /\ mixed \in BOOLEAN

\* A follow-up goes on where the first task has spoken its reply: the probe
\* cannot know that a new task has begun.
GoesOn == setup = "follow-up" /\ Spoken(First)

\* Chats of two tasks are never one run, but for that; and the chats of a
\* task are one run as long as nobody comes between and nothing of what was
\* sent is cut (is_continuation, open).
RunsAreTasks ==
  \A i \in 1 .. Len(obs) - 1 :
    LET o == obs[i]
        p == obs[i + 1]
    IN  /\ o.run = p.run => o.task = p.task \/ GoesOn
        /\ (o.task = p.task /\ ~mixed) => ((o.run = p.run) <=> ~p.cut)

\* The run that is all of a task's chats and no other's.
Is(r, t) == \A i \in DOMAIN obs : (obs[i].run = r) <=> (obs[i].task = t)
Called(t) == \E i \in DOMAIN obs : obs[i].task = t

\* What the report says of a run is what happened to its task: its steps, how
\* it was retried and whether in vain, where its text was taken for the reply,
\* and no call was repeated until the worker gave up without being listed.
ReportsTheTask ==
  \A t \in Both, r \in 1..run : (At(t, "over") /\ Is(r, t)) =>
    /\ RunRow(r).steps = work[t].steps /\ RunRow(r).attempts = Cardinality({i \in DOMAIN obs : obs[i].task = t})
    /\ (t \in HitMaxSteps) <=> RunRow(r).steps >= MaxSteps[t]
    /\ \A b \in RetryBursts(r) : b.failures <= Retries + 1
    /\ (\E b \in RetryBursts(r) : ~b.recovered) <=> work[t].end = "model_failed"
    /\ (AsFinal(r) # {}) <=> Spoken(t)
    /\ Cardinality(Nudged(r)) =
         Cardinality({i \in 1 .. Len(msgs[t]) - 1 : /\ msgs[t][i].role = "assistant" /\ msgs[t][i].calls = <<>>
                                                    /\ msgs[t][i + 1].role = "system"})
    /\ (work[t].end = "delivered" /\ AsFinal(r) = {}) =>
         RunRow(r).reached /\ (chain[t] = <<>> => RunRow(r).toFinal = work[t].steps)
    /\ work[t].end = "repeats" => \E l \in RepeatLoops(r) : l.count >= MaxRepeats

\* The report never makes the calls with bad arguments look fewer than the
\* worker counted when it gave a task up (invalid_args).
InvalidsAreSeen ==
  /\ \A t \in Both : work[t].end = "invalid_args" => InvalidArgs.worst >= MaxInvalid
  /\ InvalidArgs.count = Cardinality({<<t, i>> \in Both \X (1 .. Len(chain[First]) + Len(chain[Second])) :
                                        i <= Len(chain[t]) /\ chain[t][i].error = "invalid"})
  /\ Unknown = {}

\* Nobody takes a task that waits for the model for one that does nothing,
\* backing off included; and once all is over nothing is waited for
\* (in_flight, awaiting_retry, model_busy).
BusyIsTrue ==
  /\ \A t \in Both : (At(t, "ask") /\ (flight[t] # None \/ (work[t].retries > 0 /\ ~mixed))) => ModelBusy
  /\ (\A t \in Both : At(t, "over")) => ~ModelBusy
=============================================================================
