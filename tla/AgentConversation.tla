------------------------- MODULE AgentConversation -------------------------
(***************************************************************************)
(* The conversation of a worker with the model: the messages of agent_loop *)
(* (worker/src/loop.rs, context/mod.rs), its counters and retries, and the *)
(* client all tasks share (models/src/lib.rs, echo.rs, vendor.rs), which   *)
(* remembers what the model thought by the id of the tool call and puts it *)
(* back into the history of every later request.                           *)
(*                                                                         *)
(* A text is a sequence of "text" and of the thoughts it contains; a       *)
(* thought is named by its task and step.  Arguments are "bad" when they   *)
(* do not satisfy the tool.  Stops, cards and delivery are in              *)
(* TaskLifecycle; here a task that has delivered or failed is over.        *)
(***************************************************************************)
EXTENDS Naturals, FiniteSets, Sequences

CONSTANTS
  Tasks,
  Endpoints,     \* configurations: [model, host], named by their vendor or "other"
  Batches,       \* the answers to each task: sequences of calls [id, name, args]
  Local,         \* the tools that the worker runs itself
  MaxSteps,      \* of each task
  MaxSteers,     \* bound: follow-ups per task
  Cap,           \* ECHO_CACHE_CAP
  Whole,         \* long tool results that fit the context
  Retries,       \* Len(MODEL_RETRY_DELAYS)
  NudgeAt, MaxRepeats, MaxInvalid, MaxSandbox,
  None

VARIABLES
  endpoint,   \* the configuration of the process
  msgs,       \* the messages of each task
  work,       \* where its loop is, and its counters
  echo,       \* the map of the cache: id -> what was thought
  order,      \* its queue of ids
  newest      \* the answer remembered last, None before the first

vars == <<endpoint, msgs, work, echo, order, newest>>

Fresh == [pc |-> "top", steps |-> 0, steers |-> 0, retries |-> 0, batch |-> <<>>,
          sig |-> None, repeats |-> 0, invalid |-> 0, sandbox |-> 0, end |-> "none"]

Init ==
  /\ endpoint \in Endpoints
  /\ msgs = [t \in Tasks |-> <<>>]
  /\ work = [t \in Tasks |-> Fresh]
  /\ echo = [id \in {} |-> None]
  /\ order = <<>>
  /\ newest = None

-----------------------------------------------------------------------------
\* The client

\* infer_vendor: the prefix of the model's name, then the host.
InferVendor(e) == IF e.model # "other" THEN e.model ELSE e.host

Vendor == InferVendor(endpoint)

IsThought(x) == x # "text"

\* split_think: a thought at the front, for MiniMax only.
Prefix(content) ==
  IF Vendor = "minimax" /\ content # <<>> /\ IsThought(Head(content)) THEN <<Head(content)>> ELSE <<>>

Fingerprint(call) == <<call.name, call.args>>

\* VecDeque::retain, of an id that stands in the queue once.
Without(queue, id) ==
  LET at == CHOOSE i \in DOMAIN queue : queue[i] = id
  IN  [i \in 1 .. Len(queue) - 1 |-> queue[IF i < at THEN i ELSE i + 1]]

\* A mutant: an id that comes again is queued twice.
Put_QueuesTwice(c, id, what) ==
  LET queue == Append(c.order, id)
      over == IF Len(queue) > Cap THEN {Head(queue)} ELSE {}
  IN [map |-> [i \in (DOMAIN c.map \cup {id}) \ over |-> IF i = id THEN what ELSE c.map[i]],
      order |-> IF over = {} THEN queue ELSE Tail(queue)]

\* EchoCache::remember, for one call of an answer: the newest id last, the oldest given up.
Put(c, id, what) ==
  LET queue == Append(IF id \in DOMAIN c.map THEN Without(c.order, id) ELSE c.order, id)
      over == IF Len(queue) > Cap THEN {Head(queue)} ELSE {}
  IN [map |-> [i \in (DOMAIN c.map \cup {id}) \ over |-> IF i = id THEN what ELSE c.map[i]],
      order |-> IF over = {} THEN queue ELSE Tail(queue)]

Remember(calls, fields, prefix) ==
  LET cache[n \in 0 .. Len(calls)] ==
        IF n = 0 THEN [map |-> echo, order |-> order]
        ELSE Put(cache[n - 1], calls[n].id,
                 [fingerprint |-> Fingerprint(calls[n]), fields |-> fields, prefix |-> prefix])
  IN IF fields = None /\ prefix = <<>> THEN cache[0] ELSE cache[Len(calls)]

\* reattach: the calls of a row that the cache knows, by id and fingerprint.
Found(calls) ==
  {i \in DOMAIN calls : calls[i].id \in DOMAIN echo /\ echo[calls[i].id].fingerprint = Fingerprint(calls[i])}

\* The row that a message becomes in a request: the first call found decides.
Row(m) ==
  IF m.role # "assistant" \/ Found(m.calls) = {} THEN [fields |-> None, content |-> m.content]
  ELSE LET e == echo[m.calls[CHOOSE i \in Found(m.calls) : \A j \in Found(m.calls) : i <= j].id]
       IN [fields |-> e.fields,
           content |-> IF m.content # <<>> /\ IsThought(Head(m.content)) THEN m.content
                       ELSE e.prefix \o m.content]

\* request_body leaves the temperature out for Kimi.
SendsTemperature == Vendor # "kimi"

-----------------------------------------------------------------------------
\* Messages

Message(role, calls, content, reply, sent) ==
  [role |-> role, calls |-> calls, content |-> content, reply |-> reply, sent |-> sent]
Said(role) == Message(role, <<>>, <<"text">>, None, None)
Reply(call, size) == Message("tool", <<>>, <<size>>, call, None)

Long(ms) == {i \in DOMAIN ms : ms[i].role = "tool" /\ ms[i].content = <<"long">>}

\* trim_to_budget: the oldest results give way until the rest fits.
Trim(ms) ==
  [i \in DOMAIN ms |->
     IF i \in Long(ms) /\ Cardinality({j \in Long(ms) : j >= i}) > Whole
     THEN [ms[i] EXCEPT !.content = <<"short">>] ELSE ms[i]]

-----------------------------------------------------------------------------
\* agent_loop

At(t, pc) == work[t].pc = pc
Client == <<endpoint, echo, order, newest>>

\* deliver and fail; the counters go with the RunContext.
End(w, how) == [Fresh EXCEPT !.pc = "over", !.steps = w.steps, !.end = how]

Top(t) ==
  /\ At(t, "top")
  /\ IF work[t].steps >= MaxSteps[t]
     THEN work' = [work EXCEPT ![t] = End(@, "step_limit")] /\ UNCHANGED msgs
     ELSE \E n \in 0 .. (MaxSteers - work[t].steers) :
            /\ msgs' = [msgs EXCEPT ![t] = Trim(@ \o [i \in 1 .. n |-> Said("user")])]
            /\ work' = [work EXCEPT ![t].pc = "ask", ![t].retries = 0, ![t].steers = @ + n]
  /\ UNCHANGED Client

\* chat fails: 4xx is final, a 429 may name its delay, all else has the delays of the worker.
Refused(t, class) ==
  LET w == work[t] IN
  /\ At(t, "ask")
  /\ work' = [work EXCEPT ![t] =
       IF class = "never" \/ w.retries >= Retries THEN End(w, "model_failed")
       ELSE [w EXCEPT !.retries = @ + 1]]
  /\ UNCHANGED <<msgs, Client>>

\* What the worker does with an answer that calls no tool: on the first step its text is
\* the reply, later the model is nudged.
Spoken(w, content) ==
  IF w.steps = 1 /\ content # <<>> THEN End(w, "delivered") ELSE [w EXCEPT !.pc = "top"]

\* The answer, with what the model thought as a field of its own, or in front of the text.
Answered(t, calls, field, content) ==
  LET prefix == Prefix(content)
      rest == IF prefix = <<>> THEN content ELSE Tail(content)
      m == Message("assistant", calls, rest, None, [fields |-> field, content |-> content])
      cache == Remember(calls, field, prefix)
      w == [work[t] EXCEPT !.steps = @ + 1, !.pc = "act", !.batch = calls]
  IN
  /\ At(t, "ask")
  /\ echo' = cache.map /\ order' = cache.order
  /\ newest' = IF calls # <<>> /\ (field # None \/ prefix # <<>>) THEN m ELSE newest
  /\ work' = [work EXCEPT ![t] = IF calls = <<>> THEN Spoken(w, rest) ELSE w]
  /\ msgs' = [msgs EXCEPT ![t] =
       @ \o (IF calls = <<>> /\ ~ (w.steps = 1 /\ rest # <<>>) THEN <<m, Said("system")>> ELSE <<m>>)]
  /\ UNCHANGED endpoint

\* call_signature: the tool and its arguments, whatever the id.
Signature(call) == <<call.name, call.args>>

\* The same call again: same tool, same arguments, nothing in between.
Counted(w, call) ==
  [w EXCEPT !.repeats = IF w.sig = Signature(call) THEN @ + 1 ELSE 1, !.sig = Signature(call)]

\* A fifth call in a row is not run any more; the tools of the worker itself may.
Spins(w, call) == call.name \notin Local /\ Counted(w, call).repeats >= MaxRepeats

GiveUpRepeating(t) ==
  /\ At(t, "act")
  /\ Spins(work[t], Head(work[t].batch))
  /\ work' = [work EXCEPT ![t] = End(Counted(@, Head(@.batch)), "repeats")]
  /\ UNCHANGED <<msgs, Client>>

\* After the last call of an answer the loop goes back to its top.
AfterCall(w) == [w EXCEPT !.batch = Tail(@), !.pc = IF Len(w.batch) = 1 THEN "top" ELSE "act"]

FinalGiven(t) ==
  /\ At(t, "act") /\ Head(work[t].batch).name = "final" /\ Head(work[t].batch).args # "bad"
  /\ work' = [work EXCEPT ![t] = End(Counted(@, Head(@.batch)), "delivered")]
  /\ UNCHANGED <<msgs, Client>>

\* A final that cannot be parsed: the calls after it are answered, and not run.
FinalRefused(t) ==
  LET w == Counted(work[t], Head(work[t].batch))
      v == [w EXCEPT !.invalid = @ + 1, !.batch = <<>>, !.pc = "top"] IN
  /\ At(t, "act") /\ Head(work[t].batch).name = "final" /\ Head(work[t].batch).args = "bad"
  /\ msgs' = [msgs EXCEPT ![t] = @ \o [i \in DOMAIN w.batch |-> Reply(w.batch[i], IF i = 1 THEN "short" ELSE "skipped")]]
  /\ work' = [work EXCEPT ![t] = IF v.invalid >= MaxInvalid THEN End(v, "invalid_args") ELSE v]
  /\ UNCHANGED Client

Outcomes(call) ==
  IF call.args = "bad" THEN {"invalid"}
  ELSE IF call.name \in Local THEN {"ok"} ELSE {"ok", "sandbox"}

\* One call: its reply, a nudge at the third repetition, the counters and their limits.
\* What worked resets both of them.
Run(t, outcome) ==
  LET call == Head(work[t].batch)
      w == Counted(work[t], call)
      nudge == call.name \notin Local /\ w.repeats = NudgeAt
      reply == Reply(call, IF outcome = "ok" THEN "long" ELSE "short")
      v == [w EXCEPT !.invalid = IF outcome = "invalid" THEN @ + 1 ELSE IF outcome = "ok" THEN 0 ELSE @,
                     !.sandbox = IF outcome = "sandbox" THEN @ + 1 ELSE IF outcome = "ok" THEN 0 ELSE @]
  IN
  /\ At(t, "act") /\ call.name # "final" /\ ~ Spins(work[t], call)
  /\ outcome \in Outcomes(call)
  /\ msgs' = [msgs EXCEPT ![t] = @ \o (IF nudge THEN <<reply, Said("system")>> ELSE <<reply>>)]
  /\ work' = [work EXCEPT ![t] =
       IF v.invalid >= MaxInvalid THEN End(v, "invalid_args")
       ELSE IF v.sandbox >= MaxSandbox THEN End(v, "sandbox")
       ELSE AfterCall(v)]
  /\ UNCHANGED Client

-----------------------------------------------------------------------------
Thought(t) == <<t, work[t].steps>>

\* A thought comes in a field, or in front of the text; some answers have neither
\* thought nor text.
Answer(t) ==
  \E calls \in Batches[t],
     said \in {<<None, <<>>>>, <<Thought(t), <<"text">>>>, <<None, <<Thought(t), "text">>>>} :
       Answered(t, calls, said[1], said[2])

Step(t) ==
  \/ Top(t) \/ Answer(t) \/ \E class \in {"never", "after", "default"} : Refused(t, class)
  \/ GiveUpRepeating(t) \/ FinalGiven(t) \/ FinalRefused(t)
  \/ \E outcome \in {"ok", "invalid", "sandbox"} : Run(t, outcome)

Next == \E t \in Tasks : Step(t)

Spec == Init /\ [][Next]_vars

-----------------------------------------------------------------------------
\* The state is well formed, and the map and the queue of the cache agree.
TypeOK ==
  /\ endpoint \in Endpoints
  /\ \A t \in Tasks :
       /\ work[t].pc \in {"top", "ask", "act", "over"}
       /\ work[t].pc = "act" <=> work[t].batch # <<>>
       /\ work[t].steps \in 0 .. MaxSteps[t]
       /\ work[t].retries \in 0 .. Retries
       /\ work[t].end = "none" <=> work[t].pc # "over"
  /\ \A i \in DOMAIN order : order[i] \in DOMAIN echo /\ \A j \in DOMAIN order : order[i] = order[j] => i = j
  /\ \A id \in DOMAIN echo : \E i \in DOMAIN order : order[i] = id
  /\ Len(order) <= Cap

\* What is put into a row of the history was thought in an answer that made the same
\* call, whichever of the tasks it was and however ids collide (echo.rs, the fingerprint).
ThoughtsBelong ==
  \A t \in Tasks : \A i \in DOMAIN msgs[t] :
    LET row == Row(msgs[t][i]) IN
    row.fields # None =>
      \E u \in Tasks : \E j \in DOMAIN msgs[u] :
        /\ msgs[u][j].role = "assistant" /\ msgs[u][j].sent.fields = row.fields
        /\ \E k \in DOMAIN msgs[u][j].calls, l \in DOMAIN msgs[t][i].calls :
              LET a == msgs[u][j].calls[k]
                  b == msgs[t][i].calls[l]
              IN  a.id = b.id /\ Fingerprint(a) = Fingerprint(b)

\* The newest answer goes back to the model as it came, field and text, whatever ids
\* it took over and however full the cache was (echo.rs remember, reattach, capture).
NewestComesBack ==
  newest # None => LET row == Row(newest) IN
    row.fields = newest.sent.fields /\ row.content = newest.sent.content

\* The replies to an assistant message: what the tools say up to the next one.
RepliesTo(ms, i) ==
  {j \in DOMAIN ms : i < j /\ ms[j].role = "tool" /\ \A k \in i + 1 .. j : ms[k].role # "assistant"}

Increasing(at) == \A k, l \in DOMAIN at : k < l => at[k] < at[l]

\* They are those to its first n calls, one to each, in order.
Replied(ms, i, n) ==
  \E at \in [1 .. n -> RepliesTo(ms, i)] :
    /\ Increasing(at)
    /\ \A j \in RepliesTo(ms, i) : \E k \in 1 .. n : at[k] = j
    /\ \A k \in 1 .. n : ms[at[k]].reply = ms[i].calls[k]

\* A request is one that the model accepts: every call of the history has its one reply
\* before the next answer, in order, also the calls that were never run (loop.rs:316-318:
\* else the next request ends in a 400), and Kimi is sent no temperature.
RequestsAreAccepted ==
  \A t \in Tasks : At(t, "ask") =>
    /\ \A i \in DOMAIN msgs[t] :
         msgs[t][i].role = "assistant" => Replied(msgs[t], i, Len(msgs[t][i].calls))
    /\ (endpoint.model = "kimi" \/ (endpoint.model = "other" /\ endpoint.host = "kimi"))
         => ~ SendsTemperature

\* The calls of a task that were run, by their replies; those after a final that could
\* not be parsed were not.
Ran(ms) == {i \in DOMAIN ms : ms[i].role = "tool" /\ ms[i].content # <<"skipped">>}

\* n of them in a row, the same each time.
InARow(ms, n) ==
  {at \in [1 .. n -> Ran(ms)] :
     /\ Increasing(at)
     /\ \A k \in 1 .. n - 1 : \A j \in Ran(ms) : j <= at[k] \/ at[k + 1] <= j
     /\ \A k, l \in 1 .. n : Signature(ms[at[k]].reply) = Signature(ms[at[l]].reply)}

\* No tool of the gateway runs MaxRepeats times in a row with the same arguments, in one
\* answer or across answers (loop.rs:272-296, in live runs it had been thirty-three).
NeverSpins ==
  \A t \in Tasks : \A at \in InARow(msgs[t], MaxRepeats) :
    \A k \in DOMAIN at : msgs[t][at[k]].reply.name \in Local
=============================================================================
