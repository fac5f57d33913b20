----------------------------- MODULE MCServices -----------------------------
(***************************************************************************)
(* Services with two tasks and four plans, and beside them, each by itself,  *)
(* the gateway's tool calls, evidence show and verify, the probe of a model, *)
(* and the patterns an evaluation judges by.                                *)
(***************************************************************************)
EXTENDS Services, TLC

VARIABLES
    setup, offered, registry, ports, source, tokens, call, lines, external,
    manifest, sealed, edits, held, raw, at, prev, issues, problems, obs, run,
    attempt, flight, chain, mixed, cut, pattern, regex, text, from, out

others == <<setup, offered, registry, ports, source, tokens, call, lines, external,
            manifest, sealed, edits, held, raw, at, prev, issues,
            problems, obs, run, attempt, flight, chain, mixed, cut,
            pattern, regex, text, from, out>>

(* Answers of the model: repeated, unknown and bad calls, and the final.    *)
Call(id, name, args) == [id |-> id, name |-> name, args |-> args]
MCTasks == {"t1", "t2"}
MCLocal == {"final", "note"}
MCEndpoints == {[model |-> "kimi", host |-> "qwen"], [model |-> "other", host |-> "minimax"]}
MCBatches == [t \in MCTasks |->
  IF t = "t1"
  THEN {<<>>, <<Call(1, "search", "a")>>, <<Call(1, "search", "b"), Call(2, "search", "b")>>,
        <<Call(1, "final", "bad"), Call(2, "search", "a")>>, <<Call(1, "note", "a"), Call(2, "final", "a")>>}
  ELSE {<<Call(2, "search", "a"), Call(1, "search", "bad")>>}]
MCMaxSteps == [t \in MCTasks |-> IF t = "t1" THEN 2 ELSE 1]

(* Schemas of the gateway's tools, and of one that a feature registers.     *)
Value(k, v) == [kind |-> k, v |-> v]
Int(n) == Value("integer", n)
Text(s) == Value("string", s)
Schema(t, r, d) ==
  [types |-> {t}, range |-> r, default |-> d, properties |-> <<>>, required |-> {}, items |-> Off]
Str == Schema("string", Off, Off)
Object(props, req) ==
  [Schema("object", Off, Off) EXCEPT !.properties = props, !.required = req]
Row == Object(("id" :> Schema("integer", Off, Off)) @@ ("n" :> Schema("number", Off, Int(1))), {"id"})
MCBuiltins ==
  <<"read_group_history", "read_document", "download_attachment", "run_python", "list_files">>
MCSchemas ==
  ("read_group_history" :>
     Object(("limit" :> Schema("integer", 1..2, Int(2))) @@
            ("thread_only" :> Schema("boolean", Off, Value("boolean", FALSE))), {})) @@
  ("read_document" :> Object("url_or_token" :> Str, {"url_or_token"})) @@
  ("download_attachment" :> Object("file_key" :> Str, {"file_key"})) @@
  ("run_python" :>
     Object(("code" :> Str) @@ ("timeout_sec" :> Schema("integer", 1..2, Int(2))), {"code"})) @@
  ("list_files" :> Object(<<>>, {})) @@
  ("lookup" :> Object("rows" :> [Schema("array", Off, Off) EXCEPT !.items = Row], {}))

(* Two calls: tokens that are empty or too long, arguments of every kind,   *)
(* keys with separators, and a second call of another task.                 *)
ToolAsk(t, tok, n, g, th, m) ==
  [task |-> t, token |-> tok, name |-> n, given |-> Value("object", g), thread |-> th, message |-> m]
Minted == ("t1" :> <<1>>) @@ ("t2" :> <<1, 0>>) @@ ("t3" :> <<>>)
Own(t, n, g) == ToolAsk(t, Minted[t], n, g, Off, Off)
Run(timeout) == Own("t1", "run_python", ("code" :> Text("x")) @@ timeout)
Look(r) == Own("t1", "lookup", "rows" :> Value("array", <<Value("object", r)>>))
Get(key, m) == ToolAsk("t1", <<1>>, "download_attachment", "file_key" :> Text(key), Off, m)
History(th) == ToolAsk("t2", <<1, 0>>, "read_group_history", "thread_only" :> Value("boolean", TRUE), th, Off)
Several ==
  {ToolAsk("t1", tok, "list_files", <<>>, Off, Off) : tok \in {<<>>, <<1>>, <<1, 0>>}}
   \cup {Own("t1", "run_python", <<>>), Own("t1", "final", <<>>), Own("t1", "read_document", "url_or_token" :> Text("u"))}
   \cup {Run(v) : v \in {<<>>, "tmo" :> Int(1), "timeout_sec" :> Int(3), "timeout_sec" :> Value("whole", 1)}}
   \cup {Look(r) : r \in {"id" :> Int(1), "id" :> Value("whole", 1), "n" :> Int(1),
                              ("id" :> Int(1)) @@ ("n" :> Value("whole", 1))}}
   \cup {Get(<<"a">>, m) : m \in {"m", ""}}
Keys == {<<>>} \cup [1..3 -> {"a", ".", "/", "*"}]
MCAsks ==
  {("c1" :> a) @@ ("c2" :> IF a.name = "lookup" THEN Own("t2", "lookup", <<>>) ELSE History("th")) : a \in Several}
   \cup {("c1" :> Get(key, "m")) @@ ("c2" :> Own("t3", "list_files", <<>>)) : key \in Keys}
   \cup {("c1" :> History(Off)) @@ ("c2" :> History("th"))}

(* Answers in an evaluation: calls that are good, bad or repeated, finals,   *)
(* and none.                                                                *)
MCPlayed == [t \in MCTasks |->
  IF t = "t1"
  THEN {<<>>, <<Call(1, "search", "a")>>, <<Call(1, "final", "bad"), Call(2, "final", "a")>>, <<Call(1, "final", "a")>>}
  ELSE {<<Call(1, "search", "bad")>>}]
MCPlayedSteps == [t \in MCTasks |-> IF t = "t1" THEN 3 ELSE 1]

(* Patterns: all of three tokens, all of two characters, and longer ones;    *)
(* a character's code is its place in this order.                           *)
Characters ==
  <<"tab", "nl", "cr", " ", "$", "(", ")", "*", "+", ",", "-", ".", "0", "1", "2", ":", "?",
    "[", "\\", "]", "^", "_", "a", "b", "c", "d", "n", "{", "|", "}", "han">>
MCCode == [c \in {Characters[i] : i \in DOMAIN Characters} |->
             CHOOSE i \in DOMAIN Characters : Characters[i] = c]
Open == <<"(", "?", ":">>
Tokens == {<<"a">>, <<"b">>, <<".">>, Open, <<")">>, <<"|">>, <<"*">>, <<"?">>, <<"{", "2", "}">>, <<"$">>}
Joined(f) == LET g[k \in 0..Len(f)] == IF k = 0 THEN <<>> ELSE g[k - 1] \o f[k] IN g[Len(f)]
MCPatterns ==
  {Joined(f) : f \in UNION {[1..n -> Tokens] : n \in 0..3}}
   \cup UNION {[1..n -> DOMAIN MCCode \ {"tab", "nl", "cr"}] : n \in 1..2}
   \cup {Open \o <<"a", "*", ")", "a", "b">>, Open \o <<"a", "|", "a", "b", ")", "*", "b">>,
         Open \o Open \o <<"a", "*", ")", "*", ")", "+">>, Open \o <<"a", "?", ")", "{", "1", ",", "}", "b">>,
         <<"[", "^", "a", "-", "b", "]", "$">>, <<"[", "]", "a", "-", "]", "+">>, <<"[", "\\", "d", "-", "a", "]">>,
         <<"\\", "n", "+", "$">>, <<"a", "{", " ", "1", ",", "2", "}", "b", "?">>, <<"a", "{", "1", ",">>,
         <<"\\", "w", "+", "|", "\\", "s">>, <<"(", "a", ")">>, <<"a", "+", "?">>,
         <<"[", "\\", "n", "b", "]">>, <<"[", "1", "-", "\\", "d", "]">>}
MCTexts == {<<>>, <<"a", "a", "b">>, <<"b", "a", "nl">>, <<"1", "han", "a", "b">>}

(* Plans of a scenario: a task, and behind it another or a command.          *)
Event(s, a) == [starts |-> s, after |-> a]
MCPlans ==
  {<<Event(TRUE, "none"), Event(TRUE, a)>> : a \in {"none", "idle", "running"}}
   \cup {<<Event(TRUE, "none"), Event(FALSE, "running")>>}

Tools == INSTANCE ToolCalls WITH Tasks <- {"t1", "t2", "t3"}, Calls <- {"c1", "c2"},
    Builtins <- MCBuiltins, LocalTools <- {"final"}, Schemas <- MCSchemas,
    Offers <- {<<>>, <<"lookup">>, <<"lookup", "lookup">>, <<"run_python">>, <<"final">>},
    Asks <- MCAsks, Hidden <- {<<"t2", "lookup">>}, MaxContent <- 3, Marker <- 1,
    MaxName <- 2, None <- Off
Report == INSTANCE EvidenceReport WITH MaxEvents <- 2, MaxEdits <- 2
Probe == INSTANCE ModelProbe WITH First <- "t1", Second <- "t2",
    Endpoints <- {[model |-> "kimi", host |-> "qwen"]}, Batches <- MCPlayed,
    Local <- MCLocal, MaxSteps <- MCPlayedSteps, Cap <- 1, Whole <- 1, Retries <- 1,
    NudgeAt <- 2, MaxRepeats <- 3, MaxInvalid <- 2, MaxSandbox <- 1, MinRepeat <- 2,
    MaxErrors <- 2, Offered <- {"search", "note", "final"}, None <- Off
Regex == INSTANCE RegexMini WITH Patterns <- MCPatterns, Texts <- MCTexts, Code <- MCCode,
    Letters <- {"a", "b", "c", "d", "n"}, Foreign <- {"han"}, Many <- 50, None <- Off

MCInit ==
    \/ /\ Init
       /\ setup = Off /\ offered = Off /\ registry = Off /\ ports = Off /\ source = Off /\
          tokens = Off /\ call = Off /\ lines = Off /\ external = Off /\ manifest = Off /\
          sealed = Off /\ edits = Off /\ held = Off /\ raw = Off /\ at = Off /\ prev = Off /\
          issues = Off /\ problems = Off /\ obs = Off /\ run = Off /\ attempt = Off /\
          flight = Off /\ chain = Off /\ mixed = Off /\ cut = Off /\ pattern = Off /\
          regex = Off /\ text = Off /\ from = Off /\ out = Off
    \/ /\ In("tool calls") /\ Tools!Init
       /\ endpoint = Off /\ msgs = Off /\ work = Off /\ echo = Off /\ order = Off /\
          newest = Off /\ plan = Off /\ next = Off /\ pc = Off /\ phase = Off /\
          loop = Off /\ queue = Off /\ task = Off /\ model = Off /\ failed = Off /\
          sandbox = Off /\ live = Off /\ owed = Off /\ boxes = Off /\ untold = Off /\
          kept = Off /\ early = Off /\ faults = Off /\ lines = Off /\
          external = Off /\ manifest = Off /\ sealed = Off /\ edits = Off /\
          held = Off /\ raw = Off /\ at = Off /\ prev = Off /\ issues = Off /\
          problems = Off /\ obs = Off /\ run = Off /\ attempt = Off /\
          flight = Off /\ chain = Off /\ mixed = Off /\ cut = Off /\ pattern = Off /\
          regex = Off /\ text = Off /\ from = Off /\ out = Off
    \/ /\ In("evidence show") /\ Report!Init
       /\ endpoint = Off /\ msgs = Off /\ work = Off /\ echo = Off /\ order = Off /\
          newest = Off /\ plan = Off /\ next = Off /\ phase = Off /\ loop = Off /\
          queue = Off /\ task = Off /\ model = Off /\ failed = Off /\
          sandbox = Off /\ live = Off /\ owed = Off /\ boxes = Off /\ untold = Off /\
          kept = Off /\ early = Off /\ faults = Off /\ setup = Off /\
          offered = Off /\ registry = Off /\ ports = Off /\ source = Off /\
          tokens = Off /\ call = Off /\ obs = Off /\ run = Off /\ attempt = Off /\
          flight = Off /\ chain = Off /\ mixed = Off /\ cut = Off /\ pattern = Off /\
          regex = Off /\ text = Off /\ from = Off /\ out = Off
    \/ /\ In("probe") /\ Probe!Init
       /\ plan = Off /\ next = Off /\ pc = Off /\ phase = Off /\ loop = Off /\
          queue = Off /\ task = Off /\ model = Off /\ sandbox = Off /\ live = Off /\
          owed = Off /\ boxes = Off /\ untold = Off /\ kept = Off /\ early = Off /\
          faults = Off /\ offered = Off /\ registry = Off /\ ports = Off /\
          source = Off /\ tokens = Off /\ call = Off /\ lines = Off /\
          external = Off /\ manifest = Off /\ sealed = Off /\ edits = Off /\
          held = Off /\ raw = Off /\ at = Off /\ issues = Off /\ problems = Off /\
          pattern = Off /\ regex = Off /\ text = Off /\ from = Off /\ out = Off
    \/ /\ In("pattern") /\ Regex!Init
       /\ endpoint = Off /\ msgs = Off /\ work = Off /\ echo = Off /\ order = Off /\
          newest = Off /\ plan = Off /\ next = Off /\ pc = Off /\ phase = Off /\
          loop = Off /\ queue = Off /\ task = Off /\ model = Off /\ failed = Off /\
          sandbox = Off /\ live = Off /\ owed = Off /\ boxes = Off /\ untold = Off /\
          kept = Off /\ early = Off /\ faults = Off /\ setup = Off /\
          offered = Off /\ registry = Off /\ ports = Off /\ source = Off /\
          tokens = Off /\ call = Off /\ lines = Off /\ external = Off /\
          manifest = Off /\ sealed = Off /\ edits = Off /\ held = Off /\ raw = Off /\
          at = Off /\ prev = Off /\ issues = Off /\ problems = Off /\ obs = Off /\
          run = Off /\ attempt = Off /\ flight = Off /\ chain = Off /\ mixed = Off /\
          cut = Off

MCNext ==
    \/ Next /\ UNCHANGED others
    \/ /\ In("tool calls") /\ Tools!Next
       /\ UNCHANGED <<scenario, endpoint, msgs, work, echo, order, newest, plan,
                       next, pc, phase, loop, queue, task, model, failed, sandbox,
                       live, owed, boxes, untold, kept, early, faults, lines,
                       external, manifest, sealed, edits, held, raw, at, prev,
                       issues, problems, obs, run, attempt, flight, chain, mixed,
                       cut, pattern, regex, text, from, out>>
    \/ /\ In("evidence show") /\ Report!Next
       /\ UNCHANGED <<scenario, endpoint, msgs, work, echo, order, newest, plan,
                       next, phase, loop, queue, task, model, failed, sandbox, live,
                       owed, boxes, untold, kept, early, faults, setup, offered,
                       registry, ports, source, tokens, call, obs, run, attempt,
                       flight, chain, mixed, cut, pattern, regex, text, from, out>>
    \/ /\ In("probe") /\ Probe!Next
       /\ UNCHANGED <<scenario, plan, next, pc, phase, loop, queue, task, model,
                       sandbox, live, owed, boxes, untold, kept, early, faults,
                       offered, registry, ports, source, tokens, call, lines,
                       external, manifest, sealed, edits, held, raw, at, issues,
                       problems, pattern, regex, text, from, out>>
    \/ /\ In("pattern") /\ Regex!Next
       /\ UNCHANGED <<scenario, endpoint, msgs, work, echo, order, newest, plan,
                       next, pc, phase, loop, queue, task, model, failed, sandbox,
                       live, owed, boxes, untold, kept, early, faults, setup,
                       offered, registry, ports, source, tokens, call, lines,
                       external, manifest, sealed, edits, held, raw, at, prev,
                       issues, problems, obs, run, attempt, flight, chain, mixed, cut>>

(* Nobody is bound to run evidence show or to finish a conversation; a tool  *)
(* call under way goes on.                                                  *)
Works == In("tool calls") /\ Tools!Progress /\ UNCHANGED scenario
own == IF In("tool calls") THEN Tools!vars ELSE <<all, others>>

Fairness == WF_own(Works)

MCSpec == MCInit /\ [][MCNext]_<<all, others>> /\ Fairness
-----------------------------------------------------------------------------
(* The types of whichever component runs.                                   *)
MCTypeOK ==
    /\ TypeOK
    /\ In("tool calls") => Tools!TypeOK
    /\ In("evidence show") => Report!TypeOK
    /\ In("probe") => Probe!TypeOK
    /\ In("pattern") => Regex!TypeOK

(* A tool runs for the task that holds the token alone, with arguments that  *)
(* fit it, and an answer says truly whether it ran (gateway.rs, schema.rs).  *)
(* evidence show and verify judge alike, without false alarm, and the edits  *)
(* of a sealed chain are found where they are (cli.rs, writer.rs).  The      *)
(* probe reports what its tasks did (protocol_probe.rs), and a pattern means *)
(* to an evaluation what it says (regex_mini.rs).                           *)
VerdictIsRight ==
    /\ In("tool calls") => /\ Tools!RunsForItsTask /\ Tools!JudgedBefore
                           /\ Tools!CatalogIsTrue /\ Tools!ArgumentsFit
                           /\ Tools!NameIsPlain
    /\ In("evidence show") => /\ Report!SameVerdict /\ Report!NoFalseAlarm
                              /\ Report!SealedIsGuarded /\ Report!BlameIsLocal
    /\ In("probe") => /\ Probe!RunsAreTasks /\ Probe!ReportsTheTask
                      /\ Probe!InvalidsAreSeen /\ Probe!BusyIsTrue
    /\ In("pattern") => Regex!ReadsBack /\ Regex!FindsAll

(* In the end every tool call has its answer.                               *)
Settles == <>[](In("tool calls") => Tools!Quiet)
=============================================================================
