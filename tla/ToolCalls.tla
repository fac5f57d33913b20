----------------------------- MODULE ToolCalls -----------------------------
(***************************************************************************)
(* The tool gateway as the worker meets it: core/crates/gateway.  Before   *)
(* the gateway is built the features register their tools, one after the   *)
(* other, and one refusal ends the start (features/mod.rs, registry.rs).   *)
(* A call then shows its token, has its name looked up among the tools its *)
(* context can see, asks the policy, which may take its time, has its      *)
(* arguments checked and completed by the schema of the tool, and runs     *)
(* against a timeout; a panic on the way is an answer too, and only a      *)
(* caller that drops the call gets none.  What the sandbox tools do to     *)
(* their container is in SandboxLease; here they have the outcomes the     *)
(* ports leave them.  JSON values carry their kind, "whole" being 50.0,    *)
(* text is its length, and wording is left out.                            *)
(***************************************************************************)
EXTENDS Naturals, Sequences, FiniteSets

CONSTANTS
  Tasks,       \* tasks the worker calls tools for
  Calls,       \* calls, each made once
  Builtins,    \* gateway_tools(): names in the order of the catalog
  LocalTools,  \* the other names of all_model_tools()
  Schemas,     \* parameters of every tool
  Offers,      \* sequences of names the features may register
  Asks,        \* what the calls may be: [task, token, name, given, thread, message] of each
  Hidden,      \* pairs of a task and a tool its predicate hides from it
  Minted,      \* session_token of each task in the store, a sequence of bytes
  MaxContent,  \* MAX_TOOL_CONTENT_CHARS
  Marker,      \* length of the mark a cut leaves
  MaxName,     \* MAX_NAME of attachments.rs
  None

VARIABLES
  setup,     \* "wiring", "ready", or "refused": a feature's wire() failed
  offered,   \* the tools of the features that are still to register
  registry,  \* ToolRegistry.tools: names in order of registration
  ports,     \* which of platform and sandbox this gateway was given
  source,    \* where tokens come from: the "table", or the "store"
  tokens,    \* P0ToolGateway.tokens
  call       \* the state of each call

vars == <<setup, offered, registry, ports, source, tokens, call>>

Codes == {"denied", "not_found", "invalid_args", "timeout", "upstream", "sandbox"}
In(x, s) == \E i \in DOMAIN s : s[i] = x

-----------------------------------------------------------------------------
\* Arguments.

\* The JSON Schema types of a value: 50.0 is an integer to JSON Schema.
KindFits(v, s) ==
  s.types = {} \/ \E t \in s.types : \/ v.kind = t
                                     \/ t = "number" /\ v.kind \in {"integer", "whole"}
                                     \/ t = "integer" /\ v.kind = "whole"

RECURSIVE Fits(_, _)
Fits(v, s) ==
  /\ KindFits(v, s)
  /\ s.range # None => v.v \in s.range
  /\ v.kind = "object" => /\ s.required \subseteq DOMAIN v.v
                          /\ \A p \in DOMAIN v.v \cap DOMAIN s.properties :
                               Fits(v.v[p], s.properties[p])
  /\ v.kind = "array" /\ s.items # None => \A i \in DOMAIN v.v : Fits(v.v[i], s.items)

\* check_strict_integer, on the way of walk(): only a literal is an integer.
RECURSIVE Literal(_, _)
Literal(v, s) ==
  /\ "integer" \in s.types /\ "number" \notin s.types => v.kind # "whole"
  /\ v.kind = "object" => \A p \in DOMAIN v.v \cap DOMAIN s.properties :
                            Literal(v.v[p], s.properties[p])
  /\ v.kind = "array" /\ s.items # None => \A i \in DOMAIN v.v : Literal(v.v[i], s.items)

\* walk(): absent properties get their default, at every level that was given.
RECURSIVE Completed(_, _)
Completed(v, s) ==
  LET missing == {p \in DOMAIN s.properties : s.properties[p].default # None}
  IN  CASE v.kind = "object" ->
             [v EXCEPT !.v = [p \in DOMAIN v.v \cup missing |->
                IF p \notin DOMAIN v.v THEN s.properties[p].default
                ELSE IF p \in DOMAIN s.properties THEN Completed(v.v[p], s.properties[p])
                ELSE v.v[p]]]
        [] v.kind = "array" /\ s.items # None ->
             [v EXCEPT !.v = [i \in DOMAIN v.v |-> Completed(v.v[i], s.items)]]
        [] OTHER -> v

\* validate_arguments lets these through: no unknown name, nothing missing.
Valid(given, s) ==
  /\ s.types \subseteq {"object"}
  /\ DOMAIN given.v \subseteq DOMAIN s.properties
  /\ Fits(given, s)
  /\ Literal(given, s)

-----------------------------------------------------------------------------
\* safe_name: the file a downloaded attachment is written to, from its key.

Safe(ch) == ch \notin {"/", "*"}
\* PurePosixPath(key).name: the last part that is not empty and not ".".
Parts(key) == {<<i, j>> \in (DOMAIN key) \X (DOMAIN key) :
                 /\ i <= j /\ \A n \in i..j : key[n] # "/"
                 /\ i = 1 \/ key[i - 1] = "/"
                 /\ j = Len(key) \/ key[j + 1] = "/"
                 /\ SubSeq(key, i, j) # <<".">>}
PosixName(key) ==
  IF Parts(key) = {} THEN key
  ELSE LET p == CHOOSE p \in Parts(key) : \A q \in Parts(key) : q[1] <= p[1]
       IN  SubSeq(key, p[1], p[2])
\* Runs of other characters become one underscore.
Folded(s) ==
  LET f[i \in 0..Len(s)] ==
        IF i = 0 THEN <<>>
        ELSE IF Safe(s[i]) THEN Append(f[i - 1], s[i])
        ELSE IF i = 1 \/ Safe(s[i - 1]) THEN Append(f[i - 1], "_") ELSE f[i - 1]
  IN  f[Len(s)]
Trimmed(s) ==
  LET kept == {i \in DOMAIN s : s[i] \notin {".", "_"}}
  IN  IF kept = {} THEN <<>>
      ELSE SubSeq(s, CHOOSE i \in kept : \A j \in kept : i <= j,
                     CHOOSE i \in kept : \A j \in kept : j <= i)
SafeName(key) ==
  LET s == Trimmed(Folded(PosixName(key)))
      name == IF s = <<>> THEN <<"attachment">> ELSE s
  IN  SubSeq(name, 1, IF Len(name) < MaxName THEN Len(name) ELSE MaxName)

-----------------------------------------------------------------------------
\* Building the gateway.

Idle(ask) == [at |-> "idle", ask |-> ask, args |-> None, ok |-> FALSE, code |-> None, size |-> 0]

Init ==
  /\ setup = "wiring"
  /\ offered \in Offers
  /\ registry = <<>>
  /\ ports \in SUBSET {"platform", "sandbox"}
  /\ source \in {"table", "store"}
  /\ tokens = [t \in Tasks |-> None]
  /\ \E asks \in Asks : call = [c \in Calls |-> Idle(asks[c])]

\* ToolRegistry::register refuses a name of ours and one it has.
Registrable(name) == ~In(name, Builtins \o registry) /\ name \notin LocalTools

\* wire_all: the next feature registers its tool, or the start ends here.
Wire ==
  /\ setup = "wiring" /\ offered # <<>>
  /\ IF Registrable(Head(offered))
     THEN /\ registry' = Append(registry, Head(offered))
          /\ offered' = Tail(offered)
          /\ UNCHANGED setup
     ELSE setup' = "refused" /\ UNCHANGED <<offered, registry>>
  /\ UNCHANGED <<ports, source, tokens, call>>

\* with_registry, with_token_resolver: from here on calls come.
Build ==
  /\ setup = "wiring" /\ offered = <<>>
  /\ setup' = "ready"
  /\ UNCHANGED <<offered, registry, ports, source, tokens, call>>

-----------------------------------------------------------------------------
\* Tokens.

\* register_task: an empty token is not registered.
RegisterTask(t) ==
  /\ setup = "ready" /\ tokens[t] = None /\ Minted[t] # <<>>
  /\ tokens' = [tokens EXCEPT ![t] = Minted[t]]
  /\ UNCHANGED <<setup, offered, registry, ports, source, call>>

\* unregister_task, which release_task begins with.
ReleaseTask(t) ==
  /\ tokens[t] # None
  /\ tokens' = [tokens EXCEPT ![t] = None]
  /\ UNCHANGED <<setup, offered, registry, ports, source, call>>

Expected(t) == IF source = "store" THEN Minted[t] ELSE tokens[t]

\* constant_time_eq: bytes beyond the shorter one count as 0.
Byte(s, i) == IF i \in DOMAIN s THEN s[i] ELSE 0
SameToken(a, b) ==
  /\ \A i \in DOMAIN a \cup DOMAIN b : Byte(a, i) = Byte(b, i)
  /\ Len(a) = Len(b)

\* check_token.
Vouched(ask) == /\ Expected(ask.task) \notin {None, <<>>}
                /\ ask.token # <<>>
                /\ SameToken(Expected(ask.task), ask.token)

-----------------------------------------------------------------------------
\* Calls.

\* clip: a text that is too long is cut to the limit, its mark included.
Clip_AddsTheMark(size) == IF size <= MaxContent THEN size ELSE MaxContent + Marker

Clip(size) == IF size <= MaxContent THEN size
              ELSE (IF Marker < MaxContent THEN MaxContent - Marker ELSE 0) + Marker

\* ok_result and failed_result.
Answered(k, size) == [k EXCEPT !.at = "done", !.ok = TRUE, !.size = Clip(size)]
Failed(k, code) == [k EXCEPT !.at = "done", !.code = code]

\* visible: what the catalog lists for a task and a call can find.
Catalog(t) == SelectSeq(Builtins \o registry, LAMBDA name : <<t, name>> \notin Hidden)

\* dispatch, up to the policy; the store may fail, or panic.
Begin(c) ==
  /\ setup = "ready" /\ call[c].at = "idle"
  /\ LET ask == call[c].ask
         found == In(ask.name, Catalog(ask.task))
     IN  \/ source = "store" /\ call' = [call EXCEPT ![c] = Failed(@, "upstream")]
         \/ ~Vouched(ask) /\ call' = [call EXCEPT ![c] = Failed(@, "denied")]
         \/ Vouched(ask) /\ ~found /\ call' = [call EXCEPT ![c] = Failed(@, "not_found")]
         \/ Vouched(ask) /\ found /\ call' = [call EXCEPT ![c].at = "policy"]
  /\ UNCHANGED <<setup, offered, registry, ports, source, tokens>>

\* before_call answers no, or panics.
PolicyRefuses(c) ==
  /\ call[c].at = "policy"
  /\ \E code \in {"denied", "upstream"} : call' = [call EXCEPT ![c] = Failed(@, code)]
  /\ UNCHANGED <<setup, offered, registry, ports, source, tokens>>

\* It answers yes: the arguments are checked and the tool starts.
PolicyAllows(c) ==
  /\ call[c].at = "policy"
  /\ LET ask == call[c].ask
         schema == Schemas[ask.name]
     IN  call' = [call EXCEPT ![c] =
           IF Valid(ask.given, schema)
           THEN [@ EXCEPT !.at = "running", !.args = Completed(ask.given, schema)]
           ELSE Failed(@, "invalid_args")]
  /\ UNCHANGED <<setup, offered, registry, ports, source, tokens>>

\* What each tool can end in, given the ports it has; the codes are its own.
ReadGroupHistory(ask, args) ==
  CASE "platform" \notin ports -> {"upstream"}
    [] args.v["thread_only"].v = TRUE /\ ask.thread = None -> {"ok"}   \* nothing to read
    [] OTHER -> {"ok", "upstream"}
ReadDocument == IF "platform" \notin ports THEN {"upstream"} ELSE {"ok", "upstream"}
DownloadAttachment(ask) ==
  CASE "platform" \notin ports -> {"upstream"}
    [] "sandbox" \notin ports -> {"sandbox"}
    [] ask.message \in {None, ""} -> {"upstream"}     \* no message to download from
    [] OTHER -> {"ok", "upstream", "sandbox"}
RunPython == IF "sandbox" \notin ports THEN {"sandbox"} ELSE {"ok", "sandbox", "timeout"}
ListFiles == IF "sandbox" \notin ports THEN {"sandbox"} ELSE {"ok", "sandbox"}

\* default_tools, and the tools of the features, which may end in anything.
Outcomes(ask, args) ==
  CASE ask.name = "read_group_history" -> ReadGroupHistory(ask, args)
    [] ask.name = "read_document" -> ReadDocument
    [] ask.name = "download_attachment" -> DownloadAttachment(ask)
    [] ask.name = "run_python" -> RunPython
    [] ask.name = "list_files" -> ListFiles
    [] OTHER -> Codes \cup {"ok"}

ToolAnswers(c) ==
  /\ call[c].at = "running"
  /\ \E out \in Outcomes(call[c].ask, call[c].args) :
       IF out = "ok"
       THEN \E size \in {1, MaxContent + 2} : call' = [call EXCEPT ![c] = Answered(@, size)]
       ELSE call' = [call EXCEPT ![c] = Failed(@, out)]
  /\ UNCHANGED <<setup, offered, registry, ports, source, tokens>>

\* A mutant: a tool that timed out is tried again, however often it does.
ToolBreaks_TriesAgain(c) ==
  /\ call[c].at = "running"
  /\ \/ call' = [call EXCEPT ![c] = Failed(@, "upstream")]
     \/ call' = [call EXCEPT ![c].at = "policy"]
  /\ UNCHANGED <<setup, offered, registry, ports, source, tokens>>

\* CatchPanic, and the timeout over budget() of the tool.
ToolBreaks(c) ==
  /\ call[c].at = "running"
  /\ \E code \in {"upstream", "timeout"} : call' = [call EXCEPT ![c] = Failed(@, code)]
  /\ UNCHANGED <<setup, offered, registry, ports, source, tokens>>

\* The caller drops the call, and with it the tool.
Drop(c) ==
  /\ call[c].at \in {"policy", "running"}
  /\ call' = [call EXCEPT ![c].at = "dropped"]
  /\ UNCHANGED <<setup, offered, registry, ports, source, tokens>>

-----------------------------------------------------------------------------
Ends(c) == PolicyRefuses(c) \/ PolicyAllows(c) \/ ToolAnswers(c) \/ ToolBreaks(c)

Next ==
  \/ Wire \/ Build
  \/ \E t \in Tasks : RegisterTask(t) \/ ReleaseTask(t)
  \/ \E c \in Calls : Begin(c) \/ Ends(c) \/ Drop(c)

\* A policy answers, and the timeout ends every tool that does not.
Progress == \E c \in Calls : Ends(c)

Spec == Init /\ [][Next]_vars /\ WF_vars(Progress)

-----------------------------------------------------------------------------
\* Every variable holds what its declaration says.
TypeOK ==
  /\ setup \in {"wiring", "ready", "refused"}
  /\ ports \subseteq {"platform", "sandbox"} /\ source \in {"table", "store"}
  /\ \A t \in Tasks : tokens[t] \in {None, Minted[t]}
  /\ \A c \in Calls :
       /\ call[c].at \in {"idle", "policy", "running", "done", "dropped"}
       /\ call[c].at = "done" => (call[c].ok <=> call[c].code = None)
       /\ call[c].code \in Codes \cup {None} /\ call[c].size <= MaxContent

Ran(c) == call[c].args # None

\* A tool only ever runs for the task its caller holds the token of, whatever
\* is registered and released around the call (check_token).
RunsForItsTask ==
  \A c \in Calls : Ran(c) => /\ call[c].ask.token = Minted[call[c].ask.task]
                             /\ call[c].ask.token # <<>>

\* A code of the gateway's own says of a tool of ours that it did not run: the
\* call can be made again without doing anything twice (tools/mod.rs:8-10).
JudgedBefore ==
  \A c \in Calls :
    /\ call[c].code \in {"denied", "not_found", "invalid_args"} /\ In(call[c].ask.name, Builtins)
         => ~Ran(c)
    /\ call[c].code \in {"sandbox", "timeout"} => Ran(c)

\* What the catalog lists is one tool per name, and a call finds a tool exactly
\* when the catalog of its task lists it (visible, register).
CatalogIsTrue ==
  setup = "ready" =>
    \A t \in Tasks : LET names == Catalog(t) IN
      /\ \A i, j \in DOMAIN names : names[i] = names[j] => i = j
      /\ \A i \in DOMAIN names : names[i] \notin LocalTools
      /\ \A c \in Calls : call[c].ask.task = t =>
           /\ call[c].code = "not_found" /\ ~Ran(c) => ~In(call[c].ask.name, names)
           /\ Ran(c) => In(call[c].ask.name, names)

\* What was given is there, at whatever depth.
RECURSIVE Kept(_, _)
Kept(given, args) ==
  /\ given.kind = args.kind
  /\ IF given.kind \in {"object", "array"}
     THEN \A p \in DOMAIN given.v : p \in DOMAIN args.v /\ Kept(given.v[p], args.v[p])
     ELSE given = args

\* A tool gets what the model gave, unchanged, and every default it may rely
\* on, and what it gets fits its schema (validate_arguments, str_arg, u32_arg).
ArgumentsFit ==
  \A c \in Calls : Ran(c) =>
    LET ask == call[c].ask
        args == call[c].args
        schema == Schemas[ask.name]
    IN  /\ Fits(args, schema) /\ Literal(args, schema)
        /\ \A p \in DOMAIN schema.properties :
             schema.properties[p].default # None => p \in DOMAIN args.v
        /\ Kept(ask.given, args)

\* An attachment lands in one file right below /work/in, whatever its key is
\* (safe_name, posix_name).
NameIsPlain ==
  \A c \in Calls : call[c].ok /\ call[c].ask.name = "download_attachment" =>
    LET name == SafeName(call[c].args.v["file_key"].v) IN
      /\ Len(name) \in 1..MaxName
      /\ \A i \in DOMAIN name : Safe(name[i])
      /\ name[1] \notin {".", "_"}

\* No call is left without an answer.
Quiet == \A c \in Calls : call[c].at \notin {"policy", "running"}
=============================================================================
