----------------------------- MODULE Preflight -----------------------------
(***************************************************************************)
(* `aite preflight` (core/crates/app/src/preflight.rs) beside the take-off *)
(* it speaks for (app.rs build_app, run.rs takeoff): the seven groups of   *)
(* checks in their order, the probe container of the sixth, the repairs    *)
(* that the report asks for, and then `aite run` on the same machine.      *)
(*                                                                         *)
(* The machine is the set of its flaws: what is wrong with the             *)
(* configuration file, the environment, the disk, Feishu, the model        *)
(* endpoint and edge.  A report is a status per group and the set of flaws *)
(* that its lines point out; wording, timing and redaction are left out.   *)
(* Some flaws appear while the checks run (edge goes down, docker stops).  *)
(***************************************************************************)
EXTENDS FiniteSetsExt, Naturals

CONSTANTS
  MaxFlaws,   \* bound: flaws the machine starts with
  MaxChanges  \* bound: flaws that appear later

Groups == {"config", "env", "token", "identity", "model", "sandbox", "storage"}

\* no_config: there is no config/aite.yaml; the others of this set are inside it.
YamlFlaws == {"bad_yaml", "fake", "scripted", "no_prompt", "blank_model"}
EnvFlaws == {"no_key", "no_creds", "no_bot"}
FeishuFlaws == {"bad_creds", "other_bot"}
DiskFlaws == {"junk_db", "readonly_db", "locked_dir"}
EdgeFlaws == {"edge_down", "contract", "docker_down", "no_image", "no_packages", "remove_fails"}
Flaws == {"no_config", "model_down", "second_core"}
           \cup YamlFlaws \cup EnvFlaws \cup FeishuFlaws \cup DiskFlaws \cup EdgeFlaws

\* What may go wrong while the machine is being looked at.
Sudden == {"edge_down", "docker_down", "contract", "remove_fails", "model_down", "second_core"}

VARIABLES
  offline,   \* --offline
  explicit,  \* --config was given
  flaws,     \* the machine
  pc,        \* the next check or the next step of take-off
  row,       \* the status of each group in this report, "none" before it is known
  named,     \* flaws this report points out
  box,       \* the container of the sixth group: "none", "up" or "gone"
  probe,     \* how the probe inside it ended: "none", "ok" or "failed"
  changed,   \* a flaw has appeared since this report was begun
  changes

vars == <<offline, explicit, flaws, pc, row, named, box, probe, changed, changes>>

NoRows == [g \in Groups |-> "none"]

Init ==
  /\ offline \in BOOLEAN
  /\ explicit \in BOOLEAN
  /\ flaws \in {F \in UNION {kSubset(n, Flaws) : n \in 0 .. MaxFlaws} :
                  /\ "no_config" \in F => F \cap YamlFlaws = {}
                  /\ ~ {"junk_db", "readonly_db"} \subseteq F}
  /\ pc = "config"
  /\ row = NoRows
  /\ named = {}
  /\ box = "none"
  /\ probe = "none"
  /\ changed = FALSE
  /\ changes = 0

Read(S) == flaws \cap S

-----------------------------------------------------------------------------
\* The configuration the checks look at.

\* pick_config: without --config and without the file, the example is read instead.
FellBack == "no_config" \in flaws /\ ~ explicit

Unreadable == "bad_yaml" \in flaws \/ ("no_config" \in flaws /\ explicit)

\* The example has neither base_url nor model.
Seen == IF FellBack THEN flaws \cup {"blank_model"} ELSE flaws

\* injection_fault: what `aite run` would need injected, and nobody injects.
InjectionFaults == Seen \cap {"fake", "scripted"}

\* model_blanks, which the first and the fifth group share.
ModelBlanks == Seen \cap {"blank_model", "no_key"}

\* model_config_fault: only with provider openai_compat.
ModelConfigFaults == IF "scripted" \in Seen THEN {} ELSE ModelBlanks

\* A mutant: the model section is left to the fifth group.
ConfigFaults_LeavesTheModel ==
  (Seen \cap {"no_prompt"}) \cup InjectionFaults \cup (Seen \cap {"junk_db", "readonly_db"})

\* check_config: all that keeps this configuration from taking off.
ConfigFaults ==
  (Seen \cap {"no_prompt"})
    \cup InjectionFaults
    \cup (IF FellBack THEN {} ELSE ModelConfigFaults)
    \cup (Seen \cap {"junk_db", "readonly_db"})

-----------------------------------------------------------------------------
\* The checks, in the order of run_checks.

Report(g, status, points) ==
  /\ row' = [row EXCEPT ![g] = status]
  /\ named' = named \cup points

Goto(from, to) == pc = from /\ pc' = to

CheckConfigUnreadable ==
  /\ Unreadable
  /\ Goto("config", "done")
  /\ row' = [g \in Groups |-> IF g = "config" THEN "fail" ELSE "skip"]
  /\ named' = Read({"bad_yaml", "no_config"})
  /\ UNCHANGED <<offline, explicit, flaws, box, probe, changed, changes>>

CheckConfig ==
  /\ ~ Unreadable
  /\ Goto("config", "env")
  /\ IF ConfigFaults # {} THEN Report("config", "fail", ConfigFaults)
     ELSE IF FellBack THEN Report("config", "warn", {"no_config"})
     ELSE Report("config", "ok", {})
  /\ UNCHANGED <<offline, explicit, flaws, box, probe, changed, changes>>

\* check_env names what is missing; with --offline it is no reason to be red.
CheckEnv ==
  /\ Goto("env", "feishu")
  /\ IF "fake" \in flaws THEN Report("env", "skip", {})
     ELSE IF Read(EnvFlaws) = {} THEN Report("env", "ok", {})
     ELSE Report("env", IF offline THEN "warn" ELSE "fail", Read(EnvFlaws))
  /\ UNCHANGED <<offline, explicit, flaws, box, probe, changed, changes>>

FeishuRows(token, identity, points) ==
  /\ row' = [row EXCEPT !["token"] = token, !["identity"] = identity]
  /\ named' = named \cup points

\* check_feishu, check_feishu_token and check_feishu_identity.
CheckFeishu ==
  /\ Goto("feishu", "model")
  /\ CASE "fake" \in flaws \/ offline -> FeishuRows("skip", "skip", {})
       [] OTHER ->
            CASE "no_creds" \in flaws -> FeishuRows("fail", "fail", {"no_creds"})
              [] "no_creds" \notin flaws /\ "bad_creds" \in flaws ->
                   FeishuRows("fail", "skip", {"bad_creds"})
              [] Read({"no_creds", "bad_creds"}) = {} /\ Read({"no_bot", "other_bot"}) # {} ->
                   FeishuRows("ok", "fail",
                     IF "no_bot" \in flaws THEN {"no_bot"} ELSE {"other_bot"})
              [] OTHER -> FeishuRows("ok", "ok", {})
  /\ UNCHANGED <<offline, explicit, flaws, box, probe, changed, changes>>

\* check_model
CheckModel ==
  /\ Goto("model", IF offline THEN "storage" ELSE "edge")
  /\ IF offline THEN
       /\ row' = [row EXCEPT !["model"] = "skip", !["sandbox"] = "skip"]
       /\ named' = named
     ELSE IF "scripted" \in flaws THEN Report("model", "warn", {"scripted"})
     ELSE IF ModelBlanks # {} THEN Report("model", "fail", ModelBlanks)
     ELSE IF "model_down" \in flaws THEN Report("model", "fail", {"model_down"})
     ELSE Report("model", "ok", {})
  /\ UNCHANGED <<offline, explicit, flaws, box, probe, changed, changes>>

\* check_sandbox asks edge for its status; edge_status_verdict judges it.
EdgeVerdict ==
  IF "edge_down" \in flaws THEN {"edge_down"}
  ELSE IF "contract" \in flaws THEN {"contract"}
  ELSE flaws \cap {"docker_down"}

AskEdge ==
  /\ IF EdgeVerdict = {}
     THEN Goto("edge", "acquire") /\ UNCHANGED <<row, named>>
     ELSE Goto("edge", "storage") /\ Report("sandbox", "fail", EdgeVerdict)
  /\ UNCHANGED <<offline, explicit, flaws, box, probe, changed, changes>>

-----------------------------------------------------------------------------
\* probe_sandbox: a container, the four imports, and away with it.

Acquire ==
  /\ Read({"edge_down", "docker_down", "no_image"}) = {}
  /\ Goto("acquire", "exec")
  /\ box' = "up"
  /\ UNCHANGED <<offline, explicit, flaws, row, named, probe, changed, changes>>

\* Edge may be gone before it answers, with the container already there.
AcquireFails ==
  /\ Read({"edge_down", "docker_down", "no_image"}) # {}
  /\ Goto("acquire", "storage")
  /\ box' \in IF "no_image" \in flaws THEN {"none"} ELSE {"none", "up"}
  /\ Report("sandbox", "fail", {"no_image"})
  /\ UNCHANGED <<offline, explicit, flaws, probe, changed, changes>>

Exec ==
  /\ Goto("exec", "release")
  /\ probe' = IF Read({"edge_down", "docker_down", "no_packages"}) = {} THEN "ok" ELSE "failed"
  /\ UNCHANGED <<offline, explicit, flaws, row, named, box, changed, changes>>

\* sandbox_release_verdict: only what release() itself answers counts.
ReleaseVerdict ==
  Read({"edge_down", "docker_down", "remove_fails"}) = {}

Release ==
  /\ Goto("release", "storage")
  /\ box' = IF Read({"edge_down", "docker_down", "remove_fails"}) = {} THEN "gone" ELSE box
  /\ IF probe = "failed" THEN Report("sandbox", "fail", {"no_packages"})
     ELSE IF ~ ReleaseVerdict THEN Report("sandbox", "fail", {"remove_fails"})
     ELSE Report("sandbox", "ok", {})
  /\ UNCHANGED <<offline, explicit, flaws, probe, changed, changes>>

-----------------------------------------------------------------------------

CheckStorage ==
  /\ Goto("storage", "done")
  /\ IF "locked_dir" \in flaws
     THEN Report("storage", "fail", {"locked_dir"})
     ELSE Report("storage", "ok", {})
  /\ UNCHANGED <<offline, explicit, flaws, box, probe, changed, changes>>

\* Report::ok, which is the exit status.
Green == \A g \in Groups : row[g] \notin {"none", "fail"}

\* Whoever reads the report mends what it points out, and asks again.
Repair ==
  /\ Goto("done", "config")
  /\ named \cap flaws # {} \/ ~ Green
  /\ flaws' = flaws \ named
  /\ row' = NoRows
  /\ named' = {}
  /\ box' = "none"
  /\ probe' = "none"
  /\ changed' = FALSE
  /\ UNCHANGED <<offline, explicit, changes>>

\* The machine gets worse on its own.
Break(f) ==
  /\ changes < MaxChanges
  /\ pc \notin {"flying", "refused"}
  /\ f \notin flaws
  /\ flaws' = flaws \cup {f}
  /\ changed' = TRUE
  /\ changes' = changes + 1
  /\ UNCHANGED <<offline, explicit, pc, row, named, box, probe>>

-----------------------------------------------------------------------------
\* `aite run` after a green report: cli::run, build_app and takeoff, step by
\* step.  Each step refuses on flaws of its own.

Step(from, to, refuses) ==
  /\ pc = from
  /\ pc' = IF flaws \cap refuses # {} THEN "refused" ELSE to
  /\ UNCHANGED <<offline, explicit, flaws, row, named, box, probe, changed, changes>>

Load ==
  /\ Green
  /\ Step("done", "mkdir", {"no_config", "bad_yaml"})

\* prepare_storage: only a directory that has still to be made is refused.
MakeDirs ==
  \/ Step("mkdir", "prompt", {"locked_dir"})
  \/ "locked_dir" \in flaws /\ Step("mkdir", "prompt", {})

ReadPrompt == Step("prompt", "platform", {"no_prompt"})

ChoosePlatform == Step("platform", "contract", {"fake"})

\* check_contract_version: an edge that does not answer is no reason to stay.
CompareContract ==
  Step("contract", "build_model", IF "edge_down" \in flaws THEN {} ELSE {"contract"})

BuildModel == Step("build_model", "init", {"scripted", "blank_model", "no_key"})

\* Opening the store and making its tables.
InitStore ==
  \/ Step("init", "listen", {"junk_db", "readonly_db", "locked_dir"})
  \/ "locked_dir" \in flaws /\ Step("init", "listen", {"junk_db", "readonly_db"})

\* platform.start: somebody else listens on the socket.
Listen == Step("listen", "flying", {"second_core"})

Check ==
  \/ CheckConfigUnreadable \/ CheckConfig \/ CheckEnv \/ CheckFeishu \/ CheckModel
  \/ AskEdge \/ Acquire \/ AcquireFails \/ Exec \/ Release \/ CheckStorage

TakeOff ==
  \/ Load \/ MakeDirs \/ ReadPrompt \/ ChoosePlatform \/ CompareContract \/ BuildModel
  \/ InitStore \/ Listen

Next == Check \/ Repair \/ TakeOff \/ \E f \in Sudden : Break(f)

\* The checks run to their end, and somebody reads the report.
Progress == Check \/ Repair \/ TakeOff

Spec == Init /\ [][Next]_vars /\ WF_vars(Progress)

-----------------------------------------------------------------------------
\* The state is well formed; a report has a line for each of the seven groups.
TypeOK ==
  /\ offline \in BOOLEAN
  /\ explicit \in BOOLEAN
  /\ flaws \subseteq Flaws
  /\ pc \in {"config", "env", "feishu", "model", "edge", "acquire", "exec", "release", "storage",
             "done", "mkdir", "prompt", "platform", "contract", "build_model", "init", "listen",
             "flying", "refused"}
  /\ row \in [Groups -> {"none", "ok", "fail", "warn", "skip"}]
  /\ pc = "done" => \A g \in Groups : row[g] # "none"
  /\ named \subseteq Flaws
  /\ box \in {"none", "up", "gone"}
  /\ probe \in {"none", "ok", "failed"}
  /\ changed \in BOOLEAN
  /\ changes \in 0 .. MaxChanges

\* What no report can know or, with these options, was not asked: another core
\* on the socket, a file that is not there yet, the contract of edge.
NotAsked ==
  {"second_core"} \cup (IF explicit THEN {} ELSE {"no_config"})
    \cup (IF offline THEN {"contract"} ELSE {})

\* On a machine that has not changed since its report was begun, `aite run` is not
\* refused after a green report, unless for what the report did not ask: the first
\* group repeats every reason of build_app and of store.init
\* (preflight.rs check_config, app.rs build_app, run.rs takeoff).
GreenTakesOff ==
  (pc = "refused" /\ ~ changed) => flaws \cap NotAsked # {}

\* A report on a configuration that can be read names all that would refuse this
\* configuration at once (provider openai_compat): nobody mends one line to be
\* told of the next (preflight.rs check_config, model_blanks, check_env).
ReportedAtOnce ==
  (pc = "done" /\ ~ changed /\ ~ Unreadable /\ ~ FellBack /\ "scripted" \notin flaws) =>
    flaws \cap {"no_prompt", "fake", "blank_model", "no_key", "junk_db", "readonly_db", "locked_dir"}
      \subseteq named

\* A green report leaves no container of its own on the host, whatever happens to
\* edge and docker in the middle of it (preflight.rs probe_sandbox,
\* sandbox_release_verdict).
GreenLeavesNoContainer == (pc = "done" /\ Green) => box # "up"

\* Mending what each report points out comes to a green report: no line asks for
\* something that does not make it green (preflight.rs run_checks).
RepairsConverge == <>[]Green
=============================================================================
