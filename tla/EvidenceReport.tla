--------------------------- MODULE EvidenceReport ---------------------------
(***************************************************************************)
(* `aite evidence show` (core/crates/evidence/src/cli.rs): the files of    *)
(* one task are read and every line of the chain is judged, all problems   *)
(* being collected.  The worker may be appending and finalizing meanwhile; *)
(* and the files may have been edited by hand or cut short by a crash.     *)
(* FileEvidenceWriter::verify (writer.rs), which stops at the first        *)
(* problem, judges the same lines.                                         *)
(*                                                                         *)
(* A payload is a number: the n-th that was written is n, 0 is any other.  *)
(* A payload is its own hash and chain_hash is a pair, so that equal       *)
(* hashes have equal histories.  Details, cost and layout are left out.    *)
(***************************************************************************)
EXTENDS Naturals, Sequences, SequencesExt

CONSTANTS
  MaxEvents,  \* bound: records that are written
  MaxEdits    \* bound: edits of the files

VARIABLES
  lines,      \* events.jsonl
  external,   \* payloads/: seq -> payload, for the payloads kept outside of the line
  manifest,   \* manifest.json
  sealed,     \* records that finalize found
  edits,      \* what was edited: a sequence of <<how, line>>
  pc,         \* the reader: "idle", "manifest", "events", "judge" or "done"
  held,       \* the manifest the reader has
  raw,        \* the lines the reader has
  at,         \* the next of them
  prev,       \* the hash the next record has to continue
  issues,     \* <<line, problem>>
  problems    \* what does not agree with the manifest

files == <<lines, external, manifest, sealed>>
reader == <<pc, held, raw, at, prev, issues, problems>>
vars == <<files, edits, reader>>

Genesis == <<>>
ChainHash(before, payload) == <<before, payload>>

NoManifest == [state |-> "none", root |-> Genesis, count |-> 0]
Torn == [state |-> "junk", root |-> Genesis, count |-> 0]
Manifest(root, count) == [state |-> "whole", root |-> root, count |-> count]

Missing == MaxEvents + 1

Blank == [what |-> "blank"]
Junk == [what |-> "junk"]

\* A record; ref is the file its payload is in, or NoRef.
NoRef == MaxEvents
Record(seq, payload, before, ref) ==
  [what |-> "event", task |-> "mine", seq |-> seq, ref |-> ref, inline |-> payload,
   payloadHash |-> payload, prev |-> before, hash |-> ChainHash(before, payload)]

Init ==
  /\ lines = <<>>
  /\ external = [s \in {} |-> 0]
  /\ manifest = NoManifest
  /\ sealed = 0
  /\ edits = <<>>
  /\ pc = "idle"
  /\ held = NoManifest
  /\ raw = <<>>
  /\ at = 1
  /\ prev = Genesis
  /\ issues = {}
  /\ problems = {}

-----------------------------------------------------------------------------
\* The worker, which appends and then finalizes (the subject of EvidenceWriter).

Records == SelectSeq(lines, LAMBDA l : l.what = "event")
Tip == IF Records = <<>> THEN Genesis ELSE Last(Records).hash
Complete == Records = lines

\* A large payload is in its file before its record is in the chain.
AppendStarts(ext) ==
  /\ edits = <<>> /\ manifest = NoManifest /\ Complete
  /\ Len(lines) < MaxEvents
  /\ lines' = Append(lines, Junk)
  /\ LET n == Len(lines) IN
     external' = IF ext THEN [s \in DOMAIN external \cup {n} |-> IF s = n THEN n + 1 ELSE external[s]]
                 ELSE external
  /\ UNCHANGED <<manifest, sealed, edits, reader>>

AppendEnds ==
  /\ edits = <<>> /\ ~ Complete
  /\ LET n == Len(Records) IN
     lines' = Append(Records, Record(n, n + 1, Tip, IF n \in DOMAIN external THEN n ELSE NoRef))
  /\ UNCHANGED <<external, manifest, sealed, edits, reader>>

\* fs::write: the manifest is empty first.
FinalizeStarts ==
  /\ edits = <<>> /\ manifest = NoManifest /\ Complete
  /\ lines # <<>>
  /\ manifest' = Torn
  /\ sealed' = Len(lines)
  /\ UNCHANGED <<lines, external, edits, reader>>

FinalizeEnds ==
  /\ edits = <<>> /\ manifest = Torn
  /\ manifest' = Manifest(Tip, Len(lines))
  /\ UNCHANGED <<lines, external, sealed, edits, reader>>

-----------------------------------------------------------------------------
\* Edits, while nobody reads or writes.

Edit(how, i) ==
  /\ pc = "idle"
  /\ edits = <<>> => Complete /\ manifest # Torn
  /\ Len(edits) < MaxEdits
  /\ edits' = Append(edits, <<how, i>>)
  /\ UNCHANGED <<sealed, reader>>

Events == {i \in 1 .. Len(lines) : lines[i].what = "event"}

Drop(i) ==
  /\ Edit("drop", i)
  /\ lines' = RemoveAt(lines, i)
  /\ UNCHANGED <<external, manifest>>

Insert(i, line) ==
  /\ Edit("insert", i)
  /\ lines' = InsertAt(lines, i, line)
  /\ UNCHANGED <<external, manifest>>

\* Half a record, or bytes that are not one.
Garble(i) ==
  /\ Edit("garble", i)
  /\ lines' = [lines EXCEPT ![i] = Junk]
  /\ UNCHANGED <<external, manifest>>

Swap(i) ==
  /\ Edit("swap", i)
  /\ lines' = [lines EXCEPT ![i] = lines[i + 1], ![i + 1] = lines[i]]
  /\ UNCHANGED <<external, manifest>>

Renumber(i, seq) ==
  /\ Edit("renumber", i)
  /\ lines' = [lines EXCEPT ![i].seq = seq]
  /\ UNCHANGED <<external, manifest>>

OtherTask(i) ==
  /\ Edit("task", i)
  /\ lines' = [lines EXCEPT ![i].task = "other"]
  /\ UNCHANGED <<external, manifest>>

\* The payload, where it is; with `hashes`, the record's own hashes too.
Rewrite(i, hashes) ==
  /\ Edit(IF hashes THEN "forge" ELSE "payload", i)
  /\ lines' = [lines EXCEPT ![i].inline = 0,
                 ![i].payloadHash = IF hashes THEN 0 ELSE @,
                 ![i].hash = IF hashes THEN ChainHash(lines[i].prev, 0) ELSE @]
  /\ external' = [s \in DOMAIN external |->
                    IF s = lines[i].ref THEN 0 ELSE external[s]]
  /\ UNCHANGED manifest

LoseExternal(i) ==
  /\ lines[i].ref \in DOMAIN external
  /\ Edit("payload", i)
  /\ external' = [s \in DOMAIN external \ {lines[i].ref} |-> external[s]]
  /\ UNCHANGED <<lines, manifest>>

EditManifest(m) ==
  /\ manifest \notin {NoManifest, m}
  /\ Edit("manifest", 0)
  /\ manifest' = m
  /\ UNCHANGED <<lines, external>>

EditFiles ==
  \/ \E i \in 1 .. Len(lines) : Drop(i) \/ Garble(i)
  \/ \E i \in 1 .. Len(lines) + 1 : \E line \in {Blank} \cup Range(lines) : Insert(i, line)
  \/ \E i \in 1 .. Len(lines) - 1 : Swap(i)
  \/ \E i \in Events :
       \/ \E seq \in 0 .. MaxEvents : Renumber(i, seq)
       \/ OtherTask(i)
       \/ \E hashes \in BOOLEAN : Rewrite(i, hashes)
       \/ LoseExternal(i)
  \/ \E m \in {NoManifest, Torn, Manifest(Genesis, Len(lines))} : EditManifest(m)

-----------------------------------------------------------------------------
\* load_timeline

\* load_manifest, before events.jsonl is read.
Open ==
  /\ pc = "idle"
  /\ pc' = "events"
  /\ held' = manifest
  /\ problems' = IF manifest = Torn THEN {"unreadable"} ELSE {}
  /\ UNCHANGED <<files, edits, raw, at, prev, issues>>

ReadEvents ==
  /\ pc = "events"
  /\ pc' = "judge"
  /\ raw' = lines
  /\ UNCHANGED <<files, edits, held, at, prev, issues, problems>>

\* resolve_payload: what the record says itself, or its file.
Payload(ev) ==
  IF ev.ref = NoRef THEN ev.inline
  ELSE IF ev.ref \in DOMAIN external THEN external[ev.ref] ELSE Missing

FirstTask == SelectInSeq(raw, LAMBDA l : l.what = "event")

\* Everything that is wrong with one record.
Wrong(i, ev) ==
  {w \in {"task", "seq", "payload", "prev", "hash"} :
     CASE w = "task" -> ev.task # raw[FirstTask].task
       [] w = "seq" -> ev.seq # i - 1
       [] w = "payload" -> Payload(ev) # ev.payloadHash
       [] w = "prev" -> ev.prev # prev
       [] w = "hash" -> ev.hash # ChainHash(ev.prev, ev.payloadHash)}

SkipBlank ==
  /\ pc = "judge" /\ at <= Len(raw) /\ raw[at].what = "blank"
  /\ at' = at + 1
  /\ UNCHANGED <<files, edits, pc, held, raw, prev, issues, problems>>

SkipJunk ==
  /\ pc = "judge" /\ at <= Len(raw) /\ raw[at].what = "junk"
  /\ at' = at + 1
  /\ issues' = issues \cup {<<at, "junk">>}
  /\ UNCHANGED <<files, edits, pc, held, raw, prev, problems>>

\* The next record has to continue what this one says, right or wrong.
Continue(ev) == ev.hash

Judge ==
  /\ pc = "judge" /\ at <= Len(raw) /\ raw[at].what = "event"
  /\ issues' = issues \cup {<<at, w>> : w \in Wrong(at, raw[at])}
  /\ prev' = Continue(raw[at])
  /\ at' = at + 1
  /\ UNCHANGED <<files, edits, pc, held, raw, problems>>

Rows == Len(SelectSeq(raw, LAMBDA l : l.what = "event"))

\* A mutant: the manifest is read when it is needed.
CheckManifest_ReadsItThen ==
  IF manifest.state # "whole" THEN problems
  ELSE problems \cup {"root" : r \in {manifest.root} \ {prev}} \cup {"count" : c \in {manifest.count} \ {Rows}}

\* check_manifest: the root hash and the number of records.
CheckManifest ==
  problems \cup (IF held.state # "whole" THEN {}
                 ELSE {"root" : r \in {held.root} \ {prev}} \cup {"count" : c \in {held.count} \ {Rows}})

Conclude ==
  /\ pc = "judge" /\ at > Len(raw)
  /\ pc' = "done"
  /\ problems' = CheckManifest
  /\ UNCHANGED <<files, edits, held, raw, at, prev, issues>>

Next ==
  \/ \E ext \in BOOLEAN : AppendStarts(ext)
  \/ AppendEnds \/ FinalizeStarts \/ FinalizeEnds
  \/ EditFiles
  \/ Open \/ ReadEvents \/ SkipBlank \/ SkipJunk \/ Judge \/ Conclude

Spec == Init /\ [][Next]_vars

-----------------------------------------------------------------------------
\* verify_sync: the lines all hold, each with the record before it.
Verify ==
  \A i \in 1 .. Len(raw) :
    LET ev == raw[i]
        before == {j \in 1 .. i - 1 : raw[j].what = "event"}
        tip == IF before = {} THEN Genesis
               ELSE raw[CHOOSE j \in before : \A k \in before : k <= j].hash
    IN ev.what # "blank" =>
         /\ ev.what = "event"
         /\ ev.task = "mine"
         /\ ev.seq = i - 1
         /\ Payload(ev) = ev.payloadHash
         /\ ev.prev = tip
         /\ ev.hash = ChainHash(tip, ev.payloadHash)

Ok == issues = {} /\ problems = {}

\* The state is well formed, and the reader has judged each line before the next.
TypeOK ==
  /\ \A l \in Range(lines) \cup Range(raw) : l.what \in {"event", "blank", "junk"}
  /\ manifest.count \in 0 .. MaxEvents + MaxEdits
  /\ sealed \in 0 .. MaxEvents
  /\ Len(edits) <= MaxEdits
  /\ pc \in {"idle", "events", "judge", "done"}
  /\ at \in 1 .. Len(raw) + 1
  /\ \A issue \in issues : issue[1] < at

\* The payloads of the records, in order.
Payloads == [i \in 1 .. Rows |-> Payload(SelectSeq(raw, LAMBDA l : l.what = "event")[i])]

\* `evidence show` and FileEvidenceWriter::verify agree on every file, torn, edited
\* or whole (cli.rs load_timeline, writer.rs verify_sync); unless the whole file is
\* another task's, for show takes its task from the first record.
SameVerdict ==
  (pc = "done" /\ \E i \in 1 .. Len(raw) : raw[i].what = "event" /\ raw[i].task = "mine") =>
    ((issues = {}) <=> Verify)

\* Whoever reads while the worker appends and finalizes is told of no problem, but
\* for what is being written that moment, the last line or the manifest
\* (cli.rs load_timeline reads the manifest before the events).
NoFalseAlarm ==
  (pc = "done" /\ edits = <<>>) =>
    issues \subseteq {<<Len(raw), "junk">>} /\ problems \subseteq {"unreadable"}

\* What is found right against the manifest that finalize wrote has the payloads
\* that were written, all of them and in their order, whatever was edited
\* (cli.rs check_manifest, load_timeline).
SealedIsGuarded ==
  (pc = "done" /\ Ok /\ sealed > 0 /\ held.state = "whole" /\ <<"manifest", 0>> \notin Range(edits)) =>
    Payloads = [i \in 1 .. sealed |-> i]

\* Edits in place are reported at their own lines or at the next one, and a payload
\* that alone was changed is reported once: no cascade of problems that are none
\* (cli.rs load_timeline).
BlameIsLocal ==
  (pc = "done" /\ edits # <<>> /\ \A e \in Range(edits) : e[1] \in {"payload", "forge", "garble", "renumber"}) =>
    /\ \A issue \in issues : \E e \in Range(edits) : issue[1] \in {e[2], e[2] + 1}
    /\ (\A e \in Range(edits) : e[1] = "payload") => issues \subseteq {<<e[2], "payload">> : e \in Range(edits)}
=============================================================================
