--------------------------- MODULE EvidenceWriter ---------------------------
(***************************************************************************)
(* FileEvidenceWriter (core/crates/evidence, writer.rs): the evidence      *)
(* chain of one task on disk.  append and finalize run in spawn_blocking   *)
(* closures one at a time under write_lock; a closure runs to its end      *)
(* although the caller's future may be dropped.  The process may die at    *)
(* any point, and a write may fail, in its middle too.                     *)
(*                                                                         *)
(* events.jsonl is `lines` and `tail`: what follows the last newline is    *)
(* nothing, half a record, or a whole record, which then is the last of    *)
(* `lines`.  A call's payload is the call; the hash of a record is the     *)
(* sequence of the payloads up to it, so that equal hashes are equal       *)
(* histories.  payloads/{seq}.json is a pair of `files`, absent when torn. *)
(***************************************************************************)
EXTENDS Naturals, Sequences, FiniteSets

CONSTANTS Appends,      \* the calls of append
          Large,        \* those whose payload is over 64 KB
          Finalizes,    \* the calls of finalize
          MaxCrashes,   \* bound: how often the process dies
          MayFail       \* file operations may fail

ASSUME EvidenceAssumption ==
    /\ Large \subseteq Appends
    /\ Appends \cap Finalizes = {}
    /\ MaxCrashes \in Nat
    /\ MayFail \in BOOLEAN

Calls == Appends \cup Finalizes

VARIABLES lines, tail,   \* events.jsonl
          files,         \* payloads/
          manifest,      \* manifest.json
          tip,           \* the cached tip: next seq and last hash
          holder,        \* who holds write_lock
          pc, at,        \* where each closure is, and the tip it read
          dropped,       \* the calls whose caller has gone
          crashes        \* how often the process died

disk == <<lines, tail, files, manifest>>
closures == <<pc, at, dropped>>
vars == <<disk, tip, holder, closures, crashes>>

Genesis == <<>>
Start == [seq |-> 0, hash |-> Genesis]
Cold == [hot |-> FALSE, seq |-> 0, hash |-> Genesis]
NoManifest == [state |-> "none", count |-> 0, root |-> Genesis]

Init ==
    /\ lines = <<>> /\ tail = "none" /\ files = {} /\ manifest = NoManifest
    /\ tip = Cold
    /\ holder = {}
    /\ pc = [c \in Calls |-> "idle"]
    /\ at = [c \in Calls |-> Start]
    /\ dropped = {}
    /\ crashes = 0
-----------------------------------------------------------------------------
Goes(c, p, q) == pc[c] = p /\ pc' = [pc EXCEPT ![c] = q]

Last_OffByOne == [seq |-> Len(lines) - 1,
                  hash |-> IF lines = <<>> THEN Genesis ELSE lines[Len(lines)].hash]

(* read_events, and the tip it gives *)
Last == IF lines = <<>> THEN Start
        ELSE [seq |-> lines[Len(lines)].seq + 1, hash |-> lines[Len(lines)].hash]

Event(c) == [seq |-> at[c].seq, call |-> c, prev |-> at[c].hash, hash |-> Append(at[c].hash, c)]

Spawn(c) ==
    /\ Goes(c, "idle", "lock")
    /\ UNCHANGED <<disk, tip, holder, at, dropped, crashes>>

Lock(c) ==
    /\ Goes(c, "lock", "heal")
    /\ holder = {} /\ holder' = {c}
    /\ UNCHANGED <<disk, tip, at, dropped, crashes>>

Heal_KeepsTip(c) ==
    /\ Goes(c, "heal", "look")
    /\ tail' = "none"
    /\ UNCHANGED <<lines, files, manifest, tip, holder, at, dropped, crashes>>

Heal_DropsWhole(c) ==
    /\ Goes(c, "heal", "look")
    /\ tail' = "none"
    /\ lines' = IF tail = "whole" THEN SubSeq(lines, 1, Len(lines) - 1) ELSE lines
    /\ tip' = IF tail = "none" THEN tip ELSE Cold
    /\ UNCHANGED <<files, manifest, holder, at, dropped, crashes>>

(* heal_torn_tail: half a record is cut off, a whole one gets its newline *)
Heal(c) ==
    /\ Goes(c, "heal", "look")
    /\ tail' = "none"
    /\ tip' = IF tail = "none" THEN tip ELSE Cold
    /\ UNCHANGED <<lines, files, manifest, holder, at, dropped, crashes>>

Cached(c) == c \in Appends /\ tip.hot

(* chain_tip, through the cache; finalize reads the file *)
Look(c) ==
    /\ LET seen == IF Cached(c) THEN [seq |-> tip.seq, hash |-> tip.hash] ELSE Last
       IN  /\ at' = [at EXCEPT ![c] = seen]
           /\ tip' = IF c \in Appends THEN [hot |-> TRUE, seq |-> seen.seq, hash |-> seen.hash]
                                      ELSE tip
    /\ Goes(c, "look", CASE c \in Finalizes -> "manifest" [] c \in Large -> "payload" [] OTHER -> "write")
    /\ UNCHANGED <<disk, holder, dropped, crashes>>

Others(c) == {f \in files : f[1] # at[c].seq}

WritePayload(c) ==
    /\ Goes(c, "payload", "write")
    /\ files' = Others(c) \cup {<<at[c].seq, c>>}
    /\ UNCHANGED <<lines, tail, manifest, tip, holder, at, dropped, crashes>>

WriteLine_ShortWrite(c) ==
    /\ Goes(c, "write", "cache")
    /\ \/ lines' = Append(lines, Event(c)) /\ UNCHANGED tail
       \/ tail' = "half" /\ UNCHANGED lines
    /\ UNCHANGED <<files, manifest, tip, holder, at, dropped, crashes>>

WriteLine(c) ==
    /\ Goes(c, "write", "cache")
    /\ lines' = Append(lines, Event(c))
    /\ UNCHANGED <<tail, files, manifest, tip, holder, at, dropped, crashes>>

Cache(c) ==
    /\ Goes(c, "cache", "done")
    /\ tip' = [hot |-> TRUE, seq |-> at[c].seq + 1, hash |-> Append(at[c].hash, c)]
    /\ holder' = holder \ {c}
    /\ UNCHANGED <<disk, at, dropped, crashes>>

WriteManifest_CountsNext(c) ==
    /\ Goes(c, "manifest", "done")
    /\ manifest' = [state |-> "whole", count |-> at[c].seq + 1, root |-> at[c].hash]
    /\ holder' = holder \ {c}
    /\ UNCHANGED <<lines, tail, files, tip, at, dropped, crashes>>

WriteManifest(c) ==
    /\ Goes(c, "manifest", "done")
    /\ manifest' = [state |-> "whole", count |-> at[c].seq, root |-> at[c].hash]
    /\ holder' = holder \ {c}
    /\ UNCHANGED <<lines, tail, files, tip, at, dropped, crashes>>
-----------------------------------------------------------------------------
Locked == {"heal", "look", "payload", "write", "cache", "manifest"}

(* The cached tip and the update of the cache touch no file. *)
Fallible(c) == pc[c] \in Locked \ {"cache"} /\ ~(pc[c] = "look" /\ Cached(c))

(* What a write that ends early may leave on disk. *)
Partly(c) ==
    \/ UNCHANGED disk
    \/ /\ pc[c] = "payload"
       /\ files' = Others(c)
       /\ UNCHANGED <<lines, tail, manifest>>
    \/ /\ pc[c] = "write"
       /\ \/ tail' = "half" /\ UNCHANGED lines
          \/ tail' = "whole" /\ lines' = Append(lines, Event(c))
       /\ UNCHANGED <<files, manifest>>
    \/ /\ pc[c] = "manifest"
       /\ manifest' = [manifest EXCEPT !.state = "torn"]
       /\ UNCHANGED <<lines, tail, files>>

Fail_KeepsLock(c) ==
    /\ MayFail /\ Fallible(c)
    /\ Partly(c)
    /\ pc' = [pc EXCEPT ![c] = "failed"]
    /\ UNCHANGED <<tip, holder, at, dropped, crashes>>

(* A file operation fails: `?` returns and the guard of the lock drops. *)
Fail(c) ==
    /\ MayFail /\ Fallible(c)
    /\ Partly(c)
    /\ pc' = [pc EXCEPT ![c] = "failed"]
    /\ holder' = holder \ {c}
    /\ UNCHANGED <<tip, at, dropped, crashes>>

Drop_ReleasesLock(c) ==
    /\ pc[c] \in {"lock"} \cup Locked
    /\ dropped' = dropped \cup {c}
    /\ holder' = holder \ {c}
    /\ UNCHANGED <<disk, tip, pc, at, crashes>>

(* The caller's future is dropped; the closure knows nothing of it. *)
Drop(c) ==
    /\ pc[c] \in {"lock"} \cup Locked
    /\ dropped' = dropped \cup {c}
    /\ UNCHANGED <<disk, tip, holder, pc, at, crashes>>

(* The process dies with its closures; the next one starts from the files. *)
Crash ==
    /\ crashes < MaxCrashes
    /\ crashes' = crashes + 1
    /\ \/ UNCHANGED disk
       \/ \E c \in holder : Partly(c)
    /\ tip' = Cold
    /\ holder' = {}
    /\ pc' = [c \in Calls |-> IF pc[c] \in {"lock"} \cup Locked THEN "lost" ELSE pc[c]]
    /\ UNCHANGED <<at, dropped>>

Closure(c) == \/ Lock(c) \/ Heal(c) \/ Look(c) \/ WritePayload(c) \/ WriteLine(c)
              \/ Cache(c) \/ WriteManifest(c)

Next == \/ \E c \in Calls : Spawn(c) \/ Closure(c) \/ Fail(c) \/ Drop(c)
        \/ Crash

(* Threads of the blocking pool run. *)
Fairness == \A c \in Calls : WF_vars(Closure(c))

SafeSpec == Init /\ [][Next]_vars
Spec == SafeSpec /\ Fairness
-----------------------------------------------------------------------------
Hash == Seq(Calls)
Record == [seq : Nat, call : Appends, prev : Hash, hash : Hash]

TypeOK ==
    /\ lines \in Seq(Record) /\ tail \in {"none", "half", "whole"}
    /\ files \subseteq Nat \X Appends
    /\ manifest \in [state : {"none", "torn", "whole"}, count : Nat, root : Hash]
    /\ tip \in [hot : BOOLEAN, seq : Nat, hash : Hash]
    /\ holder \subseteq Calls
    /\ pc \in [Calls -> {"idle", "lock", "done", "failed", "lost"} \cup Locked]
    /\ at \in [Calls -> [seq : Nat, hash : Hash]]
    /\ dropped \subseteq Calls
    /\ crashes \in 0..MaxCrashes

(* One line of verify_sync: the position, the links and the payload agree. *)
Good(i) ==
    LET ev == lines[i]
    IN  /\ ev.seq = i - 1
        /\ ev.prev = IF i = 1 THEN Genesis ELSE lines[i - 1].hash
        /\ ev.hash = Append(ev.prev, ev.call)
        /\ ev.call \in Large => <<ev.seq, ev.call>> \in files

(* verify() is false for no reason but half a record at the end: whatever   *)
(* fails, crashes or is dropped, all records before it stand (writer.rs,    *)
(* header).                                                                 *)
ChainSound == \A i \in DOMAIN lines : Good(i)

(* No record that verify() accepts is ever taken away or changed: healing   *)
(* drops only bytes that never counted (writer.rs, header).                 *)
RecordsStay ==
    [][Len(lines) <= Len(lines') /\ \A i \in DOMAIN lines : lines'[i] = lines[i]]_vars

(* An append that returned Ok is on the chain once, one that is not is      *)
(* there at most once, whatever was retried or lost around it.              *)
AppendedOnce ==
    \A c \in Appends :
        LET found == {i \in DOMAIN lines : lines[i].call = c}
        IN  Cardinality(found) <= 1 /\ (pc[c] = "done" => found # {})

(* A manifest that can be read names a point of the chain: event_count      *)
(* records end in root_hash, and later appends do not change that.          *)
ManifestHolds ==
    manifest.state = "whole" =>
        /\ manifest.count <= Len(lines)
        /\ manifest.root = IF manifest.count = 0 THEN Genesis ELSE lines[manifest.count].hash

(* The lock is always given back: every call ends, unless the process does. *)
CallsEnd == \A c \in Calls : (pc[c] = "lock") ~> (pc[c] \in {"done", "failed", "lost"})
=============================================================================
