------------------------ MODULE EvidenceWriter_proof ------------------------
(***************************************************************************)
(* Proofs about EvidenceWriter, for any number of calls, crashes and       *)
(* failures: the chain on disk is sound, records stay, and a manifest      *)
(* names a point of the chain.  ChainSound is not inductive: whether an    *)
(* append fits depends on the tip it read, so the invariant also says who  *)
(* may hold the lock (Mutex), when the cache agrees with the file (Warm)   *)
(* and what a closure knows at each point of its way (Knows).              *)
(***************************************************************************)
EXTENDS EvidenceWriter, TLAPS, FiniteSetTheorems

Mutex == /\ \A c \in Calls : c \in holder <=> pc[c] \in Locked
         /\ \A c, d \in holder : c = d

Warm == (tip.hot /\ tail # "whole" /\ \A c \in Calls : pc[c] # "cache")
          => tip.seq = Last.seq /\ tip.hash = Last.hash

Knows ==
    \A c \in Calls :
        /\ pc[c] \in {"look", "payload", "write", "cache", "manifest"} => tail = "none"
        /\ pc[c] \in {"payload", "write", "cache"} => c \in Appends
        /\ pc[c] \in {"payload", "write", "manifest"} => at[c] = Last
        /\ pc[c] = "write" /\ c \in Large => <<at[c].seq, c>> \in files
        /\ pc[c] = "cache" => at[c].seq + 1 = Last.seq /\ Append(at[c].hash, c) = Last.hash

IInv == TypeOK /\ Mutex /\ ChainSound /\ Warm /\ Knows

(* What a step may do to the file: nothing, or one more record, written by  *)
(* a closure that read the tip.                                             *)
Appending(c) == /\ lines' = Append(lines, Event(c))
                /\ c \in Appends /\ at[c] = Last
                /\ c \in Large => <<at[c].seq, c>> \in files
                /\ files' = files

(* The tip of a sound chain counts its records. *)
LEMMA LastOfSound ==
    ASSUME TypeOK, ChainSound
    PROVE  /\ Last \in [seq : Nat, hash : Hash]
           /\ Last.seq = Len(lines)
           /\ Last.hash = IF lines = <<>> THEN Genesis ELSE lines[Len(lines)].hash
<1>1. CASE lines = <<>>
  BY <1>1 DEF Last, Start, Genesis, Hash
<1>2. CASE lines # <<>>
  <2>1. Len(lines) \in DOMAIN lines /\ lines[Len(lines)] \in Record
    BY <1>2 DEF TypeOK
  <2>2. lines[Len(lines)].seq = Len(lines) - 1
    BY <2>1 DEF ChainSound, Good
  <2> QED BY <1>2, <2>1, <2>2 DEF Last, Record, TypeOK
<1> QED BY <1>1, <1>2

(* Appending what fits keeps the chain sound. *)
LEMMA AppendFits ==
    ASSUME TypeOK, ChainSound, NEW c \in Calls, Appending(c)
    PROVE  /\ lines' \in Seq(Record)
           /\ ChainSound'
           /\ Last' = [seq |-> at[c].seq + 1, hash |-> Append(at[c].hash, c)]
           /\ \A i \in DOMAIN lines : lines'[i] = lines[i]
           /\ Len(lines') = Len(lines) + 1
<1> DEFINE n == Len(lines)
<1>1. /\ at[c] \in [seq : Nat, hash : Hash]
      /\ at[c].seq = n
      /\ at[c].hash = IF lines = <<>> THEN Genesis ELSE lines[n].hash
  BY LastOfSound DEF Appending
<1>2. c \in Appends /\ Append(at[c].hash, c) \in Hash
  BY <1>1 DEF Appending, Hash
<1>3. Event(c) \in Record
  BY <1>1, <1>2 DEF Event, Record
<1>4. /\ lines \in Seq(Record) /\ lines' \in Seq(Record) /\ Len(lines') = n + 1
      /\ lines'[n + 1] = Event(c) /\ n \in Nat
      /\ \A i \in 1..n : lines'[i] = lines[i]
  BY <1>3 DEF TypeOK, Appending
<1>5. ChainSound'
  <2> SUFFICES ASSUME NEW i \in DOMAIN lines' PROVE Good(i)'
    BY DEF ChainSound
  <2>1. CASE i \in 1..n
    <3>1. Good(i)
      BY <2>1, <1>4 DEF ChainSound
    <3>2. lines'[i] = lines[i] /\ (i # 1 => lines'[i - 1] = lines[i - 1])
      BY <2>1, <1>4
    <3> QED BY <3>1, <3>2 DEF Good, Appending
  <2>2. CASE i = n + 1
    <3>1. lines'[i] = Event(c)
      BY <2>2, <1>4
    <3>2. i # 1 => lines'[i - 1] = lines[n] /\ lines # <<>>
      BY <2>2, <1>4
    <3>3. i = 1 => lines = <<>>
      BY <2>2, <1>4
    <3>4. /\ Event(c).seq = n /\ Event(c).call = c
          /\ Event(c).prev = at[c].hash
          /\ Event(c).hash = Append(at[c].hash, c)
      BY <1>1 DEF Event
    <3>5. Event(c).prev = IF i = 1 THEN Genesis ELSE lines'[i - 1].hash
      BY <3>2, <3>3, <3>4, <1>1
    <3>6. c \in Large => <<n, c>> \in files'
      BY <1>1 DEF Appending
    <3>7. n = i - 1
      BY <2>2, <1>4
    <3> QED BY <3>1, <3>4, <3>5, <3>6, <3>7 DEF Good
  <2> QED BY <2>1, <2>2, <1>4
<1>6. Last' = [seq |-> at[c].seq + 1, hash |-> Append(at[c].hash, c)]
  BY <1>4 DEF Last, Event
<1> QED BY <1>4, <1>5, <1>6
-----------------------------------------------------------------------------
(* A step that leaves the records and the payloads alone leaves the chain. *)
LEMMA SameChain ==
    ASSUME lines' = lines, files' = files, ChainSound
    PROVE  ChainSound' /\ Last' = Last
BY DEF ChainSound, Good, Last

(* A payload file at the tip belongs to no record yet. *)
LEMMA FilesFit ==
    ASSUME TypeOK, ChainSound, lines' = lines, NEW c \in Calls, at[c] = Last,
           Others(c) \subseteq files'
    PROVE  ChainSound' /\ Last' = Last
<1>1. Last' = Last
  BY DEF Last
<1>2. ASSUME NEW i \in DOMAIN lines PROVE Good(i)'
  <2>1. Good(i) /\ i \in 1..Len(lines) /\ Len(lines) \in Nat
    BY DEF ChainSound, TypeOK
  <2>2. lines[i].seq # at[c].seq
    BY <2>1, LastOfSound DEF Good
  <2>3. \A r : <<lines[i].seq, r>> \in files => <<lines[i].seq, r>> \in files'
    BY <2>2 DEF Others
  <2> QED BY <2>1, <2>3 DEF Good
<1> QED BY <1>1, <1>2 DEF ChainSound

(* The three things a step does to the disk: nothing, one record more (with *)
(* its newline or without), or a write beside the chain that no line of it  *)
(* refers to.                                                               *)
LEMMA Partial ==
    ASSUME IInv, NEW c \in Calls, Partly(c)
    PROVE  /\ lines' \in Seq(Record) /\ tail' \in {"none", "half", "whole"}
           /\ files' \subseteq Nat \X Appends
           /\ manifest' \in [state : {"none", "torn", "whole"}, count : Nat, root : Hash]
           /\ ChainSound'
           /\ \A i \in DOMAIN lines : lines'[i] = lines[i]
           /\ Len(lines') \in {Len(lines), Len(lines) + 1}
           /\ tail' # "whole" => lines' = lines
           /\ tail' # tail => pc[c] = "write"
           /\ manifest'.state = "whole" => manifest' = manifest
<1>1. CASE UNCHANGED disk
  BY <1>1, SameChain DEF IInv, TypeOK, disk
<1>2. CASE /\ pc[c] = "payload" /\ files' = Others(c) /\ UNCHANGED <<lines, tail, manifest>>
  <2>1. at[c] = Last
    BY <1>2 DEF IInv, Knows
  <2>2. ChainSound'
    BY <1>2, <2>1, FilesFit DEF IInv
  <2> QED BY <1>2, <2>2 DEF IInv, TypeOK, Others
<1>3. CASE /\ pc[c] = "write" /\ tail' = "half" /\ UNCHANGED <<lines, files, manifest>>
  BY <1>3, SameChain DEF IInv, TypeOK
<1>4. CASE /\ pc[c] = "write" /\ tail' = "whole" /\ lines' = Append(lines, Event(c))
           /\ UNCHANGED <<files, manifest>>
  <2>1. Appending(c)
    BY <1>4 DEF IInv, Knows, Appending
  <2> QED BY <1>4, <2>1, AppendFits DEF IInv, TypeOK
<1>5. CASE /\ pc[c] = "manifest" /\ manifest' = [manifest EXCEPT !.state = "torn"]
           /\ UNCHANGED <<lines, tail, files>>
  BY <1>5, SameChain DEF IInv, TypeOK
<1> QED BY <1>1, <1>2, <1>3, <1>4, <1>5 DEF Partly
-----------------------------------------------------------------------------
(* The invariant holds of an empty directory. *)
LEMMA InitIInv == Init => IInv
<1> SUFFICES ASSUME Init PROVE IInv
  OBVIOUS
<1>1. TypeOK
  BY EvidenceAssumption DEF EvidenceAssumption, Init, TypeOK, NoManifest, Cold, Start, Genesis, Hash
<1>2. Mutex /\ ChainSound /\ Warm /\ Knows
  BY DEF Init, Mutex, ChainSound, Warm, Knows, Cold, Locked
<1> QED BY <1>1, <1>2 DEF IInv
-----------------------------------------------------------------------------
(* The invariant is inductive. *)
LEMMA StepIInv == IInv /\ [Next]_vars => IInv'
<1> SUFFICES ASSUME IInv, [Next]_vars PROVE IInv'
  OBVIOUS
<1> USE DEF IInv
<1>last. Last \in [seq : Nat, hash : Hash]
  BY LastOfSound
<1>1. ASSUME NEW c \in Calls, Spawn(c) PROVE IInv'
  <2>1. TypeOK'
    BY <1>1 DEF TypeOK, Spawn, Goes, disk
  <2>2. ChainSound' /\ Last' = Last
    BY <1>1, SameChain DEF Spawn, disk
  <2>3. Mutex' /\ Warm' /\ Knows'
    BY <1>1, <2>2 DEF TypeOK, Spawn, Goes, disk, Mutex, Warm, Knows, Locked
  <2> QED BY <2>1, <2>2, <2>3
<1>2. ASSUME NEW c \in Calls, Lock(c) PROVE IInv'
  <2>1. TypeOK'
    BY <1>2 DEF TypeOK, Lock, Goes, disk, Locked
  <2>2. ChainSound' /\ Last' = Last
    BY <1>2, SameChain DEF Lock, disk
  <2>3. Mutex' /\ Warm' /\ Knows'
    BY <1>2, <2>2 DEF TypeOK, Lock, Goes, disk, Mutex, Warm, Knows, Locked
  <2> QED BY <2>1, <2>2, <2>3
<1>3. ASSUME NEW c \in Calls, Heal(c) PROVE IInv'
  <2>1. TypeOK'
    BY <1>3 DEF TypeOK, Heal, Goes, Cold, Genesis, Hash, Locked
  <2>2. ChainSound' /\ Last' = Last
    BY <1>3, SameChain DEF Heal
  <2>3. Mutex' /\ Warm' /\ Knows'
    BY <1>3, <2>2 DEF TypeOK, Heal, Goes, Mutex, Warm, Knows, Locked, Cold
  <2> QED BY <2>1, <2>2, <2>3
<1>4. ASSUME NEW c \in Calls, Look(c) PROVE IInv'
  <2> DEFINE seen == IF Cached(c) THEN [seq |-> tip.seq, hash |-> tip.hash] ELSE Last
  <2>1. pc[c] = "look" /\ c \in holder /\ tail = "none"
    BY <1>4 DEF Look, Goes, Mutex, Knows, Locked
  <2>2. \A d \in Calls : pc[d] \in Locked => d = c
    BY <2>1 DEF Mutex
  <2>3. seen = Last
    BY <2>1, <2>2, <1>last DEF Cached, Warm, Locked, TypeOK
  <2>4. /\ at' = [at EXCEPT ![c] = Last]
        /\ tip' = IF c \in Appends THEN [hot |-> TRUE, seq |-> Last.seq, hash |-> Last.hash] ELSE tip
        /\ UNCHANGED <<disk, holder, dropped, crashes>>
    BY <1>4, <2>3 DEF Look
  <2>5. /\ pc' = [pc EXCEPT ![c] = CASE c \in Finalizes -> "manifest" [] c \in Large -> "payload"
                                     [] OTHER -> "write"]
    BY <1>4 DEF Look, Goes
  <2>6. /\ pc'[c] \in {"manifest", "payload", "write"} /\ pc' = [pc EXCEPT ![c] = pc'[c]]
        /\ pc'[c] \in {"payload", "write"} => c \in Appends
        /\ pc'[c] = "write" => c \notin Large
    BY <2>5, EvidenceAssumption DEF EvidenceAssumption, Calls, TypeOK
  <2>7. TypeOK'
    <3>1. Last \in [seq : Nat, hash : Hash]  BY <1>last
    <3>2. at' \in [Calls -> [seq : Nat, hash : Hash]]  BY <2>4, <3>1 DEF TypeOK
    <3>3. tip' \in [hot : BOOLEAN, seq : Nat, hash : Hash]  BY <2>4, <3>1 DEF TypeOK
    <3>4. pc' \in [Calls -> {"idle", "lock", "done", "failed", "lost"} \cup Locked]
      BY <2>6 DEF TypeOK, Locked
    <3> QED  BY <2>4, <3>2, <3>3, <3>4 DEF TypeOK, disk
  <2>8. ChainSound' /\ Last' = Last
    BY <2>4, SameChain DEF disk
  <2>9. Mutex'
    BY <2>4, <2>6, <2>1 DEF Mutex, TypeOK, Locked
  <2>10. Warm'
    BY <2>4, <2>6, <2>8, <2>2, <2>1, <1>last DEF Warm, TypeOK, Locked, disk
  <2>11. Knows'
    BY <2>4, <2>6, <2>8, <2>2, <2>1 DEF Knows, TypeOK, Locked, disk
  <2> QED BY <2>7, <2>8, <2>9, <2>10, <2>11
<1>5. ASSUME NEW c \in Calls, WritePayload(c) PROVE IInv'
  <2>1. pc[c] = "payload" /\ c \in holder /\ c \in Appends /\ at[c] = Last /\ tail = "none"
    BY <1>5 DEF WritePayload, Goes, Mutex, Knows, Locked
  <2>2. \A d \in Calls : pc[d] \in Locked => d = c
    BY <2>1 DEF Mutex
  <2>3. TypeOK'
    BY <1>5, <2>1, <1>last DEF TypeOK, WritePayload, Goes, Others, Locked
  <2>4. ChainSound' /\ Last' = Last
    BY <1>5, <2>1, FilesFit DEF WritePayload
  <2>5. Mutex' /\ Warm'
    BY <1>5, <2>1, <2>4 DEF TypeOK, WritePayload, Goes, Mutex, Warm, Locked
  <2>6. Knows'
    BY <1>5, <2>1, <2>2, <2>4 DEF TypeOK, WritePayload, Goes, Knows, Locked
  <2> QED BY <2>3, <2>4, <2>5, <2>6
<1>6. ASSUME NEW c \in Calls, WriteLine(c) PROVE IInv'
  <2>1. pc[c] = "write" /\ c \in holder /\ c \in Appends /\ at[c] = Last /\ tail = "none"
    BY <1>6 DEF WriteLine, Goes, Mutex, Knows, Locked
  <2>2. \A d \in Calls : pc[d] \in Locked => d = c
    BY <2>1 DEF Mutex
  <2>3. Appending(c)
    BY <1>6, <2>1 DEF WriteLine, Appending, Knows
  <2>4. /\ ChainSound' /\ lines' \in Seq(Record)
        /\ Last' = [seq |-> at[c].seq + 1, hash |-> Append(at[c].hash, c)]
    BY <2>3, AppendFits
  <2>5. TypeOK'
    BY <1>6, <2>4 DEF TypeOK, WriteLine, Goes, Locked
  <2>6. pc' = [pc EXCEPT ![c] = "cache"] /\ UNCHANGED <<tail, tip, holder, at, files>>
    BY <1>6 DEF WriteLine, Goes
  <2>7. Mutex' /\ Warm'
    BY <2>6, <2>1 DEF TypeOK, Mutex, Warm, Locked
  <2>8. Knows'
    BY <2>6, <2>1, <2>2, <2>4 DEF TypeOK, Knows, Locked
  <2> QED BY <2>4, <2>5, <2>7, <2>8
<1>7. ASSUME NEW c \in Calls, Cache(c) PROVE IInv'
  <2>1. pc[c] = "cache" /\ c \in holder /\ at[c].seq + 1 = Last.seq /\ Append(at[c].hash, c) = Last.hash
    BY <1>7 DEF Cache, Goes, Mutex, Knows, Locked
  <2>2. \A d \in Calls : pc[d] \in Locked => d = c
    BY <2>1 DEF Mutex
  <2>3. ChainSound' /\ Last' = Last
    BY <1>7, SameChain DEF Cache, disk
  <2>4. /\ tip' = [hot |-> TRUE, seq |-> Last.seq, hash |-> Last.hash]
        /\ pc' = [pc EXCEPT ![c] = "done"] /\ holder' = {}
        /\ UNCHANGED <<disk, at, dropped, crashes>>
    BY <1>7, <2>1 DEF Cache, Goes, Mutex
  <2>5. TypeOK'
    BY <2>4, <1>last DEF TypeOK, disk
  <2>6. Mutex' /\ Warm'
    BY <2>4, <2>2, <2>3 DEF TypeOK, Mutex, Warm, Locked
  <2>7. Knows'
    BY <2>4, <2>2, <2>3 DEF TypeOK, Knows, Locked, disk
  <2> QED BY <2>3, <2>5, <2>6, <2>7
<1>8. ASSUME NEW c \in Calls, WriteManifest(c) PROVE IInv'
  <2>1. pc[c] = "manifest" /\ c \in holder /\ at[c] = Last
    BY <1>8 DEF WriteManifest, Goes, Mutex, Knows, Locked
  <2>2. \A d \in Calls : pc[d] \in Locked => d = c
    BY <2>1 DEF Mutex
  <2>3. ChainSound' /\ Last' = Last
    BY <1>8, SameChain DEF WriteManifest
  <2>4. /\ pc' = [pc EXCEPT ![c] = "done"] /\ holder' = {}
        /\ UNCHANGED <<lines, tail, files, tip, at, dropped, crashes>>
    BY <1>8, <2>1 DEF WriteManifest, Goes, Mutex
  <2>5. TypeOK'
    BY <1>8, <2>4, <2>1, <1>last DEF TypeOK, WriteManifest
  <2>6. Mutex' /\ Warm'
    BY <2>4, <2>2, <2>3, <2>1 DEF TypeOK, Mutex, Warm, Locked
  <2>7. Knows'
    BY <2>4, <2>2, <2>3 DEF TypeOK, Knows, Locked
  <2> QED BY <2>3, <2>5, <2>6, <2>7
<1>9. ASSUME NEW c \in Calls, Fail(c) PROVE IInv'
  <2>1. pc[c] \in Locked \ {"cache"} /\ c \in holder /\ Partly(c)
    BY <1>9 DEF Fail, Fallible, Mutex
  <2>2. \A d \in Calls : pc[d] \in Locked => d = c
    BY <2>1 DEF Mutex
  <2>3. /\ lines' \in Seq(Record) /\ tail' \in {"none", "half", "whole"}
        /\ files' \subseteq Nat \X Appends
        /\ manifest' \in [state : {"none", "torn", "whole"}, count : Nat, root : Hash]
        /\ ChainSound' /\ (tail' # "whole" => lines' = lines)
        /\ (tail' # tail => pc[c] = "write")
    BY <2>1, Partial
  <2>4. /\ pc' = [pc EXCEPT ![c] = "failed"] /\ holder' = {}
        /\ UNCHANGED <<tip, at, dropped, crashes>>
    BY <1>9, <2>1 DEF Fail, Mutex
  <2>5. TypeOK'
    BY <2>3, <2>4 DEF TypeOK
  <2>6. Mutex'
    BY <2>4, <2>2 DEF TypeOK, Mutex, Locked
  <2>7. Knows'
    BY <2>4, <2>2 DEF TypeOK, Knows, Locked
  <2>8. Warm'
    <3> SUFFICES ASSUME tip.hot, tail' # "whole" PROVE tip.seq = Last'.seq /\ tip.hash = Last'.hash
      BY <2>4 DEF Warm
    <3>1. lines' = lines /\ Last' = Last
      BY <2>3 DEF Last
    <3>2. tail # "whole"
      BY <2>3, <2>1 DEF Knows
    <3>3. \A d \in Calls : pc[d] # "cache"
      BY <2>1, <2>2 DEF Locked
    <3> QED BY <3>1, <3>2, <3>3 DEF Warm
  <2> QED BY <2>3, <2>5, <2>6, <2>7, <2>8
<1>10. ASSUME NEW c \in Calls, Drop(c) PROVE IInv'
  <2>1. UNCHANGED <<disk, tip, holder, pc, at, crashes>> /\ dropped' \subseteq Calls
    BY <1>10 DEF Drop, TypeOK
  <2>2. ChainSound' /\ Last' = Last
    BY <2>1, SameChain DEF disk
  <2> QED BY <2>1, <2>2 DEF TypeOK, Mutex, Warm, Knows, disk
<1>11. CASE Crash
  <2>1. /\ tip' = Cold /\ holder' = {} /\ UNCHANGED <<at, dropped>> /\ crashes' \in 0..MaxCrashes
        /\ pc' = [c \in Calls |-> IF pc[c] \in {"lock"} \cup Locked THEN "lost" ELSE pc[c]]
    BY <1>11, EvidenceAssumption DEF EvidenceAssumption, Crash, TypeOK
  <2>2. /\ lines' \in Seq(Record) /\ tail' \in {"none", "half", "whole"}
        /\ files' \subseteq Nat \X Appends
        /\ manifest' \in [state : {"none", "torn", "whole"}, count : Nat, root : Hash]
        /\ ChainSound'
    <3>1. CASE UNCHANGED disk
      BY <3>1, SameChain DEF disk, TypeOK
    <3>2. ASSUME NEW c \in holder, Partly(c)
          PROVE  /\ lines' \in Seq(Record) /\ tail' \in {"none", "half", "whole"}
                 /\ files' \subseteq Nat \X Appends
                 /\ manifest' \in [state : {"none", "torn", "whole"}, count : Nat, root : Hash]
                 /\ ChainSound'
      BY <3>2, Partial DEF TypeOK
    <3> QED BY <1>11, <3>1, <3>2 DEF Crash
  <2>3. TypeOK'
    BY <2>1, <2>2 DEF TypeOK, Cold, Genesis, Hash, Locked
  <2>4. \A c \in Calls : pc'[c] \notin Locked /\ pc'[c] \notin {"look", "payload", "write", "cache", "manifest"}
    BY <2>1 DEF Locked, TypeOK
  <2>5. Mutex' /\ Warm' /\ Knows'
    BY <2>1, <2>4 DEF Mutex, Warm, Knows, Cold
  <2> QED BY <2>2, <2>3, <2>5
<1>12. CASE UNCHANGED vars
  <2>1. UNCHANGED <<lines, tail, files, manifest, tip, holder, pc, at, dropped, crashes>>
    BY <1>12 DEF vars, disk, closures
  <2>2. ChainSound' /\ Last' = Last
    BY <2>1, SameChain
  <2> QED BY <2>1, <2>2 DEF TypeOK, Mutex, Warm, Knows
<1> QED
  BY <1>1, <1>2, <1>3, <1>4, <1>5, <1>6, <1>7, <1>8, <1>9, <1>10, <1>11, <1>12 DEF Next, Closure
-----------------------------------------------------------------------------
(* The state keeps its types, and the chain its soundness.                  *)
THEOREM InvHolds == Spec => []IInv
<1>1. Init => IInv
  BY InitIInv
<1>2. IInv /\ [Next]_vars => IInv'
  BY StepIInv
<1> QED BY <1>1, <1>2, PTL DEF Spec, SafeSpec

(* TypeOK of EvidenceWriter. *)
THEOREM TypeCorrect == Spec => []TypeOK
<1>1. IInv => TypeOK
  BY DEF IInv
<1> QED BY <1>1, InvHolds, PTL

(* Whatever fails, crashes or is dropped, only half a record at the end can *)
(* make verify() say false.                                                 *)
THEOREM ChainIsSound == Spec => []ChainSound
<1>1. IInv => ChainSound
  BY DEF IInv
<1> QED BY <1>1, InvHolds, PTL

(* A step keeps every record: the file only grows. *)
LEMMA StepKeepsRecords ==
    ASSUME IInv, Next
    PROVE  Len(lines) <= Len(lines') /\ \A i \in DOMAIN lines : lines'[i] = lines[i]
<1>0. Len(lines) \in Nat
  BY DEF IInv, TypeOK
<1>1. ASSUME lines' = lines
      PROVE  Len(lines) <= Len(lines') /\ \A i \in DOMAIN lines : lines'[i] = lines[i]
  BY <1>0, <1>1
<1>2. ASSUME NEW c \in Calls, Partly(c)
      PROVE  Len(lines) <= Len(lines') /\ \A i \in DOMAIN lines : lines'[i] = lines[i]
  <2>1. Len(lines') \in {Len(lines), Len(lines) + 1} /\ \A i \in DOMAIN lines : lines'[i] = lines[i]
    BY <1>2, Partial
  <2> QED BY <2>1, <1>0
<1>3. ASSUME NEW c \in Calls, WriteLine(c)
      PROVE  Len(lines) <= Len(lines') /\ \A i \in DOMAIN lines : lines'[i] = lines[i]
  <2>1. Appending(c)
    BY <1>3 DEF WriteLine, Goes, Appending, IInv, Knows
  <2>2. Len(lines') = Len(lines) + 1 /\ \A i \in DOMAIN lines : lines'[i] = lines[i]
    BY <2>1, AppendFits DEF IInv
  <2> QED BY <2>2, <1>0
<1>4. CASE \E c \in Calls : Spawn(c) \/ Lock(c) \/ Heal(c) \/ Look(c) \/ WritePayload(c)
                              \/ Cache(c) \/ WriteManifest(c) \/ Drop(c)
  BY <1>1, <1>4 DEF Spawn, Lock, Heal, Look, WritePayload, Cache, WriteManifest, Drop, disk
<1>5. CASE \E c \in Calls : Fail(c)
  BY <1>2, <1>5 DEF Fail
<1>6. CASE Crash
  BY <1>1, <1>2, <1>6 DEF Crash, disk, IInv, TypeOK
<1> QED BY <1>3, <1>4, <1>5, <1>6 DEF Next, Closure

(* Healing, failing and dying never take a record away that counted. *)
THEOREM RecordsAlwaysStay == Spec => RecordsStay
<1>1. IInv /\ [Next]_vars =>
        [Len(lines) <= Len(lines') /\ \A i \in DOMAIN lines : lines'[i] = lines[i]]_vars
  BY StepKeepsRecords
<1> QED BY <1>1, InvHolds, PTL DEF Spec, SafeSpec, RecordsStay
-----------------------------------------------------------------------------
(* A manifest that holds goes on to hold: the chain only grows, and a new   *)
(* one is made of the tip.                                                  *)
LEMMA StepManifest == IInv /\ ManifestHolds /\ [Next]_vars => ManifestHolds'
<1> SUFFICES ASSUME IInv, ManifestHolds, [Next]_vars PROVE ManifestHolds'
  OBVIOUS
<1>1. /\ lines \in Seq(Record) /\ manifest.count \in Nat
      /\ Len(lines) \in Nat /\ DOMAIN lines = 1..Len(lines)
  BY DEF IInv, TypeOK
<1>2. Len(lines') \in Nat /\ Len(lines) <= Len(lines') /\ \A i \in DOMAIN lines : lines'[i] = lines[i]
  <2>1. TypeOK'
    BY StepIInv DEF IInv
  <2>2. CASE Next
    BY <2>1, <2>2, StepKeepsRecords DEF TypeOK
  <2>3. CASE UNCHANGED vars
    BY <2>1, <2>3, <1>1 DEF vars, disk
  <2> QED BY <2>2, <2>3
<1>3. ASSUME manifest'.state = "whole" => manifest' = manifest PROVE ManifestHolds'
  BY <1>1, <1>2, <1>3 DEF ManifestHolds
<1>4. ASSUME NEW c \in Calls, WriteManifest(c) PROVE ManifestHolds'
  <2>1. at[c] = Last /\ lines' = lines
    BY <1>4 DEF WriteManifest, Goes, IInv, Knows
  <2>2. at[c].seq = Len(lines) /\ at[c].hash = IF lines = <<>> THEN Genesis ELSE lines[Len(lines)].hash
    BY <2>1, LastOfSound DEF IInv
  <2>3. manifest'.count = at[c].seq /\ manifest'.root = at[c].hash
    BY <1>4 DEF WriteManifest
  <2> QED BY <2>1, <2>2, <2>3, <1>1 DEF ManifestHolds
<1>5. ASSUME NEW c \in Calls, Partly(c) PROVE ManifestHolds'
  BY <1>5, <1>3, Partial
<1>6. CASE \E c \in Calls : Spawn(c) \/ Lock(c) \/ Heal(c) \/ Look(c) \/ WritePayload(c)
                              \/ WriteLine(c) \/ Cache(c) \/ Drop(c)
  BY <1>3, <1>6 DEF Spawn, Lock, Heal, Look, WritePayload, WriteLine, Cache, Drop, disk
<1>7. CASE \E c \in Calls : Fail(c)
  BY <1>5, <1>7 DEF Fail
<1>8. CASE Crash
  BY <1>3, <1>5, <1>8 DEF Crash, disk, IInv, TypeOK
<1>9. CASE UNCHANGED vars
  BY <1>3, <1>9 DEF vars, disk
<1> QED BY <1>4, <1>6, <1>7, <1>8, <1>9 DEF Next, Closure

(* A readable manifest names a point of the chain for ever. *)
THEOREM ManifestAlwaysHolds == Spec => []ManifestHolds
<1>1. Init => ManifestHolds
  BY DEF Init, NoManifest, ManifestHolds
<1> QED BY <1>1, StepManifest, InvHolds, PTL DEF Spec, SafeSpec
-----------------------------------------------------------------------------
(* Where the record of an append is: nowhere before it is written, on the   *)
(* chain once it is cached, and never twice.                                *)
Recorded(c) == \E i \in DOMAIN lines : lines[i].call = c

Before == {"idle", "lock", "heal", "look", "payload", "write"}

Once ==
    /\ \A i, j \in DOMAIN lines : lines[i].call = lines[j].call => i = j
    /\ \A c \in Appends :
          /\ pc[c] \in Before => ~Recorded(c)
          /\ pc[c] \in {"cache", "done"} => Recorded(c)
          /\ pc[c] # "manifest"

(* A step moves d, if at all, where it says nothing new of its record. *)
Onward(d) == \/ pc'[d] = pc[d] \/ pc'[d] \in {"failed", "lost"}
             \/ pc[d] \in Before /\ pc'[d] \in Before
             \/ pc[d] = "cache" /\ pc'[d] = "done"

(* A step that writes no line keeps Once if it moves nobody past the write. *)
LEMMA OnceQuiet ==
    ASSUME Once, lines' = lines, \A d \in Appends : Onward(d)
    PROVE  Once'
BY DEF Once, Recorded, Onward, Before

(* A step that writes the record of an append takes it past the write. *)
LEMMA OnceWritten ==
    ASSUME IInv, Once, NEW c \in Calls, pc[c] = "write", Appending(c),
           pc'[c] \in {"cache", "failed", "lost"},
           \A d \in Appends \ {c} : pc'[d] = pc[d] \/ pc'[d] = "lost"
    PROVE  Once'
<1> DEFINE n == Len(lines)
<1>1. /\ n \in Nat /\ DOMAIN lines = 1..n
      /\ Len(lines') = n + 1 /\ DOMAIN lines' = 1..(n + 1)
      /\ \A i \in 1..n : lines'[i] = lines[i]
  BY AppendFits DEF IInv, TypeOK
<1>2. lines'[n + 1].call = c /\ c \in Appends
  <2>1. lines' = Append(lines, Event(c)) /\ c \in Appends
    BY DEF Appending
  <2>2. at[c] \in [seq : Nat, hash : Hash]
    BY DEF IInv, TypeOK
  <2>3. Event(c) \in Record /\ Event(c).call = c
    BY <2>1, <2>2 DEF Event, Record, Hash
  <2> QED BY <2>1, <2>3 DEF IInv, TypeOK
<1>3. \A i \in 1..n : lines[i].call # c
  BY <1>1, <1>2 DEF Once, Recorded, Before
<1>4. \A d \in Appends \ {c} : Recorded(d)' <=> Recorded(d)
  BY <1>1, <1>2 DEF Recorded
<1>5. Recorded(c)'
  BY <1>1, <1>2 DEF Recorded
<1>6. \A i, j \in DOMAIN lines' : lines'[i].call = lines'[j].call => i = j
  BY <1>1, <1>2, <1>3 DEF Once
<1> QED BY <1>4, <1>5, <1>6 DEF Once, Before

(* Once is inductive beside the invariant. *)
LEMMA StepOnce == IInv /\ Once /\ [Next]_vars => Once'
<1> SUFFICES ASSUME IInv, Once, [Next]_vars PROVE Once'
  OBVIOUS
<1>0. pc \in [Calls -> {"idle", "lock", "done", "failed", "lost"} \cup Locked]
  BY DEF IInv, TypeOK
<1>1. ASSUME NEW c \in Calls, Spawn(c) \/ Lock(c) \/ Heal(c) \/ WritePayload(c) \/ Cache(c) PROVE Once'
  <2>1. \A d \in Appends : Onward(d)
    BY <1>0, <1>1 DEF Spawn, Lock, Heal, WritePayload, Cache, Goes, Calls, Onward, Before
  <2>2. lines' = lines
    BY <1>1 DEF Spawn, Lock, Heal, WritePayload, Cache, disk
  <2> QED BY <2>1, <2>2, OnceQuiet
<1>2. ASSUME NEW c \in Calls, Look(c) PROVE Once'
  <2>1. /\ lines' = lines /\ pc[c] = "look"
        /\ c \in Appends => pc' = [pc EXCEPT ![c] = IF c \in Large THEN "payload" ELSE "write"]
        /\ \A d \in Appends \ {c} : pc'[d] = pc[d]
    BY <1>0, <1>2, EvidenceAssumption DEF EvidenceAssumption, Look, Goes, disk, Calls
  <2>2. \A d \in Appends : Onward(d)
    BY <1>0, <2>1 DEF Calls, Onward, Before
  <2> QED BY <2>1, <2>2, OnceQuiet
<1>3. ASSUME NEW c \in Calls, WriteLine(c) PROVE Once'
  <2>1. pc[c] = "write" /\ Appending(c)
    BY <1>3 DEF WriteLine, Goes, Appending, IInv, Knows
  <2>2. pc' = [pc EXCEPT ![c] = "cache"]
    BY <1>3 DEF WriteLine, Goes
  <2> QED BY <1>0, <2>1, <2>2, OnceWritten DEF Calls
<1>4. ASSUME NEW c \in Calls, WriteManifest(c) PROVE Once'
  <2>1. c \notin Appends
    BY <1>4 DEF WriteManifest, Goes, Once
  <2>2. \A d \in Appends : Onward(d)
    BY <1>0, <1>4, <2>1 DEF WriteManifest, Goes, Calls, Onward
  <2>3. lines' = lines
    BY <1>4 DEF WriteManifest
  <2> QED BY <2>2, <2>3, OnceQuiet
<1>5. ASSUME NEW c \in Calls, Partly(c),
             \/ pc' = [pc EXCEPT ![c] = "failed"]
             \/ /\ c \in holder
                /\ pc' = [d \in Calls |-> IF pc[d] \in {"lock"} \cup Locked THEN "lost" ELSE pc[d]]
      PROVE  Once'
  <2>1. CASE lines' = lines
    <3>1. \A d \in Appends : Onward(d)
      BY <1>0, <1>5 DEF Calls, Onward
    <3> QED BY <2>1, <3>1, OnceQuiet
  <2>2. CASE lines' # lines
    <3>1. pc[c] = "write" /\ Appending(c)
      BY <1>5, <2>2 DEF Partly, disk, Appending, IInv, Knows
    <3>2. pc'[c] \in {"failed", "lost"} /\ \A d \in Appends \ {c} : pc'[d] = pc[d] \/ pc'[d] = "lost"
      BY <1>0, <1>5, <3>1 DEF Calls, Locked
    <3> QED BY <3>1, <3>2, OnceWritten
  <2> QED BY <2>1, <2>2
<1>6. ASSUME NEW c \in Calls, Fail(c) PROVE Once'
  BY <1>5, <1>6 DEF Fail
<1>7. CASE Crash
  <2>1. pc' = [d \in Calls |-> IF pc[d] \in {"lock"} \cup Locked THEN "lost" ELSE pc[d]]
    BY <1>7 DEF Crash
  <2>2. CASE UNCHANGED disk
    <3>1. \A d \in Appends : Onward(d)
      BY <1>0, <2>1 DEF Calls, Onward
    <3> QED BY <2>2, <3>1, OnceQuiet DEF disk
  <2>3. CASE \E c \in holder : Partly(c)
    BY <1>5, <2>1, <2>3 DEF IInv, TypeOK
  <2> QED BY <1>7, <2>2, <2>3 DEF Crash
<1>8. CASE (\E c \in Calls : Drop(c)) \/ UNCHANGED vars
  <2>1. lines' = lines /\ pc' = pc
    BY <1>8 DEF Drop, vars, disk, closures
  <2>2. \A d \in Appends : Onward(d)
    BY <2>1 DEF Onward
  <2> QED BY <2>1, <2>2, OnceQuiet
<1> QED BY <1>1, <1>2, <1>3, <1>4, <1>6, <1>7, <1>8 DEF Next, Closure

(* A successful append is on the chain exactly once, any other at most once. *)
THEOREM AppendedExactlyOnce == Spec => []AppendedOnce
<1>1. Init => Once
  BY DEF Init, Once, Recorded, Calls
<1>2. IInv /\ Once => AppendedOnce
  <2> SUFFICES ASSUME IInv, Once, NEW c \in Appends
               PROVE  LET found == {i \in DOMAIN lines : lines[i].call = c}
                      IN  Cardinality(found) <= 1 /\ (pc[c] = "done" => found # {})
    BY DEF AppendedOnce
  <2> DEFINE found == {i \in DOMAIN lines : lines[i].call = c}
  <2>1. pc[c] = "done" => found # {}
    BY DEF Once, Recorded
  <2>2. CASE found = {}
    BY <2>1, <2>2, FS_EmptySet
  <2>3. CASE found # {}
    <3>1. PICK i \in found : TRUE
      BY <2>3
    <3>2. found = {i}
      BY <3>1 DEF Once
    <3>3. Cardinality(found) = 1
      BY <3>2, FS_Singleton
    <3>4. Cardinality(found) <= 1
      BY <3>3
    <3> QED BY <2>1, <3>4
  <2> QED BY <2>2, <2>3
<1> QED BY <1>1, <1>2, StepOnce, InvHolds, PTL DEF Spec, SafeSpec
=============================================================================
