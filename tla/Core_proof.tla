----------------------------- MODULE Core_proof -----------------------------
(***************************************************************************)
(* Proofs about Core, for any values of the constants that CoreAssumption  *)
(* allows.  Each component keeps an inductive invariant of its own; those  *)
(* of routing and of the sandboxes are proved in modules of their own, the *)
(* others here.  One of the components runs, so each of these invariants   *)
(* holds of the whole for as long as its component is the one.             *)
(***************************************************************************)
EXTENDS Core, FiniteSetTheorems, TLAPS
-----------------------------------------------------------------------------
\* One core after another on a data directory (AppLifecycle).
AppPCs == {"new", "build", "init", "recover", "look", "clear", "bind", "spawn", "serve", "down",
           "unlink", "join", "abort", "cancel", "close", "exited"}

AppTypes ==
  /\ overlap \in BOOLEAN
  /\ pc \in [Procs -> AppPCs]
  /\ file \in Procs \cup {"none"}
  /\ listening \in SUBSET Procs
  /\ hits \in [Procs -> 0..2]
  /\ stop \in [Procs -> BOOLEAN]
  /\ runner \in [Procs -> {"none", "running", "ended"}]
  /\ timedOut \in [Procs -> BOOLEAN]
  /\ task \in [Procs -> {"none", "queued", "running", "closed", "orphaned"}]
  /\ status \in [Procs -> {"none", "failing", "startup", "ok", "hard", "killed"}]
  /\ faults \in 0..MaxFaults

\* Who listens, and the state of the socket before bind when one core follows
\* another: there is no second one, and the file is out of the way.
AppSocket ==
  /\ \A p \in listening : pc[p] \in {"spawn", "serve", "down"}
  /\ ~overlap => \A p, q \in App!Living : p = q
  /\ ~overlap => \A p \in Procs : pc[p] = "bind" => file = "none"

\* The dispatch loop, and what is left of the task while a core shuts down.
AppEnding ==
  \A p \in Procs :
    /\ pc[p] \in {"new", "build", "init", "recover", "look", "clear", "bind"} => runner[p] = "none"
    /\ pc[p] \in {"cancel", "close", "exited"} => runner[p] # "running"
    /\ pc[p] = "close" => (timedOut[p] => task[p] # "running")
    /\ status[p] = "ok" => pc[p] = "exited" /\ (timedOut[p] => task[p] # "running")

AppIInv == AppTypes /\ AppSocket /\ AppEnding

AppAssumed == MaxFaults \in Nat /\ Overlaps \subseteq BOOLEAN /\ "none" \notin Procs

LEMMA AppInitIInv == ASSUME AppAssumed PROVE App!Init => AppIInv
  BY DEF AppAssumed, App!Init, AppIInv, AppTypes, AppSocket, AppEnding, App!Living, AppPCs

\* Cli, assembly and take-off (cli.rs run, run.rs run_app and takeoff).
LEMMA AppTakeOffIInv ==
  ASSUME AppAssumed, AppIInv, NEW p \in Procs,
         App!Start(p) \/ App!BuildFails(p) \/ App!InstallHandlers(p) \/ App!InitStore(p) \/ App!Recover(p) \/ App!Spawn(p)
  PROVE  AppIInv'
<1> USE DEF AppAssumed, AppIInv, App!Goto, App!Fault
<1>1. CASE App!Start(p)
  BY <1>1 DEF App!Start, AppTypes, AppSocket, AppEnding, App!Living, AppPCs
<1>2. CASE App!BuildFails(p)
  BY <1>2 DEF App!BuildFails, AppTypes, AppSocket, AppEnding, App!Living, AppPCs
<1>3. CASE App!InstallHandlers(p)
  BY <1>3 DEF App!InstallHandlers, AppTypes, AppSocket, AppEnding, App!Living, AppPCs
<1>4. CASE App!InitStore(p)
  BY <1>4 DEF App!InitStore, AppTypes, AppSocket, AppEnding, App!Living, AppPCs
<1>5. CASE App!Recover(p)
  BY <1>5 DEF App!Recover, AppTypes, AppSocket, AppEnding, App!Living, AppPCs
<1>6. CASE App!Spawn(p)
  BY <1>6 DEF App!Spawn, AppTypes, AppSocket, AppEnding, App!Living, AppPCs
<1> QED  BY <1>1, <1>2, <1>3, <1>4, <1>5, <1>6

\* The socket (ingress.rs start): when bind is reached the file is away, unless
\* another core is about to bind as well.
LEMMA AppSocketIInv ==
  ASSUME AppAssumed, AppIInv, NEW p \in Procs, App!Look(p) \/ App!Clear(p) \/ App!Bind(p)
  PROVE  AppIInv'
<1> USE DEF AppAssumed, AppIInv, App!Goto
<1>1. CASE App!Look(p)  BY <1>1 DEF App!Look, AppTypes, AppSocket, AppEnding, App!Living, AppPCs
<1>2. CASE App!Clear(p)  BY <1>2 DEF App!Clear, AppTypes, AppSocket, AppEnding, App!Living, AppPCs
<1>3. CASE App!Bind(p)
  <2>1. AppTypes'  BY <1>3 DEF App!Bind, AppTypes, AppPCs
  <2>2. AppSocket'  BY <1>3 DEF App!Bind, AppTypes, AppSocket, App!Living, AppPCs
  <2>3. AppEnding'  BY <1>3 DEF App!Bind, AppTypes, AppEnding
  <2> QED  BY <2>1, <2>2, <2>3
<1> QED  BY <1>1, <1>2, <1>3

\* Serving, and the task (run.rs serve).
LEMMA AppServingIInv ==
  ASSUME AppAssumed, AppIInv, NEW p \in Procs,
         App!Deliver(p) \/ App!Run(p) \/ App!Finish(p) \/ App!RunnerDies(p) \/ App!Serve(p)
  PROVE  AppIInv'
<1> USE DEF AppAssumed, AppIInv, App!Goto, App!Fault
<1>1. CASE App!Deliver(p)  BY <1>1 DEF App!Deliver, AppTypes, AppSocket, AppEnding, App!Living
<1>2. CASE App!Run(p)  BY <1>2 DEF App!Run, AppTypes, AppSocket, AppEnding, App!Living
<1>3. CASE App!Finish(p)  BY <1>3 DEF App!Finish, AppTypes, AppSocket, AppEnding, App!Living
<1>4. CASE App!RunnerDies(p)
  BY <1>4 DEF App!RunnerDies, AppTypes, AppSocket, AppEnding, App!Living
<1>5. CASE App!Serve(p)  BY <1>5 DEF App!Serve, AppTypes, AppSocket, AppEnding, App!Living, AppPCs
<1> QED  BY <1>1, <1>2, <1>3, <1>4, <1>5

\* Signals and deaths: a process that is gone does not listen.
LEMMA AppSignalIInv ==
  ASSUME AppAssumed, AppIInv, NEW p \in Procs, App!FirstSignal(p) \/ App!SecondSignal(p) \/ App!Killed(p)
  PROVE  AppIInv'
<1> USE DEF AppAssumed, AppIInv
<1>1. CASE App!FirstSignal(p)
  BY <1>1 DEF App!FirstSignal, AppTypes, AppSocket, AppEnding, App!Living
<1>2. ASSUME NEW how \in {"hard", "killed"}, App!Gone(p, how), hits' \in [Procs -> 0..2],
             faults' \in 0..MaxFaults
      PROVE  AppIInv'
  <2>1. AppTypes'  BY <1>2 DEF App!Gone, AppTypes, AppPCs
  <2>2. AppSocket'  BY <1>2 DEF App!Gone, AppTypes, AppSocket, App!Living, AppPCs
  <2>3. AppEnding'  BY <1>2 DEF App!Gone, AppTypes, AppEnding
  <2> QED  BY <2>1, <2>2, <2>3
<1>3. CASE App!SecondSignal(p)  BY <1>2, <1>3 DEF App!SecondSignal, AppTypes
<1>4. CASE App!Killed(p)  BY <1>2, <1>4 DEF App!Killed, App!Fault, AppTypes
<1> QED  BY <1>1, <1>3, <1>4

\* The frozen order of shutdown: when the loop has been aborted and the worker's
\* task cancelled, nobody starts it again.
LEMMA AppShutdownIInv ==
  ASSUME AppAssumed, AppIInv, NEW p \in Procs,
         App!StopListening(p) \/ App!Unlink(p) \/ App!Join(p) \/ App!Abort(p) \/ App!Cancel(p) \/ App!Close(p)
  PROVE  AppIInv'
<1> USE DEF AppAssumed, AppIInv, App!Goto
<1>1. CASE App!StopListening(p)
  BY <1>1 DEF App!StopListening, AppTypes, AppSocket, AppEnding, App!Living, AppPCs
<1>2. CASE App!Unlink(p)
  BY <1>2 DEF App!Unlink, AppTypes, AppSocket, AppEnding, App!Living, AppPCs
<1>3. CASE App!Join(p)
  <2>1. timedOut' \in [Procs -> BOOLEAN] /\ \A q \in Procs \ {p} : timedOut'[q] = timedOut[q]
    BY <1>3 DEF App!Join, AppTypes
  <2>2. AppTypes'  BY <1>3, <2>1 DEF App!Join, AppTypes, AppPCs
  <2>3. AppSocket'  BY <1>3 DEF App!Join, AppTypes, AppSocket, App!Living, AppPCs
  <2>4. AppEnding'  BY <1>3, <2>1 DEF App!Join, AppTypes, AppEnding
  <2> QED  BY <2>2, <2>3, <2>4
<1>4. CASE App!Abort(p)  BY <1>4 DEF App!Abort, AppTypes, AppSocket, AppEnding, App!Living, AppPCs
<1>5. CASE App!Cancel(p)
  BY <1>5 DEF App!Cancel, AppTypes, AppSocket, AppEnding, App!Living, AppPCs
<1>6. CASE App!Close(p)  BY <1>6 DEF App!Close, AppTypes, AppSocket, AppEnding, App!Living, AppPCs
<1> QED  BY <1>1, <1>2, <1>3, <1>4, <1>5, <1>6

LEMMA AppStepIInv == ASSUME AppAssumed, AppIInv, [App!Next]_(App!vars) PROVE AppIInv'
<1>1. CASE UNCHANGED App!vars
  BY <1>1 DEF App!vars, AppIInv, AppTypes, AppSocket, AppEnding, App!Living
<1>2. CASE App!Next
  BY <1>2, AppTakeOffIInv, AppSocketIInv, AppServingIInv, AppSignalIInv, AppShutdownIInv
     DEF App!Next, App!RunApp
<1> QED  BY <1>1, <1>2

LEMMA AppIInvTypes == AppIInv => App!TypeOK
  BY DEF AppIInv, AppTypes, AppSocket, App!TypeOK, AppPCs

LEMMA AppIInvSettled == AppIInv => App!StoppedIsSettled
  BY DEF AppIInv, AppEnding, App!StoppedIsSettled

\* What keeps a core from taking off is one that listens.
LEMMA AppRefusal ==
  ASSUME AppIInv, App!Next, NEW p \in Procs, pc[p] \in {"look", "bind"}, status[p] # "failing",
         status'[p] = "failing"
  PROVE  overlap \/ \E q \in Procs \ {p} : q \in listening
<1>1. App!Look(p) \/ App!Bind(p)
  BY DEF App!Next, App!RunApp, App!Goto, App!Gone, AppIInv, AppTypes, App!BuildFails,
     App!InstallHandlers, App!InitStore, App!Recover,
     App!Clear, App!Spawn, App!Serve, App!StopListening, App!Unlink, App!Join, App!Abort, App!Cancel, App!Close, App!Start, App!Deliver, App!Run,
     App!Finish, App!RunnerDies, App!FirstSignal, App!SecondSignal, App!Killed, App!Look, App!Bind
<1>2. CASE App!Look(p)
  <2>1. file \in listening  BY <1>2 DEF App!Look
  <2>2. file # p  BY <1>2, <2>1 DEF App!Look, AppIInv, AppSocket
  <2> QED  BY <2>1, <2>2 DEF AppIInv, AppTypes
<1>3. CASE App!Bind(p)
  BY <1>3 DEF App!Bind, AppIInv, AppSocket, App!Goto
<1> QED  BY <1>1, <1>2, <1>3
-----------------------------------------------------------------------------
\* The egress proxy (EgressProxy).
EgressPCs == {"idle", "enter", "lookup", "decide", "dial", "forward", "hijack", "track", "track_up",
              "established", "copy", "gone", "turned_away"}
EgressTunnelled == {"track_up", "established", "copy"}

\* What Register lets into the table.
EgressTable == {Egress!NoPolicy} \cup {Egress!Compiled(raw) : raw \in {r \in Policies : Egress!Accepted(r)}}
EgressRequests == {Egress!Nothing} \cup UNION {ConnAsks[c] : c \in Conns}

EgressTypes ==
  /\ policy \in EgressTable
  /\ changes \in 0 .. MaxChanges
  /\ pc \in [Conns -> EgressPCs]
  /\ ask \in [Conns -> EgressRequests]
  /\ pol \in [Conns -> EgressTable]
  /\ audit \in [Conns -> Nat]
  /\ serve \in {"serving", "told", "closing", "waiting", "returned"}

\* The wait group, and the audit lines of each request.
EgressCounted == inflight = Cardinality(Egress!Inside) /\ Egress!AuditedOnce

\* Which connections are in the table, which are copied, and that after
\* closeTunnels nobody enters.
EgressTunnels ==
  /\ tracked \subseteq {"client", "up"} \X {c \in Conns : pc[c] \in EgressTunnelled}
  /\ copying \subseteq {"client", "up"} \X {c \in Conns : pc[c] = "copy"}
  /\ \A c \in Conns : pc[c] \in EgressTunnelled => <<"client", c>> \in tracked
  /\ \A c \in Conns : pc[c] \in {"established", "copy"} => <<"up", c>> \in tracked
  /\ serve \in {"waiting", "returned"} => closed
  /\ serve = "returned" => Egress!Inside = {}

\* A request past its lookup has a policy of the table, which grants it once
\* it is past the decision.
EgressDecided ==
  \A c \in Conns :
    /\ pc[c] \in {"decide", "dial", "forward", "hijack", "track"} \cup EgressTunnelled =>
         ask[c].token = "known" /\ pol[c] # Egress!NoPolicy
    /\ pc[c] \in {"dial", "forward", "hijack", "track"} \cup EgressTunnelled =>
         Egress!Allows(pol[c], ask[c].host, ask[c].port)

EgressIInv == EgressTypes /\ EgressCounted /\ EgressTunnels /\ EgressDecided

\* What the lemmas assume: so many requests and changes as one likes, but finitely many.
EgressAssumed == IsFiniteSet(Conns) /\ MaxChanges \in Nat

\* The handlers inside are finitely many, and one that comes or goes counts
\* for one (egress.go enter, finish).
LEMMA EgressInsideCounts ==
  ASSUME IsFiniteSet(Conns), EgressTypes, EgressCounted, NEW c \in Conns
  PROVE  /\ IsFiniteSet(Egress!Inside) /\ inflight \in Nat
         /\ c \in Egress!Inside => Cardinality(Egress!Inside \ {c}) = inflight - 1
         /\ c \notin Egress!Inside => Cardinality(Egress!Inside \cup {c}) = inflight + 1
<1>1. IsFiniteSet(Egress!Inside)  BY FS_Subset, Egress!Inside \in SUBSET Conns DEF Egress!Inside
<1>2. inflight \in Nat  BY <1>1, FS_CardinalityType DEF EgressCounted
<1>3. c \in Egress!Inside => Cardinality(Egress!Inside \ {c}) = inflight - 1
  BY <1>1, FS_RemoveElement DEF EgressCounted
<1>4. c \notin Egress!Inside => Cardinality(Egress!Inside \cup {c}) = inflight + 1
  BY <1>1, FS_AddElement DEF EgressCounted
<1> QED  BY <1>1, <1>2, <1>3, <1>4

\* A policy of the table: its level is known, only the absent one has none,
\* and if the preset is safe, none of its patterns reaches a reserved host
\* (policy.go compile).
LEMMA EgressTableIsSound ==
  ASSUME NEW q \in EgressTable
  PROVE  /\ q.level \in {"absent", "none", "trusted", "custom", "full"}
         /\ q # Egress!NoPolicy => q.level # "absent"
         /\ (\A p \in Preset : \A r \in Reserved : ~Egress!MatchesHost(p, r))
              => \A p \in q.patterns : \A r \in Reserved : ~Egress!MatchesHost(p, r)
<1>1. CASE q = Egress!NoPolicy  BY <1>1 DEF Egress!NoPolicy
<1>2. CASE q # Egress!NoPolicy
  <2>1. PICK raw \in Policies : Egress!Accepted(raw) /\ q = Egress!Compiled(raw)
    BY <1>2 DEF EgressTable
  <2>2. q.level = raw.level  BY <2>1 DEF Egress!Compiled
  <2>3. \A p \in q.patterns : p \in raw.hosts \/ p \in Preset  BY <2>1 DEF Egress!Compiled
  <2> QED  BY <2>1, <2>2, <2>3 DEF Egress!Accepted
<1> QED  BY <1>1, <1>2

LEMMA EgressInitIInv == ASSUME IsFiniteSet(Conns), MaxChanges \in Nat PROVE Egress!Init => EgressIInv
<1> SUFFICES ASSUME Egress!Init PROVE EgressIInv  OBVIOUS
<1>1. Egress!Inside = {}  BY DEF Egress!Init, Egress!Inside
<1>2. EgressTypes  BY DEF Egress!Init, EgressTypes, EgressTable, EgressRequests, EgressPCs
<1>3. EgressCounted  BY <1>1, FS_EmptySet DEF Egress!Init, EgressCounted, Egress!AuditedOnce
<1>4. EgressTunnels  BY <1>1 DEF Egress!Init, EgressTunnels, EgressTunnelled
<1>5. EgressDecided  BY DEF Egress!Init, EgressDecided, EgressTunnelled
<1> QED  BY <1>2, <1>3, <1>4, <1>5 DEF EgressIInv

\* A handler goes on inside, goes in, or comes out with its line written.
LEMMA EgressGoes ==
  ASSUME IsFiniteSet(Conns), EgressTypes, EgressCounted, NEW c \in Conns, NEW to \in EgressPCs,
         pc' = [pc EXCEPT ![c] = to], inflight' = inflight, audit' = audit,
         pc[c] # "gone", to # "gone",
         c \in Egress!Inside <=> to \notin {"idle", "enter", "turned_away"}
  PROVE  EgressCounted' /\ Egress!Inside' = Egress!Inside
<1>1. Egress!Inside' = Egress!Inside  BY DEF Egress!Inside, EgressTypes
<1> QED  BY <1>1 DEF EgressCounted, Egress!AuditedOnce, EgressTypes

LEMMA EgressComesOut ==
  ASSUME IsFiniteSet(Conns), EgressTypes, EgressCounted, NEW c \in Conns, c \in Egress!Inside,
         pc' = [pc EXCEPT ![c] = "gone"], Egress!Done(c)
  PROVE  EgressCounted' /\ Egress!Inside' = Egress!Inside \ {c} /\ audit' \in [Conns -> Nat]
<1>1. Egress!Inside' = Egress!Inside \ {c}  BY DEF Egress!Inside, EgressTypes
<1>2. Cardinality(Egress!Inside \ {c}) = inflight - 1  BY EgressInsideCounts
<1>3. audit' \in [Conns -> Nat] /\ Egress!AuditedOnce'
  BY DEF EgressCounted, Egress!AuditedOnce, EgressTypes, Egress!Done, Egress!Inside
<1> QED  BY <1>1, <1>2, <1>3 DEF EgressCounted, Egress!Done

LEMMA EgressArriveIInv ==
  ASSUME IsFiniteSet(Conns), MaxChanges \in Nat, EgressIInv, NEW c \in Conns, Egress!Arrive(c)
  PROVE  EgressIInv'
<1> USE DEF EgressIInv
<1>1. PICK a \in ConnAsks[c] : ask' = [ask EXCEPT ![c] = a]  BY DEF Egress!Arrive
<1>2. EgressTypes'
  BY <1>1 DEF EgressTypes, Egress!Arrive, Egress!Goto, EgressRequests, EgressPCs, Egress!table,
     Egress!server
<1>3. EgressCounted' /\ Egress!Inside' = Egress!Inside
  BY EgressGoes DEF Egress!Arrive, Egress!Goto, EgressPCs, Egress!Inside
<1>4. EgressTunnels'
  BY <1>3 DEF EgressTunnels, EgressTypes, EgressTunnelled, Egress!Arrive, Egress!Goto,
     Egress!server
<1>5. EgressDecided'
  BY <1>1 DEF EgressDecided, EgressTypes, EgressTunnelled, Egress!Arrive, Egress!Goto
<1> QED  BY <1>2, <1>3, <1>4, <1>5
LEMMA EgressEnterIInv ==
  ASSUME IsFiniteSet(Conns), MaxChanges \in Nat, EgressIInv, NEW c \in Conns, Egress!Enter(c)
  PROVE  EgressIInv'
<1> USE DEF EgressIInv
<1>1. EgressTypes'
  BY DEF EgressTypes, Egress!Enter, Egress!Goto, EgressPCs, Egress!table, Egress!server
<1>2. Egress!Inside' = Egress!Inside \cup {c} /\ c \notin Egress!Inside
  BY DEF Egress!Inside, EgressTypes, Egress!Enter, Egress!Goto
<1>3. EgressCounted'
  <2>1. Cardinality(Egress!Inside \cup {c}) = inflight + 1  BY <1>2, EgressInsideCounts
  <2>2. Egress!AuditedOnce'
    BY DEF EgressCounted, Egress!AuditedOnce, EgressTypes, Egress!Enter, Egress!Goto
  <2> QED  BY <1>2, <2>1, <2>2 DEF EgressCounted, Egress!Enter
<1>4. EgressTunnels'
  BY DEF EgressTunnels, EgressTypes, EgressTunnelled, Egress!Enter, Egress!Goto, Egress!server
<1>5. EgressDecided'
  BY DEF EgressDecided, EgressTypes, EgressTunnelled, Egress!Enter, Egress!Goto
<1> QED  BY <1>1, <1>3, <1>4, <1>5

LEMMA EgressTurnAwayIInv ==
  ASSUME IsFiniteSet(Conns), MaxChanges \in Nat, EgressIInv, NEW c \in Conns, Egress!TurnAway(c)
  PROVE  EgressIInv'
<1> USE DEF EgressIInv
<1>1. EgressTypes'
  BY DEF EgressTypes, Egress!TurnAway, Egress!Goto, EgressPCs, Egress!table, Egress!server
<1>2. EgressCounted' /\ Egress!Inside' = Egress!Inside
  BY EgressGoes DEF Egress!TurnAway, Egress!Goto, EgressPCs, Egress!Inside
<1>3. EgressTunnels'
  BY <1>2 DEF EgressTunnels, EgressTypes, EgressTunnelled, Egress!TurnAway, Egress!Goto,
     Egress!server
<1>4. EgressDecided'
  BY DEF EgressDecided, EgressTypes, EgressTunnelled, Egress!TurnAway, Egress!Goto
<1> QED  BY <1>1, <1>2, <1>3, <1>4

LEMMA EgressDialedIInv ==
  ASSUME IsFiniteSet(Conns), MaxChanges \in Nat, EgressIInv, NEW c \in Conns, Egress!Dialed(c)
  PROVE  EgressIInv'
<1> USE DEF EgressIInv
<1>1. EgressTypes'
  BY DEF EgressTypes, Egress!Dialed, Egress!Goto, EgressPCs, Egress!table, Egress!server
<1>2. EgressCounted' /\ Egress!Inside' = Egress!Inside
  BY EgressGoes DEF Egress!Dialed, Egress!Goto, EgressPCs, Egress!Inside
<1>3. EgressTunnels'
  BY <1>2 DEF EgressTunnels, EgressTypes, EgressTunnelled, Egress!Dialed, Egress!Goto,
     Egress!server
<1>4. EgressDecided'
  BY DEF EgressDecided, EgressTypes, EgressTunnelled, Egress!Dialed, Egress!Goto
<1> QED  BY <1>1, <1>2, <1>3, <1>4

LEMMA EgressHijackedIInv ==
  ASSUME IsFiniteSet(Conns), MaxChanges \in Nat, EgressIInv, NEW c \in Conns, Egress!Hijacked(c)
  PROVE  EgressIInv'
<1> USE DEF EgressIInv
<1>1. EgressTypes'
  BY DEF EgressTypes, Egress!Hijacked, Egress!Goto, EgressPCs, Egress!table, Egress!server
<1>2. EgressCounted' /\ Egress!Inside' = Egress!Inside
  BY EgressGoes DEF Egress!Hijacked, Egress!Goto, EgressPCs, Egress!Inside
<1>3. EgressTunnels'
  BY <1>2 DEF EgressTunnels, EgressTypes, EgressTunnelled, Egress!Hijacked, Egress!Goto,
     Egress!server
<1>4. EgressDecided'
  BY DEF EgressDecided, EgressTypes, EgressTunnelled, Egress!Hijacked, Egress!Goto
<1> QED  BY <1>1, <1>2, <1>3, <1>4

LEMMA EgressEstablishIInv ==
  ASSUME IsFiniteSet(Conns), MaxChanges \in Nat, EgressIInv, NEW c \in Conns, Egress!Establish(c)
  PROVE  EgressIInv'
<1> USE DEF EgressIInv
<1>1. EgressTypes'
  BY DEF EgressTypes, Egress!Establish, Egress!Goto, EgressPCs, Egress!table, Egress!server
<1>2. EgressCounted' /\ Egress!Inside' = Egress!Inside
  BY EgressGoes DEF Egress!Establish, Egress!Goto, EgressPCs, Egress!Inside
<1>3. EgressTunnels'
  BY <1>2 DEF EgressTunnels, EgressTypes, EgressTunnelled, Egress!Establish, Egress!Goto,
     Egress!server
<1>4. EgressDecided'
  BY DEF EgressDecided, EgressTypes, EgressTunnelled, Egress!Establish, Egress!Goto
<1> QED  BY <1>1, <1>2, <1>3, <1>4

LEMMA EgressForwardedIInv ==
  ASSUME IsFiniteSet(Conns), MaxChanges \in Nat, EgressIInv, NEW c \in Conns, Egress!Forwarded(c)
  PROVE  EgressIInv'
<1> USE DEF EgressIInv
<1>1. EgressCounted' /\ Egress!Inside' = Egress!Inside \ {c} /\ audit' \in [Conns -> Nat]
  BY EgressComesOut DEF Egress!Forwarded, Egress!Goto, Egress!Inside
<1>2. EgressTypes'
  BY <1>1 DEF EgressTypes, Egress!Forwarded, Egress!Goto, EgressPCs, Egress!table, Egress!server
<1>3. EgressTunnels'
  BY <1>1 DEF EgressTunnels, EgressTypes, EgressTunnelled, Egress!Forwarded, Egress!Goto,
     Egress!server
<1>4. EgressDecided'
  BY DEF EgressDecided, EgressTypes, EgressTunnelled, Egress!Forwarded, Egress!Goto
<1> QED  BY <1>1, <1>2, <1>3, <1>4

LEMMA EgressDialFailsIInv ==
  ASSUME IsFiniteSet(Conns), MaxChanges \in Nat, EgressIInv, NEW c \in Conns, Egress!DialFails(c)
  PROVE  EgressIInv'
<1> USE DEF EgressIInv
<1>1. EgressCounted' /\ Egress!Inside' = Egress!Inside \ {c} /\ audit' \in [Conns -> Nat]
  BY EgressComesOut DEF Egress!DialFails, Egress!Goto, Egress!Inside
<1>2. EgressTypes'
  BY <1>1 DEF EgressTypes, Egress!DialFails, Egress!Goto, EgressPCs, Egress!table, Egress!server
<1>3. EgressTunnels'
  BY <1>1 DEF EgressTunnels, EgressTypes, EgressTunnelled, Egress!DialFails, Egress!Goto,
     Egress!server
<1>4. EgressDecided'
  BY DEF EgressDecided, EgressTypes, EgressTunnelled, Egress!DialFails, Egress!Goto
<1> QED  BY <1>1, <1>2, <1>3, <1>4

LEMMA EgressHijackFailsIInv ==
  ASSUME IsFiniteSet(Conns), MaxChanges \in Nat, EgressIInv, NEW c \in Conns, Egress!HijackFails(c)
  PROVE  EgressIInv'
<1> USE DEF EgressIInv
<1>1. EgressCounted' /\ Egress!Inside' = Egress!Inside \ {c} /\ audit' \in [Conns -> Nat]
  BY EgressComesOut DEF Egress!HijackFails, Egress!Goto, Egress!Inside
<1>2. EgressTypes'
  BY <1>1 DEF EgressTypes, Egress!HijackFails, Egress!Goto, EgressPCs, Egress!table, Egress!server
<1>3. EgressTunnels'
  BY <1>1 DEF EgressTunnels, EgressTypes, EgressTunnelled, Egress!HijackFails, Egress!Goto,
     Egress!server
<1>4. EgressDecided'
  BY DEF EgressDecided, EgressTypes, EgressTunnelled, Egress!HijackFails, Egress!Goto
<1> QED  BY <1>1, <1>2, <1>3, <1>4

LEMMA EgressEstablishFailsIInv ==
  ASSUME IsFiniteSet(Conns), MaxChanges \in Nat, EgressIInv, NEW c \in Conns, Egress!EstablishFails(c)
  PROVE  EgressIInv'
<1> USE DEF EgressIInv
<1>1. EgressCounted' /\ Egress!Inside' = Egress!Inside \ {c} /\ audit' \in [Conns -> Nat]
  BY EgressComesOut DEF Egress!EstablishFails, Egress!Goto, Egress!Inside
<1>2. EgressTypes'
  BY <1>1 DEF EgressTypes, Egress!EstablishFails, Egress!Goto, EgressPCs, Egress!table,
     Egress!server
<1>3. EgressTunnels'
  BY <1>1 DEF EgressTunnels, EgressTypes, EgressTunnelled, Egress!EstablishFails, Egress!Goto,
     Egress!server
<1>4. EgressDecided'
  BY DEF EgressDecided, EgressTypes, EgressTunnelled, Egress!EstablishFails, Egress!Goto
<1> QED  BY <1>1, <1>2, <1>3, <1>4

LEMMA EgressTunnelEndsIInv ==
  ASSUME IsFiniteSet(Conns), MaxChanges \in Nat, EgressIInv, NEW c \in Conns, Egress!TunnelEnds(c)
  PROVE  EgressIInv'
<1> USE DEF EgressIInv
<1>1. EgressCounted' /\ Egress!Inside' = Egress!Inside \ {c} /\ audit' \in [Conns -> Nat]
  BY EgressComesOut DEF Egress!TunnelEnds, Egress!Goto, Egress!Inside
<1>2. EgressTypes'
  BY <1>1 DEF EgressTypes, Egress!TunnelEnds, Egress!Goto, EgressPCs, Egress!table, Egress!server
<1>3. EgressTunnels'
  BY <1>1 DEF EgressTunnels, EgressTypes, EgressTunnelled, Egress!TunnelEnds, Egress!Goto,
     Egress!server
<1>4. EgressDecided'
  BY DEF EgressDecided, EgressTypes, EgressTunnelled, Egress!TunnelEnds, Egress!Goto
<1> QED  BY <1>1, <1>2, <1>3, <1>4
\* A request that finds a policy takes the one that is in the table now.
LEMMA EgressLookupIInv ==
  ASSUME IsFiniteSet(Conns), MaxChanges \in Nat, EgressIInv, NEW c \in Conns, Egress!Lookup(c)
  PROVE  EgressIInv'
<1> USE DEF EgressIInv
<1>1. CASE ask[c].token = "known" /\ policy # Egress!NoPolicy /\ ask[c].valid
  <2>1. EgressTypes'
    BY <1>1 DEF EgressTypes, Egress!Lookup, Egress!Goto, EgressPCs, Egress!table, Egress!server
  <2>2. EgressCounted' /\ Egress!Inside' = Egress!Inside
    BY <1>1, EgressGoes DEF Egress!Lookup, Egress!Goto, EgressPCs, Egress!Inside
  <2>3. EgressTunnels'
    BY <1>1, <2>2 DEF EgressTunnels, EgressTypes, EgressTunnelled, Egress!Lookup, Egress!Goto,
       Egress!server
  <2>4. EgressDecided'
    BY <1>1 DEF EgressDecided, EgressTypes, EgressTunnelled, Egress!Lookup, Egress!Goto
  <2> QED  BY <2>1, <2>2, <2>3, <2>4
<1>2. CASE ~(ask[c].token = "known" /\ policy # Egress!NoPolicy /\ ask[c].valid)
  <2>1. EgressCounted' /\ Egress!Inside' = Egress!Inside \ {c} /\ audit' \in [Conns -> Nat]
    BY <1>2, EgressComesOut DEF Egress!Lookup, Egress!Goto, Egress!Inside
  <2>2. EgressTypes'
    BY <1>2, <2>1 DEF EgressTypes, Egress!Lookup, Egress!Goto, EgressPCs, Egress!table,
       Egress!server
  <2>3. EgressTunnels'
    BY <1>2, <2>1 DEF EgressTunnels, EgressTypes, EgressTunnelled, Egress!Lookup, Egress!Goto,
       Egress!server
  <2>4. EgressDecided'
    BY <1>2 DEF EgressDecided, EgressTypes, EgressTunnelled, Egress!Lookup, Egress!Goto
  <2> QED  BY <2>1, <2>2, <2>3, <2>4
<1> QED  BY <1>1, <1>2

LEMMA EgressDecideIInv ==
  ASSUME IsFiniteSet(Conns), MaxChanges \in Nat, EgressIInv, NEW c \in Conns, Egress!Decide(c)
  PROVE  EgressIInv'
<1> USE DEF EgressIInv
<1>1. CASE Egress!Allows(pol[c], ask[c].host, ask[c].port)
  <2>1. PICK to \in {"dial", "forward"} : pc[c] = "decide" /\ pc' = [pc EXCEPT ![c] = to]
    BY <1>1 DEF Egress!Decide, Egress!Goto
  <2>2. EgressTypes'
    BY <1>1, <2>1 DEF EgressTypes, Egress!Decide, EgressPCs, Egress!table, Egress!server
  <2>3. EgressCounted' /\ Egress!Inside' = Egress!Inside
    BY <1>1, <2>1, EgressGoes DEF Egress!Decide, EgressPCs, Egress!Inside
  <2>4. EgressTunnels'
    BY <2>1, <2>3 DEF EgressTunnels, EgressTypes, EgressTunnelled, Egress!Decide, Egress!server
  <2>5. EgressDecided'
    BY <1>1, <2>1 DEF EgressDecided, EgressTypes, EgressTunnelled, Egress!Decide
  <2> QED  BY <2>2, <2>3, <2>4, <2>5
<1>2. CASE ~Egress!Allows(pol[c], ask[c].host, ask[c].port)
  <2>1. EgressCounted' /\ Egress!Inside' = Egress!Inside \ {c} /\ audit' \in [Conns -> Nat]
    BY <1>2, EgressComesOut DEF Egress!Decide, Egress!Goto, Egress!Inside
  <2>2. EgressTypes'
    BY <1>2, <2>1 DEF EgressTypes, Egress!Decide, Egress!Goto, EgressPCs, Egress!table,
       Egress!server
  <2>3. EgressTunnels'
    BY <1>2, <2>1 DEF EgressTunnels, EgressTypes, EgressTunnelled, Egress!Decide, Egress!Goto,
       Egress!server
  <2>4. EgressDecided'
    BY <1>2 DEF EgressDecided, EgressTypes, EgressTunnelled, Egress!Decide, Egress!Goto
  <2> QED  BY <2>1, <2>2, <2>3, <2>4
<1> QED  BY <1>1, <1>2

\* The two ends of a tunnel enter the table one after the other, and not after
\* closeTunnels has looked at it (tunnel.go trackConn).
LEMMA EgressTrackIInv ==
  ASSUME IsFiniteSet(Conns), MaxChanges \in Nat, EgressIInv, NEW c \in Conns, Egress!TrackClient(c) \/ Egress!TrackUp(c)
  PROVE  EgressIInv'
<1> USE DEF EgressIInv
<1>1. PICK side \in {"client", "up"} :
        /\ pc[c] = (IF side = "client" THEN "track" ELSE "track_up")
        /\ Egress!Track(c, side, IF side = "client" THEN "track_up" ELSE "established")
        /\ UNCHANGED <<Egress!table, ask, pol, killed, shut, copying, Egress!server>>
  BY DEF Egress!TrackClient, Egress!TrackUp, Egress!Track
<1>2. CASE closed
  <2>1. pc' = [pc EXCEPT ![c] = "gone"] /\ Egress!Done(c)
        /\ tracked' = tracked \ {<<"client", c>>, <<"up", c>>}
    BY <1>1, <1>2 DEF Egress!Track
  <2>2. EgressCounted' /\ Egress!Inside' = Egress!Inside \ {c} /\ audit' \in [Conns -> Nat]
    BY <1>1, <2>1, EgressComesOut DEF Egress!Inside
  <2>3. EgressTypes'  BY <1>1, <2>1, <2>2 DEF EgressTypes, EgressPCs, Egress!table, Egress!server
  <2>4. EgressTunnels'
    BY <1>1, <2>1, <2>2 DEF EgressTunnels, EgressTypes, EgressTunnelled, Egress!server
  <2>5. EgressDecided'  BY <1>1, <2>1 DEF EgressDecided, EgressTypes, EgressTunnelled
  <2> QED  BY <2>2, <2>3, <2>4, <2>5
<1>3. CASE ~closed
  <2>1. PICK to \in {"track_up", "established"} :
          /\ side = "client" => to = "track_up"
          /\ side = "up" => to = "established"
          /\ pc' = [pc EXCEPT ![c] = to]
          /\ tracked' = tracked \cup {<<side, c>>} /\ UNCHANGED <<audit, inflight>>
    BY <1>1, <1>3 DEF Egress!Track
  <2>2. EgressCounted' /\ Egress!Inside' = Egress!Inside
    BY <1>1, <2>1, EgressGoes DEF EgressPCs, Egress!Inside
  <2>3. EgressTypes'  BY <1>1, <2>1 DEF EgressTypes, EgressPCs, Egress!table, Egress!server
  <2>4. EgressTunnels'
    BY <1>1, <2>1, <2>2 DEF EgressTunnels, EgressTypes, EgressTunnelled, Egress!server
  <2>5. EgressDecided'  BY <1>1, <2>1 DEF EgressDecided, EgressTypes, EgressTunnelled
  <2> QED  BY <2>2, <2>3, <2>4, <2>5
<1> QED  BY <1>2, <1>3

\* Registering, withdrawing and the ends of a tunnel's copying move no request.
LEMMA EgressStillIInv ==
  ASSUME IsFiniteSet(Conns), MaxChanges \in Nat, EgressIInv,
         UNCHANGED <<pc, ask, pol, audit, inflight, tracked, closed, serve>>,
         copying' \subseteq copying, policy' \in EgressTable, changes' \in 0 .. MaxChanges
  PROVE  EgressIInv'
<1> USE DEF EgressIInv
<1>1. Egress!Inside' = Egress!Inside  BY DEF Egress!Inside
<1>2. EgressTypes'  BY DEF EgressTypes
<1>3. EgressCounted'  BY <1>1 DEF EgressCounted, Egress!AuditedOnce
<1>4. EgressTunnels'  BY <1>1 DEF EgressTunnels
<1>5. EgressDecided'  BY DEF EgressDecided
<1> QED  BY <1>2, <1>3, <1>4, <1>5

\* The end of Serve: it returns when the wait group is at zero, and nobody
\* has entered since closeTunnels.
LEMMA EgressServeIInv ==
  ASSUME IsFiniteSet(Conns), MaxChanges \in Nat, EgressIInv, Egress!Cancel \/ Egress!ServeSteps
  PROVE  EgressIInv'
<1> USE DEF EgressIInv, Egress!Cancel, Egress!ServeSteps, Egress!CloseServer,
Egress!CloseTunnels, Egress!Return
<1>1. Egress!Inside' = Egress!Inside  BY DEF Egress!Inside
<1>2. EgressTypes'  BY DEF EgressTypes, Egress!table
<1>3. EgressCounted'  BY <1>1 DEF EgressCounted, Egress!AuditedOnce
<1>4. EgressTunnels'
  <2>1. Egress!Return => Egress!Inside = {}
    <3>1. IsFiniteSet(Egress!Inside)
      BY FS_Subset, Egress!Inside \in SUBSET Conns DEF Egress!Inside
    <3> QED  BY <3>1, FS_EmptySet DEF EgressCounted
  <2> QED  BY <1>1, <2>1 DEF EgressTunnels
<1>5. EgressDecided'  BY DEF EgressDecided
<1> QED  BY <1>2, <1>3, <1>4, <1>5

LEMMA EgressStepIInv ==
  ASSUME IsFiniteSet(Conns), MaxChanges \in Nat, EgressIInv, [Egress!Next]_(Egress!vars)
  PROVE  EgressIInv'
<1>1. CASE UNCHANGED Egress!vars
  BY <1>1, EgressStillIInv DEF Egress!vars, Egress!table, Egress!server, EgressIInv, EgressTypes
<1>2. ASSUME NEW raw \in Policies, Egress!Register(raw) \/ Egress!RegisterRefused(raw) PROVE EgressIInv'
  BY <1>2, EgressStillIInv DEF Egress!Register, Egress!RegisterRefused, Egress!Change,
     EgressIInv, EgressTypes, EgressTable
<1>3. CASE Egress!Unregister
  BY <1>3, EgressStillIInv DEF Egress!Unregister, Egress!Change, EgressIInv, EgressTypes,
     EgressTable
<1>4. ASSUME NEW c \in Conns, Egress!Arrive(c) PROVE EgressIInv'
  BY <1>4, EgressArriveIInv
<1>5. ASSUME NEW c \in Conns, Egress!Handler(c) PROVE EgressIInv'
  BY <1>5, EgressEnterIInv, EgressTurnAwayIInv, EgressLookupIInv, EgressDecideIInv,
     EgressForwardedIInv, EgressDialedIInv,
     EgressDialFailsIInv, EgressHijackedIInv, EgressHijackFailsIInv, EgressTrackIInv, EgressEstablishIInv,
     EgressEstablishFailsIInv, EgressTunnelEndsIInv DEF Egress!Handler
<1>6. ASSUME NEW c \in Conns, NEW side \in {"client", "up"}, Egress!PeerEnds(c, side) \/ Egress!PipeEnds(c, side)
      PROVE  EgressIInv'
  BY <1>6, EgressStillIInv DEF Egress!PeerEnds, Egress!PipeEnds, Egress!table, Egress!server,
     EgressIInv, EgressTypes
<1>7. CASE Egress!Cancel \/ Egress!ServeSteps  BY <1>7, EgressServeIInv
<1> QED  BY <1>1, <1>2, <1>3, <1>4, <1>5, <1>6, <1>7 DEF Egress!Next

\* Cardinality is the one of FiniteSets on either side.
LEMMA EgressCount == ASSUME NEW S PROVE Egress!Cardinality(S) = Cardinality(S)
  BY Zenon DEF Egress!Cardinality, Cardinality

LEMMA EgressIInvTypes == EgressIInv => Egress!TypeOK
<1> SUFFICES ASSUME EgressIInv PROVE Egress!TypeOK  OBVIOUS
<1> USE DEF EgressIInv
<1>1. policy.level \in {"absent", "none", "trusted", "custom", "full"}
  BY EgressTableIsSound DEF EgressTypes
<1>2. copying \subseteq tracked  BY DEF EgressTunnels, EgressTunnelled
<1>3. inflight = Egress!Cardinality(Egress!Inside)  BY EgressCount DEF EgressCounted
<1> QED
  BY <1>1, <1>2, <1>3 DEF Egress!TypeOK, EgressTypes, EgressCounted, EgressTunnels, EgressTunnelled

LEMMA EgressIInvAudited == EgressIInv => Egress!AuditedOnce
  BY DEF EgressIInv, EgressCounted

LEMMA EgressIInvQuiet == EgressIInv => Egress!ReturnedIsQuiet
  BY DEF EgressIInv, EgressTunnels, EgressTunnelled, Egress!ReturnedIsQuiet, Egress!Inside

LEMMA EgressIInvGranted == EgressIInv => Egress!DialedIsGranted
<1> SUFFICES ASSUME EgressIInv, NEW c \in Conns,
                    pc[c] \in {"dial", "forward", "hijack", "track"} \cup EgressTunnelled
             PROVE  /\ ask[c].token = "known" /\ ask[c].host \notin Reserved
                    /\ \/ pol[c].level = "full" /\ ask[c].port \in {80, 443}
                       \/ /\ pol[c].level \in {"trusted", "custom", "full"}
                          /\ \E p \in pol[c].patterns :
                               Egress!MatchesHost(p, ask[c].host) /\ Egress!MatchesPort(p, ask[c].port)
  BY DEF Egress!DialedIsGranted, EgressTunnelled
<1>1. ask[c].token = "known" /\ pol[c] # Egress!NoPolicy /\ Egress!Allows(pol[c], ask[c].host, ask[c].port)
  BY DEF EgressIInv, EgressDecided
<1>2. pol[c].level \in {"none", "trusted", "custom", "full"}
  BY <1>1, EgressTableIsSound DEF EgressIInv, EgressTypes
<1> QED  BY <1>1, <1>2 DEF Egress!Allows, Egress!DefaultPort

LEMMA EgressIInvSafe ==
  ASSUME \A p \in Preset : \A r \in Reserved : ~Egress!MatchesHost(p, r)
  PROVE  EgressIInv => Egress!TableIsSafe
  BY EgressTableIsSound DEF EgressIInv, EgressTypes, Egress!TableIsSafe
-----------------------------------------------------------------------------
\* The checks before take-off (Preflight).
FlightAssumed == MaxFlaws \in Nat /\ MaxChanges \in Nat

FlightPCs == {"config", "env", "feishu", "model", "edge", "acquire", "exec", "release", "storage",
              "done", "mkdir", "prompt", "platform", "contract", "build_model", "init", "listen",
              "flying", "refused"}
FlightPast == {"done", "mkdir", "prompt", "platform", "contract", "build_model", "init", "listen",
               "flying", "refused"}
FlightTail == {"storage"} \cup FlightPast

FlightTypes ==
  /\ offline \in BOOLEAN /\ explicit \in BOOLEAN /\ changed \in BOOLEAN
  /\ flaws \subseteq Flight!Flaws /\ named \subseteq Flight!Flaws
  /\ pc \in FlightPCs
  /\ row \in [Flight!Groups -> {"none", "ok", "fail", "warn", "skip"}]
  /\ box \in {"none", "up", "gone"} /\ probe \in {"none", "ok", "failed"}
  /\ changes \in 0..MaxChanges

\* Every check leaves its lines before the next one.
FlightFilled ==
  /\ pc # "config" => row["config"] # "none"
  /\ pc \notin {"config", "env"} => row["env"] # "none"
  /\ pc \notin {"config", "env", "feishu"} => row["token"] # "none" /\ row["identity"] # "none"
  /\ pc \notin {"config", "env", "feishu", "model"} => row["model"] # "none"
  /\ pc \in FlightTail => row["sandbox"] # "none"
  /\ pc \in FlightPast => row["storage"] # "none"
  /\ pc \in FlightPast \ {"done"} => Flight!Green

\* Only a probe that ran leaves a container, and its line says so.
FlightBoxed ==
  /\ pc \in {"config", "env", "feishu", "model", "edge", "acquire"} => box = "none"
  /\ pc \in FlightTail => (box = "up" => row["sandbox"] = "fail")

\* What is known of a machine that has not changed once a check has looked at it.
FlightNoFault == /\ ~Flight!Unreadable /\ Flight!ConfigFaults = {}
FlightLooked ==
  ~changed =>
    /\ pc # "config" /\ row["config"] # "fail" => FlightNoFault
    /\ pc \in {"acquire", "exec", "release"} => "contract" \notin flaws
    /\ pc \in FlightTail /\ ~offline /\ row["config"] # "fail" /\ row["sandbox"] # "fail"
         => "contract" \notin flaws
    /\ pc \in FlightPast /\ row["config"] # "fail" /\ row["storage"] # "fail"
         => "locked_dir" \notin flaws
    /\ pc = "refused" => flaws \cap Flight!NotAsked # {}
    /\ pc \in FlightPast \ {"done", "refused"} => "no_config" \notin flaws

\* The report names what it found.
FlightNamed ==
  ~changed /\ ~Flight!Unreadable /\ ~Flight!FellBack /\ "scripted" \notin flaws =>
    /\ pc # "config" => flaws \cap {"no_prompt", "fake", "blank_model", "no_key", "junk_db",
                                    "readonly_db"} \subseteq named
    /\ pc = "done" => ("locked_dir" \in flaws => "locked_dir" \in named)

FlightIInv == FlightTypes /\ FlightFilled /\ FlightBoxed /\ FlightLooked /\ FlightNamed
-----------------------------------------------------------------------------
LEMMA FlightInitIInv == ASSUME FlightAssumed PROVE Flight!Init => FlightIInv
<1> SUFFICES ASSUME Flight!Init PROVE FlightIInv  OBVIOUS
<1>1. flaws \subseteq Flight!Flaws  BY DEF Flight!Init, Flight!kSubset
<1>2. /\ offline \in BOOLEAN /\ explicit \in BOOLEAN /\ changed = FALSE /\ pc = "config"
      /\ row = Flight!NoRows /\ named = {} /\ box = "none" /\ probe = "none" /\ changes = 0
  BY DEF Flight!Init
<1>3. changed \in BOOLEAN  BY <1>2
<1>4. row \in [Flight!Groups -> {"none", "ok", "fail", "warn", "skip"}]  BY <1>2 DEF Flight!NoRows
<1>5. FlightTypes  BY <1>1, <1>2, <1>3, <1>4 DEF FlightAssumed, FlightTypes, FlightPCs
<1> QED
  BY <1>2, <1>5 DEF FlightIInv, FlightFilled, FlightBoxed, FlightLooked, FlightNamed, FlightTail,
     FlightPast

\* A configuration that is read and cannot be used ends the report at once.
LEMMA FlightUnreadableIInv == ASSUME FlightIInv, Flight!CheckConfigUnreadable PROVE FlightIInv'
<1> USE DEF FlightIInv, Flight!CheckConfigUnreadable, Flight!Goto
<1>1. FlightTypes'  BY DEF FlightTypes, FlightPCs, Flight!Read
<1>2. row'["config"] = "fail" /\ \A g \in Flight!Groups : row'[g] # "none"  BY DEF Flight!Groups
<1>3. FlightFilled'  BY <1>2 DEF FlightFilled, Flight!Groups, FlightPast
<1>4. FlightBoxed'  BY DEF FlightBoxed, FlightPast
<1>5. FlightLooked'  BY <1>2 DEF FlightLooked, FlightPast
<1>6. FlightNamed'  BY DEF FlightNamed, Flight!Unreadable
<1> QED  BY <1>1, <1>3, <1>4, <1>5, <1>6

LEMMA FlightCheckConfigIInv == ASSUME FlightIInv, Flight!CheckConfig PROVE FlightIInv'
<1> USE DEF FlightIInv, Flight!CheckConfig, Flight!Goto, Flight!Report
<1>1. Flight!ConfigFaults \subseteq Flight!Flaws
  BY DEF Flight!ConfigFaults, FlightTypes, Flight!Seen, Flight!InjectionFaults,
     Flight!ModelConfigFaults, Flight!ModelBlanks, Flight!Flaws, Flight!YamlFlaws
<1>2. FlightTypes'  BY <1>1 DEF FlightTypes, FlightPCs, Flight!Flaws
<1>3. row'["config"] # "none" /\ (row'["config"] # "fail" => Flight!ConfigFaults = {})
  BY DEF FlightTypes, Flight!Groups
<1>4. FlightFilled'  BY <1>3 DEF FlightFilled, FlightPast, FlightTail
<1>5. FlightBoxed'  BY DEF FlightBoxed, FlightPast, FlightTail
<1>6. (~Flight!Unreadable)' /\ Flight!ConfigFaults' = Flight!ConfigFaults
  BY DEF Flight!Unreadable, Flight!ConfigFaults, Flight!Seen, Flight!InjectionFaults,
     Flight!ModelConfigFaults, Flight!ModelBlanks, Flight!FellBack
<1>7. FlightLooked'  BY <1>3, <1>6 DEF FlightLooked, FlightNoFault, FlightPast, FlightTail
<1>8. FlightNamed'
  <2> SUFFICES ASSUME ~Flight!FellBack, "scripted" \notin flaws
               PROVE  flaws \cap {"no_prompt", "fake", "blank_model", "no_key", "junk_db",
                                  "readonly_db"} \subseteq named'
    BY DEF FlightNamed, Flight!FellBack
  <2>1. flaws \cap {"no_prompt", "fake", "blank_model", "no_key", "junk_db", "readonly_db"}
          \subseteq Flight!ConfigFaults
    BY DEF Flight!ConfigFaults, Flight!Seen, Flight!InjectionFaults, Flight!ModelConfigFaults,
       Flight!ModelBlanks
  <2> QED  BY <2>1
<1> QED  BY <1>2, <1>4, <1>5, <1>7, <1>8

\* The checks after the first, which leave the machine, its lines and what they
\* named as they are.
LEMMA FlightLaterIInv ==
  ASSUME FlightIInv, pc \notin {"config"} \cup FlightPast,
         UNCHANGED <<offline, explicit, flaws, changed, changes>>, FlightTypes',
         row'["config"] = row["config"], named \subseteq named',
         FlightFilled', FlightBoxed',
         pc' \in {"env", "feishu", "model", "edge", "acquire", "exec", "release", "storage", "done"},
         ~changed /\ pc' \in {"acquire", "exec", "release"} => "contract" \notin flaws,
         ~changed /\ pc' \in {"storage", "done"} /\ ~offline /\ row["config"] # "fail"
             /\ row'["sandbox"] # "fail"
           => "contract" \notin flaws,
         pc' = "done" /\ row'["storage"] # "fail" => "locked_dir" \notin flaws,
         pc' = "done" /\ "locked_dir" \in flaws => "locked_dir" \in named'
  PROVE  FlightIInv'
<1>1. Flight!Unreadable' = Flight!Unreadable /\ Flight!FellBack' = Flight!FellBack /\ Flight!ConfigFaults' = Flight!ConfigFaults
  BY DEF Flight!Unreadable, Flight!FellBack, Flight!ConfigFaults, Flight!Seen,
     Flight!InjectionFaults, Flight!ModelConfigFaults, Flight!ModelBlanks
<1>2. FlightLooked'  BY <1>1 DEF FlightIInv, FlightLooked, FlightNoFault, FlightTail, FlightPast
<1>3. FlightNamed'  BY <1>1 DEF FlightIInv, FlightNamed, FlightPast
<1> QED  BY <1>2, <1>3 DEF FlightIInv

LEMMA FlightCheckEnvIInv == ASSUME FlightIInv, Flight!CheckEnv PROVE FlightIInv'
<1> USE DEF FlightIInv, Flight!CheckEnv, Flight!Goto, Flight!Report
<1>1. FlightTypes'  BY DEF FlightTypes, FlightPCs, Flight!Read, Flight!EnvFlaws, Flight!Flaws
<1>2. row'["config"] = row["config"] /\ row'["env"] # "none"  BY DEF FlightTypes, Flight!Groups
<1>3. FlightFilled' /\ FlightBoxed'  BY <1>2 DEF FlightFilled, FlightBoxed, FlightPast, FlightTail
<1> QED  BY <1>1, <1>2, <1>3, FlightLaterIInv DEF FlightPast

LEMMA FlightCheckFeishuIInv == ASSUME FlightIInv, Flight!CheckFeishu PROVE FlightIInv'
<1> USE DEF FlightIInv, Flight!CheckFeishu, Flight!Goto, Flight!FeishuRows
<1>1. PICK t \in {"ok", "fail", "skip"}, i \in {"ok", "fail", "skip"}, P \in SUBSET Flight!Flaws :
        /\ row' = [row EXCEPT !["token"] = t, !["identity"] = i]
        /\ named' = named \cup P
  <2>1. {"no_creds"} \in SUBSET Flight!Flaws /\ {"bad_creds"} \in SUBSET Flight!Flaws
          /\ {"no_bot"} \in SUBSET Flight!Flaws /\ {"other_bot"} \in SUBSET Flight!Flaws /\ {} \in SUBSET Flight!Flaws
    BY DEF Flight!Flaws, Flight!EnvFlaws, Flight!FeishuFlaws
  <2> QED  BY <2>1
<1>2. FlightTypes'  BY <1>1 DEF FlightTypes, FlightPCs
<1>3. row'["config"] = row["config"] /\ row'["env"] = row["env"]
      /\ row'["token"] # "none" /\ row'["identity"] # "none"
  BY <1>1 DEF FlightTypes, Flight!Groups
<1>4. FlightFilled' /\ FlightBoxed'  BY <1>3 DEF FlightFilled, FlightBoxed, FlightPast, FlightTail
<1> QED  BY <1>1, <1>2, <1>3, <1>4, FlightLaterIInv DEF FlightPast

LEMMA FlightCheckModelIInv == ASSUME FlightIInv, Flight!CheckModel PROVE FlightIInv'
<1> USE DEF FlightIInv, Flight!CheckModel, Flight!Goto, Flight!Report
<1>1. CASE offline
  <2>1. FlightTypes'  BY <1>1 DEF FlightTypes, FlightPCs
  <2>2. /\ row'["config"] = row["config"] /\ row'["env"] = row["env"]
        /\ row'["token"] = row["token"] /\ row'["identity"] = row["identity"]
        /\ row'["model"] # "none" /\ row'["sandbox"] # "none"
    BY <1>1 DEF FlightTypes, Flight!Groups
  <2>3. FlightFilled' /\ FlightBoxed'
    BY <1>1, <2>2 DEF FlightFilled, FlightBoxed, FlightPast, FlightTail
  <2> QED  BY <1>1, <2>1, <2>2, <2>3, FlightLaterIInv DEF FlightPast
<1>2. CASE ~offline
  <2>1. PICK r \in {"ok", "fail", "warn"}, P \in SUBSET Flight!Flaws :
          row' = [row EXCEPT !["model"] = r] /\ named' = named \cup P
    <3>1. Flight!ModelBlanks \in SUBSET Flight!Flaws /\ {"scripted"} \in SUBSET Flight!Flaws
            /\ {"model_down"} \in SUBSET Flight!Flaws /\ {} \in SUBSET Flight!Flaws
      BY DEF Flight!ModelBlanks, Flight!Flaws, Flight!YamlFlaws, Flight!EnvFlaws
    <3> QED  BY <1>2, <3>1
  <2>2. FlightTypes'  BY <1>2, <2>1 DEF FlightTypes, FlightPCs
  <2>3. /\ row'["config"] = row["config"] /\ row'["env"] = row["env"]
        /\ row'["token"] = row["token"] /\ row'["identity"] = row["identity"]
        /\ row'["model"] # "none"
    BY <2>1 DEF FlightTypes, Flight!Groups
  <2>4. FlightFilled' /\ FlightBoxed'
    BY <1>2, <2>3 DEF FlightFilled, FlightBoxed, FlightPast, FlightTail
  <2> QED  BY <1>2, <2>1, <2>2, <2>3, <2>4, FlightLaterIInv DEF FlightPast
<1> QED  BY <1>1, <1>2 DEF FlightTypes

\* The line of the sandbox (check_sandbox, probe_sandbox).
LEMMA FlightSandboxIInv == ASSUME FlightIInv, Flight!AskEdge \/ Flight!Acquire \/ Flight!AcquireFails \/ Flight!Exec \/ Flight!Release PROVE FlightIInv'
<1> USE DEF FlightIInv, Flight!Goto, Flight!Report
<1>1. CASE Flight!AskEdge
  <2>1. Flight!EdgeVerdict \subseteq Flight!Flaws /\ (Flight!EdgeVerdict = {} => "contract" \notin flaws)
    BY DEF Flight!EdgeVerdict, Flight!Flaws, Flight!EdgeFlaws
  <2>2. FlightTypes'  BY <1>1, <2>1 DEF Flight!AskEdge, FlightTypes, FlightPCs
  <2>3. /\ \A g \in Flight!Groups \ {"sandbox"} : row'[g] = row[g]
        /\ pc' = "storage" => row'["sandbox"] = "fail"
    BY <1>1 DEF Flight!AskEdge, FlightTypes, Flight!Groups
  <2>4. FlightFilled' /\ FlightBoxed'
    BY <1>1, <2>3 DEF Flight!AskEdge, FlightFilled, FlightBoxed, FlightPast, FlightTail,
       Flight!Groups
  <2> QED
    BY <1>1, <2>1, <2>2, <2>3, <2>4, FlightLaterIInv DEF Flight!AskEdge, FlightPast, Flight!Groups
<1>2. CASE Flight!Acquire
  <2>1. FlightTypes'  BY <1>2 DEF Flight!Acquire, FlightTypes, FlightPCs
  <2>2. FlightFilled' /\ FlightBoxed'
    BY <1>2 DEF Flight!Acquire, FlightFilled, FlightBoxed, FlightPast, FlightTail
  <2> QED  BY <1>2, <2>1, <2>2, FlightLaterIInv DEF Flight!Acquire, FlightPast, FlightLooked
<1>3. CASE Flight!AcquireFails
  <2>1. FlightTypes'
    BY <1>3 DEF Flight!AcquireFails, FlightTypes, FlightPCs, Flight!Flaws, Flight!EdgeFlaws
  <2>2. /\ \A g \in Flight!Groups \ {"sandbox"} : row'[g] = row[g]
        /\ row'["sandbox"] = "fail"
    BY <1>3 DEF Flight!AcquireFails, FlightTypes, Flight!Groups
  <2>3. FlightFilled' /\ FlightBoxed'
    BY <1>3, <2>2 DEF Flight!AcquireFails, FlightFilled, FlightBoxed, FlightPast, FlightTail,
       Flight!Groups
  <2> QED
    BY <1>3, <2>1, <2>2, <2>3, FlightLaterIInv DEF Flight!AcquireFails, FlightPast, Flight!Groups
<1>4. CASE Flight!Exec
  <2>1. FlightTypes'  BY <1>4 DEF Flight!Exec, FlightTypes, FlightPCs
  <2>2. FlightFilled' /\ FlightBoxed'
    BY <1>4 DEF Flight!Exec, FlightFilled, FlightBoxed, FlightPast, FlightTail
  <2> QED  BY <1>4, <2>1, <2>2, FlightLaterIInv DEF Flight!Exec, FlightPast, FlightLooked
<1>5. CASE Flight!Release
  <2>1. FlightTypes'
    BY <1>5 DEF Flight!Release, FlightTypes, FlightPCs, Flight!Flaws, Flight!EdgeFlaws
  <2>2. /\ \A g \in Flight!Groups \ {"sandbox"} : row'[g] = row[g]
        /\ row'["sandbox"] # "none"
        /\ ~Flight!ReleaseVerdict => row'["sandbox"] = "fail"
    BY <1>5 DEF Flight!Release, FlightTypes, Flight!Groups
  <2>3. box' = "up" => row'["sandbox"] = "fail"
    BY <1>5, <2>2 DEF Flight!Release, Flight!ReleaseVerdict
  <2>4. FlightFilled' /\ FlightBoxed'
    BY <1>5, <2>2, <2>3 DEF Flight!Release, FlightFilled, FlightBoxed, FlightPast, FlightTail,
       Flight!Groups
  <2> QED
    BY <1>5, <2>1, <2>2, <2>4, FlightLaterIInv DEF Flight!Release, FlightPast, Flight!Groups,
       FlightLooked
<1> QED  BY <1>1, <1>2, <1>3, <1>4, <1>5

LEMMA FlightCheckStorageIInv == ASSUME FlightIInv, Flight!CheckStorage PROVE FlightIInv'
<1> USE DEF FlightIInv, Flight!CheckStorage, Flight!Goto, Flight!Report
<1>1. FlightTypes'  BY DEF FlightTypes, FlightPCs, Flight!Flaws, Flight!DiskFlaws
<1>2. /\ \A g \in Flight!Groups \ {"storage"} : row'[g] = row[g]
      /\ row'["storage"] # "none"
      /\ "locked_dir" \in flaws => row'["storage"] = "fail" /\ "locked_dir" \in named'
  BY DEF FlightTypes, Flight!Groups
<1>3. FlightFilled' /\ FlightBoxed'
  BY <1>2 DEF FlightFilled, FlightBoxed, FlightPast, FlightTail, Flight!Groups
<1> QED
  BY <1>1, <1>2, <1>3, FlightLaterIInv DEF FlightPast, FlightTail, Flight!Groups, FlightLooked

\* Mending begins another report, and what breaks spoils this one.
LEMMA FlightRepairIInv == ASSUME FlightIInv, Flight!Repair PROVE FlightIInv'
  BY DEF FlightIInv, Flight!Repair, Flight!Goto, FlightTypes, FlightPCs, Flight!NoRows,
     FlightFilled, FlightBoxed, FlightLooked, FlightNamed, FlightTail, FlightPast

LEMMA FlightBreakIInv == ASSUME FlightAssumed, FlightIInv, NEW f \in Flight!Sudden, Flight!Break(f) PROVE FlightIInv'
<1>1. FlightTypes'
  BY DEF FlightAssumed, FlightIInv, Flight!Break, FlightTypes, Flight!Sudden, Flight!Flaws,
     Flight!EdgeFlaws
<1>2. Flight!Green' = Flight!Green  BY DEF Flight!Break, Flight!Green
<1>3. FlightFilled' /\ FlightBoxed'
  BY <1>2 DEF FlightIInv, Flight!Break, FlightFilled, FlightBoxed
<1>4. FlightLooked' /\ FlightNamed'  BY DEF Flight!Break, FlightLooked, FlightNamed
<1> QED  BY <1>1, <1>3, <1>4 DEF FlightIInv

\* A green report on a machine that has not changed: what keeps aite run from
\* taking off is what nobody asked about.
LEMMA FlightGreenKnows ==
  ASSUME FlightIInv, ~changed, Flight!Green, pc \in FlightPast
  PROVE  /\ "bad_yaml" \notin flaws /\ ("no_config" \in flaws => ~explicit)
         /\ "no_config" \notin flaws =>
              flaws \cap {"no_prompt", "fake", "scripted", "blank_model", "no_key", "junk_db",
                          "readonly_db"} = {}
         /\ "locked_dir" \notin flaws
         /\ ~offline => "contract" \notin flaws
<1>1. row["config"] # "fail" /\ row["sandbox"] # "fail" /\ row["storage"] # "fail"
  BY DEF Flight!Green, Flight!Groups
<1>2. ~Flight!Unreadable /\ Flight!ConfigFaults = {}
  BY <1>1 DEF FlightIInv, FlightLooked, FlightNoFault, FlightPast
<1>3. "no_config" \notin flaws => Flight!Seen = flaws /\ ~Flight!FellBack
  BY DEF Flight!Seen, Flight!FellBack
<1>4. "locked_dir" \notin flaws /\ (~offline => "contract" \notin flaws)
  BY <1>1 DEF FlightIInv, FlightLooked, FlightTail
<1> QED
  BY <1>2, <1>3, <1>4 DEF Flight!Unreadable, Flight!ConfigFaults, Flight!InjectionFaults,
     Flight!ModelConfigFaults, Flight!ModelBlanks

\* A step of take-off.
LEMMA FlightStepIs ==
  ASSUME FlightIInv, Flight!Green, NEW from \in FlightPast \ {"flying", "refused"}, NEW to \in FlightPast \ {"done", "refused"},
         NEW refuses, Flight!Step(from, to, refuses),
         ~changed /\ flaws \cap refuses # {} => flaws \cap Flight!NotAsked # {},
         ~changed /\ flaws \cap refuses = {} => "no_config" \notin flaws
  PROVE  FlightIInv'
<1> USE DEF FlightIInv, Flight!Step
<1>1. pc' \in FlightPast \ {"done"}  BY DEF FlightPast
<1>2. FlightTypes'  BY <1>1 DEF FlightTypes, FlightPCs, FlightPast
<1>3. Flight!Green' = Flight!Green  BY DEF Flight!Green
<1>4. FlightFilled'  BY <1>1, <1>3 DEF FlightFilled, FlightPast, FlightTail
<1>5. FlightBoxed'  BY <1>1 DEF FlightBoxed, FlightPast, FlightTail
<1>6. /\ Flight!Unreadable' = Flight!Unreadable /\ Flight!FellBack' = Flight!FellBack /\ Flight!ConfigFaults' = Flight!ConfigFaults
      /\ Flight!NotAsked' = Flight!NotAsked
  BY DEF Flight!Unreadable, Flight!FellBack, Flight!ConfigFaults, Flight!Seen,
     Flight!InjectionFaults, Flight!ModelConfigFaults, Flight!ModelBlanks,
         Flight!NotAsked
<1>7. FlightLooked'
  <2>1. pc' = "refused" <=> flaws \cap refuses # {}  BY DEF FlightPast
  <2>2. pc \in FlightPast  BY DEF FlightPast
  <2> QED  BY <1>1, <1>6, <2>1, <2>2 DEF FlightLooked, FlightNoFault, FlightPast, FlightTail
<1>8. FlightNamed'  BY <1>1, <1>6 DEF FlightNamed, FlightPast
<1> QED  BY <1>2, <1>4, <1>5, <1>7, <1>8

LEMMA FlightTakeOffIInv == ASSUME FlightIInv, Flight!TakeOff PROVE FlightIInv'
<1>1. pc \in FlightPast \ {"flying", "refused"} /\ Flight!Green
  BY DEF FlightIInv, Flight!TakeOff, Flight!Load, Flight!MakeDirs, Flight!ReadPrompt,
     Flight!ChoosePlatform, Flight!CompareContract, Flight!BuildModel,
         Flight!InitStore, Flight!Listen, Flight!Step, FlightFilled, FlightPast
<1>2. ~changed /\ pc # "done" => "no_config" \notin flaws
  BY <1>1 DEF FlightIInv, FlightLooked, FlightPast
<1> DEFINE Asked == {"no_prompt", "fake", "scripted", "blank_model", "no_key", "junk_db",
                     "readonly_db", "locked_dir", "bad_yaml"}
<1>3. ~changed /\ "no_config" \notin flaws => flaws \cap Asked = {}
  BY <1>1, FlightGreenKnows
<1>4. ~changed /\ "contract" \in flaws => flaws \cap Flight!NotAsked # {}
  BY <1>1, FlightGreenKnows DEF Flight!NotAsked
<1>5. ~changed /\ "no_config" \in flaws => flaws \cap Flight!NotAsked # {}
  BY <1>1, FlightGreenKnows DEF Flight!NotAsked
<1>6. ASSUME NEW from \in FlightPast \ {"done", "flying", "refused"}, NEW to \in FlightPast \ {"done", "refused"},
             NEW refuses \in SUBSET Asked, Flight!Step(from, to, refuses)
      PROVE  FlightIInv'
  <2>1. pc # "done"  BY <1>6 DEF Flight!Step
  <2>2. ~changed => flaws \cap refuses = {}  BY <1>2, <1>3, <2>1
  <2>3. from \in FlightPast \ {"flying", "refused"}  OBVIOUS
  <2> QED  BY <1>1, <1>2, <1>6, <2>1, <2>2, <2>3, FlightStepIs
<1> HIDE DEF Asked
<1>7. CASE Flight!Load
  <2>1. Flight!Step("done", "mkdir", {"no_config", "bad_yaml"})  BY <1>7 DEF Flight!Load
  <2>2. ~changed => "bad_yaml" \notin flaws  BY <1>1, FlightGreenKnows
  <2> QED  BY <1>1, <1>5, <2>1, <2>2, FlightStepIs DEF FlightPast
<1>8. CASE Flight!MakeDirs
  <2>1. {"locked_dir"} \in SUBSET Asked /\ {} \in SUBSET Asked  BY DEF Asked
  <2> QED  BY <1>6, <1>8, <2>1 DEF Flight!MakeDirs, FlightPast
<1>9. CASE Flight!ReadPrompt  BY <1>6, <1>9 DEF Flight!ReadPrompt, FlightPast, Asked
<1>10. CASE Flight!ChoosePlatform  BY <1>6, <1>10 DEF Flight!ChoosePlatform, FlightPast, Asked
<1>11. CASE Flight!CompareContract
  <2>1. PICK R \in {{}, {"contract"}} : Flight!Step("contract", "build_model", R)
    BY <1>11 DEF Flight!CompareContract
  <2>2. pc # "done"  BY <2>1 DEF Flight!Step
  <2>3. "contract" \in FlightPast \ {"flying", "refused"} /\ "build_model" \in FlightPast \ {"done", "refused"}
    BY DEF FlightPast
  <2> QED  BY <1>1, <1>2, <1>4, <2>1, <2>2, <2>3, FlightStepIs
<1>12. CASE Flight!BuildModel  BY <1>6, <1>12 DEF Flight!BuildModel, FlightPast, Asked
<1>13. CASE Flight!InitStore
  <2>1. {"junk_db", "readonly_db", "locked_dir"} \in SUBSET Asked
          /\ {"junk_db", "readonly_db"} \in SUBSET Asked
    BY DEF Asked
  <2> QED  BY <1>6, <1>13, <2>1 DEF Flight!InitStore, FlightPast
<1>14. CASE Flight!Listen
  <2>1. Flight!Step("listen", "flying", {"second_core"})  BY <1>14 DEF Flight!Listen
  <2>2. pc # "done"  BY <2>1 DEF Flight!Step
  <2>3. "second_core" \in Flight!NotAsked  BY DEF Flight!NotAsked
  <2> QED  BY <1>1, <1>2, <2>1, <2>2, <2>3, FlightStepIs DEF FlightPast
<1> QED
  BY <1>7, <1>8, <1>9, <1>10, <1>11, <1>12, <1>13, <1>14 DEF Flight!TakeOff

LEMMA FlightStepIInv == ASSUME FlightAssumed, FlightIInv, [Flight!Next]_(Flight!vars) PROVE FlightIInv'
<1>1. CASE UNCHANGED Flight!vars
  BY <1>1 DEF Flight!vars, FlightIInv, FlightTypes, FlightFilled, FlightBoxed, FlightLooked,
     FlightNamed, Flight!Green, FlightNoFault, Flight!Unreadable, Flight!FellBack,
              Flight!ConfigFaults, Flight!Seen, Flight!InjectionFaults, Flight!ModelConfigFaults, Flight!ModelBlanks, Flight!NotAsked
<1>2. CASE Flight!Check
  BY <1>2, FlightUnreadableIInv, FlightCheckConfigIInv, FlightCheckEnvIInv,
     FlightCheckFeishuIInv, FlightCheckModelIInv,
     FlightSandboxIInv, FlightCheckStorageIInv DEF Flight!Check
<1> QED  BY <1>1, <1>2, FlightRepairIInv, FlightTakeOffIInv, FlightBreakIInv DEF Flight!Next

LEMMA FlightIInvTypes == FlightIInv => Flight!TypeOK
<1> SUFFICES ASSUME FlightIInv PROVE Flight!TypeOK  OBVIOUS
<1>1. pc = "done" => \A g \in Flight!Groups : row[g] # "none"
  BY DEF FlightIInv, FlightFilled, Flight!Groups, FlightPast, FlightTail
<1> QED  BY <1>1 DEF FlightIInv, FlightTypes, Flight!TypeOK, FlightPCs

LEMMA FlightIInvGreen == FlightIInv => Flight!GreenTakesOff /\ Flight!ReportedAtOnce /\ Flight!GreenLeavesNoContainer
<1> SUFFICES ASSUME FlightIInv PROVE Flight!GreenTakesOff /\ Flight!ReportedAtOnce /\ Flight!GreenLeavesNoContainer  OBVIOUS
<1>1. Flight!GreenTakesOff  BY DEF FlightIInv, FlightLooked, Flight!GreenTakesOff
<1>2. Flight!ReportedAtOnce  BY DEF FlightIInv, FlightNamed, Flight!ReportedAtOnce
<1>3. Flight!GreenLeavesNoContainer
  BY DEF FlightIInv, FlightBoxed, Flight!GreenLeavesNoContainer, FlightTail, FlightPast,
     Flight!Green, Flight!Groups
<1> QED  BY <1>1, <1>2, <1>3
-----------------------------------------------------------------------------
\* The database (SessionStore).
StoreAssumed ==
  /\ Latest = 2 /\ Horizon \in Nat \ {0} /\ MaxFaults \in Nat /\ Off \notin Nat
  /\ \A f \in Files : Store!FileIs(f)

StorePCs == {"closed", "open", "behind", "migrating", "ready", "refused", "failed"}
StoreRead(f) == UNION {[T -> Store!Data(f)] : T \in SUBSET DOMAIN f.tasks}
StoreCoreRec(f) == [pc : StorePCs, draft : Store!Contents(f) \cup {Off}, orphans : StoreRead(f) \cup {Off},
                    no : Nat \cup {Off}]

\* The state, and f the file it began with.
StoreShape(f) ==
  /\ db \in Store!Contents(f) /\ core \in [Cores -> StoreCoreRec(f)]
  /\ clock \in 1..Horizon /\ faults \in 0..MaxFaults
  /\ told \in [DOMAIN f.index -> SUBSET DOMAIN f.sessions]
  /\ fresh \in [DOMAIN f.seen -> {Off} \cup 1..clock]

\* What a core holds at which point, and who may be there.
StoreHolds(k) ==
  /\ k.draft # Off <=> k.pc = "migrating"
  /\ k.orphans # Off => k.pc = "ready"
  /\ k.no # Off => k.pc = "ready"
StoreHeld ==
  /\ \A c \in Cores : StoreHolds(core[c])
  /\ \A c, e \in Cores : core[c].pc = "migrating" /\ core[e].pc = "migrating" => c = e
  /\ ~shared => \A c, e \in Cores : core[c].pc = "ready" /\ core[e].pc = "ready" => c = e
  /\ faults = 0 => \A c \in Cores : core[c].pc # "failed"

\* The version of a file that is not newer than the program is that of its tables.
StoreOld(d) == d.version \in 0..2 /\ (IF d.version = 0 THEN d.tables < 2 ELSE d.tables = d.version)
StoreVersions(f) ==
  /\ StoreOld(db) \/ (db = f /\ f.version = 3 /\ f.tables = 3)
  /\ db.version = 3 => \A c \in Cores : core[c].pc # "migrating"
  /\ \A c \in Cores : core[c].pc = "ready" => db.version = 2

\* Every event that was called new while the clock stood where it is is there,
\* as new as that.
StoreDated(d) ==
  /\ \A e \in DOMAIN d.seen : fresh[e] = clock => d.seen[e] # Off
  /\ d.version = 2 =>
       /\ \A e \in DOMAIN d.seen : d.seen[e] \in {Off} \cup 1..clock
       /\ \A e \in DOMAIN d.seen : fresh[e] = clock => d.seen[e] = clock
  /\ d.version = 2 /\ ~shared => Store!Agree(d)

\* A transaction under way: the rows of the file, which nobody writes to.
StoreSameRows(d, b) ==
  /\ d.counter = b.counter /\ d.sessions = b.sessions /\ d.index = b.index
  /\ \A t \in DOMAIN b.tasks :
       /\ d.tasks[t] # Off <=> b.tasks[t] # Off
       /\ b.tasks[t] # Off => d.tasks[t].data = b.tasks[t].data
StoreDrafts == \A c \in Cores : core[c].pc = "migrating" =>
                 StoreOld(core[c].draft) /\ StoreSameRows(core[c].draft, db) /\ StoreDated(core[c].draft)

\* Numbers are given out once: to a task, or to a core that is about to make one.
StoreNumbers ==
  /\ \A t \in DOMAIN db.tasks : db.tasks[t] # Off => db.tasks[t].data.no <= db.counter
  /\ \A t, u \in DOMAIN db.tasks : t # u /\ db.tasks[t] # Off /\ db.tasks[u] # Off
       => db.tasks[t].data.no # db.tasks[u].data.no
  /\ \A c \in Cores : core[c].no # Off =>
       /\ core[c].no <= db.counter
       /\ \A t \in DOMAIN db.tasks : db.tasks[t] # Off => db.tasks[t].data.no # core[c].no
  /\ \A c, e \in Cores : c # e /\ core[c].no # Off /\ core[e].no # Off
       => core[c].no # core[e].no

\* Rows read by recover_orphan_tasks: of tasks that are still there, and still so
\* when nobody else has worked with the file.
StoreOrphansAre(rows) ==
  \A t \in DOMAIN rows :
    /\ t \in DOMAIN db.tasks /\ db.tasks[t] # Off
    /\ rows[t].no = db.tasks[t].data.no /\ rows[t].session = db.tasks[t].data.session
    /\ rows[t].status \in Store!Orphan
    /\ ~shared => rows[t] = db.tasks[t].data
StoreOrphaned == \A c \in Cores : core[c].orphans # Off => StoreOrphansAre(core[c].orphans)

StoreAnswered ==
  /\ \A m \in DOMAIN told : told[m] = {} \/ (db.index[m] # Off /\ told[m] = {db.index[m]})
  /\ ~twice /\ (~shared => ~buried)

StoreInv(f) == /\ StoreShape(f) /\ StoreHeld /\ StoreVersions(f) /\ StoreDated(db) /\ StoreDrafts /\ StoreNumbers /\ StoreOrphaned
               /\ StoreAnswered
StoreIInv == \E f \in Files : StoreInv(f)
-----------------------------------------------------------------------------
LEMMA StoreInitIInv == ASSUME StoreAssumed PROVE Store!Init => StoreIInv
<1> SUFFICES ASSUME Store!Init PROVE StoreInv(db)  BY DEF StoreIInv, Store!Init
<1> USE DEF StoreAssumed, Store!Init
<1>1. Store!FileIs(db) /\ db.version \in 0..3  BY DEF Store!FileIs, Store!Contents
<1>2. core \in [Cores -> StoreCoreRec(db)] /\ \A c \in Cores : core[c] = Store!Closed
  <2>1. Store!Closed \in StoreCoreRec(db)  BY DEF Store!Closed, StoreCoreRec, StorePCs
  <2> QED  BY <2>1
<1>3. told = [m \in DOMAIN db.index |-> {}]  BY DEF Store!Messages
<1>4. fresh = [e \in DOMAIN db.seen |-> IF db.seen[e] = Off THEN Off ELSE 1]  BY DEF Store!EventIds
<1>5. StoreShape(db)
  <2>1. told \in [DOMAIN db.index -> SUBSET DOMAIN db.sessions]  BY <1>3
  <2>2. fresh \in [DOMAIN db.seen -> {Off} \cup 1..clock]  BY <1>4
  <2> QED  BY <1>1, <1>2, <2>1, <2>2 DEF StoreShape, Store!FileIs
<1>6. StoreHeld /\ StoreDrafts /\ StoreOrphaned
  BY <1>2 DEF StoreHeld, StoreHolds, StoreDrafts, StoreOrphaned, Store!Closed
<1>7. StoreVersions(db)  BY <1>1, <1>2 DEF StoreVersions, StoreOld, Store!FileIs, Store!Closed
<1>8. StoreDated(db)
  <2>1. \A e \in DOMAIN db.seen : fresh[e] = clock => db.seen[e] # Off  BY <1>4
  <2>2. ASSUME db.version = 2
        PROVE  /\ \A e \in DOMAIN db.seen : db.seen[e] \in {Off} \cup 1..clock
               /\ \A e \in DOMAIN db.seen : fresh[e] = clock => db.seen[e] = clock
               /\ Store!Agree(db)
    <3>1. Store!Agree(db) /\ \A e \in DOMAIN db.seen : db.seen[e] \in {Off, 1}
      BY <1>1, <2>2 DEF Store!FileIs
    <3>2. \A e \in DOMAIN db.seen : db.seen[e] \in {Off} \cup 1..clock  BY <3>1
    <3>3. \A e \in DOMAIN db.seen : fresh[e] = clock => db.seen[e] = clock  BY <2>1, <3>1
    <3> QED  BY <3>1, <3>2, <3>3
  <2> QED  BY <2>1, <2>2 DEF StoreDated
<1>9. StoreNumbers  BY <1>1, <1>2 DEF StoreNumbers, Store!FileIs, Store!Closed
<1>10. StoreAnswered  BY <1>3 DEF StoreAnswered
<1> QED  BY <1>5, <1>6, <1>7, <1>8, <1>9, <1>10 DEF StoreInv
-----------------------------------------------------------------------------
\* Types of what is read and written.
LEMMA StoreFieldsOf ==
  ASSUME NEW f, NEW d \in Store!Contents(f)
  PROVE  /\ d.version \in 0..Latest + 1 /\ d.tables \in 0..Latest + 1 /\ d.counter \in Nat
         /\ d.sessions \in [DOMAIN f.sessions -> Chats \cup {Off}]
         /\ d.tasks \in [DOMAIN f.tasks -> Store!Rows(f) \cup {Off}]
         /\ d.seen \in [DOMAIN f.seen -> Nat \cup {Off}]
         /\ d.index \in [DOMAIN f.index -> (DOMAIN f.sessions) \cup {Off}]
  BY DEF Store!Contents

\* A database with other tables: its version, its events' dates and its tasks.
StoreBecomes(d, b, v, n, s, w) ==
  \/ b = [d EXCEPT !.version = v, !.tables = n, !.seen = s, !.tasks = w]
  \/ s = d.seen /\ w = d.tasks /\ b = [d EXCEPT !.version = v, !.tables = n]
LEMMA StoreRecordWith ==
  ASSUME NEW V, NEW C, NEW S, NEW T, NEW E, NEW I,
         NEW d \in [version : V, tables : V, counter : C, sessions : S, tasks : T, seen : E,
                    index : I],
         NEW v \in V, NEW n \in V, NEW s \in E, NEW w \in T, NEW b,
         StoreBecomes(d, b, v, n, s, w)
  PROVE  /\ b \in [version : V, tables : V, counter : C, sessions : S, tasks : T, seen : E,
                    index : I]
         /\ b.version = v /\ b.tables = n /\ b.seen = s /\ b.tasks = w
         /\ b.counter = d.counter /\ b.sessions = d.sessions /\ b.index = d.index
  BY DEF StoreBecomes

LEMMA StoreContentsWith ==
  ASSUME StoreAssumed, NEW f, NEW d \in Store!Contents(f), NEW v \in 0..3, NEW n \in 0..3,
         NEW s \in [DOMAIN f.seen -> Nat \cup {Off}],
         NEW w \in [DOMAIN f.tasks -> Store!Rows(f) \cup {Off}], NEW b,
         StoreBecomes(d, b, v, n, s, w)
  PROVE  /\ b \in Store!Contents(f)
         /\ b.version = v /\ b.tables = n /\ b.seen = s /\ b.tasks = w
         /\ b.counter = d.counter /\ b.sessions = d.sessions /\ b.index = d.index
<1> DEFINE V == 0..Latest + 1
           S == [DOMAIN f.sessions -> Chats \cup {Off}]
           T == [DOMAIN f.tasks -> Store!Rows(f) \cup {Off}]
           E == [DOMAIN f.seen -> Nat \cup {Off}]
           I == [DOMAIN f.index -> (DOMAIN f.sessions) \cup {Off}]
<1>1. v \in V /\ n \in V  BY DEF StoreAssumed
<1>2. Store!Contents(f) = [version : V, tables : V, counter : Nat, sessions : S, tasks : T, seen : E,
                           index : I]
  BY Zenon DEF Store!Contents
<1>3. s \in E /\ w \in T  OBVIOUS
<1> HIDE DEF V, S, T, E, I
<1>4. d \in [version : V, tables : V, counter : Nat, sessions : S, tasks : T, seen : E,
             index : I]
  BY <1>2
<1> QED  BY <1>1, <1>2, <1>3, <1>4, StoreRecordWith

LEMMA StoreRowOf ==
  ASSUME NEW f, NEW d \in Store!Contents(f), NEW t \in DOMAIN f.tasks, d.tasks[t] # Off
  PROVE  /\ d.tasks[t] \in Store!Rows(f)
         /\ d.tasks[t].data \in Store!Data(f)
         /\ d.tasks[t].data.session \in DOMAIN f.sessions /\ d.tasks[t].data.no \in Nat
         /\ d.tasks[t].data.status \in Store!Orphan \cup Store!Ended /\ d.tasks[t].data.cost \in Nat
<1>1. d.tasks[t] \in Store!Rows(f)  BY StoreFieldsOf
<1>2. d.tasks[t].data \in Store!Data(f)  BY <1>1 DEF Store!Rows
<1> QED  BY <1>1, <1>2 DEF Store!Data

LEMMA StoreNewRow ==
  ASSUME NEW f, NEW d \in Store!Contents(f), NEW x \in Store!Data(f)
  PROVE  /\ Store!Row(d, x) \in Store!Rows(f) /\ Store!Row(d, x).data = x
         /\ Store!Row(d, x).chat = d.sessions[x.session] /\ Store!Row(d, x).cost = x.cost
<1>1. x.session \in DOMAIN f.sessions /\ x.cost \in Nat  BY DEF Store!Data
<1>2. d.sessions[x.session] \in Chats \cup {Off}  BY <1>1, StoreFieldsOf
<1> QED  BY <1>1, <1>2 DEF Store!Row, Store!Rows

LEMMA StoreCoreOf ==
  ASSUME NEW f, StoreShape(f), NEW c \in Cores
  PROVE  /\ core[c] \in StoreCoreRec(f) /\ core[c].pc \in StorePCs
         /\ core[c].draft \in Store!Contents(f) \cup {Off} /\ core[c].no \in Nat \cup {Off}
         /\ core[c].orphans \in StoreRead(f) \cup {Off}
  BY DEF StoreShape, StoreCoreRec

\* A core that moves on while the file stays as it is.
LEMMA StoreMovesOn ==
  ASSUME StoreAssumed, NEW f \in Files, StoreInv(f), NEW c \in Cores, NEW k \in StoreCoreRec(f),
         core' = [core EXCEPT ![c] = k], UNCHANGED <<db, clock, told, fresh, twice, buried>>,
         faults' \in 0..MaxFaults, faults' = 0 => faults = 0 /\ k.pc # "failed",
         shared => shared',
         StoreHolds(k),
         k.pc = "ready" =>
           db.version = 2 /\ (shared' \/ \A e \in Cores \ {c} : core[e].pc # "ready"),
         k.pc = "migrating" =>
           /\ db.version # 3 /\ \A e \in Cores \ {c} : core[e].pc # "migrating"
           /\ StoreOld(k.draft) /\ StoreSameRows(k.draft, db) /\ StoreDated(k.draft),
         k.no = Off \/ k.no = core[c].no,
         k.orphans # Off => StoreOrphansAre(k.orphans)
  PROVE  StoreInv(f)'
<1>1. core'[c] = k /\ \A e \in Cores \ {c} : core'[e] = core[e]  BY DEF StoreInv, StoreShape
<1>2. StoreShape(f)'  BY DEF StoreInv, StoreShape
<1>3. StoreHeld'
  <2>1. \A e \in Cores : StoreHolds(core'[e])  BY <1>1 DEF StoreInv, StoreHeld
  <2>2. \A a, e \in Cores : core'[a].pc = "migrating" /\ core'[e].pc = "migrating" => a = e
    BY <1>1 DEF StoreInv, StoreHeld
  <2>3. ~shared' => \A a, e \in Cores : core'[a].pc = "ready" /\ core'[e].pc = "ready" => a = e
    BY <1>1 DEF StoreInv, StoreHeld
  <2>4. faults' = 0 => \A e \in Cores : core'[e].pc # "failed"  BY <1>1 DEF StoreInv, StoreHeld
  <2> QED  BY <2>1, <2>2, <2>3, <2>4 DEF StoreHeld, StoreHolds
<1>4. StoreVersions(f)'  BY <1>1 DEF StoreInv, StoreVersions, StoreOld
<1>5. \A d : StoreDated(d) => StoreDated(d)'  BY DEF StoreDated
<1>6. StoreDated(db)'  BY <1>5 DEF StoreInv, StoreDated
<1>7. StoreDrafts'
  <2> SUFFICES ASSUME NEW e \in Cores, core'[e].pc = "migrating"
               PROVE  (StoreOld(core[e].draft) /\ StoreSameRows(core[e].draft, db) /\ StoreDated(core[e].draft))'
    BY DEF StoreDrafts
  <2>1. CASE e = c
    <3>1. (StoreOld(k.draft) /\ StoreSameRows(k.draft, db) /\ StoreDated(k.draft))'
      BY <1>1, <1>5, <2>1 DEF StoreOld, StoreSameRows
    <3> QED  BY <1>1, <2>1, <3>1 DEF StoreOld, StoreSameRows, StoreDated
  <2>2. CASE e # c
    <3>1. StoreOld(core[e].draft) /\ StoreSameRows(core[e].draft, db) /\ StoreDated(core[e].draft)
      BY <1>1, <2>2 DEF StoreInv, StoreDrafts
    <3> QED  BY <1>1, <2>2, <3>1 DEF StoreOld, StoreSameRows, StoreDated
  <2> QED  BY <2>1, <2>2
<1>8. StoreNumbers'  BY <1>1 DEF StoreInv, StoreNumbers
<1>9. StoreOrphaned'
  <2> SUFFICES ASSUME NEW e \in Cores, core'[e].orphans # Off PROVE StoreOrphansAre(core[e].orphans)'
    BY DEF StoreOrphaned
  <2>1. CASE e = c  BY <1>1, <2>1 DEF StoreOrphansAre
  <2>2. CASE e # c
    <3>1. StoreOrphansAre(core[e].orphans)  BY <1>1, <2>2 DEF StoreInv, StoreOrphaned
    <3> QED  BY <1>1, <2>2, <3>1 DEF StoreOrphansAre
  <2> QED  BY <2>1, <2>2
<1>10. StoreAnswered'  BY DEF StoreInv, StoreAnswered
<1> QED  BY <1>2, <1>3, <1>4, <1>6, <1>7, <1>8, <1>9, <1>10 DEF StoreInv
-----------------------------------------------------------------------------
\* migrate::run.
LEMMA StoreClosedIs == ASSUME StoreAssumed, NEW f, NEW p \in StorePCs
  PROVE  LET k == [Store!Closed EXCEPT !.pc = p] IN
         k \in StoreCoreRec(f) /\ k.pc = p /\ k.draft = Off /\ k.orphans = Off /\ k.no = Off
  BY DEF Store!Closed, StoreCoreRec

\* A core that goes somewhere with nothing in its hands.
LEMMA StoreGoesIInv ==
  ASSUME StoreAssumed, NEW f \in Files, StoreInv(f), NEW c \in Cores, NEW p \in StorePCs \ {"migrating"},
         Store!Goes(c, p), UNCHANGED <<db, clock, told, fresh, twice, buried>>,
         faults' \in 0..MaxFaults, faults' = 0 => faults = 0 /\ p # "failed",
         shared => shared',
         p = "ready" => db.version = 2 /\ (shared' \/ \A e \in Cores \ {c} : core[e].pc # "ready")
  PROVE  StoreInv(f)'
<1> DEFINE k == [Store!Closed EXCEPT !.pc = p]
<1>1. k \in StoreCoreRec(f) /\ k.pc = p /\ k.draft = Off /\ k.orphans = Off /\ k.no = Off
  BY StoreClosedIs
<1>2. core' = [core EXCEPT ![c] = k]  BY DEF Store!Goes
<1>3. StoreHolds(k)  BY <1>1 DEF StoreHolds
<1> HIDE DEF k
<1> QED  BY <1>1, <1>2, <1>3, StoreMovesOn

LEMMA StoreOpenIInv ==
  ASSUME StoreAssumed, NEW f \in Files, StoreInv(f), NEW c \in Cores,
         Store!Open(c) \/ Store!Look(c) \/ Store!Busy(c) \/ Store!MigrationFails(c) \/ Store!Close(c)
  PROVE  StoreInv(f)'
<1>0. faults \in 0..MaxFaults  BY DEF StoreInv, StoreShape
<1>1. CASE Store!Open(c)
  BY <1>0, <1>1, StoreGoesIInv DEF Store!Open, Store!ghosts, StorePCs
<1>2. CASE Store!Look(c)
  <2>1. PICK p \in {"refused", "ready", "behind"} : Store!Goes(c, p) /\ (p = "ready" <=> db.version = Latest)
    BY <1>2 DEF Store!Look, StoreAssumed
  <2>2. shared => shared'  BY <1>2 DEF Store!Look
  <2>3. p = "ready" => shared' \/ \A e \in Cores \ {c} : core[e].pc # "ready"
    BY <1>2, <2>1 DEF Store!Look
  <2>4. p \in StorePCs \ {"migrating"}  BY DEF StorePCs
  <2> QED
    BY <1>0, <1>2, <2>1, <2>2, <2>3, <2>4, StoreGoesIInv DEF Store!Look, Store!ghosts,
       StoreAssumed
<1>3. CASE Store!Busy(c) \/ Store!MigrationFails(c) \/ Store!Close(c)
  <2>1. PICK p \in {"failed", "closed"} : Store!Goes(c, p)
    BY <1>3 DEF Store!Busy, Store!MigrationFails, Store!Close
  <2>2. faults' \in 0..MaxFaults /\ faults' # 0
    BY <1>0, <1>3 DEF Store!Busy, Store!MigrationFails, Store!Close, Store!Fault, StoreAssumed
  <2>3. p \in StorePCs \ {"migrating"} /\ p # "ready"  BY DEF StorePCs
  <2> QED
    BY <1>3, <2>1, <2>2, <2>3, StoreGoesIInv DEF Store!Busy, Store!MigrationFails, Store!Close,
       Store!ghosts
<1> QED  BY <1>1, <1>2, <1>3

LEMMA StoreBeginIInv ==
  ASSUME StoreAssumed, NEW f \in Files, StoreInv(f), NEW c \in Cores, Store!Begin(c)
  PROVE  StoreInv(f)'
<1>0. faults \in 0..MaxFaults  BY DEF StoreInv, StoreShape
<1>1. CASE db.version > Latest
  BY <1>0, <1>1, StoreGoesIInv DEF Store!Begin, Store!ghosts, StorePCs
<1>2. CASE ~(db.version > Latest)
  <2> DEFINE k == [core[c] EXCEPT !.pc = "migrating", !.draft = db]
  <2>1. core' = [core EXCEPT ![c] = k]  BY <1>2 DEF Store!Begin
  <2>2. db \in Store!Contents(f)  BY DEF StoreInv, StoreShape
  <2>3. db # Off  BY <2>2 DEF StoreAssumed, Store!FileIs
  <2>4. /\ k \in StoreCoreRec(f) /\ k.pc = "migrating" /\ k.draft = db /\ k.no = core[c].no
        /\ k.orphans = core[c].orphans
    BY <2>2, StoreCoreOf DEF StoreInv, StoreCoreRec, StorePCs
  <2>5. core[c].orphans = Off /\ core[c].no = Off
    BY DEF StoreInv, StoreHeld, StoreHolds, Store!Begin
  <2>6. StoreHolds(k)  BY <2>3, <2>4, <2>5 DEF StoreHolds
  <2>7. db.version # 3 /\ StoreOld(db)
    BY <1>2, <2>2, StoreFieldsOf DEF StoreInv, StoreVersions, StoreOld, StoreAssumed
  <2>8. StoreSameRows(db, db) /\ StoreDated(db)  BY DEF StoreInv, StoreSameRows
  <2>9. \A e \in Cores \ {c} : core[e].pc # "migrating"  BY DEF Store!Begin, Store!Locked
  <2>10. UNCHANGED <<db, clock, told, fresh, twice, buried, shared, faults>>
    BY DEF Store!Begin, Store!ghosts
  <2>11. faults' = 0 => faults = 0 /\ k.pc # "failed"  BY <2>4, <2>10
  <2> HIDE DEF k
  <2> QED  BY <1>0, <2>1, <2>4, <2>5, <2>6, <2>7, <2>8, <2>9, <2>10, <2>11, StoreMovesOn
<1> QED  BY <1>1, <1>2

LEMMA StoreOutcome ==
  ASSUME NEW m, NEW x, NEW y, m = [ok |-> x < 2, db |-> y], x < 2
  PROVE  m.ok /\ m.db = y
  OBVIOUS

\* A migration changes no row, but makes its columns agree and dates its events.
LEMMA StoreMigrationIs ==
  ASSUME StoreAssumed, NEW f \in Files, StoreInv(f), NEW d \in Store!Contents(f), d.version \in 0..1,
         StoreOld(d), StoreSameRows(d, db), StoreDated(d)
  PROVE  LET m == Store!Migration(d) IN
         /\ m.ok
         /\ m.db \in Store!Contents(f) /\ StoreOld(m.db) /\ StoreSameRows(m.db, db) /\ StoreDated(m.db)
<1>0. /\ d.version \in 0..3 /\ d.tables \in 0..3 /\ d.counter \in Nat
      /\ d.sessions \in [DOMAIN f.sessions -> Chats \cup {Off}]
      /\ d.tasks \in [DOMAIN f.tasks -> Store!Rows(f) \cup {Off}]
      /\ d.seen \in [DOMAIN f.seen -> Nat \cup {Off}]
      /\ d.index \in [DOMAIN f.index -> (DOMAIN f.sessions) \cup {Off}]
  BY StoreFieldsOf DEF StoreAssumed
<1>1. /\ Store!TaskIds = DOMAIN f.tasks /\ Store!EventIds = DOMAIN f.seen
      /\ clock \in Nat /\ clock >= 1 /\ clock # Off
      /\ fresh \in [DOMAIN f.seen -> {Off} \cup 1..clock]
  <2>1. db \in Store!Contents(f)  BY DEF StoreInv, StoreShape
  <2>2. Store!TaskIds = DOMAIN f.tasks /\ Store!EventIds = DOMAIN f.seen
    BY <2>1, StoreFieldsOf DEF Store!TaskIds, Store!EventIds
  <2> QED  BY <2>2 DEF StoreInv, StoreShape, StoreAssumed
<1>2. CASE d.version = 0
  <2> DEFINE n == IF d.tables = 0 THEN 1 ELSE d.tables
             b == [d EXCEPT !.version = 1, !.tables = n]
  <2>1. Store!Migration(d) = [ok |-> TRUE, db |-> b]  BY <1>2 DEF Store!Migration
  <2>2. n = 1  BY <1>0, <1>2 DEF StoreOld
  <2>3. b = [d EXCEPT !.version = 1, !.tables = 1]  BY <2>2
  <2>4. /\ b \in Store!Contents(f)
        /\ b.version = 1 /\ b.tables = 1 /\ b.seen = d.seen /\ b.tasks = d.tasks
        /\ b.counter = d.counter /\ b.sessions = d.sessions /\ b.index = d.index
    <3> HIDE DEF b
    <3>1. 1 \in 0..3  OBVIOUS
    <3>2. StoreBecomes(d, b, 1, 1, d.seen, d.tasks)  BY <2>3 DEF StoreBecomes
    <3> QED  BY <1>0, <3>1, <3>2, StoreContentsWith
  <2>5. StoreOld(b)  BY <2>4 DEF StoreOld
  <2>6. StoreSameRows(b, db)  BY <2>4 DEF StoreSameRows
  <2>7. StoreDated(b)  BY <2>4 DEF StoreDated
  <2> HIDE DEF b
  <2> QED  BY <2>1, <2>4, <2>5, <2>6, <2>7
<1>3. CASE d.version = 1
  <2> DEFINE s == [e \in Store!EventIds |-> IF d.seen[e] = Off THEN Off ELSE clock]
             w == [t \in Store!TaskIds |-> IF d.tasks[t] = Off THEN Off ELSE Store!Row(d, d.tasks[t].data)]
             b == [d EXCEPT !.version = 2, !.tables = 2, !.seen = s, !.tasks = w]
  <2>1. d.tables = 1  BY <1>3 DEF StoreOld
  <2>2. Store!Migration(d).ok /\ Store!Migration(d).db = b
    <3>1. Store!Migration(d) = [ok |-> d.tables < 2, db |-> b]  BY <1>3 DEF Store!Migration
    <3> HIDE DEF b
    <3>2. d.tables < 2  BY <2>1
    <3> QED  BY <3>1, <3>2, StoreOutcome
  <2>3. s \in [DOMAIN f.seen -> Nat \cup {Off}]  BY <1>1
  <2>4. ASSUME NEW t \in DOMAIN f.tasks, d.tasks[t] # Off
        PROVE  /\ Store!Row(d, d.tasks[t].data) \in Store!Rows(f)
               /\ Store!Row(d, d.tasks[t].data).data = d.tasks[t].data
               /\ Store!Row(d, d.tasks[t].data).chat = d.sessions[d.tasks[t].data.session]
               /\ Store!Row(d, d.tasks[t].data).cost = d.tasks[t].data.cost
               /\ Store!Row(d, d.tasks[t].data) # Off
    <3>1. d.tasks[t].data \in Store!Data(f)  BY <2>4, StoreRowOf
    <3>2. Off \notin Store!Rows(f)  BY DEF StoreAssumed, Store!FileIs
    <3> QED  BY <3>1, <3>2, StoreNewRow
  <2>5. w \in [DOMAIN f.tasks -> Store!Rows(f) \cup {Off}]  BY <1>1, <2>4
  <2>6. /\ b \in Store!Contents(f)
        /\ b.version = 2 /\ b.tables = 2 /\ b.seen = s /\ b.tasks = w
        /\ b.counter = d.counter /\ b.sessions = d.sessions /\ b.index = d.index
    <3>1. b = [d EXCEPT !.version = 2, !.tables = 2, !.seen = s, !.tasks = w]  OBVIOUS
    <3>2. 2 \in 0..3  OBVIOUS
    <3> HIDE DEF b, w, s
    <3>3. StoreBecomes(d, b, 2, 2, s, w)  BY <3>1 DEF StoreBecomes
    <3> QED  BY <2>3, <2>5, <3>2, <3>3, StoreContentsWith
  <2>8. /\ \A t \in DOMAIN f.tasks : w[t] = Off <=> d.tasks[t] = Off
        /\ \A t \in DOMAIN f.tasks : d.tasks[t] # Off =>
             /\ w[t].data = d.tasks[t].data /\ w[t].cost = w[t].data.cost
             /\ w[t].chat = d.sessions[w[t].data.session]
    BY <1>1, <2>4
  <2>9. \A e \in DOMAIN f.seen : s[e] \in {Off, clock} /\ (s[e] = Off <=> d.seen[e] = Off)
    BY <1>1
  <2> HIDE DEF b, s, w
  <2>10. StoreOld(b)  BY <2>6 DEF StoreOld
  <2>11. StoreSameRows(b, db)
    <3>1. DOMAIN db.tasks = DOMAIN f.tasks  BY <1>1 DEF Store!TaskIds
    <3> QED  BY <2>6, <2>8, <3>1 DEF StoreSameRows
  <2>12. StoreDated(b)
    <3>1. DOMAIN b.seen = DOMAIN f.seen /\ DOMAIN d.seen = DOMAIN f.seen
      BY <1>0, <2>3, <2>6
    <3>2. \A e \in DOMAIN b.seen : fresh[e] = clock => b.seen[e] = clock /\ b.seen[e] # Off
      BY <1>1, <2>6, <2>9, <3>1 DEF StoreDated
    <3>3. \A e \in DOMAIN b.seen : b.seen[e] \in {Off} \cup 1..clock
      BY <1>1, <2>6, <2>9, <3>1
    <3>4. DOMAIN b.tasks = DOMAIN f.tasks  BY <2>5, <2>6
    <3>5. Store!Agree(b)  BY <2>6, <2>8, <3>4 DEF Store!Agree
    <3> QED  BY <3>2, <3>3, <3>5 DEF StoreDated
  <2> QED  BY <2>2, <2>6, <2>10, <2>11, <2>12
<1> QED  BY <1>2, <1>3

LEMMA StoreMigrateIInv ==
  ASSUME StoreAssumed, NEW f \in Files, StoreInv(f), NEW c \in Cores, Store!Migrate(c)
  PROVE  StoreInv(f)'
<1>0. faults \in 0..MaxFaults  BY DEF StoreInv, StoreShape
<1> DEFINE d == core[c].draft
           b == Store!Migration(d).db
           k == [core[c] EXCEPT !.draft = b]
<1>1. core[c].pc = "migrating" /\ d # Off  BY DEF Store!Migrate, StoreInv, StoreHeld, StoreHolds
<1>2. d \in Store!Contents(f) /\ StoreOld(d) /\ StoreSameRows(d, db) /\ StoreDated(d)
  BY <1>1, StoreCoreOf DEF StoreInv, StoreDrafts
<1>3. d.version \in 0..1  BY <1>2 DEF StoreOld, Store!Migrate, StoreAssumed
<1>4. Store!Migration(d).ok /\ b \in Store!Contents(f) /\ StoreOld(b) /\ StoreSameRows(b, db) /\ StoreDated(b)
  BY <1>2, <1>3, StoreMigrationIs
<1>5. core' = [core EXCEPT ![c] = k]  BY <1>4 DEF Store!Migrate
<1> HIDE DEF d, b
<1>6. b # Off  BY <1>4 DEF StoreAssumed, Store!FileIs
<1>7. /\ k \in StoreCoreRec(f) /\ k.pc = "migrating" /\ k.draft = b /\ k.no = core[c].no
      /\ k.orphans = core[c].orphans
  BY <1>1, <1>4, StoreCoreOf DEF StoreInv, StoreCoreRec
<1>8. core[c].orphans = Off /\ core[c].no = Off  BY <1>1 DEF StoreInv, StoreHeld, StoreHolds
<1>9. StoreHolds(k)  BY <1>6, <1>7, <1>8 DEF StoreHolds
<1>10. \A e \in Cores \ {c} : core[e].pc # "migrating"  BY <1>1 DEF StoreInv, StoreHeld
<1>11. db.version # 3  BY <1>1 DEF StoreInv, StoreVersions
<1>12. UNCHANGED <<db, clock, told, fresh, twice, buried, shared, faults>>
  BY DEF Store!Migrate, Store!ghosts
<1>13. faults' = 0 => faults = 0 /\ k.pc # "failed"  BY <1>7, <1>12
<1> HIDE DEF k
<1> QED  BY <1>0, <1>4, <1>5, <1>7, <1>8, <1>9, <1>10, <1>11, <1>12, <1>13, StoreMovesOn

\* recover_orphan_tasks reads.
LEMMA StoreReadOrphansIInv ==
  ASSUME StoreAssumed, NEW f \in Files, StoreInv(f), NEW c \in Cores, Store!ReadOrphans(c)
  PROVE  StoreInv(f)'
<1>0. faults \in 0..MaxFaults  BY DEF StoreInv, StoreShape
<1> DEFINE T == {t \in Store!TaskIds : db.tasks[t] # Off /\ db.tasks[t].data.status \in Store!Orphan}
           r == [t \in T |-> db.tasks[t].data]
           k == [core[c] EXCEPT !.orphans = r]
<1>1. core[c].pc = "ready"  BY DEF Store!ReadOrphans, Store!Works
<1>2. core' = [core EXCEPT ![c] = k]  BY DEF Store!ReadOrphans
<1>3. db \in Store!Contents(f)  BY DEF StoreInv, StoreShape
<1>4. Store!TaskIds = DOMAIN f.tasks  BY <1>3, StoreFieldsOf DEF Store!TaskIds
<1>5. r \in StoreRead(f)
  <2>1. T \in SUBSET DOMAIN f.tasks  BY <1>4
  <2>2. r \in [T -> Store!Data(f)]  BY <1>3, <1>4, StoreRowOf
  <2> QED  BY <2>1, <2>2 DEF StoreRead
<1>6. StoreOrphansAre(r)  BY DEF StoreOrphansAre, Store!TaskIds
<1> HIDE DEF r
<1>7. /\ k \in StoreCoreRec(f) /\ k.pc = "ready" /\ k.draft = core[c].draft /\ k.no = core[c].no
      /\ k.orphans = r
  BY <1>1, <1>5, StoreCoreOf DEF StoreInv, StoreCoreRec
<1>8. StoreHolds(k)  BY <1>1, <1>7 DEF StoreInv, StoreHeld, StoreHolds
<1>9. db.version = 2  BY <1>1 DEF StoreInv, StoreVersions
<1>10. shared \/ \A e \in Cores \ {c} : core[e].pc # "ready"  BY <1>1 DEF StoreInv, StoreHeld
<1>11. UNCHANGED <<db, clock, told, fresh, twice, buried, shared, faults>>
  BY DEF Store!ReadOrphans, Store!ghosts
<1>12. faults' = 0 => faults = 0 /\ k.pc # "failed"  BY <1>7, <1>11
<1> HIDE DEF k
<1> QED  BY <1>0, <1>2, <1>6, <1>7, <1>8, <1>9, <1>10, <1>11, <1>12, StoreMovesOn

\* The transaction that migrates becomes the file.
LEMMA StoreCommitIInv ==
  ASSUME StoreAssumed, NEW f \in Files, StoreInv(f), NEW c \in Cores, Store!Commit(c)
  PROVE  StoreInv(f)'
<1> DEFINE d == core[c].draft
           k == [Store!Closed EXCEPT !.pc = "ready"]
<1>0. /\ core[c].pc = "migrating" /\ d # Off /\ d.version = 2 /\ db' = d
      /\ UNCHANGED <<clock, told, fresh, twice, buried, faults>>
      /\ core' = [core EXCEPT ![c] = k]
      /\ shared' = (shared \/ \E o \in Cores \ {c} : core[o].pc = "ready")
  BY DEF Store!Commit, StoreInv, StoreHeld, StoreHolds, StoreAssumed, Store!ghosts, Store!Goes
<1>1. d \in Store!Contents(f) /\ StoreOld(d) /\ StoreSameRows(d, db) /\ StoreDated(d)
  BY <1>0, StoreCoreOf DEF StoreInv, StoreDrafts
<1>a. (shared => shared') /\ ((\E o \in Cores \ {c} : core[o].pc = "ready") => shared')
  BY <1>0, Zenon
<1>2. k \in StoreCoreRec(f) /\ k.pc = "ready" /\ k.draft = Off /\ k.orphans = Off /\ k.no = Off
  <2>1. "ready" \in StorePCs  BY DEF StorePCs
  <2> QED  BY <2>1, StoreClosedIs
<1>3. db \in Store!Contents(f) /\ core \in [Cores -> StoreCoreRec(f)]  BY DEF StoreInv, StoreShape
<1> HIDE DEF d, k
<1>4. core'[c] = k /\ \A e \in Cores \ {c} : core'[e] = core[e]  BY <1>0, <1>3
<1>5. StoreShape(f)'
  <2>1. core' \in [Cores -> StoreCoreRec(f)]  BY <1>0, <1>2, <1>3
  <2> QED  BY <1>0, <1>1, <2>1 DEF StoreInv, StoreShape
<1>6. StoreHeld'
  <2>1. \A e \in Cores : StoreHolds(core'[e])  BY <1>2, <1>4 DEF StoreInv, StoreHeld, StoreHolds
  <2>2. \A e \in Cores : core'[e].pc # "migrating"  BY <1>0, <1>2, <1>4 DEF StoreInv, StoreHeld
  <2>3. ~shared' => \A a, e \in Cores : core'[a].pc = "ready" /\ core'[e].pc = "ready" => a = e
    BY <1>a, <1>4 DEF StoreInv, StoreHeld
  <2>4. faults' = 0 => \A e \in Cores : core'[e].pc # "failed"
    BY <1>0, <1>2, <1>4 DEF StoreInv, StoreHeld
  <2> QED  BY <2>1, <2>2, <2>3, <2>4 DEF StoreHeld, StoreHolds
<1>7. StoreVersions(f)'  BY <1>0, <1>1 DEF StoreVersions, StoreOld
<1>8. StoreDated(db)'  BY <1>0, <1>1 DEF StoreDated
<1>9. StoreDrafts'
  <2>1. \A e \in Cores : core'[e].pc # "migrating"  BY <1>0, <1>2, <1>4 DEF StoreInv, StoreHeld
  <2> QED  BY <2>1 DEF StoreDrafts
<1>10. /\ DOMAIN d.tasks = DOMAIN f.tasks /\ DOMAIN db.tasks = DOMAIN f.tasks
       /\ d.counter = db.counter
       /\ \A t \in DOMAIN f.tasks :
            /\ d.tasks[t] # Off <=> db.tasks[t] # Off
            /\ db.tasks[t] # Off => d.tasks[t].data = db.tasks[t].data
  <2>1. DOMAIN d.tasks = DOMAIN f.tasks /\ DOMAIN db.tasks = DOMAIN f.tasks
    BY <1>1, <1>3, StoreFieldsOf
  <2> QED  BY <1>1, <2>1 DEF StoreSameRows
<1>11. StoreNumbers'
  <2>1. \A e \in Cores : core'[e].no # Off => core'[e].no = core[e].no /\ e # c
    BY <1>2, <1>4
  <2> QED  BY <1>0, <1>10, <2>1 DEF StoreInv, StoreNumbers
<1>12. StoreOrphaned'
  <2> SUFFICES ASSUME NEW e \in Cores, core'[e].orphans # Off PROVE StoreOrphansAre(core[e].orphans)'
    BY DEF StoreOrphaned
  <2>1. e # c /\ core'[e] = core[e] /\ StoreOrphansAre(core[e].orphans)
    BY <1>2, <1>4 DEF StoreInv, StoreOrphaned
  <2>2. \A t \in DOMAIN core[e].orphans : t \in DOMAIN f.tasks
    BY <1>10, <2>1 DEF StoreOrphansAre
  <2>3. shared'
    BY <1>0, <2>1 DEF StoreInv, StoreHeld, StoreHolds
  <2> QED  BY <1>0, <1>10, <2>1, <2>2, <2>3 DEF StoreOrphansAre
<1>13. StoreAnswered'
  <2>1. db'.index = db.index  BY <1>0, <1>1 DEF StoreSameRows
  <2> QED  BY <1>0, <2>1 DEF StoreInv, StoreAnswered
<1> QED  BY <1>5, <1>6, <1>7, <1>8, <1>9, <1>11, <1>12, <1>13 DEF StoreInv
-----------------------------------------------------------------------------
\* The rows.  A database with one part changed.
StorePuts(d, b, n, s, w, e, i) ==
  \/ b = [d EXCEPT !.counter = n] /\ s = d.sessions /\ w = d.tasks /\ e = d.seen /\ i = d.index
  \/ b = [d EXCEPT !.sessions = s] /\ n = d.counter /\ w = d.tasks /\ e = d.seen /\ i = d.index
  \/ b = [d EXCEPT !.tasks = w] /\ n = d.counter /\ s = d.sessions /\ e = d.seen /\ i = d.index
  \/ b = [d EXCEPT !.seen = e] /\ n = d.counter /\ s = d.sessions /\ w = d.tasks /\ i = d.index
  \/ b = [d EXCEPT !.index = i] /\ n = d.counter /\ s = d.sessions /\ w = d.tasks /\ e = d.seen
LEMMA StoreRecordPut ==
  ASSUME NEW V, NEW C, NEW S, NEW T, NEW E, NEW I,
         NEW d \in [version : V, tables : V, counter : C, sessions : S, tasks : T, seen : E,
                    index : I],
         NEW n \in C, NEW s \in S, NEW w \in T, NEW e \in E, NEW i \in I, NEW b,
         StorePuts(d, b, n, s, w, e, i)
  PROVE  /\ b \in [version : V, tables : V, counter : C, sessions : S, tasks : T, seen : E,
                    index : I]
         /\ b.version = d.version /\ b.tables = d.tables /\ b.counter = n
         /\ b.sessions = s /\ b.tasks = w /\ b.seen = e /\ b.index = i
  BY DEF StorePuts

LEMMA StoreContentsPut ==
  ASSUME NEW f, NEW d \in Store!Contents(f), NEW n \in Nat,
         NEW s \in [DOMAIN f.sessions -> Chats \cup {Off}],
         NEW w \in [DOMAIN f.tasks -> Store!Rows(f) \cup {Off}],
         NEW e \in [DOMAIN f.seen -> Nat \cup {Off}],
         NEW i \in [DOMAIN f.index -> (DOMAIN f.sessions) \cup {Off}], NEW b,
         StorePuts(d, b, n, s, w, e, i)
  PROVE  /\ b \in Store!Contents(f) /\ b.version = d.version /\ b.tables = d.tables /\ b.counter = n
         /\ b.sessions = s /\ b.tasks = w /\ b.seen = e /\ b.index = i
<1> DEFINE V == 0..Latest + 1
           S == [DOMAIN f.sessions -> Chats \cup {Off}]
           T == [DOMAIN f.tasks -> Store!Rows(f) \cup {Off}]
           E == [DOMAIN f.seen -> Nat \cup {Off}]
           I == [DOMAIN f.index -> (DOMAIN f.sessions) \cup {Off}]
           C == Nat
<1>1. n \in C /\ s \in S /\ w \in T /\ e \in E /\ i \in I  OBVIOUS
<1>2. Store!Contents(f) = [version : V, tables : V, counter : C, sessions : S, tasks : T, seen : E,
                           index : I]
  BY Zenon DEF Store!Contents
<1> HIDE DEF V, S, T, E, I, C
<1>3. d \in [version : V, tables : V, counter : C, sessions : S, tasks : T, seen : E,
             index : I]
  BY <1>2
<1> QED  BY <1>1, <1>2, <1>3, StoreRecordPut

\* What a core that works and writes leaves, if its rows are in order.
LEMMA StoreWritesIInv ==
  ASSUME StoreAssumed, NEW f \in Files, StoreInv(f), NEW c \in Cores, core[c].pc = "ready", ~Store!Locked,
         db' \in Store!Contents(f), db'.version = db.version, db'.tables = db.tables,
         NEW k \in StoreCoreRec(f), core' = [core EXCEPT ![c] = k], k.pc = "ready", k.draft = Off,
         UNCHANGED <<clock, shared, faults>>,
         told' \in [DOMAIN f.index -> SUBSET DOMAIN f.sessions],
         fresh' \in [DOMAIN f.seen -> {Off} \cup 1..clock],
         StoreDated(db)', StoreNumbers', StoreOrphaned', StoreAnswered'
  PROVE  StoreInv(f)'
<1>1. core'[c] = k /\ \A e \in Cores \ {c} : core'[e] = core[e]  BY DEF StoreInv, StoreShape
<1>2. StoreShape(f)'
  <2>1. core' \in [Cores -> StoreCoreRec(f)]  BY DEF StoreInv, StoreShape
  <2> QED  BY <2>1 DEF StoreInv, StoreShape
<1>3. StoreHeld'
  <2>1. \A e \in Cores : StoreHolds(core'[e])  BY <1>1 DEF StoreInv, StoreHeld, StoreHolds
  <2>2. \A a, e \in Cores : core'[a].pc = "migrating" /\ core'[e].pc = "migrating" => a = e
    BY <1>1 DEF StoreInv, StoreHeld
  <2>3. ~shared' => \A a, e \in Cores : core'[a].pc = "ready" /\ core'[e].pc = "ready" => a = e
    BY <1>1 DEF StoreInv, StoreHeld
  <2>4. faults' = 0 => \A e \in Cores : core'[e].pc # "failed"  BY <1>1 DEF StoreInv, StoreHeld
  <2> QED  BY <2>1, <2>2, <2>3, <2>4 DEF StoreHeld, StoreHolds
<1>4. \A e \in Cores : core'[e].pc # "migrating"  BY <1>1 DEF Store!Locked
<1>5. StoreVersions(f)'
  <2>1. db.version = 2 /\ StoreOld(db)  BY DEF StoreInv, StoreVersions
  <2> QED  BY <1>4, <2>1 DEF StoreVersions, StoreOld
<1>6. StoreDrafts'  BY <1>4 DEF StoreDrafts
<1> QED  BY <1>2, <1>3, <1>5, <1>6 DEF StoreInv

\* Where a core works nobody else does, unless the file is shared.
LEMMA StoreAlone ==
  ASSUME NEW f, StoreInv(f), NEW c \in Cores, core[c].pc = "ready", ~shared, NEW e \in Cores,
         core[e].orphans # Off
  PROVE  e = c
  BY DEF StoreInv, StoreHeld, StoreHolds

\* What a core that works may rely on.
LEMMA StoreWorking ==
  ASSUME StoreAssumed, NEW f \in Files, StoreInv(f), NEW c \in Cores, core[c].pc = "ready"
  PROVE  /\ core[c] \in StoreCoreRec(f) /\ core[c].draft = Off
         /\ (core' = core => core' = [core EXCEPT ![c] = core[c]])
         /\ db \in Store!Contents(f) /\ db.version = 2
         /\ Store!TaskIds = DOMAIN f.tasks /\ Store!EventIds = DOMAIN f.seen /\ Store!Messages = DOMAIN f.index
         /\ Store!Sessions = DOMAIN f.sessions
         /\ db.counter \in Nat
         /\ db.sessions \in [DOMAIN f.sessions -> Chats \cup {Off}]
         /\ db.tasks \in [DOMAIN f.tasks -> Store!Rows(f) \cup {Off}]
         /\ db.seen \in [DOMAIN f.seen -> Nat \cup {Off}]
         /\ db.index \in [DOMAIN f.index -> (DOMAIN f.sessions) \cup {Off}]
         /\ told \in [DOMAIN f.index -> SUBSET DOMAIN f.sessions]
         /\ fresh \in [DOMAIN f.seen -> {Off} \cup 1..clock]
         /\ clock \in Nat /\ clock >= 1 /\ clock # Off
<1>1. db \in Store!Contents(f) /\ core \in [Cores -> StoreCoreRec(f)]  BY DEF StoreInv, StoreShape
<1>2. db.version = 2 /\ core[c].draft = Off  BY DEF StoreInv, StoreVersions, StoreHeld, StoreHolds
<1>3. Store!TaskIds = DOMAIN f.tasks /\ Store!EventIds = DOMAIN f.seen /\ Store!Messages = DOMAIN f.index
      /\ Store!Sessions = DOMAIN f.sessions
  BY <1>1, StoreFieldsOf DEF Store!TaskIds, Store!EventIds, Store!Messages, Store!Sessions
<1>4. clock \in Nat /\ clock >= 1 /\ clock # Off  BY DEF StoreInv, StoreShape, StoreAssumed
<1>5. core[c] \in StoreCoreRec(f) /\ core = [core EXCEPT ![c] = core[c]]  BY <1>1
<1> QED  BY <1>1, <1>2, <1>3, <1>4, <1>5, StoreFieldsOf DEF StoreInv, StoreShape

\* create_session: no task has rows of it yet.
LEMMA StoreCreateSessionIInv ==
  ASSUME StoreAssumed, NEW f \in Files, StoreInv(f), NEW c \in Cores, NEW s \in Store!Sessions,
         NEW chat \in Chats, Store!CreateSession(c, s, chat)
  PROVE  StoreInv(f)'
<1> DEFINE x == [db.sessions EXCEPT ![s] = chat]
<1>0. /\ core[c].pc = "ready" /\ ~Store!Locked
      /\ UNCHANGED <<core, clock, shared, faults, told, fresh, twice, buried>>
      /\ \A t \in Store!TaskIds : db.tasks[t] # Off => db.tasks[t].data.session # s
  BY DEF Store!CreateSession, Store!Writes, Store!Works, Store!Only, Store!ghosts
<1>1. db' = [db EXCEPT !.sessions = x]  BY DEF Store!CreateSession, Store!Only
<1>2. x \in [DOMAIN f.sessions -> Chats \cup {Off}]
      /\ \A r \in DOMAIN f.sessions \ {s} : x[r] = db.sessions[r]
  BY <1>0, StoreWorking
<1> HIDE DEF x
<1>3. StorePuts(db, db', db.counter, x, db.tasks, db.seen, db.index)  BY <1>1 DEF StorePuts
<1>4. /\ db' \in Store!Contents(f) /\ db'.version = db.version /\ db'.tables = db.tables
      /\ db'.counter = db.counter /\ db'.sessions = x /\ db'.tasks = db.tasks
      /\ db'.seen = db.seen /\ db'.index = db.index
  <2>1. core[c].pc = "ready"  BY <1>0
  <2>2. /\ db \in Store!Contents(f) /\ db.counter \in Nat
        /\ db.sessions \in [DOMAIN f.sessions -> Chats \cup {Off}]
        /\ db.tasks \in [DOMAIN f.tasks -> Store!Rows(f) \cup {Off}]
        /\ db.seen \in [DOMAIN f.seen -> Nat \cup {Off}]
        /\ db.index \in [DOMAIN f.index -> (DOMAIN f.sessions) \cup {Off}]
    BY <2>1, StoreWorking
  <2> QED  BY <1>2, <1>3, <2>2, StoreContentsPut
<1>5. StoreDated(db)'
  <2>1. Store!Agree(db) => Store!Agree(db')
    <3> SUFFICES ASSUME Store!Agree(db), NEW t \in DOMAIN f.tasks, db.tasks[t] # Off
                 PROVE  /\ db.tasks[t].cost = db.tasks[t].data.cost
                        /\ db.tasks[t].chat = x[db.tasks[t].data.session]
      BY <1>0, <1>4, StoreWorking DEF Store!Agree
    <3>1. db.tasks[t].data.session \in DOMAIN f.sessions \ {s}
      BY <1>0, StoreWorking, StoreRowOf
    <3> QED  BY <1>0, <1>2, <3>1, StoreWorking DEF Store!Agree
  <2>2. StoreDated(db)  BY DEF StoreInv
  <2> QED  BY <1>0, <1>4, <2>1, <2>2 DEF StoreDated, Store!Agree
<1>6. StoreNumbers'  BY <1>0, <1>4 DEF StoreInv, StoreNumbers
<1>7. StoreOrphaned'
  <2> SUFFICES ASSUME NEW e \in Cores, core'[e].orphans # Off PROVE StoreOrphansAre(core[e].orphans)'
    BY DEF StoreOrphaned
  <2>1. StoreOrphansAre(core[e].orphans) /\ core' = core  BY <1>0 DEF StoreInv, StoreOrphaned
  <2> QED  BY <1>0, <1>4, <2>1 DEF StoreOrphansAre
<1>8. StoreAnswered'  BY <1>0, <1>4 DEF StoreInv, StoreAnswered
<1> DEFINE k == core[c]
<1>9. k \in StoreCoreRec(f) /\ core' = [core EXCEPT ![c] = k] /\ k.pc = "ready" /\ k.draft = Off
  BY <1>0, StoreWorking
<1>10. told' \in [DOMAIN f.index -> SUBSET DOMAIN f.sessions]
       /\ fresh' \in [DOMAIN f.seen -> {Off} \cup 1..clock]
  BY <1>0, StoreWorking
<1> HIDE DEF k
<1> QED  BY <1>0, <1>4, <1>5, <1>6, <1>7, <1>8, <1>9, <1>10, StoreWritesIInv

\* next_task_no: the number is nobody's yet.
LEMMA StoreNextTaskNoIInv ==
  ASSUME StoreAssumed, NEW f \in Files, StoreInv(f), NEW c \in Cores, Store!NextTaskNo(c)
  PROVE  StoreInv(f)'
<1> DEFINE x == db.counter + 1
           k == [core[c] EXCEPT !.no = x]
<1>0. /\ core[c].pc = "ready" /\ ~Store!Locked /\ core' = [core EXCEPT ![c] = k]
      /\ UNCHANGED <<clock, shared, faults, told, fresh, twice, buried>>
      /\ core[c].no = Off
  BY DEF Store!NextTaskNo, Store!Writes, Store!Works, Store!ghosts
<1>1. db' = [db EXCEPT !.counter = x]  BY DEF Store!NextTaskNo
<1>b. core[c].pc = "ready" /\ db.counter \in Nat
  <2>1. core[c].pc = "ready"  BY <1>0
  <2> QED  BY <2>1, StoreWorking
<1>2. x \in Nat /\ x > db.counter /\ db.counter \in Nat  BY <1>b
<1> HIDE DEF x
<1>3. StorePuts(db, db', x, db.sessions, db.tasks, db.seen, db.index)  BY <1>1 DEF StorePuts
<1>4. /\ db' \in Store!Contents(f) /\ db'.version = db.version /\ db'.tables = db.tables
      /\ db'.counter = x /\ db'.sessions = db.sessions /\ db'.tasks = db.tasks
      /\ db'.seen = db.seen /\ db'.index = db.index
  <2>1. /\ db \in Store!Contents(f)
        /\ db.sessions \in [DOMAIN f.sessions -> Chats \cup {Off}]
        /\ db.tasks \in [DOMAIN f.tasks -> Store!Rows(f) \cup {Off}]
        /\ db.seen \in [DOMAIN f.seen -> Nat \cup {Off}]
        /\ db.index \in [DOMAIN f.index -> (DOMAIN f.sessions) \cup {Off}]
    BY <1>b, StoreWorking
  <2> QED  BY <1>2, <1>3, <2>1, StoreContentsPut
<1>5. StoreDated(db)'
  <2>1. StoreDated(db)  BY DEF StoreInv
  <2> QED  BY <1>0, <1>4, <2>1 DEF StoreDated, Store!Agree
<1>9. /\ k \in StoreCoreRec(f) /\ k.pc = "ready" /\ k.draft = Off /\ k.no = x
      /\ k.orphans = core[c].orphans
  BY <1>0, <1>2, StoreWorking DEF StoreCoreRec
<1> HIDE DEF k
<1>a. core'[c] = k /\ \A e \in Cores \ {c} : core'[e] = core[e]  BY <1>0 DEF StoreInv, StoreShape
<1>6. StoreNumbers'
  <2>1. \A t \in DOMAIN db.tasks : db.tasks[t] # Off =>
          db.tasks[t].data.no \in Nat /\ db.tasks[t].data.no <= db.counter
    <3>1. DOMAIN db.tasks = DOMAIN f.tasks /\ db \in Store!Contents(f)  BY <1>0, StoreWorking
    <3> QED  BY <3>1, StoreRowOf DEF StoreInv, StoreNumbers
  <2>2. \A e \in Cores : core[e].no # Off => core[e].no \in Nat /\ core[e].no <= db.counter
    BY StoreCoreOf DEF StoreInv, StoreNumbers
  <2>3. \A t \in DOMAIN db.tasks : db.tasks[t] # Off =>
          db.tasks[t].data.no <= x /\ db.tasks[t].data.no # x
    BY <1>2, <2>1
  <2>4. \A e \in Cores : core[e].no # Off => core[e].no <= x /\ core[e].no # x
    BY <1>2, <2>2
  <2> QED  BY <1>2, <1>4, <1>9, <1>a, <2>3, <2>4 DEF StoreInv, StoreNumbers
<1>7. StoreOrphaned'
  <2> SUFFICES ASSUME NEW e \in Cores, core'[e].orphans # Off PROVE StoreOrphansAre(core[e].orphans)'
    BY DEF StoreOrphaned
  <2>1. core'[e].orphans = core[e].orphans  BY <1>9, <1>a
  <2>2. StoreOrphansAre(core[e].orphans)  BY <2>1 DEF StoreInv, StoreOrphaned
  <2> QED  BY <1>0, <1>4, <2>1, <2>2 DEF StoreOrphansAre
<1>8. StoreAnswered'  BY <1>0, <1>4 DEF StoreInv, StoreAnswered
<1>10. told' \in [DOMAIN f.index -> SUBSET DOMAIN f.sessions]
       /\ fresh' \in [DOMAIN f.seen -> {Off} \cup 1..clock]
  BY <1>0, StoreWorking
<1> QED  BY <1>0, <1>4, <1>5, <1>6, <1>7, <1>8, <1>9, <1>10, StoreWritesIInv

\* seen_event: what was new at this very time still has its row.
LEMMA StoreSeenEventIInv ==
  ASSUME StoreAssumed, NEW f \in Files, StoreInv(f), NEW c \in Cores, NEW m \in Store!EventIds, Store!SeenEvent(c, m)
  PROVE  StoreInv(f)'
<1> DEFINE x == [db.seen EXCEPT ![m] = clock]
<1>0. /\ core[c].pc = "ready" /\ ~Store!Locked /\ db.seen[m] = Off
      /\ UNCHANGED <<core, clock, shared, faults, told, buried>>
      /\ fresh' = [fresh EXCEPT ![m] = clock]
      /\ twice' = (twice \/ (fresh[m] # Off /\ fresh[m] = clock))
  BY DEF Store!SeenEvent, Store!Writes, Store!Works, Store!Only
<1>1. db' = [db EXCEPT !.seen = x]  BY DEF Store!SeenEvent, Store!Only
<1>2. x \in [DOMAIN f.seen -> Nat \cup {Off}] /\ x[m] = clock
      /\ \A r \in DOMAIN f.seen \ {m} : x[r] = db.seen[r]
  BY <1>0, StoreWorking
<1> HIDE DEF x
<1>3. StorePuts(db, db', db.counter, db.sessions, db.tasks, x, db.index)  BY <1>1 DEF StorePuts
<1>4. /\ db' \in Store!Contents(f) /\ db'.version = db.version /\ db'.tables = db.tables
      /\ db'.counter = db.counter /\ db'.sessions = db.sessions /\ db'.tasks = db.tasks
      /\ db'.seen = x /\ db'.index = db.index
  <2>1. core[c].pc = "ready"  BY <1>0
  <2>2. /\ db \in Store!Contents(f) /\ db.counter \in Nat
        /\ db.sessions \in [DOMAIN f.sessions -> Chats \cup {Off}]
        /\ db.tasks \in [DOMAIN f.tasks -> Store!Rows(f) \cup {Off}]
        /\ db.seen \in [DOMAIN f.seen -> Nat \cup {Off}]
        /\ db.index \in [DOMAIN f.index -> (DOMAIN f.sessions) \cup {Off}]
    BY <2>1, StoreWorking
  <2> QED  BY <1>2, <1>3, <2>2, StoreContentsPut
<1>a. fresh' \in [DOMAIN f.seen -> {Off} \cup 1..clock] /\ fresh'[m] = clock
      /\ \A r \in DOMAIN f.seen \ {m} : fresh'[r] = fresh[r]
  BY <1>0, StoreWorking
<1>5. StoreDated(db)'
  <2>1. StoreDated(db) /\ DOMAIN db.seen = DOMAIN f.seen /\ DOMAIN x = DOMAIN f.seen
        /\ clock # Off /\ clock \in 1..clock
    BY <1>0, <1>2, StoreWorking DEF StoreInv
  <2>2. \A r \in DOMAIN x : fresh'[r] = clock => x[r] # Off
    BY <1>2, <1>a, <2>1 DEF StoreDated
  <2>3. db.version = 2 =>
          /\ \A r \in DOMAIN x : x[r] \in {Off} \cup 1..clock
          /\ \A r \in DOMAIN x : fresh'[r] = clock => x[r] = clock
    BY <1>2, <1>a, <2>1 DEF StoreDated
  <2> QED  BY <1>0, <1>4, <2>1, <2>2, <2>3 DEF StoreDated, Store!Agree
<1>6. StoreNumbers'  BY <1>0, <1>4 DEF StoreInv, StoreNumbers
<1>7. StoreOrphaned'
  <2> SUFFICES ASSUME NEW e \in Cores, core'[e].orphans # Off PROVE StoreOrphansAre(core[e].orphans)'
    BY DEF StoreOrphaned
  <2>1. StoreOrphansAre(core[e].orphans) /\ core' = core  BY <1>0 DEF StoreInv, StoreOrphaned
  <2> QED  BY <1>0, <1>4, <2>1 DEF StoreOrphansAre
<1>8. StoreAnswered'
  <2>1. fresh[m] # clock  BY <1>0, StoreWorking DEF StoreInv, StoreDated
  <2> QED  BY <1>0, <1>4, <2>1 DEF StoreInv, StoreAnswered
<1> DEFINE k == core[c]
<1>9. k \in StoreCoreRec(f) /\ core' = [core EXCEPT ![c] = k] /\ k.pc = "ready" /\ k.draft = Off
  BY <1>0, StoreWorking
<1>10. told' \in [DOMAIN f.index -> SUBSET DOMAIN f.sessions]
       /\ fresh' \in [DOMAIN f.seen -> {Off} \cup 1..clock]
  BY <1>0, <1>a, StoreWorking
<1> HIDE DEF k
<1> QED  BY <1>0, <1>4, <1>5, <1>6, <1>7, <1>8, <1>9, <1>10, StoreWritesIInv

\* prune_seen_events_before: what is new stays.
LEMMA StorePruneSeenIInv ==
  ASSUME StoreAssumed, NEW f \in Files, StoreInv(f), NEW c \in Cores,
         NEW cutoff \in 1..Horizon, Store!PruneSeen(c, cutoff)
  PROVE  StoreInv(f)'
<1> DEFINE x == [r \in Store!EventIds |-> IF db.seen[r] # Off /\ db.seen[r] < cutoff THEN Off
                                        ELSE db.seen[r]]
<1>0. /\ core[c].pc = "ready" /\ ~Store!Locked /\ cutoff <= clock
      /\ UNCHANGED <<core, clock, shared, faults, told, fresh, twice, buried>>
  BY DEF Store!PruneSeen, Store!Writes, Store!Works, Store!Only, Store!ghosts
<1>1. db' = [db EXCEPT !.seen = x]  BY DEF Store!PruneSeen, Store!Only
<1>2. x \in [DOMAIN f.seen -> Nat \cup {Off}]
      /\ \A r \in DOMAIN f.seen : x[r] = db.seen[r] \/ (x[r] = Off /\ db.seen[r] < cutoff)
  BY <1>0, StoreWorking
<1> HIDE DEF x
<1>3. StorePuts(db, db', db.counter, db.sessions, db.tasks, x, db.index)  BY <1>1 DEF StorePuts
<1>4. /\ db' \in Store!Contents(f) /\ db'.version = db.version /\ db'.tables = db.tables
      /\ db'.counter = db.counter /\ db'.sessions = db.sessions /\ db'.tasks = db.tasks
      /\ db'.seen = x /\ db'.index = db.index
  <2>1. core[c].pc = "ready"  BY <1>0
  <2>2. /\ db \in Store!Contents(f) /\ db.counter \in Nat
        /\ db.sessions \in [DOMAIN f.sessions -> Chats \cup {Off}]
        /\ db.tasks \in [DOMAIN f.tasks -> Store!Rows(f) \cup {Off}]
        /\ db.seen \in [DOMAIN f.seen -> Nat \cup {Off}]
        /\ db.index \in [DOMAIN f.index -> (DOMAIN f.sessions) \cup {Off}]
    BY <2>1, StoreWorking
  <2> QED  BY <1>2, <1>3, <2>2, StoreContentsPut
<1>5. StoreDated(db)'
  <2>1. /\ StoreDated(db) /\ DOMAIN db.seen = DOMAIN f.seen /\ DOMAIN x = DOMAIN f.seen
        /\ clock # Off /\ clock \in Nat /\ cutoff \in Nat
    BY <1>0, <1>2, StoreWorking DEF StoreInv, StoreAssumed
  <2>2. db.version = 2  BY <1>0, StoreWorking
  <2>3. \A r \in DOMAIN x : fresh[r] = clock => x[r] = clock
    <3> SUFFICES ASSUME NEW r \in DOMAIN x, fresh[r] = clock PROVE x[r] = clock  OBVIOUS
    <3>1. db.seen[r] = clock  BY <2>1, <2>2 DEF StoreDated
    <3>2. ~(db.seen[r] < cutoff)  BY <1>0, <2>1, <3>1
    <3> QED  BY <1>2, <2>1, <3>1, <3>2
  <2>4. \A r \in DOMAIN x : x[r] \in {Off} \cup 1..clock
    BY <1>2, <2>1, <2>2 DEF StoreDated
  <2> QED  BY <1>0, <1>4, <2>1, <2>3, <2>4 DEF StoreDated, Store!Agree
<1>6. StoreNumbers'  BY <1>0, <1>4 DEF StoreInv, StoreNumbers
<1>7. StoreOrphaned'
  <2> SUFFICES ASSUME NEW e \in Cores, core'[e].orphans # Off PROVE StoreOrphansAre(core[e].orphans)'
    BY DEF StoreOrphaned
  <2>1. StoreOrphansAre(core[e].orphans) /\ core' = core  BY <1>0 DEF StoreInv, StoreOrphaned
  <2> QED  BY <1>0, <1>4, <2>1 DEF StoreOrphansAre
<1>8. StoreAnswered'  BY <1>0, <1>4 DEF StoreInv, StoreAnswered
<1> DEFINE k == core[c]
<1>9. k \in StoreCoreRec(f) /\ core' = [core EXCEPT ![c] = k] /\ k.pc = "ready" /\ k.draft = Off
  BY <1>0, StoreWorking
<1>10. told' \in [DOMAIN f.index -> SUBSET DOMAIN f.sessions]
       /\ fresh' \in [DOMAIN f.seen -> {Off} \cup 1..clock]
  BY <1>0, StoreWorking
<1> HIDE DEF k
<1> QED  BY <1>0, <1>4, <1>5, <1>6, <1>7, <1>8, <1>9, <1>10, StoreWritesIInv

\* index_message: the first claim stays.
LEMMA StoreIndexMessageIInv ==
  ASSUME StoreAssumed, NEW f \in Files, StoreInv(f), NEW c \in Cores, NEW m \in Store!Messages,
         NEW s \in Store!Sessions, Store!IndexMessage(c, m, s)
  PROVE  StoreInv(f)'
<1> DEFINE x == [db.index EXCEPT ![m] = IF db.index[m] = Off THEN s ELSE db.index[m]]
<1>0. /\ core[c].pc = "ready" /\ ~Store!Locked
      /\ UNCHANGED <<core, clock, shared, faults, told, fresh, twice, buried>>
  BY DEF Store!IndexMessage, Store!Writes, Store!Works, Store!Only, Store!ghosts
<1>1. db' = [db EXCEPT !.index = x]  BY DEF Store!IndexMessage, Store!Only
<1>2. x \in [DOMAIN f.index -> (DOMAIN f.sessions) \cup {Off}]
      /\ \A r \in DOMAIN f.index : db.index[r] # Off => x[r] = db.index[r]
  BY <1>0, StoreWorking
<1> HIDE DEF x
<1>3. StorePuts(db, db', db.counter, db.sessions, db.tasks, db.seen, x)  BY <1>1 DEF StorePuts
<1>4. /\ db' \in Store!Contents(f) /\ db'.version = db.version /\ db'.tables = db.tables
      /\ db'.counter = db.counter /\ db'.sessions = db.sessions /\ db'.tasks = db.tasks
      /\ db'.seen = db.seen /\ db'.index = x
  <2>1. core[c].pc = "ready"  BY <1>0
  <2>2. /\ db \in Store!Contents(f) /\ db.counter \in Nat
        /\ db.sessions \in [DOMAIN f.sessions -> Chats \cup {Off}]
        /\ db.tasks \in [DOMAIN f.tasks -> Store!Rows(f) \cup {Off}]
        /\ db.seen \in [DOMAIN f.seen -> Nat \cup {Off}]
        /\ db.index \in [DOMAIN f.index -> (DOMAIN f.sessions) \cup {Off}]
    BY <2>1, StoreWorking
  <2> QED  BY <1>2, <1>3, <2>2, StoreContentsPut
<1>5. StoreDated(db)'
  <2>1. StoreDated(db)  BY DEF StoreInv
  <2> QED  BY <1>0, <1>4, <2>1 DEF StoreDated, Store!Agree
<1>6. StoreNumbers'  BY <1>0, <1>4 DEF StoreInv, StoreNumbers
<1>7. StoreOrphaned'
  <2> SUFFICES ASSUME NEW e \in Cores, core'[e].orphans # Off PROVE StoreOrphansAre(core[e].orphans)'
    BY DEF StoreOrphaned
  <2>1. StoreOrphansAre(core[e].orphans) /\ core' = core  BY <1>0 DEF StoreInv, StoreOrphaned
  <2> QED  BY <1>0, <1>4, <2>1 DEF StoreOrphansAre
<1>8. StoreAnswered'
  <2>1. DOMAIN told = DOMAIN f.index  BY <1>0, StoreWorking
  <2> QED  BY <1>0, <1>2, <1>4, <2>1 DEF StoreInv, StoreAnswered
<1> DEFINE k == core[c]
<1>9. k \in StoreCoreRec(f) /\ core' = [core EXCEPT ![c] = k] /\ k.pc = "ready" /\ k.draft = Off
  BY <1>0, StoreWorking
<1>10. told' \in [DOMAIN f.index -> SUBSET DOMAIN f.sessions]
       /\ fresh' \in [DOMAIN f.seen -> {Off} \cup 1..clock]
  BY <1>0, StoreWorking
<1> HIDE DEF k
<1> QED  BY <1>0, <1>4, <1>5, <1>6, <1>7, <1>8, <1>9, <1>10, StoreWritesIInv

\* A file in which the row of one task is x, with its columns.
LEMMA StoreTaskPut ==
  ASSUME StoreAssumed, NEW f \in Files, NEW d \in Store!Contents(f), NEW t \in DOMAIN f.tasks,
         NEW x \in Store!Data(f), NEW b, NEW w,
         w = [d.tasks EXCEPT ![t] = Store!Row(d, x)], b = [d EXCEPT !.tasks = w]
  PROVE  /\ b \in Store!Contents(f) /\ b.version = d.version /\ b.tables = d.tables
         /\ b.counter = d.counter /\ b.sessions = d.sessions /\ b.seen = d.seen
         /\ b.index = d.index /\ b.tasks = w
         /\ DOMAIN w = DOMAIN f.tasks /\ w[t] # Off /\ w[t].data = x
         /\ \A u \in DOMAIN f.tasks \ {t} : w[u] = d.tasks[u]
         /\ Store!Agree(d) => Store!Agree(b)
<1>1. /\ Store!Row(d, x) \in Store!Rows(f) /\ Store!Row(d, x).data = x
      /\ Store!Row(d, x).chat = d.sessions[x.session] /\ Store!Row(d, x).cost = x.cost
  BY StoreNewRow
<1>2. Store!Row(d, x) # Off  BY <1>1 DEF StoreAssumed, Store!FileIs
<1>3. /\ w \in [DOMAIN f.tasks -> Store!Rows(f) \cup {Off}] /\ w[t] = Store!Row(d, x)
      /\ \A u \in DOMAIN f.tasks \ {t} : w[u] = d.tasks[u]
      /\ DOMAIN d.tasks = DOMAIN f.tasks
  BY <1>1, StoreFieldsOf
<1>4. StorePuts(d, b, d.counter, d.sessions, w, d.seen, d.index)  BY DEF StorePuts
<1>5. /\ b \in Store!Contents(f) /\ b.version = d.version /\ b.tables = d.tables
      /\ b.counter = d.counter /\ b.sessions = d.sessions /\ b.seen = d.seen
      /\ b.index = d.index /\ b.tasks = w
  BY <1>3, <1>4, StoreFieldsOf, StoreContentsPut
<1>6. Store!Agree(d) => Store!Agree(b)
  <2> SUFFICES ASSUME Store!Agree(d), NEW u \in DOMAIN f.tasks, w[u] # Off
               PROVE  w[u].cost = w[u].data.cost /\ w[u].chat = d.sessions[w[u].data.session]
    BY <1>3, <1>5 DEF Store!Agree
  <2>1. CASE u = t  BY <1>1, <1>3, <2>1
  <2>2. CASE u # t  BY <1>3, <2>2 DEF Store!Agree
  <2> QED  BY <2>1, <2>2
<1> QED  BY <1>1, <1>2, <1>3, <1>5, <1>6

\* create_task: with the number that this core has taken.
LEMMA StoreCreateTaskIInv ==
  ASSUME StoreAssumed, NEW f \in Files, StoreInv(f), NEW c \in Cores, NEW t \in Store!TaskIds, NEW s \in Store!Sessions,
         Store!CreateTask(c, t, s)
  PROVE  StoreInv(f)'
<1> DEFINE n == core[c].no
           x == [session |-> s, no |-> n, status |-> "created", cost |-> 0]
           w == [db.tasks EXCEPT ![t] = Store!Row(db, x)]
           k == [core[c] EXCEPT !.no = Off]
<1>0. /\ core[c].pc = "ready" /\ ~Store!Locked /\ core' = [core EXCEPT ![c] = k]
      /\ UNCHANGED <<clock, shared, faults, told, fresh, twice, buried>>
      /\ n # Off /\ db.tasks[t] = Off
  BY DEF Store!CreateTask, Store!Writes, Store!Works, Store!ghosts
<1>b. core[c].pc = "ready"  BY <1>0
<1>1. db' = [db EXCEPT !.tasks = w]  BY DEF Store!CreateTask
<1>2. n \in Nat  BY <1>0, StoreCoreOf DEF StoreInv
<1>3. x \in Store!Data(f) /\ x.no = n
  <2>1. s \in DOMAIN f.sessions  BY <1>b, StoreWorking
  <2>2. "created" \in Store!Orphan \cup Store!Ended  BY DEF Store!Orphan, Store!Active
  <2> HIDE DEF n
  <2> QED  BY <1>2, <2>1, <2>2 DEF Store!Data
<1> HIDE DEF x, w
<1>4. t \in DOMAIN f.tasks /\ db \in Store!Contents(f) /\ w = [db.tasks EXCEPT ![t] = Store!Row(db, x)]
  BY <1>b, StoreWorking DEF w
<1>5. /\ db' \in Store!Contents(f) /\ db'.version = db.version /\ db'.tables = db.tables
      /\ db'.counter = db.counter /\ db'.sessions = db.sessions /\ db'.seen = db.seen
      /\ db'.index = db.index /\ db'.tasks = w
      /\ DOMAIN w = DOMAIN f.tasks /\ w[t] # Off /\ w[t].data = x
      /\ \A u \in DOMAIN f.tasks \ {t} : w[u] = db.tasks[u]
      /\ Store!Agree(db) => Store!Agree(db')
  BY <1>1, <1>3, <1>4, StoreTaskPut
<1>6. /\ k \in StoreCoreRec(f) /\ k.pc = "ready" /\ k.draft = Off /\ k.no = Off
      /\ k.orphans = core[c].orphans
  BY <1>b, StoreWorking DEF StoreCoreRec
<1> HIDE DEF k
<1>7. core'[c] = k /\ \A e \in Cores \ {c} : core'[e] = core[e]  BY <1>0 DEF StoreInv, StoreShape
<1>8. DOMAIN db.tasks = DOMAIN f.tasks  BY <1>4, StoreFieldsOf
<1>9. StoreDated(db)'
  <2>1. StoreDated(db)  BY DEF StoreInv
  <2> QED  BY <1>0, <1>5, <2>1 DEF StoreDated, Store!Agree
<1>10. StoreNumbers'
  <2>1. \A u \in DOMAIN f.tasks : w[u] # Off =>
          \/ u = t /\ w[u].data.no = n
          \/ u # t /\ db.tasks[u] # Off /\ w[u].data.no = db.tasks[u].data.no
    BY <1>3, <1>5
  <2>2. \A e \in Cores : core'[e].no # Off => e # c /\ core'[e].no = core[e].no
    BY <1>6, <1>7
  <2>3. /\ n <= db.counter /\ \A u \in DOMAIN f.tasks : db.tasks[u] # Off => db.tasks[u].data.no # n
        /\ \A e \in Cores : e # c /\ core[e].no # Off => core[e].no # n
        /\ \A u \in DOMAIN f.tasks : db.tasks[u] # Off => db.tasks[u].data.no <= db.counter
        /\ \A u, v \in DOMAIN f.tasks : u # v /\ db.tasks[u] # Off /\ db.tasks[v] # Off
             => db.tasks[u].data.no # db.tasks[v].data.no
        /\ \A e \in Cores : core[e].no # Off =>
             core[e].no <= db.counter
               /\ \A u \in DOMAIN f.tasks : db.tasks[u] # Off => db.tasks[u].data.no # core[e].no
        /\ \A e, g \in Cores : e # g /\ core[e].no # Off /\ core[g].no # Off
             => core[e].no # core[g].no
    BY <1>0, <1>8 DEF StoreInv, StoreNumbers
  <2> HIDE DEF n
  <2>4. \A u, v \in DOMAIN f.tasks : u # v /\ w[u] # Off /\ w[v] # Off
          => w[u].data.no # w[v].data.no
    BY <2>1, <2>3
  <2>5. \A e \in Cores : core'[e].no # Off =>
          /\ core'[e].no <= db.counter
          /\ \A u \in DOMAIN f.tasks : w[u] # Off => w[u].data.no # core'[e].no
    BY <2>1, <2>2, <2>3
  <2>6. \A u \in DOMAIN f.tasks : w[u] # Off => w[u].data.no <= db.counter
    BY <2>1, <2>3
  <2>7. \A e, g \in Cores : e # g /\ core'[e].no # Off /\ core'[g].no # Off
          => core'[e].no # core'[g].no
    BY <2>2, <2>3
  <2> QED  BY <1>5, <2>4, <2>5, <2>6, <2>7 DEF StoreNumbers
<1>11. StoreOrphaned'
  <2> SUFFICES ASSUME NEW e \in Cores, core'[e].orphans # Off PROVE StoreOrphansAre(core[e].orphans)'
    BY DEF StoreOrphaned
  <2>1. core'[e].orphans = core[e].orphans  BY <1>6, <1>7
  <2>2. StoreOrphansAre(core[e].orphans)  BY <2>1 DEF StoreInv, StoreOrphaned
  <2>3. \A u \in DOMAIN core[e].orphans : u # t /\ u \in DOMAIN f.tasks
    BY <1>0, <1>8, <2>2 DEF StoreOrphansAre
  <2> QED  BY <1>0, <1>5, <2>1, <2>2, <2>3 DEF StoreOrphansAre
<1>12. StoreAnswered'  BY <1>0, <1>5 DEF StoreInv, StoreAnswered
<1>13. told' \in [DOMAIN f.index -> SUBSET DOMAIN f.sessions]
       /\ fresh' \in [DOMAIN f.seen -> {Off} \cup 1..clock]
  BY <1>0, <1>b, StoreWorking
<1> QED  BY <1>0, <1>5, <1>6, <1>9, <1>10, <1>11, <1>12, <1>13, StoreWritesIInv

\* update_task: it keeps its number and its session.
LEMMA StoreUpdateTaskIInv ==
  ASSUME StoreAssumed, NEW f \in Files, StoreInv(f), NEW c \in Cores, NEW t \in Store!TaskIds,
         NEW ended \in Store!Statuses, Store!UpdateTask(c, t, ended, 1)
  PROVE  StoreInv(f)'
<1> DEFINE y == db.tasks[t].data
           x == [y EXCEPT !.status = ended, !.cost = 1]
           w == [db.tasks EXCEPT ![t] = Store!Row(db, x)]
<1>0. /\ core[c].pc = "ready" /\ ~Store!Locked /\ core[c].orphans = Off /\ db.tasks[t] # Off
      /\ UNCHANGED <<core, clock, shared, faults, told, fresh, twice, buried>>
  BY DEF Store!UpdateTask, Store!Writes, Store!Works, Store!Only, Store!ghosts
<1>b. core[c].pc = "ready"  BY <1>0
<1>1. db' = [db EXCEPT !.tasks = w]  BY DEF Store!UpdateTask, Store!Only
<1>2. t \in DOMAIN f.tasks /\ db \in Store!Contents(f)  BY <1>b, StoreWorking
<1>3. x \in Store!Data(f) /\ x.no = y.no /\ x.session = y.session
  <2>1. y \in Store!Data(f)  BY <1>0, <1>2, StoreRowOf
  <2>2. ended \in Store!Orphan \cup Store!Ended
    BY DEF Store!Orphan, Store!Active, Store!Ended, Store!Statuses
  <2> HIDE DEF y
  <2> QED  BY <2>1, <2>2 DEF Store!Data
<1> HIDE DEF x, w
<1>4. w = [db.tasks EXCEPT ![t] = Store!Row(db, x)]  BY DEF w
<1>5. /\ db' \in Store!Contents(f) /\ db'.version = db.version /\ db'.tables = db.tables
      /\ db'.counter = db.counter /\ db'.sessions = db.sessions /\ db'.seen = db.seen
      /\ db'.index = db.index /\ db'.tasks = w
      /\ DOMAIN w = DOMAIN f.tasks /\ w[t] # Off /\ w[t].data = x
      /\ \A u \in DOMAIN f.tasks \ {t} : w[u] = db.tasks[u]
      /\ Store!Agree(db) => Store!Agree(db')
  BY <1>1, <1>2, <1>3, <1>4, StoreTaskPut
<1>8. DOMAIN db.tasks = DOMAIN f.tasks  BY <1>2, StoreFieldsOf
<1>9. StoreDated(db)'
  <2>1. StoreDated(db)  BY DEF StoreInv
  <2> QED  BY <1>0, <1>5, <2>1 DEF StoreDated, Store!Agree
<1>a. \A u \in DOMAIN f.tasks :
        /\ w[u] # Off <=> db.tasks[u] # Off
        /\ w[u] # Off => w[u].data.no = db.tasks[u].data.no
                           /\ w[u].data.session = db.tasks[u].data.session
  BY <1>0, <1>3, <1>5
<1>10. StoreNumbers'  BY <1>0, <1>5, <1>8, <1>a DEF StoreInv, StoreNumbers
<1>11. StoreOrphaned'
  <2> SUFFICES ASSUME NEW e \in Cores, core[e].orphans # Off, core' = core
               PROVE  StoreOrphansAre(core[e].orphans)'
    BY <1>0 DEF StoreOrphaned
  <2>1. StoreOrphansAre(core[e].orphans)  BY DEF StoreInv, StoreOrphaned
  <2>2. shared  BY <1>0, StoreAlone
  <2>3. \A u \in DOMAIN core[e].orphans : u \in DOMAIN f.tasks
    BY <1>8, <2>1 DEF StoreOrphansAre
  <2> QED  BY <1>0, <1>5, <1>a, <2>1, <2>2, <2>3 DEF StoreOrphansAre
<1>12. StoreAnswered'  BY <1>0, <1>5 DEF StoreInv, StoreAnswered
<1> DEFINE k == core[c]
<1>13. k \in StoreCoreRec(f) /\ core' = [core EXCEPT ![c] = k] /\ k.pc = "ready" /\ k.draft = Off
       /\ told' \in [DOMAIN f.index -> SUBSET DOMAIN f.sessions]
       /\ fresh' \in [DOMAIN f.seen -> {Off} \cup 1..clock]
  BY <1>0, <1>b, StoreWorking
<1> HIDE DEF k
<1> QED  BY <1>0, <1>5, <1>9, <1>10, <1>11, <1>12, <1>13, StoreWritesIInv

\* recover_orphan_tasks writes what it read.
LEMMA StoreFailOrphansIInv ==
  ASSUME StoreAssumed, NEW f \in Files, StoreInv(f), NEW c \in Cores, Store!FailOrphans(c)
  PROVE  StoreInv(f)'
<1> DEFINE rows == core[c].orphans
           z(t) == [rows[t] EXCEPT !.status = "failed"]
           w == [t \in Store!TaskIds |-> IF t \in DOMAIN rows THEN [db.tasks[t] EXCEPT !.data = z(t)]
                                       ELSE db.tasks[t]]
           k == [core[c] EXCEPT !.orphans = Off]
<1>0. /\ rows # Off /\ ~Store!Locked /\ core' = [core EXCEPT ![c] = k]
      /\ UNCHANGED <<clock, shared, faults, told, fresh, twice>>
      /\ (buried' => buried \/ \E t \in DOMAIN rows : db.tasks[t].data.status \in Store!Ended)
  BY DEF Store!FailOrphans
<1>1. db' = [db EXCEPT !.tasks = w]  BY DEF Store!FailOrphans
<1>b. core[c].pc = "ready" /\ StoreOrphansAre(rows)
  BY <1>0 DEF StoreInv, StoreHeld, StoreHolds, StoreOrphaned
<1>2. db \in Store!Contents(f) /\ Store!TaskIds = DOMAIN f.tasks /\ DOMAIN db.tasks = DOMAIN f.tasks
  <2>1. db \in Store!Contents(f) /\ Store!TaskIds = DOMAIN f.tasks  BY <1>b, StoreWorking
  <2> QED  BY <2>1 DEF Store!TaskIds
<1>3. ASSUME NEW t \in DOMAIN rows
      PROVE  /\ t \in DOMAIN f.tasks /\ db.tasks[t] # Off
             /\ w[t] \in Store!Rows(f) /\ w[t] # Off /\ w[t].data = z(t)
             /\ w[t].chat = db.tasks[t].chat /\ w[t].cost = db.tasks[t].cost
             /\ w[t].data.no = db.tasks[t].data.no
             /\ w[t].data.session = db.tasks[t].data.session
             /\ ~shared => w[t].data.cost = db.tasks[t].data.cost
  <2>1. /\ t \in DOMAIN f.tasks /\ db.tasks[t] # Off
        /\ rows[t].no = db.tasks[t].data.no /\ rows[t].session = db.tasks[t].data.session
        /\ ~shared => rows[t] = db.tasks[t].data
    BY <1>2, <1>b DEF StoreOrphansAre
  <2>2. rows[t] \in Store!Data(f)
    <3>1. rows \in StoreRead(f)  BY <1>0, StoreCoreOf DEF StoreInv
    <3> QED  BY <3>1 DEF StoreRead
  <2>3. /\ z(t) \in Store!Data(f) /\ z(t).no = rows[t].no /\ z(t).session = rows[t].session
        /\ z(t).cost = rows[t].cost
    <3>1. "failed" \in Store!Orphan \cup Store!Ended  BY DEF Store!Ended
    <3> HIDE DEF rows
    <3> QED  BY <2>2, <3>1 DEF Store!Data
  <2>4. db.tasks[t] \in Store!Rows(f)  BY <1>2, <2>1, StoreRowOf
  <2>5. w[t] = [db.tasks[t] EXCEPT !.data = z(t)]  BY <1>2, <2>1
  <2> HIDE DEF w, z
  <2>6. w[t] \in Store!Rows(f) /\ w[t].data = z(t)
        /\ w[t].chat = db.tasks[t].chat /\ w[t].cost = db.tasks[t].cost
    BY <2>3, <2>4, <2>5 DEF Store!Rows
  <2>7. w[t] # Off  BY <2>6 DEF StoreAssumed, Store!FileIs
  <2> HIDE DEF rows
  <2> QED  BY <2>1, <2>3, <2>6, <2>7
<1>4. \A t \in DOMAIN f.tasks \ DOMAIN rows : w[t] = db.tasks[t]  BY <1>2
<1>5. w \in [DOMAIN f.tasks -> Store!Rows(f) \cup {Off}]
  <2>1. w = [t \in DOMAIN f.tasks |-> w[t]]  BY <1>2
  <2>2. \A t \in DOMAIN f.tasks : w[t] \in Store!Rows(f) \cup {Off}
    <3> SUFFICES ASSUME NEW t \in DOMAIN f.tasks PROVE w[t] \in Store!Rows(f) \cup {Off}
      OBVIOUS
    <3>1. db.tasks[t] \in Store!Rows(f) \cup {Off}  BY <1>2, StoreFieldsOf
    <3> HIDE DEF w
    <3>2. CASE t \in DOMAIN rows  BY <1>3, <3>2
    <3>3. CASE t \notin DOMAIN rows  BY <1>4, <3>1, <3>3
    <3> QED  BY <3>2, <3>3
  <2> HIDE DEF w
  <2> QED  BY <2>1, <2>2
<1> HIDE DEF w
<1>6. /\ db' \in Store!Contents(f) /\ db'.version = db.version /\ db'.tables = db.tables
      /\ db'.counter = db.counter /\ db'.sessions = db.sessions /\ db'.seen = db.seen
      /\ db'.index = db.index /\ db'.tasks = w
  <2>1. StorePuts(db, db', db.counter, db.sessions, w, db.seen, db.index)  BY <1>1 DEF StorePuts
  <2> QED  BY <1>2, <1>5, <2>1, StoreFieldsOf, StoreContentsPut
<1>7. /\ k \in StoreCoreRec(f) /\ k.pc = "ready" /\ k.draft = Off /\ k.no = core[c].no
      /\ k.orphans = Off
  BY <1>b, StoreWorking DEF StoreCoreRec
<1> HIDE DEF k
<1>8. core'[c] = k /\ \A e \in Cores \ {c} : core'[e] = core[e]  BY <1>0 DEF StoreInv, StoreShape
<1>a. \A u \in DOMAIN f.tasks :
        /\ w[u] # Off <=> db.tasks[u] # Off
        /\ w[u] # Off => w[u].data.no = db.tasks[u].data.no
                           /\ w[u].data.session = db.tasks[u].data.session
  BY <1>3, <1>4
<1>9. StoreDated(db)'
  <2>1. StoreDated(db)  BY DEF StoreInv
  <2>2. ~shared /\ Store!Agree(db) => Store!Agree(db')
    <3> SUFFICES ASSUME ~shared, Store!Agree(db), NEW u \in DOMAIN f.tasks, w[u] # Off
                 PROVE  w[u].cost = w[u].data.cost
                          /\ w[u].chat = db.sessions[w[u].data.session]
      BY <1>5, <1>6 DEF Store!Agree
    <3>1. db.tasks[u] # Off  BY <1>a
    <3>2. /\ db.tasks[u].cost = db.tasks[u].data.cost
          /\ db.tasks[u].chat = db.sessions[db.tasks[u].data.session]
      BY <1>2, <3>1 DEF Store!Agree
    <3>3. CASE u \in DOMAIN rows  BY <1>3, <3>2, <3>3
    <3>4. CASE u \notin DOMAIN rows  BY <1>4, <3>2, <3>4
    <3> QED  BY <3>3, <3>4
  <2>3. (~shared /\ db.version = 2) => Store!Agree(db')  BY <2>1, <2>2 DEF StoreDated
  <2> QED  BY <1>0, <1>6, <2>1, <2>3 DEF StoreDated, Store!Agree
<1>10. StoreNumbers'
  <2>1. DOMAIN w = DOMAIN f.tasks  BY <1>5
  <2>2. \A e \in Cores : core'[e].no = core[e].no  BY <1>7, <1>8
  <2> QED  BY <1>2, <1>6, <1>a, <2>1, <2>2 DEF StoreInv, StoreNumbers
<1>11. StoreOrphaned'
  <2> SUFFICES ASSUME NEW e \in Cores, core'[e].orphans # Off PROVE StoreOrphansAre(core[e].orphans)'
    BY DEF StoreOrphaned
  <2>1. e # c /\ core'[e] = core[e] /\ StoreOrphansAre(core[e].orphans)
    BY <1>7, <1>8 DEF StoreInv, StoreOrphaned
  <2>2. shared  BY <1>b, <2>1, StoreAlone
  <2>3. \A u \in DOMAIN core[e].orphans : u \in DOMAIN f.tasks
    BY <1>2, <2>1 DEF StoreOrphansAre
  <2>4. DOMAIN w = DOMAIN f.tasks  BY <1>5
  <2> QED  BY <1>0, <1>6, <1>a, <2>1, <2>2, <2>3, <2>4 DEF StoreOrphansAre
<1>12. StoreAnswered'
  <2>1. ~shared' => ~buried'
    <3> SUFFICES ASSUME ~shared, NEW t \in DOMAIN rows, db.tasks[t].data.status \in Store!Ended
                 PROVE  FALSE
      BY <1>0 DEF StoreInv, StoreAnswered
    <3>1. db.tasks[t].data.status \in Store!Orphan  BY <1>b DEF StoreOrphansAre
    <3> QED  BY <3>1 DEF Store!Orphan, Store!Active, Store!Ended
  <2> QED  BY <1>0, <1>6, <2>1 DEF StoreInv, StoreAnswered
<1>13. told' \in [DOMAIN f.index -> SUBSET DOMAIN f.sessions]
       /\ fresh' \in [DOMAIN f.seen -> {Off} \cup 1..clock]
  BY <1>0, <1>b, StoreWorking
<1> QED  BY <1>0, <1>b, <1>6, <1>7, <1>9, <1>10, <1>11, <1>12, <1>13, StoreWritesIInv

\* find_session_by_message: the claim on a message stays the one there is.
LEMMA StoreFindByMessageIInv ==
  ASSUME StoreAssumed, NEW f \in Files, StoreInv(f), NEW c \in Cores, NEW m \in Store!Messages,
         Store!FindByMessage(c, m)
  PROVE  StoreInv(f)'
<1>0. /\ core[c].pc = "ready" /\ db.index[m] # Off
      /\ UNCHANGED <<db, core, clock, fresh, twice, shared, buried, faults>>
      /\ told' = [told EXCEPT ![m] = told[m] \cup {db.index[m]}]
  BY DEF Store!FindByMessage, Store!Works
<1>1. /\ m \in DOMAIN f.index /\ told \in [DOMAIN f.index -> SUBSET DOMAIN f.sessions]
      /\ db.index[m] \in DOMAIN f.sessions
  <2>1. core[c].pc = "ready"  BY <1>0
  <2>2. Store!Messages = DOMAIN f.index
        /\ db.index \in [DOMAIN f.index -> (DOMAIN f.sessions) \cup {Off}]
        /\ told \in [DOMAIN f.index -> SUBSET DOMAIN f.sessions]
    BY <2>1, StoreWorking
  <2> QED  BY <1>0, <2>2
<1>2. told' \in [DOMAIN f.index -> SUBSET DOMAIN f.sessions]
      /\ \A n \in DOMAIN f.index : told'[n] = IF n = m THEN told[m] \cup {db.index[m]} ELSE told[n]
  BY <1>0, <1>1
<1>3. StoreShape(f)'  BY <1>0, <1>2 DEF StoreInv, StoreShape
<1>4. StoreAnswered'
  <2>1. \A n \in DOMAIN f.index : told[n] = {} \/ (db.index[n] # Off /\ told[n] = {db.index[n]})
    BY <1>1 DEF StoreInv, StoreAnswered
  <2>2. \A n \in DOMAIN f.index :
          told'[n] = {} \/ (db.index[n] # Off /\ told'[n] = {db.index[n]})
    BY <1>0, <1>1, <1>2, <2>1
  <2> QED  BY <1>0, <1>2, <2>2 DEF StoreInv, StoreAnswered
<1>5. StoreHeld' /\ StoreVersions(f)'
  BY <1>0 DEF StoreInv, StoreHeld, StoreHolds, StoreVersions, StoreOld
<1>6. \A d : StoreDated(d)' = StoreDated(d)  BY <1>0 DEF StoreDated
<1>7. StoreDated(db)'  BY <1>0 DEF StoreInv, StoreDated
<1>8. StoreDrafts'  BY <1>0 DEF StoreInv, StoreDrafts, StoreDated, StoreSameRows, StoreOld
<1>9. StoreNumbers' /\ StoreOrphaned'
  BY <1>0 DEF StoreInv, StoreNumbers, StoreOrphaned, StoreOrphansAre
<1> QED  BY <1>3, <1>4, <1>5, <1>7, <1>8, <1>9 DEF StoreInv

LEMMA StoreTickIInv == ASSUME StoreAssumed, NEW f \in Files, StoreInv(f), Store!Tick PROVE StoreInv(f)'
<1>0. clock' = clock + 1 /\ clock < Horizon
      /\ UNCHANGED <<db, core, told, fresh, twice, shared, buried, faults>>
  BY DEF Store!Tick, Store!ghosts
<1>1. clock \in Nat /\ clock >= 1 /\ Horizon \in Nat /\ clock' \in 1..Horizon /\ clock' # Off
      /\ \A x \in {Off} \cup 1..clock : x \in {Off} \cup 1..clock' /\ x # clock'
  BY <1>0 DEF StoreInv, StoreShape, StoreAssumed
<1>2. fresh \in [DOMAIN f.seen -> {Off} \cup 1..clock]  BY DEF StoreInv, StoreShape
<1>3. StoreShape(f)'
  <2>1. fresh' \in [DOMAIN f.seen -> {Off} \cup 1..clock']  BY <1>0, <1>1, <1>2
  <2> QED  BY <1>0, <1>1, <2>1 DEF StoreInv, StoreShape
<1>4. StoreHeld' /\ StoreVersions(f)'
  BY <1>0 DEF StoreInv, StoreHeld, StoreHolds, StoreVersions, StoreOld
<1>5. ASSUME NEW d \in Store!Contents(f), StoreDated(d)
      PROVE  /\ \A e \in DOMAIN d.seen : fresh[e] # clock'
             /\ d.version = 2 =>
                  \A e \in DOMAIN d.seen : d.seen[e] \in {Off} \cup 1..clock'
             /\ d.version = 2 /\ ~shared => Store!Agree(d)
  <2>1. DOMAIN d.seen = DOMAIN f.seen  BY StoreFieldsOf
  <2> QED  BY <1>1, <1>2, <1>5, <2>1 DEF StoreDated
<1>6. StoreDated(db)'
  <2>1. db \in Store!Contents(f) /\ StoreDated(db)  BY DEF StoreInv, StoreShape
  <2> QED  BY <1>0, <1>5, <2>1 DEF StoreDated, Store!Agree
<1>7. StoreDrafts'
  <2> SUFFICES ASSUME NEW e \in Cores, core[e].pc = "migrating", core' = core
               PROVE  (StoreOld(core[e].draft) /\ StoreSameRows(core[e].draft, db) /\ StoreDated(core[e].draft))'
    BY <1>0 DEF StoreDrafts
  <2>1. core[e].draft \in Store!Contents(f)  BY StoreCoreOf DEF StoreInv, StoreHeld, StoreHolds
  <2>2. StoreOld(core[e].draft) /\ StoreSameRows(core[e].draft, db) /\ StoreDated(core[e].draft)
    BY DEF StoreInv, StoreDrafts
  <2>3. StoreDated(core[e].draft)'  BY <1>0, <1>5, <2>1, <2>2 DEF StoreDated, Store!Agree
  <2> QED  BY <1>0, <2>2, <2>3 DEF StoreOld, StoreSameRows
<1>8. StoreNumbers' /\ StoreOrphaned' /\ StoreAnswered'
  BY <1>0 DEF StoreInv, StoreNumbers, StoreOrphaned, StoreOrphansAre, StoreAnswered
<1> QED  BY <1>3, <1>4, <1>6, <1>7, <1>8 DEF StoreInv

LEMMA StoreStepIInv == ASSUME StoreAssumed, StoreIInv, [Store!Next]_(Store!vars) PROVE StoreIInv'
<1>1. PICK f \in Files : StoreInv(f)  BY DEF StoreIInv
<1> SUFFICES StoreInv(f)'  BY DEF StoreIInv
<1>2. CASE UNCHANGED Store!vars
  <2>1. UNCHANGED <<db, core, clock, told, fresh, twice, shared, buried, faults>>
    BY <1>2 DEF Store!vars
  <2>2. StoreShape(f)' /\ StoreHeld' /\ StoreVersions(f)'
    BY <1>1, <2>1 DEF StoreInv, StoreShape, StoreHeld, StoreHolds, StoreVersions, StoreOld
  <2>3. StoreDated(db)'  BY <1>1, <2>1 DEF StoreInv, StoreDated
  <2>4. StoreDrafts'  BY <1>1, <2>1 DEF StoreInv, StoreDrafts, StoreDated, StoreSameRows, StoreOld
  <2>5. StoreNumbers' /\ StoreOrphaned' /\ StoreAnswered'
    BY <1>1, <2>1 DEF StoreInv, StoreNumbers, StoreOrphaned, StoreOrphansAre, StoreAnswered
  <2> QED  BY <2>2, <2>3, <2>4, <2>5 DEF StoreInv
<1>3. CASE Store!Tick  BY <1>1, <1>3, StoreTickIInv
<1>4. ASSUME NEW c \in Cores,
             \/ Store!Open(c) \/ Store!Look(c) \/ Store!Begin(c) \/ Store!Busy(c) \/ Store!Migrate(c) \/ Store!MigrationFails(c)
             \/ Store!Commit(c) \/ Store!Close(c)
      PROVE  StoreInv(f)'
  BY <1>1, <1>4, StoreOpenIInv, StoreBeginIInv, StoreMigrateIInv, StoreCommitIInv
<1>5. ASSUME NEW c \in Cores, Store!NextTaskNo(c) \/ Store!ReadOrphans(c) \/ Store!FailOrphans(c)
      PROVE  StoreInv(f)'
  BY <1>1, <1>5, StoreNextTaskNoIInv, StoreReadOrphansIInv, StoreFailOrphansIInv
<1>6. ASSUME NEW c \in Cores,
             \/ \E s \in Store!Sessions, chat \in Chats : Store!CreateSession(c, s, chat)
             \/ \E t \in Store!TaskIds, s \in Store!Sessions : Store!CreateTask(c, t, s)
             \/ \E t \in Store!TaskIds, ended \in Store!Statuses : Store!UpdateTask(c, t, ended, 1)
      PROVE  StoreInv(f)'
  BY <1>1, <1>6, StoreCreateSessionIInv, StoreCreateTaskIInv, StoreUpdateTaskIInv
<1>7. ASSUME NEW c \in Cores,
             \/ \E e \in Store!EventIds : Store!SeenEvent(c, e)
             \/ \E cutoff \in 1..Horizon : Store!PruneSeen(c, cutoff)
             \/ \E m \in Store!Messages, s \in Store!Sessions : Store!IndexMessage(c, m, s)
             \/ \E m \in Store!Messages : Store!FindByMessage(c, m)
      PROVE  StoreInv(f)'
  BY <1>1, <1>7, StoreSeenEventIInv, StorePruneSeenIInv, StoreIndexMessageIInv,
     StoreFindByMessageIInv
<1> QED  BY <1>2, <1>3, <1>4, <1>5, <1>6, <1>7 DEF Store!Next
-----------------------------------------------------------------------------
LEMMA StoreIInvTypes == ASSUME StoreAssumed PROVE StoreIInv => Store!TypeOK
<1> SUFFICES ASSUME NEW f \in Files, StoreInv(f) PROVE Store!TypeOK  BY DEF StoreIInv
<1>1. db.version \in 0..Latest + 1 /\ db.tables \in 0..Latest + 1
  BY StoreFieldsOf DEF StoreInv, StoreShape
<1>2. \A c \in Cores : /\ core[c].pc \in StorePCs /\ (core[c].draft # Off) = (core[c].pc = "migrating")
                       /\ core[c].orphans # Off => core[c].pc = "ready"
  BY StoreCoreOf DEF StoreInv, StoreHeld, StoreHolds
<1> QED  BY <1>1, <1>2 DEF StoreInv, StoreShape, Store!TypeOK, StorePCs

LEMMA StoreIInvVersion == ASSUME StoreAssumed PROVE StoreIInv => Store!VersionIsTrue /\ Store!BothTakeOff
<1> SUFFICES ASSUME NEW f \in Files, StoreInv(f) PROVE Store!VersionIsTrue /\ Store!BothTakeOff
  BY DEF StoreIInv
<1>1. Store!BothTakeOff  BY DEF StoreInv, StoreHeld, Store!BothTakeOff
<1>2. StoreOld(db) \/ (db = f /\ f.version = 3 /\ f.tables = 3)  BY DEF StoreInv, StoreVersions
<1>3. \A c \in Cores : core[c].pc = "ready" => db.version = 2  BY DEF StoreInv, StoreVersions
<1> QED  BY <1>1, <1>2, <1>3 DEF Store!VersionIsTrue, StoreOld, StoreAssumed

LEMMA StoreIInvColumns == ASSUME StoreAssumed PROVE StoreIInv => Store!ColumnsAgree /\ Store!NumbersDiffer
<1> SUFFICES ASSUME NEW f \in Files, StoreInv(f) PROVE Store!ColumnsAgree /\ Store!NumbersDiffer
  BY DEF StoreIInv
<1>1. Store!NumbersDiffer  BY DEF StoreInv, StoreNumbers, Store!NumbersDiffer, Store!TaskIds
<1>2. ASSUME db.version = 2, ~shared
      PROVE  /\ \A t \in Store!TaskIds : db.tasks[t] # Off =>
                  /\ db.tasks[t].cost = db.tasks[t].data.cost
                  /\ db.tasks[t].chat = db.sessions[db.tasks[t].data.session]
             /\ \A e \in Store!EventIds : db.seen[e] \in {Off} \cup 1..clock
  BY <1>2 DEF StoreInv, StoreDated, Store!Agree, Store!TaskIds, Store!EventIds
<1>3. ASSUME db.version = 2, ~shared, NEW chat \in Chats
      PROVE  Store!ListActive(chat) = {t \in Store!TaskIds : db.tasks[t] # Off /\ db.tasks[t].chat = chat
                                                             /\ db.tasks[t].data.status \in Store!Active}
  BY <1>2, <1>3 DEF Store!ListActive
<1> QED  BY <1>1, <1>2, <1>3 DEF Store!ColumnsAgree, StoreAssumed

LEMMA StoreIInvAnswers == ASSUME StoreAssumed PROVE StoreIInv => Store!AnswersStand
<1> SUFFICES ASSUME NEW f \in Files, StoreInv(f) PROVE Store!AnswersStand  BY DEF StoreIInv
<1>1. ASSUME NEW m \in Store!Messages, NEW r \in told[m], NEW s \in told[m] PROVE r = s
  <2>1. Store!Messages = DOMAIN told  BY StoreFieldsOf DEF StoreInv, StoreShape, Store!Messages
  <2> QED  BY <2>1 DEF StoreInv, StoreAnswered
<1> QED  BY <1>1 DEF StoreInv, StoreAnswered, Store!AnswersStand
-----------------------------------------------------------------------------
\* The whole.
Parts ==
  /\ In("routing") => Routing!IInv
  /\ In("run") => AppIInv
  /\ In("lease") => Lease!JInv
  /\ In("egress") => EgressIInv
  /\ In("preflight") => FlightIInv
  /\ In("database") => StoreIInv

LEMMA Assumes == AppAssumed /\ EgressAssumed /\ FlightAssumed /\ StoreAssumed
  BY CoreAssumption DEF AppAssumed, EgressAssumed, FlightAssumed, StoreAssumed

LEMMA InitParts == Init => Parts
<1> SUFFICES ASSUME Init PROVE Parts  OBVIOUS
<1>1. CASE In("routing") /\ Routing!Init
  BY <1>1, CoreAssumption, Routing!InitIInv DEF Parts, In
<1>2. CASE In("run") /\ App!Init
  BY <1>2, Assumes, AppInitIInv DEF Parts, In
<1>3. CASE In("lease") /\ Lease!Init
  BY <1>3, CoreAssumption, Lease!InitJInv DEF Parts, In
<1>4. CASE In("egress") /\ Egress!Init
  BY <1>4, Assumes, EgressInitIInv DEF Parts, In, EgressAssumed
<1>5. CASE In("preflight") /\ Flight!Init
  BY <1>5, Assumes, FlightInitIInv DEF Parts, In
<1>6. CASE In("database") /\ Store!Init
  BY <1>6, Assumes, StoreInitIInv DEF Parts, In
<1> QED  BY <1>1, <1>2, <1>3, <1>4, <1>5, <1>6 DEF Init

\* A step is one of the component that runs, or leaves it alone.
LEMMA StepIs ==
  ASSUME [Next]_all
  PROVE  /\ UNCHANGED scenario
         /\ In("routing") => [Routing!Next]_(Routing!vars)
         /\ In("run") => [App!Next]_(App!vars)
         /\ In("lease") => [Lease!Next]_(Lease!vars)
         /\ In("egress") => [Egress!Next]_(Egress!vars)
         /\ In("preflight") => [Flight!Next]_(Flight!vars)
         /\ In("database") => [Store!Next]_(Store!vars)
<1>1. CASE UNCHANGED all
  BY <1>1 DEF all, Routing!vars, Routing!edge, App!vars, Lease!vars, Lease!core, Lease!sandboxes,
              Egress!vars, Egress!table, Egress!server, Flight!vars, Store!vars
<1>2. CASE Next
  BY <1>2 DEF Next, In
<1> QED  BY <1>1, <1>2

LEMMA StepParts == ASSUME Parts, [Next]_all PROVE Parts'
<1>0. UNCHANGED scenario  BY StepIs
<1>1. CASE In("routing")
  BY <1>0, <1>1, StepIs, CoreAssumption, Routing!StepIInv DEF Parts, In
<1>2. CASE In("run")
  BY <1>0, <1>2, StepIs, Assumes, AppStepIInv DEF Parts, In
<1>3. CASE In("lease")
  BY <1>0, <1>3, StepIs, CoreAssumption, Lease!StepJInv DEF Parts, In
<1>4. CASE In("egress")
  BY <1>0, <1>4, StepIs, Assumes, EgressStepIInv DEF Parts, In, EgressAssumed
<1>5. CASE In("preflight")
  BY <1>0, <1>5, StepIs, Assumes, FlightStepIInv DEF Parts, In
<1>6. CASE In("database")
  BY <1>0, <1>6, StepIs, Assumes, StoreStepIInv DEF Parts, In
<1> QED  BY <1>0, <1>1, <1>2, <1>3, <1>4, <1>5, <1>6 DEF Parts, In

LEMMA PartsAlways == Spec => []Parts
<1>1. Init => Parts  BY InitParts
<1>2. Parts /\ [Next]_all => Parts'  BY StepParts
<1> QED  BY <1>1, <1>2, PTL DEF Spec
-----------------------------------------------------------------------------
\* The component that runs keeps the types of its state.
THEOREM TypeCorrect == Spec => []TypeOK
<1>1. Parts => TypeOK
  BY CoreAssumption, Assumes, AppIInvTypes, Lease!JInvTypes, EgressIInvTypes, FlightIInvTypes,
     StoreIInvTypes DEF Parts, TypeOK, Routing!IInv
<1> QED  BY <1>1, PartsAlways, PTL

\* For any events, threads and kinds of them, however often each is offered, cut
\* off and retried, its text is written once, before its task may start, where a
\* !restart has put its thread (routing, sessions.rs, restart.rs).  For any files and
\* any number of cores on one, with crashes and failing migrations anywhere: the
\* version is true, an event is new once while it is young, no two tasks share a
\* number and a message stays with its session (migrate.rs, store/src/lib.rs).
THEOREM EventsLandOnce == Spec => []EventLandsOnce
<1>1. Parts => EventLandsOnce
  <2>1. CASE In("routing")
    BY <2>1, CoreAssumption, Routing!IInvWrittenOnce, Routing!IInvTaskKnows,
       Routing!IInvHandled, Routing!IInvRestart DEF Parts, EventLandsOnce, In
  <2>2. CASE In("database")
    BY <2>2, Assumes, StoreIInvVersion, StoreIInvColumns, StoreIInvAnswers
       DEF Parts, EventLandsOnce, In
  <2> QED  BY <2>1, <2>2 DEF EventLandsOnce
<1> QED  BY <1>1, PartsAlways, PTL

\* For any number of processes on one data directory, only one that listens keeps
\* another from taking off, and one that has gone through its shutdown leaves no
\* task running (ingress.rs start, run.rs shutdown).
THEOREM CoresSucceedCleanly == Spec => CleanSuccession
<1> DEFINE Refused == In("run") => \A p \in Procs :
             pc[p] \in {"look", "bind"} /\ status[p] # "failing" /\ status'[p] = "failing"
               => overlap \/ \E q \in Procs \ {p} : q \in listening
           Left == In("run") => App!StoppedIsSettled
<1>1. Parts /\ [Next]_all => [Refused]_all
  <2> SUFFICES ASSUME Parts, [Next]_all, ~UNCHANGED all, In("run"), NEW p \in Procs,
                      pc[p] \in {"look", "bind"}, status[p] # "failing", status'[p] = "failing"
               PROVE  overlap \/ \E q \in Procs \ {p} : q \in listening
    OBVIOUS
  <2>1. App!Next
    <3>1. [App!Next]_(App!vars)  BY StepIs
    <3>2. status' # status  OBVIOUS
    <3> QED  BY <3>1, <3>2 DEF App!vars
  <2> QED  BY <2>1, AppRefusal DEF Parts
<1>2. Parts => Left  BY AppIInvSettled DEF Parts
<1> HIDE DEF Refused, Left
<1>3. Spec => [][Refused]_all  BY <1>1, PartsAlways, PTL DEF Spec
<1>4. Spec => []Left  BY <1>2, PartsAlways, PTL
<1> QED  BY <1>3, <1>4 DEF CleanSuccession, Refused, Left

\* For any tasks, calls and containers: a task has one sandbox, its own, and a
\* call fails for it only after it has lost two (acquire_locks, run_python).
THEOREM EachTaskOneSandbox == Spec => []OneSandboxEach
<1>1. Parts => OneSandboxEach
  BY CoreAssumption, Lease!JInvBuiltOnce, Lease!IInvOwnContainer,
     Lease!JInvFailsOnlyTwice DEF Parts, OneSandboxEach, Lease!JInv
<1> QED  BY <1>1, PartsAlways, PTL

\* Once a task is released, nothing is built for it any more (release_task).
THEOREM NothingForTheReleased == Spec => ReleasedForGood
<1> DEFINE Built == In("lease") => \A i \in Lease!Ids :
             container[i].at = "none" /\ container'[i].at # "none"
               => container'[i].task \in registered
<1>1. Parts /\ [Next]_all => [Built]_all
  BY StepIs, CoreAssumption, Lease!StepIInv DEF Parts, Lease!JInv, Lease!Kept
<1> QED  BY <1>1, PartsAlways, PTL DEF Spec, ReleasedForGood

\* For any requests and policies: what leaves a sandbox was granted and is
\* audited once, and the proxy that has returned is quiet (policy.go, egress.go).
THEOREM OutIsGrantedAndAudited == Spec => []GrantedAndAudited
<1>1. Parts => GrantedAndAudited
  BY CoreAssumption, EgressIInvGranted, EgressIInvSafe, EgressIInvAudited, EgressIInvQuiet
     DEF Parts, GrantedAndAudited
<1> QED  BY <1>1, PartsAlways, PTL

\* For any set of flaws, and changes to the machine between preflight and run: a
\* green report is one that aite run takes off from as long as nothing changes, what
\* keeps it from that is named in the first report, and no container of the probe is
\* left behind by a green one (preflight.rs).
THEOREM GreenIsGo == Spec => []GreenMeansGo
<1>1. Parts => GreenMeansGo
  BY Assumes, FlightIInvGreen DEF Parts, GreenMeansGo
<1> QED  BY <1>1, PartsAlways, PTL
=============================================================================
