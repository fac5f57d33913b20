---------------------------- MODULE SessionStore ----------------------------
(***************************************************************************)
(* The database of core, core/crates/store: what init makes of the file it *)
(* is given (migrate.rs) and the operations on its rows (lib.rs), for two   *)
(* cores that open the same file.  SQLite is modelled by what the code asks *)
(* of it: one write transaction at a time, readers see what is committed,   *)
(* and what was not committed is gone with the connection.  Each operation  *)
(* on the rows is one statement and one action; recover_orphan_tasks reads  *)
(* before it opens its transaction and is two.                              *)
(***************************************************************************)
EXTENDS Naturals

CONSTANTS
  Cores,      \* processes that open the file
  Chats,
  Files,      \* the databases to start from, with the sessions, tasks, events
              \* and messages that there may be
  Latest,     \* LATEST_SCHEMA_VERSION
  Horizon,    \* bound on the clock
  MaxFaults,  \* bound on failing migrations, locks not granted and crashes
  MaxNo,      \* bound on task numbers
  None

VARIABLES
  db,         \* what is committed; per possible row what it holds, or None
  core,       \* per core its connection, the rows it has read, its task number
  clock,
  told,       \* per message the sessions find_session_by_message has answered
  fresh,      \* per event when seen_event last called it new
  twice,      \* an event was called new again without having grown old
  shared,     \* two cores have worked with the file at once
  buried,     \* a task that had ended was failed
  faults

vars == <<db, core, clock, told, fresh, twice, shared, buried, faults>>
ghosts == <<told, fresh, twice, buried>>

Active == {"created", "planning", "working"}
Orphan == Active \cup {"answering"}
Ended == {"delivered", "failed", "cancelled"}

Sessions == DOMAIN db.sessions
TaskIds == DOMAIN db.tasks
EventIds == DOMAIN db.seen
Messages == DOMAIN db.index

\* A task and its query columns; the chat is looked up in the sessions.
Row(d, data) == [data |-> data, chat |-> d.sessions[data.session], cost |-> data.cost]

\* Its tables by the migration they are from (0: none yet), the highest
\* version in schema_version (0: no such table), and the rows.
Migration(d) ==
  LET v == d.version + 1 IN
  CASE v = 1 -> [ok |-> TRUE, db |-> [d EXCEPT !.version = 1, !.tables = IF @ = 0 THEN 1 ELSE @]]
    [] v = 2 -> [ok |-> d.tables < 2,      \* ADD COLUMN has no IF NOT EXISTS
                 db |-> [d EXCEPT !.version = 2, !.tables = 2,
                   !.seen = [e \in EventIds |-> IF @[e] = None THEN None ELSE clock],
                   !.tasks = [t \in TaskIds |-> IF @[t] = None THEN None
                                                       ELSE Row(d, d.tasks[t].data)]]]

\* The files there are: any tables, rows and numbers, of before the migrations,
\* in between, of this program (whose columns agree) or of a newer one.
Data(f) == [session : DOMAIN f.sessions, no : Nat, status : Orphan \cup Ended, cost : Nat]
Rows(f) == [data : Data(f), chat : Chats \cup {None}, cost : Nat \cup {None}]
Contents(f) ==
  [version : 0 .. Latest + 1, tables : 0 .. Latest + 1, counter : Nat,
   sessions : [DOMAIN f.sessions -> Chats \cup {None}],
   tasks : [DOMAIN f.tasks -> Rows(f) \cup {None}],
   seen : [DOMAIN f.seen -> Nat \cup {None}],
   index : [DOMAIN f.index -> (DOMAIN f.sessions) \cup {None}]]
Agree(d) == \A t \in DOMAIN d.tasks : d.tasks[t] # None =>
              d.tasks[t].cost = d.tasks[t].data.cost
                /\ d.tasks[t].chat = d.sessions[d.tasks[t].data.session]
FileIs(f) ==
  /\ f \in Contents(f) /\ None \notin Contents(f) \cup Rows(f)
  /\ IF f.version = 0 THEN f.tables < 2 ELSE f.tables = f.version
  /\ \A t, u \in DOMAIN f.tasks : f.tasks[t] # None /\ f.tasks[u] # None =>
       f.tasks[t].data.no <= f.counter /\ (t # u => f.tasks[t].data.no # f.tasks[u].data.no)
  /\ f.version = Latest => Agree(f) /\ \A e \in DOMAIN f.seen : f.seen[e] \in {None, 1}

Closed == [pc |-> "closed", draft |-> None, orphans |-> None, no |-> None]

Init ==
  /\ db \in Files
  /\ core = [c \in Cores |-> Closed]
  /\ clock = 1 /\ faults = 0
  /\ told = [m \in Messages |-> {}] /\ fresh = [e \in EventIds |-> IF db.seen[e] = None THEN None ELSE 1]
  /\ twice = FALSE /\ shared = FALSE /\ buried = FALSE

Goes(c, pc) == core' = [core EXCEPT ![c] = [Closed EXCEPT !.pc = pc]]
Locked == \E c \in Cores : core[c].pc = "migrating"
Fault == faults < MaxFaults /\ faults' = faults + 1

-----------------------------------------------------------------------------
\* migrate::run.

Open(c) ==
  /\ core[c].pc = "closed" /\ Goes(c, "open")
  /\ UNCHANGED <<db, clock, ghosts, shared, faults>>

\* The fast path: a plain SELECT.
Look(c) ==
  /\ core[c].pc = "open"
  /\ Goes(c, CASE db.version > Latest -> "refused"
               [] db.version = Latest -> "ready"
               [] OTHER -> "behind")
  /\ shared' = (shared \/ (db.version = Latest /\ \E o \in Cores \ {c} : core[o].pc = "ready"))
  /\ UNCHANGED <<db, clock, ghosts, faults>>

\* BEGIN IMMEDIATE, and the version read once more under the lock.
Begin(c) ==
  /\ core[c].pc = "behind" /\ ~Locked
  /\ IF db.version > Latest THEN Goes(c, "refused")
     ELSE core' = [core EXCEPT ![c].pc = "migrating", ![c].draft = db]
  /\ UNCHANGED <<db, clock, ghosts, shared, faults>>

\* The busy timeout runs out.
Busy(c) ==
  /\ core[c].pc = "behind" /\ Locked /\ Fault /\ Goes(c, "failed")
  /\ UNCHANGED <<db, clock, ghosts, shared>>

\* The next migration and its row in schema_version; an error drops the
\* transaction.
Migrate(c) ==
  /\ core[c].pc = "migrating" /\ core[c].draft.version < Latest
  /\ LET m == Migration(core[c].draft)
     IN  IF m.ok THEN core' = [core EXCEPT ![c].draft = m.db] ELSE Goes(c, "failed")
  /\ UNCHANGED <<db, clock, ghosts, shared, faults>>

MigrationFails(c) ==
  /\ core[c].pc = "migrating" /\ Fault /\ Goes(c, "failed")
  /\ UNCHANGED <<db, clock, ghosts, shared>>

Commit(c) ==
  /\ core[c].pc = "migrating" /\ core[c].draft.version = Latest
  /\ db' = core[c].draft /\ Goes(c, "ready")
  /\ shared' = (shared \/ \E o \in Cores \ {c} : core[o].pc = "ready")
  /\ UNCHANGED <<clock, ghosts, faults>>

\* close, or the process ends, wherever it is.
Close(c) ==
  /\ core[c].pc # "closed" /\ Fault /\ Goes(c, "closed")
  /\ UNCHANGED <<db, clock, ghosts, shared>>

-----------------------------------------------------------------------------
\* The rows.  with_conn holds the connection for a whole operation.

Works(c) == core[c].pc = "ready" /\ core[c].orphans = None
Writes(c) == Works(c) /\ ~Locked
Only(d) == db' = d /\ UNCHANGED <<core, clock, shared, faults>>

CreateSession(c, s, chat) ==
  /\ Writes(c) /\ db.sessions[s] = None
  /\ \A t \in TaskIds : db.tasks[t] # None => db.tasks[t].data.session # s
  /\ Only([db EXCEPT !.sessions[s] = chat]) /\ UNCHANGED ghosts

\* One UPSERT with RETURNING; the number comes back to this core.
NextTaskNo(c) ==
  /\ Writes(c) /\ core[c].no = None /\ db.counter < MaxNo
  /\ db' = [db EXCEPT !.counter = @ + 1]
  /\ core' = [core EXCEPT ![c].no = db.counter + 1]
  /\ UNCHANGED <<clock, ghosts, shared, faults>>

CreateTask(c, t, s) ==
  /\ Writes(c) /\ core[c].no # None /\ db.tasks[t] = None /\ db.sessions[s] # None
  /\ db' = [db EXCEPT !.tasks[t] =
              Row(db, [session |-> s, no |-> core[c].no, status |-> "created", cost |-> 0])]
  /\ core' = [core EXCEPT ![c].no = None]
  /\ UNCHANGED <<clock, ghosts, shared, faults>>

\* Whoever runs the task writes all of it; it has not ended before.
UpdateTask(c, t, status, cost) ==
  /\ Writes(c) /\ db.tasks[t] # None /\ db.tasks[t].data.status \notin Ended
  /\ LET data == [db.tasks[t].data EXCEPT !.status = status, !.cost = cost]
     IN  Only([db EXCEPT !.tasks[t] = Row(db, data)])
  /\ UNCHANGED ghosts

\* recover_orphan_tasks: the rows are read first, then each is written as read.
ReadOrphans(c) ==
  /\ Works(c)
  /\ core' = [core EXCEPT ![c].orphans =
       [t \in {t \in TaskIds : db.tasks[t] # None /\ db.tasks[t].data.status \in Orphan} |-> db.tasks[t].data]]
  /\ UNCHANGED <<db, clock, ghosts, shared, faults>>

FailOrphans(c) ==
  /\ core[c].orphans # None /\ ~Locked
  /\ LET rows == core[c].orphans
     IN  /\ db' = [db EXCEPT !.tasks = [t \in TaskIds |->
                     IF t \in DOMAIN rows THEN [@[t] EXCEPT !.data = [rows[t] EXCEPT !.status = "failed"]]
                     ELSE @[t]]]
         /\ buried' = (buried \/ \E t \in DOMAIN rows : db.tasks[t].data.status \in Ended)
  /\ core' = [core EXCEPT ![c].orphans = None]
  /\ UNCHANGED <<clock, told, fresh, twice, shared, faults>>

\* An event that has no row yet is new.
SeenEvent(c, e) ==
  /\ Writes(c) /\ db.seen[e] = None
  /\ Only([db EXCEPT !.seen[e] = clock])
  /\ twice' = (twice \/ (fresh[e] # None /\ fresh[e] = clock))
  /\ fresh' = [fresh EXCEPT ![e] = clock]
  /\ UNCHANGED <<told, buried>>

\* Rows older than the cutoff go; a cutoff is never in the future.
PruneSeen(c, cutoff) ==
  /\ Writes(c) /\ cutoff <= clock
  /\ Only([db EXCEPT !.seen = [e \in EventIds |->
                IF @[e] # None /\ @[e] < cutoff THEN None ELSE @[e]]])
  /\ UNCHANGED ghosts

\* The first claim on a message stays (ON CONFLICT DO NOTHING).
IndexMessage(c, m, s) ==
  /\ Writes(c)
  /\ Only([db EXCEPT !.index[m] = IF @ = None THEN s ELSE @])
  /\ UNCHANGED ghosts

FindByMessage(c, m) ==
  /\ Works(c) /\ db.index[m] # None
  /\ told' = [told EXCEPT ![m] = @ \cup {db.index[m]}]
  /\ UNCHANGED <<db, core, clock, fresh, twice, shared, buried, faults>>

Tick ==
  /\ clock < Horizon /\ clock' = clock + 1
  /\ UNCHANGED <<db, core, ghosts, shared, faults>>

-----------------------------------------------------------------------------
Migrates(c) == Open(c) \/ Look(c) \/ Begin(c) \/ Migrate(c) \/ Commit(c)
Statuses == {"answering", "delivered"}

Next ==
  \/ Tick
  \/ \E c \in Cores :
       \/ Open(c) \/ Look(c) \/ Begin(c) \/ Busy(c) \/ Migrate(c) \/ MigrationFails(c)
       \/ Commit(c) \/ Close(c) \/ NextTaskNo(c) \/ ReadOrphans(c) \/ FailOrphans(c)
       \/ \E s \in Sessions, chat \in Chats : CreateSession(c, s, chat)
       \/ \E t \in TaskIds, s \in Sessions : CreateTask(c, t, s)
       \/ \E t \in TaskIds, status \in Statuses : UpdateTask(c, t, status, 1)
       \/ \E e \in EventIds : SeenEvent(c, e)
       \/ \E cutoff \in 1..Horizon : PruneSeen(c, cutoff)
       \/ \E m \in Messages, s \in Sessions : IndexMessage(c, m, s)
       \/ \E m \in Messages : FindByMessage(c, m)

Spec == Init /\ [][Next]_vars

-----------------------------------------------------------------------------
\* Every variable holds what its declaration says.
TypeOK ==
  /\ db.version \in 0 .. Latest + 1 /\ db.tables \in 0 .. Latest + 1
  /\ \A c \in Cores :
       /\ core[c].pc \in {"closed", "open", "behind", "migrating", "ready", "refused", "failed"}
       /\ (core[c].draft # None) = (core[c].pc = "migrating")
       /\ core[c].orphans # None => core[c].pc = "ready"
  /\ clock \in 1..Horizon /\ faults \in 0..MaxFaults

\* Whoever crashes or fails where, the version that is written down is the one
\* that the tables have, and a newer program's file is left as it was
\* (migrate.rs, run).
VersionIsTrue ==
  /\ db.version > 0 => db.tables = db.version
  /\ db.version > Latest => db \in Files /\ \A c \in Cores : core[c].pc # "ready"
  /\ \A c \in Cores : core[c].pc = "ready" => db.version = Latest

\* Of two cores that find an old file, neither fails because of the other
\* (the version is read again under the lock).
BothTakeOff == faults = 0 => \A c \in Cores : core[c].pc # "failed"

ListActive(chat) ==
  {t \in TaskIds : /\ db.tasks[t] # None /\ db.tasks[t].data.status \in Active
                 /\ db.sessions[db.tasks[t].data.session] = chat}

\* The columns that are kept for queries say what the tasks say, those of
\* before the migration included, and every seen event can grow old
\* (m2_query_columns_and_message_index, create_task, update_task).
ColumnsAgree ==
  (db.version = Latest /\ ~shared) =>
    /\ \A t \in TaskIds : db.tasks[t] # None =>
         LET row == db.tasks[t]
         IN  row.cost = row.data.cost /\ row.chat = db.sessions[row.data.session]
    /\ \A chat \in Chats : ListActive(chat) =
         {t \in TaskIds : db.tasks[t] # None /\ db.tasks[t].chat = chat /\ db.tasks[t].data.status \in Active}
    /\ \A e \in EventIds : db.seen[e] \in {None} \cup 1..clock

\* Two cores never give the same number to two tasks (next_task_no).
NumbersDiffer ==
  \A t, u \in TaskIds :
    (t # u /\ db.tasks[t] # None /\ db.tasks[u] # None) => db.tasks[t].data.no # db.tasks[u].data.no

\* A message belongs to one session for good (index_message), an event is not
\* called new twice while it is young (seen_event, prune_seen_events_before),
\* and with one core at a time no task that has ended is failed as an orphan.
AnswersStand ==
  /\ \A m \in Messages : \A r, s \in told[m] : r = s
  /\ ~twice
  /\ ~shared => ~buried
=============================================================================
