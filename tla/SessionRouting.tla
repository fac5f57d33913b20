--------------------------- MODULE SessionRouting ---------------------------
(***************************************************************************)
(* The way of an event from a chat platform into core: edge hands it over   *)
(* with a deadline (edge/internal/ingress), core drops what it has seen,    *)
(* picks one of the rules R1-R8 (control/routing), and opens, continues or  *)
(* replaces the session of the event's thread (control/sessions,            *)
(* control/commands/new, restart).  The platform offers an event again      *)
(* until it is acknowledged, perhaps while an earlier copy is still being   *)
(* handled; core is the only one to de-duplicate.                           *)
(*                                                                         *)
(* A handler is a chain of awaits, one step each.  When edge's deadline     *)
(* passes, core's server drops the handler at the await where it is; the    *)
(* write it was waiting for runs in a thread of its own and may still land, *)
(* later.  A session and a task are named by the event that created them.   *)
(* What dispatch and worker do to a task is in TaskLifecycle; here a task   *)
(* is queued, busy, and writes its answer into the session's transcript,    *)
(* outside the lock that control's own writers share.                       *)
(***************************************************************************)
EXTENDS Naturals, Sequences, FiniteSets

CONSTANTS Events,        \* the valid events of humans that the platform offers
          Kinds,         \* what they may be, as functions
          Thread,        \* the thread its anchor names; NoThread at top level
          Mentioned,     \* those that mention Aite
          Bare,          \* those without text, or !new and !restart without rest
          P2P,           \* those from a private chat
          SupportsThread,\* the platform has native threads
          MayFail,       \* those for which a call to store or evidence may fail
          MayCut,        \* those for which edge's deadline may pass
          MaxErrors,     \* how many events may meet a failure or the deadline
          NoThread

Attempts == 3  \* APPEND_TURN_ATTEMPTS, ASSISTANT_TURN_ATTEMPTS

None == NoThread

VARIABLES
    kind,      \* what each event is: chosen at the start, never changed
    seen,      \* the store's seen_events
    sessions,  \* the store's sessions: thread, status, created_at
    turns,     \* the transcript of each session, by author
    tasks,     \* the tasks: where they are, their session, the answer's seq and try
    handler,   \* where the one handler of each event is that got past R2
    lock,      \* turn_seq_lock
    clock,     \* the last created_at handed out
    errors     \* the events edge counted in ingress.errors

edge == <<kind, errors>>
vars == <<edge, seen, sessions, turns, tasks, handler, lock, clock>>

NoSession == [thread |-> NoThread, status |-> "none", at |-> 0]
NoTask == [at |-> "none", session |-> NoThread, seq |-> 0, try |-> 1]
Outside == [pc |-> "out", owes |-> "nothing", session |-> NoThread, thread |-> NoThread,
            at |-> 0, left |-> <<>>, seq |-> 0, try |-> 1, todo |-> {}, told |-> FALSE]

Init ==
    /\ kind \in Kinds
    /\ seen = {} /\ errors = {}
    /\ sessions = [e \in Events |-> NoSession]
    /\ turns = [e \in Events |-> <<>>]
    /\ tasks = [e \in Events |-> NoTask]
    /\ handler = [e \in Events |-> Outside]
    /\ lock = None
    /\ clock = 0
-----------------------------------------------------------------------------
(* Helpers.                                                                *)

At(e, p) == handler[e].pc = p
Continue(e, h) == handler' = [handler EXCEPT ![e] = h]
Go(e, p) == Continue(e, [handler[e] EXCEPT !.pc = p])
Stop(e, p) == Continue(e, [Outside EXCEPT !.pc = p, !.session = handler[e].session])
Release(e) == lock' = IF lock = e THEN None ELSE lock

Erring(e) == errors' = errors \cup {e} /\ Cardinality(errors \cup {e}) <= MaxErrors

(* Ok; Err, which core counts, and edge, which does not acknowledge.       *)
ReturnOk(e) == Stop(e, "done") /\ UNCHANGED edge
ReturnErr(e, p) ==
    /\ Stop(e, p)
    /\ Erring(e)
    /\ Release(e)
    /\ UNCHANGED kind

Opens(e) == handler[e].session = e

(* find_session_by_thread: the newest session of the thread that is not     *)
(* archived (none or one).                                                 *)
Found(thread) ==
    LET open == {s \in Events : sessions[s].status = "active" /\ sessions[s].thread = thread}
    IN  {s \in open : \A r \in open : sessions[r].at <= sessions[s].at}

(* thread_session: an edit falls back to the thread its message opened     *)
SessionOf(e) ==
    LET named == IF Thread[e] = NoThread THEN {} ELSE Found(Thread[e])
    IN  IF named = {} /\ kind[e] = "edited" THEN Found(e) ELSE named
-----------------------------------------------------------------------------
(* Arrival: edge's HandleEvent, R1 and R2.  A copy of an event that was     *)
(* seen before is acknowledged and changes nothing.                        *)

(* seen_event tests and marks in one statement; dropped at this await, the  *)
(* event is marked all the same                                            *)
Accept(e) ==
    /\ e \notin seen
    /\ seen' = seen \cup {e}
    /\ \/ Go(e, "look") /\ UNCHANGED errors
       \/ e \in MayCut /\ Go(e, "cut") /\ Erring(e)
    /\ UNCHANGED <<kind, sessions, turns, tasks, lock, clock>>

AcceptFails(e) ==
    /\ e \in MayFail /\ e \notin seen
    /\ Erring(e)
    /\ UNCHANGED <<kind, seen, sessions, turns, tasks, handler, lock, clock>>
-----------------------------------------------------------------------------
(* R4-R8: what is made of an event, given the session of its thread.       *)

Command(e) == kind[e] \in {"new", "restart"} /\ (e \in Mentioned \/ SessionOf(e) # {})
Native(e) == e \notin P2P /\ SupportsThread

(* an edit or a follow-up writes its text into session s                   *)
Joins(e, s) ==
    /\ s \in SessionOf(e)
    /\ kind[e] = "edited" \/ (~Command(e) /\ Native(e))

(* !restart ends session s first                                           *)
Ends(e, s) == s \in SessionOf(e) /\ Command(e) /\ kind[e] = "restart"

(* !new, !restart outside a session and R7 open one, in the thread of the   *)
(* session the command was given in, or else in one of its own             *)
OpensIn(e) ==
    LET here == {sessions[s].thread : s \in SessionOf(e)}
        own == IF here = {} THEN {e} ELSE here
    IN  CASE kind[e] = "edited" -> {}
          [] Command(e) -> IF kind[e] = "restart" /\ here # {} THEN {} ELSE own
          [] OTHER -> IF e \in Mentioned /\ (here = {} \/ ~Native(e)) THEN {e} ELSE {}

Route(e) ==
    /\ At(e, "look")
    /\ \/ \E s \in Events :
            /\ \/ Joins(e, s) /\ Continue(e, [handler[e] EXCEPT
                                    !.pc = "turn", !.session = s, !.left = <<e>>])
               \/ Ends(e, s) /\ Continue(e, [handler[e] EXCEPT
                                    !.pc = "tasks", !.session = s, !.thread = sessions[s].thread])
            /\ UNCHANGED edge
       \/ \E thread \in OpensIn(e) :
            /\ Continue(e, [handler[e] EXCEPT !.pc = "open", !.thread = thread])
            /\ UNCHANGED edge
       \/ /\ OpensIn(e) = {} /\ \A s \in Events : ~Joins(e, s) /\ ~Ends(e, s)
          /\ ReturnOk(e)
    /\ UNCHANGED <<seen, sessions, turns, tasks, lock, clock>>
-----------------------------------------------------------------------------
(* What each write does to the store.  It may be waited for by the handler, *)
(* or land after the handler was dropped.                                  *)

NextSeq(e) == Len(turns[handler[e].session])  \* MAX(seq) + 1, as seqs start at 0

CreateSession(e) ==
    /\ sessions' = [sessions EXCEPT ![e] =
                      [thread |-> handler[e].thread, status |-> "active", at |-> handler[e].at]]
    /\ UNCHANGED <<turns, tasks>>

(* the primary key (session, seq) refuses a seq that is taken              *)
AppendTurn(e) ==
    /\ turns' = IF handler[e].seq = NextSeq(e)
                THEN [turns EXCEPT ![handler[e].session] = Append(@, Head(handler[e].left))]
                ELSE turns
    /\ UNCHANGED <<sessions, tasks>>

(* update_session writes the whole row, from the handler's copy of it      *)
UpdateSession(e, status) ==
    /\ sessions' = [sessions EXCEPT ![handler[e].session].status = status]
    /\ UNCHANGED <<turns, tasks>>

CreateTask(e) ==
    /\ tasks' = [tasks EXCEPT ![e] = [@ EXCEPT !.at = "row", !.session = handler[e].session]]
    /\ UNCHANGED <<sessions, turns>>

Write(e, p) == \/ p = "create" /\ CreateSession(e)
               \/ p = "write" /\ AppendTurn(e)
               \/ p = "touch" /\ UpdateSession(e, "active")
               \/ p = "archive" /\ UpdateSession(e, "archived")
               \/ p = "row" /\ CreateTask(e)
Writes == {"create", "write", "touch", "archive", "row"}
-----------------------------------------------------------------------------
(* new_session, up to the lock: now(), then the history of the thread, for  *)
(* a !restart and if the platform gives it.                                *)

Open(e) ==
    /\ At(e, "open")
    /\ clock' = clock + 1
    /\ \E past \in {<<>>, <<None>>} :
         /\ past # <<>> => kind[e] = "restart" /\ handler[e].session # NoThread
         /\ Continue(e, [handler[e] EXCEPT !.pc = "turn", !.session = e, !.at = clock + 1,
                                           !.left = past \o IF e \in Bare THEN <<>> ELSE <<e>>])
    /\ UNCHANGED <<edge, seen, sessions, turns, tasks, lock>>

(* The transcript: append_turn, write_turn_locked.                         *)

TakeLock(e) ==
    /\ At(e, "turn") /\ lock = None
    /\ lock' = e
    /\ Go(e, IF Opens(e) THEN "create" ELSE "seq")
    /\ UNCHANGED <<edge, seen, sessions, turns, tasks, clock>>

(* After the last turn an edit is over, a follow-up touches its session, a  *)
(* new session starts its task if there is something to do.                *)
AfterTurns(e) ==
    CASE ~Opens(e) -> IF kind[e] = "edited" THEN "return" ELSE "touch"
      [] e \in Bare -> IF kind[e] = "message" THEN "return" ELSE "reply"
      [] OTHER -> "row"

TurnsLeft(e, left) ==
    /\ Continue(e, [handler[e] EXCEPT !.left = left, !.try = 1,
                                      !.pc = IF left = <<>> THEN AfterTurns(e) ELSE "seq"])
    /\ IF left = <<>> THEN Release(e) ELSE UNCHANGED lock

Create(e) ==
    /\ At(e, "create")
    /\ Write(e, "create")
    /\ TurnsLeft(e, handler[e].left)
    /\ UNCHANGED <<edge, seen, clock>>

ReadSeq(e) ==
    /\ At(e, "seq")
    /\ Continue(e, [handler[e] EXCEPT !.pc = "write", !.seq = NextSeq(e)])
    /\ UNCHANGED <<edge, seen, sessions, turns, tasks, lock, clock>>

WriteTurn_TakesConflictForDone(e) ==
    /\ At(e, "write")
    /\ Write(e, "write")
    /\ TurnsLeft(e, Tail(handler[e].left))
    /\ UNCHANGED <<edge, seen, clock>>

WriteTurn(e) ==
    /\ At(e, "write")
    /\ Write(e, "write")
    /\ IF handler[e].seq = NextSeq(e)
       THEN TurnsLeft(e, Tail(handler[e].left)) /\ UNCHANGED edge
       ELSE IF handler[e].try < Attempts
       THEN /\ Continue(e, [handler[e] EXCEPT !.pc = "seq", !.try = @ + 1])
            /\ UNCHANGED <<edge, lock>>
       ELSE ReturnErr(e, "exhausted")
    /\ UNCHANGED <<seen, clock>>
-----------------------------------------------------------------------------
(* The rest of continue_session, and start_task.                           *)

Touch(e) ==
    /\ At(e, "touch")
    /\ Write(e, "touch")
    /\ Go(e, "list")
    /\ UNCHANGED <<edge, seen, lock, clock>>

(* steer_target: a task of the session that this process has taken and that *)
(* is not yet delivering; the row of one that never reached the queue is no *)
(* target                                                                  *)
Live(s) == {t \in Events : tasks[t].session = s /\ tasks[t].at \in {"queued", "busy"}}

List(e) ==
    /\ At(e, "list")
    /\ Go(e, IF Live(handler[e].session) # {} THEN "return" ELSE "row")
    /\ UNCHANGED <<edge, seen, sessions, turns, tasks, lock, clock>>

StartTask(e) ==
    /\ At(e, "row")
    /\ Write(e, "row")
    /\ Go(e, "record")
    /\ UNCHANGED <<edge, seen, lock, clock>>

(* the evidence, then owned and the queue, where dispatch passes over one    *)
(* that was stopped in the meantime                                        *)
Enqueue(e) ==
    /\ At(e, "record")
    /\ tasks' = [tasks EXCEPT ![e].at = IF @ = "row" THEN "queued" ELSE @]
    /\ Go(e, IF handler[e].told THEN "reply" ELSE "return")
    /\ UNCHANGED <<edge, seen, sessions, turns, lock, clock>>

Return(e) ==
    /\ At(e, "return")
    /\ ReturnOk(e)
    /\ UNCHANGED <<seen, sessions, turns, tasks, lock, clock>>

(* an error of the platform counts, but edge is told Ok (Ingress::handler)  *)
Reply(e) ==
    /\ At(e, "reply")
    /\ ReturnOk(e)
    /\ UNCHANGED <<seen, sessions, turns, tasks, lock, clock>>
-----------------------------------------------------------------------------
(* !restart: status_tasks, cancel_task for each that can be stopped, then   *)
(* the session is archived and new_session takes over its thread.  The      *)
(* reply tells of those that were stopped and those that no longer can be. *)

Stoppable(t) == tasks[t].at \in {"row", "queued", "busy"}

ListTasks(e) ==
    /\ At(e, "tasks")
    /\ LET mine == {t \in Events : tasks[t].session = handler[e].session}
       IN  Continue(e, [handler[e] EXCEPT !.pc = "stop",
                          !.todo = {t \in mine : Stoppable(t)},
                          !.told = \E t \in mine : tasks[t].at \in {"answered", "noting"}])
    /\ UNCHANGED <<edge, seen, sessions, turns, tasks, lock, clock>>

StopTasks(e) ==
    /\ At(e, "stop")
    /\ \/ /\ handler[e].todo = {} /\ Go(e, "archive")
          /\ UNCHANGED tasks
       \/ \E t \in handler[e].todo :
            /\ Continue(e, [handler[e] EXCEPT !.todo = @ \ {t}, !.told = TRUE])
            /\ tasks' = [tasks EXCEPT ![t].at = CASE @ \in {"row", "queued"} -> "over"
                                                  [] @ = "busy" -> "stopping"
                                                  [] OTHER -> @]
    /\ UNCHANGED <<edge, seen, sessions, turns, lock, clock>>

Archive(e) ==
    /\ At(e, "archive")
    /\ Write(e, "archive")
    /\ Go(e, "open")
    /\ UNCHANGED <<edge, seen, lock, clock>>
-----------------------------------------------------------------------------
(* A call to the store or the evidence fails: Err.  Edge's deadline passes: *)
(* the handler is dropped where it is, its locks too, and nobody counts it  *)
(* in core; the write it was waiting for may land later.                   *)

Storing == {"look", "create", "seq", "write", "touch", "list", "row", "record", "tasks",
            "archive"}
Going == Storing \cup {"open", "turn", "return", "reply", "stop"}

Fails(e) ==
    /\ e \in MayFail /\ handler[e].pc \in Storing
    /\ ReturnErr(e, "failed")
    /\ UNCHANGED <<seen, sessions, turns, tasks, clock>>

Cut(e) ==
    /\ e \in MayCut /\ handler[e].pc \in Going
    /\ Erring(e)
    /\ \/ Stop(e, "cut")
       \/ /\ handler[e].pc \in Writes
          /\ Continue(e, [handler[e] EXCEPT !.pc = "cut", !.owes = handler[e].pc])
    /\ Release(e)
    /\ UNCHANGED <<kind, seen, sessions, turns, tasks, clock>>

Land(e) ==
    /\ At(e, "cut") /\ handler[e].owes # "nothing"
    /\ Write(e, handler[e].owes)
    /\ Stop(e, "cut")
    /\ UNCHANGED <<edge, seen, lock, clock>>
-----------------------------------------------------------------------------
(* The tasks, as far as transcripts are concerned: one of a session at a    *)
(* time; a task that does not fail sends its answer and then writes it into *)
(* the transcript (append_assistant_turn).                                 *)

Moves(t, p, k) == tasks[t].at = p /\ tasks' = [tasks EXCEPT ![t] = k]

Work(t) ==
    /\ \A u \in Events : tasks[u].session = tasks[t].session =>
          tasks[u].at \notin {"busy", "stopping", "answered", "noting"}
    /\ Moves(t, "queued", [tasks[t] EXCEPT !.at = "busy"])
    /\ UNCHANGED <<edge, seen, sessions, turns, handler, lock, clock>>

Answer(t) ==
    /\ \E p \in {"busy", "stopping"}, q \in {"answered", "over"} :
         Moves(t, p, [tasks[t] EXCEPT !.at = q])
    /\ UNCHANGED <<edge, seen, sessions, turns, handler, lock, clock>>

ReadAnswerSeq(t) ==
    /\ tasks[t].at = "answered"
    /\ Moves(t, "answered", [tasks[t] EXCEPT !.at = "noting",
                                             !.seq = Len(turns[tasks[t].session])])
    /\ UNCHANGED <<edge, seen, sessions, turns, handler, lock, clock>>

NoteAnswer(t) ==
    LET k == tasks[t]
        free == k.seq = Len(turns[k.session])
    IN  /\ k.at = "noting"
        /\ IF free
           THEN /\ turns' = [turns EXCEPT ![k.session] = Append(@, None)]
                /\ Moves(t, "noting", [NoTask EXCEPT !.at = "over", !.session = k.session])
           ELSE /\ turns' = turns
                /\ Moves(t, "noting", IF k.try < Attempts
                                      THEN [k EXCEPT !.at = "answered", !.try = @ + 1]
                                      ELSE [k EXCEPT !.at = "unnoted"])
        /\ UNCHANGED <<edge, seen, sessions, handler, lock, clock>>
-----------------------------------------------------------------------------
Arrive(e) == Accept(e) \/ AcceptFails(e)
Handle(e) == \/ Route(e) \/ Open(e) \/ TakeLock(e) \/ Create(e) \/ ReadSeq(e) \/ WriteTurn(e)
             \/ Touch(e) \/ List(e) \/ StartTask(e) \/ Enqueue(e) \/ Return(e) \/ Reply(e)
             \/ ListTasks(e) \/ StopTasks(e) \/ Archive(e)
Perform(t) == Work(t) \/ Answer(t) \/ ReadAnswerSeq(t) \/ NoteAnswer(t)

Next == \E e \in Events : Arrive(e) \/ Handle(e) \/ Fails(e) \/ Cut(e) \/ Land(e) \/ Perform(e)

(* The runtime does not stand still while a handler, a task or a thread of  *)
(* the store can go on; as each of them has finitely many steps, that is    *)
(* enough.  Nothing forces an event, a failure or a deadline.               *)
Progress == \E e \in Events : Handle(e) \/ Land(e) \/ Perform(e)

Spec == Init /\ [][Next]_vars /\ WF_vars(Progress)
-----------------------------------------------------------------------------
Over == {"done", "failed", "exhausted", "cut"}
Handler == [pc : Going \cup Over \cup {"out"}, owes : Writes \cup {"nothing"},
            session : Events \cup {NoThread}, thread : Events \cup {NoThread}, at : Nat,
            left : Seq(Events \cup {None}), seq : Nat, try : 1..Attempts,
            todo : SUBSET Events, told : BOOLEAN]

(* The types of the state.                                                 *)
TypeOK ==
    /\ kind \in Kinds
    /\ seen \subseteq Events
    /\ errors \subseteq Events
    /\ sessions \in [Events -> [thread : Events \cup {NoThread},
                                status : {"none", "active", "archived"}, at : Nat]]
    /\ turns \in [Events -> Seq(Events \cup {None})]
    /\ tasks \in [Events -> [at : {"none", "row", "queued", "busy", "stopping", "answered", "noting",
                                   "unnoted", "over"},
                             session : Events \cup {NoThread}, seq : Nat,
                             try : 1..Attempts]]
    /\ handler \in [Events -> Handler]
    /\ lock \in Events \cup {None}
    /\ clock \in Nat

TurnsOf(e) == UNION {{s} \X {i \in DOMAIN turns[s] : turns[s][i] = e} : s \in Events}

(* However often an event is delivered, cut off and retried, its text is in *)
(* the transcripts at most once (R2, write_turn_locked).                   *)
WrittenOnce == \A e \in Events : Cardinality(TurnsOf(e)) <= 1

(* A task that a worker may take finds the message that started it in the   *)
(* transcript of its session (sessions.rs, routing: append_turn first).    *)
TaskKnowsItsMessage ==
    \A t \in Events : tasks[t].at \in {"queued", "busy"} =>
        \E place \in TurnsOf(t) : place[1] = tasks[t].session

(* Three attempts are enough for both writers of a transcript, although the *)
(* worker does not take the lock and a dropped handler's write may still    *)
(* land (APPEND_TURN_ATTEMPTS).                                            *)
NeverExhausted == \A e \in Events : ~At(e, "exhausted") /\ tasks[e].at # "unnoted"

(* What was handled to its end is in a transcript, although the seq it was  *)
(* to get may have been taken between the query and the insert.            *)
HandledIsWritten ==
    \A e \in Events \ Bare :
        At(e, "done") /\ handler[e].session # NoThread => TurnsOf(e) # {}

(* Once a !restart has been handled, and while no other one is under way,   *)
(* the thread belongs to its session or a newer one: a follow-up that writes *)
(* back its copy of the old session does not bring that one back.          *)
RestartTakesOver ==
    \A e \in Events :
        /\ At(e, "done") /\ kind[e] = "restart" /\ Opens(e)
        /\ \A f \in Events \ {e} : kind[f] = "restart" => handler[f].pc \in {"out", "done"}
        => \E s \in Found(sessions[e].thread) : sessions[s].at >= sessions[e].at

(* Every handler ends, whoever else was cut off with the lock in hand.     *)
Quiet == \A e \in Events : handler[e].pc \notin Going
HandlersEnd == <>[]Quiet
-----------------------------------------------------------------------------
(* What the code does not keep.                                            *)

(* restart.rs: an archived session has no tasks at work.                   *)
ArchivedIsIdle == \A s \in Events : sessions[s].status = "archived" => Live(s) = {}

(* An archived session stays archived.                                     *)
ArchivedStays ==
    [][\A s \in Events : sessions[s].status = "archived" => sessions'[s].status = "archived"]_vars

(* Once a thread has a session, a message in it finds one.                 *)
ThreadKeepsASession ==
    [][\A e \in Events : Found(e) # {} => Found(e)' # {}]_vars
=============================================================================
