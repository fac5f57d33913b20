---------------------------- MODULE DispatchQueue ----------------------------
(***************************************************************************)
(* The dispatch queue of core/crates/control (queue.rs) and the two loops  *)
(* that consume it (dispatch.rs): `dispatch_loop`, one task at a time, for *)
(* MaxParallel = 1, and `dispatch_loop_parallel`, at most MaxParallel      *)
(* tasks and one per session, above.                                       *)
(*                                                                         *)
(* The runtime is multi-threaded: a producer's push and its notify_one,    *)
(* the consumer's registration and its look at the queue, a decrement of   *)
(* `unfinished` and the notify_waiters that follows are separate steps.    *)
(* tokio's Notify is modelled as the code relies on it: notify_one wakes   *)
(* the registered waiter or else stores one permit, enable() takes a       *)
(* stored permit, a future dropped while notified passes the notification  *)
(* on, and notify_waiters wakes those registered and stores nothing.       *)
(***************************************************************************)
EXTENDS Naturals, Sequences, FiniteSets

CONSTANTS Tasks, Sessions, SessionOf, MaxParallel

ASSUME QueueAssumption ==
    /\ IsFiniteSet(Tasks)
    /\ SessionOf \in [Tasks -> Sessions]
    /\ MaxParallel \in Nat \ {0}

VARIABLES items,        \* Inner.items: the queued tasks (the key is SessionOf)
          unfinished,   \* Inner.unfinished
          permit,       \* the permit stored in `item`
          arrived,      \* the consumer's Notified on `item`
          loop,         \* where the dispatch loop is
          inFlight,     \* the tasks whose run_one future is alive
          put,          \* per task: how far its put_keyed is
          join,         \* where the caller of join() is
          joinWoken     \* its Notified on `idle` has been notified

vars == <<items, unfinished, permit, arrived, loop, inFlight, put, join, joinWoken>>
consumer == <<arrived, loop, inFlight>>
joiner == <<join, joinWoken>>

Serial == MaxParallel = 1

Init == /\ items = <<>>
        /\ unfinished = 0
        /\ permit = FALSE
        /\ arrived = "off"
        /\ loop = "register"
        /\ inFlight = {}
        /\ put = [t \in Tasks |-> "new"]
        /\ join = "idle"
        /\ joinWoken = FALSE
-----------------------------------------------------------------------------
(* Producers: put_keyed, first under the lock, then the notification.      *)

Push(t) ==
    /\ put[t] = "new"
    /\ items' = Append(items, t)
    /\ unfinished' = unfinished + 1
    /\ put' = [put EXCEPT ![t] = "pushed"]
    /\ UNCHANGED <<permit, consumer, joiner>>

NotifyOne_OnlyWhenEmpty(t) ==
    /\ put[t] = "pushed"
    /\ put' = [put EXCEPT ![t] = "notified"]
    /\ CASE Len(items) # 1 -> UNCHANGED <<arrived, permit>>
         [] Len(items) = 1 /\ arrived = "waiting" -> arrived' = "notified" /\ UNCHANGED permit
         [] OTHER -> permit' = TRUE /\ UNCHANGED arrived
    /\ UNCHANGED <<items, unfinished, loop, inFlight, joiner>>

NotifyOne(t) ==
    /\ put[t] = "pushed"
    /\ put' = [put EXCEPT ![t] = "notified"]
    /\ IF arrived = "waiting"
       THEN arrived' = "notified" /\ UNCHANGED permit
       ELSE permit' = TRUE /\ UNCHANGED arrived
    /\ UNCHANGED <<items, unfinished, loop, inFlight, joiner>>
-----------------------------------------------------------------------------
(* The consumer.                                                           *)

(* item.notified() and enable(), before the queue is looked at. *)
Register ==
    /\ loop \in {"register", "polled"}
    /\ arrived' = IF permit THEN "ready" ELSE "waiting"
    /\ permit' = FALSE
    /\ loop' = "look"
    /\ UNCHANGED <<items, unfinished, inFlight, put, joiner>>

(* Dropping the Notified passes an unread notification on. *)
DropArrived ==
    /\ arrived' = "off"
    /\ permit' = (permit \/ arrived = "notified")

(* try_pop takes the head; try_pop_where the first item of an idle session. *)
Eligible_IgnoresBusy(i) == TRUE

Eligible(i) == Serial \/ \A t \in inFlight : SessionOf[t] # SessionOf[items[i]]

First_AnyEligible(i) == Eligible(i)

First(i) == Eligible(i) /\ \A j \in 1..(i - 1) : ~Eligible(j)

CanTake(i) == Cardinality(inFlight) < MaxParallel /\ First(i)

RemoveItem(i) == SubSeq(items, 1, i - 1) \o SubSeq(items, i + 1, Len(items))

Take_OnePerWakeup(i) ==
    /\ loop = "look"
    /\ CanTake(i)
    /\ items' = RemoveItem(i)
    /\ inFlight' = inFlight \cup {items[i]}
    /\ loop' = "wait"
    /\ UNCHANGED <<arrived, permit, unfinished, put, joiner>>

(* The serial loop leaves pop() and runs the task; the parallel one looks   *)
(* for more work before it waits.                                           *)
Take(i) ==
    /\ loop = "look"
    /\ CanTake(i)
    /\ items' = RemoveItem(i)
    /\ inFlight' = inFlight \cup {items[i]}
    /\ IF Serial THEN loop' = "wait" /\ DropArrived
                 ELSE UNCHANGED <<loop, arrived, permit>>
    /\ UNCHANGED <<unfinished, put, joiner>>

Park ==
    /\ loop = "look"
    /\ \A i \in DOMAIN items : ~CanTake(i)
    /\ loop' = "wait"
    /\ UNCHANGED <<items, unfinished, permit, arrived, inFlight, put, joiner>>

(* The waiting loop is polled because of a notification. *)
Wake ==
    /\ loop = "wait"
    /\ arrived \in {"ready", "notified"}
    /\ arrived' = "off"
    /\ loop' = "register"
    /\ UNCHANGED <<items, unfinished, permit, inFlight, put, joiner>>

Finish_NeverSignals(t) ==
    /\ loop \in {"wait", "polled"}
    /\ t \in inFlight
    /\ inFlight' = inFlight \ {t}
    /\ unfinished' = unfinished - 1
    /\ loop' = "polled"
    /\ DropArrived
    /\ UNCHANGED <<items, put, joiner>>

Finish_CountsTwice(t) ==
    /\ loop \in {"wait", "polled"}
    /\ t \in inFlight
    /\ inFlight' = inFlight \ {t}
    /\ unfinished' = unfinished - 2
    /\ loop' = IF unfinished' = 0 THEN "signal" ELSE "polled"
    /\ DropArrived
    /\ UNCHANGED <<items, put, joiner>>

(* A run_one future ends, and its TaskDoneGuard calls task_done; others may *)
(* end in the same poll, before the queue is looked at again.               *)
Finish(t) ==
    /\ loop \in {"wait", "polled"}
    /\ t \in inFlight
    /\ inFlight' = inFlight \ {t}
    /\ unfinished' = unfinished - 1
    /\ loop' = IF unfinished' = 0 THEN "signal" ELSE "polled"
    /\ DropArrived
    /\ UNCHANGED <<items, put, joiner>>

(* idle.notify_waiters(), after the lock is released. *)
SignalIdle ==
    /\ loop \in {"signal", "lastSignal"}
    /\ loop' = IF loop = "signal" THEN "register" ELSE "dead"
    /\ joinWoken' = (joinWoken \/ join \in {"check", "wait"})
    /\ UNCHANGED <<items, unfinished, permit, arrived, inFlight, put, join>>

(* app's shutdown aborts run_forever: at an await the loop's future is      *)
(* dropped with the run_one futures it polls, and the guard of each of      *)
(* these calls task_done.                                                   *)
Abort_LosesTaskDone ==
    /\ loop = "wait"
    /\ inFlight' = {}
    /\ loop' = "dead"
    /\ DropArrived
    /\ UNCHANGED <<items, unfinished, put, joiner>>

Abort ==
    /\ loop = "wait"
    /\ inFlight' = {}
    /\ unfinished' = unfinished - Cardinality(inFlight)
    /\ loop' = IF inFlight # {} /\ unfinished' = 0 THEN "lastSignal" ELSE "dead"
    /\ DropArrived
    /\ UNCHANGED <<items, put, joiner>>
-----------------------------------------------------------------------------
(* join(): register on `idle`, then look at the counter.                   *)

JoinRegister ==
    /\ join = "idle"
    /\ join' = "check"
    /\ joinWoken' = FALSE
    /\ UNCHANGED <<items, unfinished, permit, consumer, put>>

JoinCheck ==
    /\ join = "check"
    /\ join' = IF unfinished = 0 THEN "returned" ELSE "wait"
    /\ UNCHANGED <<items, unfinished, permit, consumer, put, joinWoken>>

JoinWake ==
    /\ join = "wait"
    /\ joinWoken
    /\ join' = "idle"
    /\ UNCHANGED <<items, unfinished, permit, consumer, put, joinWoken>>
-----------------------------------------------------------------------------
Dispatch == \/ Register \/ Park \/ Wake \/ SignalIdle
            \/ \E i \in DOMAIN items : Take(i)

Next == \/ \E t \in Tasks : Push(t) \/ NotifyOne(t) \/ Finish(t)
        \/ Dispatch
        \/ JoinRegister \/ JoinCheck \/ JoinWake
        \/ Abort

(* A thread inside put_keyed or the dispatch loop is never suspended for    *)
(* good; a worker's run is bounded by max_steps, max_wall_sec and the       *)
(* timeouts of its calls, so a task in flight ends.  Nothing forces a       *)
(* producer to come, join to be called again or shutdown to abort.          *)
Fairness == /\ WF_vars(Dispatch)
            /\ \A t \in Tasks : WF_vars(NotifyOne(t)) /\ WF_vars(Finish(t))
            /\ WF_vars(JoinCheck)
            /\ WF_vars(JoinWake)
            /\ WF_vars(join = "idle" /\ joinWoken /\ JoinRegister)

SafeSpec == Init /\ [][Next]_vars
Spec == SafeSpec /\ Fairness
-----------------------------------------------------------------------------
TypeOK ==
    /\ items \in Seq(Tasks)
    /\ unfinished \in Nat
    /\ permit \in BOOLEAN
    /\ arrived \in {"off", "waiting", "ready", "notified"}
    /\ loop \in {"register", "polled", "look", "wait", "signal", "lastSignal", "dead"}
    /\ inFlight \in SUBSET Tasks
    /\ put \in [Tasks -> {"new", "pushed", "notified"}]
    /\ join \in {"idle", "check", "wait", "returned"}
    /\ joinWoken \in BOOLEAN

(* The tasks of one session never run side by side, and no more than        *)
(* MaxParallel tasks run: what try_pop_where's busy set is for.             *)
SessionSerial ==
    /\ Cardinality(inFlight) <= MaxParallel
    /\ \A t, u \in inFlight : SessionOf[t] = SessionOf[u] => t = u

(* `unfinished` counts exactly the queued tasks and those in flight, so the *)
(* saturating_sub of task_done never saturates and join() waits for what    *)
(* the queue's header says: the queued tasks have run, not been popped.     *)
UnfinishedCounts == unfinished = Len(items) + Cardinality(inFlight)

(* No lost wakeup: a loop that sleeps with nothing to wake it leaves no     *)
(* task it could start, unless the task's producer is still to notify.      *)
NoMissedWork ==
    (loop = "wait" /\ arrived = "waiting" /\ \E i \in DOMAIN items : CanTake(i))
       => \E t \in Tasks : put[t] = "pushed"

(* join() does not sleep past the moment the counter reached zero: while    *)
(* the counter is zero a sleeping joiner is woken or about to be.           *)
NoMissedIdle ==
    (join = "wait" /\ ~joinWoken /\ unfinished = 0) => loop \in {"signal", "lastSignal"}

(* Every queued task is run, unless the dispatcher is aborted.              *)
EveryTaskRuns ==
    \A t \in Tasks : (put[t] = "pushed") ~>
        (loop \in {"lastSignal", "dead"}
           \/ (t \notin inFlight /\ \A i \in DOMAIN items : items[i] # t))

(* A caller of join() returns once no more tasks are submitted; only an     *)
(* aborted dispatcher with tasks left in the queue can keep it.             *)
JoinReturns ==
    (join = "wait") ~> (join = "returned" \/ (loop = "dead" /\ items # <<>>))
-----------------------------------------------------------------------------
(* The loops implement the scheduler: the waiting tasks are the items.      *)
Scheduler == INSTANCE SessionScheduler WITH
    waiting <- items,
    busy <- inFlight,
    ended <- {t \in Tasks : put[t] # "new" /\ t \notin inFlight
                              /\ \A i \in DOMAIN items : items[i] # t},
    open <- loop \notin {"lastSignal", "dead"}

(* Sessions are served one task at a time and in order, and a waiting task  *)
(* of an idle session starts: no head-of-line blocking (queue.rs header).   *)
ImplementsScheduler == Scheduler!Spec
=============================================================================
