-------------------------- MODULE SessionScheduler --------------------------
(***************************************************************************)
(* What the dispatch of core/crates/control promises, without queues,      *)
(* notifications or loops: the tasks of one session run one at a time and  *)
(* in the order they were submitted, at most MaxParallel tasks run at      *)
(* once, a task of an idle session is never held up by a busy one, and the *)
(* scheduler may be closed, which drops whatever is running.               *)
(***************************************************************************)
EXTENDS Naturals, Sequences, FiniteSets

CONSTANTS Tasks,        \* the tasks that may be submitted
          Sessions,     \* the sessions they belong to
          SessionOf,    \* the session of each task
          MaxParallel   \* how many tasks may run at once

VARIABLES waiting,      \* the submitted tasks that have not started, oldest first
          busy,         \* the tasks that run
          ended,        \* the tasks that have run to their end
          open          \* FALSE once the scheduler is closed

vars == <<waiting, busy, ended, open>>

Submitted == busy \cup ended \cup {waiting[i] : i \in DOMAIN waiting}

Init == /\ waiting = <<>>
        /\ busy = {}
        /\ ended = {}
        /\ open = TRUE

Submit(t) ==
    /\ t \notin Submitted
    /\ waiting' = Append(waiting, t)
    /\ UNCHANGED <<busy, ended, open>>

Without(i) == SubSeq(waiting, 1, i - 1) \o SubSeq(waiting, i + 1, Len(waiting))

OldestOf(s, i) ==
    /\ SessionOf[waiting[i]] = s
    /\ \A j \in 1..(i - 1) : SessionOf[waiting[j]] # s

(* The oldest task of an idle session starts. *)
Start(s) ==
    /\ open
    /\ \A t \in busy : SessionOf[t] # s
    /\ Cardinality(busy) < MaxParallel
    /\ \E i \in DOMAIN waiting :
          /\ OldestOf(s, i)
          /\ busy' = busy \cup {waiting[i]}
          /\ waiting' = Without(i)
    /\ UNCHANGED <<ended, open>>

Finish(t) ==
    /\ t \in busy
    /\ busy' = busy \ {t}
    /\ ended' = ended \cup {t}
    /\ UNCHANGED <<waiting, open>>

(* Shutdown: the running tasks are dropped where they stand. *)
Close ==
    /\ open
    /\ open' = FALSE
    /\ busy' = {}
    /\ ended' = ended \cup busy
    /\ UNCHANGED waiting

Next == \/ \E t \in Tasks : Submit(t) \/ Finish(t)
        \/ \E s \in Sessions : Start(s)
        \/ Close

Fairness == /\ \A s \in Sessions : SF_vars(Start(s))
            /\ \A t \in Tasks : WF_vars(Finish(t))

SafeSpec == Init /\ [][Next]_vars
Spec == SafeSpec /\ Fairness
=============================================================================
