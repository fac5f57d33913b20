--------------------------- MODULE CardCoalescer ---------------------------
(***************************************************************************)
(* The card of one run (worker/src/card.rs): sent once, then updated, and   *)
(* changes within half a second of an update wait for the next occasion.    *)
(* There is no timer: the end of a step, a nudge and the end of the run are *)
(* the occasions, and the last one always updates.  update_card may fail,   *)
(* with the card changed or not, and ends the run through fail().  A worker *)
(* may be abandoned in the middle of all this; whoever cancels its task     *)
(* then writes to the card too, from the row of the task.                   *)
(***************************************************************************)
EXTENDS Naturals, Sequences

CONSTANTS MaxChanges,   \* changes of the checklist
          MaxRefreshes, \* steps that refresh the card
          MaxFaults     \* calls that fail

VARIABLES
    phase,      \* of the run
    failing,    \* fail() runs
    content,    \* how many changes the checklist has had
    row,        \* the task in the store: whether it names a card, and its checklist
    due,        \* half a second has passed since the last update
    pending,    \* the card that waits, or None
    merged,     \* the changes that wait, which the next update tells the chain
    inAir,      \* the update on its way, or None
    shown,      \* what the platform shows, None before the card is sent
    asked, told, lost,  \* changes of the card; those the chain tells of; those whose record failed
    faults

card == <<due, pending, merged, inAir, shown>>
count == <<asked, told, lost>>
vars == <<phase, failing, content, row, card, count, faults>>

None == <<>>
View(status, n) == <<[status |-> status, content |-> n]>>
Over == {"delivered", "failed", "cancelled"}

Init ==
    /\ phase = "step" /\ failing = FALSE /\ content = 0
    /\ row = [card |-> FALSE, content |-> 0]
    /\ due = FALSE /\ pending = None /\ merged = 0 /\ inAir = None /\ shown = None
    /\ asked = 0 /\ told = 0 /\ lost = 0 /\ faults = 0
-----------------------------------------------------------------------------
Fault == faults < MaxFaults /\ faults' = faults + 1
Sent == shown # None

(* What is left after an error: fail(), unless it is fail() that failed.    *)
Raise == phase' = IF failing THEN "broken" ELSE "fail"

(* ensure_card: the first time only; then the row is saved with its id.     *)
Send ==
    /\ phase = "step" /\ ~Sent
    /\ \/ /\ shown' = View("working", content)
          /\ due' = FALSE /\ pending' = None /\ merged' = 0
          /\ phase' = "sent"
          /\ UNCHANGED faults
       \/ Fault /\ Raise /\ UNCHANGED <<due, pending, merged, shown>>
    /\ UNCHANGED <<failing, content, row, inAir, count>>

SaveCard ==
    /\ phase = "sent"
    /\ \/ row' = [card |-> TRUE, content |-> content] /\ phase' = "step" /\ UNCHANGED faults
       \/ Fault /\ Raise /\ UNCHANGED row     \* the record of the card, or the save
    /\ UNCHANGED <<failing, content, card, count>>

(* A tool of the checklist, after ensure_card.                              *)
Change ==
    /\ phase = "step" /\ Sent /\ content < MaxChanges
    /\ content' = content + 1
    /\ UNCHANGED <<phase, failing, row, card, count, faults>>

(* flush: what waits is taken and is on its way.                            *)
Flush(view, to) ==
    /\ inAir' = view
    /\ pending' = None
    /\ due' = FALSE
    /\ phase' = to

(* refresh_card at the end of a step.                                       *)
Refresh ==
    /\ phase = "step" /\ Sent /\ asked < MaxRefreshes
    /\ asked' = asked + 1 /\ merged' = merged + 1
    /\ IF due THEN Flush(View("working", content), "push")
       ELSE /\ pending' = View("working", content)
            /\ phase' = "save"
            /\ UNCHANGED <<due, inAir>>
    /\ UNCHANGED <<failing, content, row, shown, told, lost, faults>>

Save ==
    /\ phase = "save"
    /\ row' = [row EXCEPT !.content = content]
    /\ phase' = "step"
    /\ UNCHANGED <<failing, content, card, count, faults>>

(* maybe_flush at a nudge: what waits may be older than the checklist.      *)
Nudge ==
    /\ phase = "step" /\ pending # None /\ due
    /\ Flush(pending, "nudged")
    /\ UNCHANGED <<failing, content, row, merged, shown, count, faults>>

Tick ==
    /\ ~due /\ Sent
    /\ due' = TRUE
    /\ UNCHANGED <<phase, failing, content, row, pending, merged, inAir, shown, count, faults>>

(* close_card, the last of the run: with what the checklist is by now.      *)
Close(status) ==
    /\ \/ phase = "step" /\ status \in {"delivered", "failed", "cancelled"} /\ UNCHANGED failing
       \/ phase = "fail" /\ status = "failed" /\ failing' = TRUE
    /\ IF ~Sent THEN phase' = "over" /\ UNCHANGED <<due, pending, merged, inAir, count>>
       ELSE /\ asked' = asked + 1 /\ merged' = merged + 1
            /\ Flush(View(status, content), "close")
            /\ UNCHANGED <<told, lost>>
    /\ UNCHANGED <<content, row, shown, faults>>

Then == CASE phase = "push" -> "save" [] phase = "nudged" -> "step" [] phase = "close" -> "over"

(* update_card has answered: the chain is told how many changes it was.     *)
Pushed ==
    /\ phase \in {"push", "nudged", "close"}
    /\ inAir' = None
    /\ \/ /\ shown' = inAir /\ merged' = 0
          /\ \/ told' = told + merged /\ phase' = Then /\ UNCHANGED <<lost, faults>>
             \/ lost' = lost + merged /\ Fault /\ Raise /\ UNCHANGED told   \* no record of it
       \/ shown' \in {shown, inAir} /\ Fault /\ Raise /\ UNCHANGED <<merged, told, lost>>
    /\ UNCHANGED <<failing, content, row, due, pending, asked>>

(* The run is dropped (replaced as stuck, or at the shutdown); what was on  *)
(* its way may still land, also after the card of the cancellation.         *)
Abandon ==
    /\ phase \notin {"over", "broken", "abandoned", "cancelled"}
    /\ phase' = "abandoned"
    /\ UNCHANGED <<failing, content, row, card, count, faults>>

Land ==
    /\ phase \in {"abandoned", "cancelled"} /\ inAir # None
    /\ inAir' = None /\ shown' \in {shown, inAir}
    /\ UNCHANGED <<phase, failing, content, row, due, pending, merged, count, faults>>

(* cancel_task: if the row names a card; a failure is only logged.          *)
CancelCard ==
    /\ phase = "abandoned"
    /\ phase' = "cancelled"
    /\ \/ row.card /\ shown' = View("cancelled", row.content) /\ UNCHANGED faults
       \/ row.card /\ Fault /\ UNCHANGED shown
       \/ ~row.card /\ UNCHANGED <<shown, faults>>
    /\ UNCHANGED <<failing, content, row, due, pending, merged, inAir, count>>

Run == Send \/ SaveCard \/ Refresh \/ Save \/ Pushed \/ \E s \in Over : Close(s)

Next == Run \/ Change \/ Nudge \/ Tick \/ Abandon \/ Land \/ CancelCard

(* The run goes on to its end, and who abandoned it cancels the task.       *)
Work == Run \/ Land \/ CancelCard

Spec == Init /\ [][Next]_vars /\ WF_vars(Work)
-----------------------------------------------------------------------------
TypeOK ==
    /\ phase \in {"step", "sent", "save", "push", "nudged", "fail", "close", "over", "broken",
                  "abandoned", "cancelled"}
    /\ content \in 0..MaxChanges /\ row.content <= content
    /\ Len(pending) <= 1 /\ Len(inAir) <= 1 /\ Len(shown) <= 1
    /\ phase \in {"push", "nudged", "close"} => inAir # None

(* A run that ends by itself leaves the card closed, and with the checklist *)
(* as it was in the end, however many changes were held back (force_flush). *)
ClosingIsShown ==
    phase = "over" /\ Sent => shown[1].status \in Over /\ shown[1].content = content

(* The chain tells of every change of the card that was pushed, once, and   *)
(* also those of an update that failed, with the next one (card.rs merged). *)
AllTold == asked = told + lost + merged /\ (phase = "over" /\ lost = 0 => asked = told)

(* An update of the run never takes the card back to an older checklist,    *)
(* nor from its end to its work, also when it fails or was held back.       *)
NeverBack ==
    Sent /\ shown' # None /\ phase \notin {"abandoned", "cancelled"} =>
        /\ shown'[1].content >= shown[1].content
        /\ shown[1].status \in Over => shown'[1].status \in Over

Settled == phase \in {"over", "broken", "cancelled"} /\ inAir = None

(* Not kept: the update of an abandoned run may land on that of the         *)
(* cancellation (dispatch.rs:464 does not wait for it, card.rs:233).        *)
CancelledIsShown == phase = "cancelled" /\ row.card /\ faults = 0 => shown[1].status \in Over
=============================================================================
