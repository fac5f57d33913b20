--------------------------- MODULE DingtalkStream ---------------------------
(***************************************************************************)
(* The Stream client of the DingTalk adapter (edge/internal/dingtalk): a    *)
(* read loop that answers system frames, events and card callbacks itself,  *)
(* and a dispatcher that hands the messages of the bot to core, one after   *)
(* the other, and acknowledges each with what core said.  The platform      *)
(* pushes again what was not acknowledged, or with an error; core knows an  *)
(* event it has taken by its event_id.  A card callback must be answered    *)
(* within two seconds: it is acknowledged first, and handed to core by a    *)
(* goroutine of its own; nobody pushes it again.                           *)
(*                                                                         *)
(* The platform, the network and core are modelled by what they do to the   *)
(* client.  Core may hang: then a call of the sink returns only when the    *)
(* context ends.                                                           *)
(***************************************************************************)
EXTENDS Naturals, Sequences, SequencesExt

CONSTANTS MaxConns, Messages, Cards,
          MaxFaults     \* dials and calls of the sink that fail, connections that break

VARIABLES
    starter,    \* where Start is
    attempt, reconnects, connected,
    conn,       \* the connections: wire, queue, dispatcher
    last,       \* the connection dialled last
    pushed,     \* what the platform knows of each message
    card,       \* what became of each card callback
    taken,      \* the messages core has taken
    hung,       \* core answers no more
    cancelled, faults

start == <<starter, attempt, reconnects, connected>>
vars == <<start, conn, last, pushed, card, taken, hung, cancelled, faults>>

Conns == 1..MaxConns
Frames == [kind : {"message"}, id : Messages] \cup [kind : {"card"}, id : Cards] \cup
          [kind : {"system", "disconnect"}, id : {0}]
Unused == [open |-> FALSE, cut |-> FALSE, reading |-> FALSE, wire |-> <<>>, queue |-> <<>>,
           at |-> "none", hand |-> <<>>]

Init ==
    /\ starter = "check" /\ attempt = FALSE /\ reconnects = 0 /\ connected = FALSE
    /\ conn = [c \in Conns |-> Unused] /\ last = 0
    /\ pushed = [m \in Messages |-> "new"]
    /\ card = [k \in Cards |-> "new"]
    /\ taken = {} /\ hung = FALSE /\ cancelled = FALSE /\ faults = 0
-----------------------------------------------------------------------------
Fault == faults < MaxFaults /\ faults' = faults + 1
Live(c) == conn[c].open /\ ~conn[c].cut

(* Start: every round opens a new connection with a ticket of its own, after *)
(* a delay when it is a retry.                                             *)
Begin ==
    /\ starter \in {"check", "sleep"}
    /\ starter' = IF cancelled THEN "inflight"
                  ELSE IF starter = "check" /\ attempt THEN "sleep" ELSE "connect"
    /\ UNCHANGED <<attempt, reconnects, connected, conn, last, pushed, card, taken, hung,
                   cancelled, faults>>

Connect ==
    /\ starter = "connect"
    /\ \/ /\ ~cancelled /\ last < MaxConns
          /\ last' = last + 1
          /\ conn' = [conn EXCEPT ![last + 1] =
                        [Unused EXCEPT !.open = TRUE, !.reading = TRUE, !.at = "idle"]]
          /\ reconnects' = IF attempt THEN reconnects + 1 ELSE reconnects
          /\ attempt' = FALSE /\ connected' = TRUE
          /\ starter' = "run"
          /\ UNCHANGED faults
       \/ /\ \/ cancelled /\ starter' = "inflight" /\ UNCHANGED <<attempt, faults>>
             \/ ~cancelled /\ Fault /\ starter' = "check" /\ attempt' = TRUE
          /\ UNCHANGED <<last, conn, reconnects, connected>>
    /\ UNCHANGED <<pushed, card, taken, hung, cancelled>>

(* run has returned: the connection is closed, and its dispatcher waited    *)
(* for, before the next round.                                             *)
Closed(c) == [conn EXCEPT ![c].open = FALSE, ![c].wire = <<>>]

RunReturns ==
    /\ starter = "run" /\ ~conn[last].reading
    /\ connected' = FALSE
    /\ conn' = Closed(last)
    /\ starter' = "close"
    /\ UNCHANGED <<attempt, reconnects, last, pushed, card, taken, hung, cancelled, faults>>

Close_WithoutWaiting ==
    /\ starter = "close"
    /\ starter' = IF cancelled THEN "inflight" ELSE "check"
    /\ attempt' = TRUE
    /\ UNCHANGED <<reconnects, connected, conn, last, pushed, card, taken, hung, cancelled, faults>>

Close ==
    /\ starter = "close" /\ conn[last].at = "done"
    /\ starter' = IF cancelled THEN "inflight" ELSE "check"
    /\ attempt' = TRUE
    /\ UNCHANGED <<reconnects, connected, conn, last, pushed, card, taken, hung, cancelled, faults>>

(* Start returns after the goroutines of the card callbacks *)
Return ==
    /\ starter = "inflight" /\ \A k \in Cards : card[k] # "sink"
    /\ starter' = "returned"
    /\ UNCHANGED <<attempt, reconnects, connected, conn, last, pushed, card, taken, hung,
                   cancelled, faults>>

Start == Begin \/ Connect \/ RunReturns \/ Close \/ Return

(* The watcher of the context closes the connection *)
CloseOnCancel ==
    /\ cancelled /\ last > 0 /\ conn[last].open
    /\ conn' = Closed(last)
    /\ UNCHANGED <<start, last, pushed, card, taken, hung, cancelled, faults>>
-----------------------------------------------------------------------------
(* The read loop.  Its acknowledgements are lost with the connection.       *)
Route(c, f) ==
    LET rest == [conn EXCEPT ![c].wire = Tail(@)] IN
    CASE f.kind = "message" ->
            conn' = [rest EXCEPT ![c].queue = Append(@, f.id)] /\ UNCHANGED card
      [] f.kind = "card" -> conn' = rest /\ card' = [card EXCEPT ![f.id] = "sink"]
      [] f.kind = "disconnect" -> conn' = [rest EXCEPT ![c].reading = FALSE] /\ UNCHANGED card
      [] OTHER -> conn' = rest /\ UNCHANGED card

Read(c) ==
    /\ conn[c].reading /\ conn[c].open /\ conn[c].wire # <<>>
    /\ Route(c, Head(conn[c].wire))
    /\ UNCHANGED <<start, last, pushed, taken, hung, cancelled, faults>>

ReadFails(c) ==
    /\ conn[c].reading
    /\ ~conn[c].open \/ (conn[c].cut /\ conn[c].wire = <<>>)
    /\ conn' = [conn EXCEPT ![c].reading = FALSE]
    /\ UNCHANGED <<start, last, pushed, card, taken, hung, cancelled, faults>>

(* dispatchLoop: what is left in the queue of a closed connection stays     *)
(* unacknowledged.                                                         *)
Dispatch(c) ==
    /\ conn[c].at = "idle"
    /\ \/ conn[c].open /\ conn[c].queue # <<>>
          /\ conn' = [conn EXCEPT ![c].at = "sink", ![c].hand = <<Head(conn[c].queue)>>,
                                  ![c].queue = Tail(@)]
       \/ ~conn[c].open /\ conn' = [conn EXCEPT ![c].at = "done"]
    /\ UNCHANGED <<start, last, pushed, card, taken, hung, cancelled, faults>>

SinkAnswers == ~hung \/ cancelled
Ack(c, m, result) ==
    pushed' = IF Live(c) /\ pushed[m] = "out" THEN [pushed EXCEPT ![m] = result] ELSE pushed

(* handleBotMessage has returned: 200 when core took it, 500 when not       *)
Handled(c) ==
    /\ conn[c].at = "sink" /\ SinkAnswers
    /\ conn' = [conn EXCEPT ![c].at = "idle", ![c].hand = <<>>]
    /\ LET m == conn[c].hand[1] IN
       \/ taken' = taken \cup {m} /\ UNCHANGED faults /\ Ack(c, m, "done")
       \/ /\ IF cancelled THEN UNCHANGED faults ELSE Fault
          /\ UNCHANGED taken /\ Ack(c, m, "new")
    /\ UNCHANGED <<start, last, card, hung, cancelled>>

(* The goroutine of a card callback: what fails here is only logged         *)
CardHandled(k) ==
    /\ card[k] = "sink" /\ SinkAnswers
    /\ \/ card' = [card EXCEPT ![k] = "taken"] /\ UNCHANGED faults
       \/ card' = [card EXCEPT ![k] = "lost"] /\ IF cancelled THEN UNCHANGED faults ELSE Fault
    /\ UNCHANGED <<start, conn, last, pushed, taken, hung, cancelled>>
-----------------------------------------------------------------------------
(* The platform, the network, core and the process.                        *)
Send(c, f) == conn' = [conn EXCEPT ![c].wire = Append(@, f)]

Push(m) ==
    /\ last > 0 /\ Live(last) /\ conn[last].reading /\ pushed[m] = "new"
    /\ pushed' = [pushed EXCEPT ![m] = "out"]
    /\ Send(last, [kind |-> "message", id |-> m])
    /\ UNCHANGED <<start, last, card, taken, hung, cancelled, faults>>

PushCard(k) ==
    /\ last > 0 /\ Live(last) /\ conn[last].reading /\ card[k] = "new"
    /\ card' = [card EXCEPT ![k] = "out"]
    /\ Send(last, [kind |-> "card", id |-> k])
    /\ UNCHANGED <<start, last, pushed, taken, hung, cancelled, faults>>

(* One at a time, a ping or, with a fault, the order to disconnect *)
PushSystem ==
    /\ last > 0 /\ Live(last) /\ conn[last].reading
    /\ ~\E i \in DOMAIN conn[last].wire : conn[last].wire[i].kind \in {"system", "disconnect"}
    /\ \/ Fault /\ Send(last, [kind |-> "disconnect", id |-> 0])
       \/ UNCHANGED faults /\ Send(last, [kind |-> "system", id |-> 0])
    /\ UNCHANGED <<start, last, pushed, card, taken, hung, cancelled>>

(* The connection is gone for the platform: what it pushed there and nobody *)
(* acknowledged is to be pushed again.                                     *)
Forget == [m \in Messages |-> IF pushed[m] = "out" THEN "new" ELSE pushed[m]]
Break(c) ==
    /\ conn[c].at # "none" /\ ~conn[c].cut
    /\ \/ conn[c].open /\ Fault
          /\ \E w \in {<<>>, conn[c].wire} :
                conn' = [conn EXCEPT ![c].cut = TRUE, ![c].wire = w]
       \/ ~conn[c].open /\ UNCHANGED faults /\ conn' = [conn EXCEPT ![c].cut = TRUE]
    /\ pushed' = Forget
    /\ UNCHANGED <<start, last, card, taken, hung, cancelled>>

Hang == ~hung /\ hung' = TRUE
        /\ UNCHANGED <<start, conn, last, pushed, card, taken, cancelled, faults>>
Cancel == ~cancelled /\ cancelled' = TRUE
          /\ UNCHANGED <<start, conn, last, pushed, card, taken, hung, faults>>

Next == \/ Start \/ CloseOnCancel \/ PushSystem \/ Hang \/ Cancel
        \/ \E c \in Conns : Read(c) \/ ReadFails(c) \/ Dispatch(c) \/ Handled(c) \/ Break(c)
        \/ \E m \in Messages : Push(m)
        \/ \E k \in Cards : PushCard(k) \/ CardHandled(k)

(* Goroutines run, core answers while it does not hang, and the platform    *)
(* pushes what is not acknowledged and notices a closed connection.  Its    *)
(* pings, and pushes that core refuses, may go on for ever: hence a clause  *)
(* of its own for Start with its watcher, and for the read loop.            *)
Work == Start \/ CloseOnCancel
Reading == \E c \in Conns : Read(c)
Pushing == \/ \E c \in Conns : \/ ReadFails(c) \/ Dispatch(c) \/ Handled(c)
                               \/ ~conn[c].open /\ Break(c)
           \/ \E m \in Messages : Push(m)
           \/ \E k \in Cards : CardHandled(k)

Spec == Init /\ [][Next]_vars /\ WF_vars(Work) /\ WF_vars(Reading) /\ WF_vars(Pushing)
-----------------------------------------------------------------------------
TypeOK ==
    /\ starter \in {"check", "sleep", "connect", "run", "close", "inflight", "returned"}
    /\ {attempt, connected, hung, cancelled} \subseteq BOOLEAN
    /\ last \in 0..MaxConns /\ reconnects \in 0..last
    /\ \A c \in Conns :
          /\ {conn[c].open, conn[c].cut, conn[c].reading} \subseteq BOOLEAN
          /\ Range(conn[c].wire) \subseteq Frames
          /\ Range(conn[c].queue) \cup Range(conn[c].hand) \subseteq Messages
          /\ conn[c].at \in {"none", "idle", "sink", "done"}
          /\ conn[c].at = "sink" <=> conn[c].hand # <<>>
    /\ pushed \in [Messages -> {"new", "out", "done"}]
    /\ card \in [Cards -> {"new", "out", "sink", "taken", "lost"}]
    /\ taken \subseteq Messages /\ faults \in 0..MaxFaults

(* What the platform will not push again, core has taken: the client never  *)
(* acknowledges on its own account.                                        *)
AckedIsTaken == \A m \in Messages : pushed[m] = "done" => m \in taken

(* Core gets one message at a time, also while a broken connection's last   *)
(* call is still running and the next connection already pushes.           *)
OneAtATime == \A c, d \in Conns : conn[c].at = "sink" /\ conn[d].at = "sink" => c = d

(* After Start has returned nothing calls core any more *)
QuietAfterReturn ==
    starter = "returned" => /\ \A c \in Conns : conn[c].at # "sink"
                            /\ \A k \in Cards : card[k] # "sink"

(* In the end every message is taken, unless core hangs or edge stops: what *)
(* core refused, or a connection took down with it, is pushed again.  A     *)
(* core that hangs keeps no ping and no card callback waiting: the read     *)
(* loop takes what arrives, whatever the dispatcher waits for.  And Start   *)
(* returns when its context ends.                                          *)
Settled == /\ Messages \subseteq taken \/ hung \/ cancelled
           /\ \A c \in Conns : conn[c].wire = <<>>
           /\ cancelled => starter = "returned"
Settles == []<>Settled
=============================================================================
