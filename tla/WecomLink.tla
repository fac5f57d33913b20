------------------------------ MODULE WecomLink ------------------------------
(***************************************************************************)
(* The long connection of the WeCom adapter (edge/internal/wecom): one      *)
(* goroutine runs Start, and every connection has a read loop, which sorts  *)
(* frames into answers and callbacks, and a dispatcher, which handles the   *)
(* callbacks in the order they came.  The platform allows a bot one         *)
(* connection: who connects next has the one before told so                 *)
(* (disconnected_event) and closed; the adapter then stands by for good,    *)
(* for two hosts that both reconnect would kick each other for ever.        *)
(*                                                                         *)
(* The platform, the other host and the network are modelled by what they   *)
(* send; answers, pings and callbacks may be lost with the connection.      *)
(***************************************************************************)
EXTENDS Naturals, Sequences, SequencesExt

CONSTANTS MaxDials,     \* connections dialled
          MaxEvents,    \* messages the platform pushes
          MaxWelcomes,  \* enter_chat callbacks
          MaxFaults,    \* dials, subscriptions and connections that fail
          QueueCap      \* callbackQueue: 256 in the code

VARIABLES
    starter,    \* where Start is
    attempt,    \* whether the next dial is a retry
    reconnects, \* reconnectCount
    standby, connected,
    cur,        \* the connection requests are sent on, 0 for none
    dials,      \* how many connections have been dialled
    conn,       \* the connections
    handed,     \* the events handed to the sink, in order
    sent,       \* how many events and welcomes the platform has sent
    cancelled,  \* the context of Start
    faults

link == <<starter, attempt, reconnects, connected, cur, dials>>
vars == <<link, standby, conn, handed, sent, cancelled, faults>>

Conns == 1..MaxDials
Disc == [kind |-> "disc", n |-> 0]
Frames == {Disc} \cup [kind : {"event"}, n : 1..MaxEvents] \cup
          [kind : {"enter", "subOk", "subBad", "welOk"}, n : {0}]
Nothing == <<>>     \* no frame in hand; otherwise the sequence of one frame

Unused == [open |-> FALSE, cut |-> FALSE, wire |-> <<>>, reading |-> FALSE, holding |-> Nothing,
           queue |-> <<>>, at |-> "none", hand |-> Nothing, sub |-> "none", wel |-> "none"]
Dialled == [Unused EXCEPT !.open = TRUE, !.reading = TRUE, !.at = "idle", !.sub = "asked"]

Init ==
    /\ starter = "check" /\ attempt = FALSE /\ reconnects = 0
    /\ standby = FALSE /\ connected = FALSE /\ cur = 0 /\ dials = 0
    /\ conn = [c \in Conns |-> Unused]
    /\ handed = <<>>
    /\ sent = [event |-> 0, enter |-> 0, disc |-> FALSE]
    /\ cancelled = FALSE /\ faults = 0
-----------------------------------------------------------------------------
Fault == faults < MaxFaults /\ faults' = faults + 1
Live(c) == conn[c].open /\ ~conn[c].cut
Closed(c) == [conn EXCEPT ![c].open = FALSE]
Dispatched(c) == conn[c].at = "done"

(* Start, at the top of its loop: stop, stand by, or dial, after a delay    *)
(* when this is a retry.  Only the end of its context makes it return.      *)
Check ==
    /\ starter = "check"
    /\ starter' = CASE cancelled -> "returned"
                    [] ~cancelled /\ standby -> "parked"
                    [] OTHER -> IF attempt THEN "sleep" ELSE "dial"
    /\ UNCHANGED <<attempt, reconnects, connected, cur, dials, standby, conn, handed, sent,
                   cancelled, faults>>

Sleep ==
    /\ \/ starter = "sleep" /\ starter' = IF cancelled THEN "returned" ELSE "dial"
       \/ starter = "parked" /\ cancelled /\ starter' = "returned"
    /\ UNCHANGED <<attempt, reconnects, connected, cur, dials, standby, conn, handed, sent,
                   cancelled, faults>>

(* connectOnce: dial, start the read loop and the dispatcher, subscribe     *)
Dial ==
    /\ starter = "dial"
    /\ \/ /\ ~cancelled /\ dials < MaxDials
          /\ dials' = dials + 1
          /\ conn' = [conn EXCEPT ![dials + 1] = Dialled]
          /\ starter' = "subscribe"
          /\ UNCHANGED <<attempt, faults>>
       \/ /\ \/ cancelled /\ starter' = "returned" /\ UNCHANGED <<attempt, faults>>
             \/ ~cancelled /\ Fault /\ starter' = "check" /\ attempt' = TRUE
          /\ UNCHANGED <<dials, conn>>
    /\ UNCHANGED <<reconnects, connected, cur, standby, handed, sent, cancelled>>

(* The answer to the subscription; then the connection is the current one.  *)
(* select takes any of the cases that are ready.                           *)
Subscribed ==
    /\ starter = "subscribe" /\ conn[dials].sub = "ok"
    /\ starter' = "online"
    /\ reconnects' = IF attempt THEN reconnects + 1 ELSE reconnects
    /\ attempt' = FALSE
    /\ cur' = dials /\ connected' = TRUE
    /\ UNCHANGED <<dials, standby, conn, handed, sent, cancelled, faults>>

SubscribeFails_WaitsForAnswer ==
    /\ starter = "subscribe"
    /\ conn[dials].sub = "bad" \/ cancelled
    /\ UNCHANGED faults
    /\ conn' = Closed(dials)
    /\ starter' = "abandon"
    /\ UNCHANGED <<attempt, reconnects, connected, cur, dials, standby, handed, sent, cancelled>>

SubscribeFails ==
    /\ starter = "subscribe"
    /\ \/ (conn[dials].sub = "bad" \/ ~conn[dials].open \/ cancelled) /\ UNCHANGED faults
       \/ conn[dials].sub \in {"asked", "sent"} /\ Fault      \* the answer takes too long
    /\ conn' = Closed(dials)
    /\ starter' = "abandon"
    /\ UNCHANGED <<attempt, reconnects, connected, cur, dials, standby, handed, sent, cancelled>>

(* The connection is gone, or the context has ended and it is closed        *)
CloseOnCancel ==
    /\ starter = "online" /\ cancelled /\ conn[dials].open
    /\ conn' = Closed(dials)
    /\ UNCHANGED <<link, standby, handed, sent, cancelled, faults>>

Lost ==
    /\ starter = "online" /\ ~conn[dials].reading
    /\ connected' = FALSE
    /\ cur' = 0
    /\ starter' = "drain"
    /\ UNCHANGED <<attempt, reconnects, dials, standby, conn, handed, sent, cancelled, faults>>

(* The callbacks that were read are handled before the next dial: among     *)
(* them may be the one that says to stand by.                              *)
Drained ==
    /\ starter \in {"drain", "abandon"} /\ Dispatched(dials)
    /\ starter' = IF cancelled THEN "returned" ELSE "check"
    /\ attempt' = TRUE
    /\ UNCHANGED <<reconnects, connected, cur, dials, standby, conn, handed, sent, cancelled, faults>>

Start == \/ Check \/ Sleep \/ Dial \/ Subscribed \/ SubscribeFails
         \/ CloseOnCancel \/ Lost \/ Drained
-----------------------------------------------------------------------------
(* readLoop: answers to whoever waits, callbacks to the queue, on which the *)
(* loop waits when it is full.                                             *)
Answer(k, f) == IF f.kind = "subOk" THEN [k EXCEPT !.sub = "ok"]
                ELSE IF f.kind = "subBad" THEN [k EXCEPT !.sub = "bad"]
                ELSE [k EXCEPT !.wel = IF @ = "sent" THEN "ok" ELSE @]

Read(c) ==
    LET k == conn[c]
        rest == [k EXCEPT !.wire = Tail(@)]
    IN  /\ k.reading /\ k.open /\ k.holding = Nothing /\ k.wire # <<>>
        /\ conn' = [conn EXCEPT ![c] =
                IF Head(k.wire).kind \in {"event", "enter", "disc"}
                THEN [rest EXCEPT !.holding = <<Head(k.wire)>>]
                ELSE Answer(rest, Head(k.wire))]
        /\ UNCHANGED <<link, standby, handed, sent, cancelled, faults>>

Queue(c) ==
    /\ conn[c].reading /\ conn[c].holding # Nothing /\ Len(conn[c].queue) < QueueCap
    /\ conn' = [conn EXCEPT ![c].queue = @ \o conn[c].holding, ![c].holding = Nothing]
    /\ UNCHANGED <<link, standby, handed, sent, cancelled, faults>>

(* ReadMessage fails once the connection is closed or silent for two ping   *)
(* periods; a callback that waits for room goes down with the connection.   *)
ReadEnds(c) ==
    /\ conn[c].reading
    /\ ~conn[c].open \/ (conn[c].cut /\ conn[c].wire = <<>> /\ conn[c].holding = Nothing)
    /\ conn' = [conn EXCEPT ![c].reading = FALSE, ![c].open = FALSE, ![c].holding = Nothing,
                            ![c].wire = <<>>]
    /\ UNCHANGED <<link, standby, handed, sent, cancelled, faults>>

ReadLoop(c) == Read(c) \/ Queue(c) \/ ReadEnds(c)

(* dispatchLoop: until the queue is empty and the read loop has closed it   *)
Take(c) ==
    /\ conn[c].at = "idle"
    /\ \/ /\ conn[c].queue # <<>>
          /\ conn' = [conn EXCEPT ![c].at = "handle", ![c].hand = <<Head(conn[c].queue)>>,
                                  ![c].queue = Tail(@)]
       \/ /\ conn[c].queue = <<>> /\ ~conn[c].reading
          /\ conn' = [conn EXCEPT ![c].at = "done"]
    /\ UNCHANGED <<link, standby, handed, sent, cancelled, faults>>

InHand(c, kind) == conn[c].at = "handle" /\ conn[c].hand[1].kind = kind
Idle(c) == [conn EXCEPT ![c].at = "idle", ![c].hand = Nothing]

(* handleMessage and the card events: the sink is called and waited for;    *)
(* what it answers is logged, the platform has no way to be told.           *)
Deliver(c) ==
    /\ \/ /\ InHand(c, "event")
          /\ handed' = Append(handed, conn[c].hand[1].n)
          /\ conn' = [conn EXCEPT ![c].at = "sink"]
       \/ /\ conn[c].at = "sink"
          /\ conn' = Idle(c) /\ UNCHANGED handed
    /\ UNCHANGED <<link, standby, sent, cancelled, faults>>

(* sendWelcome: within five seconds, and on this connection; its answer     *)
(* comes through the read loop, or the wait ends.                          *)
Welcome(c) ==
    /\ InHand(c, "enter")
    /\ \/ conn' = Idle(c)
       \/ conn[c].open /\ conn' = [conn EXCEPT ![c].at = "welcome", ![c].wel = "asked"]
    /\ UNCHANGED <<link, standby, handed, sent, cancelled, faults>>

(* answered, cancelled, closed or, after ackTimeout, given up *)
WelcomeEnds(c) ==
    /\ conn[c].at = "welcome"
    /\ conn' = [Idle(c) EXCEPT ![c].wel = "none"]
    /\ UNCHANGED <<link, standby, handed, sent, cancelled, faults>>

EnterStandby(c) ==
    /\ InHand(c, "disc")
    /\ standby' = TRUE /\ connected' = FALSE
    /\ conn' = [Idle(c) EXCEPT ![c].open = FALSE]
    /\ UNCHANGED <<starter, attempt, reconnects, cur, dials, handed, sent, cancelled, faults>>

Dispatcher(c) == Take(c) \/ Deliver(c) \/ Welcome(c) \/ WelcomeEnds(c) \/ EnterStandby(c)
-----------------------------------------------------------------------------
(* The platform and the network.                                           *)
Push(c, f) == conn' = [conn EXCEPT ![c].wire = Append(@, f)]
Accepted(c) == conn[c].sub \in {"sent", "ok"}

AnswerSubscribe(c) ==
    /\ Live(c) /\ conn[c].sub = "asked"
    /\ \E k \in {"subOk", "subBad"} :
          /\ conn' = [conn EXCEPT ![c].sub = "sent", ![c].wire = <<[kind |-> k, n |-> 0]>>]
          /\ IF k = "subOk" THEN UNCHANGED faults ELSE Fault
    /\ UNCHANGED <<link, standby, handed, sent, cancelled>>

AnswerWelcome(c) ==
    /\ Live(c) /\ conn[c].wel = "asked"
    /\ conn' = [conn EXCEPT ![c].wel = "sent", ![c].wire = Append(@, [kind |-> "welOk", n |-> 0])]
    /\ UNCHANGED <<link, standby, handed, sent, cancelled, faults>>

PushCallback(c) ==
    /\ Live(c) /\ Accepted(c)
    /\ \/ /\ sent.event < MaxEvents /\ sent' = [sent EXCEPT !.event = @ + 1]
          /\ Push(c, [kind |-> "event", n |-> sent.event + 1])
       \/ /\ sent.enter < MaxWelcomes /\ sent' = [sent EXCEPT !.enter = @ + 1]
          /\ Push(c, [kind |-> "enter", n |-> 0])
    /\ UNCHANGED <<link, standby, handed, cancelled, faults>>

(* The other host connects: this one is told, and closed *)
Kick(c) ==
    /\ Live(c) /\ Accepted(c) /\ ~sent.disc
    /\ sent' = [sent EXCEPT !.disc = TRUE]
    /\ conn' = [conn EXCEPT ![c].wire = Append(@, Disc), ![c].cut = TRUE]
    /\ UNCHANGED <<link, standby, handed, cancelled, faults>>

(* The connection breaks; what is under way may or may not arrive *)
Break(c) ==
    /\ Live(c) /\ Fault
    /\ \E w \in {<<>>, conn[c].wire} : conn' = [conn EXCEPT ![c].cut = TRUE, ![c].wire = w]
    /\ UNCHANGED <<link, standby, handed, sent, cancelled>>

(* pingLoop: a ping that cannot be written closes the connection here too   *)
PingFails(c) ==
    /\ cur = c /\ conn[c].cut /\ conn[c].open
    /\ conn' = Closed(c)
    /\ UNCHANGED <<link, standby, handed, sent, cancelled, faults>>

Cancel ==
    /\ ~cancelled /\ cancelled' = TRUE
    /\ UNCHANGED <<link, standby, conn, handed, sent, faults>>

Outside == \/ Cancel
           \/ \E c \in Conns : AnswerWelcome(c) \/ PushCallback(c) \/ Kick(c) \/ Break(c)
                              \/ PingFails(c)

Next == \/ Start
        \/ \E c \in Conns : ReadLoop(c) \/ Dispatcher(c) \/ AnswerSubscribe(c)
        \/ Outside

(* Goroutines run; a subscription is answered.  Nothing is assumed of the   *)
(* other host, the network or the user.  Fairness of the whole is enough:   *)
(* connections, callbacks and faults are bounded.                          *)
Work == Start \/ \E c \in Conns : ReadLoop(c) \/ Dispatcher(c) \/ AnswerSubscribe(c)

Spec == Init /\ [][Next]_vars /\ WF_vars(Work)
-----------------------------------------------------------------------------
TypeOK ==
    /\ starter \in {"check", "sleep", "dial", "subscribe", "abandon", "online", "drain",
                    "parked", "returned"}
    /\ {attempt, standby, connected, cancelled} \subseteq BOOLEAN
    /\ reconnects \in 0..MaxDials /\ cur \in {0, dials} /\ dials \in 0..MaxDials
    /\ \A c \in Conns :
          /\ {conn[c].open, conn[c].cut, conn[c].reading} \subseteq BOOLEAN
          /\ conn[c].queue \in BoundedSeq(Frames, QueueCap)
          /\ {conn[c].holding, conn[c].hand} \subseteq BoundedSeq(Frames, 1)
          /\ Range(conn[c].wire) \subseteq Frames
          /\ conn[c].at \in {"none", "idle", "handle", "sink", "welcome", "done"}
          /\ conn[c].sub \in {"none", "asked", "sent", "ok", "bad"}
          /\ conn[c].wel \in {"none", "asked", "sent", "ok"}
    /\ Range(handed) \subseteq 1..MaxEvents
    /\ faults \in 0..MaxFaults

(* Events reach the sink in the order the platform sent them, each once,    *)
(* also across a reconnection: the new connection is not dialled while the  *)
(* dispatcher of the old one still has callbacks.                          *)
InOrder == \A i, j \in DOMAIN handed : i < j => handed[i] < handed[j]

(* A host that has been told to stand by never dials again: the order to    *)
(* stand by is handled before Start looks whether to reconnect.            *)
StandsAside == [][standby => dials' = dials]_vars

(* In the end a host that is offline is back, unless it stands by or is     *)
(* stopped: no lost answer and no dead connection keeps Start waiting.  One *)
(* on standby says it is offline, in whatever order Start and the dispatcher *)
(* set connected.  What was read is handled, although the dispatcher may    *)
(* wait for an answer that the read loop, waiting for room, cannot read.    *)
(* And Start returns when its context ends, from wherever it is.            *)
Settled == /\ connected \/ standby \/ cancelled
           /\ standby => ~connected
           /\ \A c \in Conns : conn[c].queue = <<>>
           /\ cancelled => starter = "returned"
Settles == []<>Settled
-----------------------------------------------------------------------------
(* Not kept by the code.  Connected() is not false throughout standby: the  *)
(* order may be handled between the answer to the subscription and          *)
(* connected.Store(true).  And an order to stand by that waits for room in  *)
(* the queue is lost when a ping fails: the host reconnects and kicks.      *)
StandbyIsNeverOnline == standby => ~connected
OrderIsHeard == [][\A c \in Conns : (conn[c].holding = <<Disc>> /\ conn'[c].holding = Nothing)
                      => conn'[c].queue # conn[c].queue]_vars
=============================================================================
