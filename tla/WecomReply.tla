----------------------------- MODULE WecomReply -----------------------------
(***************************************************************************)
(* Replies of the WeCom adapter (edge/internal/wecom/stream.go, client.go): *)
(* a checklist card is a stream of frames under the req_id of the message   *)
(* it answers; the platform wants its last frame (finish) within ten        *)
(* minutes, so a sweep finishes at nine what nobody has.  Texts that answer *)
(* the same message use the same req_id, and the platform answers a frame   *)
(* with the req_id alone: request() keeps those who wait for one in a       *)
(* queue, and an answer goes to the first.                                 *)
(*                                                                         *)
(* One message, the card and the texts that answer it; core calls SendCard  *)
(* once, then UpdateCard one call at a time, the last of them terminal and  *)
(* repeated while it fails.  The platform takes frames in the order written *)
(* and answers each, in time or late.                                      *)
(***************************************************************************)
EXTENDS Naturals, Sequences, SequencesExt, FiniteSets

CONSTANTS MaxUpdates,   \* calls of UpdateCard
          MaxTexts,     \* calls of SendText
          MaxFaults,    \* refusals, timeouts and lost connections
          AutoFinish,   \* streamAutoFinishAfter, in ticks of the sweep
          MaxNow        \* how far the clock goes

VARIABLES
    now,
    up,         \* there is a connection
    call,       \* the calls under way: of the card, of texts, of the sweep
    pending,    \* who waits for an answer on the req_id, first come first
    wire,       \* frames the platform has not taken yet
    acks,       \* its answers that have not been read yet
    stream,     \* streamState of the card's stream, and whether the table has it
    platform,   \* what the platform knows of that stream
    log,        \* history: the finish flag of each of its frames, as written
    texts, faults

vars == <<now, up, call, pending, wire, acks, stream, platform, log, texts, faults>>

Callers == {"card", "text", "sweep"}
Frame == [by : Callers, finish : BOOLEAN]
Idle == [pc |-> "idle", finish |-> FALSE]

Init ==
    /\ now = 0 /\ up = TRUE
    /\ call = [c \in Callers |-> Idle]
    /\ pending = <<>> /\ wire = <<>> /\ acks = <<>>
    /\ stream = [known |-> FALSE, opening |-> 0, finished |-> FALSE, lock |-> "none", asked |-> 0]
    /\ platform = [open |-> FALSE, finished |-> FALSE]
    /\ log = <<>>
    /\ texts = 0 /\ faults = 0
-----------------------------------------------------------------------------
Fault == faults < MaxFaults /\ faults' = faults + 1
At(c, p) == call[c].pc = p
Set(c, p) == call' = [call EXCEPT ![c].pc = p]
Due == now - stream.opening >= AutoFinish
Holds(c) == stream.lock = c

(* request(): first into the queue of those who wait, then the frame is     *)
(* written, under another lock: frames of two callers may change places.    *)
Ask(c, finish) ==
    /\ call' = [call EXCEPT ![c] = [pc |-> "queued", finish |-> finish]]
    /\ pending' = Append(pending, c)

Unwritten == {"queued", "granted", "denied"}
Written(p) == CASE p = "queued" -> "written" [] p = "granted" -> "answered" [] p = "denied" -> "failed"

(* dropWaiter: who waits no longer leaves the queue *)
Leave(c) == \/ c \notin Range(pending) /\ UNCHANGED pending
            \/ \E i \in DOMAIN pending : pending[i] = c /\ pending' = RemoveAt(pending, i)

Write(c) ==
    /\ call[c].pc \in Unwritten
    /\ \/ /\ up /\ Set(c, Written(call[c].pc))
          /\ wire' = Append(wire, [by |-> c, finish |-> call[c].finish])
          /\ log' = IF c = "text" THEN log ELSE Append(log, call[c].finish)
          /\ UNCHANGED pending
       \/ ~up /\ Set(c, "failed") /\ Leave(c) /\ UNCHANGED <<wire, log>>
    /\ UNCHANGED <<now, up, acks, stream, platform, texts, faults>>

(* resolve(): an answer goes to the first of the queue, whose it may not be *)
(* and who may not have written yet: then it is there when the wait begins.  *)
Granted(p) == IF p = "queued" THEN "granted" ELSE "answered"
Denied(p) == IF p = "queued" THEN "denied" ELSE "failed"

Resolve ==
    /\ up /\ acks # <<>>
    /\ acks' = Tail(acks)
    /\ IF pending = <<>> THEN UNCHANGED <<call, pending>>
       ELSE LET first == Head(pending)
            IN  /\ pending' = Tail(pending)
                /\ Set(first, IF Head(acks).ok THEN Granted(call[first].pc)
                                               ELSE Denied(call[first].pc))
    /\ UNCHANGED <<now, up, wire, stream, platform, log, texts, faults>>

(* The wait ends without an answer: at the end of the connection, when      *)
(* nothing is on its way any more, or too early                            *)
Silent == ~up \/ (wire = <<>> /\ acks = <<>>)

GiveUp(c) ==
    /\ At(c, "written") /\ Contains(pending, c)
    /\ Fault \/ (Silent /\ UNCHANGED faults)
    /\ Set(c, "failed") /\ Leave(c)
    /\ UNCHANGED <<now, up, wire, acks, stream, platform, log, texts>>

Request(c) == Write(c) \/ GiveUp(c)
-----------------------------------------------------------------------------
(* SendCard: the first frame, and when it is answered the stream is known   *)
SendCard ==
    /\ At("card", "idle") /\ ~stream.known /\ stream.asked = 0 /\ log = <<>>
    /\ now + AutoFinish <= MaxNow   \* bound: the clock still gets that far
    /\ up   \* currentConn; otherwise the call fails and core has no card
    /\ Ask("card", FALSE)
    /\ stream' = [stream EXCEPT !.opening = now]
    /\ UNCHANGED <<now, up, wire, acks, platform, log, texts, faults>>

CardOpened ==
    /\ ~stream.known /\ stream.asked = 0
    /\ \/ At("card", "answered") /\ Set("card", "idle") /\ stream' = [stream EXCEPT !.known = TRUE]
       \/ At("card", "failed") /\ Set("card", "gone") /\ UNCHANGED stream
    /\ UNCHANGED <<now, up, pending, wire, acks, platform, log, texts, faults>>

UpdateCard_ChecksTable(terminal) ==
    /\ At("card", "idle") /\ stream.known /\ Holds("none")
    /\ stream.asked + 1 < MaxUpdates \/ (terminal /\ ~stream.finished)
    /\ LET asked == IF terminal THEN MaxUpdates ELSE stream.asked + 1 IN
       IF ~up
       THEN stream' = [stream EXCEPT !.asked = asked] /\ UNCHANGED <<call, pending>>
       ELSE stream' = [stream EXCEPT !.asked = asked, !.lock = "card"]
            /\ Ask("card", terminal \/ Due)
    /\ UNCHANGED <<now, up, wire, acks, platform, log, texts, faults>>

(* UpdateCard: under the lock of the stream, nothing after it is finished;  *)
(* past nine minutes every frame finishes.  stream.asked counts the calls:  *)
(* the last that is allowed for is terminal, and so is any after it.        *)
UpdateCard(terminal) ==
    /\ At("card", "idle") /\ stream.known /\ Holds("none")
    /\ stream.asked + 1 < MaxUpdates \/ (terminal /\ ~stream.finished)
    /\ LET asked == IF terminal THEN MaxUpdates ELSE stream.asked + 1 IN
       IF stream.finished \/ ~up
       THEN stream' = [stream EXCEPT !.asked = asked] /\ UNCHANGED <<call, pending>>
       ELSE stream' = [stream EXCEPT !.asked = asked, !.lock = "card"]
            /\ Ask("card", terminal \/ Due)
    /\ UNCHANGED <<now, up, wire, acks, platform, log, texts, faults>>

CardUpdated ==
    /\ Holds("card")
    /\ \/ /\ At("card", "answered")
          /\ stream' = [stream EXCEPT !.finished = call["card"].finish, !.lock = "none"]
       \/ At("card", "failed") /\ stream' = [stream EXCEPT !.lock = "none"]
    /\ Set("card", "idle")
    /\ UNCHANGED <<now, up, pending, wire, acks, platform, log, texts, faults>>

(* SendText: a stream of one frame *)
SendText ==
    /\ At("text", "idle") /\ texts < MaxTexts /\ up
    /\ Ask("text", TRUE)
    /\ texts' = texts + 1
    /\ UNCHANGED <<now, up, wire, acks, stream, platform, log, faults>>

TextSent ==
    /\ call["text"].pc \in {"answered", "failed"}
    /\ Set("text", "idle")
    /\ UNCHANGED <<now, up, pending, wire, acks, stream, platform, log, texts, faults>>

(* sweepStreams, every tick: the stream that is due is finished; a failure  *)
(* is left for the next round.                                             *)
Sweep ==
    /\ At("sweep", "idle") /\ stream.known /\ Holds("none")
    /\ ~stream.finished /\ Due
    /\ IF up THEN Ask("sweep", TRUE) /\ stream' = [stream EXCEPT !.lock = "sweep"]
       ELSE UNCHANGED <<call, pending, stream>>
    /\ UNCHANGED <<now, up, wire, acks, platform, log, texts, faults>>

Swept ==
    /\ Holds("sweep")
    /\ \/ At("sweep", "answered") /\ stream' = [stream EXCEPT !.finished = TRUE, !.lock = "none"]
       \/ At("sweep", "failed") /\ stream' = [stream EXCEPT !.lock = "none"]
    /\ Set("sweep", "idle")
    /\ UNCHANGED <<now, up, pending, wire, acks, platform, log, texts, faults>>
-----------------------------------------------------------------------------
(* The platform takes a frame, or refuses it, and answers                   *)
TakeFrame ==
    /\ up /\ wire # <<>>
    /\ wire' = Tail(wire)
    /\ LET f == Head(wire) IN
       \/ /\ acks' = Append(acks, [ok |-> TRUE])
          /\ platform' = IF f.by = "text" THEN platform
                         ELSE [open |-> TRUE, finished |-> platform.finished \/ f.finish]
          /\ UNCHANGED faults
       \/ Fault /\ acks' = Append(acks, [ok |-> FALSE]) /\ UNCHANGED platform
    /\ UNCHANGED <<now, up, call, pending, stream, log, texts>>

Drop ==
    /\ up /\ Fault
    /\ up' = FALSE /\ wire' = <<>> /\ acks' = <<>>
    /\ UNCHANGED <<now, call, pending, stream, platform, log, texts>>

Reconnect ==
    /\ ~up /\ \A c \in Callers : call[c].pc \notin Unwritten \cup {"written"}
    /\ up' = TRUE
    /\ UNCHANGED <<now, call, pending, wire, acks, stream, platform, log, texts, faults>>

Tick ==
    /\ now < MaxNow /\ now' = now + 1
    /\ UNCHANGED <<up, call, pending, wire, acks, stream, platform, log, texts, faults>>

Card == SendCard \/ CardOpened \/ CardUpdated \/ \E t \in BOOLEAN : UpdateCard(t)
Next == \/ Card \/ SendText \/ TextSent \/ Sweep \/ Swept
        \/ \E c \in Callers : Request(c)
        \/ Resolve \/ TakeFrame \/ Drop \/ Reconnect \/ Tick

(* Time passes, the sweep goes round, the platform answers and the adapter  *)
(* reconnects.  Core need not call again.                                  *)
Work == \/ Tick \/ Sweep \/ Swept \/ CardUpdated \/ Resolve \/ TakeFrame \/ Reconnect
        \/ \E c \in Callers : Write(c) \/ GiveUp(c)

Spec == Init /\ [][Next]_vars /\ WF_vars(Work)
-----------------------------------------------------------------------------
(* Types; also, nobody waits twice for an answer: who gives up leaves the   *)
(* queue of those who wait.                                                *)
TypeOK ==
    /\ now \in 0..MaxNow /\ up \in BOOLEAN
    /\ call \in [Callers -> [pc : Unwritten \cup {"idle", "written", "answered", "failed", "gone"},
                             finish : BOOLEAN]]
    /\ Range(pending) \subseteq Callers /\ IsInjective(pending)
    /\ Range(wire) \subseteq Frame /\ Range(acks) \subseteq [ok : BOOLEAN]
    /\ stream \in [known : BOOLEAN, opening : 0..MaxNow, finished : BOOLEAN,
                   lock : Callers \cup {"none"}, asked : 0..MaxUpdates]
    /\ platform \in [open : BOOLEAN, finished : BOOLEAN]
    /\ Range(log) \subseteq BOOLEAN
    /\ texts \in 0..MaxTexts /\ faults \in 0..MaxFaults

(* On the wire, no plain frame of a stream follows one that finishes it,    *)
(* whatever UpdateCard and the sweep do at once, and also when the answer   *)
(* to the finishing frame got lost and somebody tries again.                *)
FinishIsLast == \A i, j \in DOMAIN log : i < j /\ log[i] => log[j]

(* Nothing at all is written on a stream the adapter holds for finished     *)
QuietAfterFinish == [][stream.finished => log' = log]_vars

(* A stream that is in the table is finished in the end although core       *)
(* never calls again, through timeouts, refusals and lost connections.      *)
Settled == stream.known => stream.finished
Settles == []<>Settled
-----------------------------------------------------------------------------
(* Not kept by the code.  A late answer, or that of a text whose frame was  *)
(* written in another order than it was queued, is taken for the answer to  *)
(* the finishing frame, which the platform refused or has not seen.  And a  *)
(* stream whose first frame was answered too late is in no table: nobody    *)
(* finishes it.                                                            *)
FinishedIsTrue == stream.finished => platform.finished
OpenIsFinished == platform.open ~> platform.finished
=============================================================================
