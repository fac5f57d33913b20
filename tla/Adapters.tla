------------------------------ MODULE Adapters ------------------------------
(***************************************************************************)
(* The platform adapters of edge, the card of a run that they show, and    *)
(* core's link to edge, each by itself: scenario says which one runs, and  *)
(* the variables of the others are Off.  They share names of variables     *)
(* (conn, sent, ...), not state.                                           *)
(***************************************************************************)
EXTENDS Naturals, Sequences

CONSTANTS
    Off,                                                    \* a variable of another component
    MaxDials, MaxEvents, MaxWelcomes, LinkFaults, QueueCap, \* WeCom, the connection
    MaxUpdates, MaxTexts, ReplyFaults, AutoFinish, MaxNow,  \* WeCom, the replies
    MaxConns, Messages, Cards, StreamFaults,                \* DingTalk
    ApiCalls, Sends, Retries, Capacity, ApiFaults, MaxRevokes, \* Feishu
    MaxChanges, MaxRefreshes, CardFaults,                   \* the card of a run
    EdgeCalls, Attempts, MaxStarts, EdgeFaults              \* the link to edge

(* Bounds are numbers; Off is no call; the probe's call is core's own.      *)
ASSUME AdaptersAssumption ==
    /\ {MaxDials, MaxEvents, MaxWelcomes, LinkFaults, QueueCap, MaxUpdates, MaxTexts, ReplyFaults,
        AutoFinish, MaxNow, MaxConns, StreamFaults, Retries, Capacity, ApiFaults, MaxRevokes,
        MaxChanges, MaxRefreshes, CardFaults, Attempts, MaxStarts, EdgeFaults} \subseteq Nat
    /\ Attempts > 0
    /\ Off \notin ApiCalls /\ "caps" \notin EdgeCalls

VARIABLES scenario, starter, attempt, reconnects, standby, connected, cur, dials,
          conn, handed, sent, cancelled, faults, now, up, call, pending, wire,
          acks, stream, platform, log, texts, last, pushed, card, taken, hung,
          bucket, token, valid, phase, failing, content, row, due, merged, inAir,
          shown, asked, told, lost, edge, starts, gate, probe, verify, takeoff,
          tries, ask, caps

all == <<scenario, starter, attempt, reconnects, standby, connected, cur, dials,
         conn, handed, sent, cancelled, faults, now, up, call, pending, wire, acks,
         stream, platform, log, texts, last, pushed, card, taken, hung, bucket,
         token, valid, phase, failing, content, row, due, merged, inAir, shown,
         asked, told, lost, edge, starts, gate, probe, verify, takeoff, tries, ask,
         caps>>
In(s) == scenario = s

Link == INSTANCE WecomLink WITH MaxFaults <- LinkFaults
Reply == INSTANCE WecomReply WITH MaxFaults <- ReplyFaults
Stream == INSTANCE DingtalkStream WITH MaxFaults <- StreamFaults
Api == INSTANCE FeishuApi WITH Calls <- ApiCalls, MaxFaults <- ApiFaults, None <- Off
Card == INSTANCE CardCoalescer WITH MaxFaults <- CardFaults
Edge == INSTANCE EdgeLink WITH Calls <- EdgeCalls, MaxFaults <- EdgeFaults
-----------------------------------------------------------------------------
Init ==
    \/ /\ In("wecom link") /\ Link!Init
       /\ now = Off /\ up = Off /\ call = Off /\ pending = Off /\ wire = Off /\
          acks = Off /\ stream = Off /\ platform = Off /\ log = Off /\ texts = Off /\
          last = Off /\ pushed = Off /\ card = Off /\ taken = Off /\ hung = Off /\
          bucket = Off /\ token = Off /\ valid = Off /\ phase = Off /\
          failing = Off /\ content = Off /\ row = Off /\ due = Off /\ merged = Off /\
          inAir = Off /\ shown = Off /\ asked = Off /\ told = Off /\ lost = Off /\
          edge = Off /\ starts = Off /\ gate = Off /\ probe = Off /\ verify = Off /\
          takeoff = Off /\ tries = Off /\ ask = Off /\ caps = Off
    \/ /\ In("wecom reply") /\ Reply!Init
       /\ starter = Off /\ attempt = Off /\ reconnects = Off /\ standby = Off /\
          connected = Off /\ cur = Off /\ dials = Off /\ conn = Off /\
          handed = Off /\ sent = Off /\ cancelled = Off /\ last = Off /\
          pushed = Off /\ card = Off /\ taken = Off /\ hung = Off /\ bucket = Off /\
          token = Off /\ valid = Off /\ phase = Off /\ failing = Off /\
          content = Off /\ row = Off /\ due = Off /\ merged = Off /\ inAir = Off /\
          shown = Off /\ asked = Off /\ told = Off /\ lost = Off /\ edge = Off /\
          starts = Off /\ gate = Off /\ probe = Off /\ verify = Off /\
          takeoff = Off /\ tries = Off /\ ask = Off /\ caps = Off
    \/ /\ In("dingtalk") /\ Stream!Init
       /\ standby = Off /\ cur = Off /\ dials = Off /\ handed = Off /\ sent = Off /\
          now = Off /\ up = Off /\ call = Off /\ pending = Off /\ wire = Off /\
          acks = Off /\ stream = Off /\ platform = Off /\ log = Off /\ texts = Off /\
          bucket = Off /\ token = Off /\ valid = Off /\ phase = Off /\
          failing = Off /\ content = Off /\ row = Off /\ due = Off /\ merged = Off /\
          inAir = Off /\ shown = Off /\ asked = Off /\ told = Off /\ lost = Off /\
          edge = Off /\ starts = Off /\ gate = Off /\ probe = Off /\ verify = Off /\
          takeoff = Off /\ tries = Off /\ ask = Off /\ caps = Off
    \/ /\ In("feishu") /\ Api!Init
       /\ starter = Off /\ attempt = Off /\ reconnects = Off /\ standby = Off /\
          connected = Off /\ cur = Off /\ dials = Off /\ conn = Off /\
          handed = Off /\ cancelled = Off /\ now = Off /\ up = Off /\
          pending = Off /\ wire = Off /\ acks = Off /\ stream = Off /\
          platform = Off /\ log = Off /\ texts = Off /\ last = Off /\ pushed = Off /\
          card = Off /\ taken = Off /\ hung = Off /\ phase = Off /\ failing = Off /\
          content = Off /\ row = Off /\ due = Off /\ merged = Off /\ inAir = Off /\
          shown = Off /\ asked = Off /\ told = Off /\ lost = Off /\ edge = Off /\
          starts = Off /\ gate = Off /\ probe = Off /\ verify = Off /\
          takeoff = Off /\ tries = Off /\ ask = Off /\ caps = Off
    \/ /\ In("card") /\ Card!Init
       /\ starter = Off /\ attempt = Off /\ reconnects = Off /\ standby = Off /\
          connected = Off /\ cur = Off /\ dials = Off /\ conn = Off /\
          handed = Off /\ sent = Off /\ cancelled = Off /\ now = Off /\ up = Off /\
          call = Off /\ wire = Off /\ acks = Off /\ stream = Off /\ platform = Off /\
          log = Off /\ texts = Off /\ last = Off /\ pushed = Off /\ card = Off /\
          taken = Off /\ hung = Off /\ bucket = Off /\ token = Off /\ valid = Off /\
          edge = Off /\ starts = Off /\ gate = Off /\ probe = Off /\ verify = Off /\
          takeoff = Off /\ tries = Off /\ ask = Off /\ caps = Off
    \/ /\ In("edge link") /\ Edge!Init
       /\ starter = Off /\ attempt = Off /\ reconnects = Off /\ standby = Off /\
          connected = Off /\ cur = Off /\ dials = Off /\ conn = Off /\
          handed = Off /\ sent = Off /\ cancelled = Off /\ now = Off /\ up = Off /\
          pending = Off /\ wire = Off /\ acks = Off /\ stream = Off /\
          platform = Off /\ log = Off /\ texts = Off /\ last = Off /\ pushed = Off /\
          card = Off /\ taken = Off /\ hung = Off /\ bucket = Off /\ token = Off /\
          valid = Off /\ phase = Off /\ failing = Off /\ content = Off /\
          row = Off /\ due = Off /\ merged = Off /\ inAir = Off /\ shown = Off /\
          asked = Off /\ told = Off /\ lost = Off

Next ==
    \/ /\ In("wecom link") /\ Link!Next
       /\ UNCHANGED <<scenario, now, up, call, pending, wire, acks, stream, platform,
                       log, texts, last, pushed, card, taken, hung, bucket, token,
                       valid, phase, failing, content, row, due, merged, inAir,
                       shown, asked, told, lost, edge, starts, gate, probe, verify,
                       takeoff, tries, ask, caps>>
    \/ /\ In("wecom reply") /\ Reply!Next
       /\ UNCHANGED <<scenario, starter, attempt, reconnects, standby, connected,
                       cur, dials, conn, handed, sent, cancelled, last, pushed, card,
                       taken, hung, bucket, token, valid, phase, failing, content,
                       row, due, merged, inAir, shown, asked, told, lost, edge,
                       starts, gate, probe, verify, takeoff, tries, ask, caps>>
    \/ /\ In("dingtalk") /\ Stream!Next
       /\ UNCHANGED <<scenario, standby, cur, dials, handed, sent, now, up, call,
                       pending, wire, acks, stream, platform, log, texts, bucket,
                       token, valid, phase, failing, content, row, due, merged,
                       inAir, shown, asked, told, lost, edge, starts, gate, probe,
                       verify, takeoff, tries, ask, caps>>
    \/ /\ In("feishu") /\ Api!Next
       /\ UNCHANGED <<scenario, starter, attempt, reconnects, standby, connected,
                       cur, dials, conn, handed, cancelled, now, up, pending, wire,
                       acks, stream, platform, log, texts, last, pushed, card, taken,
                       hung, phase, failing, content, row, due, merged, inAir, shown,
                       asked, told, lost, edge, starts, gate, probe, verify, takeoff,
                       tries, ask, caps>>
    \/ /\ In("card") /\ Card!Next
       /\ UNCHANGED <<scenario, starter, attempt, reconnects, standby, connected,
                       cur, dials, conn, handed, sent, cancelled, now, up, call,
                       wire, acks, stream, platform, log, texts, last, pushed, card,
                       taken, hung, bucket, token, valid, edge, starts, gate, probe,
                       verify, takeoff, tries, ask, caps>>
    \/ /\ In("edge link") /\ Edge!Next
       /\ UNCHANGED <<scenario, starter, attempt, reconnects, standby, connected,
                       cur, dials, conn, handed, sent, cancelled, now, up, pending,
                       wire, acks, stream, platform, log, texts, last, pushed, card,
                       taken, hung, bucket, token, valid, phase, failing, content,
                       row, due, merged, inAir, shown, asked, told, lost>>

(* The fairness of each component (its Work; core's probe), for the one that *)
(* runs.                                                                    *)
own == CASE In("wecom link") -> Link!vars [] In("wecom reply") -> Reply!vars
         [] In("dingtalk") -> Stream!vars [] In("feishu") -> Api!vars
         [] In("card") -> Card!vars [] In("edge link") -> Edge!vars
Work == /\ UNCHANGED scenario
        /\ \/ In("wecom link") /\ Link!Work
           \/ In("wecom reply") /\ Reply!Work
           \/ In("dingtalk") /\ Stream!Work
           \/ In("feishu") /\ Api!Work
           \/ In("card") /\ Card!Work
           \/ In("edge link") /\ Edge!Probing

Reading == UNCHANGED scenario /\ In("dingtalk") /\ Stream!Reading

Pushing == UNCHANGED scenario /\ In("dingtalk") /\ Stream!Pushing

Verifies == UNCHANGED scenario /\ In("edge link") /\ Edge!Verifying
TakesOff == UNCHANGED scenario /\ In("edge link") /\ Edge!TakingOff
Calls(c) == UNCHANGED scenario /\ In("edge link") /\ Edge!Calling(c)

Fairness == /\ WF_own(Work) /\ WF_own(Reading) /\ WF_own(Pushing)
            /\ WF_own(Verifies) /\ WF_own(TakesOff)
            /\ \A c \in EdgeCalls : WF_own(Calls(c))

Spec == Init /\ [][Next]_all /\ Fairness
-----------------------------------------------------------------------------
(* The types of whichever adapter runs.                                     *)
TypeOK ==
    /\ In("wecom link") => Link!TypeOK
    /\ In("wecom reply") => Reply!TypeOK
    /\ In("dingtalk") => Stream!TypeOK
    /\ In("feishu") => Api!TypeOK
    /\ In("card") => Card!TypeOK
    /\ In("edge link") => Edge!TypeOK

(* Inbound (dispatchLoop, RunOnce of the WeCom and DingTalk adapters): core  *)
(* gets messages one at a time and in order across reconnections, what the   *)
(* platform was told is done has been taken, and Start leaves nothing behind. *)
InboundInOrder ==
    /\ In("wecom link") => Link!InOrder
    /\ In("dingtalk") => Stream!AckedIsTaken /\ Stream!OneAtATime /\ Stream!QuietAfterReturn

(* Outbound (UpdateCard and sweepStreams of WeCom, requests with retries of  *)
(* Feishu, CardCoalescer): a stream's frames end with those that finish it,  *)
(* a repeated request is the same message, one revoked token fails no call,  *)
(* and the card of a run ends closed and whole, however much was held back.  *)
OutboundOnce ==
    /\ In("wecom reply") => Reply!FinishIsLast
    /\ In("feishu") => Api!SentOnce /\ Api!RevocationHeals
    /\ In("card") => Card!ClosingIsShown /\ Card!AllTold

(* Who was told to stand by never dials again (enterStandby, Start), on a     *)
(* stream held for finished nothing is written (UpdateCard, sweepStreams),    *)
(* and a card that a run has closed it does not open again (flush).           *)
OverIsOver ==
    [][/\ In("wecom link") /\ standby => dials' = dials
       /\ In("wecom reply") /\ stream.finished => log' = log
       /\ In("card") => Card!NeverBack]_all

(* In the end an adapter that was offline is back, one on standby stays       *)
(* offline, what was read is handled and what the platform has is taken,      *)
(* every stream is finished, every call has ended, and Start has returned     *)
(* when it was told to (sweepStreams, request, TokenBucket.Acquire, Start);   *)
(* and core has taken off and goes on working with edge as their versions say *)
(* (check_contract_version, note_ok).                                         *)
Settles ==
    /\ []<>(/\ In("wecom link") => Link!Settled
            /\ In("dingtalk") => Stream!Settled
            /\ In("wecom reply") => Reply!Settled
            /\ In("feishu") => Api!Settled
            /\ In("card") => Card!Settled)
    /\ <>[](In("edge link") => Edge!Settled)
=============================================================================
