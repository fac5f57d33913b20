--------------------------- MODULE Adapters_proof ---------------------------
(***************************************************************************)
(* Proofs about Adapters: the inductive invariant of each component, for   *)
(* any bounds, messages, calls and queue lengths that AdaptersAssumption   *)
(* allows, what follows from it, and that a component keeps it when it is  *)
(* the one chosen to run.                                                  *)
(***************************************************************************)
EXTENDS Adapters, SequenceTheorems, TLAPS

-----------------------------------------------------------------------------
\* The WeCom connection (WecomLink).
\* What the lemmas assume.
LinkAssumed == MaxDials \in Nat /\ MaxEvents \in Nat /\ LinkFaults \in Nat /\ QueueCap \in Nat

LinkPlaces == {"none", "idle", "handle", "sink", "welcome", "done"}
LinkHands == {<<>>} \cup {<<f>> : f \in Link!Frames}
LinkConnRec == [open : BOOLEAN, cut : BOOLEAN, reading : BOOLEAN, wire : Seq(Link!Frames),
                holding : LinkHands, queue : Seq(Link!Frames), at : LinkPlaces, hand : LinkHands,
                sub : {"none", "asked", "sent", "ok", "bad"},
                wel : {"none", "asked", "sent", "ok"}]
LinkConnType == [Link!Conns -> LinkConnRec]
LinkSentType == [event : 0..MaxEvents, enter : Nat, disc : BOOLEAN]

LinkUnder == {"subscribe", "abandon", "online", "drain"}

LinkTypes ==
  /\ starter \in {"check", "sleep", "dial", "parked", "returned"} \cup LinkUnder
  /\ attempt \in BOOLEAN /\ standby \in BOOLEAN /\ connected \in BOOLEAN /\ cancelled \in BOOLEAN
  /\ dials \in 0..MaxDials /\ reconnects \in 0..dials /\ cur \in {0, dials}
  /\ conn \in LinkConnType /\ sent \in LinkSentType
  /\ handed \in Seq(1..MaxEvents) /\ faults \in 0..LinkFaults

LinkRoom == \A c \in Link!Conns : Len(conn[c].queue) <= QueueCap
LinkHolds == \A c \in Link!Conns : conn[c].at = "handle" => conn[c].hand # <<>>

\* Only the last connection is not done with; Start dials the next one when it is,
\* and never on standby.
LinkRounds ==
  /\ \A c \in Link!Conns : c > dials => conn[c] = Link!Unused
  /\ \A c \in Link!Conns : c < dials => conn[c].at = "done"
  /\ starter \notin LinkUnder /\ dials > 0 => conn[dials].at = "done"
  /\ starter \in LinkUnder => dials > 0
  /\ starter # "online" => cur = 0
  /\ starter = "subscribe" => reconnects < dials
  /\ standby => starter \notin {"sleep", "dial"}

\* What a connection has read and not yet handed over: in hand, queued, held by
\* the read loop for want of room, on the wire.
LinkBefore(s, t) == \A i \in DOMAIN s, j \in DOMAIN t :
                       s[i].kind = "event" /\ t[j].kind = "event" => s[i].n < t[j].n
LinkSorted(s) == \A i, j \in DOMAIN s :
                       i < j /\ s[i].kind = "event" /\ s[j].kind = "event" => s[i].n < s[j].n
LinkFresh(s, h, n) == \A i \in DOMAIN s : s[i].kind = "event" =>
                         s[i].n <= n /\ \A j \in DOMAIN h : h[j] < s[i].n
LinkLine(a, q, p, w, h, n) ==
  /\ LinkSorted(q) /\ LinkSorted(w)
  /\ LinkBefore(a, q) /\ LinkBefore(a, p) /\ LinkBefore(a, w) /\ LinkBefore(q, p)
     /\ LinkBefore(q, w) /\ LinkBefore(p, w)
  /\ LinkFresh(a, h, n) /\ LinkFresh(q, h, n) /\ LinkFresh(p, h, n) /\ LinkFresh(w, h, n)
LinkAhead(k) == IF k.at = "handle" THEN k.hand ELSE <<>>
LinkLineOf(k, h, n) == LinkLine(LinkAhead(k), k.queue, k.holding, k.wire, h, n)

LinkOrdered ==
  /\ Link!InOrder
  /\ \A j \in DOMAIN handed : handed[j] <= sent.event
  /\ dials > 0 /\ conn[dials].at # "done" => LinkLineOf(conn[dials], handed, sent.event)

LinkIInv == LinkTypes /\ LinkRoom /\ LinkHolds /\ LinkRounds /\ LinkOrdered
-----------------------------------------------------------------------------
LEMMA LinkFrameIs == \A f \in Link!Frames : f.n \in Nat
    /\ (f.kind = "event" => f.n \in 1..MaxEvents)
BY DEF Link!Frames, Link!Disc

LEMMA LinkEmptyIs ==
  ASSUME NEW s
  PROVE  /\ LinkBefore(s, <<>>) /\ LinkBefore(<<>>, s) /\ LinkSorted(<<>>)
         /\ \A h, n : LinkFresh(<<>>, h, n)
  BY DEF LinkBefore, LinkSorted, LinkFresh

LEMMA LinkTailIs ==
  ASSUME NEW S, NEW s \in Seq(S), s # <<>>
  PROVE  /\ Tail(s) \in Seq(S) /\ Head(s) \in S /\ <<Head(s)>> \in Seq(S)
         /\ Head(s) = s[1] /\ 1 \in DOMAIN s
         /\ DOMAIN <<Head(s)>> = {1} /\ <<Head(s)>>[1] = s[1]
         /\ \A i \in DOMAIN Tail(s) : /\ i \in Nat /\ i >= 1
                                      /\ i + 1 \in DOMAIN s /\ Tail(s)[i] = s[i + 1]
  OBVIOUS

LEMMA LinkTailKeeps ==
  ASSUME NEW w \in Seq(Link!Frames), w # <<>>, NEW s, NEW h, NEW n
  PROVE  /\ LinkSorted(w) => LinkSorted(Tail(w)) /\ LinkBefore(<<Head(w)>>, Tail(w))
         /\ LinkBefore(s, w) => LinkBefore(s, Tail(w)) /\ LinkBefore(s, <<Head(w)>>)
         /\ LinkBefore(w, s) => LinkBefore(Tail(w), s) /\ LinkBefore(<<Head(w)>>, s)
         /\ LinkFresh(w, h, n) => LinkFresh(Tail(w), h, n) /\ LinkFresh(<<Head(w)>>, h, n)
<1>1. /\ Head(w) = w[1] /\ 1 \in DOMAIN w
      /\ DOMAIN <<Head(w)>> = {1} /\ <<Head(w)>>[1] = w[1]
      /\ \A i \in DOMAIN Tail(w) : /\ i \in Nat /\ i >= 1
                                   /\ i + 1 \in DOMAIN w /\ Tail(w)[i] = w[i + 1]
  BY LinkTailIs
<1> DEFINE t == Tail(w)
           o == <<Head(w)>>
<1>2. /\ DOMAIN o = {1} /\ o[1] = w[1] /\ 1 \in DOMAIN w
      /\ \A i \in DOMAIN t : i \in Nat /\ i >= 1 /\ i + 1 \in DOMAIN w /\ t[i] = w[i + 1]
  BY <1>1
<1> HIDE DEF t, o
<1>3. LinkSorted(w) => LinkSorted(t) /\ LinkBefore(o, t)
  <2> SUFFICES ASSUME LinkSorted(w) PROVE LinkSorted(t) /\ LinkBefore(o, t)  OBVIOUS
  <2>1. \A i, j \in DOMAIN t : i < j => i + 1 < j + 1  BY <1>2
  <2>2. LinkSorted(t)  BY <1>2, <2>1 DEF LinkSorted
  <2>3. \A j \in DOMAIN t : 1 < j + 1  BY <1>2
  <2>4. LinkBefore(o, t)  BY <1>2, <2>3 DEF LinkSorted, LinkBefore
  <2> QED  BY <2>2, <2>4
<1>4. LinkBefore(s, w) => LinkBefore(s, t) /\ LinkBefore(s, o)  BY <1>2 DEF LinkBefore
<1>5. LinkBefore(w, s) => LinkBefore(t, s) /\ LinkBefore(o, s)  BY <1>2 DEF LinkBefore
<1>6. LinkFresh(w, h, n) => LinkFresh(t, h, n) /\ LinkFresh(o, h, n)  BY <1>2 DEF LinkFresh
<1> QED  BY <1>3, <1>4, <1>5, <1>6 DEF t, o

\* The dispatcher takes the head of the queue.
LEMMA LinkLineTake ==
  ASSUME NEW q \in Seq(Link!Frames), q # <<>>, NEW p, NEW w, NEW h, NEW n,
      LinkLine(<<>>, q, p, w, h, n)
  PROVE  LinkLine(<<Head(q)>>, Tail(q), p, w, h, n)
  BY LinkTailKeeps DEF LinkLine

\* The read loop takes a frame from the wire, and drops or holds it.
LEMMA LinkLineRead ==
  ASSUME NEW a, NEW q, NEW p, NEW w \in Seq(Link!Frames), w # <<>>, NEW h, NEW n,
         LinkLine(a, q, p, w, h, n)
  PROVE  LinkLine(a, q, p, Tail(w), h, n)
      /\ (p = <<>> => LinkLine(a, q, <<Head(w)>>, Tail(w), h, n))
  BY LinkTailKeeps DEF LinkLine

\* It puts in the queue what it holds.
LEMMA LinkLineQueue ==
  ASSUME NEW a, NEW q \in Seq(Link!Frames), NEW p \in Seq(Link!Frames), NEW w, NEW h, NEW n,
         LinkLine(a, q, p, w, h, n), Len(p) <= 1
  PROVE  LinkLine(a, q \o p, <<>>, w, h, n)
<1> DEFINE s == q \o p
<1>1. \A i \in DOMAIN s : \/ i \in DOMAIN q /\ s[i] = q[i]
                          \/ 1 \in DOMAIN p /\ s[i] = p[1] /\ i = Len(q) + 1
  <2>1. /\ s \in Seq(Link!Frames) /\ Len(s) = Len(q) + Len(p)
        /\ \A i \in 1 .. Len(s) : s[i] = IF i <= Len(q) THEN q[i] ELSE p[i - Len(q)]
    BY ConcatProperties
  <2>2. DOMAIN s = 1..Len(s) /\ DOMAIN q = 1..Len(q) /\ DOMAIN p = 1..Len(p) /\ Len(q) \in Nat
        /\ Len(p) \in Nat
    BY <2>1
  <2> HIDE DEF s
  <2> SUFFICES ASSUME NEW i \in 1..Len(s)
               PROVE  \/ i \in DOMAIN q /\ s[i] = q[i]
                      \/ 1 \in DOMAIN p /\ s[i] = p[1] /\ i = Len(q) + 1
    BY <2>2
  <2>3. CASE i <= Len(q)  BY <2>1, <2>2, <2>3
  <2>4. CASE ~(i <= Len(q))
    <3>1. i = Len(q) + 1 /\ Len(p) = 1 /\ i - Len(q) = 1  BY <2>1, <2>2, <2>4
    <3> QED  BY <2>1, <2>2, <2>4, <3>1
  <2> QED  BY <2>3, <2>4
<1>4. DOMAIN q = 1..Len(q) /\ Len(q) \in Nat  OBVIOUS
<1> HIDE DEF s
<1>2. LinkSorted(s)
  <2>1. \A i, j \in DOMAIN s : i < j => i \in DOMAIN q /\ s[i] = q[i]  BY <1>1, <1>4
  <2> QED  BY <1>1, <2>1 DEF LinkLine, LinkSorted, LinkBefore
<1>3. LinkBefore(a, s) /\ LinkBefore(s, w) /\ LinkFresh(s, h, n)
  BY <1>1 DEF LinkLine, LinkBefore, LinkFresh
<1> QED  BY <1>2, <1>3, LinkEmptyIs DEF LinkLine, s

LEMMA LinkLineDrops ==
  ASSUME NEW a, NEW q, NEW p, NEW w, NEW h, NEW n, LinkLine(a, q, p, w, h, n)
  PROVE  /\ LinkLine(<<>>, q, p, w, h, n) /\ LinkLine(a, q, p, <<>>, h, n)
         /\ LinkLine(a, q, <<>>, <<>>, h, n)
  BY LinkEmptyIs DEF LinkLine

\* The platform pushes a frame.
LEMMA LinkLinePush ==
  ASSUME NEW a \in Seq(Link!Frames), NEW q \in Seq(Link!Frames), NEW p \in Seq(Link!Frames),
      NEW w \in Seq(Link!Frames),
         NEW h \in Seq(Nat), NEW n \in Nat, LinkLine(a, q, p, w, h, n),
         \A j \in DOMAIN h : h[j] <= n,
         NEW f \in Link!Frames, NEW m \in Nat, n <= m, f.kind = "event" => n < f.n /\ f.n <= m
  PROVE  LinkLine(a, q, p, Append(w, f), h, m)
<1> DEFINE s == Append(w, f)
<1>1. \A i \in DOMAIN s : \/ i \in DOMAIN w /\ s[i] = w[i]
                          \/ s[i] = f /\ i = Len(w) + 1
  OBVIOUS
<1>2. DOMAIN w = 1..Len(w) /\ Len(w) \in Nat  OBVIOUS
<1>3. \A t \in Seq(Link!Frames) : \A i \in DOMAIN t : t[i].n \in Nat  BY LinkFrameIs
<1>4. f.n \in Nat  BY LinkFrameIs
<1>6. \A j \in DOMAIN h : h[j] \in Nat  OBVIOUS
<1> HIDE DEF s
<1>5. \A t \in Seq(Link!Frames) : LinkFresh(t, h, n) /\ LinkBefore(t, w) => LinkBefore(t, s)
  <2> SUFFICES ASSUME NEW t \in Seq(Link!Frames), LinkFresh(t, h, n), LinkBefore(t, w),
                      NEW i \in DOMAIN t, NEW j \in DOMAIN s,
                      t[i].kind = "event", s[j].kind = "event"
               PROVE  t[i].n < s[j].n
    BY DEF LinkBefore
  <2>1. CASE j \in DOMAIN w /\ s[j] = w[j]  BY <2>1 DEF LinkBefore
  <2>2. CASE s[j] = f  BY <1>3, <1>4, <2>2 DEF LinkFresh
  <2> QED  BY <1>1, <2>1, <2>2
<1>7. LinkSorted(s)
  <2> SUFFICES ASSUME NEW i \in DOMAIN s, NEW j \in DOMAIN s, i < j,
                      s[i].kind = "event", s[j].kind = "event"
               PROVE  s[i].n < s[j].n
    BY DEF LinkSorted
  <2>1. i \in DOMAIN w /\ s[i] = w[i]  BY <1>1, <1>2
  <2>2. CASE j \in DOMAIN w /\ s[j] = w[j]  BY <2>1, <2>2 DEF LinkLine, LinkSorted
  <2>3. CASE s[j] = f
    <3>1. w[i].n <= n  BY <2>1 DEF LinkLine, LinkFresh
    <3> QED  BY <1>3, <1>4, <2>1, <2>3, <3>1
  <2> QED  BY <1>1, <2>2, <2>3
<1>8. \A t \in Seq(Link!Frames) : LinkFresh(t, h, n) => LinkFresh(t, h, m)  BY <1>3 DEF LinkFresh
<1>9. LinkFresh(s, h, m)
  <2> SUFFICES ASSUME NEW i \in DOMAIN s, s[i].kind = "event"
               PROVE  s[i].n <= m /\ \A j \in DOMAIN h : h[j] < s[i].n
    BY DEF LinkFresh
  <2>1. CASE i \in DOMAIN w /\ s[i] = w[i]  BY <1>3, <2>1 DEF LinkLine, LinkFresh
  <2>2. CASE s[i] = f  BY <1>4, <1>6, <2>2
  <2> QED  BY <1>1, <2>1, <2>2
<1> QED  BY <1>5, <1>7, <1>8, <1>9 DEF LinkLine, s

\* The sink is handed the frame in hand.
LEMMA LinkLineHands ==
  ASSUME NEW q \in Seq(Link!Frames), NEW p \in Seq(Link!Frames), NEW w \in Seq(Link!Frames),
      NEW f \in Link!Frames,
         NEW h \in Seq(Nat), NEW n \in Nat, LinkLine(<<f>>, q, p, w, h, n), f.kind = "event"
  PROVE  /\ LinkLine(<<>>, q, p, w, Append(h, f.n), n)
         /\ f.n <= n /\ \A j \in DOMAIN h : h[j] < f.n
<1> DEFINE g == Append(h, f.n)
           o == <<f>>
<1>1. \A j \in DOMAIN g : \/ j \in DOMAIN h /\ g[j] = h[j]
                          \/ g[j] = f.n
  BY LinkFrameIs
<1>2. o[1] = f /\ 1 \in DOMAIN o  OBVIOUS
<1> HIDE DEF g, o
<1>3. LinkLine(o, q, p, w, h, n)  BY DEF o
<1>4. f.n <= n /\ \A j \in DOMAIN h : h[j] < f.n  BY <1>2, <1>3 DEF LinkLine, LinkFresh
<1>5. \A t \in Seq(Link!Frames) : LinkBefore(o, t) /\ LinkFresh(t, h, n) => LinkFresh(t, g, n)
  BY <1>1, <1>2 DEF LinkBefore, LinkFresh
<1>6. LinkFresh(q, g, n) /\ LinkFresh(p, g, n) /\ LinkFresh(w, g, n)  BY <1>3, <1>5 DEF LinkLine
<1> QED  BY <1>3, <1>4, <1>6, LinkEmptyIs DEF LinkLine, g

LEMMA LinkLineLater ==
  ASSUME NEW a \in Seq(Link!Frames), NEW q \in Seq(Link!Frames), NEW p \in Seq(Link!Frames),
      NEW w \in Seq(Link!Frames),
         NEW h, NEW n \in Nat, NEW m \in Nat, n <= m, LinkLine(a, q, p, w, h, n)
  PROVE  LinkLine(a, q, p, w, h, m)
<1>1. \A t \in Seq(Link!Frames) : LinkFresh(t, h, n) => LinkFresh(t, h, m)
  BY LinkFrameIs DEF LinkFresh
<1> QED  BY <1>1 DEF LinkLine
-----------------------------------------------------------------------------
LEMMA LinkInitIInv == ASSUME LinkAssumed PROVE Link!Init => LinkIInv
<1> SUFFICES ASSUME Link!Init PROVE LinkIInv  OBVIOUS
<1> USE DEF LinkAssumed, Link!Init
<1>1. Link!Unused \in LinkConnRec
  BY DEF Link!Unused, Link!Nothing, LinkConnRec, LinkPlaces, LinkHands
<1>2. conn \in LinkConnType  BY <1>1 DEF LinkConnType
<1>3. attempt \in BOOLEAN /\ standby \in BOOLEAN /\ connected \in BOOLEAN /\ cancelled \in BOOLEAN
  OBVIOUS
<1>4. sent \in LinkSentType
  <2>1. FALSE \in BOOLEAN /\ 0 \in Nat /\ 0 \in 0..MaxEvents  OBVIOUS
  <2> QED  BY <2>1 DEF LinkSentType
<1>5. dials \in 0..MaxDials /\ reconnects \in 0..dials /\ cur \in {0, dials}
      /\ handed \in Seq(1..MaxEvents) /\ faults \in 0..LinkFaults
  OBVIOUS
<1>6. LinkTypes  BY <1>2, <1>3, <1>4, <1>5 DEF LinkTypes
<1>7. LinkRoom /\ LinkHolds /\ LinkRounds
  BY DEF LinkRoom, LinkHolds, LinkRounds, Link!Unused, Link!Conns, LinkUnder
<1>8. LinkOrdered  BY DEF LinkOrdered, Link!InOrder
<1> QED  BY <1>6, <1>7, <1>8 DEF LinkIInv

LEMMA LinkBecomes ==
  ASSUME conn \in LinkConnType, NEW c \in Link!Conns, NEW r \in LinkConnRec,
      conn' = [conn EXCEPT ![c] = r]
  PROVE  conn' \in LinkConnType /\ conn'[c] = r /\ \A d \in Link!Conns \ {c} : conn'[d] = conn[d]
  BY DEF LinkConnType

\* What is typed in a connection is a line of frames.
LEMMA LinkTyped ==
  ASSUME NEW k \in LinkConnRec
  PROVE  /\ k.open \in BOOLEAN /\ k.cut \in BOOLEAN /\ k.reading \in BOOLEAN
         /\ k.wire \in Seq(Link!Frames) /\ k.holding \in LinkHands /\ k.queue \in Seq(Link!Frames)
         /\ k.at \in LinkPlaces /\ k.hand \in LinkHands
         /\ k.sub \in {"none", "asked", "sent", "ok", "bad"}
         /\ k.wel \in {"none", "asked", "sent", "ok"}
  BY DEF LinkConnRec

LEMMA LinkHandIs ==
  ASSUME NEW h \in LinkHands
  PROVE  /\ h \in Seq(Link!Frames) /\ Len(h) <= 1
         /\ h # <<>> => h[1] \in Link!Frames /\ h = <<h[1]>> /\ Len(h) = 1
<1>1. CASE h = <<>>  BY <1>1
<1>2. ASSUME NEW f \in Link!Frames, h = <<f>>
      PROVE  h \in Seq(Link!Frames) /\ Len(h) <= 1 /\ h[1] \in Link!Frames /\ h = <<h[1]>>
          /\ Len(h) = 1
  BY <1>2
<1> QED  BY <1>1, <1>2 DEF LinkHands

LEMMA LinkAheadIs == ASSUME NEW k \in LinkConnRec PROVE LinkAhead(k) \in Seq(Link!Frames)
  BY LinkTyped, LinkHandIs DEF LinkAhead

\* Who is in the middle of a callback is the last connection, and Start is with it.
LEMMA LinkBusy ==
  ASSUME LinkAssumed, LinkIInv, NEW c \in Link!Conns, conn[c].at \notin {"none", "done"}
  PROVE  c = dials /\ starter \in LinkUnder
<1>1. dials \in 0..MaxDials  BY DEF LinkIInv, LinkTypes
<1>2. Link!Unused.at = "none"  BY DEF Link!Unused
<1>3. c = dials  BY <1>1, <1>2 DEF LinkIInv, LinkRounds, Link!Conns, LinkAssumed
<1> QED  BY <1>3 DEF LinkIInv, LinkRounds, Link!Conns, LinkAssumed

LEMMA LinkNotUnused == /\ ~Link!Unused.open /\ ~Link!Unused.reading /\ Link!Unused.at = "none"
                       /\ Link!Unused.holding = <<>> /\ Link!Unused.queue = <<>>
                       /\ Link!Unused.wel = "none" /\ Link!Unused.sub = "none" /\ ~Link!Unused.cut
  BY DEF Link!Unused, Link!Nothing

\* A step of a connection that Start knows nothing of.
LEMMA LinkMoves ==
  ASSUME LinkAssumed, LinkIInv, NEW c \in Link!Conns, NEW r \in LinkConnRec,
      conn' = [conn EXCEPT ![c] = r],
         UNCHANGED <<starter, attempt, reconnects, cur, dials>>,
         standby' \in BOOLEAN, connected' \in BOOLEAN, cancelled' \in BOOLEAN,
         sent' \in LinkSentType, sent.event <= sent'.event, faults' \in 0..LinkFaults,
         handed' \in Seq(1..MaxEvents), Link!InOrder',
         \A j \in DOMAIN handed' : handed'[j] <= sent'.event,
         standby' => standby \/ starter \in LinkUnder,
         conn[c] # Link!Unused, conn[c].at = "done" => r.at = "done",
         Len(r.queue) <= QueueCap, r.at = "handle" => r.hand # <<>>,
         c # dials => handed' = handed,
         c = dials /\ r.at # "done" => LinkLineOf(r, handed', sent'.event)
  PROVE  LinkIInv'
<1>1. conn \in LinkConnType /\ dials \in 0..MaxDials /\ MaxDials \in Nat
  BY DEF LinkIInv, LinkTypes, LinkAssumed
<1>2. conn' \in LinkConnType /\ conn'[c] = r /\ \A d \in Link!Conns \ {c} : conn'[d] = conn[d]
  BY <1>1, LinkBecomes
<1>3. LinkTypes'
  <2>1. LinkTypes  BY DEF LinkIInv
  <2> QED  BY <1>2, <2>1 DEF LinkTypes
<1>4. LinkRoom'  BY <1>2 DEF LinkIInv, LinkRoom
<1>5. LinkHolds'  BY <1>2 DEF LinkIInv, LinkHolds
<1>6. c <= dials  BY <1>1 DEF LinkIInv, LinkRounds, Link!Conns
<1>7. LinkRounds'
  <2>1. LinkRounds  BY DEF LinkIInv
  <2>2. \A d \in Link!Conns : d > dials => conn'[d] = Link!Unused
    BY <1>1, <1>2, <1>6, <2>1 DEF LinkRounds, Link!Conns
  <2>3. \A d \in Link!Conns : d < dials => conn'[d].at = "done"
    BY <1>2, <2>1 DEF LinkRounds
  <2>4. dials > 0 => dials \in Link!Conns  BY <1>1 DEF Link!Conns
  <2>5. starter \notin LinkUnder /\ dials > 0 => conn'[dials].at = "done"
    BY <1>2, <2>1, <2>4 DEF LinkRounds
  <2>6. standby' => starter \notin {"sleep", "dial"}  BY <2>1 DEF LinkRounds, LinkUnder
  <2> QED  BY <2>1, <2>2, <2>3, <2>5, <2>6 DEF LinkRounds
<1>8. LinkOrdered'
  <2> SUFFICES ASSUME dials > 0, conn'[dials].at # "done"
               PROVE  LinkLineOf(conn'[dials], handed', sent'.event)
    <3>1. LinkLineOf(conn[dials], handed, sent.event)' <=> LinkLineOf(conn'[dials'], handed',
        sent'.event)
      BY DEF LinkLineOf, LinkLine, LinkFresh, LinkSorted, LinkBefore, LinkAhead
    <3> QED  BY <3>1 DEF LinkOrdered
  <2>1. dials \in Link!Conns  BY <1>1 DEF Link!Conns
  <2>2. CASE c = dials  BY <1>2, <2>2
  <2>3. CASE c # dials
    <3>1. conn'[dials] = conn[dials]  BY <1>2, <2>1, <2>3
    <3> DEFINE k == conn[dials]
    <3>2. k \in LinkConnRec /\ LinkLineOf(k, handed, sent.event)
      BY <1>1, <2>1, <3>1 DEF LinkIInv, LinkOrdered, LinkConnType
    <3>3. /\ LinkAhead(k) \in Seq(Link!Frames) /\ k.queue \in Seq(Link!Frames)
             /\ k.holding \in Seq(Link!Frames)
          /\ k.wire \in Seq(Link!Frames)
      BY <3>2, LinkTyped, LinkAheadIs, LinkHandIs
    <3>4. sent.event \in Nat /\ sent'.event \in Nat
      BY DEF LinkIInv, LinkTypes, LinkSentType, LinkAssumed
    <3> HIDE DEF k
    <3>5. LinkLineOf(k, handed, sent'.event)  BY <3>2, <3>3, <3>4, LinkLineLater DEF LinkLineOf
    <3> QED  BY <2>3, <3>1, <3>5 DEF k
  <2> QED  BY <2>2, <2>3
<1> QED  BY <1>3, <1>4, <1>5, <1>7, <1>8 DEF LinkIInv
\* One that hands nothing over and hears nothing from the platform.
LEMMA LinkMovesQuietly ==
  ASSUME LinkAssumed, LinkIInv, NEW c \in Link!Conns, NEW r \in LinkConnRec,
      conn' = [conn EXCEPT ![c] = r],
         UNCHANGED <<Link!link, standby, handed, sent, cancelled>>, faults' \in 0..LinkFaults,
         conn[c] # Link!Unused, conn[c].at = "done" => r.at = "done",
         Len(r.queue) <= QueueCap, r.at = "handle" => r.hand # <<>>,
         r.at # "done" /\ LinkLineOf(conn[c], handed, sent.event)
             => LinkLineOf(r, handed, sent.event)
  PROVE  LinkIInv'
<1>1. LinkTypes /\ LinkOrdered  BY DEF LinkIInv
<1>2. /\ UNCHANGED <<starter, attempt, reconnects, connected, cur, dials, standby, handed, sent,
                     cancelled>>
  BY DEF Link!link
<1>3. /\ standby' \in BOOLEAN /\ connected' \in BOOLEAN /\ cancelled' \in BOOLEAN
      /\ sent' \in LinkSentType /\ handed' \in Seq(1..MaxEvents)
  BY <1>1, <1>2 DEF LinkTypes
<1>4. sent.event <= sent'.event  BY <1>1, <1>2, <1>3 DEF LinkSentType, LinkAssumed
<1>5. Link!InOrder' /\ \A j \in DOMAIN handed' : handed'[j] <= sent'.event
  BY <1>1, <1>2 DEF LinkOrdered, Link!InOrder
<1>6. c = dials /\ r.at # "done" => LinkLineOf(r, handed', sent'.event)
  <2> SUFFICES ASSUME c = dials, r.at # "done" PROVE LinkLineOf(r, handed', sent'.event)  OBVIOUS
  <2>1. dials > 0  BY DEF Link!Conns, LinkAssumed
  <2>2. conn[dials].at # "done"  OBVIOUS
  <2>3. LinkLineOf(conn[c], handed, sent.event)  BY <1>1, <2>1, <2>2 DEF LinkOrdered
  <2> QED  BY <1>2, <2>3
<1>7. UNCHANGED <<starter, attempt, reconnects, cur, dials>> /\ standby' = standby
      /\ handed' = handed
  BY <1>2
<1>8. standby' => standby \/ starter \in LinkUnder  BY <1>7
<1>9. c # dials => handed' = handed  BY <1>7
<1> QED  BY <1>3, <1>4, <1>5, <1>6, <1>7, <1>8, <1>9, LinkMoves, ZenonT(30)

LEMMA LinkSameLine ==
  ASSUME NEW k, NEW r, r.at = k.at, r.hand = k.hand, r.queue = k.queue, r.holding = k.holding,
         r.wire = k.wire, NEW h, NEW n, LinkLineOf(k, h, n)
  PROVE  LinkLineOf(r, h, n)
  BY DEF LinkLineOf, LinkAhead

\* A step of Start that leaves the connections alone.
LEMMA LinkStartSteps ==
  ASSUME LinkIInv, UNCHANGED <<dials, conn, handed, sent>>, LinkTypes', LinkRounds'
  PROVE  LinkIInv'
<1>1. LinkRoom' /\ LinkHolds'  BY DEF LinkIInv, LinkRoom, LinkHolds
<1>2. LinkOrdered'
  BY DEF LinkIInv, LinkOrdered, Link!InOrder, LinkLineOf, LinkLine, LinkFresh, LinkBefore,
     LinkSorted, LinkAhead
<1> QED  BY <1>1, <1>2 DEF LinkIInv

LEMMA LinkStepIInv == ASSUME LinkAssumed, LinkIInv, [Link!Next]_(Link!vars) PROVE LinkIInv'
<1>a. LinkTypes /\ LinkRoom /\ LinkHolds /\ LinkRounds /\ LinkOrdered  BY DEF LinkIInv
<1>b. /\ starter \in {"check", "sleep", "dial", "parked", "returned"} \cup LinkUnder
      /\ attempt \in BOOLEAN /\ standby \in BOOLEAN /\ connected \in BOOLEAN
      /\ cancelled \in BOOLEAN
      /\ dials \in 0..MaxDials /\ reconnects \in 0..dials /\ cur \in {0, dials}
      /\ conn \in LinkConnType /\ sent \in LinkSentType
      /\ handed \in Seq(1..MaxEvents) /\ faults \in 0..LinkFaults
  BY <1>a DEF LinkTypes
<1>c. MaxDials \in Nat /\ LinkFaults \in Nat /\ MaxEvents \in Nat /\ QueueCap \in Nat
  BY DEF LinkAssumed
<1>d. dials > 0 => dials \in Link!Conns  BY <1>b, <1>c DEF Link!Conns
<1>e. sent.event \in Nat /\ sent.event \in 0..MaxEvents /\ sent.enter \in Nat
      /\ sent.disc \in BOOLEAN
  BY <1>b, <1>c DEF LinkSentType
<1>f. \A c \in Link!Conns : conn[c] \in LinkConnRec  BY <1>b DEF LinkConnType
<1>g. handed \in Seq(Nat)
  <2>1. 1..MaxEvents \subseteq Nat  BY <1>c
  <2> QED  BY <1>b, <2>1, SeqMonotonic
<1>0. CASE UNCHANGED Link!vars
  <2>1. LinkTypes' /\ LinkRounds'  BY <1>0, <1>a DEF Link!vars, Link!link, LinkTypes, LinkRounds
  <2> QED  BY <1>0, <2>1, LinkStartSteps DEF Link!vars, Link!link
<1>1. CASE Link!Check \/ Link!Sleep
  <2>1. /\ starter \in {"check", "sleep", "parked"}
        /\ starter' \in {"returned", "parked", "sleep", "dial"}
        /\ starter' \in {"sleep", "dial"} => ~standby
    BY <1>1, <1>a DEF Link!Check, Link!Sleep, LinkRounds
  <2>2. LinkTypes'  BY <1>1, <1>b, <2>1 DEF Link!Check, Link!Sleep, LinkTypes
  <2>3. LinkRounds'  BY <1>1, <1>a, <2>1 DEF Link!Check, Link!Sleep, LinkRounds, LinkUnder
  <2> QED  BY <1>1, <2>2, <2>3, LinkStartSteps DEF Link!Check, Link!Sleep
<1>2. CASE Link!Dial
  <2>1. CASE dials' = dials + 1 /\ dials < MaxDials /\ starter' = "subscribe"
             /\ conn' = [conn EXCEPT ![dials + 1] = Link!Dialled]
    <3>1. /\ starter = "dial" /\ cur = 0 /\ ~standby
          /\ UNCHANGED <<attempt, reconnects, connected, cur, standby, handed, sent, cancelled,
                         faults>>
      BY <1>2, <1>a, <1>b, <2>1 DEF Link!Dial, LinkRounds
    <3>2. Link!Dialled \in LinkConnRec
      <4>1. Link!Unused \in LinkConnRec
        BY DEF Link!Unused, Link!Nothing, LinkConnRec, LinkPlaces, LinkHands
      <4>2. \A k \in LinkConnRec, t \in BOOLEAN :
               [k EXCEPT !.open = t, !.reading = t, !.at = "idle",
                   !.sub = "asked"] \in LinkConnRec
        BY DEF LinkConnRec, LinkPlaces
      <4> QED  BY <4>1, <4>2, Zenon DEF Link!Dialled
    <3>3. dials + 1 \in Link!Conns /\ dials + 1 \in 0..MaxDials
      BY <1>b, <1>c, <2>1 DEF Link!Conns
    <3>4. /\ conn' \in LinkConnType /\ conn'[dials + 1] = Link!Dialled
          /\ \A d \in Link!Conns \ {dials + 1} : conn'[d] = conn[d]
      BY <1>b, <2>1, <3>2, <3>3, LinkBecomes
    <3>5. /\ Link!Dialled.at = "idle" /\ Link!Dialled.queue = <<>> /\ Link!Dialled.holding = <<>>
          /\ Link!Dialled.wire = <<>>
      BY DEF Link!Dialled, Link!Unused, Link!Nothing
    <3>6. reconnects' \in 0..dials' /\ reconnects' < dials'  BY <1>b, <2>1, <3>1
    <3>7. LinkTypes'  BY <1>b, <2>1, <3>1, <3>3, <3>4, <3>6 DEF LinkTypes, LinkUnder
    <3>8. LinkRoom' /\ LinkHolds'
      <4>1. Len(<<>>) <= QueueCap  BY <1>c
      <4> QED  BY <1>a, <3>3, <3>4, <3>5, <4>1 DEF LinkRoom, LinkHolds
    <3>9. LinkRounds'
      <4>1. \A d \in Link!Conns : d > dials' => conn'[d] = Link!Unused
        BY <1>a, <1>b, <2>1, <3>4 DEF LinkRounds, Link!Conns
      <4>2. \A d \in Link!Conns : d < dials' => conn'[d].at = "done"
        BY <1>a, <1>b, <2>1, <3>1, <3>4 DEF LinkRounds, Link!Conns, LinkUnder
      <4>3. dials' > 0  BY <1>b, <2>1
      <4> QED  BY <2>1, <3>1, <3>6, <4>1, <4>2, <4>3 DEF LinkRounds, LinkUnder
    <3>10. LinkOrdered'
      <4>1. LinkLineOf(Link!Dialled, handed, sent.event)
        <5>1. LinkAhead(Link!Dialled) = <<>>  BY <3>5 DEF LinkAhead
        <5> QED  BY <3>5, <5>1, LinkEmptyIs DEF LinkLineOf, LinkLine
      <4>2. Link!InOrder' /\ \A j \in DOMAIN handed' : handed'[j] <= sent'.event
        BY <1>a, <3>1 DEF LinkOrdered, Link!InOrder
      <4>3. LinkLineOf(conn'[dials'], handed', sent'.event)  BY <2>1, <3>1, <3>4, <4>1
      <4> QED
        BY <4>2, <4>3 DEF LinkOrdered, LinkLineOf, LinkLine, LinkFresh, LinkBefore, LinkSorted,
           LinkAhead
    <3> QED  BY <3>7, <3>8, <3>9, <3>10 DEF LinkIInv
  <2>2. CASE UNCHANGED <<dials, conn>> /\ starter' \in {"returned", "check"}
    <3>1. starter = "dial" /\ attempt' \in BOOLEAN  BY <1>2, <1>b, <2>2 DEF Link!Dial
    <3>2. faults' \in 0..LinkFaults  BY <1>2, <1>b, <1>c, <2>2 DEF Link!Dial, Link!Fault
    <3>3. LinkTypes'  BY <1>2, <1>b, <2>2, <3>1, <3>2 DEF Link!Dial, LinkTypes
    <3>4. LinkRounds'  BY <1>2, <1>a, <2>2, <3>1 DEF Link!Dial, LinkRounds, LinkUnder
    <3> QED  BY <1>2, <2>2, <3>3, <3>4, LinkStartSteps DEF Link!Dial
  <2> QED  BY <1>2, <2>1, <2>2 DEF Link!Dial
<1>3. CASE Link!Subscribed
  <2>1. starter = "subscribe" /\ starter' = "online" /\ reconnects < dials
        /\ reconnects' \in {reconnects, reconnects + 1}
    BY <1>3, <1>a DEF Link!Subscribed, LinkRounds
  <2>2. reconnects' \in 0..dials  BY <1>b, <2>1
  <2>3. attempt' \in BOOLEAN /\ connected' \in BOOLEAN  BY <1>3 DEF Link!Subscribed
  <2>4. LinkTypes'  BY <1>3, <1>b, <2>1, <2>2, <2>3 DEF Link!Subscribed, LinkTypes, LinkUnder
  <2>5. LinkRounds'  BY <1>3, <1>a, <2>1 DEF Link!Subscribed, LinkRounds, LinkUnder
  <2> QED  BY <1>3, <2>4, <2>5, LinkStartSteps DEF Link!Subscribed
<1>4. CASE Link!Lost \/ Link!Drained
  <2>1. /\ starter \in {"online", "drain", "abandon"}
        /\ starter' \in {"drain", "returned", "check"}
        /\ starter' = "drain" => cur' = 0
        /\ starter' # "drain" => starter # "online" /\ conn[dials].at = "done" /\ cur' = cur
    BY <1>4 DEF Link!Lost, Link!Drained, Link!Dispatched
  <2>2. attempt' \in BOOLEAN /\ connected' \in BOOLEAN /\ cur' \in {0, dials}
    BY <1>4, <1>b DEF Link!Lost, Link!Drained
  <2>3. LinkTypes'  BY <1>4, <1>b, <2>1, <2>2 DEF Link!Lost, Link!Drained, LinkTypes, LinkUnder
  <2>4. LinkRounds'  BY <1>4, <1>a, <2>1 DEF Link!Lost, Link!Drained, LinkRounds, LinkUnder
  <2> QED  BY <1>4, <2>3, <2>4, LinkStartSteps DEF Link!Lost, Link!Drained
<1>5. ASSUME NEW c \in Link!Conns, conn' = Link!Closed(c), conn[c] # Link!Unused,
             UNCHANGED <<Link!link, standby, handed, sent, cancelled, faults>>
      PROVE  LinkIInv'
  <2> DEFINE k == conn[c]
             r == [k EXCEPT !.open = FALSE]
  <2>1. r = [k EXCEPT !.open = FALSE] /\ k \in LinkConnRec  BY <1>f
  <2>2. conn' = [conn EXCEPT ![c] = r]  BY <1>5 DEF Link!Closed
  <2> HIDE DEF r
  <2>3. r \in LinkConnRec  BY <2>1 DEF LinkConnRec
  <2>4. r.at = k.at /\ r.hand = k.hand /\ r.queue = k.queue /\ r.holding = k.holding
        /\ r.wire = k.wire
    BY <2>1 DEF LinkConnRec
  <2>5. Len(r.queue) <= QueueCap /\ (r.at = "handle" => r.hand # <<>>)
    BY <1>a, <2>4 DEF LinkRoom, LinkHolds
  <2>6. LinkLineOf(k, handed, sent.event) => LinkLineOf(r, handed, sent.event)
    BY <2>4, LinkSameLine
  <2> QED  BY <1>5, <1>b, <2>2, <2>3, <2>4, <2>5, <2>6, LinkMovesQuietly
<1>6. CASE Link!CloseOnCancel
  <2>1. dials \in Link!Conns /\ conn[dials].open
    BY <1>6, <1>a, <1>d DEF Link!CloseOnCancel, LinkRounds, LinkUnder
  <2> QED  BY <1>5, <1>6, <2>1, LinkNotUnused DEF Link!CloseOnCancel
<1>7. ASSUME NEW c \in Link!Conns, Link!PingFails(c) PROVE LinkIInv'
  BY <1>5, <1>7, LinkNotUnused DEF Link!PingFails
<1>8. CASE Link!SubscribeFails
  <2>1. /\ starter = "subscribe" /\ starter' = "abandon" /\ dials \in Link!Conns /\ cur = 0
        /\ UNCHANGED <<attempt, reconnects, connected, cur, dials, standby, handed, sent,
                       cancelled>>
    BY <1>8, <1>a, <1>d DEF Link!SubscribeFails, LinkRounds, LinkUnder
  <2> DEFINE k == conn[dials]
             r == [k EXCEPT !.open = FALSE]
  <2>2. r = [k EXCEPT !.open = FALSE] /\ k \in LinkConnRec  BY <1>f, <2>1
  <2>3. conn' = [conn EXCEPT ![dials] = r]  BY <1>8 DEF Link!SubscribeFails, Link!Closed
  <2> HIDE DEF r
  <2>4. r \in LinkConnRec  BY <2>2 DEF LinkConnRec
  <2>5. r.at = k.at /\ r.hand = k.hand /\ r.queue = k.queue /\ r.holding = k.holding
        /\ r.wire = k.wire
    BY <2>2 DEF LinkConnRec
  <2>6. /\ conn' \in LinkConnType /\ conn'[dials] = r
        /\ \A d \in Link!Conns \ {dials} : conn'[d] = conn[d]
    BY <1>b, <2>1, <2>3, <2>4, LinkBecomes
  <2>7. faults' \in 0..LinkFaults  BY <1>8, <1>b, <1>c DEF Link!SubscribeFails, Link!Fault
  <2>8. LinkTypes'  BY <1>b, <2>1, <2>6, <2>7 DEF LinkTypes, LinkUnder
  <2>9. LinkRoom' /\ LinkHolds'  BY <1>a, <2>1, <2>5, <2>6 DEF LinkRoom, LinkHolds
  <2>10. LinkRounds'
    <3>1. \A d \in Link!Conns : d > dials \/ d < dials => conn'[d] = conn[d]
      BY <1>b, <2>1, <2>6 DEF Link!Conns, LinkTypes
    <3>2. /\ \A d \in Link!Conns : d > dials => conn'[d] = Link!Unused
          /\ \A d \in Link!Conns : d < dials => conn'[d].at = "done"
      BY <1>a, <3>1 DEF LinkRounds
    <3>3. dials > 0 /\ (standby => starter' \notin {"sleep", "dial"})
      BY <1>a, <2>1 DEF LinkRounds, LinkUnder
    <3> QED  BY <2>1, <3>2, <3>3 DEF LinkRounds, LinkUnder
  <2>11. LinkOrdered'
    <3>1. Link!InOrder' /\ \A j \in DOMAIN handed' : handed'[j] <= sent'.event
      BY <1>a, <2>1 DEF LinkOrdered, Link!InOrder
    <3> SUFFICES ASSUME dials > 0, r.at # "done" PROVE LinkLineOf(r, handed, sent.event)
      BY <2>1, <2>6, <3>1 DEF LinkOrdered, LinkLineOf, LinkLine, LinkFresh, LinkBefore,
         LinkSorted, LinkAhead
    <3>2. LinkLineOf(k, handed, sent.event)  BY <1>a, <2>5 DEF LinkOrdered
    <3> QED  BY <2>5, <3>2, LinkSameLine
  <2> QED  BY <2>8, <2>9, <2>10, <2>11 DEF LinkIInv
\* What a connection reads, holds and has in hand, when it is at work.
<1>9. ASSUME NEW c \in Link!Conns
      PROVE  /\ conn[c].wire \in Seq(Link!Frames) /\ conn[c].queue \in Seq(Link!Frames)
             /\ conn[c].holding \in Seq(Link!Frames) /\ Len(conn[c].holding) <= 1
             /\ conn[c].holding \in LinkHands /\ conn[c].hand \in LinkHands
             /\ Len(conn[c].queue) <= QueueCap
             /\ (conn[c].at = "handle" => conn[c].hand # <<>>)
             /\ LinkAhead(conn[c]) \in Seq(Link!Frames)
  BY <1>a, <1>f, LinkTyped, LinkHandIs, LinkAheadIs DEF LinkRoom, LinkHolds
<1>10. ASSUME NEW c \in Link!Conns, Link!Read(c) PROVE LinkIInv'
  <2> DEFINE k == conn[c]
  <2>1. /\ k \in LinkConnRec /\ k.wire \in Seq(Link!Frames) /\ k.wire # <<>> /\ k.holding = <<>>
           /\ k.reading
        /\ LinkAhead(k) \in Seq(Link!Frames)
    BY <1>f, <1>9, <1>10 DEF Link!Read, Link!Nothing
  <2>2. Tail(k.wire) \in Seq(Link!Frames) /\ Head(k.wire) \in Link!Frames  BY <2>1
  <2> DEFINE f == Head(k.wire)
             w == Tail(k.wire)
  <2>u. k # Link!Unused  BY <2>1, LinkNotUnused
  <2>3. CASE f.kind \in {"event", "enter", "disc"}
    <3> DEFINE p == <<f>>
               r == [k EXCEPT !.wire = w, !.holding = p]
    <3>1. r = [k EXCEPT !.wire = w, !.holding = p]  OBVIOUS
    <3>2. conn' = [conn EXCEPT ![c] = r]  BY <1>10, <2>3 DEF Link!Read
    <3>3. p \in LinkHands  BY <2>2 DEF LinkHands
    <3> HIDE DEF r, p, w
    <3>4. r \in LinkConnRec  BY <2>1, <2>2, <3>1, <3>3 DEF LinkConnRec, w
    <3>5. r.at = k.at /\ r.hand = k.hand /\ r.queue = k.queue /\ r.holding = p /\ r.wire = w
      BY <2>1, <3>1 DEF LinkConnRec
    <3>6. LinkAhead(r) = LinkAhead(k)  BY <3>5 DEF LinkAhead
    <3>7. LinkLineOf(k, handed, sent.event) => LinkLineOf(r, handed, sent.event)
      <4>1. LinkLine(LinkAhead(k), k.queue, k.holding, k.wire, handed, sent.event)
              => LinkLine(LinkAhead(k), k.queue, p, w, handed, sent.event)
        BY <2>1, LinkLineRead DEF p, w
      <4> QED  BY <3>5, <3>6, <4>1 DEF LinkLineOf
    <3>8. Len(r.queue) <= QueueCap /\ (r.at = "handle" => r.hand # <<>>)  BY <1>9, <3>5
    <3> QED  BY <1>10, <1>b, <2>u, <3>2, <3>4, <3>5, <3>7, <3>8, LinkMovesQuietly DEF Link!Read
  <2>4. CASE f.kind \notin {"event", "enter", "disc"}
    <3>1. PICK s \in {"none", "asked", "sent", "ok", "bad"}, v \in {"none", "asked", "sent",
        "ok"} :
             conn' = [conn EXCEPT ![c] = [k EXCEPT !.wire = w, !.sub = s, !.wel = v]]
      <4> DEFINE rest == [k EXCEPT !.wire = w]
      <4>1. conn' = [conn EXCEPT ![c] = Link!Answer(rest, f)]  BY <1>10, <2>4 DEF Link!Read
      <4>2. k.sub \in {"none", "asked", "sent", "ok", "bad"}
          /\ k.wel \in {"none", "asked", "sent", "ok"}
        BY <2>1, LinkTyped
      <4>3. CASE f.kind = "subOk"
        <5>1. Link!Answer(rest, f) = [k EXCEPT !.wire = w, !.sub = "ok", !.wel = k.wel]
          BY <2>1, <4>3 DEF Link!Answer, LinkConnRec
        <5> QED  BY <4>1, <4>2, <5>1
      <4>4. CASE f.kind = "subBad"
        <5>1. Link!Answer(rest, f) = [k EXCEPT !.wire = w, !.sub = "bad", !.wel = k.wel]
          BY <2>1, <4>4 DEF Link!Answer, LinkConnRec
        <5> QED  BY <4>1, <4>2, <5>1
      <4>5. CASE f.kind \notin {"subOk", "subBad"}
        <5> DEFINE v == IF k.wel = "sent" THEN "ok" ELSE k.wel
        <5>0. rest.wel = k.wel  BY <2>1 DEF LinkConnRec
        <5>1. Link!Answer(rest, f) = [k EXCEPT !.wire = w, !.sub = k.sub, !.wel = v]
          BY <2>1, <4>5, <5>0 DEF Link!Answer, LinkConnRec
        <5>2. v \in {"none", "asked", "sent", "ok"}  BY <4>2
        <5> QED  BY <4>1, <4>2, <5>1, <5>2
      <4> QED  BY <4>3, <4>4, <4>5
    <3> DEFINE r == [k EXCEPT !.wire = w, !.sub = s, !.wel = v]
    <3>2. r = [k EXCEPT !.wire = w, !.sub = s, !.wel = v]  OBVIOUS
    <3> HIDE DEF r, w
    <3>4. r \in LinkConnRec  BY <2>1, <2>2, <3>2 DEF LinkConnRec, w
    <3>5. r.at = k.at /\ r.hand = k.hand /\ r.queue = k.queue /\ r.holding = k.holding
        /\ r.wire = w
      BY <2>1, <3>2 DEF LinkConnRec
    <3>6. LinkAhead(r) = LinkAhead(k)  BY <3>5 DEF LinkAhead
    <3>7. LinkLineOf(k, handed, sent.event) => LinkLineOf(r, handed, sent.event)
      <4>1. LinkLine(LinkAhead(k), k.queue, k.holding, k.wire, handed, sent.event)
              => LinkLine(LinkAhead(k), k.queue, k.holding, w, handed, sent.event)
        BY <2>1, LinkLineRead DEF w
      <4> QED  BY <3>5, <3>6, <4>1 DEF LinkLineOf
    <3>8. Len(r.queue) <= QueueCap /\ (r.at = "handle" => r.hand # <<>>)  BY <1>9, <3>5
    <3>9. conn' = [conn EXCEPT ![c] = r]  BY <3>1 DEF r, w
    <3>10. UNCHANGED <<Link!link, standby, handed, sent, cancelled>> /\ faults' \in 0..LinkFaults
      BY <1>10, <1>b, <2>4 DEF Link!Read
    <3>11. k.at = "done" => r.at = "done"  BY <3>5
    <3> QED  BY <2>u, <3>4, <3>7, <3>8, <3>9, <3>10, <3>11, LinkMovesQuietly
  <2> QED  BY <2>3, <2>4
<1>11. ASSUME NEW c \in Link!Conns, Link!Queue(c) PROVE LinkIInv'
  <2> DEFINE k == conn[c]
             q == k.queue \o k.holding
             r == [k EXCEPT !.queue = q, !.holding = <<>>]
  <2>1. /\ k \in LinkConnRec /\ k.queue \in Seq(Link!Frames) /\ k.holding \in Seq(Link!Frames)
        /\ k.holding # <<>> /\ Len(k.holding) <= 1 /\ Len(k.queue) < QueueCap /\ k.reading
    BY <1>f, <1>9, <1>11 DEF Link!Queue, Link!Nothing
  <2>2. r = [k EXCEPT !.queue = q, !.holding = <<>>]  OBVIOUS
  <2>3. conn' = [conn EXCEPT ![c] = r]  BY <1>11 DEF Link!Queue, Link!Nothing
  <2>4. q \in Seq(Link!Frames) /\ Len(q) <= QueueCap
    <3>1. q \in Seq(Link!Frames) /\ Len(q) = Len(k.queue) + Len(k.holding)
      BY <2>1, ConcatProperties
    <3>2. Len(k.queue) \in Nat /\ Len(k.holding) \in Nat  BY <2>1
    <3>3. \A x, y \in Nat : x < QueueCap /\ y <= 1 => x + y <= QueueCap  BY <1>c
    <3> HIDE DEF q
    <3>4. Len(k.queue) + Len(k.holding) <= QueueCap  BY <2>1, <3>2, <3>3
    <3> QED  BY <3>1, <3>4
  <2>5. <<>> \in LinkHands  BY DEF LinkHands
  <2> HIDE DEF r, q
  <2>6. r \in LinkConnRec  BY <2>1, <2>2, <2>4, <2>5 DEF LinkConnRec
  <2>7. r.at = k.at /\ r.hand = k.hand /\ r.queue = q /\ r.holding = <<>> /\ r.wire = k.wire
    BY <2>1, <2>2 DEF LinkConnRec
  <2>8. LinkAhead(r) = LinkAhead(k)  BY <2>7 DEF LinkAhead
  <2>9. LinkLineOf(k, handed, sent.event) => LinkLineOf(r, handed, sent.event)
    <3>1. LinkLine(LinkAhead(k), k.queue, k.holding, k.wire, handed, sent.event)
            => LinkLine(LinkAhead(k), q, <<>>, k.wire, handed, sent.event)
      BY <2>1, LinkLineQueue DEF q
    <3> QED  BY <2>7, <2>8, <3>1 DEF LinkLineOf
  <2>10. (r.at = "handle" => r.hand # <<>>) /\ k # Link!Unused  BY <1>9, <2>1, <2>7, LinkNotUnused
  <2> QED  BY <1>11, <1>b, <2>3, <2>4, <2>6, <2>7, <2>9, <2>10, LinkMovesQuietly DEF Link!Queue
<1>12. ASSUME NEW c \in Link!Conns, Link!ReadEnds(c) PROVE LinkIInv'
  <2> DEFINE k == conn[c]
             r == [k EXCEPT !.reading = FALSE, !.open = FALSE, !.holding = <<>>, !.wire = <<>>]
  <2>1. k \in LinkConnRec /\ k.reading  BY <1>f, <1>12 DEF Link!ReadEnds
  <2>2. r = [k EXCEPT !.reading = FALSE, !.open = FALSE, !.holding = <<>>, !.wire = <<>>]  OBVIOUS
  <2>3. conn' = [conn EXCEPT ![c] = r]  BY <1>12 DEF Link!ReadEnds, Link!Nothing
  <2>4. <<>> \in LinkHands /\ <<>> \in Seq(Link!Frames)  BY DEF LinkHands
  <2> HIDE DEF r
  <2>5. \A x \in LinkConnRec, b \in BOOLEAN, p \in LinkHands, w \in Seq(Link!Frames) :
           [x EXCEPT !.reading = b, !.open = b, !.holding = p, !.wire = w] \in LinkConnRec
    BY DEF LinkConnRec
  <2>6. r \in LinkConnRec  BY <2>1, <2>2, <2>4, <2>5, Zenon
  <2>7. r.at = k.at /\ r.hand = k.hand /\ r.queue = k.queue /\ r.holding = <<>> /\ r.wire = <<>>
    BY <2>1, <2>2 DEF LinkConnRec
  <2>8. LinkAhead(r) = LinkAhead(k)  BY <2>7 DEF LinkAhead
  <2>9. LinkLineOf(k, handed, sent.event) => LinkLineOf(r, handed, sent.event)
    BY <2>7, <2>8, LinkLineDrops DEF LinkLineOf
  <2>10. Len(r.queue) <= QueueCap /\ (r.at = "handle" => r.hand # <<>>) /\ k # Link!Unused
    BY <1>9, <2>1, <2>7, LinkNotUnused
  <2> QED  BY <1>12, <1>b, <2>3, <2>6, <2>7, <2>9, <2>10, LinkMovesQuietly DEF Link!ReadEnds
<1>13. ASSUME NEW c \in Link!Conns, Link!Take(c) PROVE LinkIInv'
  <2> DEFINE k == conn[c]
  <2>1. k \in LinkConnRec /\ k.at = "idle" /\ k.queue \in Seq(Link!Frames) /\ k # Link!Unused
        /\ Len(k.queue) <= QueueCap /\ LinkAhead(k) = <<>>
    BY <1>f, <1>9, <1>13, LinkNotUnused DEF Link!Take, LinkAhead
  <2>2. CASE k.queue # <<>>
    <3> DEFINE h == <<Head(k.queue)>>
               q == Tail(k.queue)
               r == [k EXCEPT !.at = "handle", !.hand = h, !.queue = q]
    <3>1. r = [k EXCEPT !.at = "handle", !.hand = h, !.queue = q]  OBVIOUS
    <3>2. conn' = [conn EXCEPT ![c] = r]  BY <1>13, <2>2 DEF Link!Take
    <3>3. h \in LinkHands /\ h # <<>> /\ q \in Seq(Link!Frames) /\ "handle" \in LinkPlaces
      BY <2>1, <2>2 DEF LinkHands, LinkPlaces
    <3>4. Len(q) <= QueueCap
      <4>1. Len(q) = Len(k.queue) - 1 /\ Len(k.queue) \in Nat  BY <2>1, <2>2
      <4> QED  BY <1>c, <2>1, <4>1
    <3> HIDE DEF r, h, q
    <3>5. r \in LinkConnRec  BY <2>1, <3>1, <3>3 DEF LinkConnRec
    <3>6. r.at = "handle" /\ r.hand = h /\ r.queue = q /\ r.holding = k.holding /\ r.wire = k.wire
      BY <2>1, <3>1 DEF LinkConnRec
    <3>7. LinkAhead(r) = h  BY <3>6 DEF LinkAhead
    <3>8. LinkLineOf(k, handed, sent.event) => LinkLineOf(r, handed, sent.event)
      <4>1. LinkLine(<<>>, k.queue, k.holding, k.wire, handed, sent.event)
              => LinkLine(h, q, k.holding, k.wire, handed, sent.event)
        BY <2>1, <2>2, LinkLineTake DEF h, q
      <4> QED  BY <2>1, <3>6, <3>7, <4>1 DEF LinkLineOf
    <3> QED
      BY <1>13, <1>b, <2>1, <3>2, <3>3, <3>4, <3>5, <3>6, <3>8, LinkMovesQuietly DEF Link!Take
  <2>3. CASE k.queue = <<>> /\ conn' = [conn EXCEPT ![c].at = "done"]
    <3> DEFINE r == [k EXCEPT !.at = "done"]
    <3>1. r = [k EXCEPT !.at = "done"]  OBVIOUS
    <3>2. conn' = [conn EXCEPT ![c] = r]  BY <2>3
    <3>3. "done" \in LinkPlaces  BY DEF LinkPlaces
    <3> HIDE DEF r
    <3>5. r \in LinkConnRec /\ r.at = "done" /\ r.queue = k.queue
      BY <2>1, <3>1, <3>3 DEF LinkConnRec
    <3> QED  BY <1>13, <1>b, <2>1, <3>2, <3>5, LinkMovesQuietly DEF Link!Take
  <2> QED  BY <1>13, <2>2, <2>3 DEF Link!Take
\* The dispatcher is through with a callback that hands nothing over, or waits
\* for the answer to a welcome.
<1>14. ASSUME NEW c \in Link!Conns, NEW a \in LinkPlaces, NEW h \in LinkHands,
              NEW v \in {"none", "asked", "sent", "ok"},
              conn[c].at \in {"handle", "sink", "welcome"}, a \in {"idle", "welcome"},
              conn' = [conn EXCEPT ![c] = [conn[c] EXCEPT !.at = a, !.hand = h, !.wel = v]],
              UNCHANGED <<Link!link, standby, handed, sent, cancelled, faults>>
       PROVE  LinkIInv'
  <2> DEFINE k == conn[c]
             r == [k EXCEPT !.at = a, !.hand = h, !.wel = v]
  <2>1. r = [k EXCEPT !.at = a, !.hand = h, !.wel = v] /\ k \in LinkConnRec /\ k # Link!Unused
    BY <1>14, <1>f, LinkNotUnused
  <2>2. conn' = [conn EXCEPT ![c] = r]  BY <1>14
  <2> HIDE DEF r
  <2>3. r \in LinkConnRec  BY <2>1 DEF LinkConnRec
  <2>4. r.at = a /\ r.queue = k.queue /\ r.holding = k.holding /\ r.wire = k.wire
    BY <2>1 DEF LinkConnRec
  <2>5. LinkAhead(r) = <<>>  BY <1>14, <2>4 DEF LinkAhead
  <2>6. LinkLineOf(k, handed, sent.event) => LinkLineOf(r, handed, sent.event)
    BY <2>4, <2>5, LinkLineDrops DEF LinkLineOf
  <2>7. Len(r.queue) <= QueueCap /\ r.at # "handle" /\ k.at # "done"  BY <1>9, <1>14, <2>4
  <2> QED  BY <1>14, <1>b, <2>1, <2>2, <2>3, <2>6, <2>7, LinkMovesQuietly
<1>15. ASSUME NEW c \in Link!Conns, Link!Welcome(c) PROVE LinkIInv'
  <2>1. conn[c] \in LinkConnRec /\ conn[c].at = "handle" /\ "idle" \in LinkPlaces
        /\ "welcome" \in LinkPlaces /\ <<>> \in LinkHands /\ conn[c].hand \in LinkHands
        /\ conn[c].wel \in {"none", "asked", "sent", "ok"}
    BY <1>f, <1>9, <1>15, LinkTyped DEF Link!Welcome, Link!InHand, LinkPlaces, LinkHands
  <2>2. CASE conn' = Link!Idle(c)
    <3>1. conn' = [conn EXCEPT ![c] =
                     [conn[c] EXCEPT !.at = "idle", !.hand = <<>>, !.wel = conn[c].wel]]
      BY <1>b, <2>1, <2>2 DEF Link!Idle, Link!Nothing, LinkConnType, LinkConnRec
    <3> QED  BY <1>14, <1>15, <2>1, <3>1 DEF Link!Welcome
  <2>3. CASE conn' = [conn EXCEPT ![c].at = "welcome", ![c].wel = "asked"]
    <3>1. conn' = [conn EXCEPT ![c] =
                     [conn[c] EXCEPT !.at = "welcome", !.hand = conn[c].hand, !.wel = "asked"]]
      BY <1>b, <2>1, <2>3 DEF LinkConnType, LinkConnRec
    <3> QED  BY <1>14, <1>15, <2>1, <3>1 DEF Link!Welcome
  <2> QED  BY <1>15, <2>2, <2>3 DEF Link!Welcome
<1>16. ASSUME NEW c \in Link!Conns, Link!WelcomeEnds(c) PROVE LinkIInv'
  <2>1. conn[c] \in LinkConnRec /\ conn[c].at = "welcome" /\ "idle" \in LinkPlaces
      /\ <<>> \in LinkHands
    BY <1>f, <1>16 DEF Link!WelcomeEnds, LinkPlaces, LinkHands
  <2>2. conn' = [conn EXCEPT ![c] = [conn[c] EXCEPT !.at = "idle", !.hand = <<>>, !.wel = "none"]]
    BY <1>b, <1>16, <2>1 DEF Link!WelcomeEnds, Link!Idle, Link!Nothing, LinkConnType, LinkConnRec
  <2> QED  BY <1>14, <1>16, <2>1, <2>2 DEF Link!WelcomeEnds
<1>17. ASSUME NEW c \in Link!Conns, Link!Deliver(c) PROVE LinkIInv'
  <2>1. CASE conn[c].at = "sink" /\ conn' = Link!Idle(c) /\ UNCHANGED handed
    <3>1. conn[c] \in LinkConnRec /\ "idle" \in LinkPlaces /\ <<>> \in LinkHands
          /\ conn[c].wel \in {"none", "asked", "sent", "ok"}
      BY <1>f, LinkTyped DEF LinkPlaces, LinkHands
    <3>2. conn' = [conn EXCEPT ![c] =
                     [conn[c] EXCEPT !.at = "idle", !.hand = <<>>, !.wel = conn[c].wel]]
      BY <1>b, <2>1, <3>1 DEF Link!Idle, Link!Nothing, LinkConnType, LinkConnRec
    <3> QED  BY <1>14, <1>17, <2>1, <3>1, <3>2 DEF Link!Deliver
  <2>2. CASE /\ Link!InHand(c, "event") /\ handed' = Append(handed, conn[c].hand[1].n)
             /\ conn' = [conn EXCEPT ![c].at = "sink"]
    <3> DEFINE k == conn[c]
               f == k.hand[1]
               r == [k EXCEPT !.at = "sink"]
    <3>1. r = [k EXCEPT !.at = "sink"] /\ conn' = [conn EXCEPT ![c] = r]  BY <2>2
    <3>2. /\ k \in LinkConnRec /\ k.at = "handle" /\ f.kind = "event" /\ k # Link!Unused
          /\ f \in Link!Frames /\ k.hand = <<f>> /\ "sink" \in LinkPlaces
      BY <2>2, <1>f, <1>9, LinkHandIs, LinkNotUnused DEF Link!InHand, LinkPlaces
    <3>3. c = dials /\ starter \in LinkUnder /\ dials > 0  BY <3>2, LinkBusy, <1>c DEF Link!Conns
    <3>4. f.n \in 1..MaxEvents /\ f.n \in Nat  BY <3>2, LinkFrameIs
    <3> HIDE DEF r
    <3>5. r \in LinkConnRec /\ r.at = "sink" /\ r.queue = k.queue /\ r.holding = k.holding
          /\ r.wire = k.wire
      BY <3>1, <3>2 DEF LinkConnRec
    <3>6. LinkAhead(k) = <<f>> /\ LinkAhead(r) = <<>>  BY <3>2, <3>5 DEF LinkAhead
    <3>7. LinkLine(<<f>>, k.queue, k.holding, k.wire, handed, sent.event)
      BY <1>a, <3>2, <3>3, <3>6 DEF LinkOrdered, LinkLineOf
    <3>8. handed \in Seq(Nat)  BY <1>g
    <3>10. k.queue \in Seq(Link!Frames) /\ k.holding \in Seq(Link!Frames)
        /\ k.wire \in Seq(Link!Frames)
      BY <1>9
    <3> HIDE DEF f
    <3>9. /\ LinkLine(<<>>, k.queue, k.holding, k.wire, Append(handed, f.n), sent.event)
          /\ f.n <= sent.event /\ \A j \in DOMAIN handed : handed[j] < f.n
      BY <1>e, <3>2, <3>7, <3>8, <3>10, LinkLineHands
    <3>11. handed' = Append(handed, f.n) /\ sent' = sent  BY <1>17, <2>2 DEF Link!Deliver, f
    <3>12. LinkLineOf(r, handed', sent'.event)  BY <3>5, <3>6, <3>9, <3>11 DEF LinkLineOf
    <3>13. \A j \in DOMAIN handed' : \/ j \in DOMAIN handed /\ handed'[j] = handed[j]
                                     \/ handed'[j] = f.n /\ j = Len(handed) + 1
      BY <1>b, <3>4, <3>11
    <3>14. handed' \in Seq(1..MaxEvents)  BY <1>b, <3>4, <3>11
    <3>15. \A j \in DOMAIN handed' : handed'[j] <= sent'.event
      BY <1>a, <3>9, <3>11, <3>13 DEF LinkOrdered
    <3>16. Link!InOrder'
      <4>1. DOMAIN handed = 1..Len(handed) /\ Len(handed) \in Nat  BY <1>b
      <4> SUFFICES ASSUME NEW i \in DOMAIN handed', NEW j \in DOMAIN handed', i < j
                   PROVE  handed'[i] < handed'[j]
        BY DEF Link!InOrder
      <4>2. i \in DOMAIN handed /\ handed'[i] = handed[i]
        <5>1. DOMAIN handed' = 1..(Len(handed) + 1)  BY <1>b, <3>4, <3>11
        <5> QED  BY <3>13, <4>1, <5>1
      <4>3. CASE j \in DOMAIN handed /\ handed'[j] = handed[j]
        BY <1>a, <4>2, <4>3 DEF LinkOrdered, Link!InOrder
      <4>4. CASE handed'[j] = f.n  BY <3>9, <4>2, <4>4
      <4> QED  BY <3>13, <4>3, <4>4
    <3>17. /\ UNCHANGED <<starter, attempt, reconnects, cur, dials>> /\ faults' \in 0..LinkFaults
           /\ standby' \in BOOLEAN /\ connected' \in BOOLEAN /\ cancelled' \in BOOLEAN
           /\ standby' => standby \/ starter \in LinkUnder
      BY <1>17, <1>b DEF Link!Deliver, Link!link
    <3>18. sent' \in LinkSentType /\ sent.event <= sent'.event  BY <1>b, <1>e, <3>11
    <3>19. Len(r.queue) <= QueueCap /\ (r.at = "handle" => r.hand # <<>>) /\ k.at # "done"
      BY <1>9, <3>2, <3>5
    <3> QED  BY <3>1, <3>2, <3>3, <3>5, <3>12, <3>14, <3>15, <3>16, <3>17, <3>18, <3>19, LinkMoves
  <2> QED  BY <1>17, <2>1, <2>2 DEF Link!Deliver
<1>18. ASSUME NEW c \in Link!Conns, Link!EnterStandby(c) PROVE LinkIInv'
  <2> DEFINE k == conn[c]
             r == [k EXCEPT !.at = "idle", !.hand = <<>>, !.open = FALSE]
  <2>1. /\ k \in LinkConnRec /\ k.at = "handle" /\ k # Link!Unused /\ "idle" \in LinkPlaces
           /\ <<>> \in LinkHands
    BY <1>f, <1>18, LinkNotUnused DEF Link!EnterStandby, Link!InHand, LinkPlaces, LinkHands
  <2>2. c = dials /\ starter \in LinkUnder /\ dials > 0  BY <2>1, LinkBusy, <1>c DEF Link!Conns
  <2>3. r = [k EXCEPT !.at = "idle", !.hand = <<>>, !.open = FALSE]  OBVIOUS
  <2>4. conn' = [conn EXCEPT ![c] = r]
    BY <1>b, <1>18, <2>1 DEF Link!EnterStandby, Link!Idle, Link!Nothing, LinkConnType, LinkConnRec
  <2> HIDE DEF r
  <2>5. \A x \in LinkConnRec, b \in BOOLEAN, a \in LinkPlaces, h \in LinkHands :
           [x EXCEPT !.at = a, !.hand = h, !.open = b] \in LinkConnRec
    BY DEF LinkConnRec
  <2>6. r \in LinkConnRec  BY <2>1, <2>3, <2>5, Zenon
  <2>7. r.at = "idle" /\ r.queue = k.queue /\ r.holding = k.holding /\ r.wire = k.wire
    BY <2>1, <2>3 DEF LinkConnRec
  <2>8. LinkAhead(r) = <<>>  BY <2>7 DEF LinkAhead
  <2>9. LinkLineOf(k, handed, sent.event)  BY <1>a, <2>1, <2>2 DEF LinkOrdered
  <2>10. LinkLineOf(r, handed, sent.event)  BY <2>7, <2>8, <2>9, LinkLineDrops DEF LinkLineOf
  <2>11. handed' = handed /\ sent' = sent  BY <1>18 DEF Link!EnterStandby
  <2>12. LinkLineOf(r, handed', sent'.event)  BY <2>10, <2>11
  <2>13. /\ UNCHANGED <<starter, attempt, reconnects, cur, dials>> /\ faults' \in 0..LinkFaults
         /\ cancelled' \in BOOLEAN
         /\ standby' => standby \/ starter \in LinkUnder
    BY <1>18, <1>b, <2>2 DEF Link!EnterStandby
  <2>17. standby' \in BOOLEAN /\ connected' \in BOOLEAN  BY <1>18 DEF Link!EnterStandby
  <2>14. sent' \in LinkSentType /\ sent.event <= sent'.event /\ handed' \in Seq(1..MaxEvents)
    BY <1>b, <1>e, <2>11
  <2>15. Link!InOrder' /\ \A j \in DOMAIN handed' : handed'[j] <= sent'.event
    BY <1>a, <2>11 DEF LinkOrdered, Link!InOrder
  <2>16. Len(r.queue) <= QueueCap /\ (r.at = "handle" => r.hand # <<>>) /\ k.at # "done"
    BY <1>9, <2>1, <2>7
  <2> QED
    BY <2>1, <2>2, <2>4, <2>6, <2>11, <2>12, <2>13, <2>14, <2>15, <2>16, <2>17, LinkMoves
\* The platform pushes a frame, numbered beyond those it has sent.
<1>19. ASSUME NEW c \in Link!Conns, NEW f \in Link!Frames, NEW r \in LinkConnRec,
    conn[c] # Link!Unused,
              conn' = [conn EXCEPT ![c] = r], r.wire = Append(conn[c].wire, f),
              r.at = conn[c].at, r.hand = conn[c].hand, r.queue = conn[c].queue,
              r.holding = conn[c].holding, UNCHANGED <<Link!link, standby, handed, cancelled,
                  faults>>,
              sent' \in LinkSentType, sent.event <= sent'.event,
              f.kind = "event" => sent.event < f.n /\ f.n <= sent'.event
       PROVE  LinkIInv'
  <2> DEFINE k == conn[c]
  <2>1. /\ k \in LinkConnRec /\ k.queue \in Seq(Link!Frames) /\ k.holding \in Seq(Link!Frames)
        /\ k.wire \in Seq(Link!Frames) /\ LinkAhead(k) \in Seq(Link!Frames)
           /\ LinkAhead(r) = LinkAhead(k)
    BY <1>f, <1>9, <1>19 DEF LinkAhead
  <2>2. handed \in Seq(Nat) /\ sent'.event \in Nat /\ handed' = handed
    BY <1>19, <1>c, <1>g DEF LinkSentType
  <2>3. \A j \in DOMAIN handed : handed[j] <= sent.event  BY <1>a DEF LinkOrdered
  <2>4. c = dials /\ r.at # "done" => LinkLineOf(r, handed', sent'.event)
    <3> SUFFICES ASSUME c = dials, r.at # "done"
        PROVE LinkLineOf(r, handed', sent'.event)  OBVIOUS
    <3>1. dials > 0  BY <1>c DEF Link!Conns
    <3>2. conn[dials].at # "done"  BY <1>19
    <3>3. LinkLine(LinkAhead(k), k.queue, k.holding, k.wire, handed, sent.event)
      BY <1>a, <3>1, <3>2 DEF LinkOrdered, LinkLineOf
    <3> HIDE DEF k
    <3>4. LinkLine(LinkAhead(k), k.queue, k.holding, Append(k.wire, f), handed, sent'.event)
      BY <1>19, <1>e, <2>1, <2>2, <2>3, <3>3, LinkLinePush
    <3> QED  BY <1>19, <2>1, <2>2, <3>4 DEF LinkLineOf, k
  <2>5. Link!InOrder' /\ \A j \in DOMAIN handed' : handed'[j] <= sent'.event
    <3>1. \A j \in DOMAIN handed : handed[j] \in Nat  BY <2>2
    <3>2. \A j \in DOMAIN handed : handed[j] <= sent'.event  BY <1>e, <1>19, <2>2, <2>3, <3>1
    <3> QED  BY <1>a, <2>2, <3>2 DEF LinkOrdered, Link!InOrder
  <2>6. /\ UNCHANGED <<starter, attempt, reconnects, cur, dials>> /\ faults' \in 0..LinkFaults
        /\ standby' \in BOOLEAN /\ connected' \in BOOLEAN /\ cancelled' \in BOOLEAN
        /\ standby' => standby \/ starter \in LinkUnder
    BY <1>19, <1>b DEF Link!link
  <2>8. handed' \in Seq(1..MaxEvents)  BY <1>b, <2>2
  <2>7. Len(r.queue) <= QueueCap /\ (r.at = "handle" => r.hand # <<>>)  BY <1>9, <1>19
  <2> QED  BY <1>19, <2>2, <2>4, <2>5, <2>6, <2>7, <2>8, LinkMoves
<1>20. ASSUME NEW c \in Link!Conns, Link!PushCallback(c) PROVE LinkIInv'
  <2> DEFINE k == conn[c]
  <2>1. k \in LinkConnRec /\ k.wire \in Seq(Link!Frames) /\ k # Link!Unused
    BY <1>f, <1>9, <1>20, LinkNotUnused DEF Link!PushCallback, Link!Live
  <2>2. ASSUME NEW f \in Link!Frames, Link!Push(c, f), sent' \in LinkSentType,
      sent.event <= sent'.event,
               f.kind = "event" => sent.event < f.n /\ f.n <= sent'.event
        PROVE  LinkIInv'
    <3> DEFINE w == Append(k.wire, f)
               r == [k EXCEPT !.wire = w]
    <3>1. r = [k EXCEPT !.wire = w] /\ conn' = [conn EXCEPT ![c] = r]  BY <2>2 DEF Link!Push
    <3>2. w \in Seq(Link!Frames)  BY <2>1
    <3> HIDE DEF r
    <3>3. r \in LinkConnRec  BY <2>1, <3>1, <3>2 DEF LinkConnRec
    <3>4. r.wire = w /\ r.at = k.at /\ r.hand = k.hand /\ r.queue = k.queue
          /\ r.holding = k.holding
      BY <2>1, <3>1 DEF LinkConnRec
    <3> QED  BY <1>19, <1>20, <2>1, <2>2, <3>1, <3>3, <3>4 DEF Link!PushCallback
  <2>3. CASE /\ sent.event < MaxEvents /\ sent' = [sent EXCEPT !.event = @ + 1]
             /\ Link!Push(c, [kind |-> "event", n |-> sent.event + 1])
    <3> DEFINE f == [kind |-> "event", n |-> sent.event + 1]
    <3>1. sent.event + 1 \in 1..MaxEvents /\ sent.event + 1 \in 0..MaxEvents
      BY <1>c, <1>e, <2>3
    <3>2. f \in Link!Frames /\ f.kind = "event" /\ f.n = sent.event + 1  BY <3>1 DEF Link!Frames
    <3>3. sent' \in LinkSentType /\ sent'.event = sent.event + 1
      BY <1>b, <2>3, <3>1 DEF LinkSentType
    <3> HIDE DEF f
    <3>4. Link!Push(c, f)  BY <2>3 DEF f
    <3> QED  BY <1>e, <2>2, <3>2, <3>3, <3>4
  <2>4. CASE /\ sent' = [sent EXCEPT !.enter = @ + 1]
             /\ Link!Push(c, [kind |-> "enter", n |-> 0])
    <3> DEFINE f == [kind |-> "enter", n |-> 0]
    <3>2. f \in Link!Frames /\ f.kind # "event"  BY DEF Link!Frames
    <3>3. sent' \in LinkSentType /\ sent'.event = sent.event
      BY <1>b, <1>e, <2>4 DEF LinkSentType
    <3> HIDE DEF f
    <3>4. Link!Push(c, f)  BY <2>4 DEF f
    <3> QED  BY <1>e, <2>2, <3>2, <3>3, <3>4
  <2> QED  BY <1>20, <2>3, <2>4 DEF Link!PushCallback
<1>21. ASSUME NEW c \in Link!Conns, Link!Kick(c) PROVE LinkIInv'
  <2> DEFINE k == conn[c]
             w == Append(k.wire, Link!Disc)
             r == [k EXCEPT !.wire = w, !.cut = TRUE]
  <2>1. k \in LinkConnRec /\ k.wire \in Seq(Link!Frames) /\ k # Link!Unused
    BY <1>f, <1>9, <1>21, LinkNotUnused DEF Link!Kick, Link!Live
  <2>2. Link!Disc \in Link!Frames /\ Link!Disc.kind # "event"  BY DEF Link!Frames, Link!Disc
  <2>3. r = [k EXCEPT !.wire = w, !.cut = TRUE] /\ conn' = [conn EXCEPT ![c] = r]
    BY <1>21 DEF Link!Kick
  <2>4. w \in Seq(Link!Frames)  BY <2>1, <2>2
  <2> HIDE DEF r
  <2>5. \A x \in LinkConnRec, b \in BOOLEAN, v \in Seq(Link!Frames) : [x EXCEPT !.wire = v,
      !.cut = b] \in LinkConnRec
    BY DEF LinkConnRec
  <2>6. r \in LinkConnRec  BY <2>1, <2>3, <2>4, <2>5, Zenon
  <2>7. r.wire = w /\ r.at = k.at /\ r.hand = k.hand /\ r.queue = k.queue
        /\ r.holding = k.holding
    BY <2>1, <2>3 DEF LinkConnRec
  <2>8. sent' \in LinkSentType /\ sent'.event = sent.event
    <3>1. \A x \in LinkSentType, b \in BOOLEAN : /\ [x EXCEPT !.disc = b] \in LinkSentType
                                                /\ [x EXCEPT !.disc = b].event = x.event
      BY DEF LinkSentType
    <3>2. sent' = [sent EXCEPT !.disc = TRUE]  BY <1>21 DEF Link!Kick
    <3> QED  BY <1>b, <3>1, <3>2, Zenon
  <2>9. sent.event <= sent'.event  BY <1>e, <2>8
  <2> QED  BY <1>19, <1>21, <2>1, <2>2, <2>3, <2>6, <2>7, <2>8, <2>9 DEF Link!Kick
\* What the platform answers is no event; what breaks off is not handed over.
<1>22. ASSUME NEW c \in Link!Conns, NEW r \in LinkConnRec, conn[c] # Link!Unused,
              conn' = [conn EXCEPT ![c] = r],
              r.at = conn[c].at, r.hand = conn[c].hand, r.queue = conn[c].queue,
              r.holding = conn[c].holding,
              \/ r.wire \in {<<>>, conn[c].wire}
              \/ \E f \in Link!Frames : f.kind # "event"
                                       /\ r.wire \in {<<f>>, Append(conn[c].wire, f)},
              UNCHANGED <<Link!link, standby, handed, sent, cancelled>>, faults' \in 0..LinkFaults
       PROVE  LinkIInv'
  <2> DEFINE k == conn[c]
  <2>1. /\ k \in LinkConnRec /\ k.queue \in Seq(Link!Frames) /\ k.holding \in Seq(Link!Frames)
        /\ k.wire \in Seq(Link!Frames) /\ LinkAhead(k) \in Seq(Link!Frames)
           /\ LinkAhead(r) = LinkAhead(k)
    BY <1>f, <1>9, <1>22 DEF LinkAhead
  <2>2. handed \in Seq(Nat) /\ \A j \in DOMAIN handed : handed[j] <= sent.event
    BY <1>a, <1>g DEF LinkOrdered
  <2>3. LinkLineOf(k, handed, sent.event) => LinkLineOf(r, handed, sent.event)
    <3> SUFFICES ASSUME LinkLine(LinkAhead(k), k.queue, k.holding, k.wire, handed, sent.event)
                 PROVE  LinkLine(LinkAhead(k), k.queue, k.holding, r.wire, handed, sent.event)
      BY <1>22, <2>1 DEF LinkLineOf
    <3> HIDE DEF k
    <3>1. LinkLine(LinkAhead(k), k.queue, k.holding, <<>>, handed, sent.event)  BY LinkLineDrops
    <3>2. ASSUME NEW f \in Link!Frames, f.kind # "event"
          PROVE  /\ LinkLine(LinkAhead(k), k.queue, k.holding, Append(k.wire, f), handed,
                    sent.event)
                 /\ LinkLine(LinkAhead(k), k.queue, k.holding, <<f>>, handed, sent.event)
      <4>1. <<>> \in Seq(Link!Frames) /\ Append(<<>>, f) = <<f>> /\ sent.event <= sent.event
        BY <1>e
      <4>2. LinkLine(LinkAhead(k), k.queue, k.holding, Append(k.wire, f), handed, sent.event)
        BY <1>e, <2>1, <2>2, <3>2, <4>1, LinkLinePush
      <4>3. LinkLine(LinkAhead(k), k.queue, k.holding, Append(<<>>, f), handed, sent.event)
        BY <1>e, <2>1, <2>2, <3>1, <3>2, <4>1, LinkLinePush
      <4> QED  BY <4>1, <4>2, <4>3
    <3> QED  BY <1>22, <3>1, <3>2 DEF k
  <2>4. Len(r.queue) <= QueueCap /\ (r.at = "handle" => r.hand # <<>>)  BY <1>9, <1>22
  <2> QED  BY <1>22, <2>3, <2>4, LinkMovesQuietly
<1>23. ASSUME NEW c \in Link!Conns, Link!AnswerSubscribe(c) PROVE LinkIInv'
  <2> DEFINE k == conn[c]
  <2>1. k \in LinkConnRec /\ k # Link!Unused
    BY <1>f, <1>23, LinkNotUnused DEF Link!AnswerSubscribe, Link!Live
  <2>2. PICK b \in {"subOk", "subBad"} :
           conn' = [conn EXCEPT ![c].sub = "sent", ![c].wire = <<[kind |-> b, n |-> 0]>>]
    BY <1>23 DEF Link!AnswerSubscribe
  <2> DEFINE f == [kind |-> b, n |-> 0]
             w == <<f>>
             r == [k EXCEPT !.sub = "sent", !.wire = w]
  <2>3. r = [k EXCEPT !.sub = "sent", !.wire = w] /\ conn' = [conn EXCEPT ![c] = r]  BY <2>2
  <2>4. f \in Link!Frames /\ f.kind # "event" /\ w \in Seq(Link!Frames)  BY DEF Link!Frames
  <2> HIDE DEF r
  <2>5. r \in LinkConnRec  BY <2>1, <2>3, <2>4 DEF LinkConnRec
  <2>6. r.wire = w /\ r.at = k.at /\ r.hand = k.hand /\ r.queue = k.queue
        /\ r.holding = k.holding
    BY <2>1, <2>3 DEF LinkConnRec
  <2>7. faults' \in 0..LinkFaults  BY <1>23, <1>b, <1>c DEF Link!AnswerSubscribe, Link!Fault
  <2> QED  BY <1>22, <1>23, <2>1, <2>3, <2>4, <2>5, <2>6, <2>7 DEF Link!AnswerSubscribe
<1>24. ASSUME NEW c \in Link!Conns, Link!AnswerWelcome(c) PROVE LinkIInv'
  <2> DEFINE k == conn[c]
             f == [kind |-> "welOk", n |-> 0]
             w == Append(k.wire, f)
             r == [k EXCEPT !.wel = "sent", !.wire = w]
  <2>1. k \in LinkConnRec /\ k # Link!Unused /\ k.wire \in Seq(Link!Frames)
    BY <1>f, <1>9, <1>24, LinkNotUnused DEF Link!AnswerWelcome, Link!Live
  <2>3. r = [k EXCEPT !.wel = "sent", !.wire = w] /\ conn' = [conn EXCEPT ![c] = r]
    BY <1>24 DEF Link!AnswerWelcome
  <2>4. f \in Link!Frames /\ f.kind # "event"  BY DEF Link!Frames
  <2>8. w \in Seq(Link!Frames)  BY <2>1, <2>4
  <2> HIDE DEF r
  <2>5. r \in LinkConnRec  BY <2>1, <2>3, <2>8 DEF LinkConnRec
  <2>6. r.wire = w /\ r.at = k.at /\ r.hand = k.hand /\ r.queue = k.queue
        /\ r.holding = k.holding
    BY <2>1, <2>3 DEF LinkConnRec
  <2> QED  BY <1>22, <1>24, <1>b, <2>1, <2>3, <2>4, <2>5, <2>6 DEF Link!AnswerWelcome
<1>25. ASSUME NEW c \in Link!Conns, Link!Break(c) PROVE LinkIInv'
  <2> DEFINE k == conn[c]
  <2>1. k \in LinkConnRec /\ k # Link!Unused /\ k.wire \in Seq(Link!Frames)
      /\ <<>> \in Seq(Link!Frames)
    BY <1>f, <1>9, <1>25, LinkNotUnused DEF Link!Break, Link!Live
  <2>2. PICK w \in {<<>>, k.wire} : conn' = [conn EXCEPT ![c].cut = TRUE, ![c].wire = w]
    BY <1>25 DEF Link!Break
  <2> DEFINE r == [k EXCEPT !.cut = TRUE, !.wire = w]
  <2>3. r = [k EXCEPT !.cut = TRUE, !.wire = w] /\ conn' = [conn EXCEPT ![c] = r]  BY <2>2
  <2> HIDE DEF r
  <2>4. w \in Seq(Link!Frames)  BY <2>1, <2>2
  <2>5. \A x \in LinkConnRec, b \in BOOLEAN, v \in Seq(Link!Frames) : [x EXCEPT !.cut = b,
      !.wire = v] \in LinkConnRec
    BY DEF LinkConnRec
  <2>6. r \in LinkConnRec  BY <2>1, <2>3, <2>4, <2>5, Zenon
  <2>7. r.wire = w /\ r.at = k.at /\ r.hand = k.hand /\ r.queue = k.queue
        /\ r.holding = k.holding
    BY <2>1, <2>3 DEF LinkConnRec
  <2>8. faults' \in 0..LinkFaults  BY <1>25, <1>b, <1>c DEF Link!Break, Link!Fault
  <2>9. UNCHANGED <<Link!link, standby, handed, sent, cancelled>>  BY <1>25 DEF Link!Break
  <2>10. r.wire \in {<<>>, k.wire} /\ k # Link!Unused  BY <2>1, <2>2, <2>7
  <2>11. r.at = k.at /\ r.hand = k.hand /\ r.queue = k.queue /\ r.holding = k.holding  BY <2>7
  <2> HIDE DEF k
  <2> QED  BY <1>22, <2>3, <2>6, <2>8, <2>9, <2>10, <2>11 DEF k
<1>26. CASE Link!Cancel
  <2>1. LinkTypes' /\ LinkRounds'
    BY <1>26, <1>a, <1>b DEF Link!Cancel, LinkTypes, LinkRounds, Link!link
  <2> QED  BY <1>26, <2>1, LinkStartSteps DEF Link!Cancel, Link!link
<1> QED
  BY <1>0, <1>1, <1>2, <1>3, <1>4, <1>6, <1>7, <1>8, <1>10, <1>11, <1>12, <1>13, <1>15, <1>16,
     <1>17, <1>18, <1>20, <1>21, <1>23, <1>24, <1>25, <1>26
     DEF Link!Next, Link!Start, Link!Outside, Link!ReadLoop, Link!Dispatcher

LEMMA LinkIInvTypes == ASSUME LinkAssumed PROVE LinkIInv => Link!TypeOK
<1> SUFFICES ASSUME LinkIInv PROVE Link!TypeOK  OBVIOUS
<1>1. LinkTypes /\ LinkRoom  BY DEF LinkIInv
<1>2. \A S, q, n : q \in Seq(S) /\ n \in Nat /\ Len(q) <= n => q \in Link!BoundedSeq(S, n)
  <2> SUFFICES ASSUME NEW S, NEW q \in Seq(S), NEW n \in Nat, Len(q) <= n
               PROVE  q \in Link!BoundedSeq(S, n)
    OBVIOUS
  <2>1. Len(q) \in 0..n /\ q \in [1..Len(q) -> S]  OBVIOUS
  <2>2. \E m \in 0..n : q \in [1..m -> S]  BY <2>1
  <2> QED  BY <2>2 DEF Link!BoundedSeq, Link!SeqOf
<1>3. \A S : \A q \in Seq(S) : Link!Range(q) \subseteq S  BY DEF Link!Range
<1>4. ASSUME NEW c \in Link!Conns
      PROVE  /\ {conn[c].open, conn[c].cut, conn[c].reading} \subseteq BOOLEAN
             /\ conn[c].queue \in Link!BoundedSeq(Link!Frames, QueueCap)
             /\ {conn[c].holding, conn[c].hand} \subseteq Link!BoundedSeq(Link!Frames, 1)
             /\ Link!Range(conn[c].wire) \subseteq Link!Frames
             /\ conn[c].at \in {"none", "idle", "handle", "sink", "welcome", "done"}
             /\ conn[c].sub \in {"none", "asked", "sent", "ok", "bad"}
             /\ conn[c].wel \in {"none", "asked", "sent", "ok"}
  <2>1. conn[c] \in LinkConnRec  BY <1>1 DEF LinkTypes, LinkConnType
  <2>2. /\ conn[c].open \in BOOLEAN /\ conn[c].cut \in BOOLEAN /\ conn[c].reading \in BOOLEAN
        /\ conn[c].wire \in Seq(Link!Frames) /\ conn[c].holding \in LinkHands
        /\ conn[c].queue \in Seq(Link!Frames)
        /\ conn[c].at \in LinkPlaces /\ conn[c].hand \in LinkHands
        /\ conn[c].sub \in {"none", "asked", "sent", "ok", "bad"}
        /\ conn[c].wel \in {"none", "asked", "sent", "ok"}
    BY <2>1, LinkTyped
  <2>3. /\ conn[c].holding \in Seq(Link!Frames) /\ Len(conn[c].holding) <= 1
        /\ conn[c].hand \in Seq(Link!Frames) /\ Len(conn[c].hand) <= 1
    BY <2>2, LinkHandIs
  <2>4. conn[c].queue \in Link!BoundedSeq(Link!Frames, QueueCap)
    BY <1>1, <1>2, <2>2 DEF LinkRoom, LinkAssumed
  <2>5. conn[c].holding \in Link!BoundedSeq(Link!Frames, 1)
      /\ conn[c].hand \in Link!BoundedSeq(Link!Frames, 1)
    BY <1>2, <2>3
  <2> QED  BY <1>3, <2>2, <2>4, <2>5 DEF LinkPlaces
<1>5. Link!Range(handed) \subseteq 1..MaxEvents  BY <1>1, <1>3 DEF LinkTypes
<1>6. reconnects \in 0..MaxDials  BY <1>1 DEF LinkTypes, LinkAssumed
<1> QED  BY <1>1, <1>4, <1>5, <1>6 DEF LinkTypes, Link!TypeOK, LinkUnder

\* On standby Start does not dial.
LEMMA LinkStandbyStays ==
  ASSUME LinkIInv, Link!Next, standby PROVE dials' = dials
<1>1. starter # "dial"  BY DEF LinkIInv, LinkRounds
<1> QED
  BY <1>1 DEF Link!Next, Link!Start, Link!Check, Link!Sleep, Link!Dial, Link!Subscribed,
     Link!SubscribeFails, Link!CloseOnCancel, Link!Lost,
     Link!Drained, Link!ReadLoop, Link!Read, Link!Queue, Link!ReadEnds, Link!Dispatcher,
         Link!Take, Link!Deliver, Link!Welcome, Link!WelcomeEnds,
     Link!EnterStandby, Link!AnswerSubscribe, Link!Outside, Link!AnswerWelcome, Link!PushCallback,
         Link!Kick, Link!Break, Link!PingFails,
     Link!Cancel, Link!link
-----------------------------------------------------------------------------
\* The card of a run (CardCoalescer).
CardAssumed == MaxChanges \in Nat /\ CardFaults \in Nat

CardStatuses == Card!Over \cup {"working"}
CardViews == {Card!None} \cup {Card!View(s, n) : s \in CardStatuses, n \in 0..content}
CardRunning == {"step", "sent", "save", "push", "nudged"}
CardPushing == {"push", "nudged", "close"}

CardTypes ==
  /\ phase \in {"step", "sent", "save", "push", "nudged", "fail", "close", "over", "broken",
                "abandoned", "cancelled"}
  /\ failing \in BOOLEAN /\ content \in 0..MaxChanges
  /\ "content" \in DOMAIN row /\ row.content \in 0..content
  /\ pending \in CardViews /\ inAir \in CardViews /\ shown \in CardViews
  /\ {merged, asked, told, lost} \subseteq Nat
  /\ asked = told + lost + merged

\* What waits or is under way is newer than what is shown.
CardNewer(v, w) == w # Card!None => /\ v[1].content >= w[1].content
                                    /\ w[1].status \in Card!Over => v[1].status \in Card!Over

CardOrdered ==
  /\ phase \in CardRunning /\ Card!Sent => shown[1].status = "working"
  /\ phase \notin {"abandoned", "cancelled"} /\ Card!Sent /\ pending # Card!None => pending[1].content >= shown[1].content
  /\ phase \in CardPushing => inAir # Card!None /\ pending = Card!None /\ CardNewer(inAir, shown)
  /\ phase = "close" => inAir[1].content = content /\ inAir[1].status \in Card!Over
  /\ phase \in {"push", "nudged"} => inAir[1].status = "working"
  /\ phase \notin {"abandoned", "cancelled"} /\ pending # Card!None => pending[1].status = "working"
  /\ phase = "over" => merged = 0 /\ (Card!Sent => shown[1].status \in Card!Over /\ shown[1].content = content)
  /\ phase \in CardPushing \cup {"save"} => Card!Sent
  /\ ~Card!Sent => merged = 0 /\ pending = Card!None

CardIInv == CardTypes /\ CardOrdered

LEMMA CardViewFacts ==
  /\ Card!None \in CardViews
  /\ \A s \in CardStatuses, n \in 0..content :
       /\ Card!View(s, n) \in CardViews /\ Card!View(s, n) # Card!None
       /\ Card!View(s, n)[1].status = s /\ Card!View(s, n)[1].content = n
  /\ \A v \in CardViews \ {Card!None} : v[1].status \in CardStatuses /\ v[1].content \in 0..content
  BY DEF Card!View, Card!None, CardViews

LEMMA CardWorkingView ==
  ASSUME CardTypes
  PROVE  /\ Card!View("working", content) \in CardViews /\ Card!View("working", content) # Card!None
         /\ Card!View("working", content)[1].status = "working"
         /\ Card!View("working", content)[1].content = content
<1>1. "working" \in CardStatuses /\ content \in 0..content  BY DEF CardTypes, CardStatuses
<1> QED  BY <1>1, CardViewFacts

LEMMA CardViewsGrow == ASSUME content \in Nat, content' \in Nat, content' >= content PROVE CardViews \subseteq CardViews'
  BY DEF CardViews

LEMMA CardInitIInv == ASSUME CardAssumed PROVE Card!Init => CardIInv
<1> SUFFICES ASSUME Card!Init PROVE CardIInv  OBVIOUS
<1>a. "content" \in DOMAIN row /\ row.content \in 0..content  BY DEF Card!Init
<1>b. failing \in BOOLEAN  BY DEF Card!Init
<1>1. CardTypes  BY <1>a, <1>b, CardViewFacts DEF CardAssumed, Card!Init, CardTypes
<1>2. CardOrdered  BY DEF Card!Init, CardOrdered, Card!Sent, CardRunning, CardPushing
<1> QED  BY <1>1, <1>2 DEF CardIInv

LEMMA CardStepIInv == ASSUME CardAssumed, CardIInv, [Card!Next]_(Card!vars) PROVE CardIInv'
<1>1. CASE UNCHANGED Card!vars
  BY <1>1 DEF Card!vars, Card!card, Card!count, CardIInv, CardTypes, CardOrdered, CardViews,
     Card!Sent, CardRunning, CardPushing, CardNewer
<1> USE DEF CardIInv, Card!Fault, Card!Raise, Card!card, Card!count, Card!Flush
<1>2. CASE Card!Send
  <2>1. content' = content /\ CardViews' = CardViews  BY <1>2 DEF Card!Send, CardViews
  <2>2. CardTypes'
    BY <1>2, <2>1, CardViewFacts DEF Card!Send, CardTypes, Card!Sent, CardStatuses, CardOrdered
  <2>3. CASE shown' = Card!View("working", content) /\ pending' = Card!None /\ merged' = 0 /\ phase' = "sent"
    BY <2>1, <2>2, <2>3, CardWorkingView DEF CardOrdered, Card!Sent, CardRunning, CardPushing
  <2>4. CASE phase' \in {"fail", "broken"} /\ UNCHANGED <<pending, merged, shown>>
    BY <1>2, <2>1, <2>2, <2>4 DEF Card!Send, CardOrdered, Card!Sent, CardRunning, CardPushing
  <2> QED  BY <1>2, <2>3, <2>4 DEF Card!Send
<1>3. CASE Card!SaveCard
  <2>1. content' = content /\ CardViews' = CardViews  BY <1>3 DEF Card!SaveCard, CardViews
  <2>a. "content" \in DOMAIN row' /\ row'.content \in 0..content
    BY <1>3 DEF Card!SaveCard, CardTypes, CardAssumed
  <2>2. CardTypes'  BY <1>3, <2>1, <2>a DEF Card!SaveCard, CardTypes
  <2>3. CardOrdered'
    BY <1>3, <2>1 DEF Card!SaveCard, CardOrdered, Card!Sent, CardRunning, CardPushing
  <2> QED  BY <2>2, <2>3
<1>4. CASE Card!Change
  <2>1. content' \in 0..MaxChanges /\ content' > content /\ CardViews \subseteq CardViews'
    BY <1>4, CardViewsGrow DEF Card!Change, CardTypes, CardAssumed
  <2>2. CardTypes'  BY <1>4, <2>1 DEF Card!Change, CardTypes
  <2>3. CardOrdered'
    BY <1>4, <2>1 DEF Card!Change, CardOrdered, Card!Sent, CardRunning, CardPushing
  <2> QED  BY <2>2, <2>3
<1>5. CASE Card!Refresh
  <2>1. content' = content /\ CardViews' = CardViews  BY <1>5 DEF Card!Refresh, CardViews
  <2>a. inAir' \in CardViews /\ pending' \in CardViews
    BY <1>5, CardWorkingView, CardViewFacts DEF Card!Refresh, CardTypes
  <2>2. CardTypes'  BY <1>5, <2>1, <2>a DEF Card!Refresh, CardTypes
  <2>3. CardOrdered'
    BY <1>5, <2>1, CardViewFacts DEF Card!Refresh, CardTypes, CardOrdered, Card!Sent,
       CardStatuses, CardRunning, CardPushing, CardNewer, Card!Over
  <2> QED  BY <2>2, <2>3
<1>6. CASE Card!Save
  <2>1. content' = content /\ CardViews' = CardViews  BY <1>6 DEF Card!Save, CardViews
  <2>2. CardTypes'  BY <1>6, <2>1 DEF Card!Save, CardTypes
  <2>3. CardOrdered'
    BY <1>6, <2>1 DEF Card!Save, CardOrdered, Card!Sent, CardRunning, CardPushing
  <2> QED  BY <2>2, <2>3
<1>7. CASE Card!Nudge
  <2>1. content' = content /\ CardViews' = CardViews  BY <1>7 DEF Card!Nudge, CardViews
  <2>2. CardTypes'  BY <1>7, <2>1, CardViewFacts DEF Card!Nudge, CardTypes
  <2>3. CardOrdered'
    BY <1>7, <2>1 DEF Card!Nudge, CardOrdered, Card!Sent, CardRunning, CardPushing, CardNewer,
       Card!Over
  <2> QED  BY <2>2, <2>3
<1>8. CASE Card!Tick
  BY <1>8 DEF Card!Tick, CardTypes, CardViews, CardOrdered, Card!Sent, CardRunning, CardPushing,
     CardNewer
<1>9. ASSUME NEW s \in Card!Over, Card!Close(s) PROVE CardIInv'
  <2>1. content' = content /\ CardViews' = CardViews /\ shown' = shown /\ row' = row
    BY <1>9 DEF Card!Close, CardViews
  <2>a. failing' \in BOOLEAN  BY <1>9 DEF Card!Close, CardTypes
  <2>2. CASE ~Card!Sent
    <3>1. phase' = "over" /\ UNCHANGED <<pending, merged, inAir, asked, told, lost>>
      BY <1>9, <2>2 DEF Card!Close
    <3>2. CardTypes'  BY <2>1, <2>a, <3>1 DEF CardTypes
    <3>3. CardOrdered'  BY <2>1, <2>2, <3>1 DEF CardOrdered, Card!Sent, CardRunning, CardPushing
    <3> QED  BY <3>2, <3>3
  <2>3. CASE Card!Sent
    <3>1. /\ phase' = "close" /\ inAir' = Card!View(s, content) /\ pending' = Card!None
          /\ asked' = asked + 1 /\ merged' = merged + 1 /\ told' = told /\ lost' = lost
      BY <1>9, <2>3 DEF Card!Close
    <3>2. CardTypes'  BY <2>1, <2>a, <3>1, CardViewFacts DEF CardTypes, CardStatuses
    <3>3. CardOrdered'
      BY <2>1, <2>3, <3>1, CardViewFacts DEF CardTypes, CardOrdered, Card!Sent, CardStatuses,
         CardRunning, CardPushing, CardNewer
    <3> QED  BY <3>2, <3>3
  <2> QED  BY <2>2, <2>3
<1>10. CASE Card!Pushed
  <2>1. /\ phase \in CardPushing /\ inAir' = Card!None /\ shown' \in {shown, inAir} /\ content' = content
        /\ row' = row /\ failing' = failing /\ pending' = pending /\ asked' = asked /\ CardViews' = CardViews
    BY <1>10 DEF Card!Pushed, CardViews, CardPushing
  <2>2. {merged', told', lost'} \subseteq Nat /\ asked' = told' + lost' + merged'
    BY <1>10 DEF Card!Pushed, CardTypes
  <2>3. Card!Sent'  BY <2>1 DEF Card!Sent, CardOrdered, CardNewer
  <2>4. CASE shown' = inAir /\ merged' = 0 /\ phase' = Card!Then
    <3>1. CardTypes'  BY <2>1, <2>2, <2>4, CardViewFacts DEF Card!Then, CardTypes, CardPushing
    <3>2. inAir # Card!None /\ inAir[1].status \in CardStatuses /\ inAir[1].content \in 0..content
      BY <2>1, CardViewFacts DEF CardTypes, CardOrdered
    <3>3. CardOrdered'
      BY <2>1, <2>3, <2>4, <3>2 DEF Card!Then, CardOrdered, CardPushing, CardRunning, Card!Over,
         CardStatuses
    <3> QED  BY <3>1, <3>3
  <2>5. CASE phase' \in {"fail", "broken"}
    BY <2>1, <2>2, <2>3, <2>5, CardViewFacts DEF CardTypes, CardOrdered, CardPushing, CardRunning
  <2> QED  BY <1>10, <2>4, <2>5 DEF Card!Pushed
<1>11. CASE Card!Abandon
  BY <1>11 DEF Card!Abandon, CardTypes, CardViews, CardOrdered, Card!Sent, CardRunning,
     CardPushing
<1>12. CASE Card!Land
  <2>1. content' = content /\ CardViews' = CardViews  BY <1>12 DEF Card!Land, CardViews
  <2>2. CardTypes'  BY <1>12, <2>1, CardViewFacts DEF Card!Land, CardTypes
  <2>3. CardOrdered'
    BY <1>12 DEF Card!Land, CardTypes, CardOrdered, Card!Sent, CardRunning, CardPushing
  <2> QED  BY <2>2, <2>3
<1>13. CASE Card!CancelCard
  <2>1. content' = content /\ CardViews' = CardViews  BY <1>13 DEF Card!CancelCard, CardViews
  <2>2. CardTypes'
    BY <1>13, <2>1, CardViewFacts DEF Card!CancelCard, CardTypes, CardStatuses, Card!Over
  <2>3. CardOrdered'
    BY <1>13, CardViewFacts DEF Card!CancelCard, CardTypes, CardOrdered, Card!Sent, CardRunning,
       CardPushing, CardStatuses, Card!Over
  <2> QED  BY <2>2, <2>3
<1> QED
  BY <1>1, <1>2, <1>3, <1>4, <1>5, <1>6, <1>7, <1>8, <1>9, <1>10, <1>11, <1>12, <1>13
     DEF Card!Next, Card!Run

LEMMA CardIInvTypes == CardIInv => Card!TypeOK
<1> SUFFICES ASSUME CardIInv PROVE Card!TypeOK  OBVIOUS
<1>1. \A v \in CardViews : Len(v) <= 1
  <2>1. Len(Card!None) = 0 /\ \A s \in CardStatuses, n \in 0..content : Len(Card!View(s, n)) = 1
    BY DEF Card!View, Card!None
  <2>2. \A v \in CardViews : v = Card!None \/ \E s \in CardStatuses, n \in 0..content : v = Card!View(s, n)
    BY DEF CardViews
  <2>3. ASSUME NEW v \in CardViews PROVE Len(v) <= 1
    <3>1. CASE v = Card!None  BY <2>1, <3>1
    <3>2. ASSUME NEW s \in CardStatuses, NEW n \in 0..content, v = Card!View(s, n) PROVE Len(v) <= 1
      <4>1. Len(v) = 1  BY <3>2 DEF Card!View
      <4> QED  BY <4>1
    <3> QED  BY <2>2, <3>1, <3>2
  <2> QED  BY <2>3
<1>2. row.content <= content  BY DEF CardIInv, CardTypes
<1> QED  BY <1>1, <1>2 DEF CardIInv, CardTypes, CardOrdered, Card!TypeOK, CardPushing

LEMMA CardIInvClosing == CardIInv => Card!ClosingIsShown
  BY DEF CardIInv, CardOrdered, Card!ClosingIsShown

LEMMA CardIInvTold == CardIInv => Card!AllTold
  BY DEF CardIInv, CardTypes, CardOrdered, Card!AllTold

LEMMA CardStepNeverBack == ASSUME CardIInv, Card!Next PROVE Card!NeverBack
<1> SUFFICES ASSUME Card!Sent, shown' # Card!None, phase \notin {"abandoned", "cancelled"}, shown' # shown
             PROVE  Card!NeverBack
  BY DEF Card!NeverBack, CardIInv, CardTypes, CardViews, Card!View, Card!None
<1>1. Card!Pushed
  BY DEF Card!Next, Card!Run, Card!Send, Card!SaveCard, Card!Change, Card!Refresh, Card!Save,
     Card!Nudge, Card!Tick, Card!Close, Card!Pushed, Card!Abandon, Card!Land, Card!CancelCard,
     Card!card
<1>2. phase \in CardPushing /\ shown' = inAir  BY <1>1 DEF Card!Pushed, CardPushing
<1>3. CardNewer(inAir, shown)  BY <1>2 DEF CardIInv, CardOrdered
<1> QED  BY <1>2, <1>3 DEF Card!NeverBack, CardNewer, Card!Sent, CardIInv, CardTypes
-----------------------------------------------------------------------------
\* The link to edge (EdgeLink).
EdgeAssumed == /\ Attempts \in Nat \ {0} /\ MaxStarts \in Nat /\ EdgeFaults \in Nat
               /\ "caps" \notin EdgeCalls

\* Who still tries has tries left.
EdgeIInv == Edge!TypeOK /\ (takeoff \in {"ask", "asking"} => tries < Attempts)

LEMMA EdgeInitIInv == ASSUME EdgeAssumed PROVE Edge!Init => EdgeIInv
<1> SUFFICES ASSUME Edge!Init PROVE EdgeIInv  OBVIOUS
<1>1. caps \in BOOLEAN  BY DEF Edge!Init
<1>2. /\ ask \in [Edge!Askers -> {"none", "asked"} \cup Edge!Versions \cup Edge!Errors]
      /\ call \in [Edge!Callers -> {"idle", "sent", "ok"} \cup Edge!Errors]
      /\ ask["probe"] = "none" /\ ask["verify"] = "none" /\ ask["takeoff"] = "none"
      /\ call["caps"] = "idle"
  BY DEF Edge!Init, Edge!Askers, Edge!Callers, Edge!Versions, Edge!Errors
<1> QED  BY <1>1, <1>2 DEF EdgeAssumed, Edge!Init, EdgeIInv, Edge!TypeOK, Edge!Versions

LEMMA EdgeStepIInv == ASSUME EdgeAssumed, EdgeIInv, [Edge!Next]_(Edge!vars) PROVE EdgeIInv'
<1> USE DEF EdgeAssumed, EdgeIInv, Edge!TypeOK, Edge!Versions, Edge!Errors, Edge!Askers,
Edge!Callers
<1>1. CASE UNCHANGED Edge!vars  BY <1>1 DEF Edge!vars
<1>2. CASE Edge!EdgeStarts  BY <1>2 DEF Edge!EdgeStarts
<1>3. CASE Edge!EdgeStops  BY <1>3 DEF Edge!EdgeStops
<1>4. ASSUME NEW a \in Edge!Askers, Edge!Answered(a) PROVE EdgeIInv'
  BY <1>4 DEF Edge!Answered, Edge!AnswerStatus, Edge!FailStatus, Edge!MayFail
<1>5. CASE Edge!Dial \/ Edge!Redial \/ Edge!ProbeVerified \/ Edge!ProbeEnds
  BY <1>5 DEF Edge!Dial, Edge!Redial, Edge!ProbeVerified, Edge!ProbeEnds, Edge!Verified,
     Edge!Observed
<1>6. CASE Edge!VerifyAsks \/ Edge!VerifyVerified \/ Edge!VerifyEnds
  BY <1>6 DEF Edge!VerifyAsks, Edge!VerifyVerified, Edge!VerifyEnds, Edge!Verified, Edge!Observed
<1>7. CASE Edge!TakeoffAsks  BY <1>7 DEF Edge!TakeoffAsks
<1>8. CASE Edge!TakeoffAnswered  BY <1>8 DEF Edge!TakeoffAnswered, Edge!VerifyWoken, Edge!Observed
<1>9. CASE Edge!TakeoffRefused  BY <1>9 DEF Edge!TakeoffRefused, Edge!Observed
<1>10. CASE Edge!TakeoffFailed  BY <1>10 DEF Edge!TakeoffFailed, Edge!ProbeAfter, Edge!ProbeWoken
<1>11. CASE Edge!StartAsks  BY <1>11 DEF Edge!StartAsks, Edge!ProbeWoken
<1>12. ASSUME NEW c \in Edge!Callers, Edge!AnswerCall(c) \/ Edge!FailCall(c) PROVE EdgeIInv'
  BY <1>12 DEF Edge!AnswerCall, Edge!FailCall, Edge!MayFail
<1>13. ASSUME NEW c \in Edge!Callers, Edge!Succeeded(c) \/ Edge!Failed(c) PROVE EdgeIInv'
  <2>1. CASE Edge!Succeeded(c)
    <3>1. caps' \in BOOLEAN  BY <2>1 DEF Edge!Succeeded
    <3> QED  BY <2>1, <3>1 DEF Edge!Succeeded, Edge!VerifyWoken
  <2>2. CASE Edge!Failed(c)  BY <2>2 DEF Edge!Failed, Edge!ProbeAfter, Edge!ProbeWoken
  <2> QED  BY <1>13, <2>1, <2>2
<1>14. ASSUME NEW c \in EdgeCalls, Edge!Barred(c) \/ Edge!Send(c) PROVE EdgeIInv'
  BY <1>14 DEF Edge!Barred, Edge!Send, Edge!ProbeWoken
<1> HIDE DEF EdgeIInv
<1>15. "caps" \in Edge!Callers /\ EdgeCalls \subseteq Edge!Callers /\ Edge!Askers = {"probe", "verify", "takeoff"}  OBVIOUS
<1> QED
  BY <1>1, <1>2, <1>3, <1>4, <1>5, <1>6, <1>7, <1>8, <1>9, <1>10, <1>11, <1>12, <1>13, <1>14,
     <1>15
     DEF Edge!Next, Edge!Probing, Edge!Verifying, Edge!TakingOff, Edge!Calling, Edge!Rpc
-----------------------------------------------------------------------------
\* The Feishu client (FeishuApi).
ApiAssumed == /\ Retries \in Nat /\ Capacity \in Nat /\ ApiFaults \in Nat /\ MaxRevokes \in Nat
              /\ Off \notin ApiCalls

ApiPCs == {"idle", "group", "all", "token", "fetch", "post", "invalidate", "done"}
ApiResults == {"none", "ok", "retryable", "refused", "unauthorized"}
ApiCallRec == [pc : ApiPCs, tries : 0..Retries, again : BOOLEAN, token : {0} \cup Api!Tokens,
               fetches : 0..Retries, late : BOOLEAN, result : ApiResults]
ApiCallType == [ApiCalls -> ApiCallRec]
ApiBucketType == [Api!Buckets -> [lock : ApiCalls \cup {Off}, tokens : 0..Capacity]]
ApiTokenType == [value : {0} \cup Api!Tokens, lock : ApiCalls \cup {Off}]

ApiTypes ==
  /\ call \in ApiCallType /\ bucket \in ApiBucketType /\ token \in ApiTokenType
  /\ valid \in Api!Tokens /\ faults \in 0..ApiFaults
  /\ sent \in [ApiCalls -> SUBSET Api!Uuids]

\* Each lock is held by a call in the section it guards, and the token's by the
\* one that fetches.
ApiLocks ==
  /\ \A b \in Api!Buckets : bucket[b].lock # Off => Api!At(bucket[b].lock, b)
  /\ token.lock # Off => Api!At(token.lock, "fetch")
  /\ \A c \in ApiCalls : Api!At(c, "fetch") => token.lock = c

\* A message has one uuid.
ApiOneUuid == \A c \in ApiCalls : sent[c] \subseteq {<<c, 0>>}

\* No token is newer than the one that is valid; whoever has come back from its
\* 401 before a second revocation meets no token but the second.
ApiFresh ==
  /\ token.value <= valid
  /\ \A c \in ApiCalls :
       /\ Api!At(c, "post") => call[c].token \in 1..valid
       /\ call[c].again \/ Api!At(c, "invalidate") => valid >= 2
       /\ call[c].again /\ valid = 2 => /\ token.value \in {0, 2}
                                        /\ Api!At(c, "post") => call[c].token = 2
       /\ valid <= 2 => call[c].result # "unauthorized"

ApiIInv == ApiTypes /\ ApiLocks /\ ApiOneUuid /\ ApiFresh

LEMMA ApiInitIInv == ASSUME ApiAssumed PROVE Api!Init => ApiIInv
<1> SUFFICES ASSUME Api!Init PROVE ApiIInv  OBVIOUS
<1> USE DEF ApiAssumed, Api!Init
<1>1. ApiTypes
  <2>1. Api!Waiting \in [pc : ApiPCs, tries : 0..Retries, again : BOOLEAN, token : {0} \cup Api!Tokens,
                         fetches : 0..Retries, late : BOOLEAN, result : ApiResults]
    BY DEF Api!Waiting, ApiPCs, ApiResults
  <2>2. call \in ApiCallType  BY <2>1 DEF ApiCallType, ApiCallRec
  <2>3. bucket \in ApiBucketType /\ token \in ApiTokenType  BY DEF ApiBucketType, ApiTokenType
  <2> QED  BY <2>2, <2>3 DEF ApiTypes, Api!Tokens
<1>2. ApiLocks /\ ApiOneUuid /\ ApiFresh
  BY DEF ApiLocks, ApiOneUuid, ApiFresh, Api!At, Api!Waiting
<1> QED  BY <1>1, <1>2 DEF ApiIInv

\* What a step writes into the record of its call.
LEMMA ApiDoneIs ==
  ASSUME call \in ApiCallType, NEW c \in ApiCalls, NEW r \in ApiResults, call' = Api!Done(c, r)
  PROVE  /\ call' \in ApiCallType
         /\ \A d \in ApiCalls \ {c} : call'[d] = call[d]
         /\ call'[c].pc = "done" /\ call'[c].result = r
         /\ call'[c].again = call[c].again
<1> DEFINE over == [call EXCEPT ![c].pc = "done"]
<1>1. over \in ApiCallType  BY DEF ApiCallType, ApiCallRec, ApiPCs
<1>2. [over EXCEPT ![c].result = r] \in ApiCallType  BY <1>1 DEF ApiCallType, ApiCallRec
<1>3. [over EXCEPT ![c].result = r] = call'  BY DEF Api!Done
<1>4. call' \in ApiCallType  BY <1>2, <1>3
<1> QED  BY <1>4 DEF Api!Done, ApiCallType, ApiCallRec

LEMMA ApiPosts ==
  ASSUME call \in ApiCallType, NEW c \in ApiCalls, NEW t \in {0} \cup Api!Tokens,
         call' = [call EXCEPT ![c].pc = "post", ![c].token = t]
  PROVE  /\ call' \in ApiCallType
         /\ \A d \in ApiCalls \ {c} : call'[d] = call[d]
         /\ call'[c].pc = "post" /\ call'[c].token = t
         /\ call'[c].again = call[c].again /\ call'[c].result = call[c].result
<1> DEFINE at == [call EXCEPT ![c].pc = "post"]
<1>1. at \in ApiCallType  BY DEF ApiCallType, ApiCallRec, ApiPCs
<1>2. [at EXCEPT ![c].token = t] \in ApiCallType  BY <1>1 DEF ApiCallType, ApiCallRec
<1>3. [at EXCEPT ![c].token = t] = call'  OBVIOUS
<1>4. call' \in ApiCallType  BY <1>2, <1>3
<1> QED  BY <1>4 DEF ApiCallType, ApiCallRec

LEMMA ApiFetches ==
  ASSUME call \in ApiCallType, NEW c \in ApiCalls, Retries \in Nat,
         call' = [call EXCEPT ![c].pc = "fetch", ![c].fetches = 0]
  PROVE  /\ call' \in ApiCallType
         /\ \A d \in ApiCalls \ {c} : call'[d] = call[d]
         /\ call'[c].pc = "fetch"
         /\ call'[c].again = call[c].again /\ call'[c].result = call[c].result
<1> DEFINE at == [call EXCEPT ![c].pc = "fetch"]
<1>1. at \in ApiCallType  BY DEF ApiCallType, ApiCallRec, ApiPCs
<1>2. 0 \in 0..Retries  OBVIOUS
<1>3. [at EXCEPT ![c].fetches = 0] \in ApiCallType
  BY <1>1, <1>2, Zenon DEF ApiCallType, ApiCallRec
<1>4. [at EXCEPT ![c].fetches = 0] = call'  OBVIOUS
<1>5. call' \in ApiCallType  BY <1>3, <1>4
<1> QED  BY <1>5 DEF ApiCallType, ApiCallRec

LEMMA ApiTriesAgain ==
  ASSUME call \in ApiCallType, NEW c \in ApiCalls, Retries \in Nat, call[c].tries < Retries,
         call' = [call EXCEPT ![c].pc = "token", ![c].tries = @ + 1]
  PROVE  /\ call' \in ApiCallType
         /\ \A d \in ApiCalls \ {c} : call'[d] = call[d]
         /\ call'[c].pc = "token"
         /\ call'[c].again = call[c].again /\ call'[c].result = call[c].result
<1> DEFINE at == [call EXCEPT ![c].pc = "token"]
<1>1. at \in ApiCallType /\ at[c].tries = call[c].tries  BY DEF ApiCallType, ApiCallRec, ApiPCs
<1>2. [at EXCEPT ![c].tries = at[c].tries + 1] \in ApiCallType
  BY <1>1 DEF ApiCallType, ApiCallRec
<1>3. [at EXCEPT ![c].tries = at[c].tries + 1] = call'  BY DEF ApiCallType, ApiCallRec
<1>4. call' \in ApiCallType  BY <1>2, <1>3
<1> QED  BY <1>4 DEF ApiCallType, ApiCallRec

LEMMA ApiTriesReset ==
  ASSUME NEW f \in ApiCallType, NEW c \in ApiCalls, Retries \in Nat
  PROVE  [f EXCEPT ![c].tries = 0] \in ApiCallType
<1>1. 0 \in 0..Retries  OBVIOUS
<1> QED  BY <1>1, Zenon DEF ApiCallType, ApiCallRec

LEMMA ApiStartsOver ==
  ASSUME call \in ApiCallType, NEW c \in ApiCalls, Retries \in Nat,
         call' = [call EXCEPT ![c].pc = "token", ![c].again = TRUE, ![c].tries = 0]
  PROVE  /\ call' \in ApiCallType
         /\ \A d \in ApiCalls \ {c} : call'[d] = call[d]
         /\ call'[c].pc = "token" /\ call'[c].result = call[c].result
<1> DEFINE at == [call EXCEPT ![c].pc = "token"]
           then == [at EXCEPT ![c].again = TRUE]
<1>1. at \in ApiCallType  BY DEF ApiCallType, ApiCallRec, ApiPCs
<1>2. then \in ApiCallType  BY <1>1 DEF ApiCallType, ApiCallRec
<1>3. [then EXCEPT ![c].tries = 0] \in ApiCallType  BY <1>2, ApiTriesReset
<1>4. [then EXCEPT ![c].tries = 0] = call'  OBVIOUS
<1>5. call' \in ApiCallType  BY <1>3, <1>4
<1> QED  BY <1>5 DEF ApiCallType, ApiCallRec

LEMMA ApiMoves ==
  ASSUME call \in ApiCallType, NEW c \in ApiCalls, NEW p \in ApiPCs, call' = [call EXCEPT ![c].pc = p]
  PROVE  /\ call' \in ApiCallType
         /\ \A d \in ApiCalls \ {c} : call'[d] = call[d]
         /\ call'[c].pc = p /\ call'[c].token = call[c].token
         /\ call'[c].again = call[c].again /\ call'[c].result = call[c].result
  BY DEF ApiCallType, ApiCallRec

LEMMA ApiAges ==
  ASSUME call \in ApiCallType, NEW c \in ApiCalls, call' = [call EXCEPT ![c].late = TRUE]
  PROVE  /\ call' \in ApiCallType
         /\ \A d \in ApiCalls \ {c} : call'[d] = call[d]
         /\ call'[c].pc = call[c].pc /\ call'[c].token = call[c].token
         /\ call'[c].again = call[c].again /\ call'[c].result = call[c].result
  BY DEF ApiCallType, ApiCallRec

LEMMA ApiTriesFetch ==
  ASSUME call \in ApiCallType, NEW c \in ApiCalls, Retries \in Nat, call[c].fetches < Retries,
         call' = [call EXCEPT ![c].fetches = @ + 1]
  PROVE  /\ call' \in ApiCallType
         /\ \A d \in ApiCalls \ {c} : call'[d] = call[d]
         /\ call'[c].pc = call[c].pc
         /\ call'[c].again = call[c].again /\ call'[c].result = call[c].result
<1>1. call[c].fetches + 1 \in 0..Retries  BY DEF ApiCallType, ApiCallRec
<1>2. call' \in ApiCallType  BY <1>1, Zenon DEF ApiCallType, ApiCallRec
<1> QED  BY <1>2 DEF ApiCallType, ApiCallRec

LEMMA ApiCallFields ==
  ASSUME call \in ApiCallType, NEW c \in ApiCalls
  PROVE  call[c].pc \in ApiPCs /\ call[c].token \in {0} \cup Api!Tokens /\ call[c].tries \in 0..Retries
         /\ call[c].fetches \in 0..Retries /\ call[c].result \in ApiResults
  BY DEF ApiCallType, ApiCallRec

\* A step of c leaves the locks as they should be if its own are.
LEMMA ApiLocksStay ==
  ASSUME ApiAssumed, ApiTypes, ApiLocks, NEW c \in ApiCalls, ApiTypes',
         \A d \in ApiCalls \ {c} : call'[d] = call[d],
         \A b \in Api!Buckets : /\ bucket'[b].lock \in {Off, c, bucket[b].lock}
                                /\ bucket'[b].lock = c => call'[c].pc = b,
         call'[c].pc = "fetch" <=> token'.lock = c,
         token'.lock = c => token.lock \in {Off, c},
         token'.lock # c => token'.lock = token.lock \/ (token.lock = c /\ token'.lock = Off)
  PROVE  ApiLocks'
<1>1. \A b \in Api!Buckets : bucket'[b].lock # Off => call'[bucket'[b].lock].pc = b
  <2> SUFFICES ASSUME NEW b \in Api!Buckets, bucket'[b].lock # Off
               PROVE  call'[bucket'[b].lock].pc = b
    OBVIOUS
  <2>1. bucket[b].lock \in ApiCalls \cup {Off}  BY DEF ApiTypes, ApiBucketType
  <2>2. CASE bucket'[b].lock = c  BY <2>2
  <2>3. CASE bucket'[b].lock # c  BY <2>1, <2>3 DEF ApiLocks, Api!At
  <2> QED  BY <2>2, <2>3
<1>2. token.lock \in ApiCalls \cup {Off}  BY DEF ApiTypes, ApiTokenType
<1>3. token'.lock # Off => call'[token'.lock].pc = "fetch"  BY <1>2 DEF ApiLocks, Api!At
<1>4. \A d \in ApiCalls : call'[d].pc = "fetch" => token'.lock = d
  BY <1>2 DEF ApiLocks, Api!At, ApiAssumed
<1> QED  BY <1>1, <1>3, <1>4 DEF ApiLocks, Api!At

\* And no token is newer than the valid one if its own is not.
LEMMA ApiFreshStays ==
  ASSUME ApiTypes, ApiFresh, NEW c \in ApiCalls, ApiTypes',
         \A d \in ApiCalls \ {c} : call'[d] = call[d],
         valid' = valid, token'.value \in {0, token.value, valid},
         call'[c].pc = "post" => (/\ call'[c].token \in 1..valid
                                  /\ call'[c].again /\ valid = 2 => call'[c].token = 2),
         call'[c].again \/ call'[c].pc = "invalidate" => valid >= 2,
         call'[c].again /\ valid = 2 => token'.value \in {0, 2},
         valid <= 2 => call'[c].result # "unauthorized"
  PROVE  ApiFresh'
<1>1. valid \in Nat /\ token.value \in Nat  BY DEF ApiTypes, ApiTokenType, Api!Tokens
<1>2. token'.value <= valid  BY <1>1 DEF ApiFresh
<1>3. ASSUME NEW d \in ApiCalls \ {c}
      PROVE  /\ call'[d].pc = "post" => call'[d].token \in 1..valid
             /\ call'[d].again \/ call'[d].pc = "invalidate" => valid >= 2
             /\ (call'[d].again /\ valid = 2)
                   => /\ token'.value \in {0, 2}
                      /\ call'[d].pc = "post" => call'[d].token = 2
             /\ valid <= 2 => call'[d].result # "unauthorized"
  BY DEF ApiFresh, Api!At
<1> QED  BY <1>2, <1>3 DEF ApiFresh, Api!At

\* A call that is in no bucket holds no bucket's lock, and one that does not fetch
\* not the token's.
LEMMA ApiNotInBucket ==
  ASSUME ApiLocks, ApiAssumed, NEW c \in ApiCalls, call[c].pc \notin Api!Buckets
  PROVE  \A b \in Api!Buckets : bucket[b].lock # c
  BY DEF ApiLocks, Api!At, ApiAssumed

LEMMA ApiNotFetching ==
  ASSUME ApiLocks, ApiAssumed, NEW c \in ApiCalls, call[c].pc # "fetch"
  PROVE  token.lock # c
  BY DEF ApiLocks, Api!At, ApiAssumed

LEMMA ApiExecutes ==
  ASSUME ApiTypes, ApiOneUuid, ApiAssumed, NEW c \in ApiCalls, Api!Execute(c) \/ UNCHANGED sent
  PROVE  sent' \in [ApiCalls -> SUBSET Api!Uuids] /\ ApiOneUuid'
  BY DEF Api!Execute, Api!Uuid, Api!Uuids, ApiOneUuid, ApiTypes, ApiAssumed

\* How a request may end.
LEMMA ApiPostEnds ==
  ASSUME ApiAssumed, ApiTypes, ApiLocks, ApiFresh, NEW c \in ApiCalls, call[c].pc = "post",
         UNCHANGED <<bucket, token, valid>>, faults' \in 0..ApiFaults,
         sent' \in [ApiCalls -> SUBSET Api!Uuids], ApiOneUuid',
         call' \in ApiCallType, \A d \in ApiCalls \ {c} : call'[d] = call[d],
         call'[c].pc \in {"done", "token"} \/ (call'[c].pc = "invalidate" /\ valid >= 2),
         call'[c].again = call[c].again,
         valid <= 2 => call'[c].result # "unauthorized"
  PROVE  ApiIInv'
<1>1. ApiTypes'  BY DEF ApiTypes
<1>2. ApiLocks'
  <2>1. \A b \in Api!Buckets : bucket[b].lock # c  BY ApiNotInBucket DEF Api!Buckets
  <2>2. token.lock # c  BY ApiNotFetching
  <2>3. \A b \in Api!Buckets : /\ bucket'[b].lock \in {Off, c, bucket[b].lock}
                               /\ bucket'[b].lock = c => call'[c].pc = b
    BY <2>1
  <2> QED  BY <1>1, <2>2, <2>3, ApiLocksStay
<1>3. ApiFresh'
  <2>1. /\ call'[c].again \/ call'[c].pc = "invalidate" => valid >= 2
        /\ call'[c].again /\ valid = 2 => token'.value \in {0, 2}
        /\ call'[c].pc # "post"
    BY DEF ApiFresh
  <2> QED  BY <1>1, <2>1, ApiFreshStays
<1> QED  BY <1>1, <1>2, <1>3 DEF ApiIInv

LEMMA ApiStepIInv == ASSUME ApiAssumed, ApiIInv, [Api!Next]_(Api!vars) PROVE ApiIInv'
<1> USE DEF ApiAssumed
<1>b. ApiTypes /\ ApiLocks /\ ApiOneUuid /\ ApiFresh  BY DEF ApiIInv
<1>a. /\ call \in ApiCallType /\ bucket \in ApiBucketType /\ token \in ApiTokenType
      /\ valid \in Api!Tokens /\ faults \in 0..ApiFaults
      /\ sent \in [ApiCalls -> SUBSET Api!Uuids]
  BY <1>b DEF ApiTypes
<1>0. CASE UNCHANGED Api!vars
  BY <1>0, <1>b DEF Api!vars, ApiIInv, ApiTypes, ApiLocks, ApiOneUuid, ApiFresh, Api!At
<1>1. ASSUME NEW c \in ApiCalls, Api!Begin(c) PROVE ApiIInv'
  <2>1. /\ call' \in ApiCallType
        /\ \A d \in ApiCalls \ {c} : call'[d] = call[d]
        /\ call'[c].pc \in {"group", "token"}
        /\ call'[c].again = call[c].again /\ call'[c].result = call[c].result
    BY <1>1, <1>a, ApiMoves DEF Api!Begin, Api!Go, ApiPCs
  <2>2. ApiTypes'  BY <1>1, <1>a, <2>1 DEF Api!Begin, ApiTypes
  <2>3. ApiLocks'
    <3>1. \A b \in Api!Buckets : /\ bucket'[b].lock \in {Off, c, bucket[b].lock}
                                 /\ bucket'[b].lock = c => call'[c].pc = b
      BY <1>1, <1>b, ApiNotInBucket DEF Api!Begin, Api!At, Api!Buckets
    <3>2. /\ (call'[c].pc = "fetch") <=> (token'.lock = c)
          /\ token'.lock = c => token.lock \in {Off, c}
          /\ token'.lock # c => token'.lock = token.lock \/ (token.lock = c /\ token'.lock = Off)
      <4>1. token' = token /\ call[c].pc # "fetch"  BY <1>1 DEF Api!Begin, Api!At
      <4>2. token.lock # c  BY <1>b, <4>1, ApiNotFetching
      <4> QED  BY <2>1, <4>1, <4>2
    <3> QED  BY <1>b, <2>1, <2>2, <3>1, <3>2, ApiLocksStay
  <2>4. ApiFresh'  BY <1>1, <1>a, <2>1, <2>2, ApiFreshStays, <1>b DEF Api!Begin, ApiFresh
  <2> QED  BY <1>1, <1>b, <2>2, <2>3, <2>4 DEF Api!Begin, ApiOneUuid, ApiIInv
<1>2. ASSUME NEW c \in ApiCalls, NEW b \in Api!Buckets, Api!Lock(c, b) PROVE ApiIInv'
  <2>1. bucket' \in ApiBucketType  BY <1>2, <1>a DEF Api!Lock, ApiBucketType
  <2> QED
    BY <1>2, <1>a, <1>b, <2>1 DEF ApiIInv, Api!Lock, ApiBucketType, ApiTypes, ApiLocks,
       ApiOneUuid, ApiFresh, Api!At
<1>3. ASSUME NEW c \in ApiCalls, NEW b \in Api!Buckets, Api!Acquire(c, b) PROVE ApiIInv'
  <2>1. /\ call' \in ApiCallType
        /\ \A d \in ApiCalls \ {c} : call'[d] = call[d]
        /\ call'[c].pc \in {"all", "token", "done"} \ {b}
        /\ call'[c].again = call[c].again
        /\ call'[c].result \in {call[c].result, "retryable"}
    <3>1. CASE Api!Go(c, IF b = "group" THEN "all" ELSE "token")
      BY <3>1, <1>a, ApiMoves DEF Api!Go, ApiPCs, Api!Buckets
    <3>2. CASE call' = Api!Done(c, "retryable")
      BY <3>2, <1>a, ApiDoneIs DEF ApiResults, Api!Buckets
    <3> QED  BY <1>3, <3>1, <3>2 DEF Api!Acquire
  <2>2. bucket' \in ApiBucketType /\ bucket'[b].lock = Off
        /\ \A d \in Api!Buckets \ {b} : bucket'[d] = bucket[d]
    BY <1>3, <1>a DEF Api!Acquire, ApiBucketType
  <2>3. ApiTypes'  BY <1>3, <1>a, <2>1, <2>2 DEF Api!Acquire, ApiTypes
  <2>4. \A d \in Api!Buckets \ {b} : bucket[d].lock # c
    BY <1>3, <1>b DEF ApiLocks, Api!At, Api!Acquire
  <2>5. ApiLocks'
    <3>1. \A k \in Api!Buckets : /\ bucket'[k].lock \in {Off, c, bucket[k].lock}
                                 /\ bucket'[k].lock = c => call'[c].pc = k
      BY <2>2, <2>4
    <3>2. /\ (call'[c].pc = "fetch") <=> (token'.lock = c)
          /\ token'.lock = c => token.lock \in {Off, c}
          /\ token'.lock # c => token'.lock = token.lock \/ (token.lock = c /\ token'.lock = Off)
      <4>1. token' = token /\ call[c].pc # "fetch"  BY <1>3 DEF Api!Acquire, Api!At, Api!Buckets
      <4>2. token.lock # c  BY <1>b, <4>1, ApiNotFetching
      <4> QED  BY <2>1, <4>1, <4>2
    <3> QED  BY <1>b, <2>1, <2>3, <3>1, <3>2, ApiLocksStay
  <2>6. ApiFresh'  BY <1>3, <1>a, <2>1, <2>3, ApiFreshStays, <1>b DEF Api!Acquire, ApiFresh
  <2> QED  BY <1>3, <1>b, <2>3, <2>5, <2>6 DEF Api!Acquire, ApiOneUuid, ApiIInv
<1>4. ASSUME NEW b \in Api!Buckets, Api!Refill(b) PROVE ApiIInv'
  <2>1. bucket' \in ApiBucketType  BY <1>4, <1>a DEF Api!Refill, ApiBucketType
  <2> QED
    BY <1>4, <1>a, <1>b, <2>1 DEF ApiIInv, Api!Refill, ApiBucketType, ApiTypes, ApiLocks,
       ApiOneUuid, ApiFresh, Api!At
<1>5. ASSUME NEW c \in ApiCalls, Api!LockToken(c) PROVE ApiIInv'
  <2>1. /\ call' \in ApiCallType
        /\ \A d \in ApiCalls \ {c} : call'[d] = call[d]
        /\ call'[c].pc = IF token.value # 0 THEN "post" ELSE "fetch"
        /\ token.value # 0 => call'[c].token = token.value
        /\ call'[c].again = call[c].again /\ call'[c].result = call[c].result
    <3>1. token.value \in {0} \cup Api!Tokens  BY <1>a DEF ApiTokenType
    <3> QED  BY <3>1, <1>5, <1>a, ApiPosts, ApiFetches DEF Api!LockToken
  <2>2. /\ token' \in ApiTokenType /\ token'.value = token.value
        /\ token'.lock = IF token.value # 0 THEN Off ELSE c
    BY <1>5, <1>a DEF Api!LockToken, ApiTokenType
  <2>3. ApiTypes'  BY <1>5, <1>a, <2>1, <2>2 DEF Api!LockToken, ApiTypes
  <2>4. ApiLocks'
    <3>1. \A b \in Api!Buckets : /\ bucket'[b].lock \in {Off, c, bucket[b].lock}
                                 /\ bucket'[b].lock = c => call'[c].pc = b
      BY <1>5, <1>b, ApiNotInBucket DEF Api!LockToken, Api!At, Api!Buckets
    <3>2. /\ (call'[c].pc = "fetch") <=> (token'.lock = c)
          /\ token'.lock = c => token.lock \in {Off, c}
          /\ token'.lock # c => token'.lock = token.lock \/ (token.lock = c /\ token'.lock = Off)
      BY <1>5, <1>b, <2>1, <2>2 DEF Api!LockToken
    <3> QED  BY <1>b, <2>1, <2>3, <3>1, <3>2, ApiLocksStay
  <2>5. token.value \in Nat /\ valid \in Nat  BY <1>a DEF ApiTokenType, Api!Tokens
  <2>6. ApiFresh'
    BY <1>5, <1>a, <2>1, <2>2, <2>3, <2>5, ApiFreshStays, <1>b DEF Api!LockToken, ApiFresh
  <2> QED  BY <1>5, <1>b, <2>3, <2>4, <2>6 DEF Api!LockToken, ApiOneUuid, ApiIInv
<1>6. ASSUME NEW c \in ApiCalls, Api!FetchFails(c) PROVE ApiIInv'
  <2>1. faults' \in 0..ApiFaults  BY <1>6, <1>a DEF Api!FetchFails, Api!Fault
  <2>2. /\ call' \in ApiCallType
        /\ \A d \in ApiCalls \ {c} : call'[d] = call[d]
        /\ call'[c].pc \in {"fetch", "done"} /\ (call'[c].pc = "fetch" => token' = token)
        /\ call'[c].pc = "done" => token' = [token EXCEPT !.lock = Off]
        /\ call'[c].again = call[c].again
        /\ call'[c].result \in {call[c].result, "retryable", "refused"}
    <3>1. CASE call' = [call EXCEPT ![c].fetches = @ + 1] /\ token' = token
               /\ call[c].fetches < Retries
      BY <1>6, <3>1, <1>a, ApiTriesFetch DEF Api!FetchFails, Api!At
    <3>2. CASE token' = [token EXCEPT !.lock = Off] /\ call' = Api!Done(c, "retryable")
      BY <3>2, <1>a, ApiDoneIs DEF ApiResults
    <3>3. CASE token' = [token EXCEPT !.lock = Off] /\ call' = Api!Done(c, "refused")
      BY <3>3, <1>a, ApiDoneIs DEF ApiResults
    <3> QED  BY <1>6, <3>1, <3>2, <3>3 DEF Api!FetchFails
  <2>3. /\ token' \in ApiTokenType /\ token'.value = token.value
        /\ token'.lock = IF call'[c].pc = "fetch" THEN token.lock ELSE Off
    BY <2>2, <1>a DEF ApiTokenType
  <2>4. ApiTypes'  BY <1>6, <1>a, <2>1, <2>2, <2>3 DEF Api!FetchFails, ApiTypes
  <2>5. token.lock = c  BY <1>6, <1>b DEF ApiLocks, Api!FetchFails, Api!At
  <2>6. ApiLocks'
    <3>1. \A b \in Api!Buckets : /\ bucket'[b].lock \in {Off, c, bucket[b].lock}
                                 /\ bucket'[b].lock = c => call'[c].pc = b
      BY <1>6, <1>b, ApiNotInBucket DEF Api!FetchFails, Api!At, Api!Buckets
    <3>2. /\ (call'[c].pc = "fetch") <=> (token'.lock = c)
          /\ token'.lock = c => token.lock \in {Off, c}
          /\ token'.lock # c => token'.lock = token.lock \/ (token.lock = c /\ token'.lock = Off)
      BY <2>2, <2>3, <2>5
    <3> QED  BY <1>b, <2>2, <2>4, <3>1, <3>2, ApiLocksStay
  <2>7. ApiFresh'
    BY <1>6, <1>a, <2>2, <2>3, <2>4, ApiFreshStays, <1>b DEF Api!FetchFails, ApiFresh
  <2> QED  BY <1>6, <1>b, <2>4, <2>6, <2>7 DEF Api!FetchFails, ApiOneUuid, ApiIInv
<1>7. ASSUME NEW c \in ApiCalls, Api!FetchOk(c) PROVE ApiIInv'
  <2>1. /\ call' \in ApiCallType
        /\ \A d \in ApiCalls \ {c} : call'[d] = call[d]
        /\ call'[c].pc = "post" /\ call'[c].token = valid
        /\ call'[c].again = call[c].again /\ call'[c].result = call[c].result
    BY <1>7, <1>a, ApiPosts DEF Api!FetchOk
  <2>2. token' \in ApiTokenType /\ token' = [value |-> valid, lock |-> Off]
    BY <1>7, <1>a DEF Api!FetchOk, ApiTokenType
  <2>3. ApiTypes'  BY <1>7, <1>a, <2>1, <2>2 DEF Api!FetchOk, ApiTypes
  <2>4. token.lock = c  BY <1>7, <1>b DEF ApiLocks, Api!FetchOk, Api!At
  <2>5. ApiLocks'
    <3>1. \A b \in Api!Buckets : /\ bucket'[b].lock \in {Off, c, bucket[b].lock}
                                 /\ bucket'[b].lock = c => call'[c].pc = b
      BY <1>7, <1>b, ApiNotInBucket DEF Api!FetchOk, Api!At, Api!Buckets
    <3>2. /\ (call'[c].pc = "fetch") <=> (token'.lock = c)
          /\ token'.lock = c => token.lock \in {Off, c}
          /\ token'.lock # c => token'.lock = token.lock \/ (token.lock = c /\ token'.lock = Off)
      BY <2>1, <2>2, <2>4
    <3> QED  BY <1>b, <2>1, <2>3, <3>1, <3>2, ApiLocksStay
  <2>6. valid \in 1..valid  BY <1>a DEF Api!Tokens
  <2>7. valid' = valid  BY <1>7 DEF Api!FetchOk
  <2>8. /\ call'[c].again \/ call'[c].pc = "invalidate" => valid >= 2
        /\ call'[c].again /\ valid = 2 => token'.value \in {0, 2}
        /\ valid <= 2 => call'[c].result # "unauthorized"
    BY <1>b, <2>1, <2>2 DEF ApiFresh
  <2>9. ApiFresh'  BY <1>b, <2>1, <2>2, <2>3, <2>6, <2>7, <2>8, ApiFreshStays
  <2> QED  BY <1>7, <1>b, <2>3, <2>5, <2>9 DEF Api!FetchOk, ApiOneUuid, ApiIInv
<1>9. ASSUME NEW c \in ApiCalls, Api!PostOk(c) PROVE ApiIInv'
  <2>1. sent' \in [ApiCalls -> SUBSET Api!Uuids] /\ ApiOneUuid'
    BY <1>9, <1>b, ApiExecutes DEF Api!PostOk
  <2>2. /\ call' \in ApiCallType
        /\ \A d \in ApiCalls \ {c} : call'[d] = call[d]
        /\ call'[c].pc = "done" /\ call'[c].again = call[c].again
        /\ call'[c].result = "ok"
    BY <1>9, <1>a, ApiDoneIs DEF Api!PostOk, ApiResults
  <2>3. call[c].pc = "post" /\ UNCHANGED <<bucket, token, valid>> /\ faults' \in 0..ApiFaults
    BY <1>9, <1>a DEF Api!PostOk, Api!At
  <2> QED  BY <1>b, <2>1, <2>2, <2>3, ApiPostEnds
<1>10. ASSUME NEW c \in ApiCalls, Api!PostFails(c) PROVE ApiIInv'
  <2>1. sent' \in [ApiCalls -> SUBSET Api!Uuids] /\ ApiOneUuid'
    BY <1>10, <1>b, ApiExecutes DEF Api!PostFails
  <2>2. faults' \in 0..ApiFaults  BY <1>10, <1>a DEF Api!PostFails, Api!Fault
  <2>3. /\ call' \in ApiCallType
        /\ \A d \in ApiCalls \ {c} : call'[d] = call[d]
        /\ call'[c].pc \in {"done", "token"} /\ call'[c].again = call[c].again
        /\ call'[c].result \in {call[c].result, "retryable"}
    <3>1. CASE call[c].tries < Retries /\ ~call[c].late
      BY <1>10, <3>1, <1>a, ApiTriesAgain DEF Api!PostFails
    <3>2. CASE ~(call[c].tries < Retries /\ ~call[c].late)
      <4>1. call' = Api!Done(c, "retryable")  BY <1>10, <3>2 DEF Api!PostFails
      <4> QED  BY <4>1, <1>a, ApiDoneIs DEF ApiResults
    <3> QED  BY <3>1, <3>2
  <2>4. call[c].pc = "post" /\ UNCHANGED <<bucket, token, valid>>
    BY <1>10 DEF Api!PostFails, Api!At
  <2>5. valid <= 2 => call'[c].result # "unauthorized"  BY <1>b, <2>3 DEF ApiFresh
  <2> QED  BY <1>b, <2>1, <2>2, <2>3, <2>4, <2>5, ApiPostEnds
<1>11. ASSUME NEW c \in ApiCalls, Api!PostRefused(c) PROVE ApiIInv'
  <2>1. faults' \in 0..ApiFaults  BY <1>11, <1>a DEF Api!PostRefused, Api!Fault
  <2>2. /\ call' \in ApiCallType
        /\ \A d \in ApiCalls \ {c} : call'[d] = call[d]
        /\ call'[c].pc = "done" /\ call'[c].again = call[c].again
        /\ call'[c].result = "refused"
    BY <1>11, <1>a, ApiDoneIs DEF Api!PostRefused, ApiResults
  <2>3. call[c].pc = "post" /\ UNCHANGED <<bucket, token, valid>> /\ sent' = sent
    BY <1>11 DEF Api!PostRefused, Api!At
  <2>4. sent' \in [ApiCalls -> SUBSET Api!Uuids] /\ ApiOneUuid'
    BY <1>a, <1>b, <2>3 DEF ApiOneUuid
  <2> QED  BY <1>b, <2>1, <2>2, <2>3, <2>4, ApiPostEnds
<1>12. ASSUME NEW c \in ApiCalls, Api!Unauthorized(c) PROVE ApiIInv'
  <2>1. call[c].token \in 1..valid /\ valid \in Nat
    BY <1>12, <1>a, <1>b DEF Api!Unauthorized, ApiFresh, Api!At, Api!Tokens
  <2>2. valid >= 2  BY <1>12, <2>1 DEF Api!Unauthorized
  <2>3. CASE call[c].again
    <3>1. valid > 2  BY <1>12, <2>1, <2>2, <2>3, <1>b DEF Api!Unauthorized, ApiFresh, Api!At
    <3>2. /\ call' \in ApiCallType
          /\ \A d \in ApiCalls \ {c} : call'[d] = call[d]
          /\ call'[c].pc = "done" /\ call'[c].again = call[c].again
      BY <1>12, <2>3, <1>a, ApiDoneIs DEF Api!Unauthorized, ApiResults
    <3> QED
      BY ApiPostEnds, <1>b, <1>12, <1>a, <2>1, <3>1, <3>2 DEF Api!Unauthorized, Api!At, ApiOneUuid
  <2>4. CASE ~call[c].again
    <3>1. /\ call' \in ApiCallType
          /\ \A d \in ApiCalls \ {c} : call'[d] = call[d]
          /\ call'[c].pc = "invalidate" /\ call'[c].again = call[c].again
          /\ call'[c].result = call[c].result
      BY <1>12, <2>4, <1>a, ApiMoves DEF Api!Unauthorized, ApiPCs
    <3> QED
      BY ApiPostEnds, <1>b, <1>12, <1>a, <2>2, <3>1 DEF Api!Unauthorized, Api!At, ApiOneUuid,
         ApiFresh
  <2> QED  BY <2>3, <2>4
<1>13. ASSUME NEW c \in ApiCalls, Api!Invalidate(c) PROVE ApiIInv'
  <2>1. /\ call' \in ApiCallType
        /\ \A d \in ApiCalls \ {c} : call'[d] = call[d]
        /\ call'[c].pc = "token" /\ call'[c].result = call[c].result
    BY <1>13, <1>a, ApiStartsOver DEF Api!Invalidate
  <2>2. token' \in ApiTokenType /\ token'.value = 0 /\ token'.lock = Off
    BY <1>13, <1>a DEF Api!Invalidate, ApiTokenType
  <2>3. ApiTypes'  BY <1>13, <1>a, <2>1, <2>2 DEF Api!Invalidate, ApiTypes
  <2>4. ApiLocks'
    <3>1. \A b \in Api!Buckets : /\ bucket'[b].lock \in {Off, c, bucket[b].lock}
                                 /\ bucket'[b].lock = c => call'[c].pc = b
      BY <1>13, <1>b, ApiNotInBucket DEF Api!Invalidate, Api!At, Api!Buckets
    <3>2. /\ (call'[c].pc = "fetch") <=> (token'.lock = c)
          /\ token'.lock = c => token.lock \in {Off, c}
          /\ token'.lock # c => token'.lock = token.lock \/ (token.lock = c /\ token'.lock = Off)
      BY <1>13, <2>1, <2>2 DEF Api!Invalidate
    <3> QED  BY <1>b, <2>1, <2>3, <3>1, <3>2, ApiLocksStay
  <2>5. valid >= 2  BY <1>13, <1>b DEF Api!Invalidate, ApiFresh, Api!At
  <2>6. ApiFresh'
    BY <1>13, <2>1, <2>2, <2>3, <2>5, ApiFreshStays, <1>b DEF Api!Invalidate, ApiFresh
  <2> QED  BY <1>13, <1>b, <2>3, <2>4, <2>6 DEF Api!Invalidate, ApiOneUuid, ApiIInv
<1>14. ASSUME NEW c \in ApiCalls, Api!Expire(c) PROVE ApiIInv'
  <2>1. /\ call' \in ApiCallType
        /\ \A d \in ApiCalls \ {c} : call'[d] = call[d]
        /\ call'[c].pc = call[c].pc /\ call'[c].token = call[c].token
        /\ call'[c].again = call[c].again /\ call'[c].result = call[c].result
    BY <1>14, <1>a, ApiAges DEF Api!Expire
  <2>2. faults' \in 0..ApiFaults  BY <1>14, <1>a DEF Api!Expire, Api!Fault
  <2>3. ApiTypes'  BY <1>14, <1>a, <2>1, <2>2 DEF Api!Expire, ApiTypes
  <2>4. \A d \in ApiCalls : /\ call'[d].pc = call[d].pc /\ call'[d].token = call[d].token
                            /\ call'[d].again = call[d].again /\ call'[d].result = call[d].result
    BY <2>1
  <2>5. \A b \in Api!Buckets : bucket[b].lock \in ApiCalls \cup {Off}  BY <1>a DEF ApiBucketType
  <2>6. token.lock \in ApiCalls \cup {Off}  BY <1>a DEF ApiTokenType
  <2>7. ApiLocks'  BY <1>14, <2>4, <2>5, <2>6, <1>b DEF Api!Expire, ApiLocks, Api!At
  <2>8. ApiFresh'  BY <1>14, <2>4, <1>b DEF Api!Expire, ApiFresh, Api!At
  <2> QED  BY <1>14, <1>b, <2>3, <2>7, <2>8 DEF Api!Expire, ApiOneUuid, ApiIInv
<1>15. CASE Api!Revoke
  <2>1. token' \in ApiTokenType /\ token'.lock = token.lock
        /\ token'.value \in {0, token.value}
    BY <1>15, <1>a DEF Api!Revoke, ApiTokenType
  <2>2. valid' \in Api!Tokens /\ valid' \in {valid, valid + 1}
    BY <1>15, <1>a DEF Api!Revoke, Api!Tokens
  <2>3. ApiTypes'  BY <1>15, <1>a, <2>1, <2>2 DEF Api!Revoke, ApiTypes
  <2>4. ApiLocks'  BY <1>15, <1>b, <2>1 DEF Api!Revoke, ApiLocks, Api!At
  <2>5. token.value \in Nat /\ valid \in Nat /\ valid >= 1  BY <1>a DEF ApiTokenType, Api!Tokens
  <2>6. ApiFresh'
    <3>1. token'.value <= valid'  BY <2>1, <2>2, <2>5, <1>b DEF ApiFresh
    <3>2. call' = call  BY <1>15 DEF Api!Revoke
    <3>3. ASSUME NEW c \in ApiCalls
          PROVE  /\ call'[c].pc = "post" => call'[c].token \in 1..valid'
                 /\ (call'[c].again \/ call'[c].pc = "invalidate") => valid' >= 2
                 /\ (call'[c].again /\ valid' = 2)
                       => /\ token'.value \in {0, 2}
                          /\ call'[c].pc = "post" => call'[c].token = 2
                 /\ valid' <= 2 => call'[c].result # "unauthorized"
      BY <2>1, <2>2, <2>5, <3>2, <1>b DEF ApiFresh, Api!At
    <3> QED  BY <3>1, <3>3 DEF ApiFresh, Api!At
  <2> QED  BY <1>15, <1>b, <2>3, <2>4, <2>6 DEF Api!Revoke, ApiOneUuid, ApiIInv
<1> QED
  BY <1>0, <1>1, <1>2, <1>3, <1>4, <1>5, <1>6, <1>7, <1>9, <1>10, <1>11, <1>12, <1>13, <1>14,
     <1>15
     DEF Api!Next, Api!Step

LEMMA ApiIInvTypes == ApiIInv => Api!TypeOK
<1> SUFFICES ASSUME ApiIInv PROVE Api!TypeOK  OBVIOUS
<1>1. /\ call \in ApiCallType /\ bucket \in ApiBucketType /\ token \in ApiTokenType
      /\ valid \in Api!Tokens /\ faults \in 0..ApiFaults
      /\ sent \in [ApiCalls -> SUBSET Api!Uuids]
  BY DEF ApiIInv, ApiTypes
<1>2. \A b \in Api!Buckets : /\ bucket[b].tokens \in 0..Capacity
                             /\ bucket[b].lock # Off => Api!At(bucket[b].lock, b)
  BY <1>1 DEF ApiBucketType, ApiIInv, ApiLocks
<1>3. token.value \in {0} \cup Api!Tokens /\ (token.lock # Off => Api!At(token.lock, "fetch"))
  BY <1>1 DEF ApiTokenType, ApiIInv, ApiLocks
<1> QED  BY <1>1, <1>2, <1>3, Zenon DEF Api!TypeOK, ApiCallType, ApiCallRec, ApiPCs, ApiResults

LEMMA ApiIInvSentOnce == ApiIInv => Api!SentOnce
  BY DEF ApiIInv, ApiOneUuid, Api!SentOnce

LEMMA ApiIInvHeals == ApiIInv => Api!RevocationHeals
  BY DEF ApiIInv, ApiFresh, Api!RevocationHeals
-----------------------------------------------------------------------------
\* The WeCom replies (WecomReply).
ReplyAssumed == /\ MaxUpdates \in Nat /\ MaxTexts \in Nat /\ ReplyFaults \in Nat
                /\ AutoFinish \in Nat /\ MaxNow \in Nat

ReplyPCs == Reply!Unwritten \cup {"idle", "written", "answered", "failed", "gone"}
ReplyCallType == [Reply!Callers -> [pc : ReplyPCs, finish : BOOLEAN]]
ReplyStreamType == [known : BOOLEAN, opening : 0..MaxNow, finished : BOOLEAN,
                    lock : Reply!Callers \cup {"none"}, asked : 0..MaxUpdates]

ReplyTypes ==
  /\ now \in 0..MaxNow /\ up \in BOOLEAN
  /\ call \in ReplyCallType
  /\ pending \in Seq(Reply!Callers) /\ wire \in Seq(Reply!Frame) /\ acks \in Seq([ok : BOOLEAN])
  /\ stream \in ReplyStreamType
  /\ platform \in [open : BOOLEAN, finished : BOOLEAN]
  /\ log \in Seq(BOOLEAN)
  /\ texts \in 0..MaxTexts /\ faults \in 0..ReplyFaults

\* Who waits for an answer is under way, and waits once.
ReplyWaits ==
  /\ \A i, j \in DOMAIN pending : pending[i] = pending[j] => i = j
  /\ \A i \in DOMAIN pending : call[pending[i]].pc \in {"queued", "written"}

\* From here on every frame finishes.
ReplyOver == stream.known /\ (stream.asked = MaxUpdates \/ Reply!Due)

ReplyFree(c) == call[c].pc \in {"idle", "gone"}

\* Who has the lock of the stream.
ReplyLocked ==
  /\ ~ReplyFree("card") /\ stream.known => stream.lock = "card"
  /\ ~ReplyFree("sweep") => stream.lock = "sweep" /\ stream.known
  /\ stream.finished \/ stream.lock # "none" => stream.known

\* What has been written or is about to be: the frames that finish are last.
ReplyFinishing ==
  /\ \A i, j \in DOMAIN log : i < j /\ log[i] => log[j]
  /\ \A i \in DOMAIN log : log[i] => ReplyOver
  /\ \A c \in {"card", "sweep"} : call[c].pc \in Reply!Unwritten =>
        /\ ~stream.finished
        /\ IF call[c].finish THEN ReplyOver ELSE \A i \in DOMAIN log : ~log[i]

ReplyIInv == ReplyTypes /\ ReplyWaits /\ ReplyLocked /\ ReplyFinishing

LEMMA ReplyInitIInv == ASSUME ReplyAssumed PROVE Reply!Init => ReplyIInv
<1> SUFFICES ASSUME Reply!Init PROVE ReplyIInv  OBVIOUS
<1> USE DEF ReplyAssumed, Reply!Init
<1>1. ReplyTypes
  <2>1. call \in ReplyCallType  BY DEF ReplyCallType, Reply!Callers, ReplyPCs, Reply!Idle
  <2>2. stream \in ReplyStreamType  BY DEF ReplyStreamType
  <2>3. platform \in [open : BOOLEAN, finished : BOOLEAN]  OBVIOUS
  <2> QED  BY <2>1, <2>2, <2>3 DEF ReplyTypes
<1>2. ReplyWaits /\ ReplyLocked /\ ReplyFinishing
  BY DEF ReplyWaits, ReplyLocked, ReplyFinishing, Reply!Callers, Reply!Idle, ReplyFree,
     Reply!Unwritten
<1> QED  BY <1>1, <1>2 DEF ReplyIInv

\* The record of the caller that moves, and the others'.
LEMMA ReplySetIs ==
  ASSUME call \in ReplyCallType, NEW c \in Reply!Callers, NEW p \in ReplyPCs, Reply!Set(c, p)
  PROVE  /\ call' \in ReplyCallType
         /\ \A d \in Reply!Callers \ {c} : call'[d] = call[d]
         /\ call'[c].pc = p
         /\ call'[c].finish = call[c].finish
  BY DEF Reply!Set, ReplyCallType

LEMMA ReplyAskIs ==
  ASSUME call \in ReplyCallType, NEW c \in Reply!Callers, NEW f \in BOOLEAN, Reply!Ask(c, f)
  PROVE  /\ call' \in ReplyCallType
         /\ \A d \in Reply!Callers \ {c} : call'[d] = call[d]
         /\ call'[c].pc = "queued"
         /\ call'[c].finish = f
  BY DEF Reply!Ask, ReplyCallType, ReplyPCs, Reply!Unwritten

\* The queue: it grows by one that is not in it, loses one, or its head.
LEMMA ReplyWaitsGrow ==
  ASSUME call \in ReplyCallType, pending \in Seq(Reply!Callers), ReplyWaits, NEW c \in Reply!Callers,
         call[c].pc \notin {"queued", "written"}, call'[c].pc = "queued",
         \A d \in Reply!Callers \ {c} : call'[d] = call[d],
         pending' = Append(pending, c)
  PROVE  pending' \in Seq(Reply!Callers) /\ ReplyWaits'
<1>1. \A i \in DOMAIN pending : pending[i] # c /\ pending[i] \in Reply!Callers  BY DEF ReplyWaits
<1>2. /\ pending' \in Seq(Reply!Callers) /\ Len(pending') = Len(pending) + 1
      /\ \A i \in 1..Len(pending) : pending'[i] = pending[i]
      /\ pending'[Len(pending) + 1] = c
      /\ DOMAIN pending = 1..Len(pending) /\ DOMAIN pending' = 1..Len(pending')
  OBVIOUS
<1>3. \A i, j \in DOMAIN pending' : pending'[i] = pending'[j] => i = j
  BY <1>1, <1>2 DEF ReplyWaits
<1>4. \A i \in DOMAIN pending' : call'[pending'[i]].pc \in {"queued", "written"}
  BY <1>1, <1>2 DEF ReplyWaits
<1> QED  BY <1>2, <1>3, <1>4 DEF ReplyWaits

LEMMA ReplyWaitsLeave ==
  ASSUME pending \in Seq(Reply!Callers), ReplyWaits, NEW c \in Reply!Callers,
         \A d \in Reply!Callers \ {c} : call'[d] = call[d], Reply!Leave(c)
  PROVE  pending' \in Seq(Reply!Callers) /\ ReplyWaits'
<1>1. CASE c \notin Reply!Range(pending) /\ UNCHANGED pending
  <2>1. \A i \in DOMAIN pending : pending[i] \in Reply!Callers \ {c}  BY <1>1 DEF Reply!Range
  <2> QED  BY <1>1, <2>1 DEF ReplyWaits
<1>2. ASSUME NEW i \in DOMAIN pending, pending[i] = c, pending' = Reply!RemoveAt(pending, i)
      PROVE  pending' \in Seq(Reply!Callers) /\ ReplyWaits'
  <2> DEFINE front == SubSeq(pending, 1, i - 1)
             back == SubSeq(pending, i + 1, Len(pending))
  <2>0. i \in 1..Len(pending) /\ Len(pending) \in Nat /\ DOMAIN pending = 1..Len(pending)
    BY <1>2
  <2>a. /\ front \in Seq(Reply!Callers) /\ Len(front) = i - 1
        /\ \A k \in 1..(i - 1) : front[k] = pending[k]
    BY <2>0
  <2>b. /\ back \in Seq(Reply!Callers) /\ Len(back) = Len(pending) - i
        /\ \A k \in 1..(Len(pending) - i) : back[k] = pending[k + i]
    BY <2>0
  <2>c. pending' = front \o back  BY <1>2 DEF Reply!RemoveAt
  <2> HIDE DEF front, back
  <2>d. /\ pending' \in Seq(Reply!Callers) /\ Len(pending') = Len(pending) - 1
        /\ DOMAIN pending' = 1..Len(pending')
        /\ \A k \in 1..Len(pending') :
              pending'[k] = IF k <= i - 1 THEN front[k] ELSE back[k - (i - 1)]
    <3>1. /\ front \o back \in Seq(Reply!Callers)
          /\ Len(front \o back) = Len(front) + Len(back)
          /\ \A k \in 1 .. Len(front) + Len(back) : (front \o back)[k] =
                     IF k <= Len(front) THEN front[k] ELSE back[k - Len(front)]
      BY <2>a, <2>b, ConcatProperties
    <3>2. Len(front) + Len(back) = Len(pending) - 1  BY <2>0, <2>a, <2>b
    <3>3. pending' \in Seq(Reply!Callers) /\ Len(pending') = Len(pending) - 1  BY <2>c, <3>1, <3>2
    <3>4. DOMAIN pending' = 1..Len(pending')  BY <3>3
    <3> QED  BY <2>a, <2>c, <3>1, <3>2, <3>3, <3>4
  <2>e. \A k \in 1..Len(pending') : k < i => pending'[k] = pending[k]
    BY <2>0, <2>a, <2>d
  <2>f. \A k \in 1..Len(pending') : k >= i => pending'[k] = pending[k + 1]
    <3> SUFFICES ASSUME NEW k \in 1..Len(pending'), k >= i PROVE pending'[k] = pending[k + 1]
      OBVIOUS
    <3>1. pending'[k] = back[k - (i - 1)]  BY <2>0, <2>a, <2>d
    <3>2. k - (i - 1) \in 1..(Len(pending) - i)  BY <2>0, <2>d
    <3>3. back[k - (i - 1)] = pending[(k - (i - 1)) + i]  BY <2>b, <3>2
    <3> QED  BY <2>0, <2>d, <3>1, <3>3
  <2>1. /\ pending' \in Seq(Reply!Callers) /\ Len(pending') = Len(pending) - 1
        /\ DOMAIN pending' = 1..Len(pending')
        /\ \A k \in 1..Len(pending') : k < i => pending'[k] = pending[k]
        /\ \A k \in 1..Len(pending') : k >= i => pending'[k] = pending[k + 1]
    BY <2>d, <2>e, <2>f
  <2> DEFINE at(k) == IF k < i THEN k ELSE k + 1
  <2>g. \A k \in DOMAIN pending' : at(k) \in DOMAIN pending \ {i} /\ pending'[k] = pending[at(k)]
    BY <2>0, <2>1
  <2>h. \A k, l \in DOMAIN pending' : at(k) = at(l) => k = l  BY <2>0, <2>1
  <2> HIDE DEF at
  <2>2. \A k \in DOMAIN pending' : pending'[k] \in Reply!Callers \ {c}
    BY <1>2, <2>g DEF ReplyWaits
  <2>3. \A k, l \in DOMAIN pending' : pending'[k] = pending'[l] => k = l
    BY <2>g, <2>h DEF ReplyWaits
  <2>4. \A k \in DOMAIN pending' : call'[pending'[k]].pc \in {"queued", "written"}
    BY <2>g, <2>2 DEF ReplyWaits
  <2> QED  BY <2>1, <2>3, <2>4 DEF ReplyWaits
<1> QED  BY <1>1, <1>2 DEF Reply!Leave

LEMMA ReplyWaitsPop ==
  ASSUME pending \in Seq(Reply!Callers), ReplyWaits, pending # <<>>, pending' = Tail(pending),
         \A d \in Reply!Callers \ {Head(pending)} : call'[d] = call[d]
  PROVE  pending' \in Seq(Reply!Callers) /\ ReplyWaits'
<1>1. /\ pending' \in Seq(Reply!Callers) /\ Len(pending') = Len(pending) - 1
      /\ \A k \in 1..Len(pending') : pending'[k] = pending[k + 1]
      /\ DOMAIN pending' = 1..Len(pending') /\ Head(pending) = pending[1]
  OBVIOUS
<1>2. \A k \in DOMAIN pending' : pending'[k] \in Reply!Callers \ {Head(pending)}
  BY <1>1 DEF ReplyWaits
<1>3. \A k, l \in DOMAIN pending' : pending'[k] = pending'[l] => k = l  BY <1>1 DEF ReplyWaits
<1>4. \A k \in DOMAIN pending' : call'[pending'[k]].pc \in {"queued", "written"}
  BY <1>1, <1>2 DEF ReplyWaits
<1> QED  BY <1>1, <1>3, <1>4 DEF ReplyWaits

\* Others may move within what they are doing.
LEMMA ReplyWaitsStay ==
  ASSUME pending \in Seq(Reply!Callers), ReplyWaits, NEW c \in Reply!Callers, UNCHANGED pending,
         \A d \in Reply!Callers \ {c} : call'[d] = call[d],
         call[c].pc \in {"queued", "written"} => call'[c].pc \in {"queued", "written"}
  PROVE  ReplyWaits'
  BY DEF ReplyWaits

\* The frames that finish stay the last: the step writes none, and what is about
\* to be written is what was, or one that is new and right.
LEMMA ReplyFinishingStays ==
  ASSUME ReplyFinishing, UNCHANGED log, ReplyOver => ReplyOver',
         \A c \in {"card", "sweep"} : call'[c].pc \in Reply!Unwritten =>
            \/ /\ call[c].pc \in Reply!Unwritten /\ call'[c].finish = call[c].finish
               /\ stream'.finished = stream.finished
            \/ /\ ~stream'.finished
               /\ IF call'[c].finish THEN ReplyOver' ELSE \A i \in DOMAIN log : ~log[i]
  PROVE  ReplyFinishing'
<1>1. \A i \in DOMAIN log' : log'[i] => ReplyOver'  BY DEF ReplyFinishing
<1>2. ASSUME NEW c \in {"card", "sweep"}, call'[c].pc \in Reply!Unwritten
      PROVE  /\ ~stream'.finished
             /\ IF call'[c].finish THEN ReplyOver' ELSE \A i \in DOMAIN log' : ~log'[i]
  BY <1>2 DEF ReplyFinishing
<1> QED  BY <1>1, <1>2 DEF ReplyFinishing

LEMMA ReplyLockedStays ==
  ASSUME ReplyLocked, UNCHANGED stream,
         \A c \in {"card", "sweep"} : ReplyFree(c) => ReplyFree(c)'
  PROVE  ReplyLocked'
  BY DEF ReplyLocked

LEMMA ReplyOverStays ==
  ASSUME ReplyAssumed, ReplyTypes, now' \in Nat, now' >= now, ReplyOver,
         stream'.known, stream'.opening = stream.opening,
         stream'.asked \in {stream.asked, MaxUpdates} \/ stream'.asked >= stream.asked,
         stream'.asked \in 0..MaxUpdates
  PROVE  ReplyOver'
<1>1. stream.opening \in Nat /\ now \in Nat /\ stream.asked \in 0..MaxUpdates
  BY DEF ReplyTypes, ReplyStreamType, ReplyAssumed
<1> QED  BY <1>1 DEF ReplyOver, Reply!Due, ReplyAssumed

LEMMA ReplyStepIInv == ASSUME ReplyAssumed, ReplyIInv, [Reply!Next]_(Reply!vars) PROVE ReplyIInv'
<1>a. ReplyTypes /\ ReplyWaits /\ ReplyLocked /\ ReplyFinishing  BY DEF ReplyIInv
<1>b. /\ now \in 0..MaxNow /\ up \in BOOLEAN
      /\ call \in ReplyCallType
      /\ pending \in Seq(Reply!Callers) /\ wire \in Seq(Reply!Frame) /\ acks \in Seq([ok : BOOLEAN])
      /\ stream \in ReplyStreamType
      /\ platform \in [open : BOOLEAN, finished : BOOLEAN]
      /\ log \in Seq(BOOLEAN)
      /\ texts \in 0..MaxTexts /\ faults \in 0..ReplyFaults
  BY <1>a DEF ReplyTypes
<1>c. MaxNow \in Nat /\ MaxUpdates \in Nat /\ MaxTexts \in Nat /\ ReplyFaults \in Nat
      /\ AutoFinish \in Nat
  BY DEF ReplyAssumed
<1>d. "card" \in Reply!Callers /\ "sweep" \in Reply!Callers /\ "text" \in Reply!Callers
  BY DEF Reply!Callers
<1>0. CASE UNCHANGED Reply!vars
  BY <1>0, <1>a, <1>b DEF Reply!vars, ReplyIInv, ReplyTypes, ReplyWaits, ReplyLocked,
     ReplyFinishing, ReplyOver, Reply!Due, ReplyFree
<1>1. ASSUME NEW c \in Reply!Callers, Reply!Write(c) PROVE ReplyIInv'
  <2>1. CASE up
    <3>1. Reply!Set(c, Reply!Written(call[c].pc)) /\ Reply!Written(call[c].pc) \in {"written", "answered", "failed"}
      BY <1>1, <2>1 DEF Reply!Write, Reply!Unwritten, Reply!Written
    <3>2. /\ call' \in ReplyCallType
          /\ \A d \in Reply!Callers \ {c} : call'[d] = call[d]
          /\ call'[c].pc = Reply!Written(call[c].pc)
          /\ call'[c].finish = call[c].finish
      BY <1>b, <3>1, ReplySetIs DEF ReplyPCs
    <3>3. wire' \in Seq(Reply!Frame)
      <4>1. [by |-> c, finish |-> call[c].finish] \in Reply!Frame
        BY <1>b DEF Reply!Frame, ReplyCallType
      <4>2. wire' = Append(wire, [by |-> c, finish |-> call[c].finish])
        BY <1>1, <2>1 DEF Reply!Write
      <4> QED  BY <1>b, <4>1, <4>2
    <3>4. log' \in Seq(BOOLEAN)
      <4>1. call[c].finish \in BOOLEAN  BY <1>b DEF ReplyCallType
      <4>2. log' = log \/ log' = Append(log, call[c].finish)  BY <1>1, <2>1 DEF Reply!Write
      <4>3. \A s \in Seq(BOOLEAN), b \in BOOLEAN : Append(s, b) \in Seq(BOOLEAN)  OBVIOUS
      <4> QED  BY <1>b, <4>1, <4>2, <4>3, Zenon
    <3>5. ReplyTypes'  BY <1>1, <1>b, <2>1, <3>2, <3>3, <3>4 DEF Reply!Write, ReplyTypes
    <3>6. ReplyWaits'
      <4>1. pending' = pending  BY <1>1, <2>1 DEF Reply!Write
      <4>2. call[c].pc \in {"queued", "written"} => call'[c].pc \in {"queued", "written"}
        BY <1>1, <3>2 DEF Reply!Write, Reply!Unwritten, Reply!Written
      <4> QED  BY <1>a, <1>b, <3>2, <4>1, <4>2, ReplyWaitsStay
    <3>7. ReplyLocked'
      <4>1. stream' = stream  BY <1>1 DEF Reply!Write
      <4>2. \A d \in {"card", "sweep"} : ReplyFree(d) => ReplyFree(d)'
        BY <1>1, <1>d, <3>2 DEF ReplyFree, Reply!Write, Reply!Unwritten
      <4> QED  BY <1>a, <4>1, <4>2, ReplyLockedStays
    <3>8. ReplyFinishing'
      <4>1. stream' = stream /\ now' = now /\ ReplyOver' = ReplyOver
        BY <1>1 DEF Reply!Write, ReplyOver, Reply!Due
      <4>2. CASE c = "text"
        <5>1. log' = log  BY <1>1, <2>1, <4>2 DEF Reply!Write
        <5>2. \A d \in {"card", "sweep"} : call'[d] = call[d]  BY <3>2, <4>2 DEF Reply!Callers
        <5> QED  BY <1>a, <4>1, <5>1, <5>2, ReplyFinishingStays
      <4>3. CASE c # "text"
        <5>1. c \in {"card", "sweep"}  BY <4>3 DEF Reply!Callers
        <5>2. log' = Append(log, call[c].finish)  BY <1>1, <2>1, <4>3 DEF Reply!Write
        <5>3. /\ Len(log') = Len(log) + 1 /\ log'[Len(log) + 1] = call[c].finish
              /\ \A i \in 1..Len(log) : log'[i] = log[i]
              /\ DOMAIN log = 1..Len(log) /\ DOMAIN log' = 1..(Len(log) + 1)
              /\ Len(log) \in Nat
          <6>1. call[c].finish \in BOOLEAN  BY <1>b DEF ReplyCallType
          <6> QED  BY <5>2, <6>1, <1>b
        <5>4. IF call[c].finish THEN ReplyOver ELSE \A i \in DOMAIN log : ~log[i]
          BY <1>1, <1>a, <5>1 DEF ReplyFinishing, Reply!Write
        <5>5. \A i, j \in DOMAIN log' : i < j /\ log'[i] => log'[j]
          BY <1>a, <5>3, <5>4 DEF ReplyFinishing
        <5>6. \A i \in DOMAIN log' : log'[i] => ReplyOver'
          BY <1>a, <4>1, <5>3, <5>4 DEF ReplyFinishing
        <5>7. ASSUME NEW d \in {"card", "sweep"}, call'[d].pc \in Reply!Unwritten
              PROVE  /\ ~stream'.finished
                     /\ IF call'[d].finish THEN ReplyOver' ELSE \A i \in DOMAIN log' : ~log'[i]
          <6>1. d # c  BY <3>1, <3>2, <5>7 DEF Reply!Unwritten
          <6>2. call'[d] = call[d]  BY <3>2, <6>1, <1>d
          <6>3. FALSE
            <7>1. ~ReplyFree(c) /\ ~ReplyFree(d)
              BY <1>1, <5>7, <6>2 DEF ReplyFree, Reply!Unwritten, Reply!Write
            <7> QED  BY <1>a, <7>1, <6>1, <5>1 DEF ReplyLocked
          <6> QED  BY <6>3
        <5> QED  BY <5>5, <5>6, <5>7 DEF ReplyFinishing
      <4> QED  BY <4>2, <4>3
    <3> QED  BY <3>5, <3>6, <3>7, <3>8 DEF ReplyIInv
  <2>2. CASE ~up
    <3>1. /\ call' \in ReplyCallType
          /\ \A d \in Reply!Callers \ {c} : call'[d] = call[d]
          /\ call'[c].pc = "failed" /\ call'[c].finish = call[c].finish
      BY <1>1, <1>b, <2>2, ReplySetIs DEF Reply!Write, ReplyPCs
    <3>2. pending' \in Seq(Reply!Callers) /\ ReplyWaits'
      BY <1>1, <1>a, <1>b, <2>2, <3>1, ReplyWaitsLeave DEF Reply!Write
    <3>3. ReplyTypes'  BY <1>1, <1>b, <2>2, <3>1, <3>2 DEF Reply!Write, ReplyTypes
    <3>4. stream' = stream /\ log' = log /\ now' = now /\ ReplyOver' = ReplyOver
      BY <1>1, <2>2 DEF Reply!Write, ReplyOver, Reply!Due
    <3>5. \A d \in {"card", "sweep"} : ReplyFree(d) => ReplyFree(d)'
      BY <1>1, <1>d, <3>1 DEF ReplyFree, Reply!Write, Reply!Unwritten
    <3>6. \A d \in {"card", "sweep"} : call'[d].pc \in Reply!Unwritten =>
             call[d].pc \in Reply!Unwritten /\ call'[d].finish = call[d].finish
      BY <1>d, <3>1 DEF Reply!Unwritten
    <3>7. ReplyLocked'  BY <1>a, <3>4, <3>5, ReplyLockedStays
    <3>8. ReplyFinishing'  BY <1>a, <3>4, <3>6, ReplyFinishingStays
    <3> QED  BY <3>2, <3>3, <3>7, <3>8 DEF ReplyIInv
  <2> QED  BY <2>1, <2>2
<1>2. ASSUME NEW c \in Reply!Callers, Reply!GiveUp(c) PROVE ReplyIInv'
  <2>1. /\ call' \in ReplyCallType
        /\ \A d \in Reply!Callers \ {c} : call'[d] = call[d]
        /\ call'[c].pc = "failed" /\ call'[c].finish = call[c].finish
    BY <1>2, <1>b, ReplySetIs DEF Reply!GiveUp, ReplyPCs
  <2>2. pending' \in Seq(Reply!Callers) /\ ReplyWaits'
    BY <1>2, <1>a, <1>b, <2>1, ReplyWaitsLeave DEF Reply!GiveUp
  <2>3. faults' \in 0..ReplyFaults  BY <1>2, <1>b, <1>c DEF Reply!GiveUp, Reply!Fault
  <2>4. ReplyTypes'  BY <1>2, <1>b, <2>1, <2>2, <2>3 DEF Reply!GiveUp, ReplyTypes
  <2>5. stream' = stream /\ log' = log /\ now' = now /\ ReplyOver' = ReplyOver
    BY <1>2 DEF Reply!GiveUp, ReplyOver, Reply!Due
  <2>6. \A d \in {"card", "sweep"} : ReplyFree(d) => ReplyFree(d)'
    BY <1>2, <1>d, <2>1 DEF ReplyFree, Reply!GiveUp, Reply!At
  <2>7. \A d \in {"card", "sweep"} : call'[d].pc \in Reply!Unwritten =>
           call[d].pc \in Reply!Unwritten /\ call'[d].finish = call[d].finish
    BY <1>d, <2>1 DEF Reply!Unwritten
  <2>8. ReplyLocked'  BY <1>a, <2>5, <2>6, ReplyLockedStays
  <2>9. ReplyFinishing'  BY <1>a, <2>5, <2>7, ReplyFinishingStays
  <2> QED  BY <2>2, <2>4, <2>8, <2>9 DEF ReplyIInv
<1>3. CASE Reply!Resolve
  <2>1. acks' \in Seq([ok : BOOLEAN])  BY <1>3, <1>b DEF Reply!Resolve
  <2>2. stream' = stream /\ log' = log /\ now' = now /\ ReplyOver' = ReplyOver
    BY <1>3 DEF Reply!Resolve, ReplyOver, Reply!Due
  <2>3. CASE pending = <<>>
    <3>1. call' = call /\ pending' = pending  BY <1>3, <2>3 DEF Reply!Resolve
    <3>2. ReplyTypes'  BY <1>3, <1>b, <2>1, <3>1 DEF Reply!Resolve, ReplyTypes
    <3>3. ReplyWaits'  BY <1>a, <3>1 DEF ReplyWaits
    <3>4. ReplyLocked'  BY <1>a, <2>2, <3>1, ReplyLockedStays DEF ReplyFree
    <3>5. ReplyFinishing'  BY <1>a, <2>2, <3>1, ReplyFinishingStays
    <3> QED  BY <3>2, <3>3, <3>4, <3>5 DEF ReplyIInv
  <2>4. CASE pending # <<>>
    <3> DEFINE c == Head(pending)
    <3>1. c \in Reply!Callers /\ call[c].pc \in {"queued", "written"}
      <4>1. c = pending[1] /\ 1 \in DOMAIN pending  BY <1>b, <2>4
      <4> QED  BY <1>b, <1>a, <4>1 DEF ReplyWaits
    <3>2. PICK p \in {"granted", "denied", "answered", "failed"} :
             /\ Reply!Set(c, p)
             /\ p \in Reply!Unwritten => call[c].pc = "queued"
      BY <1>3, <2>4 DEF Reply!Resolve, Reply!Granted, Reply!Denied, Reply!Unwritten
    <3> HIDE DEF c
    <3>3. /\ call' \in ReplyCallType
          /\ \A d \in Reply!Callers \ {c} : call'[d] = call[d]
          /\ call'[c].pc = p /\ call'[c].finish = call[c].finish
      BY <3>1, <3>2, <1>b, ReplySetIs DEF ReplyPCs, Reply!Unwritten
    <3>4. pending' \in Seq(Reply!Callers) /\ ReplyWaits'
      BY <1>3, <1>a, <1>b, <2>4, <3>3, ReplyWaitsPop DEF Reply!Resolve, c
    <3>5. ReplyTypes'  BY <1>3, <1>b, <2>1, <3>3, <3>4 DEF Reply!Resolve, ReplyTypes
    <3>6. \A d \in {"card", "sweep"} : ReplyFree(d) => ReplyFree(d)'
      BY <1>d, <3>1, <3>3 DEF ReplyFree
    <3>7. \A d \in {"card", "sweep"} : call'[d].pc \in Reply!Unwritten =>
             call[d].pc \in Reply!Unwritten /\ call'[d].finish = call[d].finish
      BY <1>d, <3>2, <3>3 DEF Reply!Unwritten
    <3>8. ReplyLocked'  BY <1>a, <2>2, <3>6, ReplyLockedStays
    <3>9. ReplyFinishing'  BY <1>a, <2>2, <3>7, ReplyFinishingStays
    <3> QED  BY <3>4, <3>5, <3>8, <3>9 DEF ReplyIInv
  <2> QED  BY <2>3, <2>4
<1>4. CASE Reply!SendCard
  <2>1. /\ call' \in ReplyCallType
        /\ \A d \in Reply!Callers \ {"card"} : call'[d] = call[d]
        /\ call'["card"].pc = "queued" /\ call'["card"].finish = FALSE
    BY <1>4, <1>b, <1>d, ReplyAskIs DEF Reply!SendCard
  <2>2. pending' \in Seq(Reply!Callers) /\ ReplyWaits'
    BY <1>4, <1>a, <1>b, <1>d, <2>1, ReplyWaitsGrow DEF Reply!SendCard, Reply!Ask, Reply!At
  <2>3. stream' = [stream EXCEPT !.opening = now] /\ stream' \in ReplyStreamType
        /\ ~stream.known /\ log = <<>> /\ log' = log
    BY <1>4, <1>b DEF Reply!SendCard, ReplyStreamType
  <2>4. ReplyTypes'  BY <1>4, <1>b, <2>1, <2>2, <2>3 DEF Reply!SendCard, ReplyTypes
  <2>5. stream'.known = stream.known /\ stream'.lock = stream.lock
        /\ stream'.finished = stream.finished
    BY <2>3, <1>b DEF ReplyStreamType
  <2>6. ReplyLocked'  BY <1>a, <1>d, <2>1, <2>3, <2>5 DEF ReplyLocked, ReplyFree
  <2>7. ReplyFinishing'
    <3>1. call'["sweep"].pc \notin Reply!Unwritten
      BY <1>a, <1>d, <2>1, <2>3 DEF ReplyLocked, ReplyFree, Reply!Unwritten
    <3>2. ~stream'.finished  BY <1>a, <2>3, <2>5 DEF ReplyLocked
    <3> QED  BY <2>1, <2>3, <3>1, <3>2 DEF ReplyFinishing
  <2> QED  BY <2>2, <2>4, <2>6, <2>7 DEF ReplyIInv
<1>5. CASE Reply!CardOpened
  <2>1. PICK p \in {"idle", "gone"} : Reply!Set("card", p) /\ call["card"].pc \in {"answered", "failed"}
    BY <1>5 DEF Reply!CardOpened, Reply!At
  <2>2. /\ call' \in ReplyCallType
        /\ \A d \in Reply!Callers \ {"card"} : call'[d] = call[d]
        /\ call'["card"].pc = p /\ call'["card"].finish = call["card"].finish
    BY <2>1, <1>b, <1>d, ReplySetIs DEF ReplyPCs
  <2>3. /\ stream' \in ReplyStreamType /\ ~stream.known
        /\ stream'.finished = stream.finished /\ stream'.lock = stream.lock
    BY <1>5, <1>b DEF Reply!CardOpened, ReplyStreamType
  <2>4. ReplyTypes'  BY <1>5, <1>b, <2>2, <2>3 DEF Reply!CardOpened, ReplyTypes
  <2>5. ReplyWaits'  BY <1>5, <1>a, <1>b, <1>d, <2>1, <2>2, ReplyWaitsStay DEF Reply!CardOpened
  <2>6. call'["sweep"].pc \notin Reply!Unwritten /\ ReplyFree("sweep")' /\ ReplyFree("card")'
    BY <1>a, <1>d, <2>1, <2>2, <2>3 DEF ReplyLocked, ReplyFree, Reply!Unwritten
  <2>7. ~stream'.finished  BY <1>a, <2>3 DEF ReplyLocked
  <2>8. ReplyLocked'  BY <1>a, <2>3, <2>6, <2>7 DEF ReplyLocked
  <2>9. ReplyFinishing'
    <3>1. log' = log /\ call'["card"].pc \notin Reply!Unwritten
      BY <1>5, <2>2 DEF Reply!CardOpened, Reply!Unwritten
    <3>2. \A i \in DOMAIN log : ~log[i]  BY <1>a, <2>3 DEF ReplyFinishing, ReplyOver
    <3> QED  BY <2>6, <3>1, <3>2 DEF ReplyFinishing
  <2> QED  BY <2>4, <2>5, <2>8, <2>9 DEF ReplyIInv
<1>6. ASSUME NEW t \in BOOLEAN, Reply!UpdateCard(t) PROVE ReplyIInv'
  <2> DEFINE count == IF t THEN MaxUpdates ELSE stream.asked + 1
  <2>1. count \in 0..MaxUpdates /\ (count >= stream.asked \/ count = MaxUpdates)
    <3>1. stream.asked \in 0..MaxUpdates /\ MaxUpdates \in Nat  BY <1>b, <1>c DEF ReplyStreamType
    <3>2. t \/ stream.asked + 1 < MaxUpdates  BY <1>6 DEF Reply!UpdateCard
    <3> QED  BY <3>1, <3>2
  <2>2. /\ stream.known /\ stream.lock = "none" /\ call["card"].pc = "idle" /\ log' = log
        /\ now' = now
    BY <1>6 DEF Reply!UpdateCard, Reply!Holds, Reply!At
  <2>3. ReplyFree("sweep") /\ ReplyFree("card")  BY <1>a, <2>2 DEF ReplyLocked, ReplyFree
  <2>4. CASE stream.finished \/ ~up
    <3>1. stream' = [stream EXCEPT !.asked = count] /\ call' = call /\ pending' = pending
      BY <1>6, <2>4 DEF Reply!UpdateCard
    <3>2. /\ stream' \in ReplyStreamType /\ stream'.known = stream.known
          /\ stream'.finished = stream.finished /\ stream'.lock = stream.lock
          /\ stream'.opening = stream.opening /\ stream'.asked = count
      BY <3>1, <2>1, <1>b DEF ReplyStreamType
    <3>3. ReplyTypes'  BY <1>6, <1>b, <3>1, <3>2 DEF Reply!UpdateCard, ReplyTypes
    <3>4. ReplyWaits' /\ ReplyLocked'  BY <1>a, <3>1, <3>2 DEF ReplyWaits, ReplyLocked, ReplyFree
    <3>5. ReplyOver => ReplyOver'  BY <1>a, <1>b, <1>c, <2>1, <2>2, <3>2, ReplyOverStays
    <3>6. ReplyFinishing'  BY <1>a, <2>2, <3>1, <3>2, <3>5, ReplyFinishingStays
    <3> QED  BY <3>3, <3>4, <3>6 DEF ReplyIInv
  <2>5. CASE ~(stream.finished \/ ~up)
    <3>1. /\ stream' = [stream EXCEPT !.asked = count, !.lock = "card"]
          /\ Reply!Ask("card", t \/ Reply!Due)
      BY <1>6, <2>5 DEF Reply!UpdateCard
    <3>2. (t \/ Reply!Due) \in BOOLEAN  OBVIOUS
    <3>3. /\ call' \in ReplyCallType
          /\ \A d \in Reply!Callers \ {"card"} : call'[d] = call[d]
          /\ call'["card"].pc = "queued" /\ call'["card"].finish = (t \/ Reply!Due)
      BY <3>1, <3>2, <1>b, <1>d, ReplyAskIs
    <3>4. pending' \in Seq(Reply!Callers) /\ ReplyWaits'
      BY <3>1, <1>a, <1>b, <1>d, <2>2, <3>3, ReplyWaitsGrow DEF Reply!Ask
    <3>5. stream' \in ReplyStreamType
      <4>1. [stream EXCEPT !.asked = count] \in ReplyStreamType  BY <2>1, <1>b DEF ReplyStreamType
      <4>2. [[stream EXCEPT !.asked = count] EXCEPT !.lock = "card"] \in ReplyStreamType
        BY <4>1, <1>d DEF ReplyStreamType
      <4> QED  BY <3>1, <4>2
    <3>6. /\ stream'.known = stream.known /\ stream'.finished = stream.finished
          /\ stream'.lock = "card" /\ stream'.opening = stream.opening /\ stream'.asked = count
      BY <3>1, <1>b DEF ReplyStreamType
    <3>7. ReplyTypes'  BY <1>6, <1>b, <3>3, <3>4, <3>5 DEF Reply!UpdateCard, ReplyTypes
    <3>8. ReplyLocked'  BY <1>a, <1>d, <2>2, <2>3, <3>3, <3>6 DEF ReplyLocked, ReplyFree
    <3>9. ReplyOver => ReplyOver'  BY <1>a, <1>b, <1>c, <2>1, <2>2, <3>6, ReplyOverStays
    <3>10. (t \/ Reply!Due) => ReplyOver'  BY <2>2, <3>6 DEF ReplyOver, Reply!Due
    <3>11. ~(t \/ Reply!Due) => \A i \in DOMAIN log : ~log[i]
      <4> SUFFICES ASSUME ~t, ~Reply!Due, NEW i \in DOMAIN log, log[i] PROVE FALSE  OBVIOUS
      <4>1. stream.asked = MaxUpdates  BY <1>a DEF ReplyFinishing, ReplyOver
      <4> QED  BY <4>1, <1>6, <1>c DEF Reply!UpdateCard
    <3>12. call'["sweep"].pc \notin Reply!Unwritten
      BY <2>3, <1>d, <3>3 DEF ReplyFree, Reply!Unwritten
    <3>13. ReplyFinishing'
      <4>1. ASSUME NEW c \in {"card", "sweep"}, call'[c].pc \in Reply!Unwritten
            PROVE  ~stream'.finished
                   /\ IF call'[c].finish THEN ReplyOver' ELSE \A i \in DOMAIN log : ~log[i]
        BY <2>5, <3>3, <3>6, <3>10, <3>11, <3>12, <4>1
      <4> QED  BY <1>a, <2>2, <3>9, <4>1, ReplyFinishingStays
    <3> QED  BY <3>4, <3>7, <3>8, <3>13 DEF ReplyIInv
  <2> QED  BY <2>4, <2>5
<1>7. CASE Reply!CardUpdated
  <2>1. Reply!Set("card", "idle") /\ call["card"].pc \in {"answered", "failed"} /\ stream.lock = "card"
    BY <1>7 DEF Reply!CardUpdated, Reply!At, Reply!Holds
  <2>2. /\ call' \in ReplyCallType
        /\ \A d \in Reply!Callers \ {"card"} : call'[d] = call[d]
        /\ call'["card"].pc = "idle"
    BY <2>1, <1>b, <1>d, ReplySetIs DEF ReplyPCs
  <2>3. PICK f \in BOOLEAN : stream' = [stream EXCEPT !.finished = f, !.lock = "none"]
    <3>1. call["card"].finish \in BOOLEAN /\ stream.finished \in BOOLEAN
      BY <1>b, <1>d DEF ReplyCallType, ReplyStreamType
    <3>2. [stream EXCEPT !.finished = stream.finished, !.lock = "none"] = [stream EXCEPT !.lock = "none"]
      BY <1>b DEF ReplyStreamType
    <3> QED  BY <1>7, <3>1, <3>2 DEF Reply!CardUpdated
  <2>4. stream' \in ReplyStreamType
    <3>1. [stream EXCEPT !.finished = f] \in ReplyStreamType  BY <1>b DEF ReplyStreamType
    <3>2. [[stream EXCEPT !.finished = f] EXCEPT !.lock = "none"] \in ReplyStreamType
      BY <3>1 DEF ReplyStreamType
    <3> QED  BY <2>3, <3>2
  <2>5. /\ stream'.known = stream.known /\ stream'.lock = "none"
        /\ stream'.opening = stream.opening /\ stream'.asked = stream.asked
    BY <2>3, <1>b DEF ReplyStreamType
  <2>6. ReplyTypes'  BY <1>7, <1>b, <2>2, <2>4 DEF Reply!CardUpdated, ReplyTypes
  <2>7. ReplyWaits'  BY <1>7, <1>a, <1>b, <1>d, <2>1, <2>2, ReplyWaitsStay DEF Reply!CardUpdated
  <2>8. ReplyFree("sweep")  BY <1>a, <2>1 DEF ReplyLocked
  <2>9. log' = log /\ now' = now /\ ReplyOver' = ReplyOver
    BY <1>7, <2>5 DEF Reply!CardUpdated, ReplyOver, Reply!Due
  <2>10. stream.known
    BY <1>a, <2>1 DEF ReplyLocked
  <2>11. ReplyLocked'  BY <1>d, <2>2, <2>5, <2>8, <2>10 DEF ReplyLocked, ReplyFree
  <2>12. \A c \in {"card", "sweep"} : call'[c].pc \notin Reply!Unwritten
    BY <1>d, <2>2, <2>8 DEF ReplyFree, Reply!Unwritten
  <2>13. ReplyFinishing'  BY <1>a, <2>9, <2>12 DEF ReplyFinishing
  <2> QED  BY <2>6, <2>7, <2>11, <2>13 DEF ReplyIInv
<1>8. CASE Reply!SendText
  <2>1. /\ call' \in ReplyCallType
        /\ \A d \in Reply!Callers \ {"text"} : call'[d] = call[d]
        /\ call'["text"].pc = "queued"
    BY <1>8, <1>b, <1>d, ReplyAskIs DEF Reply!SendText
  <2>2. pending' \in Seq(Reply!Callers) /\ ReplyWaits'
    BY <1>8, <1>a, <1>b, <1>d, <2>1, ReplyWaitsGrow DEF Reply!SendText, Reply!Ask, Reply!At
  <2>3. texts' \in 0..MaxTexts  BY <1>8, <1>b, <1>c DEF Reply!SendText
  <2>4. ReplyTypes'  BY <1>8, <1>b, <2>1, <2>2, <2>3 DEF Reply!SendText, ReplyTypes
  <2>5. stream' = stream /\ log' = log /\ ReplyOver' = ReplyOver
    BY <1>8 DEF Reply!SendText, ReplyOver, Reply!Due
  <2>6. \A c \in {"card", "sweep"} : call'[c] = call[c]  BY <1>d, <2>1
  <2>7. ReplyLocked'  BY <1>a, <2>5, <2>6, ReplyLockedStays DEF ReplyFree
  <2>8. ReplyFinishing'  BY <1>a, <2>5, <2>6, ReplyFinishingStays
  <2> QED  BY <2>2, <2>4, <2>7, <2>8 DEF ReplyIInv
<1>9. CASE Reply!TextSent
  <2>1. /\ call' \in ReplyCallType
        /\ \A d \in Reply!Callers \ {"text"} : call'[d] = call[d]
        /\ call["text"].pc \in {"answered", "failed"}
    BY <1>9, <1>b, <1>d, ReplySetIs DEF Reply!TextSent, ReplyPCs
  <2>2. ReplyTypes'  BY <1>9, <1>b, <2>1 DEF Reply!TextSent, ReplyTypes
  <2>3. ReplyWaits'  BY <1>9, <1>a, <1>b, <1>d, <2>1, ReplyWaitsStay DEF Reply!TextSent
  <2>4. stream' = stream /\ log' = log /\ ReplyOver' = ReplyOver
    BY <1>9 DEF Reply!TextSent, ReplyOver, Reply!Due
  <2>5. \A c \in {"card", "sweep"} : call'[c] = call[c]  BY <1>d, <2>1
  <2>6. ReplyLocked'  BY <1>a, <2>4, <2>5, ReplyLockedStays DEF ReplyFree
  <2>7. ReplyFinishing'  BY <1>a, <2>4, <2>5, ReplyFinishingStays
  <2> QED  BY <2>2, <2>3, <2>6, <2>7 DEF ReplyIInv
<1>10. CASE Reply!Sweep
  <2>1. /\ stream.known /\ stream.lock = "none" /\ call["sweep"].pc = "idle" /\ log' = log
        /\ now' = now /\ ~stream.finished /\ Reply!Due
    BY <1>10 DEF Reply!Sweep, Reply!Holds, Reply!At
  <2>2. CASE ~up
    <3>1. call' = call /\ pending' = pending /\ stream' = stream  BY <1>10, <2>2 DEF Reply!Sweep
    <3>2. ReplyOver' = ReplyOver  BY <2>1, <3>1 DEF ReplyOver, Reply!Due
    <3>3. ReplyTypes' /\ ReplyWaits'
      BY <1>10, <1>a, <1>b, <3>1 DEF Reply!Sweep, ReplyTypes, ReplyWaits
    <3>4. ReplyLocked'  BY <1>a, <3>1, ReplyLockedStays DEF ReplyFree
    <3>5. ReplyFinishing'  BY <1>a, <2>1, <3>1, <3>2, ReplyFinishingStays
    <3> QED  BY <3>3, <3>4, <3>5 DEF ReplyIInv
  <2>3. CASE up
    <3>1. Reply!Ask("sweep", TRUE) /\ stream' = [stream EXCEPT !.lock = "sweep"]
      BY <1>10, <2>3 DEF Reply!Sweep
    <3>2. /\ call' \in ReplyCallType
          /\ \A d \in Reply!Callers \ {"sweep"} : call'[d] = call[d]
          /\ call'["sweep"].pc = "queued" /\ call'["sweep"].finish = TRUE
      BY <3>1, <1>b, <1>d, ReplyAskIs
    <3>3. pending' \in Seq(Reply!Callers) /\ ReplyWaits'
      BY <3>1, <1>a, <1>b, <1>d, <2>1, <3>2, ReplyWaitsGrow DEF Reply!Ask
    <3>4. stream' \in ReplyStreamType  BY <3>1, <1>b, <1>d DEF ReplyStreamType
    <3>5. /\ stream'.known = stream.known /\ stream'.finished = stream.finished
          /\ stream'.lock = "sweep" /\ stream'.opening = stream.opening
          /\ stream'.asked = stream.asked
      BY <3>1, <1>b DEF ReplyStreamType
    <3>6. ReplyTypes'  BY <1>10, <1>b, <3>2, <3>3, <3>4 DEF Reply!Sweep, ReplyTypes
    <3>7. ReplyFree("card") /\ ReplyFree("card")'
      BY <1>a, <1>d, <2>1, <3>2 DEF ReplyLocked, ReplyFree
    <3>8. ReplyLocked'  BY <1>a, <2>1, <3>5, <3>7 DEF ReplyLocked
    <3>9. ReplyOver /\ ReplyOver'  BY <2>1, <3>5 DEF ReplyOver, Reply!Due
    <3>10. ReplyFinishing'
      <4>1. call'["card"].pc \notin Reply!Unwritten  BY <3>7 DEF ReplyFree, Reply!Unwritten
      <4> QED  BY <1>a, <2>1, <3>2, <3>5, <3>9, <4>1 DEF ReplyFinishing
    <3> QED  BY <3>3, <3>6, <3>8, <3>10 DEF ReplyIInv
  <2> QED  BY <2>2, <2>3
<1>11. CASE Reply!Swept
  <2>1. Reply!Set("sweep", "idle") /\ call["sweep"].pc \in {"answered", "failed"}
        /\ stream.lock = "sweep"
    BY <1>11 DEF Reply!Swept, Reply!At, Reply!Holds
  <2>2. /\ call' \in ReplyCallType
        /\ \A d \in Reply!Callers \ {"sweep"} : call'[d] = call[d]
        /\ call'["sweep"].pc = "idle"
    BY <2>1, <1>b, <1>d, ReplySetIs DEF ReplyPCs
  <2>3. PICK f \in BOOLEAN : stream' = [stream EXCEPT !.finished = f, !.lock = "none"]
    <3>1. stream.finished \in BOOLEAN  BY <1>b DEF ReplyStreamType
    <3>2. [stream EXCEPT !.finished = stream.finished, !.lock = "none"] = [stream EXCEPT !.lock = "none"]
      BY <1>b DEF ReplyStreamType
    <3> QED  BY <1>11, <3>1, <3>2 DEF Reply!Swept
  <2>4. stream' \in ReplyStreamType
    <3>1. [stream EXCEPT !.finished = f] \in ReplyStreamType  BY <1>b DEF ReplyStreamType
    <3>2. [[stream EXCEPT !.finished = f] EXCEPT !.lock = "none"] \in ReplyStreamType
      BY <3>1 DEF ReplyStreamType
    <3> QED  BY <2>3, <3>2
  <2>5. /\ stream'.known = stream.known /\ stream'.lock = "none"
        /\ stream'.opening = stream.opening /\ stream'.asked = stream.asked
    BY <2>3, <1>b DEF ReplyStreamType
  <2>6. ReplyTypes'  BY <1>11, <1>b, <2>2, <2>4 DEF Reply!Swept, ReplyTypes
  <2>7. ReplyWaits'  BY <1>11, <1>a, <1>b, <1>d, <2>1, <2>2, ReplyWaitsStay DEF Reply!Swept
  <2>8. stream.known /\ ReplyFree("card")  BY <1>a, <2>1 DEF ReplyLocked, ReplyFree
  <2>9. log' = log /\ now' = now /\ ReplyOver' = ReplyOver
    BY <1>11, <2>5 DEF Reply!Swept, ReplyOver, Reply!Due
  <2>10. ReplyLocked'  BY <1>d, <2>2, <2>5, <2>8 DEF ReplyLocked, ReplyFree
  <2>11. \A c \in {"card", "sweep"} : call'[c].pc \notin Reply!Unwritten
    BY <1>d, <2>2, <2>8 DEF ReplyFree, Reply!Unwritten
  <2>12. ReplyFinishing'  BY <1>a, <2>9, <2>11 DEF ReplyFinishing
  <2> QED  BY <2>6, <2>7, <2>10, <2>12 DEF ReplyIInv
<1>12. ASSUME Reply!TakeFrame \/ Reply!Drop \/ Reply!Reconnect, UNCHANGED <<now, call, pending, stream, log>>
       PROVE  ReplyIInv'
  <2>1. ReplyTypes'
    <3>1. faults' \in 0..ReplyFaults /\ texts' = texts
      BY <1>12, <1>b, <1>c DEF Reply!TakeFrame, Reply!Drop, Reply!Reconnect, Reply!Fault
    <3>2. up' \in BOOLEAN  BY <1>12, <1>b DEF Reply!TakeFrame, Reply!Drop, Reply!Reconnect
    <3>3. wire' \in Seq(Reply!Frame) /\ acks' \in Seq([ok : BOOLEAN])
      <4>1. CASE Reply!TakeFrame
        <5>1. wire # <<>> /\ wire' = Tail(wire)  BY <4>1 DEF Reply!TakeFrame
        <5>2. PICK b \in BOOLEAN : acks' = Append(acks, [ok |-> b])  BY <4>1 DEF Reply!TakeFrame
        <5>3. [ok |-> b] \in [ok : BOOLEAN]  OBVIOUS
        <5> QED  BY <1>b, <5>1, <5>2, <5>3
      <4>2. CASE Reply!Drop  BY <4>2 DEF Reply!Drop
      <4>3. CASE Reply!Reconnect  BY <4>3, <1>b DEF Reply!Reconnect
      <4> QED  BY <1>12, <4>1, <4>2, <4>3
    <3>4. platform' \in [open : BOOLEAN, finished : BOOLEAN]
      <4>1. CASE Reply!TakeFrame
        <5>1. wire # <<>>  BY <4>1 DEF Reply!TakeFrame
        <5>2. Head(wire) \in Reply!Frame  BY <1>b, <5>1
        <5>3. (platform.finished \/ Head(wire).finish) \in BOOLEAN  OBVIOUS
        <5>4. PICK f \in BOOLEAN : platform' \in {platform, [open |-> TRUE, finished |-> f]}
          BY <4>1, <5>3 DEF Reply!TakeFrame
        <5>5. [open |-> TRUE, finished |-> f] \in [open : BOOLEAN, finished : BOOLEAN]
          OBVIOUS
        <5>6. CASE platform' = platform  BY <1>b, <5>6
        <5>7. CASE platform' = [open |-> TRUE, finished |-> f]  BY <5>5, <5>7
        <5> QED  BY <5>4, <5>6, <5>7
      <4> QED  BY <1>12, <1>b, <4>1 DEF Reply!Drop, Reply!Reconnect
    <3> QED  BY <1>12, <1>b, <3>1, <3>2, <3>3, <3>4 DEF ReplyTypes
  <2>2. ReplyWaits' /\ ReplyLocked'  BY <1>12, <1>a DEF ReplyWaits, ReplyLocked, ReplyFree
  <2>3. ReplyFinishing'  BY <1>12, <1>a, ReplyFinishingStays DEF ReplyOver, Reply!Due
  <2> QED  BY <2>1, <2>2, <2>3 DEF ReplyIInv
<1>13. CASE Reply!Tick
  <2>1. now' \in 0..MaxNow /\ now' >= now  BY <1>13, <1>b, <1>c DEF Reply!Tick
  <2>2. ReplyTypes'  BY <1>13, <1>b, <2>1 DEF Reply!Tick, ReplyTypes
  <2>3. ReplyWaits' /\ ReplyLocked'
    BY <1>13, <1>a DEF Reply!Tick, ReplyWaits, ReplyLocked, ReplyFree
  <2>4. ReplyOver => ReplyOver'
    <3>1. stream' = stream /\ stream.asked \in 0..MaxUpdates
      BY <1>13, <1>b DEF Reply!Tick, ReplyStreamType
    <3>2. now' \in Nat  BY <2>1
    <3>3. ASSUME ReplyOver PROVE stream'.known  BY <3>1, <3>3 DEF ReplyOver
    <3> QED  BY <1>a, <2>1, <3>1, <3>2, <3>3, ReplyOverStays
  <2>5. ReplyFinishing'
    <3>1. UNCHANGED <<call, stream, log>>  BY <1>13 DEF Reply!Tick
    <3> QED  BY <1>a, <2>4, <3>1, ReplyFinishingStays
  <2> QED  BY <2>2, <2>3, <2>5 DEF ReplyIInv
<1>14. ASSUME Reply!TakeFrame PROVE UNCHANGED <<now, call, pending, stream, log>>
  BY <1>14 DEF Reply!TakeFrame
<1>15. ASSUME Reply!Drop PROVE UNCHANGED <<now, call, pending, stream, log>>
  BY <1>15 DEF Reply!Drop
<1>16. ASSUME Reply!Reconnect PROVE UNCHANGED <<now, call, pending, stream, log>>
  BY <1>16 DEF Reply!Reconnect
<1> QED
  BY <1>0, <1>1, <1>2, <1>3, <1>4, <1>5, <1>6, <1>7, <1>8, <1>9, <1>10, <1>11, <1>12, <1>13,
     <1>14, <1>15, <1>16
     DEF Reply!Next, Reply!Card, Reply!Request

LEMMA ReplyIInvTypes == ReplyIInv => Reply!TypeOK
<1> SUFFICES ASSUME ReplyIInv PROVE Reply!TypeOK  OBVIOUS
<1>1. ReplyTypes /\ ReplyWaits  BY DEF ReplyIInv
<1>2. /\ Reply!Range(pending) \subseteq Reply!Callers /\ Reply!Range(wire) \subseteq Reply!Frame
      /\ Reply!Range(acks) \subseteq [ok : BOOLEAN] /\ Reply!Range(log) \subseteq BOOLEAN
  <2>1. \A S : \A q \in Seq(S) : Reply!Range(q) \subseteq S  BY DEF Reply!Range
  <2> QED  BY <1>1, <2>1 DEF ReplyTypes
<1>3. Reply!IsInjective(pending)  BY <1>1 DEF ReplyWaits, Reply!IsInjective
<1> QED
  BY <1>1, <1>2, <1>3 DEF ReplyTypes, Reply!TypeOK, ReplyCallType, ReplyStreamType, ReplyPCs

LEMMA ReplyIInvFinish == ReplyIInv => Reply!FinishIsLast
  BY DEF ReplyIInv, ReplyFinishing, Reply!FinishIsLast

LEMMA ReplyStepQuiet == ASSUME ReplyIInv, Reply!Next, stream.finished PROVE log' = log
<1>1. ReplyFinishing  BY DEF ReplyIInv
<1>2. ASSUME NEW c \in Reply!Callers, Reply!Write(c) PROVE log' = log
  BY <1>1, <1>2 DEF Reply!Write, ReplyFinishing, Reply!Callers
<1>3. ASSUME NEW c \in Reply!Callers, Reply!GiveUp(c) PROVE log' = log  BY <1>3 DEF Reply!GiveUp
<1>4. ASSUME NEW t \in BOOLEAN, Reply!UpdateCard(t) PROVE log' = log  BY <1>4 DEF Reply!UpdateCard
<1>5. CASE Reply!SendCard \/ Reply!CardOpened \/ Reply!CardUpdated
  BY <1>5 DEF Reply!SendCard, Reply!CardOpened, Reply!CardUpdated
<1>6. CASE Reply!SendText \/ Reply!TextSent \/ Reply!Sweep \/ Reply!Swept
  BY <1>6 DEF Reply!SendText, Reply!TextSent, Reply!Sweep, Reply!Swept
<1>7. CASE Reply!Resolve \/ Reply!TakeFrame \/ Reply!Drop \/ Reply!Reconnect \/ Reply!Tick
  BY <1>7 DEF Reply!Resolve, Reply!TakeFrame, Reply!Drop, Reply!Reconnect, Reply!Tick
<1> QED  BY <1>2, <1>3, <1>4, <1>5, <1>6, <1>7 DEF Reply!Next, Reply!Card, Reply!Request
-----------------------------------------------------------------------------
\* The DingTalk stream (DingtalkStream).
StreamAssumed == MaxConns \in Nat /\ StreamFaults \in Nat

StreamAts == {"none", "idle", "sink", "done"}
StreamHands == {<<>>} \cup {<<m>> : m \in Messages}
StreamConnRec == [open : BOOLEAN, cut : BOOLEAN, reading : BOOLEAN, wire : Seq(Stream!Frames),
                  queue : Seq(Messages), at : StreamAts, hand : StreamHands]
StreamConnType == [Stream!Conns -> StreamConnRec]

StreamTypes ==
  /\ starter \in {"check", "sleep", "connect", "run", "close", "inflight", "returned"}
  /\ attempt \in BOOLEAN /\ connected \in BOOLEAN /\ hung \in BOOLEAN /\ cancelled \in BOOLEAN
  /\ last \in 0..MaxConns /\ reconnects \in 0..last
  /\ conn \in StreamConnType
  /\ pushed \in [Messages -> {"new", "out", "done"}]
  /\ card \in [Cards -> {"new", "out", "sink", "taken", "lost"}]
  /\ taken \subseteq Messages /\ faults \in 0..StreamFaults

StreamInHand == \A c \in Stream!Conns : conn[c].at = "sink" <=> conn[c].hand # <<>>

\* Only the last connection is not done with, and only while Start runs it does
\* its read loop run.
StreamRounds ==
  /\ \A c \in Stream!Conns : c > last => conn[c].at = "none"
  /\ \A c \in Stream!Conns : c < last => conn[c].at = "done"
  /\ starter \notin {"run", "close"} /\ last > 0 => conn[last].at = "done"
  /\ starter \in {"run", "close"} => last > 0
  /\ \A c \in Stream!Conns : conn[c].reading => c = last /\ starter = "run"

StreamReturned == starter = "returned" => \A k \in Cards : card[k] # "sink"

StreamIInv == StreamTypes /\ StreamInHand /\ StreamRounds /\ Stream!AckedIsTaken /\ StreamReturned

\* What a step writes into the record of its connection.
LEMMA StreamOpens ==
  ASSUME NEW r \in StreamConnRec, NEW o \in BOOLEAN, NEW b \in BOOLEAN, NEW a \in StreamAts
  PROVE  /\ [r EXCEPT !.open = o, !.reading = b, !.at = a] \in StreamConnRec
         /\ [r EXCEPT !.open = o, !.reading = b, !.at = a].at = a
         /\ [r EXCEPT !.open = o, !.reading = b, !.at = a].hand = r.hand
  BY DEF StreamConnRec

LEMMA StreamShuts ==
  ASSUME NEW r \in StreamConnRec, NEW o \in BOOLEAN, NEW w \in Seq(Stream!Frames)
  PROVE  /\ [r EXCEPT !.open = o, !.wire = w] \in StreamConnRec
         /\ [r EXCEPT !.open = o, !.wire = w].at = r.at
         /\ [r EXCEPT !.open = o, !.wire = w].hand = r.hand
         /\ [r EXCEPT !.open = o, !.wire = w].reading = r.reading
  BY DEF StreamConnRec

LEMMA StreamBreaks ==
  ASSUME NEW r \in StreamConnRec, NEW o \in BOOLEAN, NEW w \in Seq(Stream!Frames)
  PROVE  /\ [r EXCEPT !.cut = o, !.wire = w] \in StreamConnRec
         /\ [r EXCEPT !.cut = o, !.wire = w].at = r.at
         /\ [r EXCEPT !.cut = o, !.wire = w].hand = r.hand
         /\ [r EXCEPT !.cut = o, !.wire = w].reading = r.reading
  BY DEF StreamConnRec

LEMMA StreamReads ==
  ASSUME NEW r \in StreamConnRec, NEW w \in Seq(Stream!Frames), NEW s \in Seq(Messages)
  PROVE  /\ [r EXCEPT !.wire = w, !.queue = s] \in StreamConnRec
         /\ [r EXCEPT !.wire = w, !.queue = s].at = r.at
         /\ [r EXCEPT !.wire = w, !.queue = s].hand = r.hand
         /\ [r EXCEPT !.wire = w, !.queue = s].reading = r.reading
  BY DEF StreamConnRec

LEMMA StreamDispatches ==
  ASSUME NEW r \in StreamConnRec, NEW a \in StreamAts, NEW h \in StreamHands, NEW s \in Seq(Messages)
  PROVE  /\ [r EXCEPT !.at = a, !.hand = h, !.queue = s] \in StreamConnRec
         /\ [r EXCEPT !.at = a, !.hand = h, !.queue = s].at = a
         /\ [r EXCEPT !.at = a, !.hand = h, !.queue = s].hand = h
         /\ [r EXCEPT !.at = a, !.hand = h, !.queue = s].reading = r.reading
  BY DEF StreamConnRec

LEMMA StreamStops ==
  ASSUME NEW r \in StreamConnRec, NEW b \in BOOLEAN, NEW w \in Seq(Stream!Frames)
  PROVE  /\ [r EXCEPT !.reading = b, !.wire = w] \in StreamConnRec
         /\ [r EXCEPT !.reading = b, !.wire = w].at = r.at
         /\ [r EXCEPT !.reading = b, !.wire = w].hand = r.hand
         /\ [r EXCEPT !.reading = b, !.wire = w].reading = b
  BY DEF StreamConnRec

LEMMA StreamInitIInv == ASSUME StreamAssumed PROVE Stream!Init => StreamIInv
<1> SUFFICES ASSUME Stream!Init PROVE StreamIInv  OBVIOUS
<1> USE DEF StreamAssumed, Stream!Init
<1>1. Stream!Unused \in StreamConnRec  BY DEF Stream!Unused, StreamConnRec, StreamAts, StreamHands
<1>2. conn \in StreamConnType  BY <1>1 DEF StreamConnType
<1>4. StreamTypes
  <2>1. attempt \in BOOLEAN /\ connected \in BOOLEAN /\ hung \in BOOLEAN /\ cancelled \in BOOLEAN
    OBVIOUS
  <2>2. last \in 0..MaxConns /\ reconnects \in 0..last /\ faults \in 0..StreamFaults  OBVIOUS
  <2> QED  BY <1>2, <2>1, <2>2 DEF StreamTypes
<1>3. StreamInHand /\ StreamRounds /\ Stream!AckedIsTaken /\ StreamReturned
  BY DEF StreamInHand, StreamRounds, Stream!AckedIsTaken, StreamReturned, Stream!Unused,
     Stream!Conns
<1> QED  BY <1>3, <1>4 DEF StreamIInv

LEMMA StreamBecomes ==
  ASSUME conn \in StreamConnType, NEW c \in Stream!Conns, NEW r \in StreamConnRec, conn' = [conn EXCEPT ![c] = r]
  PROVE  conn' \in StreamConnType /\ conn'[c] = r /\ \A d \in Stream!Conns \ {c} : conn'[d] = conn[d]
  BY DEF StreamConnType

LEMMA StreamInHandStays ==
  ASSUME StreamInHand, NEW c \in Stream!Conns, \A d \in Stream!Conns \ {c} : conn'[d] = conn[d],
         conn'[c].at = "sink" <=> conn'[c].hand # <<>>
  PROVE  StreamInHand'
  BY DEF StreamInHand

LEMMA StreamRoundsStay ==
  ASSUME StreamRounds, starter' = starter, last' = last, last \in 0..MaxConns, StreamAssumed,
         NEW c \in Stream!Conns, \A d \in Stream!Conns \ {c} : conn'[d] = conn[d],
         conn'[c].reading => conn[c].reading,
         conn[c].at \in {"none", "done"} => conn'[c].at = conn[c].at
  PROVE  StreamRounds'
<1>1. \A d \in Stream!Conns : conn[d].at \in {"none", "done"} => conn'[d].at = conn[d].at  OBVIOUS
<1>2. \A d \in Stream!Conns : conn'[d].reading => conn[d].reading  OBVIOUS
<1>3. last > 0 => last \in Stream!Conns  BY DEF Stream!Conns, StreamAssumed
<1> QED  BY <1>1, <1>2, <1>3 DEF StreamRounds

LEMMA StreamCloseIs ==
  ASSUME conn \in StreamConnType, NEW c \in Stream!Conns, conn' = Stream!Closed(c)
  PROVE  /\ conn' \in StreamConnType /\ \A d \in Stream!Conns \ {c} : conn'[d] = conn[d]
         /\ conn'[c].at = conn[c].at /\ conn'[c].hand = conn[c].hand
         /\ conn'[c].reading = conn[c].reading
<1> DEFINE r == [conn[c] EXCEPT !.open = FALSE, !.wire = <<>>]
<1>r. r = [conn[c] EXCEPT !.open = FALSE, !.wire = <<>>]  OBVIOUS
<1> HIDE DEF r
<1>1. <<>> \in Seq(Stream!Frames) /\ FALSE \in BOOLEAN /\ conn[c] \in StreamConnRec
  BY DEF StreamConnType
<1>2. r \in StreamConnRec /\ r.at = conn[c].at /\ r.hand = conn[c].hand /\ r.reading = conn[c].reading
  BY <1>r, <1>1 DEF StreamConnRec
<1>3. conn' = [conn EXCEPT ![c] = r]  BY <1>r DEF Stream!Closed
<1> QED  BY <1>1, <1>2, <1>3, StreamBecomes

LEMMA StreamStepIInv == ASSUME StreamAssumed, StreamIInv, [Stream!Next]_(Stream!vars) PROVE StreamIInv'
<1>a. StreamTypes /\ StreamInHand /\ StreamRounds /\ Stream!AckedIsTaken /\ StreamReturned
  BY DEF StreamIInv
<1>b. /\ starter \in {"check", "sleep", "connect", "run", "close", "inflight", "returned"}
      /\ attempt \in BOOLEAN /\ connected \in BOOLEAN /\ hung \in BOOLEAN /\ cancelled \in BOOLEAN
      /\ last \in 0..MaxConns /\ reconnects \in 0..last
      /\ conn \in StreamConnType
      /\ pushed \in [Messages -> {"new", "out", "done"}]
      /\ card \in [Cards -> {"new", "out", "sink", "taken", "lost"}]
      /\ taken \subseteq Messages /\ faults \in 0..StreamFaults
  BY <1>a DEF StreamTypes
<1>c. MaxConns \in Nat /\ StreamFaults \in Nat  BY DEF StreamAssumed
<1>d. last > 0 => last \in Stream!Conns  BY <1>b, <1>c DEF Stream!Conns
<1>0. CASE UNCHANGED Stream!vars
  BY <1>0, <1>a, <1>b DEF Stream!vars, Stream!start, StreamIInv, StreamTypes, StreamInHand,
     StreamRounds, Stream!AckedIsTaken, StreamReturned
<1>1. CASE Stream!Begin
  <2>1. starter' \in {"inflight", "sleep", "connect"} /\ starter \in {"check", "sleep"}
    BY <1>1 DEF Stream!Begin
  <2>2. StreamTypes'  BY <1>1, <2>1, <1>b DEF Stream!Begin, StreamTypes
  <2>3. StreamInHand' /\ Stream!AckedIsTaken' /\ StreamReturned'
    BY <1>1, <1>a, <2>1 DEF Stream!Begin, StreamInHand, Stream!AckedIsTaken, StreamReturned
  <2>4. StreamRounds'  BY <1>1, <1>a, <2>1 DEF Stream!Begin, StreamRounds
  <2> QED  BY <2>2, <2>3, <2>4 DEF StreamIInv
<1>2. CASE Stream!Connect
  <2>1. CASE ~cancelled /\ last < MaxConns /\ last' = last + 1
    <3> DEFINE r == [Stream!Unused EXCEPT !.open = TRUE, !.reading = TRUE, !.at = "idle"]
    <3>r. r = [Stream!Unused EXCEPT !.open = TRUE, !.reading = TRUE, !.at = "idle"]  OBVIOUS
    <3> HIDE DEF r
    <3>1. Stream!Unused \in StreamConnRec /\ Stream!Unused.hand = <<>> /\ "idle" \in StreamAts /\ TRUE \in BOOLEAN
      BY DEF Stream!Unused, StreamConnRec, StreamAts, StreamHands
    <3>2. r \in StreamConnRec /\ r.at = "idle" /\ r.hand = <<>>  BY <3>r, <3>1, StreamOpens, Zenon
    <3>3. last + 1 \in Stream!Conns /\ last + 1 \in 0..MaxConns
      BY <1>b, <1>c, <2>1 DEF Stream!Conns
    <3>4. conn' = [conn EXCEPT ![last + 1] = r] /\ starter = "connect" /\ starter' = "run"
          /\ attempt' = FALSE /\ connected' = TRUE
          /\ reconnects' \in {reconnects, reconnects + 1}
      BY <3>r, <1>2, <1>b, <2>1 DEF Stream!Connect
    <3>5. conn' \in StreamConnType /\ conn'[last + 1] = r
          /\ \A d \in Stream!Conns \ {last + 1} : conn'[d] = conn[d]
      BY <3>r, <1>b, <3>2, <3>3, <3>4, StreamBecomes
    <3>6. reconnects' \in 0..last'  BY <1>b, <2>1, <3>4
    <3>7. StreamTypes'
      BY <1>2, <1>b, <1>c, <2>1, <3>3, <3>4, <3>5, <3>6 DEF Stream!Connect, StreamTypes
    <3>8. StreamInHand'  BY <1>a, <3>2, <3>3, <3>5, StreamInHandStays
    <3>9. StreamRounds'
      <4>1. \A d \in Stream!Conns : d > last' => conn'[d].at = "none"
        BY <1>a, <1>b, <2>1, <3>5 DEF StreamRounds, Stream!Conns
      <4>2. \A d \in Stream!Conns : d < last' => conn'[d].at = "done"
        BY <1>a, <1>b, <2>1, <3>4, <3>5 DEF StreamRounds, Stream!Conns
      <4>3. \A d \in Stream!Conns : conn'[d].reading => d = last'
        BY <1>a, <1>b, <2>1, <3>4, <3>5 DEF StreamRounds, Stream!Conns
      <4> QED  BY <1>b, <2>1, <3>4, <4>1, <4>2, <4>3 DEF StreamRounds
    <3>10. Stream!AckedIsTaken' /\ StreamReturned'
      BY <1>2, <1>a, <3>4 DEF Stream!Connect, Stream!AckedIsTaken, StreamReturned
    <3> QED  BY <3>7, <3>8, <3>9, <3>10 DEF StreamIInv
  <2>2. CASE UNCHANGED <<last, conn, reconnects, connected>>
    <3>1. starter = "connect" /\ starter' \in {"inflight", "check"}
          /\ faults' \in 0..StreamFaults
      BY <1>2, <1>b, <1>c, <2>2 DEF Stream!Connect, Stream!Fault
    <3>2. attempt' \in BOOLEAN  BY <1>2, <1>b DEF Stream!Connect
    <3>3. StreamTypes'  BY <1>2, <1>b, <2>2, <3>1, <3>2 DEF Stream!Connect, StreamTypes
    <3>4. StreamInHand' /\ Stream!AckedIsTaken' /\ StreamReturned'
      BY <1>2, <1>a, <2>2, <3>1 DEF Stream!Connect, StreamInHand, Stream!AckedIsTaken,
         StreamReturned
    <3>5. StreamRounds'  BY <1>a, <2>2, <3>1 DEF StreamRounds
    <3> QED  BY <3>3, <3>4, <3>5 DEF StreamIInv
  <2> QED  BY <1>2, <2>1, <2>2 DEF Stream!Connect
<1>3. CASE Stream!RunReturns
  <2>1. starter = "run" /\ starter' = "close" /\ last' = last /\ last \in Stream!Conns
        /\ ~conn[last].reading
    BY <1>3, <1>a, <1>d DEF Stream!RunReturns, StreamRounds
  <2>2. /\ conn' \in StreamConnType /\ \A d \in Stream!Conns \ {last} : conn'[d] = conn[d]
        /\ conn'[last].at = conn[last].at /\ conn'[last].hand = conn[last].hand
        /\ conn'[last].reading = conn[last].reading
    BY <1>3, <1>b, <2>1, StreamCloseIs DEF Stream!RunReturns
  <2>3. StreamTypes'  BY <1>3, <1>b, <2>1, <2>2 DEF Stream!RunReturns, StreamTypes
  <2>4. StreamInHand'  BY <1>a, <2>1, <2>2, StreamInHandStays DEF StreamInHand
  <2>5. StreamRounds'
    <3>1. \A d \in Stream!Conns : conn'[d].at = conn[d].at /\ conn'[d].reading = conn[d].reading
      BY <2>2
    <3>2. \A d \in Stream!Conns : ~conn[d].reading  BY <1>a, <2>1 DEF StreamRounds
    <3> QED  BY <1>a, <2>1, <3>1, <3>2 DEF StreamRounds
  <2>6. Stream!AckedIsTaken' /\ StreamReturned'
    BY <1>3, <1>a, <2>1 DEF Stream!RunReturns, Stream!AckedIsTaken, StreamReturned
  <2> QED  BY <2>3, <2>4, <2>5, <2>6 DEF StreamIInv
<1>4. CASE Stream!Close
  <2>1. starter = "close" /\ conn[last].at = "done" /\ starter' \in {"inflight", "check"}
        /\ attempt' = TRUE /\ UNCHANGED <<conn, last>>
    BY <1>4 DEF Stream!Close
  <2>2. StreamTypes'  BY <1>4, <1>b, <2>1 DEF Stream!Close, StreamTypes
  <2>3. StreamRounds'  BY <1>a, <2>1 DEF StreamRounds
  <2>4. StreamInHand' /\ Stream!AckedIsTaken' /\ StreamReturned'
    BY <1>4, <1>a, <2>1 DEF Stream!Close, StreamInHand, Stream!AckedIsTaken, StreamReturned
  <2> QED  BY <2>2, <2>3, <2>4 DEF StreamIInv
<1>5. CASE Stream!Return
  <2>1. starter = "inflight" /\ starter' = "returned" /\ UNCHANGED <<conn, last, card>>
        /\ \A k \in Cards : card[k] # "sink"
    BY <1>5 DEF Stream!Return
  <2>2. StreamTypes'  BY <1>5, <1>b, <2>1 DEF Stream!Return, StreamTypes
  <2>3. StreamRounds'  BY <1>a, <2>1 DEF StreamRounds
  <2>4. StreamInHand' /\ Stream!AckedIsTaken' /\ StreamReturned'
    BY <1>5, <1>a, <2>1 DEF Stream!Return, StreamInHand, Stream!AckedIsTaken, StreamReturned
  <2> QED  BY <2>2, <2>3, <2>4 DEF StreamIInv
\* A step of a connection that Start knows nothing of.
<1>6. ASSUME NEW c \in Stream!Conns, NEW r \in StreamConnRec, UNCHANGED <<Stream!start, last, hung>>,
             cancelled' \in BOOLEAN, conn' = [conn EXCEPT ![c] = r],
             r.reading => conn[c].reading,
             conn[c].at \in {"none", "done"} => r.at = conn[c].at,
             r.at = "sink" <=> r.hand # <<>>,
             pushed' \in [Messages -> {"new", "out", "done"}],
             card' \in [Cards -> {"new", "out", "sink", "taken", "lost"}],
             taken' \subseteq Messages, faults' \in 0..StreamFaults,
             Stream!AckedIsTaken', StreamReturned'
      PROVE  StreamIInv'
  <2>1. conn' \in StreamConnType /\ conn'[c] = r /\ \A d \in Stream!Conns \ {c} : conn'[d] = conn[d]
    BY <1>6, <1>b, StreamBecomes
  <2>2. StreamTypes'  BY <1>6, <1>b, <2>1 DEF StreamTypes, Stream!start
  <2>3. StreamInHand'  BY <1>6, <1>a, <2>1, StreamInHandStays
  <2>4. StreamRounds'  BY <1>6, <1>a, <1>b, <2>1, StreamRoundsStay DEF Stream!start
  <2> QED  BY <1>6, <2>2, <2>3, <2>4 DEF StreamIInv
<1>7. CASE Stream!CloseOnCancel
  <2>1. last \in Stream!Conns  BY <1>7, <1>d DEF Stream!CloseOnCancel
  <2> DEFINE r == [conn[last] EXCEPT !.open = FALSE, !.wire = <<>>]
  <2>r. r = [conn[last] EXCEPT !.open = FALSE, !.wire = <<>>]  OBVIOUS
  <2> HIDE DEF r
  <2>2. <<>> \in Seq(Stream!Frames) /\ FALSE \in BOOLEAN /\ conn[last] \in StreamConnRec
    BY <2>1, <1>b DEF StreamConnType
  <2>3. r \in StreamConnRec /\ r.at = conn[last].at /\ r.hand = conn[last].hand
        /\ r.reading = conn[last].reading
    BY <2>r, <2>2, StreamShuts, Zenon
  <2>4. conn' = [conn EXCEPT ![last] = r]  BY <2>r, <1>7 DEF Stream!CloseOnCancel, Stream!Closed
  <2>5. r.at = "sink" <=> r.hand # <<>>  BY <2>1, <2>3, <1>a DEF StreamInHand
  <2>6. Stream!AckedIsTaken' /\ StreamReturned'
    BY <1>7, <1>a DEF Stream!CloseOnCancel, Stream!start, Stream!AckedIsTaken, StreamReturned
  <2> QED  BY <1>6, <1>7, <1>b, <2>1, <2>3, <2>4, <2>5, <2>6 DEF Stream!CloseOnCancel
<1>8. ASSUME NEW c \in Stream!Conns, Stream!Read(c) PROVE StreamIInv'
  <2>1. /\ conn[c] \in StreamConnRec /\ conn[c].wire # <<>> /\ conn[c].wire \in Seq(Stream!Frames)
        /\ conn[c].queue \in Seq(Messages) /\ conn[c].reading
    BY <1>8, <1>b DEF Stream!Read, StreamConnType, StreamConnRec
  <2>2. Head(conn[c].wire) \in Stream!Frames /\ Tail(conn[c].wire) \in Seq(Stream!Frames)  BY <2>1
  <2>3. starter = "run"  BY <1>a, <2>1 DEF StreamRounds
  <2>4. (conn[c].at = "sink") <=> (conn[c].hand # <<>>)  BY <1>a DEF StreamInHand
  <2> DEFINE f == Head(conn[c].wire)
  <2>5. CASE f.kind = "message"
    <3> DEFINE w == Tail(conn[c].wire)
               s == Append(conn[c].queue, f.id)
               r == [conn[c] EXCEPT !.wire = w, !.queue = s]
    <3>1. f.id \in Messages  BY <2>2, <2>5 DEF Stream!Frames
    <3>2. w \in Seq(Stream!Frames) /\ s \in Seq(Messages)  BY <2>1, <2>2, <3>1
    <3>r. conn' = [conn EXCEPT ![c] = r] /\ card' = card
      BY <1>8, <1>b, <2>5 DEF Stream!Read, Stream!Route, StreamConnType, StreamConnRec
    <3>4. r = [conn[c] EXCEPT !.wire = w, !.queue = s] /\ conn[c] \in StreamConnRec  BY <2>1
    <3> HIDE DEF r, w, s
    <3> DEFINE k == conn[c]
    <3>k. r = [k EXCEPT !.wire = w, !.queue = s] /\ k \in StreamConnRec  BY <3>4
    <3> HIDE DEF k
    <3>6. r \in StreamConnRec /\ r.at = k.at /\ r.hand = k.hand /\ r.reading = k.reading
      BY <3>k, <3>2, StreamReads
    <3>3. r \in StreamConnRec /\ r.at = conn[c].at /\ r.hand = conn[c].hand
          /\ r.reading = conn[c].reading
      BY <3>6 DEF k
    <3>5. Stream!AckedIsTaken' /\ StreamReturned'
      BY <1>8, <1>a, <3>r DEF Stream!Read, Stream!start, Stream!AckedIsTaken, StreamReturned
    <3> QED  BY <1>6, <1>8, <1>b, <2>4, <3>3, <3>r, <3>5 DEF Stream!Read
  <2>6. CASE f.kind = "disconnect"
    <3> DEFINE r == [conn[c] EXCEPT !.reading = FALSE, !.wire = Tail(conn[c].wire)]
    <3>r. r = [conn[c] EXCEPT !.reading = FALSE, !.wire = Tail(conn[c].wire)]  OBVIOUS
    <3> HIDE DEF r
    <3>1. FALSE \in BOOLEAN  OBVIOUS
    <3>2. r \in StreamConnRec /\ r.at = conn[c].at /\ r.hand = conn[c].hand /\ r.reading = FALSE
      BY <3>r, <2>1, <2>2, <3>1 DEF StreamConnRec
    <3>3. conn' = [conn EXCEPT ![c] = r] /\ card' = card
      BY <3>r, <1>8, <1>b, <2>6 DEF Stream!Read, Stream!Route, StreamConnType, StreamConnRec
    <3>4. Stream!AckedIsTaken' /\ StreamReturned'
      BY <1>8, <1>a, <3>3 DEF Stream!Read, Stream!start, Stream!AckedIsTaken, StreamReturned
    <3> QED  BY <1>6, <1>8, <1>b, <2>4, <3>2, <3>3, <3>4 DEF Stream!Read
  <2>7. CASE f.kind \notin {"message", "disconnect"}
    <3> DEFINE r == [conn[c] EXCEPT !.wire = Tail(conn[c].wire), !.queue = conn[c].queue]
    <3>r. r = [conn[c] EXCEPT !.wire = Tail(conn[c].wire), !.queue = conn[c].queue]  OBVIOUS
    <3> HIDE DEF r
    <3>1. r \in StreamConnRec /\ r.at = conn[c].at /\ r.hand = conn[c].hand
          /\ r.reading = conn[c].reading
      BY <3>r, <2>1, <2>2 DEF StreamConnRec
    <3>2. r = [conn[c] EXCEPT !.wire = Tail(conn[c].wire)]  BY <3>r, <2>1 DEF StreamConnRec
    <3>3. conn' = [conn EXCEPT ![c] = r]
      BY <3>r, <1>8, <1>b, <2>7, <3>2 DEF Stream!Read, Stream!Route, StreamConnType, StreamConnRec
    <3>4. card' \in [Cards -> {"new", "out", "sink", "taken", "lost"}]
      <4>1. f.kind = "card" => f.id \in Cards  BY <2>2 DEF Stream!Frames
      <4> QED  BY <1>8, <1>b, <2>7, <4>1 DEF Stream!Read, Stream!Route
    <3>5. Stream!AckedIsTaken' /\ StreamReturned'
      BY <1>8, <1>a, <2>3 DEF Stream!Read, Stream!start, Stream!AckedIsTaken, StreamReturned
    <3> QED  BY <1>6, <1>8, <1>b, <2>4, <3>1, <3>3, <3>4, <3>5 DEF Stream!Read
  <2> QED  BY <2>5, <2>6, <2>7
<1>9. ASSUME NEW c \in Stream!Conns, Stream!ReadFails(c) PROVE StreamIInv'
  <2> DEFINE r == [conn[c] EXCEPT !.reading = FALSE, !.wire = conn[c].wire]
  <2>r. r = [conn[c] EXCEPT !.reading = FALSE, !.wire = conn[c].wire]  OBVIOUS
  <2> HIDE DEF r
  <2>1. FALSE \in BOOLEAN /\ conn[c] \in StreamConnRec /\ conn[c].wire \in Seq(Stream!Frames)
    BY <1>b DEF StreamConnType, StreamConnRec
  <2>2. r \in StreamConnRec /\ r.at = conn[c].at /\ r.hand = conn[c].hand /\ r.reading = FALSE
    BY <2>r, <2>1, StreamStops, Zenon
  <2>3. r = [conn[c] EXCEPT !.reading = FALSE]  BY <2>r, <2>1 DEF StreamConnRec
  <2>4. conn' = [conn EXCEPT ![c] = r]  BY <2>r, <1>9, <2>3 DEF Stream!ReadFails
  <2>5. (r.at = "sink") <=> (r.hand # <<>>)  BY <2>2, <1>a DEF StreamInHand
  <2>6. Stream!AckedIsTaken' /\ StreamReturned'
    BY <1>9, <1>a DEF Stream!ReadFails, Stream!start, Stream!AckedIsTaken, StreamReturned
  <2> QED  BY <1>6, <1>9, <1>b, <2>2, <2>4, <2>5, <2>6 DEF Stream!ReadFails
<1>10. ASSUME NEW c \in Stream!Conns, Stream!Dispatch(c) PROVE StreamIInv'
  <2>1. /\ conn[c] \in StreamConnRec /\ conn[c].queue \in Seq(Messages) /\ conn[c].hand \in StreamHands
        /\ conn[c].at = "idle" /\ conn[c].hand = <<>>
    BY <1>10, <1>a, <1>b DEF Stream!Dispatch, StreamConnType, StreamConnRec, StreamInHand
  <2>2. Stream!AckedIsTaken' /\ StreamReturned'
    BY <1>10, <1>a DEF Stream!Dispatch, Stream!start, Stream!AckedIsTaken, StreamReturned
  <2>3. CASE conn[c].open /\ conn[c].queue # <<>>
    <3> DEFINE h == <<Head(conn[c].queue)>>
               r == [conn[c] EXCEPT !.at = "sink", !.hand = h, !.queue = Tail(conn[c].queue)]
    <3>r. r = [conn[c] EXCEPT !.at = "sink", !.hand = h, !.queue = Tail(conn[c].queue)]  OBVIOUS
    <3> HIDE DEF r
    <3>1. h \in StreamHands /\ h # <<>> /\ Tail(conn[c].queue) \in Seq(Messages) /\ "sink" \in StreamAts
      BY <2>1, <2>3 DEF StreamHands, StreamAts
    <3> HIDE DEF h
    <3>2. r \in StreamConnRec /\ r.at = "sink" /\ r.hand = h /\ r.reading = conn[c].reading
      BY <3>r, <2>1, <3>1 DEF StreamConnRec
    <3>3. conn' = [conn EXCEPT ![c] = r]  BY <3>r, <1>10, <2>3 DEF Stream!Dispatch, h
    <3> QED  BY <1>6, <1>10, <1>b, <2>1, <2>2, <3>1, <3>2, <3>3 DEF Stream!Dispatch
  <2>4. CASE ~conn[c].open
    <3> DEFINE r == [conn[c] EXCEPT !.at = "done", !.hand = conn[c].hand, !.queue = conn[c].queue]
    <3>r. r = [conn[c] EXCEPT !.at = "done", !.hand = conn[c].hand, !.queue = conn[c].queue]  OBVIOUS
    <3> HIDE DEF r
    <3>1. r \in StreamConnRec /\ r.at = "done" /\ r.hand = conn[c].hand /\ r.reading = conn[c].reading
      BY <3>r, <2>1 DEF StreamConnRec, StreamAts
    <3>2. r = [conn[c] EXCEPT !.at = "done"]  BY <3>r, <2>1 DEF StreamConnRec
    <3>3. conn' = [conn EXCEPT ![c] = r]  BY <3>r, <1>10, <2>4, <3>2 DEF Stream!Dispatch
    <3> QED  BY <1>6, <1>10, <1>b, <2>1, <2>2, <3>1, <3>3 DEF Stream!Dispatch
  <2> QED  BY <1>10, <2>3, <2>4 DEF Stream!Dispatch
<1>11. ASSUME NEW c \in Stream!Conns, Stream!Handled(c) PROVE StreamIInv'
  <2>1. /\ conn[c] \in StreamConnRec /\ conn[c].queue \in Seq(Messages) /\ conn[c].hand \in StreamHands
        /\ conn[c].at = "sink" /\ conn[c].hand # <<>> /\ "idle" \in StreamAts /\ <<>> \in StreamHands
    BY <1>11, <1>a, <1>b DEF Stream!Handled, StreamConnType, StreamConnRec, StreamInHand,
       StreamHands, StreamAts
  <2> DEFINE m == conn[c].hand[1]
             r == [conn[c] EXCEPT !.at = "idle", !.hand = <<>>, !.queue = conn[c].queue]
  <2>r. r = [conn[c] EXCEPT !.at = "idle", !.hand = <<>>, !.queue = conn[c].queue]  OBVIOUS
  <2> HIDE DEF r
  <2>2. m \in Messages  BY <2>1 DEF StreamHands
  <2>3. r \in StreamConnRec /\ r.at = "idle" /\ r.hand = <<>> /\ r.reading = conn[c].reading
    BY <2>r, <2>1 DEF StreamConnRec
  <2>4. r = [conn[c] EXCEPT !.at = "idle", !.hand = <<>>]  BY <2>r, <2>1 DEF StreamConnRec
  <2>5. conn' = [conn EXCEPT ![c] = r]  BY <2>r, <1>11, <2>4 DEF Stream!Handled
  <2>6. taken' \subseteq Messages /\ faults' \in 0..StreamFaults
    BY <1>11, <1>b, <1>c, <2>2 DEF Stream!Handled, Stream!Fault
  <2>7. pushed' \in [Messages -> {"new", "out", "done"}]
    BY <1>11, <1>b, <2>2 DEF Stream!Handled, Stream!Ack
  <2>8. Stream!AckedIsTaken'
    BY <1>11, <1>a, <1>b, <2>2 DEF Stream!Handled, Stream!Ack, Stream!AckedIsTaken
  <2>9. StreamReturned'  BY <1>11, <1>a DEF Stream!Handled, Stream!start, StreamReturned
  <2>10. UNCHANGED <<Stream!start, last, hung, cancelled, card>>  BY <1>11 DEF Stream!Handled
  <2>11. cancelled' \in BOOLEAN /\ card' \in [Cards -> {"new", "out", "sink", "taken", "lost"}]
    BY <1>b, <2>10
  <2>12. /\ r.reading => conn[c].reading
         /\ conn[c].at \in {"none", "done"} => r.at = conn[c].at
         /\ r.at = "sink" <=> r.hand # <<>>
    BY <2>1, <2>3
  <2> QED  BY <1>6, <2>3, <2>5, <2>6, <2>7, <2>8, <2>9, <2>10, <2>11, <2>12
<1>12. ASSUME NEW k \in Cards, Stream!CardHandled(k) PROVE StreamIInv'
  <2>1. /\ card' \in [Cards -> {"new", "out", "sink", "taken", "lost"}]
        /\ faults' \in 0..StreamFaults
        /\ \A j \in Cards : card'[j] = "sink" => card[j] = "sink"
    BY <1>12, <1>b, <1>c DEF Stream!CardHandled, Stream!Fault
  <2>2. StreamTypes'  BY <1>12, <1>b, <2>1 DEF Stream!CardHandled, StreamTypes, Stream!start
  <2>3. StreamInHand' /\ StreamRounds' /\ Stream!AckedIsTaken' /\ StreamReturned'
    BY <1>12, <1>a, <2>1 DEF Stream!CardHandled, Stream!start, StreamInHand, StreamRounds,
       Stream!AckedIsTaken, StreamReturned
  <2> QED  BY <2>2, <2>3 DEF StreamIInv
\* A frame on the wire of the last connection.
<1>13. ASSUME NEW fr \in Stream!Frames, last > 0, Stream!Send(last, fr), UNCHANGED <<Stream!start, last, hung>>,
              cancelled' \in BOOLEAN,
              pushed' \in [Messages -> {"new", "out", "done"}],
              card' \in [Cards -> {"new", "out", "sink", "taken", "lost"}],
              taken' \subseteq Messages, faults' \in 0..StreamFaults,
              Stream!AckedIsTaken', StreamReturned'
       PROVE  StreamIInv'
  <2>1. last \in Stream!Conns  BY <1>13, <1>d
  <2>2. conn[last] \in StreamConnRec /\ conn[last].wire \in Seq(Stream!Frames)
        /\ conn[last].queue \in Seq(Messages)
    BY <1>b, <2>1 DEF StreamConnType, StreamConnRec
  <2> DEFINE w == Append(conn[last].wire, fr)
             r == [conn[last] EXCEPT !.wire = w, !.queue = conn[last].queue]
  <2>r. r = [conn[last] EXCEPT !.wire = w, !.queue = conn[last].queue]  OBVIOUS
  <2> HIDE DEF r
  <2>3. w \in Seq(Stream!Frames)  BY <1>13, <2>2
  <2> HIDE DEF w
  <2>4. r \in StreamConnRec /\ r.at = conn[last].at /\ r.hand = conn[last].hand
        /\ r.reading = conn[last].reading
    BY <2>r, <2>2, <2>3 DEF StreamConnRec
  <2>5. r = [conn[last] EXCEPT !.wire = w]  BY <2>r, <2>2 DEF StreamConnRec
  <2>6. conn' = [conn EXCEPT ![last] = r]  BY <2>r, <1>13, <2>5 DEF Stream!Send, w
  <2>7. (r.at = "sink") <=> (r.hand # <<>>)  BY <2>1, <2>4, <1>a DEF StreamInHand
  <2> QED  BY <1>6, <1>13, <2>1, <2>4, <2>6, <2>7
<1>14. ASSUME NEW m \in Messages, Stream!Push(m) PROVE StreamIInv'
  <2>1. [kind |-> "message", id |-> m] \in Stream!Frames  BY DEF Stream!Frames
  <2>2. pushed' \in [Messages -> {"new", "out", "done"}] /\ Stream!AckedIsTaken' /\ StreamReturned'
    BY <1>14, <1>a, <1>b DEF Stream!Push, Stream!start, Stream!AckedIsTaken, StreamReturned
  <2> QED  BY <1>13, <1>14, <1>b, <2>1, <2>2 DEF Stream!Push
<1>15. ASSUME NEW k \in Cards, Stream!PushCard(k) PROVE StreamIInv'
  <2>1. [kind |-> "card", id |-> k] \in Stream!Frames  BY DEF Stream!Frames
  <2>2. card' \in [Cards -> {"new", "out", "sink", "taken", "lost"}]
        /\ Stream!AckedIsTaken' /\ StreamReturned'
    BY <1>15, <1>a, <1>b DEF Stream!PushCard, Stream!start, Stream!AckedIsTaken, StreamReturned
  <2> QED  BY <1>13, <1>15, <1>b, <2>1, <2>2 DEF Stream!PushCard
<1>16. CASE Stream!PushSystem
  <2>1. [kind |-> "system", id |-> 0] \in Stream!Frames /\ [kind |-> "disconnect", id |-> 0] \in Stream!Frames
    BY DEF Stream!Frames
  <2>2. faults' \in 0..StreamFaults /\ Stream!AckedIsTaken' /\ StreamReturned'
    BY <1>16, <1>a, <1>b, <1>c DEF Stream!PushSystem, Stream!Fault, Stream!start,
       Stream!AckedIsTaken, StreamReturned
  <2> QED  BY <1>13, <1>16, <1>b, <2>1, <2>2 DEF Stream!PushSystem
<1>17. ASSUME NEW c \in Stream!Conns, Stream!Break(c) PROVE StreamIInv'
  <2>1. conn[c] \in StreamConnRec /\ conn[c].wire \in Seq(Stream!Frames) /\ <<>> \in Seq(Stream!Frames)
        /\ TRUE \in BOOLEAN
    BY <1>b DEF StreamConnType, StreamConnRec
  <2>2. PICK w \in Seq(Stream!Frames) : conn' = [conn EXCEPT ![c].cut = TRUE, ![c].wire = w]
    <3>1. [conn EXCEPT ![c].cut = TRUE, ![c].wire = conn[c].wire] = [conn EXCEPT ![c].cut = TRUE]
      BY <1>b DEF StreamConnType, StreamConnRec
    <3> QED  BY <1>17, <2>1, <3>1 DEF Stream!Break
  <2> DEFINE r == [conn[c] EXCEPT !.cut = TRUE, !.wire = w]
  <2>r. r = [conn[c] EXCEPT !.cut = TRUE, !.wire = w]  OBVIOUS
  <2> HIDE DEF r
  <2>3. r \in StreamConnRec /\ r.at = conn[c].at /\ r.hand = conn[c].hand
        /\ r.reading = conn[c].reading
    BY <2>r, <2>1, StreamBreaks, Zenon
  <2>4. conn' = [conn EXCEPT ![c] = r]  BY <2>r, <2>2
  <2>5. (r.at = "sink") <=> (r.hand # <<>>)  BY <2>3, <1>a DEF StreamInHand
  <2>6. faults' \in 0..StreamFaults  BY <1>17, <1>b, <1>c DEF Stream!Break, Stream!Fault
  <2>7. pushed' \in [Messages -> {"new", "out", "done"}] /\ Stream!AckedIsTaken' /\ StreamReturned'
    BY <1>17, <1>a, <1>b DEF Stream!Break, Stream!Forget, Stream!start, Stream!AckedIsTaken,
       StreamReturned
  <2> QED  BY <1>6, <1>17, <1>b, <2>3, <2>4, <2>5, <2>6, <2>7 DEF Stream!Break
<1>18. CASE Stream!Hang \/ Stream!Cancel
  <2>1. StreamTypes'  BY <1>18, <1>b DEF Stream!Hang, Stream!Cancel, StreamTypes, Stream!start
  <2>2. StreamInHand' /\ StreamRounds' /\ Stream!AckedIsTaken' /\ StreamReturned'
    BY <1>18, <1>a DEF Stream!Hang, Stream!Cancel, Stream!start, StreamInHand, StreamRounds,
       Stream!AckedIsTaken, StreamReturned
  <2> QED  BY <2>1, <2>2 DEF StreamIInv
<1> QED
  BY <1>0, <1>1, <1>2, <1>3, <1>4, <1>5, <1>7, <1>8, <1>9, <1>10, <1>11, <1>12, <1>14, <1>15,
     <1>16, <1>17, <1>18
     DEF Stream!Next, Stream!Start

LEMMA StreamIInvTypes == StreamIInv => Stream!TypeOK
<1> SUFFICES ASSUME StreamIInv PROVE Stream!TypeOK  OBVIOUS
<1>1. StreamTypes /\ StreamInHand  BY DEF StreamIInv
<1>2. ASSUME NEW c \in Stream!Conns
      PROVE  /\ {conn[c].open, conn[c].cut, conn[c].reading} \subseteq BOOLEAN
             /\ Stream!Range(conn[c].wire) \subseteq Stream!Frames
             /\ Stream!Range(conn[c].queue) \cup Stream!Range(conn[c].hand) \subseteq Messages
             /\ conn[c].at \in {"none", "idle", "sink", "done"}
             /\ conn[c].at = "sink" <=> conn[c].hand # <<>>
  <2>1. /\ conn[c].open \in BOOLEAN /\ conn[c].cut \in BOOLEAN /\ conn[c].reading \in BOOLEAN
        /\ conn[c].wire \in Seq(Stream!Frames) /\ conn[c].queue \in Seq(Messages)
        /\ conn[c].at \in StreamAts /\ conn[c].hand \in StreamHands
    BY <1>1 DEF StreamTypes, StreamConnType, StreamConnRec
  <2>2. \A S : \A q \in Seq(S) : Stream!Range(q) \subseteq S  BY DEF Stream!Range
  <2>3. conn[c].hand \in Seq(Messages)
    <3>1. CASE conn[c].hand = <<>>  BY <3>1
    <3>2. ASSUME NEW m \in Messages, conn[c].hand = <<m>> PROVE conn[c].hand \in Seq(Messages)
      BY <3>2
    <3> QED  BY <2>1, <3>1, <3>2 DEF StreamHands
  <2>4. (conn[c].at = "sink") <=> (conn[c].hand # <<>>)  BY <1>1 DEF StreamInHand
  <2> QED  BY <2>1, <2>2, <2>3, <2>4 DEF StreamAts
<1> QED  BY <1>1, <1>2 DEF StreamTypes, Stream!TypeOK

LEMMA StreamIInvInbound == ASSUME StreamAssumed PROVE StreamIInv => Stream!AckedIsTaken /\ Stream!OneAtATime /\ Stream!QuietAfterReturn
<1> SUFFICES ASSUME StreamIInv PROVE Stream!AckedIsTaken /\ Stream!OneAtATime /\ Stream!QuietAfterReturn  OBVIOUS
<1>1. \A c \in Stream!Conns : conn[c].at = "sink" => c = last /\ starter \in {"run", "close"}
  <2>1. last \in 0..MaxConns  BY DEF StreamIInv, StreamTypes
  <2> SUFFICES ASSUME NEW c \in Stream!Conns, conn[c].at = "sink"
               PROVE  c = last /\ starter \in {"run", "close"}
    OBVIOUS
  <2>2. c = last  BY <2>1 DEF StreamIInv, StreamRounds, Stream!Conns, StreamAssumed
  <2> QED  BY <2>2 DEF StreamIInv, StreamRounds, Stream!Conns, StreamAssumed
<1>2. Stream!OneAtATime  BY <1>1 DEF Stream!OneAtATime
<1>3. Stream!QuietAfterReturn  BY <1>1 DEF Stream!QuietAfterReturn, StreamIInv, StreamReturned
<1> QED  BY <1>2, <1>3 DEF StreamIInv
-----------------------------------------------------------------------------
\* The component that runs keeps its inductive invariant.
LEMMA Assumes ==
  /\ CardAssumed /\ EdgeAssumed /\ ApiAssumed /\ ReplyAssumed /\ StreamAssumed /\ LinkAssumed
  BY AdaptersAssumption
     DEF CardAssumed, EdgeAssumed, ApiAssumed, ReplyAssumed, StreamAssumed, LinkAssumed

Parts ==
  /\ In("wecom link") => LinkIInv
  /\ In("wecom reply") => ReplyIInv
  /\ In("dingtalk") => StreamIInv
  /\ In("feishu") => ApiIInv
  /\ In("card") => CardIInv
  /\ In("edge link") => EdgeIInv

LEMMA InitParts == Init => Parts
<1> SUFFICES ASSUME Init PROVE Parts  OBVIOUS
<1>1. CASE In("wecom link") /\ Link!Init  BY <1>1, Assumes, LinkInitIInv DEF Parts, In
<1>2. CASE In("wecom reply") /\ Reply!Init  BY <1>2, Assumes, ReplyInitIInv DEF Parts, In
<1>3. CASE In("dingtalk") /\ Stream!Init  BY <1>3, Assumes, StreamInitIInv DEF Parts, In
<1>4. CASE In("feishu") /\ Api!Init  BY <1>4, Assumes, ApiInitIInv DEF Parts, In
<1>5. CASE In("card") /\ Card!Init  BY <1>5, Assumes, CardInitIInv DEF Parts, In
<1>6. CASE In("edge link") /\ Edge!Init  BY <1>6, Assumes, EdgeInitIInv DEF Parts, In
<1> QED  BY <1>1, <1>2, <1>3, <1>4, <1>5, <1>6 DEF Init

\* A step is one of the component that runs, or leaves it alone.
LEMMA StepIs ==
  ASSUME [Next]_all
  PROVE  /\ UNCHANGED scenario
         /\ In("wecom link") => [Link!Next]_(Link!vars)
         /\ In("wecom reply") => [Reply!Next]_(Reply!vars)
         /\ In("dingtalk") => [Stream!Next]_(Stream!vars)
         /\ In("feishu") => [Api!Next]_(Api!vars)
         /\ In("card") => [Card!Next]_(Card!vars)
         /\ In("edge link") => [Edge!Next]_(Edge!vars)
<1>1. CASE UNCHANGED all
  BY <1>1 DEF all, Link!vars, Link!link, Reply!vars, Stream!vars, Stream!start, Api!vars,
              Card!vars, Card!card, Card!count, Edge!vars
<1>2. CASE Next  BY <1>2 DEF Next, In
<1> QED  BY <1>1, <1>2

LEMMA StepParts == ASSUME Parts, [Next]_all PROVE Parts'
<1>0. UNCHANGED scenario  BY StepIs
<1>1. CASE In("wecom link")
  BY <1>0, <1>1, StepIs, Assumes, LinkStepIInv DEF Parts, In
<1>2. CASE In("wecom reply")
  BY <1>0, <1>2, StepIs, Assumes, ReplyStepIInv DEF Parts, In
<1>3. CASE In("dingtalk")
  BY <1>0, <1>3, StepIs, Assumes, StreamStepIInv DEF Parts, In
<1>4. CASE In("feishu")
  BY <1>0, <1>4, StepIs, Assumes, ApiStepIInv DEF Parts, In
<1>5. CASE In("card")
  BY <1>0, <1>5, StepIs, Assumes, CardStepIInv DEF Parts, In
<1>6. CASE In("edge link")
  BY <1>0, <1>6, StepIs, Assumes, EdgeStepIInv DEF Parts, In
<1> QED  BY <1>0, <1>1, <1>2, <1>3, <1>4, <1>5, <1>6 DEF Parts, In

LEMMA PartsAlways == Spec => []Parts
<1>1. Init => Parts  BY InitParts
<1>2. Parts /\ [Next]_all => Parts'  BY StepParts
<1> QED  BY <1>1, <1>2, PTL DEF Spec

\* The adapter that runs keeps the types of its state, its queue within its bound.
THEOREM TypeCorrect == Spec => []TypeOK
<1>1. Parts => TypeOK
  <2> SUFFICES ASSUME Parts PROVE TypeOK  OBVIOUS
  <2>1. In("wecom link") => Link!TypeOK  BY Assumes, LinkIInvTypes DEF Parts
  <2>2. In("wecom reply") => Reply!TypeOK  BY ReplyIInvTypes DEF Parts
  <2>3. In("dingtalk") => Stream!TypeOK  BY StreamIInvTypes DEF Parts
  <2>4. In("feishu") => Api!TypeOK  BY ApiIInvTypes DEF Parts
  <2>5. In("card") => Card!TypeOK  BY CardIInvTypes DEF Parts
  <2>6. In("edge link") => Edge!TypeOK  BY DEF Parts, EdgeIInv
  <2> QED  BY <2>1, <2>2, <2>3, <2>4, <2>5, <2>6 DEF TypeOK
<1> QED  BY <1>1, PartsAlways, PTL

\* For any number of reconnections, events, faults and any length of the queue:
\* core gets the events of WeCom in the order they were sent, each once, and the
\* messages of DingTalk one at a time, of which none is acknowledged before core
\* has taken it, and after Start has returned core is not called (dispatchLoop,
\* RunOnce, handleBotMessage).
THEOREM EventsComeInOrder == Spec => []InboundInOrder
<1>1. Parts => InboundInOrder
  <2> SUFFICES ASSUME Parts PROVE InboundInOrder  OBVIOUS
  <2>1. In("wecom link") => Link!InOrder  BY DEF Parts, LinkIInv, LinkOrdered
  <2>2. In("dingtalk")
          => Stream!AckedIsTaken /\ Stream!OneAtATime /\ Stream!QuietAfterReturn
    BY Assumes, StreamIInvInbound DEF Parts
  <2> QED  BY <2>1, <2>2 DEF InboundInOrder
<1> QED  BY <1>1, PartsAlways, PTL

\* For any numbers of calls, retries, revocations, changes and faults: the frames
\* of a WeCom stream end with those that finish it, a request that Feishu gets
\* again is the same message, a single revoked token fails no call, and the card
\* of a run that has ended shows its end, with all of its changes told of
\* (UpdateCard, sweepStreams, request, card.rs close).
THEOREM WrittenOnceAndWhole == Spec => []OutboundOnce
<1>1. Parts => OutboundOnce
  <2> SUFFICES ASSUME Parts PROVE OutboundOnce  OBVIOUS
  <2>1. In("wecom reply") => Reply!FinishIsLast  BY ReplyIInvFinish DEF Parts
  <2>2. In("feishu") => Api!SentOnce /\ Api!RevocationHeals
    BY ApiIInvSentOnce, ApiIInvHeals DEF Parts
  <2>3. In("card") => Card!ClosingIsShown /\ Card!AllTold
    BY CardIInvClosing, CardIInvTold DEF Parts
  <2> QED  BY <2>1, <2>2, <2>3 DEF OutboundOnce
<1> QED  BY <1>1, PartsAlways, PTL

\* What is over stays over: a host on standby dials no more, nothing is written on
\* a stream held for finished, and a card never goes back (enterStandby, UpdateCard,
\* flush).
THEOREM OverStaysOver == Spec => OverIsOver
<1> DEFINE Kept == /\ In("wecom link") /\ standby => dials' = dials
                   /\ In("wecom reply") /\ stream.finished => log' = log
                   /\ In("card") => Card!NeverBack
<1>1. Parts /\ [Next]_all => [Kept]_all
  <2> SUFFICES ASSUME Parts, Next PROVE Kept  OBVIOUS
  <2>1. In("wecom link") /\ standby => dials' = dials
    BY LinkStandbyStays DEF Parts, Next, In
  <2>2. In("wecom reply") /\ stream.finished => log' = log
    BY ReplyStepQuiet DEF Parts, Next, In
  <2>3. In("card") => Card!NeverBack  BY CardStepNeverBack DEF Parts, Next, In
  <2> QED  BY <2>1, <2>2, <2>3
<1> QED  BY <1>1, PartsAlways, PTL DEF Spec, OverIsOver
=============================================================================
