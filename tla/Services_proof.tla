--------------------------- MODULE Services_proof ---------------------------
(***************************************************************************)
(* Proofs about Services, for any values of the constants that              *)
(* ServicesAssumption allows.  Each component keeps an inductive invariant  *)
(* of its own, and that of the one that runs holds of the whole.            *)
(***************************************************************************)
EXTENDS Services, WellFoundedInduction, SequenceTheorems, TLAPS
-----------------------------------------------------------------------------
\* The talk with the model (AgentConversation).
\* The calls of the answers, their ids, and what can be thought and said.
TalkAllCalls == UNION {UNION {{b[i] : i \in DOMAIN b} : b \in Batches[t]} : t \in Tasks}
TalkIds == {c.id : c \in TalkAllCalls}
TalkThoughts == Tasks \X Nat
TalkContents == Seq({"text", "long", "short", "skipped"} \cup TalkThoughts)

TalkAssumed ==
  /\ MaxSteps \in [Tasks -> Nat] /\ MaxSteers \in Nat /\ Cap \in Nat \ {0} /\ Retries \in Nat
  /\ MaxRepeats \in Nat \ {0} /\ "final" \in Local
  /\ \A t \in Tasks : Batches[t] \subseteq Seq(TalkAllCalls)

TalkSent == [fields : TalkThoughts \cup {Off}, content : TalkContents]
TalkMsg == [role : {"assistant", "tool", "user", "system"}, calls : Seq(TalkAllCalls),
    content : TalkContents,
            reply : TalkAllCalls \cup {Off}, sent : TalkSent \cup {Off}]
TalkWork == [pc : {"top", "ask", "act", "over"}, steps : Nat, steers : 0..MaxSteers,
    retries : 0..Retries,
             batch : Seq(TalkAllCalls), sig : {Talk!Signature(c) : c \in TalkAllCalls} \cup {Off},
             repeats : Nat, invalid : Nat, sandbox : Nat,
             end : {"none", "step_limit", "model_failed", "delivered", "repeats", "invalid_args",
                 "sandbox"}]
TalkEntry == [fingerprint : {Talk!Fingerprint(c) : c \in TalkAllCalls},
    fields : TalkThoughts \cup {Off}, prefix : TalkContents]

TalkPlaces(w, max) ==
  /\ w.pc = "act" <=> w.batch # <<>>
  /\ w.steps <= max /\ (w.pc = "ask" => w.steps < max)
  /\ w.end = "none" <=> w.pc # "over"

TalkTypes ==
  /\ endpoint \in Endpoints /\ msgs \in [Tasks -> Seq(TalkMsg)] /\ work \in [Tasks -> TalkWork]
  /\ \A t \in Tasks : TalkPlaces(work[t], MaxSteps[t])

\* The map and the queue of the cache hold the same ids, each once, at most Cap.
TalkShape(c) ==
  /\ c.map \in [DOMAIN c.map -> TalkEntry] /\ c.order \in Seq(DOMAIN c.map)
  /\ \A i, j \in DOMAIN c.order : c.order[i] = c.order[j] => i = j
  /\ \A id \in DOMAIN c.map : \E i \in DOMAIN c.order : c.order[i] = id
  /\ Len(c.order) <= Cap
TalkCache == [map |-> echo, order |-> order]

-----------------------------------------------------------------------------
\* A set of numbers that is not empty has a least one.
LEMMA TalkLeast == ASSUME NEW T \in SUBSET Nat, T # {} PROVE \E n \in T : \A m \in T : n <= m
<1> DEFINE R == OpToRel(<, Nat)
<1>1. \A x, y \in Nat : (<<y, x>> \in R) <=> y < x
  BY DEF OpToRel
<1>2. IsWellFoundedOn(R, Nat)  BY NatLessThanWellFounded, Zenon
<1> HIDE DEF R
<1>3. \E x \in T : \A y \in T : ~ (<<y, x>> \in R)
  BY <1>2, WFMin, Zenon
<1>4. PICK n \in T : \A y \in T : ~ (<<y, n>> \in R)  BY <1>3
<1>5. \A m \in T : n <= m
  <2> TAKE m \in T
  <2>1. m \in Nat /\ n \in Nat  OBVIOUS
  <2>2. ~ (m < n)  BY <2>1, <1>1, <1>4
  <2> QED  BY <2>1, <2>2
<1> QED  BY <1>5

\* A queue without an id that stood in it once.
LEMMA TalkWithoutIs ==
  ASSUME NEW S, NEW q \in Seq(S), NEW id, \E i \in DOMAIN q : q[i] = id,
         \A i, j \in DOMAIN q : q[i] = q[j] => i = j
  PROVE  LET r == Talk!Without(q, id) IN
         /\ r \in Seq(S) /\ Len(r) = Len(q) - 1
         /\ \A i, j \in DOMAIN r : r[i] = r[j] => i = j
         /\ \A i \in DOMAIN r : r[i] # id /\ \E j \in DOMAIN q : q[j] = r[i]
         /\ \A j \in DOMAIN q : q[j] = id \/ \E i \in DOMAIN r : r[i] = q[j]
<1> DEFINE at == CHOOSE i \in DOMAIN q : q[i] = id
           r == [i \in 1 .. Len(q) - 1 |-> q[IF i < at THEN i ELSE i + 1]]
<1>1. at \in DOMAIN q /\ q[at] = id  OBVIOUS
<1> HIDE DEF at
<1>2. Len(q) \in Nat /\ DOMAIN q = 1..Len(q) /\ at \in 1..Len(q)  BY <1>1
<1>3. r \in Seq(S) /\ Len(r) = Len(q) - 1 /\ DOMAIN r = 1..Len(q) - 1  BY <1>2
<1>4. \A i, j \in DOMAIN r : r[i] = r[j] => i = j  BY <1>2, <1>3
<1>5. \A i \in DOMAIN r : r[i] # id /\ \E j \in DOMAIN q : q[j] = r[i]
  <2> TAKE i \in DOMAIN r
  <2>1. i \in 1..Len(q) - 1 /\ i + 1 \in DOMAIN q /\ i \in DOMAIN q  BY <1>2, <1>3
  <2> QED  BY <1>1, <1>2, <1>3
<1>6. \A j \in DOMAIN q : q[j] = id \/ \E i \in DOMAIN r : r[i] = q[j]
  <2> SUFFICES ASSUME NEW j \in DOMAIN q, q[j] # id PROVE \E i \in DOMAIN r : r[i] = q[j]  OBVIOUS
  <2>1. CASE j < at  BY <2>1, <1>2, <1>3
  <2>2. CASE j > at
    <3>1. j - 1 \in DOMAIN r /\ r[j - 1] = q[j]  BY <2>2, <1>2, <1>3
    <3> QED  BY <3>1
  <2> QED  BY <2>1, <2>2, <1>1, <1>2
<1> QED  BY <1>3, <1>4, <1>5, <1>6 DEF Talk!Without, at

\* What remembering one call does to the cache.
LEMMA TalkPutIs ==
  ASSUME TalkAssumed, NEW c, TalkShape(c), NEW id, NEW what \in TalkEntry
  PROVE  LET p == Talk!Put(c, id, what) IN
         /\ TalkShape(p) /\ id \in DOMAIN p.map /\ p.map[id] = what
         /\ \A i \in DOMAIN p.map : i # id => i \in DOMAIN c.map /\ p.map[i] = c.map[i]
<1> DEFINE M == DOMAIN c.map
           q == IF id \in M THEN Talk!Without(c.order, id) ELSE c.order
           row == Append(q, id)
           over == IF Len(row) > Cap THEN {Head(row)} ELSE {}
           map == [i \in (M \cup {id}) \ over |-> IF i = id THEN what ELSE c.map[i]]
           left == IF over = {} THEN row ELSE Tail(row)
<1>1. /\ q \in Seq(M) /\ Len(q) <= Cap
      /\ \A i, j \in DOMAIN q : q[i] = q[j] => i = j
      /\ \A i \in DOMAIN q : q[i] # id
      /\ \A j \in M : j = id \/ \E i \in DOMAIN q : q[i] = j
  <2>1. CASE id \in M
    <3>1. c.order \in Seq(M) /\ \E i \in DOMAIN c.order : c.order[i] = id  BY <2>1 DEF TalkShape
    <3>2. \A i, j \in DOMAIN c.order : c.order[i] = c.order[j] => i = j  BY DEF TalkShape
    <3>3. Len(c.order) \in Nat /\ Len(c.order) <= Cap /\ Cap \in Nat
      BY <3>1 DEF TalkShape, TalkAssumed
    <3>4. \A j \in M : \E i \in DOMAIN c.order : c.order[i] = j  BY DEF TalkShape
    <3> HIDE DEF M
    <3>5. q = Talk!Without(c.order, id)  BY <2>1
    <3> HIDE DEF q
    <3>6. /\ q \in Seq(M) /\ Len(q) = Len(c.order) - 1
          /\ \A i, j \in DOMAIN q : q[i] = q[j] => i = j
          /\ \A i \in DOMAIN q : q[i] # id
          /\ \A j \in DOMAIN c.order : c.order[j] = id \/ \E i \in DOMAIN q : q[i] = c.order[j]
      BY <3>1, <3>2, <3>5, TalkWithoutIs
    <3> QED  BY <3>3, <3>4, <3>6
  <2>2. CASE id \notin M
    BY <2>2 DEF TalkShape
  <2> QED  BY <2>1, <2>2
<1>2. Cap \in Nat \ {0}  BY DEF TalkAssumed
<1> HIDE DEF q, M
<1>3. /\ row \in Seq(M \cup {id}) /\ Len(row) = Len(q) + 1 /\ DOMAIN row = 1..Len(q) + 1
      /\ Len(q) \in Nat /\ DOMAIN q = 1..Len(q)
      /\ row[Len(q) + 1] = id /\ \A i \in DOMAIN q : row[i] = q[i]
  BY <1>1
<1> HIDE DEF row
<1>4. \A i, j \in DOMAIN row : row[i] = row[j] => i = j
  BY <1>1, <1>3
<1>5. \A j \in M \cup {id} : \E i \in DOMAIN row : row[i] = j
  BY <1>1, <1>3
<1>6. id \notin over
  <2> SUFFICES ASSUME Len(row) > Cap PROVE Head(row) # id  OBVIOUS
  <2>1. Head(row) = row[1] /\ Len(q) + 1 # 1 /\ 1 \in DOMAIN row /\ Len(q) + 1 \in DOMAIN row
    BY <1>2, <1>3
  <2> QED  BY <2>1, <1>3, <1>4
<1>7. DOMAIN map = (M \cup {id}) \ over /\ id \in DOMAIN map /\ map[id] = what
  BY <1>6
<1>8. \A i \in DOMAIN map : i # id => i \in M /\ map[i] = c.map[i]
  OBVIOUS
<1>9. map \in [DOMAIN map -> TalkEntry]
  BY <1>8, <1>7 DEF TalkShape, M
<1>10. CASE Len(row) > Cap
  <2>0. Len(row) = Cap + 1 /\ Cap \in Nat /\ Cap >= 1  BY <1>10, <1>1, <1>2, <1>3
  <2>1. over = {row[1]} /\ left = Tail(row)
    <3>1. Head(row) = row[1]  BY <1>3
    <3>2. over = {Head(row)}  BY <1>10
    <3> QED  BY <3>1, <3>2
  <2>2. left \in Seq(M \cup {id}) /\ Len(left) = Cap /\ DOMAIN left = 1..Cap
        /\ \A i \in 1..Cap : left[i] = row[i + 1]
    <3> HIDE DEF left
    <3>1. row # <<>>  BY <2>0
    <3> QED  BY <3>1, <2>0, <2>1, <1>3, HeadTailProperties
  <2> HIDE DEF left
  <2>3. \A i \in 1..Cap : i + 1 \in DOMAIN row /\ 1 \in DOMAIN row /\ i + 1 # 1
    BY <2>0, <1>3
  <2>4. left \in Seq(DOMAIN map)
    <3>1. \A i \in 1..Cap : left[i] \in M \cup {id}  BY <2>2
    <3>2. \A i \in 1..Cap : left[i] # row[1]  BY <2>2, <2>3, <1>4
    <3>3. \A i \in 1..Cap : left[i] \in DOMAIN map  BY <3>1, <3>2, <2>1, <1>7
    <3> QED  BY <3>3, <2>2
  <2>5. \A i, j \in DOMAIN left : left[i] = left[j] => i = j
    <3> SUFFICES ASSUME NEW i \in 1..Cap, NEW j \in 1..Cap, row[i + 1] = row[j + 1] PROVE i = j
      BY <2>2
    <3>1. i + 1 = j + 1  BY <2>3, <1>4
    <3> QED  BY <3>1, <2>0
  <2>6. \A j \in DOMAIN map : \E i \in DOMAIN left : left[i] = j
    <3> TAKE j \in DOMAIN map
    <3>1. PICK i \in DOMAIN row : row[i] = j  BY <1>5, <1>7
    <3>2. i # 1 /\ i \in 1..Cap + 1  BY <3>1, <1>7, <2>0, <2>1, <1>3
    <3>3. i - 1 \in 1..Cap /\ left[i - 1] = j  BY <3>2, <3>1, <2>0, <2>2
    <3> QED  BY <3>3, <2>2
  <2> HIDE DEF map, left
  <2>7. TalkShape([map |-> map, order |-> left])
    BY <2>2, <2>4, <2>5, <2>6, <1>9, <1>2 DEF TalkShape
  <2>8. Talk!Put(c, id, what) = [map |-> map, order |-> left]
    BY DEF Talk!Put, map, left, M, q, row
  <2> QED  BY <2>7, <2>8, <1>7, <1>8 DEF M
<1>11. CASE ~ (Len(row) > Cap)
  <2>1. over = {} /\ left = row /\ Len(row) <= Cap  BY <1>11, <1>2, <1>3
  <2>2. DOMAIN map = M \cup {id}  BY <2>1, <1>7
  <2> HIDE DEF map, left
  <2>3. TalkShape([map |-> map, order |-> left])
    BY <2>1, <2>2, <1>3, <1>4, <1>5, <1>9 DEF TalkShape
  <2>4. Talk!Put(c, id, what) = [map |-> map, order |-> left]
    BY DEF Talk!Put, map, left, M, q, row
  <2> QED  BY <2>3, <2>4, <1>7, <1>8 DEF M
<1> QED  BY <1>10, <1>11
\* The cache after the first n calls of an answer.
TalkWhat(call, fields, prefix) == [fingerprint |-> Talk!Fingerprint(call), fields |-> fields,
    prefix |-> prefix]
TalkFolds(cache, calls, fields, prefix, m) ==
  cache = [n \in 0 .. m |-> IF n = 0 THEN TalkCache ELSE Talk!Put(cache[n - 1], calls[n].id,
      TalkWhat(calls[n], fields, prefix))]

LEMMA TalkCacheFolds ==
  ASSUME NEW calls, NEW fields, NEW prefix, NEW m \in Nat
  PROVE  \E cache : TalkFolds(cache, calls, fields, prefix, m)
<1> DEFINE Bad == {n \in Nat : ~ \E cache : TalkFolds(cache, calls, fields, prefix, n)}
<1> SUFFICES Bad = {}  OBVIOUS
<1> SUFFICES ASSUME Bad # {} PROVE FALSE  OBVIOUS
<1>1. PICK n \in Bad : \A k \in Bad : n <= k
  <2>1. Bad \in SUBSET Nat  OBVIOUS
  <2> HIDE DEF Bad
  <2> QED  BY <2>1, TalkLeast
<1>2. n \in Nat /\ ~ \E cache : TalkFolds(cache, calls, fields, prefix, n)  OBVIOUS
<1>3. n # 0
  <2> SUFFICES ASSUME n = 0 PROVE FALSE  OBVIOUS
  <2> DEFINE one == [k \in 0 .. 0 |-> TalkCache]
  <2>1. TalkFolds(one, calls, fields, prefix, 0)
    <3>1. one = [k \in 0 .. 0 |-> IF k = 0 THEN TalkCache ELSE Talk!Put(one[k - 1], calls[k].id,
        TalkWhat(calls[k], fields, prefix))]
      OBVIOUS
    <3> HIDE DEF one
    <3> QED  BY <3>1 DEF TalkFolds
  <2> QED  BY <2>1, <1>2
<1>4. n - 1 \in Nat /\ n - 1 \notin Bad  BY <1>1, <1>2, <1>3
<1>5. PICK cache : TalkFolds(cache, calls, fields, prefix, n - 1)  BY <1>4
<1> DEFINE more == [k \in 0 .. n |-> IF k = n THEN Talk!Put(cache[n - 1], calls[n].id,
    TalkWhat(calls[n], fields, prefix))
                                     ELSE cache[k]]
           step(k) == IF k = 0 THEN TalkCache ELSE Talk!Put(more[k - 1], calls[k].id,
               TalkWhat(calls[k], fields, prefix))
<1>6. \A k \in 0 .. n : more[k] = step(k)
  <2> TAKE k \in 0 .. n
  <2>1. CASE k = n
    <3>1. n - 1 \in 0 .. n /\ n - 1 # n  BY <1>2, <1>3
    <3>2. more[n - 1] = cache[n - 1]  BY <3>1
    <3> QED  BY <2>1, <3>2, <1>2, <1>3
  <2>2. CASE k # n /\ k # 0
    <3>1. k \in 0 .. n - 1 /\ k - 1 \in 0 .. n /\ k - 1 # n /\ k \in 0 .. n  BY <2>2, <1>2
    <3>2. cache[k] = Talk!Put(cache[k - 1], calls[k].id, TalkWhat(calls[k], fields, prefix))
      BY <3>1, <2>2, <1>5 DEF TalkFolds
    <3>3. more[k - 1] = cache[k - 1] /\ more[k] = cache[k]  BY <3>1, <2>2
    <3> QED  BY <2>2, <3>2, <3>3
  <2>3. CASE k # n /\ k = 0
    <3>1. k \in 0 .. n - 1 /\ k \in 0 .. n  BY <2>3, <1>2
    <3>2. cache[k] = TalkCache  BY <3>1, <2>3, <1>5 DEF TalkFolds
    <3> QED  BY <2>3, <3>1, <3>2
  <2> QED  BY <2>1, <2>2, <2>3
<1>7. more = [k \in 0 .. n |-> more[k]]  OBVIOUS
<1> HIDE DEF more
<1>8. more = [k \in 0 .. n |-> step(k)]  BY <1>6, <1>7
<1>9. TalkFolds(more, calls, fields, prefix, n)  BY <1>8 DEF TalkFolds
<1> QED  BY <1>9, <1>2

\* What remembering an answer does to the cache.
LEMMA TalkRememberIs ==
  ASSUME TalkAssumed, TalkShape(TalkCache), NEW calls \in Seq(TalkAllCalls),
      NEW fields \in TalkThoughts \cup {Off},
         NEW prefix \in TalkContents
  PROVE  LET c == Talk!Remember(calls, fields, prefix) IN
         /\ TalkShape(c)
         /\ (fields = Off /\ prefix = <<>>) \/ calls = <<>> => c = TalkCache
         /\ \A id \in DOMAIN c.map :
              \/ id \in DOMAIN echo /\ c.map[id] = echo[id]
              \/ \E k \in DOMAIN calls : calls[k].id = id /\ c.map[id] =
                 TalkWhat(calls[k], fields, prefix)
         /\ fields # Off \/ prefix # <<>> =>
              /\ calls # <<>> => LET last == calls[Len(calls)] IN
                   last.id \in DOMAIN c.map /\ c.map[last.id] = TalkWhat(last, fields, prefix)
              /\ \A k \in DOMAIN calls : calls[k].id \in DOMAIN c.map =>
                   c.map[calls[k].id].fields = fields /\ c.map[calls[k].id].prefix = prefix
<1> DEFINE L == Len(calls)
           cache == CHOOSE cache : TalkFolds(cache, calls, fields, prefix, L)
           From(c, n) == \A id \in DOMAIN c.map :
              \/ id \in DOMAIN echo /\ c.map[id] = echo[id] /\ \A k \in 1..n : calls[k].id # id
              \/ \E k \in 1..n : calls[k].id = id /\ c.map[id] =
                 TalkWhat(calls[k], fields, prefix)
           Good(c, n) == TalkShape(c) /\ From(c, n)
                         /\ (n # 0 => calls[n].id \in DOMAIN c.map /\ c.map[calls[n].id] =
                            TalkWhat(calls[n], fields, prefix))
           Bad == {n \in 0..L : ~ Good(cache[n], n)}
<1>1. L \in Nat /\ DOMAIN calls = 1..L  OBVIOUS
<1>2. TalkFolds(cache, calls, fields, prefix, L)  BY <1>1, TalkCacheFolds
<1> HIDE DEF cache
<1>3. cache[0] = TalkCache /\ \A n \in 1..L : cache[n] =
    Talk!Put(cache[n - 1], calls[n].id, TalkWhat(calls[n], fields, prefix))
  <2>1. 0 \in 0..L /\ \A n \in 1..L : n \in 0..L /\ n # 0  BY <1>1
  <2> QED  BY <2>1, <1>2 DEF TalkFolds
<1>4. Good(cache[0], 0)  BY <1>3 DEF TalkCache
<1>5. \A k \in 1..L : TalkWhat(calls[k], fields, prefix) \in TalkEntry
  <2>1. \A k \in 1..L : calls[k] \in TalkAllCalls  BY <1>1
  <2> QED  BY <2>1 DEF TalkWhat, TalkEntry
<1>6. ASSUME NEW n \in 1..L, Good(cache[n - 1], n - 1) PROVE Good(cache[n], n)
  <2> DEFINE b == cache[n - 1]
             c == cache[n]
             w == TalkWhat(calls[n], fields, prefix)
  <2>1. c = Talk!Put(b, calls[n].id, w)  BY <1>3
  <2>2. TalkShape(b) /\ From(b, n - 1)  BY <1>6
  <2>3. w \in TalkEntry  BY <1>5
  <2> HIDE DEF b, c, w
  <2>4. /\ TalkShape(c) /\ calls[n].id \in DOMAIN c.map /\ c.map[calls[n].id] = w
        /\ \A i \in DOMAIN c.map : i # calls[n].id => i \in DOMAIN b.map /\ c.map[i] = b.map[i]
    BY <2>1, <2>2, <2>3, TalkPutIs
  <2>5. From(c, n)
    <3> SUFFICES ASSUME NEW id \in DOMAIN c.map
                 PROVE  \/ id \in DOMAIN echo /\ c.map[id] = echo[id]
                           /\ \A k \in 1..n : calls[k].id # id
                        \/ \E k \in 1..n : calls[k].id = id /\ c.map[id] =
                           TalkWhat(calls[k], fields, prefix)
      OBVIOUS
    <3>1. n \in 1..n /\ \A k \in 1..n : k = n \/ k \in 1..n - 1  BY <1>1
    <3>2. CASE id = calls[n].id  BY <3>1, <3>2, <2>4 DEF w
    <3>3. CASE id # calls[n].id
      <4>1. id \in DOMAIN b.map /\ c.map[id] = b.map[id]  BY <3>3, <2>4
      <4>2. CASE id \in DOMAIN echo /\ b.map[id] = echo[id]
          /\ \A k \in 1..n - 1 : calls[k].id # id
        BY <4>1, <4>2, <3>1, <3>3
      <4>3. CASE \E k \in 1..n - 1 : calls[k].id = id /\ b.map[id] =
          TalkWhat(calls[k], fields, prefix)
        <5>1. \A k \in 1..n - 1 : k \in 1..n  BY <1>1
        <5> QED  BY <4>1, <4>3, <5>1
      <4> QED  BY <4>1, <4>2, <4>3, <2>2
    <3> QED  BY <3>2, <3>3
  <2> QED  BY <2>4, <2>5 DEF c, w
<1> HIDE DEF Good
<1>7. Bad = {}
  <2> SUFFICES ASSUME Bad # {} PROVE FALSE  OBVIOUS
  <2>1. PICK n \in Bad : \A k \in Bad : n <= k
    <3>1. Bad \in SUBSET Nat  BY <1>1
    <3> HIDE DEF Bad
    <3> QED  BY <3>1, TalkLeast
  <2>2. n \in 1..L  BY <1>1, <1>4
  <2>3. n - 1 \in 0..L /\ n - 1 \notin Bad  BY <2>1, <2>2, <1>1
  <2>4. Good(cache[n - 1], n - 1)  BY <2>3
  <2>5. Good(cache[n], n)  BY <2>2, <2>4, <1>6
  <2> QED  BY <2>5, <2>1
<1>8. Good(cache[L], L)  BY <1>1, <1>7
<1>9. Talk!Remember(calls, fields, prefix) = IF fields = Off /\ prefix = <<>> THEN cache[0]
    ELSE cache[L]
  BY DEF Talk!Remember, TalkFolds, cache, TalkCache, TalkWhat
<1>10. TalkShape(TalkCache) /\ (calls = <<>> => L = 0)  OBVIOUS
<1> DEFINE c == Talk!Remember(calls, fields, prefix)
<1>11. CASE fields = Off /\ prefix = <<>>
  BY <1>11, <1>9, <1>3 DEF TalkCache
<1>12. CASE ~ (fields = Off /\ prefix = <<>>)
  <2>1. c = cache[L]  BY <1>12, <1>9
  <2> HIDE DEF c
  <2>2. Good(c, L)  BY <1>8, <2>1
  <2>3. TalkShape(c) /\ From(c, L)  BY <2>2 DEF Good
  <2>4. calls = <<>> => c = TalkCache  BY <2>1, <1>10, <1>3
  <2>5. calls # <<>> => L # 0  BY <1>1
  <2>6. calls # <<>> => calls[L].id \in DOMAIN c.map /\ c.map[calls[L].id] =
      TalkWhat(calls[L], fields, prefix)
    BY <2>2, <2>5 DEF Good
  <2>7. \A k \in DOMAIN calls : calls[k].id \in DOMAIN c.map =>
           c.map[calls[k].id].fields = fields /\ c.map[calls[k].id].prefix = prefix
    <3> SUFFICES ASSUME NEW k \in 1..L, calls[k].id \in DOMAIN c.map
                 PROVE  c.map[calls[k].id].fields = fields /\ c.map[calls[k].id].prefix = prefix
      BY <1>1
    <3>1. PICK l \in 1..L : c.map[calls[k].id] = TalkWhat(calls[l], fields, prefix)  BY <2>3
    <3> QED  BY <3>1 DEF TalkWhat
  <2> QED  BY <2>3, <2>4, <2>6, <2>7, <1>1, <1>12 DEF c
<1> QED  BY <1>11, <1>12

-----------------------------------------------------------------------------
\* What was said stays, but for the results that give way.
TalkKeeps(ms, mt) ==
  /\ Len(ms) <= Len(mt)
  /\ \A i \in DOMAIN ms :
       /\ mt[i].role = ms[i].role /\ mt[i].calls = ms[i].calls
       /\ mt[i].reply = ms[i].reply /\ mt[i].sent = ms[i].sent
       /\ mt[i].content = <<"skipped">> <=> ms[i].content = <<"skipped">>

\* Every call that the loop is done with has its reply.
TalkSaid(ms) == {i \in DOMAIN ms : ms[i].role = "assistant"}
TalkServed(ms, w) ==
  w.pc # "over" =>
    /\ \A i \in TalkSaid(ms) : w.pc # "act" \/ (\E j \in TalkSaid(ms) : i < j)
       => Talk!Replied(ms, i, Len(ms[i].calls))
    /\ w.pc = "act" => \E i \in TalkSaid(ms) : \E n \in 0 .. Len(ms[i].calls) :
         /\ \A j \in TalkSaid(ms) : j <= i
         /\ Talk!Replied(ms, i, n) /\ Len(w.batch) = Len(ms[i].calls) - n
         /\ \A k \in 1 .. Len(w.batch) : w.batch[k] = ms[i].calls[n + k]

\* The loop counts the calls in a row that end with the last one.
TalkCounts(ms, w) ==
  w.pc # "over" => \A p \in Talk!Ran(ms) : (\A j \in Talk!Ran(ms) : j <= p) =>
    /\ w.sig = Talk!Signature(ms[p].reply)
    /\ \A n \in Nat \ {0} : \A at \in Talk!InARow(ms, n) : at[n] = p => n <= w.repeats
TalkNoSpin(ms) == \A at \in Talk!InARow(ms, MaxRepeats) :
    \A k \in DOMAIN at : ms[at[k]].reply.name \in Local

TalkMine(ms, w, max) == TalkPlaces(w, max) /\ TalkServed(ms, w) /\ TalkCounts(ms, w)
    /\ TalkNoSpin(ms)

\* What is remembered was thought in an answer that is among the messages.
TalkThought(id) == \E u \in Tasks : \E j \in DOMAIN msgs[u] :
  /\ msgs[u][j].role = "assistant" /\ msgs[u][j].sent.fields = echo[id].fields
  /\ \E k \in DOMAIN msgs[u][j].calls :
       /\ msgs[u][j].calls[k].id = id
       /\ Talk!Fingerprint(msgs[u][j].calls[k]) = echo[id].fingerprint
TalkFromAnswers == \A id \in DOMAIN echo : TalkThought(id)

TalkNewestIsThere ==
  newest # Off =>
    /\ newest.role = "assistant" /\ newest.calls \in Seq(TalkAllCalls) /\ newest.calls # <<>>
    /\ newest.content = <<>> \/ ~Talk!IsThought(Head(newest.content))
    /\ LET last == newest.calls[Len(newest.calls)] IN
         last.id \in DOMAIN echo /\ echo[last.id].fingerprint = Talk!Fingerprint(last)
    /\ \A k \in DOMAIN newest.calls : newest.calls[k].id \in DOMAIN echo =>
         LET e == echo[newest.calls[k].id] IN
           e.fields = newest.sent.fields /\ e.prefix \o newest.content = newest.sent.content

TalkIInv ==
  /\ TalkTypes /\ TalkShape(TalkCache) /\ TalkFromAnswers /\ TalkNewestIsThere
  /\ \A t \in Tasks : TalkMine(msgs[t], work[t], MaxSteps[t])

-----------------------------------------------------------------------------
\* Messages that come behind the others.
LEMMA TalkBehind ==
  ASSUME NEW ms \in Seq(TalkMsg), NEW ext \in Seq(TalkMsg)
  PROVE  /\ ms \o ext \in Seq(TalkMsg) /\ TalkKeeps(ms, ms \o ext)
            /\ Len(ms \o ext) = Len(ms) + Len(ext)
         /\ \A k \in 1 .. Len(ext) : (ms \o ext)[Len(ms) + k] = ext[k]
         /\ \A j \in DOMAIN (ms \o ext) : j <= Len(ms) \/ j - Len(ms) \in 1 .. Len(ext)
BY DEF TalkKeeps

\* Replies that are there stay those of their message.
LEMMA TalkStillReplied ==
  ASSUME NEW ms \in Seq(TalkMsg), NEW mt \in Seq(TalkMsg), TalkKeeps(ms, mt),
      NEW i \in TalkSaid(ms), NEW n \in Nat,
         n <= Len(ms[i].calls), Talk!Replied(ms, i, n),
         \A j \in DOMAIN mt : j > Len(ms) /\ mt[j].role = "tool"
             => \E k \in i + 1 .. j : mt[k].role = "assistant"
  PROVE  Talk!Replied(mt, i, n)
<1>1. i \in 1..Len(ms) /\ Len(ms) \in Nat /\ Len(mt) \in Nat /\ DOMAIN mt = 1..Len(mt)
    /\ DOMAIN ms = 1..Len(ms)
      /\ Len(ms) <= Len(mt)
  BY DEF TalkSaid, TalkKeeps
<1>2. Talk!RepliesTo(mt, i) = Talk!RepliesTo(ms, i)
  <2>1. ASSUME NEW j \in Talk!RepliesTo(mt, i) PROVE j \in Talk!RepliesTo(ms, i)
    <3>1. j \in DOMAIN mt /\ i < j /\ mt[j].role = "tool"
        /\ \A k \in i + 1 .. j : mt[k].role # "assistant"
      BY DEF Talk!RepliesTo
    <3>2. j \in 1..Len(ms)  BY <3>1, <1>1
    <3>3. \A k \in i + 1 .. j : k \in 1..Len(ms)  BY <3>2, <1>1
    <3> QED  BY <3>1, <3>2, <3>3, <1>1 DEF Talk!RepliesTo, TalkKeeps
  <2>2. ASSUME NEW j \in Talk!RepliesTo(ms, i) PROVE j \in Talk!RepliesTo(mt, i)
    <3>1. j \in 1..Len(ms) /\ i < j /\ ms[j].role = "tool"
        /\ \A k \in i + 1 .. j : ms[k].role # "assistant"
      BY <1>1 DEF Talk!RepliesTo
    <3>3. \A k \in i + 1 .. j : k \in 1..Len(ms)  BY <3>1, <1>1
    <3>4. j \in DOMAIN mt  BY <3>1, <1>1
    <3> QED  BY <3>1, <3>4, <3>3, <1>1 DEF Talk!RepliesTo, TalkKeeps
  <2> QED  BY <2>1, <2>2
<1>3. PICK at \in [1 .. n -> Talk!RepliesTo(ms, i)] :
        /\ Talk!Increasing(at)
        /\ \A j \in Talk!RepliesTo(ms, i) : \E k \in 1 .. n : at[k] = j
        /\ \A k \in 1 .. n : ms[at[k]].reply = ms[i].calls[k]
  BY DEF Talk!Replied
<1>4. \A k \in 1 .. n : at[k] \in DOMAIN ms  BY DEF Talk!RepliesTo
<1>5. mt[i].calls = ms[i].calls /\ \A j \in DOMAIN ms : mt[j].reply = ms[j].reply
  BY <1>1 DEF TalkKeeps
<1>6. \A k \in 1 .. n : mt[at[k]].reply = mt[i].calls[k]  BY <1>3, <1>4, <1>5
<1>7. at \in [1 .. n -> Talk!RepliesTo(mt, i)]
    /\ \A j \in Talk!RepliesTo(mt, i) : \E k \in 1 .. n : at[k] = j
  BY <1>2, <1>3
<1> QED  BY <1>3, <1>6, <1>7 DEF Talk!Replied

\* The next m replies to the last message.
LEMMA TalkRepliedFurther ==
  ASSUME NEW ms \in Seq(TalkMsg), NEW mt \in Seq(TalkMsg), TalkKeeps(ms, mt),
      NEW i \in TalkSaid(ms),
         NEW n \in Nat, NEW m \in Nat, Talk!Replied(ms, i, n),
         \A j \in TalkSaid(mt) : j <= i, Len(ms) + m <= Len(mt),
         \A k \in 1 .. m : mt[Len(ms) + k].role = "tool"
             /\ mt[Len(ms) + k].reply = ms[i].calls[n + k],
         \A j \in DOMAIN mt : j > Len(ms) + m => mt[j].role # "tool"
  PROVE  Talk!Replied(mt, i, n + m)
<1> DEFINE L == Len(ms)
<1>1. i \in 1..L /\ L \in Nat /\ Len(mt) \in Nat /\ DOMAIN mt = 1..Len(mt) /\ DOMAIN ms = 1..L
  BY DEF TalkSaid
<1>2. PICK at \in [1 .. n -> Talk!RepliesTo(ms, i)] :
        /\ Talk!Increasing(at)
        /\ \A j \in Talk!RepliesTo(ms, i) : \E k \in 1 .. n : at[k] = j
        /\ \A k \in 1 .. n : ms[at[k]].reply = ms[i].calls[k]
  BY DEF Talk!Replied
<1> DEFINE to == [k \in 1 .. n + m |-> IF k <= n THEN at[k] ELSE L + (k - n)]
<1>3. \A k \in 1 .. n : at[k] \in 1..L /\ at[k] > i /\ ms[at[k]].role = "tool"
  BY <1>1 DEF Talk!RepliesTo
<1>4. \A j \in 1..Len(mt) : j > i => mt[j].role # "assistant"  BY <1>1 DEF TalkSaid
<1>5. Talk!RepliesTo(mt, i) = {j \in 1..Len(mt) : i < j /\ mt[j].role = "tool"}
  <2>1. \A j \in 1..Len(mt) : \A k \in i + 1 .. j : k \in 1..Len(mt) /\ k > i  BY <1>1
  <2> QED  BY <2>1, <1>1, <1>4 DEF Talk!RepliesTo
<1>6. \A k \in 1 .. n + m : to[k] \in 1..Len(mt) /\ to[k] > i /\ mt[to[k]].role = "tool"
    /\ mt[to[k]].reply = mt[i].calls[k]
  <2> TAKE k \in 1 .. n + m
  <2>1. CASE k <= n
    <3>1. k \in 1 .. n /\ to[k] = at[k]  BY <2>1
    <3>2. mt[at[k]].role = ms[at[k]].role /\ mt[at[k]].reply = ms[at[k]].reply
        /\ mt[i].calls = ms[i].calls
      BY <3>1, <1>1, <1>3 DEF TalkKeeps
    <3> QED  BY <3>1, <3>2, <1>1, <1>2, <1>3
  <2>2. CASE k > n
    <3>1. k - n \in 1 .. m /\ to[k] = L + (k - n) /\ n + (k - n) = k  BY <2>2
    <3>2. mt[i].calls = ms[i].calls  BY <1>1 DEF TalkKeeps
    <3>3. to[k] \in 1..Len(mt) /\ to[k] > i  BY <3>1, <1>1
    <3> HIDE DEF to
    <3> QED  BY <3>1, <3>2, <3>3
  <2> QED  BY <2>1, <2>2
<1>7. to \in [1 .. n + m -> Talk!RepliesTo(mt, i)]
  <2>1. \A k \in 1 .. n + m : to[k] \in Talk!RepliesTo(mt, i)  BY <1>5, <1>6
  <2> QED  BY <2>1
<1>8. Talk!Increasing(to)
  <2> SUFFICES ASSUME NEW k \in 1 .. n + m, NEW l \in 1 .. n + m, k < l PROVE to[k] < to[l]
    BY DEF Talk!Increasing
  <2>1. CASE l <= n
    <3>1. k \in 1..n /\ l \in 1..n /\ to[k] = at[k] /\ to[l] = at[l]  BY <2>1
    <3> QED  BY <3>1, <1>2 DEF Talk!Increasing
  <2>2. CASE l > n /\ k <= n
    <3>1. k \in 1..n /\ to[k] = at[k] /\ to[l] = L + (l - n) /\ l - n \in Nat \ {0}  BY <2>2
    <3> QED  BY <3>1, <1>1, <1>3
  <2>3. CASE l > n /\ k > n
    <3>1. to[k] = L + (k - n) /\ to[l] = L + (l - n)  BY <2>3
    <3> QED  BY <3>1, <1>1
  <2> QED  BY <2>1, <2>2, <2>3
<1>9. \A j \in Talk!RepliesTo(mt, i) : \E k \in 1 .. n + m : to[k] = j
  <2> TAKE j \in Talk!RepliesTo(mt, i)
  <2>1. j \in 1..Len(mt) /\ i < j /\ mt[j].role = "tool"  BY <1>5
  <2>2. CASE j > L
    <3>1. j - L \in 1 .. m /\ n + (j - L) \in 1 .. n + m /\ n + (j - L) > n  BY <2>1, <2>2, <1>1
    <3>2. to[n + (j - L)] = L + ((n + (j - L)) - n)  BY <3>1
    <3>3. L + ((n + (j - L)) - n) = j  BY <1>1, <2>1
    <3> QED  BY <3>1, <3>2, <3>3
  <2>3. CASE j <= L
    <3>1. j \in 1..L /\ ms[j].role = "tool"  BY <2>1, <2>3, <1>1 DEF TalkKeeps
    <3>2. \A k \in i + 1 .. j : k \in 1..L /\ k \in 1..Len(mt) /\ k > i
        /\ ms[k].role # "assistant"
      <4> TAKE k \in i + 1 .. j
      <4>1. k \in 1..L /\ k > i /\ k \in 1..Len(mt)  BY <3>1, <2>1, <1>1
      <4>2. mt[k].role = ms[k].role  BY <4>1, <1>1 DEF TalkKeeps
      <4> QED  BY <4>1, <4>2, <1>4
    <3>3. j \in Talk!RepliesTo(ms, i)  BY <3>1, <3>2, <2>1, <1>1 DEF Talk!RepliesTo
    <3>4. PICK k \in 1 .. n : at[k] = j  BY <3>3, <1>2
    <3>5. k \in 1 .. n + m /\ k <= n /\ to[k] = at[k]  OBVIOUS
    <3> QED  BY <3>4, <3>5
  <2> QED  BY <2>1, <2>2, <2>3, <1>1
<1> HIDE DEF to
<1>10. \A k \in 1 .. n + m : mt[to[k]].reply = mt[i].calls[k]  BY <1>6
<1> QED  BY <1>7, <1>8, <1>9, <1>10 DEF Talk!Replied

\* To a message that just came there is no reply.
LEMMA TalkNoReplyYet ==
  ASSUME NEW ms \in Seq(TalkMsg), NEW i \in DOMAIN ms, \A j \in DOMAIN ms : j > i
      => ms[j].role # "tool"
  PROVE  Talk!Replied(ms, i, 0)
<1>1. Talk!RepliesTo(ms, i) = {}  BY DEF Talk!RepliesTo
<1> DEFINE at == [k \in 1 .. 0 |-> 0]
<1>2. at \in [1 .. 0 -> {}] /\ Talk!Increasing(at)  BY DEF Talk!Increasing
<1> QED  BY <1>1, <1>2 DEF Talk!Replied

-----------------------------------------------------------------------------
\* Nothing was run meanwhile.
LEMMA TalkSameRuns ==
  ASSUME NEW ms \in Seq(TalkMsg), NEW mt \in Seq(TalkMsg), TalkKeeps(ms, mt),
      \A j \in Talk!Ran(mt) : j <= Len(ms)
  PROVE  /\ Talk!Ran(mt) = Talk!Ran(ms) /\ \A n : Talk!InARow(mt, n) = Talk!InARow(ms, n)
         /\ TalkNoSpin(ms) => TalkNoSpin(mt)
         /\ \A w, v : TalkCounts(ms, w) /\ w.pc # "over" /\ v.sig = w.sig /\ v.repeats = w.repeats
            => TalkCounts(mt, v)
<1>1. DOMAIN ms = 1..Len(ms) /\ DOMAIN mt = 1..Len(mt) /\ Len(ms) \in Nat /\ Len(mt) \in Nat
    /\ Len(ms) <= Len(mt)
  BY DEF TalkKeeps
<1>2. Talk!Ran(mt) = Talk!Ran(ms)
  <2>1. ASSUME NEW j \in Talk!Ran(ms) PROVE j \in Talk!Ran(mt)
    BY <1>1 DEF Talk!Ran, TalkKeeps
  <2>2. ASSUME NEW j \in Talk!Ran(mt) PROVE j \in Talk!Ran(ms)
    <3>1. j \in 1..Len(ms)  BY <1>1 DEF Talk!Ran
    <3> QED  BY <3>1, <1>1 DEF Talk!Ran, TalkKeeps
  <2> QED  BY <2>1, <2>2
<1>3. \A j \in Talk!Ran(ms) : mt[j].reply = ms[j].reply  BY DEF Talk!Ran, TalkKeeps
<1>4. ASSUME NEW n PROVE Talk!InARow(mt, n) = Talk!InARow(ms, n)
  <2>1. \A at \in [1 .. n -> Talk!Ran(ms)] : \A k \in 1 .. n : mt[at[k]].reply = ms[at[k]].reply
    BY <1>3
  <2> QED  BY <2>1, <1>2 DEF Talk!InARow
<1>5. TalkNoSpin(ms) => TalkNoSpin(mt)
  <2> SUFFICES ASSUME TalkNoSpin(ms), NEW at \in Talk!InARow(ms, MaxRepeats), NEW k \in DOMAIN at
               PROVE  mt[at[k]].reply.name \in Local
    BY <1>4 DEF TalkNoSpin
  <2>1. at[k] \in Talk!Ran(ms)  BY DEF Talk!InARow
  <2> QED  BY <2>1, <1>3 DEF TalkNoSpin
<1>6. ASSUME NEW w, NEW v, TalkCounts(ms, w), w.pc # "over", v.sig = w.sig, v.repeats = w.repeats
      PROVE  TalkCounts(mt, v)
  BY <1>2, <1>3, <1>4, <1>6 DEF TalkCounts
<1> QED  BY <1>2, <1>4, <1>5, <1>6

\* The sequences in a row that end with a call, for it or one before it.
LEMMA TalkRowShorter ==
  ASSUME NEW ms, NEW n \in Nat, n > 1, NEW at \in Talk!InARow(ms, n), Talk!Ran(ms) \subseteq Nat
  PROVE  /\ [k \in 1 .. n - 1 |-> at[k]] \in Talk!InARow(ms, n - 1)
         /\ at[n - 1] < at[n] /\ at[n - 1] \in Talk!Ran(ms) /\ at[n] \in Talk!Ran(ms)
         /\ \A j \in Talk!Ran(ms) : j < at[n] => j <= at[n - 1]
         /\ Talk!Signature(ms[at[n - 1]].reply) = Talk!Signature(ms[at[n]].reply)
<1>1. /\ at \in [1 .. n -> Talk!Ran(ms)] /\ Talk!Increasing(at)
      /\ \A k \in 1 .. n - 1 : \A j \in Talk!Ran(ms) : j <= at[k] \/ at[k + 1] <= j
      /\ \A k, l \in 1 .. n : Talk!Signature(ms[at[k]].reply) = Talk!Signature(ms[at[l]].reply)
  BY DEF Talk!InARow
<1> DEFINE less == [k \in 1 .. n - 1 |-> at[k]]
<1>2. n - 1 \in Nat /\ n - 1 \in 1 .. n - 1 /\ n - 1 \in 1 .. n /\ n \in 1 .. n /\ (n - 1) + 1 = n
  OBVIOUS
<1>3. \A k \in 1 .. n - 1 : k \in 1 .. n /\ less[k] = at[k]  OBVIOUS
<1>4. less \in [1 .. n - 1 -> Talk!Ran(ms)] /\ DOMAIN less = 1 .. n - 1  BY <1>1, <1>3
<1>5. \A k \in 1 .. (n - 1) - 1 : k \in 1 .. n - 1 /\ k + 1 \in 1 .. n - 1  BY <1>2
<1> HIDE DEF less
<1>6. Talk!Increasing(less)  BY <1>1, <1>3, <1>4 DEF Talk!Increasing
<1>7. less \in Talk!InARow(ms, n - 1)
  <2>1. \A k \in 1 .. (n - 1) - 1 : \A j \in Talk!Ran(ms) : j <= less[k] \/ less[k + 1] <= j
    BY <1>1, <1>3, <1>5
  <2>2. \A k, l \in 1 .. n - 1 : Talk!Signature(ms[less[k]].reply) =
      Talk!Signature(ms[less[l]].reply)
    BY <1>1, <1>3
  <2> QED  BY <1>4, <1>6, <2>1, <2>2 DEF Talk!InARow
<1>8. at[n - 1] < at[n] /\ at[n - 1] \in Talk!Ran(ms) /\ at[n] \in Talk!Ran(ms)
  BY <1>1, <1>2 DEF Talk!Increasing
<1>9. \A j \in Talk!Ran(ms) : j < at[n] => j <= at[n - 1]
  <2> TAKE j \in Talk!Ran(ms)
  <2>1. j <= at[n - 1] \/ at[(n - 1) + 1] <= j  BY <1>1, <1>2
  <2>2. j \in Nat /\ at[n] \in Nat /\ at[n - 1] \in Nat  BY <1>8
  <2> QED  BY <2>1, <2>2, <1>2
<1> QED  BY <1>1, <1>2, <1>7, <1>8, <1>9 DEF less

\* One more call was run, and counted.
LEMMA TalkOneMoreRun ==
  ASSUME TalkAssumed, NEW ms \in Seq(TalkMsg), NEW mt \in Seq(TalkMsg), TalkKeeps(ms, mt),
      NEW call \in TalkAllCalls,
         Talk!Ran(mt) = Talk!Ran(ms) \cup {Len(ms) + 1}, mt[Len(ms) + 1].reply = call,
         NEW w, NEW v, w.pc # "over", w.repeats \in Nat, TalkCounts(ms, w), TalkNoSpin(ms),
         v.sig = Talk!Signature(call), v.repeats = (IF w.sig =
             Talk!Signature(call) THEN w.repeats + 1 ELSE 1),
         call.name \in Local \/ v.repeats < MaxRepeats
  PROVE  TalkCounts(mt, v) /\ TalkNoSpin(mt)
<1> DEFINE p == Len(ms) + 1
<1>1. Len(ms) \in Nat /\ p \in Nat /\ Talk!Ran(ms) \subseteq 1..Len(ms)
    /\ Talk!Ran(mt) \subseteq Nat /\ p \in Talk!Ran(mt)
      /\ \A j \in Talk!Ran(mt) : j <= p /\ (j # p => j \in Talk!Ran(ms))
      /\ mt[p].reply = call
  BY DEF Talk!Ran
<1>2. \A j \in Talk!Ran(ms) : mt[j].reply = ms[j].reply  BY DEF Talk!Ran, TalkKeeps
<1> HIDE DEF p
<1>3. ASSUME NEW n \in Nat, NEW at \in Talk!InARow(mt, n), \A k \in 1 .. n : at[k] # p
      PROVE  at \in Talk!InARow(ms, n)
  <2>1. at \in [1 .. n -> Talk!Ran(ms)]
    <3>1. at \in [1 .. n -> Talk!Ran(mt)]  BY DEF Talk!InARow
    <3> QED  BY <3>1, <1>1, <1>3
  <2>2. \A k \in 1 .. n : mt[at[k]].reply = ms[at[k]].reply  BY <2>1, <1>2
  <2>3. Talk!Ran(ms) \subseteq Talk!Ran(mt)  OBVIOUS
  <2> QED  BY <2>1, <2>2, <2>3 DEF Talk!InARow
<1>4. ASSUME NEW n \in Nat \ {0}, NEW at \in Talk!InARow(mt, n), at[n] = p PROVE n <= v.repeats
  <2>1. CASE n = 1  BY <2>1
  <2>2. CASE n > 1
    <3> DEFINE less == [k \in 1 .. n - 1 |-> at[k]]
    <3>1. /\ less \in Talk!InARow(mt, n - 1) /\ at[n - 1] < p /\ at[n - 1] \in Talk!Ran(mt)
          /\ \A j \in Talk!Ran(mt) : j < p => j <= at[n - 1]
          /\ Talk!Signature(mt[at[n - 1]].reply) = Talk!Signature(mt[p].reply)
      <4>1. n \in Nat /\ at \in Talk!InARow(mt, n) /\ at[n] = p /\ Talk!Ran(mt) \subseteq Nat
        BY <1>1, <1>4
      <4> HIDE DEF less
      <4>2. /\ [k \in 1 .. n - 1 |-> at[k]] \in Talk!InARow(mt, n - 1)
            /\ at[n - 1] < at[n] /\ at[n - 1] \in Talk!Ran(mt) /\ at[n] \in Talk!Ran(mt)
            /\ \A j \in Talk!Ran(mt) : j < at[n] => j <= at[n - 1]
            /\ Talk!Signature(mt[at[n - 1]].reply) = Talk!Signature(mt[at[n]].reply)
        BY <4>1, <2>2, TalkRowShorter
      <4> QED  BY <4>1, <4>2 DEF less
    <3>2. n - 1 \in Nat \ {0} /\ n - 1 \in 1 .. n - 1 /\ less[n - 1] = at[n - 1]  BY <2>2
    <3>3. \A k \in 1 .. n - 1 : less[k] # p
      <4>1. less \in [1 .. n - 1 -> Talk!Ran(mt)] /\ Talk!Increasing(less)
        BY <3>1 DEF Talk!InARow
      <4> HIDE DEF less
      <4>2. \A k \in 1 .. n - 1 : k = n - 1 \/ less[k] < less[n - 1]
        <5> TAKE k \in 1 .. n - 1
        <5>1. k = n - 1 \/ k < n - 1  BY <3>2
        <5>2. k \in DOMAIN less /\ n - 1 \in DOMAIN less  BY <4>1, <3>2
        <5> QED  BY <5>1, <5>2, <4>1 DEF Talk!Increasing
      <4>3. \A k \in 1 .. n - 1 : less[k] \in Nat  BY <4>1, <1>1
      <4> QED  BY <4>2, <4>3, <3>1, <3>2, <1>1
    <3> HIDE DEF less
    <3>4. less \in Talk!InARow(ms, n - 1)  BY <3>1, <3>2, <3>3, <1>3
    <3>5. at[n - 1] \in Talk!Ran(ms) /\ \A j \in Talk!Ran(ms) : j <= at[n - 1]
      BY <3>1, <1>1
    <3>6. w.sig = Talk!Signature(ms[at[n - 1]].reply) /\ n - 1 <= w.repeats
      BY <3>2, <3>4, <3>5 DEF TalkCounts
    <3>7. w.sig = Talk!Signature(call)  BY <3>1, <3>5, <3>6, <1>1, <1>2
    <3> QED  BY <3>6, <3>7, <3>2
  <2> QED  BY <2>1, <2>2
<1>5. TalkCounts(mt, v)
  <2> SUFFICES ASSUME NEW q \in Talk!Ran(mt), \A j \in Talk!Ran(mt) : j <= q
               PROVE  /\ v.sig = Talk!Signature(mt[q].reply)
                      /\ \A n \in Nat \ {0} : \A at \in Talk!InARow(mt, n) : at[n] = q
                         => n <= v.repeats
    BY DEF TalkCounts
  <2>1. q = p  BY <1>1
  <2> QED  BY <2>1, <1>1, <1>4
<1>6. TalkNoSpin(mt)
  <2> SUFFICES ASSUME NEW at \in Talk!InARow(mt, MaxRepeats), NEW k \in DOMAIN at
               PROVE  mt[at[k]].reply.name \in Local
    BY DEF TalkNoSpin
  <2>0. MaxRepeats \in Nat \ {0} /\ MaxRepeats \in 1 .. MaxRepeats  BY DEF TalkAssumed
  <2>1. /\ at \in [1 .. MaxRepeats -> Talk!Ran(mt)] /\ DOMAIN at = 1 .. MaxRepeats
           /\ Talk!Increasing(at)
        /\ \A i, j \in 1 .. MaxRepeats : Talk!Signature(mt[at[i]].reply) =
           Talk!Signature(mt[at[j]].reply)
    BY DEF Talk!InARow
  <2>2. CASE at[MaxRepeats] = p
    <3>1. MaxRepeats <= v.repeats  BY <2>0, <2>2, <1>4
    <3>2. v.repeats \in Nat  OBVIOUS
    <3>3. call.name \in Local  BY <3>1, <3>2, <2>0
    <3>4. Talk!Signature(mt[at[k]].reply) = Talk!Signature(call)  BY <2>0, <2>1, <2>2, <1>1
    <3> QED  BY <3>3, <3>4 DEF Talk!Signature
  <2>3. CASE at[MaxRepeats] # p
    <3>1. \A i \in 1 .. MaxRepeats : i = MaxRepeats \/ at[i] < at[MaxRepeats]
      BY <2>0, <2>1 DEF Talk!Increasing
    <3>2. \A i \in 1 .. MaxRepeats : at[i] \in Nat /\ at[i] <= p  BY <2>1, <1>1
    <3>3. \A i \in 1 .. MaxRepeats : at[i] # p  BY <3>1, <3>2, <2>0, <2>3, <1>1
    <3>4. at \in Talk!InARow(ms, MaxRepeats)  BY <2>0, <3>3, <1>3
    <3>5. at[k] \in Talk!Ran(ms)  BY <2>1, <3>3, <1>1
    <3> QED  BY <3>4, <3>5, <1>2 DEF TalkNoSpin
  <2> QED  BY <2>2, <2>3
<1> QED  BY <1>5, <1>6

-----------------------------------------------------------------------------
\* The messages are records.
LEMMA TalkSaidIs == ASSUME NEW role \in {"user", "system"} PROVE Talk!Said(role) \in TalkMsg
    /\ Talk!Said(role).role = role
BY DEF Talk!Said, Talk!Message, TalkMsg, TalkContents
LEMMA TalkReplyIs ==
  ASSUME NEW call \in TalkAllCalls, NEW size \in {"long", "short", "skipped"}
  PROVE  LET m == Talk!Reply(call, size) IN
         m \in TalkMsg /\ m.role = "tool" /\ m.reply = call /\ m.content = <<size>>
BY DEF Talk!Reply, Talk!Message, TalkMsg, TalkContents

LEMMA TalkKeepsOn == ASSUME NEW a, NEW b, NEW c, TalkKeeps(a, b), TalkKeeps(b, c),
    a \in Seq(TalkMsg), b \in Seq(TalkMsg), c \in Seq(TalkMsg)
                     PROVE TalkKeeps(a, c)
<1>1. Len(a) \in Nat /\ Len(b) \in Nat /\ Len(c) \in Nat /\ DOMAIN a = 1..Len(a)
    /\ DOMAIN b = 1..Len(b)
  OBVIOUS
<1>2. \A i \in DOMAIN a : i \in DOMAIN b  BY <1>1 DEF TalkKeeps
<1> QED  BY <1>1, <1>2 DEF TalkKeeps

LEMMA TalkIsSeq == ASSUME NEW S, NEW n \in Nat, NEW f \in [1..n -> S] PROVE f \in Seq(S)
    /\ Len(f) = n /\ DOMAIN f = 1..n
OBVIOUS

LEMMA TalkTrimKeeps ==
  ASSUME NEW ms \in Seq(TalkMsg)
  PROVE  Talk!Trim(ms) \in Seq(TalkMsg) /\ Len(Talk!Trim(ms)) = Len(ms)
      /\ TalkKeeps(ms, Talk!Trim(ms))
         /\ \A i \in DOMAIN ms : Talk!Trim(ms)[i].role = ms[i].role
<1> DEFINE mt == Talk!Trim(ms)
<1>1. DOMAIN ms = 1..Len(ms) /\ Len(ms) \in Nat /\ \A i \in DOMAIN ms : ms[i] \in TalkMsg  OBVIOUS
<1>2. <<"short">> \in TalkContents  BY DEF TalkContents
<1>3. \A i \in Talk!Long(ms) : ms[i].content = <<"long">>  BY DEF Talk!Long
<1>4. DOMAIN mt = 1..Len(ms) /\ \A i \in 1..Len(ms) :
         mt[i] = ms[i] \/ (i \in Talk!Long(ms) /\ mt[i] = [ms[i] EXCEPT !.content = <<"short">>])
  BY <1>1 DEF Talk!Trim
<1> HIDE DEF mt
<1>5. \A i \in 1..Len(ms) :  /\ mt[i] \in TalkMsg /\ mt[i].role = ms[i].role
                                /\ mt[i].calls = ms[i].calls
                             /\ mt[i].reply = ms[i].reply /\ mt[i].sent = ms[i].sent
                             /\ mt[i].content = <<"skipped">> <=> ms[i].content = <<"skipped">>
  <2> TAKE i \in 1..Len(ms)
  <2>1. ms[i] \in TalkMsg  BY <1>1
  <2>2. CASE mt[i] = ms[i]  BY <2>1, <2>2
  <2>3. CASE i \in Talk!Long(ms) /\ mt[i] = [ms[i] EXCEPT !.content = <<"short">>]
    <3>1. ms[i].content = <<"long">>  BY <2>3, <1>3
    <3>2. mt[i].content = <<"short">>  BY <2>1, <2>3 DEF TalkMsg
    <3>3. <<"short">> # <<"skipped">> /\ <<"long">> # <<"skipped">>  OBVIOUS
    <3>4. mt[i] \in TalkMsg  BY <2>1, <2>3, <1>2 DEF TalkMsg
    <3>5. /\ mt[i].role = ms[i].role /\ mt[i].calls = ms[i].calls
          /\ mt[i].reply = ms[i].reply /\ mt[i].sent = ms[i].sent
      BY <2>1, <2>3 DEF TalkMsg
    <3> QED  BY <3>1, <3>2, <3>3, <3>4, <3>5
  <2> QED  BY <1>4, <2>2, <2>3
<1>6. mt = [i \in 1..Len(ms) |-> mt[i]]  BY <1>4 DEF mt, Talk!Trim
<1>7. mt \in Seq(TalkMsg) /\ Len(mt) = Len(ms)
  <2>1. \A i \in 1..Len(ms) : mt[i] \in TalkMsg  BY <1>5
  <2>2. mt \in [1..Len(ms) -> TalkMsg]  BY <2>1, <1>6
  <2> QED  BY <2>2, <1>1, TalkIsSeq
<1>8. TalkKeeps(ms, mt)
  <2>1. Len(ms) <= Len(mt)  BY <1>7, <1>1
  <2>2. DOMAIN ms = 1..Len(ms)  BY <1>1
  <2> QED  BY <2>1, <2>2, <1>5 DEF TalkKeeps
<1>9. \A i \in DOMAIN ms : mt[i].role = ms[i].role  BY <1>1, <1>5
<1> QED  BY <1>7, <1>8, <1>9 DEF mt

\* What the step of a task has to show.
TalkTaskStep(t) ==
  /\ msgs' = [msgs EXCEPT ![t] = msgs'[t]] /\ work' = [work EXCEPT ![t] = work'[t]]
  /\ msgs'[t] \in Seq(TalkMsg) /\ work'[t] \in TalkWork /\ TalkKeeps(msgs[t], msgs'[t])
  /\ TalkMine(msgs'[t], work'[t], MaxSteps[t])

LEMMA TalkKeepsSelf == ASSUME NEW ms \in Seq(TalkMsg) PROVE TalkKeeps(ms, ms)
BY DEF TalkKeeps

\* A task that ends, and what was said.
LEMMA TalkEndIs ==
  ASSUME NEW w \in TalkWork, NEW how \in {"step_limit", "model_failed", "delivered", "repeats",
      "invalid_args", "sandbox"},
         NEW max \in Nat, w.steps <= max, TalkAssumed
  PROVE  LET v == Talk!End(w, how) IN
         /\ v \in TalkWork /\ v.pc = "over" /\ TalkPlaces(v, max)
         /\ \A ms : TalkNoSpin(ms) => TalkMine(ms, v, max)
<1> DEFINE v == Talk!End(w, how)
<1>0. v = [pc |-> "over", steps |-> w.steps, steers |-> 0, retries |-> 0, batch |-> <<>>,
           sig |-> Off, repeats |-> 0, invalid |-> 0, sandbox |-> 0, end |-> how]
  <2>1. v = [Talk!Fresh EXCEPT !.pc = "over", !.steps = w.steps, !.end = how]  BY DEF Talk!End
  <2> HIDE DEF v
  <2> QED  BY <2>1 DEF Talk!Fresh
<1>1. v \in TalkWork /\ v.pc = "over" /\ v.steps = w.steps /\ v.batch = <<>> /\ v.end = how
  <2>1. 0 \in 0..MaxSteers /\ 0 \in 0..Retries /\ <<>> \in Seq(TalkAllCalls) /\ w.steps \in Nat
    BY DEF TalkAssumed, TalkWork
  <2> QED  BY <1>0, <2>1 DEF TalkWork
<1> HIDE DEF v
<1>2. TalkPlaces(v, max)  BY <1>1 DEF TalkPlaces
<1> QED  BY <1>1, <1>2 DEF TalkMine, TalkServed, TalkCounts, v

LEMMA TalkTopStep ==
  ASSUME TalkAssumed, TalkIInv, NEW t \in Tasks, Talk!Top(t)
  PROVE  TalkTaskStep(t)
<1> DEFINE ms == msgs[t]
           w == work[t]
           v == work'[t]
           mt == msgs'[t]
<1>1. ms \in Seq(TalkMsg) /\ w \in TalkWork /\ TalkMine(ms, w, MaxSteps[t]) /\ MaxSteps[t] \in Nat
    /\ w.pc = "top"
      /\ msgs \in [Tasks -> Seq(TalkMsg)] /\ work \in [Tasks -> TalkWork]
  BY DEF TalkIInv, TalkTypes, Talk!Top, Talk!At, TalkAssumed
<1>2. CASE w.steps >= MaxSteps[t]
  <2>1. msgs' = msgs /\ work' = [work EXCEPT ![t] = Talk!End(@, "step_limit")]
    BY <1>2 DEF Talk!Top
  <2>2. v = Talk!End(w, "step_limit")  BY <2>1, <1>1
  <2>3. w.steps <= MaxSteps[t] /\ TalkNoSpin(ms)  BY <1>1 DEF TalkMine, TalkPlaces
  <2>4. v \in TalkWork /\ TalkMine(ms, v, MaxSteps[t])  BY <2>2, <2>3, <1>1, TalkEndIs
  <2> QED  BY <2>1, <2>2, <2>4, <1>1, TalkKeepsSelf DEF TalkTaskStep
<1>3. CASE ~ (w.steps >= MaxSteps[t])
  <2>1. PICK n \in 0 .. (MaxSteers - w.steers) :
           /\ msgs' = [msgs EXCEPT ![t] = Talk!Trim(@ \o [i \in 1 .. n |-> Talk!Said("user")])]
           /\ work' = [work EXCEPT ![t].pc = "ask", ![t].retries = 0, ![t].steers = @ + n]
    BY <1>3 DEF Talk!Top
  <2> DEFINE ext == [i \in 1 .. n |-> Talk!Said("user")]
  <2>2. ext \in Seq(TalkMsg) /\ Len(ext) = n /\ \A i \in 1..n : ext[i].role = "user"
    <3>1. n \in Nat /\ Talk!Said("user") \in TalkMsg /\ Talk!Said("user").role = "user"
      BY <1>1, TalkSaidIs DEF TalkWork, TalkAssumed
    <3> QED  BY <3>1
  <2>3. mt = Talk!Trim(ms \o ext)  BY <2>1, <1>1
  <2> HIDE DEF ext
  <2>4. /\ ms \o ext \in Seq(TalkMsg) /\ TalkKeeps(ms, ms \o ext) /\ Len(ms \o ext) = Len(ms) + n
        /\ \A k \in 1 .. n : (ms \o ext)[Len(ms) + k] = ext[k]
    BY <2>2, <1>1, TalkBehind
  <2>5. mt \in Seq(TalkMsg) /\ Len(mt) = Len(ms) + n /\ TalkKeeps(ms \o ext, mt)
        /\ \A i \in DOMAIN (ms \o ext) : mt[i].role = (ms \o ext)[i].role
    BY <2>3, <2>4, TalkTrimKeeps
  <2>6. TalkKeeps(ms, mt)  BY <2>4, <2>5, <1>1, TalkKeepsOn
  <2>7. \A j \in DOMAIN mt : j > Len(ms) => mt[j].role = "user"
    <3> SUFFICES ASSUME NEW j \in DOMAIN mt, j > Len(ms) PROVE mt[j].role = "user"  OBVIOUS
    <3>1. j - Len(ms) \in 1 .. n /\ Len(ms) + (j - Len(ms)) = j /\ j \in DOMAIN (ms \o ext)
      BY <2>4, <2>5, <1>1
    <3>2. (ms \o ext)[j] = ext[j - Len(ms)]  BY <3>1, <2>4
    <3> QED  BY <3>1, <3>2, <2>2, <2>5
  <2>8. v = [w EXCEPT !.pc = "ask", !.retries = 0, !.steers = @ + n]  BY <2>1, <1>1
  <2>9. v \in TalkWork /\ v.pc = "ask" /\ v.sig = w.sig /\ v.repeats = w.repeats
      /\ v.batch = w.batch
        /\ v.steps = w.steps /\ v.end = w.end
    <3>1. v = [pc |-> "ask", steps |-> w.steps, steers |-> w.steers + n, retries |-> 0,
        batch |-> w.batch,
               sig |-> w.sig, repeats |-> w.repeats, invalid |-> w.invalid, sandbox |-> w.sandbox,
                   end |-> w.end]
      BY <2>8, <1>1 DEF TalkWork
    <3>2. w.steers + n \in 0..MaxSteers /\ 0 \in 0..Retries  BY <1>1 DEF TalkWork, TalkAssumed
    <3> QED  BY <3>1, <3>2, <1>1 DEF TalkWork
  <2> HIDE DEF v, mt
  <2>10. TalkPlaces(v, MaxSteps[t])  BY <2>9, <1>1, <1>3 DEF TalkPlaces, TalkMine, TalkWork
  <2>11. TalkCounts(mt, v) /\ TalkNoSpin(mt)
    <3>1. \A j \in Talk!Ran(mt) : j <= Len(ms)
      BY <2>5, <2>7, <1>1 DEF Talk!Ran
    <3> QED  BY <3>1, <2>5, <2>6, <2>9, <1>1, TalkSameRuns DEF TalkMine
  <2>12. TalkServed(mt, v)
    <3> SUFFICES ASSUME NEW i \in TalkSaid(mt) PROVE Talk!Replied(mt, i, Len(mt[i].calls))
      BY <2>9 DEF TalkServed
    <3>1. i \in DOMAIN ms /\ mt[i].role = ms[i].role /\ mt[i].calls = ms[i].calls
      <4>1. i \in DOMAIN mt /\ mt[i].role = "assistant"  BY DEF TalkSaid
      <4>2. ~ (i > Len(ms))  BY <4>1, <2>7
      <4>3. i \in DOMAIN ms  BY <4>1, <4>2, <2>5, <1>1
      <4> QED  BY <4>3, <2>6 DEF TalkKeeps
    <3>2. i \in TalkSaid(ms)  BY <3>1 DEF TalkSaid
    <3>3. Talk!Replied(ms, i, Len(ms[i].calls))  BY <3>2, <1>1 DEF TalkMine, TalkServed
    <3>4. Len(ms[i].calls) \in Nat  BY <3>1, <1>1 DEF TalkMsg
    <3> QED  BY <3>1, <3>2, <3>3, <3>4, <2>5, <2>6, <2>7, <1>1, TalkStillReplied
  <2>13. msgs' = [msgs EXCEPT ![t] = mt] /\ work' = [work EXCEPT ![t] = v]
    BY <2>1, <2>3, <2>8, <1>1 DEF ext
  <2> QED  BY <2>5, <2>6, <2>9, <2>10, <2>11, <2>12, <2>13 DEF TalkTaskStep, TalkMine, mt, v
<1> QED  BY <1>2, <1>3

LEMMA TalkRefusedStep ==
  ASSUME TalkAssumed, TalkIInv, NEW t \in Tasks, NEW class, Talk!Refused(t, class)
  PROVE  TalkTaskStep(t)
<1> DEFINE ms == msgs[t]
           w == work[t]
           v == work'[t]
<1>1. ms \in Seq(TalkMsg) /\ w \in TalkWork /\ TalkMine(ms, w, MaxSteps[t]) /\ MaxSteps[t] \in Nat
    /\ w.pc = "ask"
      /\ msgs \in [Tasks -> Seq(TalkMsg)] /\ work \in [Tasks -> TalkWork] /\ msgs' = msgs
  BY DEF TalkIInv, TalkTypes, Talk!Refused, Talk!At, TalkAssumed
<1>2. v = (IF class = "never" \/ w.retries >= Retries THEN Talk!End(w, "model_failed")
    ELSE [w EXCEPT !.retries = @ + 1])
      /\ work' = [work EXCEPT ![t] = v]
  BY <1>1 DEF Talk!Refused
<1>3. v \in TalkWork /\ TalkMine(ms, v, MaxSteps[t])
  <2>1. CASE class = "never" \/ w.retries >= Retries
    <3>1. v = Talk!End(w, "model_failed")  BY <2>1, <1>2
    <3>2. w.steps <= MaxSteps[t] /\ TalkNoSpin(ms)  BY <1>1 DEF TalkMine, TalkPlaces
    <3> QED  BY <3>1, <3>2, <1>1, TalkEndIs
  <2>2. CASE ~ (class = "never" \/ w.retries >= Retries)
    <3>1. v = [w EXCEPT !.retries = @ + 1]  BY <2>2, <1>2
    <3>2. w.retries + 1 \in 0..Retries  BY <2>2, <1>1 DEF TalkWork, TalkAssumed
    <3>3. v \in TalkWork  BY <3>1, <3>2, <1>1 DEF TalkWork
    <3>4. v.pc = w.pc /\ v.batch = w.batch /\ v.steps = w.steps /\ v.end = w.end /\ v.sig = w.sig
        /\ v.repeats = w.repeats
      BY <3>1, <1>1 DEF TalkWork
    <3> HIDE DEF v
    <3>5. TalkPlaces(v, MaxSteps[t])  BY <3>4, <1>1 DEF TalkMine, TalkPlaces
    <3>6. TalkServed(ms, v)  BY <3>4, <1>1 DEF TalkMine, TalkServed
    <3>7. TalkCounts(ms, v)  BY <3>4, <1>1 DEF TalkMine, TalkCounts
    <3> QED  BY <3>3, <3>5, <3>6, <3>7, <1>1 DEF TalkMine
  <2> QED  BY <2>1, <2>2
<1> QED  BY <1>1, <1>2, <1>3, TalkKeepsSelf DEF TalkTaskStep

LEMMA TalkCountedIs ==
  ASSUME NEW w \in TalkWork, NEW call \in TalkAllCalls
  PROVE  LET v == Talk!Counted(w, call) IN
         /\ v \in TalkWork /\ v.sig = Talk!Signature(call)
         /\ v.repeats = (IF w.sig = Talk!Signature(call) THEN w.repeats + 1 ELSE 1)
         /\ v.pc = w.pc /\ v.steps = w.steps /\ v.batch = w.batch /\ v.end = w.end
         /\ v.invalid = w.invalid /\ v.sandbox = w.sandbox
<1>1. w.repeats + 1 \in Nat /\ Talk!Signature(call) \in {Talk!Signature(c) : c \in TalkAllCalls}
  BY DEF TalkWork
<1> QED  BY <1>1 DEF Talk!Counted, TalkWork

LEMMA TalkHeadIs ==
  ASSUME NEW w \in TalkWork, w.batch # <<>>
  PROVE  Head(w.batch) = w.batch[1] /\ Head(w.batch) \in TalkAllCalls
      /\ Len(w.batch) \in Nat \ {0}
BY DEF TalkWork

\* The task ends with this call, and without a reply.
LEMMA TalkEndsHere ==
  ASSUME TalkAssumed, TalkIInv, NEW t \in Tasks, Talk!At(t, "act"),
      NEW how \in {"repeats", "delivered"}, UNCHANGED msgs,
         work' = [work EXCEPT ![t] = Talk!End(Talk!Counted(@, Head(@.batch)), how)]
  PROVE  TalkTaskStep(t)
<1> DEFINE ms == msgs[t]
           w == work[t]
           c == Talk!Counted(w, Head(w.batch))
<1>1. ms \in Seq(TalkMsg) /\ w \in TalkWork /\ TalkMine(ms, w, MaxSteps[t]) /\ MaxSteps[t] \in Nat
    /\ w.pc = "act"
      /\ msgs \in [Tasks -> Seq(TalkMsg)] /\ work \in [Tasks -> TalkWork] /\ msgs' = msgs
  BY DEF TalkIInv, TalkTypes, Talk!At, TalkAssumed
<1>2. w.batch # <<>> /\ w.steps <= MaxSteps[t] /\ TalkNoSpin(ms)  BY <1>1 DEF TalkMine, TalkPlaces
<1>3. c \in TalkWork /\ c.steps <= MaxSteps[t]  BY <1>1, <1>2, TalkHeadIs, TalkCountedIs
<1>4. work'[t] = Talk!End(c, how)  BY <1>1
<1> HIDE DEF c
<1>5. work'[t] \in TalkWork /\ TalkMine(ms, work'[t], MaxSteps[t])
  BY <1>1, <1>2, <1>3, <1>4, TalkEndIs
<1> QED  BY <1>1, <1>4, <1>5, TalkKeepsSelf DEF TalkTaskStep, c

LEMMA TalkGiveUpStep ==
  ASSUME TalkAssumed, TalkIInv, NEW t \in Tasks, Talk!GiveUpRepeating(t)  PROVE TalkTaskStep(t)
BY TalkEndsHere DEF Talk!GiveUpRepeating
LEMMA TalkFinalGivenStep ==
  ASSUME TalkAssumed, TalkIInv, NEW t \in Tasks, Talk!FinalGiven(t)  PROVE TalkTaskStep(t)
BY TalkEndsHere DEF Talk!FinalGiven

\* The answer.
TalkSayings(t) == {<<Off, <<>>>>, <<Talk!Thought(t), <<"text">>>>,
    <<Off, <<Talk!Thought(t), "text">>>>}
LEMMA TalkSayingIs ==
  ASSUME TalkIInv, NEW t \in Tasks, NEW said \in TalkSayings(t)
  PROVE  LET field == said[1]
             content == said[2]
             prefix == Talk!Prefix(content)
             rest == IF prefix = <<>> THEN content ELSE Tail(content) IN
         /\ field \in TalkThoughts \cup {Off} /\ content \in TalkContents
            /\ prefix \in TalkContents /\ rest \in TalkContents
         /\ field # Off \/ prefix # <<>> =>
              /\ rest = <<>> \/ ~Talk!IsThought(Head(rest))
              /\ prefix \o rest = content
<1>1. Talk!Thought(t) \in TalkThoughts
  BY DEF TalkIInv, TalkTypes, TalkWork, Talk!Thought, TalkThoughts
<1> DEFINE T == Talk!Thought(t)
<1> HIDE DEF T
<1>2. <<>> \in TalkContents /\ <<"text">> \in TalkContents /\ <<T, "text">> \in TalkContents
    /\ <<T>> \in TalkContents
  BY <1>1 DEF TalkContents, T
<1>3. CASE said = <<Off, <<>>>>
  <2>1. Talk!Prefix(<<>>) = <<>>  BY DEF Talk!Prefix
  <2> QED  BY <1>3, <2>1, <1>2
<1>4. CASE said = <<T, <<"text">>>>
  <2>1. Talk!Prefix(<<"text">>) = <<>>  BY DEF Talk!Prefix, Talk!IsThought
  <2>2. Head(<<"text">>) = "text" /\ <<>> \o <<"text">> = <<"text">>  OBVIOUS
  <2> QED  BY <1>4, <2>1, <2>2, <1>1, <1>2 DEF Talk!IsThought, T
<1>5. CASE said = <<Off, <<T, "text">>>>
  <2>1. Talk!Prefix(<<T, "text">>) \in {<<>>, <<T>>}  BY DEF Talk!Prefix
  <2>2. Tail(<<T, "text">>) = <<"text">> /\ Head(<<"text">>) = "text"
      /\ <<T>> \o <<"text">> = <<T, "text">> /\ <<T>> # <<>>
    <3>1. <<T>> \o <<"text">> = <<T, "text">> /\ <<T>> # <<>>
      <4> DEFINE s == <<T>> \o <<"text">>
      <4>1. <<T>> \in Seq({T, "text"}) /\ <<"text">> \in Seq({T, "text"}) /\ Len(<<T>>) = 1
          /\ Len(<<"text">>) = 1
        OBVIOUS
      <4>2. s \in Seq({T, "text"}) /\ Len(s) = 2 /\ s[1] = T /\ s[2] = "text"
        BY <4>1, ConcatProperties
      <4> HIDE DEF s
      <4>3. s = <<T, "text">>  BY <4>2
      <4> QED  BY <4>1, <4>3 DEF s
    <3>2. Tail(<<T, "text">>) = <<"text">>
      <4>1. Tail(<<T, "text">>) = [i \in 1..1 |-> <<T, "text">>[i + 1]]  OBVIOUS
      <4> QED  BY <4>1
    <3> QED  BY <3>1, <3>2
  <2> QED  BY <1>5, <2>1, <2>2, <1>2 DEF Talk!IsThought
<1> QED  BY <1>3, <1>4, <1>5 DEF TalkSayings, T

\* The message of an answer.
TalkTurn(calls, rest, field, content) == Talk!Message("assistant", calls, rest, Off,
    [fields |-> field, content |-> content])
TalkRest(content) == IF Talk!Prefix(content) = <<>> THEN content ELSE Tail(content)

LEMMA TalkTurnIs ==
  ASSUME NEW calls \in Seq(TalkAllCalls), NEW rest \in TalkContents,
      NEW field \in TalkThoughts \cup {Off}, NEW content \in TalkContents
  PROVE  LET m == TalkTurn(calls, rest, field, content) IN
         /\ m \in TalkMsg /\ m.role = "assistant" /\ m.calls = calls /\ m.content = rest
         /\ m.sent.fields = field /\ m.sent.content = content
BY DEF TalkTurn, Talk!Message, TalkMsg, TalkSent

LEMMA TalkActIs ==
  ASSUME NEW w \in TalkWork, NEW calls \in Seq(TalkAllCalls)
  PROVE  LET a == [w EXCEPT !.steps = w.steps + 1, !.pc = "act", !.batch = calls] IN
         /\ a \in TalkWork /\ a.pc = "act" /\ a.batch = calls /\ a.steps = w.steps + 1
            /\ a.sig = w.sig
         /\ a.repeats = w.repeats /\ a.end = w.end
<1>1. w.steps + 1 \in Nat  BY DEF TalkWork
<1> QED  BY <1>1 DEF TalkWork

LEMMA TalkAnsweredStep ==
  ASSUME TalkAssumed, TalkIInv, NEW t \in Tasks, NEW calls \in Batches[t],
      NEW said \in TalkSayings(t),
         Talk!Answered(t, calls, said[1], said[2])
  PROVE  /\ TalkTaskStep(t) /\ Len(msgs[t]) + 1 \in DOMAIN msgs'[t]
         /\ msgs'[t][Len(msgs[t]) + 1] = TalkTurn(calls, TalkRest(said[2]), said[1], said[2])
<1> DEFINE ms == msgs[t]
           w == work[t]
           v == work'[t]
           mt == msgs'[t]
           rest == TalkRest(said[2])
           m == TalkTurn(calls, rest, said[1], said[2])
           a == [w EXCEPT !.steps = @ + 1, !.pc = "act", !.batch = calls]
           ext == IF calls = <<>>
               /\ ~ (a.steps = 1 /\ rest # <<>>) THEN <<m, Talk!Said("system")>> ELSE <<m>>
<1>1. ms \in Seq(TalkMsg) /\ w \in TalkWork /\ TalkMine(ms, w, MaxSteps[t]) /\ MaxSteps[t] \in Nat
    /\ w.pc = "ask"
      /\ msgs \in [Tasks -> Seq(TalkMsg)] /\ work \in [Tasks -> TalkWork]
         /\ calls \in Seq(TalkAllCalls)
  BY DEF TalkIInv, TalkTypes, Talk!Answered, Talk!At, TalkAssumed
<1>2. said[1] \in TalkThoughts \cup {Off} /\ said[2] \in TalkContents /\ rest \in TalkContents
  BY TalkSayingIs DEF TalkRest
<1> HIDE DEF rest
<1>3. m \in TalkMsg /\ m.role = "assistant" /\ m.calls = calls
  <2> DEFINE field == said[1]
             content == said[2]
  <2>1. calls \in Seq(TalkAllCalls) /\ rest \in TalkContents /\ field \in TalkThoughts \cup {Off}
      /\ content \in TalkContents
    BY <1>1, <1>2
  <2>2. m = TalkTurn(calls, rest, field, content)  OBVIOUS
  <2> HIDE DEF field, content, m
  <2>3. /\ TalkTurn(calls, rest, field, content) \in TalkMsg
        /\ TalkTurn(calls, rest, field, content).role = "assistant"
        /\ TalkTurn(calls, rest, field, content).calls = calls
    BY <2>1 DEF TalkTurn, Talk!Message, TalkMsg, TalkSent
  <2> QED  BY <2>2, <2>3
<1>4. msgs' = [msgs EXCEPT ![t] = ms \o ext]
      /\ work' = [work EXCEPT ![t] = IF calls = <<>> THEN Talk!Spoken(a, rest) ELSE a]
  BY DEF Talk!Answered, TalkTurn, TalkRest, rest
<1> HIDE DEF m
<1>5. a \in TalkWork /\ a.pc = "act" /\ a.batch = calls /\ a.steps = w.steps + 1 /\ a.sig = w.sig
      /\ a.repeats = w.repeats /\ a.end = w.end
  <2> DEFINE u == work[t]
  <2>1. u \in TalkWork /\ calls \in Seq(TalkAllCalls) /\ a = [u EXCEPT !.steps = u.steps + 1,
      !.pc = "act", !.batch = calls]
    BY <1>1
  <2> HIDE DEF a, u
  <2>2. /\ a \in TalkWork /\ a.pc = "act" /\ a.batch = calls /\ a.steps = u.steps + 1
           /\ a.sig = u.sig
        /\ a.repeats = u.repeats /\ a.end = u.end
    BY <2>1, TalkActIs
  <2> QED  BY <2>2 DEF u
<1>6. a.steps <= MaxSteps[t] /\ a.end = "none" /\ w.steps \in Nat
  BY <1>1, <1>5 DEF TalkMine, TalkPlaces, TalkWork
<1> HIDE DEF a
<1>7. ext \in Seq(TalkMsg) /\ Len(ext) \in {1, 2} /\ ext[1] = m /\ \A k \in 1 .. Len(ext) : k # 1
    => ext[k].role = "system"
  <2>1. Talk!Said("system") \in TalkMsg /\ Talk!Said("system").role = "system"  BY TalkSaidIs
  <2> QED  BY <2>1, <1>3
<1> HIDE DEF ext
<1>8. mt = ms \o ext /\ v = (IF calls = <<>> THEN Talk!Spoken(a, rest) ELSE a)  BY <1>1, <1>4
<1>9. /\ mt \in Seq(TalkMsg) /\ TalkKeeps(ms, mt) /\ Len(mt) = Len(ms) + Len(ext)
         /\ mt[Len(ms) + 1] = m
      /\ \A j \in DOMAIN mt : j > Len(ms) => j = Len(ms) + 1 \/ mt[j].role = "system"
  <2>1. /\ mt \in Seq(TalkMsg) /\ TalkKeeps(ms, mt) /\ Len(mt) = Len(ms) + Len(ext)
        /\ \A k \in 1 .. Len(ext) : mt[Len(ms) + k] = ext[k]
        /\ \A j \in DOMAIN mt : j <= Len(ms) \/ j - Len(ms) \in 1 .. Len(ext)
    BY <1>1, <1>7, <1>8, TalkBehind
  <2>2. mt[Len(ms) + 1] = m  BY <2>1, <1>7
  <2>3. ASSUME NEW j \in DOMAIN mt, j > Len(ms), j # Len(ms) + 1 PROVE mt[j].role = "system"
    <3>1. j - Len(ms) \in 1 .. Len(ext) /\ j - Len(ms) # 1 /\ Len(ms) + (j - Len(ms)) = j
        /\ Len(ms) \in Nat
      BY <2>1, <2>3, <1>1
    <3> QED  BY <3>1, <2>1, <1>7
  <2> QED  BY <2>1, <2>2, <2>3
<1> DEFINE p == Len(ms) + 1
<1>10. p \in DOMAIN mt /\ p \in Nat /\ Len(ms) \in Nat /\ DOMAIN mt = 1..Len(mt)
    /\ DOMAIN ms = 1..Len(ms)
  BY <1>7, <1>9, <1>1
<1>11. v \in TalkWork /\ (v.pc = "over" \/ (v.pc = "top" /\ calls = <<>>)
    \/ (v.pc = "act" /\ calls # <<>> /\ v.batch = calls))
       /\ (v.pc # "over" => v.sig = w.sig /\ v.repeats = w.repeats) /\ TalkPlaces(v, MaxSteps[t])
  <2>1. CASE calls # <<>>
    BY <2>1, <1>5, <1>6, <1>8 DEF TalkPlaces
  <2>2. CASE calls = <<>> /\ a.steps = 1 /\ rest # <<>>
    <3>1. v = Talk!End(a, "delivered")  BY <2>2, <1>8 DEF Talk!Spoken
    <3> QED  BY <3>1, <1>1, <1>5, <1>6, TalkEndIs
  <2>3. CASE calls = <<>> /\ ~ (a.steps = 1 /\ rest # <<>>)
    <3>1. v = [a EXCEPT !.pc = "top"]  BY <2>3, <1>8 DEF Talk!Spoken
    <3>2. v \in TalkWork /\ v.pc = "top" /\ v.batch = <<>> /\ v.steps = a.steps /\ v.end = a.end
        /\ v.sig = a.sig /\ v.repeats = a.repeats
      BY <3>1, <2>3, <1>5 DEF TalkWork
    <3> QED  BY <3>2, <2>3, <1>5, <1>6 DEF TalkPlaces
  <2> QED  BY <2>1, <2>2, <2>3
<1>12. TalkCounts(mt, v) /\ TalkNoSpin(mt)
  <2>1. \A j \in Talk!Ran(mt) : j <= Len(ms)
    <3> SUFFICES ASSUME NEW j \in Talk!Ran(mt), j > Len(ms) PROVE FALSE  BY <1>10 DEF Talk!Ran
    <3>1. j \in DOMAIN mt /\ mt[j].role = "tool"  BY DEF Talk!Ran
    <3> QED  BY <3>1, <1>3, <1>9
  <2>2. TalkNoSpin(mt)  BY <2>1, <1>1, <1>9, TalkSameRuns DEF TalkMine
  <2>3. CASE v.pc = "over"  BY <2>2, <2>3 DEF TalkCounts
  <2>4. CASE v.pc # "over"
    <3>1. v.sig = w.sig /\ v.repeats = w.repeats /\ TalkCounts(ms, w) /\ w.pc # "over"
      BY <2>4, <1>1, <1>11 DEF TalkMine
    <3> QED  BY <3>1, <2>1, <2>2, <1>1, <1>9, TalkSameRuns
  <2> QED  BY <2>3, <2>4
<1> HIDE DEF v, mt, p
<1>13. \A i \in TalkSaid(mt) : i = p \/ (i \in TalkSaid(ms) /\ mt[i].calls = ms[i].calls)
  <2> TAKE i \in TalkSaid(mt)
  <2>1. i \in DOMAIN mt /\ mt[i].role = "assistant"  BY DEF TalkSaid
  <2>2. i = p \/ i <= Len(ms)  BY <2>1, <1>9, <1>10 DEF p
  <2>3. i <= Len(ms) => i \in DOMAIN ms  BY <2>1, <1>10
  <2> QED  BY <2>1, <2>2, <2>3, <1>9 DEF TalkSaid, TalkKeeps
<1>14. p \in TalkSaid(mt) /\ mt[p].calls = calls /\ \A j \in TalkSaid(mt) : j <= p
  <2>1. p \in TalkSaid(mt) /\ mt[p].calls = calls  BY <1>3, <1>9, <1>10 DEF TalkSaid, p
  <2>2. \A j \in TalkSaid(ms) : j <= p  BY <1>10 DEF TalkSaid, p
  <2> QED  BY <2>1, <2>2, <1>10, <1>13
<1>15. ASSUME NEW i \in TalkSaid(mt), i # p PROVE Talk!Replied(mt, i, Len(mt[i].calls))
  <2>1. i \in TalkSaid(ms) /\ mt[i].calls = ms[i].calls  BY <1>13, <1>15
  <2>2. Talk!Replied(ms, i, Len(ms[i].calls))  BY <2>1, <1>1 DEF TalkMine, TalkServed
  <2>3. Len(ms[i].calls) \in Nat  BY <2>1, <1>1 DEF TalkMsg, TalkSaid
  <2>4. \A j \in DOMAIN mt : ~ (j > Len(ms) /\ mt[j].role = "tool")  BY <1>3, <1>9
  <2> DEFINE n == Len(ms[i].calls)
  <2>5. n \in Nat /\ Talk!Replied(ms, i, n) /\ n <= Len(ms[i].calls)  BY <2>2, <2>3
  <2>6. n = Len(mt[i].calls)  BY <2>1
  <2> HIDE DEF n
  <2>7. Talk!Replied(mt, i, n)  BY <2>1, <2>5, <2>4, <1>1, <1>9, TalkStillReplied
  <2> QED  BY <2>6, <2>7
<1>16. Talk!Replied(mt, p, 0)
  <2>1. \A j \in DOMAIN mt : j > p => mt[j].role # "tool"
    <3> SUFFICES ASSUME NEW j \in DOMAIN mt, j > p PROVE mt[j].role # "tool"  OBVIOUS
    <3>1. j > Len(ms) /\ j # Len(ms) + 1  BY <1>10 DEF p
    <3> QED  BY <3>1, <1>9
  <2> QED  BY <2>1, <1>9, <1>10, TalkNoReplyYet
<1>17. TalkServed(mt, v)
  <2>1. CASE v.pc = "over"  BY <2>1 DEF TalkServed
  <2>2. CASE v.pc = "top" /\ calls = <<>>
    <3>1. \A i \in TalkSaid(mt) : Talk!Replied(mt, i, Len(mt[i].calls))
      <4>1. Len(mt[p].calls) = 0  BY <2>2, <1>14
      <4> QED  BY <4>1, <1>15, <1>16
    <3> QED  BY <3>1, <2>2 DEF TalkServed
  <2>3. CASE v.pc = "act" /\ calls # <<>> /\ v.batch = calls
    <3>1. \A i \in TalkSaid(mt) : (\E j \in TalkSaid(mt) : i < j)
        => Talk!Replied(mt, i, Len(mt[i].calls))
      <4>1. \A j \in TalkSaid(mt) : ~ (p < j)
        <5>1. \A j \in TalkSaid(mt) : j \in Nat  BY <1>10 DEF TalkSaid
        <5> QED  BY <5>1, <1>10, <1>14
      <4> QED  BY <4>1, <1>15
    <3>2. 0 \in 0 .. Len(mt[p].calls) /\ Len(v.batch) = Len(mt[p].calls) - 0
          /\ \A k \in 1 .. Len(v.batch) : v.batch[k] = mt[p].calls[0 + k]
      BY <2>3, <1>1, <1>14
    <3> QED  BY <3>1, <3>2, <2>3, <1>14, <1>16 DEF TalkServed
  <2> QED  BY <2>1, <2>2, <2>3, <1>11
<1>18. msgs' = [msgs EXCEPT ![t] = mt] /\ work' = [work EXCEPT ![t] = v]  BY <1>4, <1>8
<1>19. TalkTaskStep(t)  BY <1>9, <1>11, <1>12, <1>17, <1>18 DEF TalkTaskStep, TalkMine, mt, v
<1> QED  BY <1>9, <1>10, <1>19 DEF mt, p, m, rest

\* What a task has said stays where it is.
LEMMA TalkMessageStays ==
  ASSUME TalkIInv, NEW t \in Tasks, TalkTaskStep(t), NEW u \in Tasks, NEW j \in DOMAIN msgs[u]
  PROVE  /\ j \in DOMAIN msgs'[u] /\ msgs'[u][j].role = msgs[u][j].role
            /\ msgs'[u][j].calls = msgs[u][j].calls
         /\ msgs'[u][j].sent = msgs[u][j].sent
<1>1. msgs \in [Tasks -> Seq(TalkMsg)]  BY DEF TalkIInv, TalkTypes
<1>2. CASE u = t
  <2>1. msgs[t] \in Seq(TalkMsg) /\ msgs'[t] \in Seq(TalkMsg) /\ TalkKeeps(msgs[t], msgs'[t])
      /\ j \in DOMAIN msgs[t]
    BY <1>1, <1>2 DEF TalkTaskStep
  <2> QED  BY <2>1, <1>2 DEF TalkKeeps
<1>3. CASE u # t
  <2>1. msgs'[u] = msgs[u]  BY <1>1, <1>3 DEF TalkTaskStep
  <2> QED  BY <2>1
<1> QED  BY <1>2, <1>3

\* What the answer leaves in the cache.
LEMMA TalkAnsweredCache ==
  ASSUME TalkAssumed, TalkIInv, NEW t \in Tasks, NEW calls \in Batches[t],
      NEW said \in TalkSayings(t),
         Talk!Answered(t, calls, said[1], said[2])
  PROVE  TalkShape(TalkCache)' /\ TalkFromAnswers' /\ TalkNewestIsThere'
<1> DEFINE field == said[1]
           content == said[2]
           prefix == Talk!Prefix(content)
           rest == TalkRest(content)
           m == TalkTurn(calls, rest, field, content)
           c == Talk!Remember(calls, field, prefix)
           p == Len(msgs[t]) + 1
<1>1. /\ field \in TalkThoughts \cup {Off} /\ content \in TalkContents /\ prefix \in TalkContents
         /\ rest \in TalkContents
      /\ field # Off \/ prefix # <<>> =>
           /\ rest = <<>> \/ ~Talk!IsThought(Head(rest))
           /\ prefix \o rest = content
  BY TalkSayingIs DEF TalkRest
<1>2. calls \in Seq(TalkAllCalls) /\ TalkShape(TalkCache)  BY DEF TalkAssumed, TalkIInv
<1>3. /\ echo' = c.map /\ order' = c.order
      /\ newest' = IF calls # <<>> /\ (field # Off \/ prefix # <<>>) THEN m ELSE newest
  BY DEF Talk!Answered, TalkTurn, TalkRest
<1>4. TalkTaskStep(t) /\ p \in DOMAIN msgs'[t] /\ msgs'[t][p] = m
  BY TalkAnsweredStep
<1> HIDE DEF m, p, rest, prefix
<1>5. m \in TalkMsg /\ m.role = "assistant" /\ m.calls = calls /\ m.content = rest
      /\ m.sent.fields = field /\ m.sent.content = content
  <2> HIDE DEF field, content
  <2> QED  BY <1>1, <1>2 DEF m, TalkTurn, Talk!Message, TalkMsg, TalkSent
<1>6. /\ TalkShape(c)
      /\ (field = Off /\ prefix = <<>>) \/ calls = <<>> => c = TalkCache
      /\ \A id \in DOMAIN c.map :
           \/ id \in DOMAIN echo /\ c.map[id] = echo[id]
           \/ \E k \in DOMAIN calls : calls[k].id = id /\ c.map[id] =
              TalkWhat(calls[k], field, prefix)
      /\ field # Off \/ prefix # <<>> =>
           /\ calls # <<>> => LET last == calls[Len(calls)] IN
                last.id \in DOMAIN c.map /\ c.map[last.id] = TalkWhat(last, field, prefix)
           /\ \A k \in DOMAIN calls : calls[k].id \in DOMAIN c.map =>
                c.map[calls[k].id].fields = field /\ c.map[calls[k].id].prefix = prefix
  <2> HIDE DEF field
  <2> QED  BY <1>1, <1>2, TalkRememberIs
<1> HIDE DEF c, field, content
<1>7. TalkShape(TalkCache)'
  BY <1>3, <1>6 DEF TalkShape, TalkCache
<1>8. TalkFromAnswers'
  <2> SUFFICES ASSUME NEW id \in DOMAIN echo' PROVE TalkThought(id)'  BY DEF TalkFromAnswers
  <2>1. CASE id \in DOMAIN echo /\ c.map[id] = echo[id]
    <3>1. TalkThought(id)  BY <2>1 DEF TalkIInv, TalkFromAnswers
    <3>0. PICK u \in Tasks : \E j \in DOMAIN msgs[u] :
            /\ msgs[u][j].role = "assistant" /\ msgs[u][j].sent.fields = echo[id].fields
            /\ \E k \in DOMAIN msgs[u][j].calls :
                 /\ msgs[u][j].calls[k].id = id
                 /\ Talk!Fingerprint(msgs[u][j].calls[k]) = echo[id].fingerprint
      BY <3>1 DEF TalkThought
    <3>2. PICK j \in DOMAIN msgs[u] :
            /\ msgs[u][j].role = "assistant" /\ msgs[u][j].sent.fields = echo[id].fields
            /\ \E k \in DOMAIN msgs[u][j].calls :
                 /\ msgs[u][j].calls[k].id = id
                 /\ Talk!Fingerprint(msgs[u][j].calls[k]) = echo[id].fingerprint
      BY <3>0
    <3>3. /\ j \in DOMAIN msgs'[u] /\ msgs'[u][j].role = msgs[u][j].role
             /\ msgs'[u][j].calls = msgs[u][j].calls
          /\ msgs'[u][j].sent = msgs[u][j].sent
      BY <1>4, TalkMessageStays
    <3>4. echo'[id] = echo[id]  BY <2>1, <1>3
    <3> QED  BY <3>2, <3>3, <3>4 DEF TalkThought, Talk!Fingerprint
  <2>2. CASE \E k \in DOMAIN calls : calls[k].id = id /\ c.map[id] =
      TalkWhat(calls[k], field, prefix)
    <3>1. PICK k \in DOMAIN calls : calls[k].id = id /\ c.map[id] =
        TalkWhat(calls[k], field, prefix)
      BY <2>2
    <3>2. echo'[id].fields = field /\ echo'[id].fingerprint = Talk!Fingerprint(calls[k])
      BY <3>1, <1>3 DEF TalkWhat
    <3> QED  BY <3>1, <3>2, <1>4, <1>5 DEF TalkThought, Talk!Fingerprint
  <2> QED  BY <2>1, <2>2, <1>3, <1>6
<1>9. TalkNewestIsThere'
  <2>1. CASE calls # <<>> /\ (field # Off \/ prefix # <<>>)
    <3>1. newest' = m  BY <2>1, <1>3
    <3>2. LET last == calls[Len(calls)] IN
            last.id \in DOMAIN echo' /\ echo'[last.id].fingerprint = Talk!Fingerprint(last)
      BY <2>1, <1>3, <1>6 DEF TalkWhat
    <3>3. \A k \in DOMAIN calls : calls[k].id \in DOMAIN echo' =>
            echo'[calls[k].id].fields = field /\ echo'[calls[k].id].prefix = prefix
      BY <2>1, <1>3, <1>6
    <3>4. newest'.role = "assistant" /\ newest'.calls = calls /\ newest'.content = rest
          /\ newest'.sent.fields = field /\ newest'.sent.content = content
      BY <3>1, <1>5
    <3>5. (rest = <<>> \/ ~Talk!IsThought(Head(rest))) /\ prefix \o rest = content  BY <2>1, <1>1
    <3>6. \A k \in DOMAIN calls : calls[k].id \in DOMAIN echo' =>
            echo'[calls[k].id].fields = field /\ echo'[calls[k].id].prefix \o rest = content
      BY <3>3, <3>5
    <3> QED
      BY <3>2, <3>4, <3>5, <3>6, <2>1, <1>2 DEF TalkNewestIsThere, Talk!Fingerprint,
         Talk!IsThought
  <2>2. CASE ~ (calls # <<>> /\ (field # Off \/ prefix # <<>>))
    <3>1. newest' = newest  BY <2>2, <1>3
    <3>2. c = TalkCache  BY <2>2, <1>6
    <3>3. echo' = echo  BY <3>2, <1>3 DEF TalkCache
    <3> QED  BY <3>1, <3>3 DEF TalkIInv, TalkNewestIsThere, Talk!Fingerprint, Talk!IsThought
  <2> QED  BY <2>1, <2>2
<1> QED  BY <1>7, <1>8, <1>9


\* The replies to the next m calls: the first was run and counted, the others were not run.
LEMMA TalkRepliesCome ==
  ASSUME TalkAssumed, NEW ms \in Seq(TalkMsg), NEW w \in TalkWork, NEW max, TalkMine(ms, w, max),
      w.pc = "act",
         NEW ext \in Seq(TalkMsg), NEW m \in Nat \ {0}, m <= Len(w.batch), m <= Len(ext),
         \A k \in 1 .. m : ext[k].role = "tool" /\ ext[k].reply = w.batch[k]
                           /\ (ext[k].content = <<"skipped">> <=> k # 1),
         \A k \in 1 .. Len(ext) : k > m => ext[k].role = "system",
         NEW v \in TalkWork, v.sig = Talk!Signature(w.batch[1]),
         v.repeats = (IF w.sig = Talk!Signature(w.batch[1]) THEN w.repeats + 1 ELSE 1),
         w.batch[1].name \in Local \/ v.repeats < MaxRepeats,
         (v.pc = "top" /\ m = Len(w.batch)) \/ (v.pc = "act" /\ m < Len(w.batch)),
         Len(v.batch) = Len(w.batch) - m, \A k \in 1 .. Len(v.batch) : v.batch[k] = w.batch[m + k]
  PROVE  LET mt == ms \o ext IN
         /\ mt \in Seq(TalkMsg) /\ TalkKeeps(ms, mt) /\ TalkNoSpin(mt) /\ TalkCounts(mt, v)
            /\ TalkServed(mt, v)
<1> DEFINE mt == ms \o ext
           L == Len(ms)
<1>1. /\ mt \in Seq(TalkMsg) /\ TalkKeeps(ms, mt) /\ Len(mt) = L + Len(ext)
      /\ \A k \in 1 .. Len(ext) : mt[L + k] = ext[k]
      /\ \A j \in DOMAIN mt : j <= L \/ j - L \in 1 .. Len(ext)
  BY TalkBehind
<1>2. L \in Nat /\ Len(ext) \in Nat /\ DOMAIN ms = 1..L /\ DOMAIN mt = 1..Len(mt)
    /\ w.batch \in Seq(TalkAllCalls)
      /\ Len(w.batch) \in Nat /\ 1 \in 1 .. m /\ w.batch[1] \in TalkAllCalls /\ w.repeats \in Nat
  <2>1. w.batch \in Seq(TalkAllCalls) /\ w.repeats \in Nat  BY DEF TalkWork
  <2>2. Len(w.batch) \in Nat /\ 1 \in 1 .. m /\ 1 \in 1..Len(w.batch)  BY <2>1
  <2> QED  BY <1>1, <2>1, <2>2
<1> HIDE DEF mt
<1>3. \A j \in DOMAIN mt : j > L =>
        /\ j - L \in 1 .. Len(ext) /\ L + (j - L) = j /\ mt[j] = ext[j - L]
        /\ (j - L \in 1 .. m \/ mt[j].role = "system")
  <2> SUFFICES ASSUME NEW j \in DOMAIN mt, j > L
               PROVE  /\ j - L \in 1 .. Len(ext) /\ L + (j - L) = j /\ mt[j] = ext[j - L]
                      /\ (j - L \in 1 .. m \/ mt[j].role = "system")
    OBVIOUS
  <2>1. j - L \in 1 .. Len(ext) /\ L + (j - L) = j  BY <1>1, <1>2
  <2>2. mt[j] = ext[j - L]  BY <2>1, <1>1
  <2> QED  BY <2>1, <2>2
<1>4. Talk!Ran(mt) = Talk!Ran(ms) \cup {L + 1}
  <2>1. ASSUME NEW j \in Talk!Ran(mt) PROVE j \in Talk!Ran(ms) \cup {L + 1}
    <3>1. j \in DOMAIN mt /\ mt[j].role = "tool" /\ mt[j].content # <<"skipped">>  BY DEF Talk!Ran
    <3>2. CASE j <= L
      <4>1. j \in DOMAIN ms  BY <3>1, <3>2, <1>2
      <4> QED  BY <4>1, <3>1, <1>1 DEF TalkKeeps, Talk!Ran
    <3>3. CASE j > L
      <4>1. j - L \in 1 .. m /\ mt[j] = ext[j - L] /\ L + (j - L) = j  BY <3>1, <3>3, <1>3
      <4>2. j - L = 1  BY <4>1, <3>1
      <4> QED  BY <4>1, <4>2
    <3> QED  BY <3>1, <3>2, <3>3, <1>2
  <2>2. Talk!Ran(ms) \subseteq Talk!Ran(mt)
    <3> SUFFICES ASSUME NEW j \in Talk!Ran(ms) PROVE j \in Talk!Ran(mt)  OBVIOUS
    <3>1. j \in 1..L /\ j \in DOMAIN ms /\ j \in DOMAIN mt  BY <1>1, <1>2 DEF Talk!Ran
    <3> QED  BY <3>1, <1>1 DEF TalkKeeps, Talk!Ran
  <2>3. L + 1 \in Talk!Ran(mt)
    <3>1. 1 \in 1 .. Len(ext) /\ L + 1 \in DOMAIN mt  BY <1>1, <1>2
    <3>2. mt[L + 1] = ext[1]  BY <3>1, <1>1
    <3> QED  BY <3>1, <3>2, <1>2 DEF Talk!Ran
  <2> QED  BY <2>1, <2>2, <2>3
<1>5. mt[L + 1].reply = w.batch[1]
  <2>1. 1 \in 1 .. Len(ext)  BY <1>1, <1>2
  <2> QED  BY <2>1, <1>1, <1>2
<1>6. TalkNoSpin(mt) /\ TalkCounts(mt, v)
  <2> DEFINE call == w.batch[1]
  <2>1. TalkCounts(ms, w) /\ TalkNoSpin(ms) /\ w.pc # "over" /\ call \in TalkAllCalls
      /\ mt[L + 1].reply = call
    BY <1>2, <1>5 DEF TalkMine
  <2>2. v.sig = Talk!Signature(call) /\ v.repeats = (IF w.sig =
      Talk!Signature(call) THEN w.repeats + 1 ELSE 1)
        /\ (call.name \in Local \/ v.repeats < MaxRepeats)
    OBVIOUS
  <2> HIDE DEF call
  <2>3. mt \in Seq(TalkMsg) /\ TalkKeeps(ms, mt) /\ Talk!Ran(mt) = Talk!Ran(ms) \cup {Len(ms) + 1}
      /\ mt[Len(ms) + 1].reply = call
        /\ w.repeats \in Nat
    BY <1>1, <1>2, <1>4, <2>1
  <2> QED  BY <2>1, <2>2, <2>3, TalkOneMoreRun, Zenon
<1>7. \A j \in DOMAIN mt : j > L => mt[j].role # "assistant"
  <2> SUFFICES ASSUME NEW j \in DOMAIN mt, j > L PROVE mt[j].role # "assistant"  OBVIOUS
  <2>1. mt[j].role = "system" \/ (j - L \in 1 .. m /\ mt[j] = ext[j - L])  BY <1>3
  <2> QED  BY <2>1
<1>8. \A i \in TalkSaid(mt) : i \in TalkSaid(ms) /\ mt[i].calls = ms[i].calls
  <2> TAKE i \in TalkSaid(mt)
  <2>1. i \in DOMAIN mt /\ mt[i].role = "assistant"  BY DEF TalkSaid
  <2>2. i \in DOMAIN ms  BY <2>1, <1>2, <1>7
  <2> QED  BY <2>1, <2>2, <1>1 DEF TalkSaid, TalkKeeps
<1>9. PICK i \in TalkSaid(ms) : \E n \in 0 .. Len(ms[i].calls) :
         /\ \A j \in TalkSaid(ms) : j <= i
         /\ Talk!Replied(ms, i, n) /\ Len(w.batch) = Len(ms[i].calls) - n
         /\ \A k \in 1 .. Len(w.batch) : w.batch[k] = ms[i].calls[n + k]
  BY DEF TalkMine, TalkServed
<1>10. PICK n \in 0 .. Len(ms[i].calls) :
         /\ \A j \in TalkSaid(ms) : j <= i
         /\ Talk!Replied(ms, i, n) /\ Len(w.batch) = Len(ms[i].calls) - n
         /\ \A k \in 1 .. Len(w.batch) : w.batch[k] = ms[i].calls[n + k]
  BY <1>9
<1>11. i \in 1..L /\ i \in DOMAIN ms /\ ms[i] \in TalkMsg /\ ms[i].calls \in Seq(TalkAllCalls)
       /\ Len(ms[i].calls) \in Nat /\ n \in Nat
  <2>1. i \in 1..L /\ i \in DOMAIN ms /\ ms[i] \in TalkMsg  BY <1>2 DEF TalkSaid
  <2>2. ms[i].calls \in Seq(TalkAllCalls)  BY <2>1 DEF TalkMsg
  <2> QED  BY <2>1, <2>2
<1>12. \A j \in TalkSaid(mt) : j <= i  BY <1>8, <1>10
<1>13. Talk!Replied(mt, i, n + m)
  <2>1. L + m <= Len(mt)  BY <1>1, <1>2
  <2>2. \A k \in 1 .. m : mt[L + k].role = "tool" /\ mt[L + k].reply = ms[i].calls[n + k]
    <3> TAKE k \in 1 .. m
    <3>1. k \in 1 .. Len(ext) /\ k \in 1 .. Len(w.batch)  BY <1>2
    <3>2. mt[L + k] = ext[k] /\ w.batch[k] = ms[i].calls[n + k]  BY <3>1, <1>1, <1>10
    <3>3. ext[k].role = "tool" /\ ext[k].reply = w.batch[k]  OBVIOUS
    <3> QED  BY <3>2, <3>3, Zenon
  <2>3. \A j \in DOMAIN mt : j > L + m => mt[j].role # "tool"
    <3> SUFFICES ASSUME NEW j \in DOMAIN mt, j > L + m PROVE mt[j].role # "tool"  OBVIOUS
    <3>1. j > L /\ ~ (j - L \in 1 .. m)  BY <1>2
    <3> QED  BY <3>1, <1>3
  <2> QED  BY <2>1, <2>2, <2>3, <1>1, <1>10, <1>11, <1>12, TalkRepliedFurther
<1>14. ASSUME NEW h \in TalkSaid(mt), h # i PROVE Talk!Replied(mt, h, Len(mt[h].calls))
  <2> DEFINE q == Len(ms[h].calls)
  <2>1. h \in TalkSaid(ms) /\ mt[h].calls = ms[h].calls /\ h \in DOMAIN ms /\ h < i
    <3>1. h \in TalkSaid(ms) /\ mt[h].calls = ms[h].calls /\ h <= i  BY <1>8, <1>10, <1>14
    <3>2. h \in 1..L  BY <3>1, <1>2 DEF TalkSaid
    <3> QED  BY <3>1, <3>2, <1>2, <1>11, <1>14
  <2>2. Talk!Replied(ms, h, q)  BY <2>1 DEF TalkMine, TalkServed
  <2>3. q \in Nat /\ q <= Len(ms[h].calls)
    <3>1. ms[h] \in TalkMsg  BY <2>1
    <3> QED  BY <3>1 DEF TalkMsg
  <2>4. Len(mt[h].calls) = q  BY <2>1
  <2>5. \A j \in DOMAIN mt : j > L /\ mt[j].role = "tool"
      => \E k \in h + 1 .. j : mt[k].role = "assistant"
    <3> SUFFICES ASSUME NEW j \in DOMAIN mt, j > L
        PROVE \E k \in h + 1 .. j : mt[k].role = "assistant"  OBVIOUS
    <3>1. i \in h + 1 .. j
      <4>1. h \in 1..L /\ j \in 1..Len(mt) /\ Len(mt) \in Nat  BY <2>1, <1>1, <1>2
      <4> QED  BY <4>1, <2>1, <1>2, <1>11
    <3>2. mt[i].role = "assistant"  BY <1>1, <1>11 DEF TalkKeeps, TalkSaid
    <3> QED  BY <3>1, <3>2
  <2> HIDE DEF q
  <2>6. Talk!Replied(mt, h, q)  BY <2>1, <2>2, <2>3, <2>5, <1>1, TalkStillReplied
  <2> QED  BY <2>4, <2>6
<1>15. i \in TalkSaid(mt) /\ mt[i].calls = ms[i].calls
  <2>1. i \in DOMAIN mt /\ mt[i].role = "assistant" /\ mt[i].calls = ms[i].calls
    BY <1>1, <1>2, <1>11 DEF TalkKeeps, TalkSaid
  <2> QED  BY <2>1 DEF TalkSaid
<1>16. TalkServed(mt, v)
  <2>1. CASE v.pc = "top" /\ m = Len(w.batch)
    <3>1. n + m = Len(mt[i].calls)  BY <2>1, <1>10, <1>11, <1>15
    <3>2. \A h \in TalkSaid(mt) : Talk!Replied(mt, h, Len(mt[h].calls))  BY <3>1, <1>13, <1>14
    <3> QED  BY <3>2, <2>1 DEF TalkServed
  <2>2. CASE v.pc = "act" /\ m < Len(w.batch)
    <3>1. \A h \in TalkSaid(mt) : (\E j \in TalkSaid(mt) : h < j)
        => Talk!Replied(mt, h, Len(mt[h].calls))
      <4>1. \A j \in TalkSaid(mt) : ~ (i < j)
        <5>1. \A j \in TalkSaid(mt) : j \in Nat  BY <1>2, <1>1 DEF TalkSaid
        <5> QED  BY <5>1, <1>11, <1>12
      <4> QED  BY <4>1, <1>14
    <3>2. n + m \in 0 .. Len(mt[i].calls) /\ Len(v.batch) = Len(mt[i].calls) - (n + m)
      BY <2>2, <1>2, <1>10, <1>11, <1>15
    <3>3. \A k \in 1 .. Len(v.batch) : v.batch[k] = mt[i].calls[(n + m) + k]
      <4> TAKE k \in 1 .. Len(v.batch)
      <4>1. m + k \in 1 .. Len(w.batch) /\ n + (m + k) = (n + m) + k  BY <2>2, <1>2, <1>11
      <4>2. v.batch[k] = w.batch[m + k] /\ w.batch[m + k] = ms[i].calls[n + (m + k)]
        BY <4>1, <1>10
      <4> QED  BY <4>1, <4>2, <1>15
    <3> QED  BY <3>1, <3>2, <3>3, <2>2, <1>12, <1>13, <1>15 DEF TalkServed
  <2> QED  BY <2>1, <2>2
<1> QED  BY <1>1, <1>6, <1>16 DEF mt


\* A counted call: the replies ext to the next m calls come, and v is where the task goes on.
TalkGoes(w, ext, m, v) ==
  /\ m <= Len(w.batch) /\ m <= Len(ext)
  /\ \A k \in 1 .. m : ext[k].role = "tool" /\ ext[k].reply = w.batch[k]
                       /\ (ext[k].content = <<"skipped">> <=> k # 1)
  /\ \A k \in 1 .. Len(ext) : k > m => ext[k].role = "system"
  /\ v.sig = Talk!Signature(w.batch[1])
  /\ v.repeats = (IF w.sig = Talk!Signature(w.batch[1]) THEN w.repeats + 1 ELSE 1)
  /\ w.batch[1].name \in Local \/ v.repeats < MaxRepeats
  /\ (v.pc = "top" /\ m = Len(w.batch)) \/ (v.pc = "act" /\ m < Len(w.batch))
  /\ Len(v.batch) = Len(w.batch) - m /\ \A k \in 1 .. Len(v.batch) : v.batch[k] = w.batch[m + k]
  /\ v.steps = w.steps /\ v.end = w.end

LEMMA TalkGoesOn ==
  ASSUME TalkAssumed, TalkIInv, NEW t \in Tasks, Talk!At(t, "act"),
         NEW ext \in Seq(TalkMsg), NEW m \in Nat \ {0}, NEW v \in TalkWork,
             TalkGoes(work[t], ext, m, v),
         NEW u \in TalkWork, u.steps = work[t].steps,
         NEW how \in {"invalid_args", "sandbox"}, NEW x, x = v \/ x = Talk!End(u, how),
         msgs' = [msgs EXCEPT ![t] = @ \o ext], work' = [work EXCEPT ![t] = x]
  PROVE  TalkTaskStep(t)
<1> DEFINE ms == msgs[t]
           w == work[t]
           mt == ms \o ext
<1>1. ms \in Seq(TalkMsg) /\ w \in TalkWork /\ TalkMine(ms, w, MaxSteps[t]) /\ MaxSteps[t] \in Nat
    /\ w.pc = "act"
      /\ msgs \in [Tasks -> Seq(TalkMsg)] /\ work \in [Tasks -> TalkWork]
  BY DEF TalkIInv, TalkTypes, Talk!At, TalkAssumed
<1>2. w.steps <= MaxSteps[t] /\ w.end = "none" /\ Len(w.batch) \in Nat
  BY <1>1 DEF TalkMine, TalkPlaces, TalkWork
<1>3. mt \in Seq(TalkMsg) /\ TalkKeeps(ms, mt) /\ TalkNoSpin(mt) /\ TalkCounts(mt, v)
    /\ TalkServed(mt, v)
  <2> DEFINE max == MaxSteps[t]
  <2>1. TalkGoes(w, ext, m, v)  OBVIOUS
  <2> HIDE DEF mt, max
  <2>2. TalkMine(ms, w, max)  BY <1>1 DEF max
  <2> HIDE DEF ms, w
  <2>3. ms \in Seq(TalkMsg) /\ w \in TalkWork /\ w.pc = "act"  BY <1>1
  <2> QED  BY <2>1, <2>2, <2>3, TalkRepliesCome DEF mt, TalkGoes
<1>4. TalkPlaces(v, MaxSteps[t])
  <2>0. /\ (v.pc = "top" /\ m = Len(w.batch)) \/ (v.pc = "act" /\ m < Len(w.batch))
        /\ Len(v.batch) = Len(w.batch) - m /\ v.steps = w.steps /\ v.end = w.end
    BY DEF TalkGoes
  <2>1. v.pc = "act" <=> v.batch # <<>>
    <3>1. v.batch \in Seq(TalkAllCalls)  BY DEF TalkWork
    <3>2. v.pc = "top" => Len(v.batch) = 0  BY <2>0, <1>2
    <3>3. v.pc = "act" => Len(v.batch) # 0  BY <2>0, <1>2
    <3> QED  BY <2>0, <3>1, <3>2, <3>3
  <2> QED  BY <2>0, <2>1, <1>2 DEF TalkPlaces
<1>5. TalkMine(mt, v, MaxSteps[t])  BY <1>3, <1>4 DEF TalkMine
<1>6. x \in TalkWork /\ TalkMine(mt, x, MaxSteps[t])
  <2>1. CASE x = v  BY <2>1, <1>5
  <2>2. CASE x = Talk!End(u, how)
    <3>1. u.steps <= MaxSteps[t]  BY <1>2
    <3> QED  BY <2>2, <3>1, <1>1, <1>3, TalkEndIs
  <2> QED  BY <2>1, <2>2
<1>7. msgs'[t] = mt /\ work'[t] = x  BY <1>1
<1> QED  BY <1>1, <1>3, <1>6, <1>7 DEF TalkTaskStep

LEMMA TalkUnparsedIs ==
  ASSUME NEW w \in TalkWork
  PROVE  LET v == [w EXCEPT !.invalid = w.invalid + 1, !.batch = <<>>, !.pc = "top"] IN
         /\ v \in TalkWork /\ v.pc = "top" /\ v.batch = <<>> /\ v.sig = w.sig
            /\ v.repeats = w.repeats
         /\ v.steps = w.steps /\ v.end = w.end
<1>1. w.invalid + 1 \in Nat /\ <<>> \in Seq(TalkAllCalls)  BY DEF TalkWork
<1> QED  BY <1>1 DEF TalkWork

LEMMA TalkFinalRefusedStep ==
  ASSUME TalkAssumed, TalkIInv, NEW t \in Tasks, Talk!FinalRefused(t)  PROVE TalkTaskStep(t)
<1> DEFINE b == work[t].batch
           call == Head(b)
           w == Talk!Counted(work[t], call)
           v == [w EXCEPT !.invalid = @ + 1, !.batch = <<>>, !.pc = "top"]
           m == Len(b)
           ext == [i \in DOMAIN w.batch |-> Talk!Reply(w.batch[i], IF i = 1 THEN "short"
               ELSE "skipped")]
           x == IF v.invalid >= MaxInvalid THEN Talk!End(v, "invalid_args") ELSE v
<1>1. /\ Talk!At(t, "act") /\ call.name = "final"
      /\ msgs' = [msgs EXCEPT ![t] = @ \o ext] /\ work' = [work EXCEPT ![t] = x]
  BY DEF Talk!FinalRefused
<1>2. work[t] \in TalkWork /\ b # <<>>  BY <1>1 DEF TalkIInv, TalkTypes, Talk!At, TalkPlaces
<1>3. call = b[1] /\ call \in TalkAllCalls /\ m \in Nat \ {0} /\ b \in Seq(TalkAllCalls)
    /\ DOMAIN b = 1..m
  <2>1. b \in Seq(TalkAllCalls)  BY <1>2 DEF TalkWork
  <2> QED  BY <2>1, <1>2
<1> HIDE DEF call
<1>4. /\ w \in TalkWork /\ w.sig = Talk!Signature(call)
      /\ w.repeats = (IF work[t].sig = Talk!Signature(call) THEN work[t].repeats + 1 ELSE 1)
      /\ w.steps = work[t].steps /\ w.batch = b /\ w.end = work[t].end
  BY <1>2, <1>3, TalkCountedIs
<1> HIDE DEF w
<1>5. v \in TalkWork /\ v.pc = "top" /\ v.batch = <<>> /\ v.sig = w.sig /\ v.repeats = w.repeats
    /\ v.steps = w.steps /\ v.end = w.end
  <2> HIDE DEF v
  <2>1. v = [w EXCEPT !.invalid = w.invalid + 1, !.batch = <<>>, !.pc = "top"]  BY DEF v
  <2> QED  BY <2>1, <1>4, TalkUnparsedIs
<1> HIDE DEF v
<1>6. /\ ext \in Seq(TalkMsg) /\ Len(ext) = m
      /\ \A k \in 1 .. m : ext[k].role = "tool" /\ ext[k].reply = b[k]
                           /\ (ext[k].content = <<"skipped">> <=> k # 1)
  <2> DEFINE size(i) == IF i = 1 THEN "short" ELSE "skipped"
  <2>1. ext = [i \in 1..m |-> Talk!Reply(b[i], size(i))]  BY <1>3, <1>4
  <2> HIDE DEF ext
  <2>2. \A i \in 1..m : b[i] \in TalkAllCalls /\ size(i) \in {"long", "short", "skipped"}  BY <1>3
  <2>3. \A i \in 1..m : LET r == Talk!Reply(b[i], size(i)) IN
           r \in TalkMsg /\ r.role = "tool" /\ r.reply = b[i] /\ r.content = <<size(i)>>
    <3> TAKE i \in 1..m
    <3> DEFINE c == b[i]
               z == size(i)
    <3>1. c \in TalkAllCalls /\ z \in {"long", "short", "skipped"}  BY <2>2
    <3> HIDE DEF c, z
    <3> QED  BY <3>1, TalkReplyIs DEF c, z
  <2>4. \A i \in 1..m : <<size(i)>> = <<"skipped">> <=> i # 1  OBVIOUS
  <2> HIDE DEF size
  <2>5. ext \in Seq(TalkMsg) /\ Len(ext) = m
    <3>1. ext \in [1..m -> TalkMsg]  BY <2>1, <2>3
    <3> QED  BY <3>1, <1>3, TalkIsSeq
  <2> QED  BY <2>1, <2>3, <2>4, <2>5
<1> HIDE DEF ext
<1>7. "final" \in Local  BY DEF TalkAssumed
<1>8. x = v \/ x = Talk!End(v, "invalid_args")  OBVIOUS
<1> HIDE DEF x, b, m
<1>9. \A k \in 1 .. Len(ext) : ~ (k > m)  BY <1>6, <1>3
<1>10. Len(v.batch) = 0 /\ m - m = 0 /\ m <= m /\ m <= Len(ext)  BY <1>3, <1>5, <1>6
<1>11. /\ v.sig = Talk!Signature(b[1])
       /\ v.repeats = (IF work[t].sig = Talk!Signature(b[1]) THEN work[t].repeats + 1 ELSE 1)
       /\ b[1].name \in Local /\ v.steps = work[t].steps /\ v.end = work[t].end
  BY <1>1, <1>3, <1>4, <1>5, <1>7
<1>12. \A k \in 1 .. Len(v.batch) : v.batch[k] = b[m + k]  BY <1>10
<1>13. TalkGoes(work[t], ext, m, v)
  <2> DEFINE u == work[t]
  <2>1. u.batch = b /\ Len(b) = m  BY DEF m, b
  <2>2. u = work[t]  OBVIOUS
  <2> HIDE DEF u
  <2>3. /\ u.batch[1].name \in Local /\ v.sig = Talk!Signature(u.batch[1])
        /\ v.repeats = (IF u.sig = Talk!Signature(u.batch[1]) THEN u.repeats + 1 ELSE 1)
        /\ v.steps = u.steps /\ v.end = u.end
    BY <1>11, <2>1, <2>2
  <2>4. \A k \in 1 .. m : ext[k].role = "tool" /\ ext[k].reply = u.batch[k]
                           /\ (ext[k].content = <<"skipped">> <=> k # 1)
    BY <1>6, <2>1
  <2>5. \A k \in 1 .. Len(ext) : k > m => ext[k].role = "system"  BY <1>9
  <2>6. Len(v.batch) = Len(u.batch) - m
      /\ \A k \in 1 .. Len(v.batch) : v.batch[k] = u.batch[m + k]
    BY <1>10, <1>12, <2>1
  <2>7. m <= Len(u.batch) /\ m <= Len(ext) /\ ((v.pc = "top" /\ m = Len(u.batch))
      \/ (v.pc = "act" /\ m < Len(u.batch)))
    BY <1>5, <1>10, <2>1
  <2>8. TalkGoes(u, ext, m, v)  BY <2>3, <2>4, <2>5, <2>6, <2>7 DEF TalkGoes
  <2> QED  BY <2>2, <2>8
<1> QED  BY <1>1, <1>3, <1>5, <1>6, <1>8, <1>11, <1>13, TalkGoesOn


\* The counters after a call, and the call that comes next.
LEMMA TalkScoredIs ==
  ASSUME NEW w \in TalkWork, NEW i \in Nat, NEW n \in Nat
  PROVE  LET v == [w EXCEPT !.invalid = i, !.sandbox = n] IN
         /\ v \in TalkWork /\ v.batch = w.batch /\ v.sig = w.sig /\ v.repeats = w.repeats
         /\ v.steps = w.steps /\ v.end = w.end
BY DEF TalkWork

LEMMA TalkAfterIs ==
  ASSUME NEW w \in TalkWork, w.batch # <<>>
  PROVE  LET v == Talk!AfterCall(w) IN
         /\ v \in TalkWork /\ v.sig = w.sig /\ v.repeats = w.repeats /\ v.steps = w.steps
            /\ v.end = w.end
         /\ Len(v.batch) = Len(w.batch) - 1
            /\ \A k \in 1 .. Len(v.batch) : v.batch[k] = w.batch[1 + k]
         /\ (v.pc = "top" /\ 1 = Len(w.batch)) \/ (v.pc = "act" /\ 1 < Len(w.batch))
<1> DEFINE v == Talk!AfterCall(w)
           b == Tail(w.batch)
           place == IF Len(w.batch) = 1 THEN "top" ELSE "act"
<1>1. w.batch \in Seq(TalkAllCalls) /\ Len(w.batch) \in Nat \ {0}  BY DEF TalkWork
<1>2. b \in Seq(TalkAllCalls) /\ Len(b) = Len(w.batch) - 1
    /\ \A k \in 1 .. Len(b) : b[k] = w.batch[1 + k]
  <2>1. w.batch \in Seq(TalkAllCalls) /\ w.batch # <<>>  BY <1>1
  <2>2. b \in Seq(TalkAllCalls) /\ Len(b) = Len(w.batch) - 1
      /\ \A k \in 1 .. Len(b) : b[k] = w.batch[k + 1]
    BY <2>1, HeadTailProperties
  <2>3. \A k \in 1 .. Len(b) : k + 1 = 1 + k  BY <2>2
  <2> QED  BY <2>2, <2>3
<1>3. v = [w EXCEPT !.batch = b, !.pc = place]  BY DEF Talk!AfterCall
<1>4. place \in {"top", "act"} /\ ((place = "top" /\ 1 = Len(w.batch))
    \/ (place = "act" /\ 1 < Len(w.batch)))
  <2>1. CASE Len(w.batch) = 1  BY <2>1
  <2>2. CASE Len(w.batch) # 1
    <3>1. place = "act"  BY <2>2
    <3> DEFINE n == Len(w.batch)
    <3>0. n \in Nat \ {0} /\ n # 1  BY <2>2, <1>1
    <3> HIDE DEF n
    <3>3. 1 < n  BY <3>0
    <3>2. 1 < Len(w.batch)  BY <3>3 DEF n
    <3> QED  BY <3>1, <3>2
  <2> QED  BY <2>1, <2>2
<1> HIDE DEF v, b, place
<1>5. v \in TalkWork /\ v.batch = b /\ v.pc = place /\ v.sig = w.sig /\ v.repeats = w.repeats
    /\ v.steps = w.steps /\ v.end = w.end
  BY <1>2, <1>3, <1>4 DEF TalkWork
<1> QED  BY <1>2, <1>4, <1>5 DEF v

LEMMA TalkRunStep ==
  ASSUME TalkAssumed, TalkIInv, NEW t \in Tasks, NEW outcome, Talk!Run(t, outcome)
      PROVE TalkTaskStep(t)
<1> DEFINE b == work[t].batch
           call == Head(b)
           w == Talk!Counted(work[t], call)
           nudge == call.name \notin Local /\ w.repeats = NudgeAt
           invalid == IF outcome = "invalid" THEN w.invalid + 1 ELSE IF outcome = "ok" THEN 0
               ELSE w.invalid
           boxed == IF outcome = "sandbox" THEN w.sandbox + 1 ELSE IF outcome = "ok" THEN 0
               ELSE w.sandbox
           v == [w EXCEPT !.invalid = IF outcome = "invalid" THEN @ + 1 ELSE
               IF outcome = "ok" THEN 0 ELSE @,
                          !.sandbox = IF outcome = "sandbox" THEN @ + 1 ELSE
                              IF outcome = "ok" THEN 0 ELSE @]
           size == IF outcome = "ok" THEN "long" ELSE "short"
           r == Talk!Reply(call, size)
           ext == IF nudge THEN <<r, Talk!Said("system")>> ELSE <<r>>
           how == IF v.invalid >= MaxInvalid THEN "invalid_args" ELSE "sandbox"
           x == IF v.invalid >= MaxInvalid THEN Talk!End(v, "invalid_args")
                ELSE IF v.sandbox >= MaxSandbox THEN Talk!End(v, "sandbox") ELSE Talk!AfterCall(v)
<1>1. /\ Talk!At(t, "act") /\ ~ Talk!Spins(work[t], call)
      /\ msgs' = [msgs EXCEPT ![t] = @ \o ext] /\ work' = [work EXCEPT ![t] = x]
  <2>1. Talk!At(t, "act") /\ ~ Talk!Spins(work[t], call)  BY DEF Talk!Run
  <2>2. msgs' = [msgs EXCEPT ![t] = @ \o ext]  BY DEF Talk!Run
  <2>3. work' = [work EXCEPT ![t] = x]  BY DEF Talk!Run
  <2> QED  BY <2>1, <2>2, <2>3
<1>2. work[t] \in TalkWork /\ b # <<>>  BY <1>1 DEF TalkIInv, TalkTypes, Talk!At, TalkPlaces
<1>3. call = b[1] /\ call \in TalkAllCalls /\ Len(b) \in Nat \ {0}
  <2>1. b \in Seq(TalkAllCalls)  BY <1>2 DEF TalkWork
  <2> QED  BY <2>1, <1>2
<1>4. call.name \in Local \/ ~ (w.repeats >= MaxRepeats)  BY <1>1 DEF Talk!Spins
<1> HIDE DEF call
<1>5. /\ w \in TalkWork /\ w.sig = Talk!Signature(call)
      /\ w.repeats = (IF work[t].sig = Talk!Signature(call) THEN work[t].repeats + 1 ELSE 1)
      /\ w.steps = work[t].steps /\ w.batch = b /\ w.end = work[t].end
  BY <1>2, <1>3, TalkCountedIs
<1> HIDE DEF w
<1>6. call.name \in Local \/ w.repeats < MaxRepeats
  <2>1. w.repeats \in Nat /\ MaxRepeats \in Nat  BY <1>5 DEF TalkWork, TalkAssumed
  <2> QED  BY <2>1, <1>4
<1>7. invalid \in Nat /\ boxed \in Nat  BY <1>5 DEF TalkWork
<1>8. size \in {"long", "short", "skipped"} /\ size # "skipped"  OBVIOUS
<1>9. r \in TalkMsg /\ r.role = "tool" /\ r.reply = call /\ r.content = <<size>>
  <2> HIDE DEF size
  <2> QED  BY <1>3, <1>8, TalkReplyIs
<1>a. v = [w EXCEPT !.invalid = invalid, !.sandbox = boxed]
  BY <1>5 DEF TalkWork
<1> HIDE DEF v, invalid, boxed, size, r
<1>10. v \in TalkWork /\ v.batch = b /\ v.sig = w.sig /\ v.repeats = w.repeats
    /\ v.steps = w.steps /\ v.end = w.end
  BY <1>5, <1>7, <1>a, TalkScoredIs
<1>11. (x = Talk!AfterCall(v) \/ x = Talk!End(v, how))
    /\ how \in {"invalid_args", "sandbox"}  OBVIOUS
<1>12. /\ ext \in Seq(TalkMsg) /\ Len(ext) \in Nat \ {0} /\ ext[1] = r
       /\ \A k \in 1 .. Len(ext) : k > 1 => ext[k].role = "system"
  <2>1. Talk!Said("system") \in TalkMsg /\ Talk!Said("system").role = "system"  BY TalkSaidIs
  <2> HIDE DEF nudge
  <2>2. Len(ext) \in {1, 2}  OBVIOUS
  <2> QED  BY <2>1, <2>2, <1>9
<1> HIDE DEF ext, how, x
<1>13. ext[1].role = "tool" /\ ext[1].reply = call /\ ext[1].content # <<"skipped">>
  BY <1>8, <1>9, <1>12
<1> DEFINE a == Talk!AfterCall(v)
<1>14. /\ a \in TalkWork /\ a.sig = v.sig /\ a.repeats = v.repeats /\ a.steps = v.steps
          /\ a.end = v.end
       /\ Len(a.batch) = Len(b) - 1 /\ \A k \in 1 .. Len(a.batch) : a.batch[k] = b[1 + k]
       /\ (a.pc = "top" /\ 1 = Len(b)) \/ (a.pc = "act" /\ 1 < Len(b))
  BY <1>2, <1>10, TalkAfterIs
<1> HIDE DEF a
<1>15. TalkGoes(work[t], ext, 1, a)
  <2> DEFINE u == work[t]
  <2>1. u.batch = b /\ u = work[t]  BY DEF b
  <2> HIDE DEF u, b
  <2>2. /\ u.batch[1] = call /\ a.sig = Talk!Signature(u.batch[1])
        /\ a.repeats = (IF u.sig = Talk!Signature(u.batch[1]) THEN u.repeats + 1 ELSE 1)
        /\ a.steps = u.steps /\ a.end = u.end
        /\ u.batch[1].name \in Local \/ a.repeats < MaxRepeats
    BY <1>3, <1>5, <1>6, <1>10, <1>14, <2>1
  <2>3. \A k \in 1 .. 1 : ext[k].role = "tool" /\ ext[k].reply = u.batch[k]
                           /\ (ext[k].content = <<"skipped">> <=> k # 1)
    BY <1>13, <2>2
  <2>4. 1 <= Len(u.batch) /\ 1 <= Len(ext)  BY <1>3, <1>12, <2>1
  <2>5. /\ Len(a.batch) = Len(u.batch) - 1
           /\ \A k \in 1 .. Len(a.batch) : a.batch[k] = u.batch[1 + k]
        /\ (a.pc = "top" /\ 1 = Len(u.batch)) \/ (a.pc = "act" /\ 1 < Len(u.batch))
    BY <1>14, <2>1
  <2>6. TalkGoes(u, ext, 1, a)  BY <1>12, <2>2, <2>3, <2>4, <2>5 DEF TalkGoes
  <2> QED  BY <2>1, <2>6
<1>16. v.steps = work[t].steps /\ (x = a \/ x = Talk!End(v, how))  BY <1>5, <1>10, <1>11 DEF a
<1>17. 1 \in Nat \ {0}  OBVIOUS
<1> HIDE DEF b
<1> QED  BY <1>1, <1>10, <1>11, <1>12, <1>14, <1>15, <1>16, <1>17, TalkGoesOn, Zenon


-----------------------------------------------------------------------------
LEMMA TalkStarts == ASSUME TalkAssumed, Talk!Init PROVE TalkIInv
<1>1. Talk!Fresh \in TalkWork /\ \A max \in Nat : TalkMine(<<>>, Talk!Fresh, max)
  <2>1. 0 \in 0..MaxSteers /\ 0 \in 0..Retries /\ <<>> \in Seq(TalkAllCalls)  BY DEF TalkAssumed
  <2>2. Talk!Fresh \in TalkWork /\ Talk!Fresh.pc = "top" /\ Talk!Fresh.steps = 0
      /\ Talk!Fresh.batch = <<>> /\ Talk!Fresh.end = "none"
    BY <2>1 DEF Talk!Fresh, TalkWork
  <2>3. Talk!Ran(<<>>) = {} /\ TalkSaid(<<>>) = {}  BY DEF Talk!Ran, TalkSaid
  <2>4. TalkNoSpin(<<>>)
    <3>1. MaxRepeats \in 1 .. MaxRepeats  BY DEF TalkAssumed
    <3>2. Talk!InARow(<<>>, MaxRepeats) = {}  BY <3>1, <2>3 DEF Talk!InARow
    <3> QED  BY <3>2 DEF TalkNoSpin
  <2>5. TalkServed(<<>>, Talk!Fresh)  BY <2>2, <2>3 DEF TalkServed
  <2>6. TalkCounts(<<>>, Talk!Fresh)  BY <2>3 DEF TalkCounts
  <2>7. \A max \in Nat : TalkPlaces(Talk!Fresh, max)  BY <2>2 DEF TalkPlaces
  <2> QED  BY <2>2, <2>4, <2>5, <2>6, <2>7 DEF TalkMine
<1>2. \A t \in Tasks : MaxSteps[t] \in Nat /\ msgs[t] = <<>> /\ work[t] = Talk!Fresh
  BY DEF TalkAssumed, Talk!Init
<1>3. \A t \in Tasks : TalkMine(msgs[t], work[t], MaxSteps[t])  BY <1>1, <1>2
<1>4. TalkTypes
  <2>1. <<>> \in Seq(TalkMsg)  OBVIOUS
  <2> QED  BY <1>1, <1>3, <2>1 DEF TalkTypes, Talk!Init, TalkMine
<1>5. TalkShape(TalkCache)
  <2>1. DOMAIN echo = {} /\ order = <<>>  BY DEF Talk!Init
  <2>2. TalkCache.map = echo /\ TalkCache.order = <<>>  BY <2>1 DEF TalkCache
  <2>3. <<>> \in Seq(DOMAIN echo) /\ Len(<<>>) = 0 /\ DOMAIN <<>> = {}  OBVIOUS
  <2>4. echo \in [DOMAIN echo -> TalkEntry]  BY DEF Talk!Init
  <2> QED  BY <2>1, <2>2, <2>3, <2>4 DEF TalkShape, TalkAssumed
<1>6. TalkFromAnswers /\ TalkNewestIsThere  BY DEF TalkFromAnswers, TalkNewestIsThere, Talk!Init
<1> QED  BY <1>3, <1>4, <1>5, <1>6 DEF TalkIInv

\* What is in the cache stays true of the messages.
LEMMA TalkStillThought ==
  ASSUME TalkIInv, NEW t \in Tasks, TalkTaskStep(t), UNCHANGED <<echo, newest>>
  PROVE  TalkFromAnswers' /\ TalkNewestIsThere'
<1>1. TalkFromAnswers'
  <2> SUFFICES ASSUME NEW id \in DOMAIN echo' PROVE TalkThought(id)'  BY DEF TalkFromAnswers
  <2>1. id \in DOMAIN echo /\ echo' = echo  OBVIOUS
  <2>2. TalkThought(id)  BY <2>1 DEF TalkIInv, TalkFromAnswers
  <2>3. PICK u \in Tasks : \E j \in DOMAIN msgs[u] :
          /\ msgs[u][j].role = "assistant" /\ msgs[u][j].sent.fields = echo[id].fields
          /\ \E k \in DOMAIN msgs[u][j].calls :
               /\ msgs[u][j].calls[k].id = id
               /\ Talk!Fingerprint(msgs[u][j].calls[k]) = echo[id].fingerprint
    BY <2>2 DEF TalkThought
  <2>4. PICK j \in DOMAIN msgs[u] :
          /\ msgs[u][j].role = "assistant" /\ msgs[u][j].sent.fields = echo[id].fields
          /\ \E k \in DOMAIN msgs[u][j].calls :
               /\ msgs[u][j].calls[k].id = id
               /\ Talk!Fingerprint(msgs[u][j].calls[k]) = echo[id].fingerprint
    BY <2>3
  <2>5. /\ j \in DOMAIN msgs'[u] /\ msgs'[u][j].role = msgs[u][j].role
           /\ msgs'[u][j].calls = msgs[u][j].calls
        /\ msgs'[u][j].sent = msgs[u][j].sent
    BY TalkMessageStays
  <2> QED  BY <2>1, <2>4, <2>5 DEF TalkThought, Talk!Fingerprint
<1>2. TalkNewestIsThere'
  BY DEF TalkIInv, TalkNewestIsThere, Talk!Fingerprint, Talk!IsThought
<1> QED  BY <1>1, <1>2

\* Each step of a task is one of these.
LEMMA TalkMoves ==
  ASSUME NEW t \in Tasks, Talk!Step(t)
  PROVE  \/ Talk!Top(t) /\ UNCHANGED Talk!Client
         \/ \E calls \in Batches[t], said \in TalkSayings(t) : Talk!Answered(t, calls, said[1],
            said[2])
         \/ \E class : Talk!Refused(t, class) /\ UNCHANGED Talk!Client
         \/ Talk!GiveUpRepeating(t) /\ UNCHANGED Talk!Client
         \/ Talk!FinalGiven(t) /\ UNCHANGED Talk!Client
         \/ Talk!FinalRefused(t) /\ UNCHANGED Talk!Client
         \/ \E outcome : Talk!Run(t, outcome) /\ UNCHANGED Talk!Client
<1>1. CASE Talk!Top(t)  BY <1>1 DEF Talk!Top
<1>2. CASE Talk!Answer(t)  BY <1>2 DEF Talk!Answer, TalkSayings
<1>3. CASE \E class \in {"never", "after", "default"} : Talk!Refused(t, class)
  <2>1. PICK class \in {"never", "after", "default"} : Talk!Refused(t, class)  BY <1>3
  <2>2. UNCHANGED Talk!Client  BY <2>1 DEF Talk!Refused
  <2> QED  BY <2>1, <2>2
<1>4. CASE Talk!GiveUpRepeating(t)  BY <1>4 DEF Talk!GiveUpRepeating
<1>5. CASE Talk!FinalGiven(t)  BY <1>5 DEF Talk!FinalGiven
<1>6. CASE Talk!FinalRefused(t)
  <2>1. UNCHANGED Talk!Client  BY <1>6 DEF Talk!FinalRefused
  <2> QED  BY <1>6, <2>1
<1>7. CASE \E outcome \in {"ok", "invalid", "sandbox"} : Talk!Run(t, outcome)
  <2>1. PICK outcome \in {"ok", "invalid", "sandbox"} : Talk!Run(t, outcome)  BY <1>7
  <2>2. UNCHANGED Talk!Client  BY <2>1 DEF Talk!Run
  <2> QED  BY <2>1, <2>2
<1> QED  BY <1>1, <1>2, <1>3, <1>4, <1>5, <1>6, <1>7 DEF Talk!Step

LEMMA TalkStepKeeps == ASSUME TalkAssumed, TalkIInv, NEW t \in Tasks, Talk!Step(t) PROVE TalkIInv'
<1>1. TalkTaskStep(t) /\ endpoint' = endpoint /\ (TalkShape(TalkCache) /\ TalkFromAnswers
    /\ TalkNewestIsThere)'
  <2>1. ASSUME TalkTaskStep(t), UNCHANGED Talk!Client
        PROVE  TalkTaskStep(t) /\ endpoint' = endpoint /\ (TalkShape(TalkCache) /\ TalkFromAnswers
            /\ TalkNewestIsThere)'
    <3>1. UNCHANGED <<endpoint, echo, order, newest>>  BY <2>1 DEF Talk!Client
    <3>2. TalkCache' = TalkCache /\ TalkShape(TalkCache)  BY <3>1 DEF TalkCache, TalkIInv
    <3>3. TalkShape(TalkCache)'  BY <3>1, <3>2 DEF TalkShape, TalkCache
    <3> QED  BY <2>1, <3>1, <3>3, TalkStillThought
  <2>2. CASE Talk!Top(t) /\ UNCHANGED Talk!Client  BY <2>1, <2>2, TalkTopStep
  <2>3. CASE \E calls \in Batches[t], said \in TalkSayings(t) : Talk!Answered(t, calls, said[1],
      said[2])
    <3>1. PICK calls \in Batches[t], said \in TalkSayings(t) : Talk!Answered(t, calls, said[1],
        said[2])
      BY <2>3
    <3>2. TalkTaskStep(t)  BY <3>1, TalkAnsweredStep
    <3>3. TalkShape(TalkCache)' /\ TalkFromAnswers' /\ TalkNewestIsThere'
      BY <3>1, TalkAnsweredCache
    <3>4. endpoint' = endpoint  BY <3>1 DEF Talk!Answered
    <3> QED  BY <3>2, <3>3, <3>4
  <2>4. CASE \E class : Talk!Refused(t, class) /\ UNCHANGED Talk!Client
    BY <2>1, <2>4, TalkRefusedStep
  <2>5. CASE Talk!GiveUpRepeating(t) /\ UNCHANGED Talk!Client  BY <2>1, <2>5, TalkGiveUpStep
  <2>6. CASE Talk!FinalGiven(t) /\ UNCHANGED Talk!Client  BY <2>1, <2>6, TalkFinalGivenStep
  <2>7. CASE Talk!FinalRefused(t) /\ UNCHANGED Talk!Client  BY <2>1, <2>7, TalkFinalRefusedStep
  <2>8. CASE \E outcome : Talk!Run(t, outcome) /\ UNCHANGED Talk!Client
    BY <2>1, <2>8, TalkRunStep
  <2> QED  BY <2>2, <2>3, <2>4, <2>5, <2>6, <2>7, <2>8, TalkMoves
<1>2. msgs \in [Tasks -> Seq(TalkMsg)] /\ work \in [Tasks -> TalkWork] /\ endpoint \in Endpoints
  BY DEF TalkIInv, TalkTypes
<1>3. msgs' \in [Tasks -> Seq(TalkMsg)] /\ work' \in [Tasks -> TalkWork]
  BY <1>1, <1>2 DEF TalkTaskStep
<1>4. \A u \in Tasks : TalkMine(msgs'[u], work'[u], MaxSteps[u])
  <2> TAKE u \in Tasks
  <2>1. CASE u = t  BY <2>1, <1>1 DEF TalkTaskStep
  <2>2. CASE u # t
    <3>1. msgs'[u] = msgs[u] /\ work'[u] = work[u]  BY <2>2, <1>1, <1>2 DEF TalkTaskStep
    <3> QED  BY <3>1 DEF TalkIInv
  <2> QED  BY <2>1, <2>2
<1>5. TalkTypes'
  BY <1>1, <1>2, <1>3, <1>4 DEF TalkTypes, TalkMine
<1> QED  BY <1>1, <1>4, <1>5 DEF TalkIInv

LEMMA TalkNextKeeps == ASSUME TalkAssumed, TalkIInv, [Talk!Next]_(Talk!vars) PROVE TalkIInv'
<1>1. CASE Talk!Next  BY <1>1, TalkStepKeeps DEF Talk!Next
<1>2. CASE UNCHANGED Talk!vars
  <2>1. UNCHANGED <<endpoint, msgs, work, echo, order, newest>>  BY <1>2 DEF Talk!vars
  <2>2. TalkTypes'  BY <2>1 DEF TalkIInv, TalkTypes, TalkPlaces
  <2>3. TalkShape(TalkCache)'  BY <2>1 DEF TalkIInv, TalkShape, TalkCache
  <2>4. TalkFromAnswers'
    <3> SUFFICES ASSUME NEW id \in DOMAIN echo' PROVE TalkThought(id)'  BY DEF TalkFromAnswers
    <3>1. TalkThought(id)  BY <2>1 DEF TalkIInv, TalkFromAnswers
    <3> QED  BY <2>1, <3>1 DEF TalkThought, Talk!Fingerprint
  <2>5. TalkNewestIsThere'
    BY <2>1 DEF TalkIInv, TalkNewestIsThere, Talk!Fingerprint, Talk!IsThought
  <2>6. (\A t \in Tasks : TalkMine(msgs[t], work[t], MaxSteps[t]))'  BY <2>1 DEF TalkIInv
  <2> QED  BY <2>2, <2>3, <2>4, <2>5, <2>6 DEF TalkIInv
<1> QED  BY <1>1, <1>2


-----------------------------------------------------------------------------
LEMMA TalkTypesHold == ASSUME TalkAssumed, TalkIInv PROVE Talk!TypeOK
<1>1. ASSUME NEW t \in Tasks
      PROVE  /\ work[t].pc \in {"top", "ask", "act", "over"}
             /\ work[t].pc = "act" <=> work[t].batch # <<>>
             /\ work[t].steps \in 0 .. MaxSteps[t]
             /\ work[t].retries \in 0 .. Retries
             /\ work[t].end = "none" <=> work[t].pc # "over"
  <2>1. work[t] \in TalkWork /\ TalkPlaces(work[t], MaxSteps[t]) /\ MaxSteps[t] \in Nat
    BY DEF TalkIInv, TalkTypes, TalkAssumed
  <2>2. work[t].steps \in 0 .. MaxSteps[t]  BY <2>1 DEF TalkWork, TalkPlaces
  <2> QED  BY <2>1, <2>2 DEF TalkWork, TalkPlaces
<1>2. /\ \A i \in DOMAIN order : order[i] \in DOMAIN echo
         /\ \A j \in DOMAIN order : order[i] = order[j] => i = j
      /\ \A id \in DOMAIN echo : \E i \in DOMAIN order : order[i] = id
      /\ Len(order) <= Cap
  BY DEF TalkIInv, TalkShape, TalkCache
<1>3. endpoint \in Endpoints  BY DEF TalkIInv, TalkTypes
<1> QED  BY <1>1, <1>2, <1>3 DEF Talk!TypeOK

\* The first call that the cache knows.
LEMMA TalkFirstFound ==
  ASSUME NEW calls \in Seq(TalkAllCalls), Talk!Found(calls) # {}
  PROVE  LET f == CHOOSE i \in Talk!Found(calls) : \A j \in Talk!Found(calls) : i <= j IN
         f \in DOMAIN calls /\ calls[f].id \in DOMAIN echo /\ echo[calls[f].id].fingerprint =
             Talk!Fingerprint(calls[f])
<1> DEFINE T == Talk!Found(calls)
           f == CHOOSE i \in T : \A j \in T : i <= j
<1>1. T \in SUBSET Nat  BY DEF Talk!Found
<1>2. T # {}  OBVIOUS
<1> HIDE DEF T
<1>3. \E i \in T : \A j \in T : i <= j  BY <1>1, <1>2, TalkLeast
<1>4. f \in T  BY <1>3
<1> HIDE DEF f
<1>5. f \in DOMAIN calls /\ calls[f].id \in DOMAIN echo /\ echo[calls[f].id].fingerprint =
    Talk!Fingerprint(calls[f])
  BY <1>4 DEF T, Talk!Found
<1> QED  BY <1>5 DEF f, T

LEMMA TalkBelong == ASSUME TalkAssumed, TalkIInv PROVE Talk!ThoughtsBelong
<1> SUFFICES ASSUME NEW t \in Tasks, NEW i \in DOMAIN msgs[t], Talk!Row(msgs[t][i]).fields # Off
             PROVE  \E u \in Tasks : \E j \in DOMAIN msgs[u] :
                      /\ msgs[u][j].role = "assistant" /\ msgs[u][j].sent.fields =
                         Talk!Row(msgs[t][i]).fields
                      /\ \E k \in DOMAIN msgs[u][j].calls, l \in DOMAIN msgs[t][i].calls :
                            LET a == msgs[u][j].calls[k]
                                b == msgs[t][i].calls[l]
                            IN  a.id = b.id /\ Talk!Fingerprint(a) = Talk!Fingerprint(b)
  BY DEF Talk!ThoughtsBelong
<1> DEFINE m == msgs[t][i]
           f == CHOOSE n \in Talk!Found(m.calls) : \A j \in Talk!Found(m.calls) : n <= j
           id == m.calls[f].id
<1>1. m.calls \in Seq(TalkAllCalls)
  <2>1. m \in TalkMsg  BY DEF TalkIInv, TalkTypes
  <2> QED  BY <2>1 DEF TalkMsg
<1>2. Talk!Found(m.calls) # {} /\ Talk!Row(m).fields = echo[id].fields  BY DEF Talk!Row
<1>3. f \in DOMAIN m.calls /\ id \in DOMAIN echo /\ echo[id].fingerprint =
    Talk!Fingerprint(m.calls[f])
  BY <1>1, <1>2, TalkFirstFound
<1> HIDE DEF f
<1>4. TalkThought(id)  BY <1>3 DEF TalkIInv, TalkFromAnswers
<1>5. PICK u \in Tasks : \E j \in DOMAIN msgs[u] :
        /\ msgs[u][j].role = "assistant" /\ msgs[u][j].sent.fields = echo[id].fields
        /\ \E k \in DOMAIN msgs[u][j].calls :
             /\ msgs[u][j].calls[k].id = id
             /\ Talk!Fingerprint(msgs[u][j].calls[k]) = echo[id].fingerprint
  BY <1>4 DEF TalkThought
<1>6. PICK j \in DOMAIN msgs[u] :
        /\ msgs[u][j].role = "assistant" /\ msgs[u][j].sent.fields = echo[id].fields
        /\ \E k \in DOMAIN msgs[u][j].calls :
             /\ msgs[u][j].calls[k].id = id
             /\ Talk!Fingerprint(msgs[u][j].calls[k]) = echo[id].fingerprint
  BY <1>5
<1>7. PICK k \in DOMAIN msgs[u][j].calls :
        msgs[u][j].calls[k].id = id
            /\ Talk!Fingerprint(msgs[u][j].calls[k]) = echo[id].fingerprint
  BY <1>6
<1>8. msgs[u][j].calls[k].id = m.calls[f].id /\ Talk!Fingerprint(msgs[u][j].calls[k]) =
    Talk!Fingerprint(m.calls[f])
  BY <1>3, <1>7
<1> HIDE DEF id
<1> QED  BY <1>2, <1>3, <1>6, <1>8

LEMMA TalkComesBack == ASSUME TalkAssumed, TalkIInv PROVE Talk!NewestComesBack
<1> SUFFICES ASSUME newest # Off
             PROVE  Talk!Row(newest).fields = newest.sent.fields
                 /\ Talk!Row(newest).content = newest.sent.content
  BY DEF Talk!NewestComesBack
<1> DEFINE calls == newest.calls
           f == CHOOSE n \in Talk!Found(calls) : \A j \in Talk!Found(calls) : n <= j
           last == calls[Len(calls)]
           e == echo[calls[f].id]
<1>1. /\ newest.role = "assistant" /\ calls \in Seq(TalkAllCalls) /\ calls # <<>>
      /\ newest.content = <<>> \/ ~Talk!IsThought(Head(newest.content))
      /\ last.id \in DOMAIN echo /\ echo[last.id].fingerprint = Talk!Fingerprint(last)
      /\ \A k \in DOMAIN calls : calls[k].id \in DOMAIN echo =>
           /\ echo[calls[k].id].fields = newest.sent.fields
           /\ echo[calls[k].id].prefix \o newest.content = newest.sent.content
  BY DEF TalkIInv, TalkNewestIsThere, Talk!Fingerprint, Talk!IsThought
<1>2. Len(calls) \in DOMAIN calls
  <2> HIDE DEF calls
  <2> QED  BY <1>1
<1>3. Talk!Found(calls) # {}  BY <1>1, <1>2 DEF Talk!Found
<1>4. f \in DOMAIN calls /\ calls[f].id \in DOMAIN echo
  <2> HIDE DEF calls
  <2> QED  BY <1>1, <1>3, TalkFirstFound
<1>5. Talk!Row(newest) = [fields |-> e.fields,
                          content |-> IF newest.content # <<>>
                              /\ Talk!IsThought(Head(newest.content)) THEN newest.content
                                      ELSE e.prefix \o newest.content]
  BY <1>1, <1>3 DEF Talk!Row
<1> HIDE DEF f, calls
<1>6. e.fields = newest.sent.fields /\ e.prefix \o newest.content = newest.sent.content
  BY <1>1, <1>4
<1> HIDE DEF e
<1> QED  BY <1>1, <1>5, <1>6

LEMMA TalkAccepted == ASSUME TalkAssumed, TalkIInv PROVE Talk!RequestsAreAccepted
<1>1. ASSUME NEW t \in Tasks, Talk!At(t, "ask"), NEW i \in DOMAIN msgs[t],
    msgs[t][i].role = "assistant"
      PROVE  Talk!Replied(msgs[t], i, Len(msgs[t][i].calls))
  <2>1. TalkServed(msgs[t], work[t]) /\ i \in TalkSaid(msgs[t]) /\ work[t].pc = "ask"
    BY <1>1 DEF TalkIInv, TalkMine, TalkSaid, Talk!At
  <2> QED  BY <2>1 DEF TalkServed
<1>2. endpoint.model = "kimi" \/ (endpoint.model = "other" /\ endpoint.host = "kimi")
    => ~ Talk!SendsTemperature
  BY DEF Talk!SendsTemperature, Talk!Vendor, Talk!InferVendor
<1> QED  BY <1>1, <1>2 DEF Talk!RequestsAreAccepted

LEMMA TalkSpinless == ASSUME TalkAssumed, TalkIInv PROVE Talk!NeverSpins
BY DEF TalkIInv, TalkMine, TalkNoSpin, Talk!NeverSpins
-----------------------------------------------------------------------------
\* The scenario of an evaluation (EvalRun).
JudgedAssumed ==
  /\ MaxBoxes \in Nat /\ MaxFaults \in Nat
  /\ Plans \subseteq Seq([starts : BOOLEAN, after : {"none", "idle", "running"}])
  /\ Off \notin {"created", "work", "backoff", "chat", "acquire", "made", "exec", "release",
                 "over", "dropped", "up", "dead", "stopped", "ok", "assert", "dispatch", "drive",
                 "wiring", "error"}

\* Where a worker may be.
JudgedHere == {"work", "backoff", "chat", "acquire", "made", "exec", "release"}
JudgedSpots == JudgedHere \cup {Off, "created", "over", "dropped"}
JudgedBoxes == Nat \X Nat

JudgedTypes ==
  /\ plan \in Seq([starts : BOOLEAN, after : {"none", "idle", "running"}])
  /\ next \in 1 .. Len(plan) + 1
  /\ phase \in {Off, "wiring", "dispatch", "drive", "assert", "error", "ok"}
  /\ pc \in {"wiring", "plan", "idle", "running", "settle", "send", "stopping", "closing",
     "giving", "over"}
  /\ loop \in {Off, "up", "dead", "stopped"}
  /\ queue \in Seq(Judged!Events)
  /\ task \in [Judged!Events -> [pc : JudgedSpots, box : JudgedBoxes \cup {Off}, asked : Nat]]
  /\ model \in Nat /\ failed \in BOOLEAN /\ sandbox \in Nat /\ faults \in 0..MaxFaults
  /\ early = FALSE

\* A task that waits is an event that has been sent, and is in the queue once; the
\* plane has one at work, and none once its loop is gone.
JudgedQueued ==
  /\ \A t \in Judged!Events : t >= next => Judged!At(t, Off)
  /\ \A i \in DOMAIN queue : Judged!At(queue[i], "created")
  /\ \A i, j \in DOMAIN queue : queue[i] = queue[j] => i = j
  /\ \A t, u \in Judged!Events : task[t].pc \in JudgedHere /\ task[u].pc \in JudgedHere => t = u
  /\ loop # "up" => \A t \in Judged!Events : task[t].pc \notin JudgedHere
  /\ loop \in {Off, "up"} => \A t \in Judged!Events : ~Judged!At(t, "dropped")
  /\ Judged!Started = {} \/ \E m \in Judged!Started : \A u \in Judged!Started : u <= m

\* What is under way is counted.
JudgedCounted ==
  /\ \A t \in Judged!Events : Judged!At(t, "chat") => model > 0
  /\ \A t \in Judged!Events : task[t].pc \in {"acquire", "made", "exec", "release"} => sandbox > 0

\* A container is in somebody's hands, and what LeasedSandbox knows of is there.
JudgedInHand(b) ==
  \E t \in Judged!Events : (Judged!At(t, "made") /\ b = Judged!Box(t)) \/ (Judged!At(t, "release")
      /\ b = task[t].box)
JudgedOwned ==
  /\ \A b \in boxes : b \in untold \cup kept \cup live \cup owed \/ JudgedInHand(b)
  /\ live \subseteq boxes
  /\ \A t \in Judged!Events : Judged!At(t, "made") => Judged!Box(t) \in boxes
  /\ \A t \in Judged!Events : Judged!At(t, "release") => task[t].box \notin live
  /\ \A b \in live \cup owed : \E t \in Judged!Events, k \in Nat : b = <<t, k>>
     /\ k < task[t].asked
  /\ live \cap owed = {}
  /\ pc \notin {"giving", "over"} => owed = {}
  /\ pc \in {"giving", "over"} /\ loop \in {Off, "stopped"} => live = {}
  /\ pc = "over" => owed = {}

\* Where run_scenario is, what it has waited for still holds.
JudgedStill == Judged!Unfinished = {} /\ queue = <<>>
JudgedPhases ==
  /\ pc = "wiring" => loop = Off
  /\ pc \in {"plan", "idle", "running", "send", "settle", "stopping"} => loop \in {"up", "dead"}
  /\ pc \in {"idle", "running"} => next <= Len(plan) /\ plan[next].after = pc
  /\ pc = "send" => next <= Len(plan) /\ plan[next].after \in {"idle", "running"}
  /\ pc = "send" /\ plan[next].after = "idle" => JudgedStill
  /\ pc = "send" /\ plan[next].after = "running" => Judged!Running
  /\ pc = "settle" => next > Len(plan)
  /\ pc = "stopping" /\ phase = Off => next > Len(plan) /\ JudgedStill
  /\ pc \in {"closing", "giving"} /\ phase = Off => next > Len(plan) /\ Judged!Active = {}
     /\ loop = "stopped"
  /\ pc # "over" => phase \notin {"ok", "assert"}
  /\ Judged!JudgedIsDone

JudgedIInv == JudgedTypes /\ JudgedQueued /\ JudgedCounted /\ JudgedOwned /\ JudgedPhases

LEMMA JudgedGroups ==
  ASSUME JudgedTypes, JudgedAssumed
  PROVE  /\ Judged!Started = {t \in Judged!Events : task[t].pc # Off}
         /\ Judged!Unfinished = {t \in Judged!Events : task[t].pc \in JudgedHere \cup {"created"}}
         /\ Judged!AtWork = {t \in Judged!Events : task[t].pc \in JudgedHere}
         /\ Judged!Active = {t \in Judged!Events : task[t].pc \in JudgedHere \cup {"created",
            "dropped"}}
  BY DEF JudgedTypes, JudgedAssumed, Judged!Started, Judged!Active, Judged!Unfinished,
     Judged!AtWork, Judged!At, Judged!Events, JudgedSpots, JudgedHere

LEMMA JudgedStarts == ASSUME JudgedAssumed, Judged!Init PROVE JudgedIInv
<1> USE DEF Judged!Init
<1>1. plan \in Seq([starts : BOOLEAN, after : {"none", "idle", "running"}])  BY DEF JudgedAssumed
<1>2. JudgedTypes
  <2>1. next \in 1 .. Len(plan) + 1  BY <1>1
  <2>2. task \in [Judged!Events -> [pc : JudgedSpots, box : JudgedBoxes \cup {Off}, asked : Nat]]
    BY DEF JudgedSpots
  <2>3. faults \in 0..MaxFaults  BY DEF JudgedAssumed
  <2>4. queue \in Seq(Judged!Events)  OBVIOUS
  <2> QED  BY <1>1, <2>1, <2>2, <2>3, <2>4 DEF JudgedTypes
<1>3. JudgedQueued
  BY <1>1 DEF JudgedQueued, Judged!Events, Judged!At, JudgedHere, JudgedAssumed, Judged!Started
<1>4. JudgedCounted  BY DEF JudgedCounted, Judged!At, JudgedAssumed
<1>5. JudgedOwned  BY DEF JudgedOwned, Judged!At, JudgedAssumed
<1>6. JudgedPhases  BY DEF JudgedPhases, JudgedAssumed, Judged!JudgedIsDone
<1> QED  BY <1>2, <1>3, <1>4, <1>5, <1>6 DEF JudgedIInv

\* A worker that moves on leaves the others, the queue and run_scenario alone.
JudgedMoves(t) ==
  /\ loop = "up" /\ t \in Judged!Events /\ task[t].pc \in JudgedHere
  /\ task' \in [Judged!Events -> [pc : JudgedSpots, box : JudgedBoxes \cup {Off}, asked : Nat]]
  /\ task'[t].pc \in JudgedHere \cup {"over"}
  /\ \A u \in Judged!Events : u # t => task'[u] = task[u]
  /\ UNCHANGED <<plan, next, pc, phase, loop, early, queue>>

LEMMA JudgedMovesKeep ==
  ASSUME JudgedIInv, JudgedAssumed, NEW t, JudgedMoves(t)
  PROVE  JudgedQueued' /\ JudgedPhases'
<1>1. Judged!Events' = Judged!Events /\ Judged!Started' = Judged!Started
  BY DEF JudgedIInv, JudgedMoves, Judged!Events, Judged!Started, Judged!At, JudgedHere,
     JudgedSpots, JudgedAssumed
<1>2. JudgedQueued'
  <2>1. \A u \in Judged!Events : task'[u].pc \in JudgedHere => u = t
    BY DEF JudgedIInv, JudgedQueued, JudgedMoves
  <2>2. \A u \in Judged!Events : u >= next => task'[u].pc = Off
    BY DEF JudgedIInv, JudgedQueued, JudgedMoves, Judged!At, JudgedHere, JudgedAssumed
  <2>3. \A i \in DOMAIN queue : queue[i] \in Judged!Events /\ queue[i] # t
    BY DEF JudgedIInv, JudgedTypes, JudgedQueued, JudgedMoves, Judged!At, JudgedHere
  <2>4. \A u \in Judged!Events : task'[u].pc # "dropped"
    BY DEF JudgedIInv, JudgedQueued, JudgedMoves, Judged!At, JudgedHere
  <2> QED  BY <1>1, <2>1, <2>2, <2>3, <2>4 DEF JudgedIInv, JudgedQueued, JudgedMoves, Judged!At
<1>3. ~JudgedStill
  BY JudgedGroups DEF JudgedStill, JudgedMoves, JudgedIInv
<1>4. Judged!Running => Judged!Running'
  <2> SUFFICES ASSUME Judged!Running PROVE Judged!Running'  OBVIOUS
  <2> DEFINE m == Judged!Last(Judged!Started)
  <2>1. m \in Judged!Started
    BY DEF Judged!Running, JudgedIInv, JudgedQueued, Judged!Last
  <2>2. m \in Judged!Events /\ task[m].pc # "created"
    BY <2>1 DEF Judged!Started, Judged!Running, Judged!At
  <2>3. task'[m].pc # "created"
    BY <2>2 DEF JudgedMoves, JudgedHere
  <2>4. Judged!Last(Judged!Started') = m  BY <1>1
  <2> HIDE DEF m
  <2> QED  BY <1>1, <2>3, <2>4 DEF Judged!Running, Judged!At
<1>5. JudgedPhases'
  BY <1>3, <1>4 DEF JudgedIInv, JudgedPhases, JudgedMoves, Judged!JudgedIsDone, JudgedAssumed
<1> QED  BY <1>2, <1>5

\* A worker's step changes its own task's entry, to r.
JudgedRec == [pc : JudgedSpots, box : JudgedBoxes \cup {Off}, asked : Nat]
JudgedSets(t, r) ==
  /\ task' = [task EXCEPT ![t] = r] /\ r \in JudgedRec
  /\ r.pc \in JudgedHere \cup {"over"} /\ r.asked >= task[t].asked
  /\ UNCHANGED <<plan, next, pc, phase, loop, early, queue>>

LEMMA JudgedSetsMoves ==
  ASSUME JudgedIInv, NEW t \in Judged!Events, NEW r, JudgedSets(t, r), loop = "up",
      task[t].pc \in JudgedHere
  PROVE  /\ JudgedMoves(t) /\ task'[t] = r
         /\ \A u \in Judged!Events : u # t => task[u].pc \notin JudgedHere
            /\ task'[u].pc \notin JudgedHere
<1>1. task \in [Judged!Events -> JudgedRec]  BY DEF JudgedIInv, JudgedTypes, JudgedRec
<1>2. task' \in [Judged!Events -> JudgedRec] /\ task'[t] = r /\ \A u \in Judged!Events : u # t
    => task'[u] = task[u]
  BY <1>1 DEF JudgedSets
<1> QED  BY <1>1, <1>2 DEF JudgedSets, JudgedMoves, JudgedRec, JudgedIInv, JudgedQueued

LEMMA JudgedSetsTypes ==
  ASSUME JudgedIInv, NEW t \in Judged!Events, NEW r, JudgedSets(t, r), loop = "up",
      task[t].pc \in JudgedHere,
         model' \in Nat, sandbox' \in Nat, failed' \in BOOLEAN, faults' \in 0..MaxFaults
  PROVE  JudgedTypes'
<1>1. task' \in [Judged!Events -> JudgedRec]  BY JudgedSetsMoves DEF JudgedMoves, JudgedRec
<1> QED  BY <1>1 DEF JudgedSets, JudgedIInv, JudgedTypes, Judged!Events, JudgedRec

LEMMA JudgedSetsCounts ==
  ASSUME JudgedIInv, NEW t \in Judged!Events, NEW r, JudgedSets(t, r), loop = "up",
      task[t].pc \in JudgedHere,
         r.pc = "chat" => model' > 0,
         r.pc \in {"acquire", "made", "exec", "release"} => sandbox' > 0
  PROVE  JudgedCounted'
<1>1. Judged!Events' = Judged!Events  BY DEF JudgedSets, Judged!Events
<1> QED  BY <1>1, JudgedSetsMoves DEF JudgedCounted, Judged!At, JudgedHere

JudgedHand(e, t) == IF e.pc = "made" THEN {<<t, e.asked>>}
                    ELSE IF e.pc = "release" THEN {e.box} ELSE {}
LEMMA JudgedSetsOwns ==
  ASSUME JudgedIInv, JudgedAssumed, NEW t \in Judged!Events, NEW r, JudgedSets(t, r), loop = "up",
      task[t].pc \in JudgedHere,
         boxes \subseteq untold \cup kept \cup live \cup owed \cup JudgedHand(task[t], t)
           => boxes' \subseteq untold' \cup kept' \cup live' \cup owed \cup JudgedHand(r, t),
         live' \subseteq boxes', owed' = owed, live' \cap owed = {},
         r.pc = "made" => <<t, r.asked>> \in boxes',
         r.pc = "release" => r.box \notin live',
         live' \subseteq live \/ (live' \subseteq live \cup {<<t, task[t].asked>>}
             /\ task[t].asked < r.asked)
  PROVE  JudgedOwned'
<1>1. /\ Judged!Events' = Judged!Events /\ task'[t] = r /\ task \in [Judged!Events -> JudgedRec]
         /\ task' \in [Judged!Events -> JudgedRec]
      /\ \A u \in Judged!Events : u # t => task[u].pc \notin JudgedHere
         /\ task'[u].pc \notin JudgedHere /\ task'[u] = task[u]
  BY JudgedSetsMoves DEF JudgedSets, Judged!Events, JudgedMoves, JudgedIInv, JudgedTypes,
     JudgedRec
<1>2. \A b : JudgedInHand(b) => b \in JudgedHand(task[t], t)
  BY <1>1 DEF JudgedInHand, JudgedHand, Judged!At, JudgedHere, Judged!Box
<1>3. boxes' \subseteq untold' \cup kept' \cup live' \cup owed \cup JudgedHand(r, t)
  BY <1>2 DEF JudgedIInv, JudgedOwned
<1>4. \A b \in JudgedHand(r, t) : JudgedInHand(b)'
  BY <1>1 DEF JudgedInHand, JudgedHand, Judged!At, Judged!Box
<1>5. \A u \in Judged!Events : task[u].asked \in Nat /\ task'[u].asked \in Nat
    /\ task'[u].asked >= task[u].asked
  BY <1>1 DEF JudgedSets, JudgedRec
<1>6. \A b \in live' \cup owed' : \E u \in Judged!Events, k \in Nat : b = <<u, k>>
    /\ k < task'[u].asked
  <2> SUFFICES ASSUME NEW b \in live' \cup owed'
               PROVE  \E u \in Judged!Events, k \in Nat : b = <<u, k>> /\ k < task'[u].asked
    OBVIOUS
  <2>1. CASE b \in live \cup owed
    <3>1. PICK u \in Judged!Events, k \in Nat : b = <<u, k>> /\ k < task[u].asked
      BY <2>1 DEF JudgedIInv, JudgedOwned
    <3> QED  BY <3>1, <1>5
  <2>2. CASE b = <<t, task[t].asked>> /\ task[t].asked < r.asked
    BY <2>2, <1>1, <1>5
  <2> QED  BY <2>1, <2>2
<1>7. \A u \in Judged!Events : Judged!At(u, "made")' => Judged!Box(u)' \in boxes'
  BY <1>1 DEF Judged!At, Judged!Box, JudgedHere
<1>8. \A u \in Judged!Events : Judged!At(u, "release")' => task'[u].box \notin live'
  BY <1>1 DEF Judged!At, JudgedHere
<1>9. /\ pc' \notin {"giving", "over"} => owed' = {}
      /\ pc' = "over" => owed' = {}
      /\ loop' \notin {Off, "stopped"}
  BY DEF JudgedAssumed, JudgedSets, JudgedIInv, JudgedOwned
<1>10. \A b \in boxes' : b \in untold' \cup kept' \cup live' \cup owed' \/ JudgedInHand(b)'
  BY <1>3, <1>4
<1> QED  BY <1>1, <1>6, <1>7, <1>8, <1>9, <1>10 DEF JudgedOwned

JudgedWorkerStep(t) ==
  \/ Judged!Ask(t) \/ Judged!Answers(t) \/ Judged!Acquire(t) \/ Judged!Make(t)
     \/ Judged!Acquired(t) \/ Judged!NotAcquired(t)
  \/ Judged!Exec(t) \/ Judged!Executed(t) \/ Judged!TimesOut(t) \/ Judged!End(t)
     \/ Judged!Released(t)

\* The next box of a task is a new one.
LEMMA JudgedOwedIsAsked == ASSUME JudgedIInv
    PROVE \A t \in Judged!Events : Judged!Box(t) \notin live \cup owed
<1> SUFFICES ASSUME NEW t \in Judged!Events, <<t, task[t].asked>> \in live \cup owed PROVE FALSE
  BY DEF Judged!Box
<1>1. PICK u \in Judged!Events, k \in Nat : <<t, task[t].asked>> = <<u, k>> /\ k < task[u].asked
  BY DEF JudgedIInv, JudgedOwned
<1> QED  BY <1>1

LEMMA JudgedGone ==
  ASSUME task \in [Judged!Events -> JudgedRec], NEW t \in Judged!Events, NEW where,
      Judged!Goes(t, where)
  PROVE  task' = [task EXCEPT ![t] = [pc |-> where, box |-> task[t].box, asked |-> task[t].asked]]
<1>1. task[t] \in JudgedRec  OBVIOUS
<1>2. [task[t] EXCEPT !.pc = where] = [pc |-> where, box |-> task[t].box, asked |-> task[t].asked]
  BY <1>1 DEF JudgedRec
<1>3. task' = [task EXCEPT ![t] = [task[t] EXCEPT !.pc = where]]  BY DEF Judged!Goes
<1> QED  BY <1>2, <1>3

LEMMA JudgedWorker ==
  ASSUME JudgedIInv, JudgedAssumed, NEW t \in Judged!Events, JudgedWorkerStep(t)
  PROVE  JudgedTypes' /\ JudgedCounted' /\ JudgedOwned' /\ JudgedMoves(t)
<1> DEFINE e == task[t]
           To(where) == [pc |-> where, box |-> e.box, asked |-> e.asked]
<1>0. /\ task \in [Judged!Events -> JudgedRec] /\ e \in JudgedRec
         /\ JudgedHere \subseteq JudgedSpots /\ "over" \in JudgedSpots
      /\ e = [pc |-> e.pc, box |-> e.box, asked |-> e.asked]
      /\ model \in Nat /\ sandbox \in Nat /\ failed \in BOOLEAN /\ faults \in 0..MaxFaults
      /\ live \subseteq boxes /\ live \cap owed = {} /\ MaxFaults \in Nat
      /\ e.pc = "chat" => model > 0
      /\ e.pc \in {"acquire", "made", "exec", "release"} => sandbox > 0
      /\ e.pc = "made" => <<t, e.asked>> \in boxes
      /\ e.pc = "release" => e.box \notin live
      /\ t \in Nat
  BY DEF JudgedIInv, JudgedTypes, JudgedSpots, JudgedRec, JudgedOwned, JudgedCounted, Judged!At,
     Judged!Box, JudgedAssumed, Judged!Events
<1>a. <<t, e.asked>> \notin owed  BY JudgedOwedIsAsked DEF Judged!Box
<1>1. loop = "up" /\ e.pc \in JudgedHere /\ UNCHANGED <<plan, next, pc, phase, loop, early>>
  BY DEF JudgedWorkerStep, Judged!Works, Judged!Back, Judged!Same, Judged!runner, Judged!At,
     JudgedHere, Judged!Ask, Judged!Answers, Judged!Acquire, Judged!Make,
         Judged!Acquired, Judged!NotAcquired, Judged!Exec, Judged!Executed, Judged!TimesOut,
             Judged!End, Judged!Released, Judged!Call
<1>2. CASE Judged!Ask(t)
  <2> DEFINE r == To("chat")
  <2>0. task' = [task EXCEPT ![t] = r]
    BY <1>2, <1>0, JudgedGone DEF Judged!Ask, Judged!Works, Judged!Same, Judged!runner,
       Judged!counts, Judged!edge
  <2>5. r \in JudgedRec /\ r.pc \in JudgedHere \cup {"over"} /\ r.asked >= e.asked
    BY <1>0 DEF JudgedRec, JudgedHere, JudgedSpots, JudgedBoxes, Judged!Events
  <2>1. JudgedSets(t, r)
    BY <2>0, <2>5, <1>2, <1>1 DEF Judged!Ask, Judged!Works, Judged!Same, Judged!runner,
       Judged!counts, Judged!edge, JudgedSets, Judged!At
  <2>2. /\ model' \in Nat /\ sandbox' \in Nat /\ failed' \in BOOLEAN /\ faults' \in 0..MaxFaults
        /\ r.pc = "chat" => model' > 0
        /\ r.pc \in {"acquire", "made", "exec", "release"} => sandbox' > 0
    BY <1>2, <1>0 DEF Judged!Ask, Judged!Works, Judged!Goes, Judged!Same, Judged!runner,
       Judged!counts, Judged!edge, Judged!At
  <2>3. /\ boxes \subseteq untold \cup kept \cup live \cup owed \cup JudgedHand(e, t)
          => boxes' \subseteq untold' \cup kept' \cup live' \cup owed \cup JudgedHand(r, t)
        /\ live' \subseteq boxes' /\ owed' = owed /\ live' \cap owed = {}
        /\ r.pc = "made" => <<t, r.asked>> \in boxes'
        /\ r.pc = "release" => r.box \notin live'
        /\ live' \subseteq live \/ (live' \subseteq live \cup {<<t, e.asked>>}
           /\ e.asked < r.asked)
    BY <1>2, <1>0 DEF Judged!Ask, Judged!Works, Judged!Goes, Judged!Same, Judged!runner,
       Judged!counts, Judged!edge, Judged!At, JudgedHand, JudgedRec, Judged!Box
  <2> QED
    <3> HIDE DEF r
    <3> QED
      BY <2>1, <2>2, <2>3, <1>1, JudgedSetsMoves, JudgedSetsTypes, JudgedSetsCounts,
         JudgedSetsOwns
<1>3. CASE Judged!Answers(t)
  <2>1. CASE Judged!Goes(t, "work") /\ failed' = FALSE /\ UNCHANGED faults
    <3> DEFINE r == To("work")
    <3>0. task' = [task EXCEPT ![t] = r]
      BY <1>3, <2>1, <1>0, JudgedGone DEF Judged!Answers, Judged!Works, Judged!Same,
         Judged!runner, Judged!edge, Judged!Fault
    <3>5. r \in JudgedRec /\ r.pc \in JudgedHere \cup {"over"} /\ r.asked >= e.asked
      BY <1>0 DEF JudgedRec, JudgedHere, JudgedSpots, JudgedBoxes, Judged!Events
    <3>1. JudgedSets(t, r)
      BY <3>0, <3>5, <1>3, <2>1, <1>1 DEF Judged!Answers, Judged!Works, Judged!Same,
         Judged!runner, Judged!edge, Judged!Fault, JudgedSets, Judged!At
    <3>6. failed' \in BOOLEAN  BY <2>1
    <3>7. UNCHANGED <<sandbox, faults>> /\ e.pc = "chat" /\ model' = model - 1
      BY <1>3, <2>1 DEF Judged!Answers, Judged!At
    <3>2. /\ model' \in Nat /\ sandbox' \in Nat /\ failed' \in BOOLEAN /\ faults' \in 0..MaxFaults
          /\ r.pc = "chat" => model' > 0
          /\ r.pc \in {"acquire", "made", "exec", "release"} => sandbox' > 0
      BY <3>6, <3>7, <1>0
    <3>3. /\ boxes \subseteq untold \cup kept \cup live \cup owed \cup JudgedHand(e, t)
            => boxes' \subseteq untold' \cup kept' \cup live' \cup owed \cup JudgedHand(r, t)
          /\ live' \subseteq boxes' /\ owed' = owed /\ live' \cap owed = {}
          /\ r.pc = "made" => <<t, r.asked>> \in boxes'
          /\ r.pc = "release" => r.box \notin live'
          /\ live' \subseteq live \/ (live' \subseteq live \cup {<<t, e.asked>>}
             /\ e.asked < r.asked)
      BY <1>3, <2>1, <1>0 DEF Judged!Answers, Judged!Works, Judged!Goes, Judged!Same,
         Judged!runner, Judged!edge, Judged!Fault, Judged!At, JudgedHand, JudgedRec, Judged!Box
    <3> QED
      <4> HIDE DEF r
      <4> QED
        BY <3>1, <3>2, <3>3, <1>1, JudgedSetsMoves, JudgedSetsTypes, JudgedSetsCounts,
           JudgedSetsOwns
  <2>2. CASE Judged!Goes(t, "backoff") /\ failed' = TRUE /\ Judged!Fault
    <3> DEFINE r == To("backoff")
    <3>0. task' = [task EXCEPT ![t] = r]
      BY <1>3, <2>2, <1>0, JudgedGone DEF Judged!Answers, Judged!Works, Judged!Same,
         Judged!runner, Judged!edge, Judged!Fault
    <3>5. r \in JudgedRec /\ r.pc \in JudgedHere \cup {"over"} /\ r.asked >= e.asked
      BY <1>0 DEF JudgedRec, JudgedHere, JudgedSpots, JudgedBoxes, Judged!Events
    <3>1. JudgedSets(t, r)
      BY <3>0, <3>5, <1>3, <2>2, <1>1 DEF Judged!Answers, Judged!Works, Judged!Same,
         Judged!runner, Judged!edge, Judged!Fault, JudgedSets, Judged!At
    <3>2. /\ model' \in Nat /\ sandbox' \in Nat /\ failed' \in BOOLEAN /\ faults' \in 0..MaxFaults
          /\ r.pc = "chat" => model' > 0
          /\ r.pc \in {"acquire", "made", "exec", "release"} => sandbox' > 0
      BY <1>3, <2>2, <1>0 DEF Judged!Answers, Judged!Fault, Judged!At
    <3>3. /\ boxes \subseteq untold \cup kept \cup live \cup owed \cup JudgedHand(e, t)
            => boxes' \subseteq untold' \cup kept' \cup live' \cup owed \cup JudgedHand(r, t)
          /\ live' \subseteq boxes' /\ owed' = owed /\ live' \cap owed = {}
          /\ r.pc = "made" => <<t, r.asked>> \in boxes'
          /\ r.pc = "release" => r.box \notin live'
          /\ live' \subseteq live \/ (live' \subseteq live \cup {<<t, e.asked>>}
             /\ e.asked < r.asked)
      BY <1>3, <2>2, <1>0 DEF Judged!Answers, Judged!Works, Judged!Goes, Judged!Same,
         Judged!runner, Judged!edge, Judged!Fault, Judged!At, JudgedHand, JudgedRec, Judged!Box
    <3> QED
      <4> HIDE DEF r
      <4> QED
        BY <3>1, <3>2, <3>3, <1>1, JudgedSetsMoves, JudgedSetsTypes, JudgedSetsCounts,
           JudgedSetsOwns
  <2> QED  BY <1>3, <2>1, <2>2 DEF Judged!Answers
<1>4. CASE Judged!Acquire(t)
  <2> DEFINE r == To("acquire")
  <2>0. task' = [task EXCEPT ![t] = r]
    BY <1>4, <1>0, JudgedGone DEF Judged!Acquire, Judged!Works, Judged!Call, Judged!Same,
       Judged!runner
  <2>5. r \in JudgedRec /\ r.pc \in JudgedHere \cup {"over"} /\ r.asked >= e.asked
    BY <1>0 DEF JudgedRec, JudgedHere, JudgedSpots, JudgedBoxes, Judged!Events
  <2>1. JudgedSets(t, r)
    BY <2>0, <2>5, <1>4, <1>1 DEF Judged!Acquire, Judged!Works, Judged!Call, Judged!Same,
       Judged!runner, JudgedSets, Judged!At
  <2>2. /\ model' \in Nat /\ sandbox' \in Nat /\ failed' \in BOOLEAN /\ faults' \in 0..MaxFaults
        /\ r.pc = "chat" => model' > 0
        /\ r.pc \in {"acquire", "made", "exec", "release"} => sandbox' > 0
    BY <1>4, <1>0 DEF Judged!Acquire, Judged!Works, Judged!Call, Judged!Goes, Judged!Same,
       Judged!runner, Judged!At
  <2>3. /\ boxes \subseteq untold \cup kept \cup live \cup owed \cup JudgedHand(e, t)
          => boxes' \subseteq untold' \cup kept' \cup live' \cup owed \cup JudgedHand(r, t)
        /\ live' \subseteq boxes' /\ owed' = owed /\ live' \cap owed = {}
        /\ r.pc = "made" => <<t, r.asked>> \in boxes'
        /\ r.pc = "release" => r.box \notin live'
        /\ live' \subseteq live \/ (live' \subseteq live \cup {<<t, e.asked>>}
           /\ e.asked < r.asked)
    BY <1>4, <1>0 DEF Judged!Acquire, Judged!Works, Judged!Call, Judged!Goes, Judged!Same,
       Judged!runner, Judged!At, JudgedHand, JudgedRec, Judged!Box
  <2> QED
    <3> HIDE DEF r
    <3> QED
      BY <2>1, <2>2, <2>3, <1>1, JudgedSetsMoves, JudgedSetsTypes, JudgedSetsCounts,
         JudgedSetsOwns
<1>5. CASE Judged!Make(t)
  <2> DEFINE r == To("made")
  <2>0. task' = [task EXCEPT ![t] = r]
    BY <1>5, <1>0, JudgedGone DEF Judged!Make, Judged!Works, Judged!Same, Judged!runner,
       Judged!counts
  <2>5. r \in JudgedRec /\ r.pc \in JudgedHere \cup {"over"} /\ r.asked >= e.asked
    BY <1>0 DEF JudgedRec, JudgedHere, JudgedSpots, JudgedBoxes, Judged!Events
  <2>1. JudgedSets(t, r)
    BY <2>0, <2>5, <1>5, <1>1 DEF Judged!Make, Judged!Works, Judged!Same, Judged!runner,
       Judged!counts, JudgedSets, Judged!At
  <2>2. /\ model' \in Nat /\ sandbox' \in Nat /\ failed' \in BOOLEAN /\ faults' \in 0..MaxFaults
        /\ r.pc = "chat" => model' > 0
        /\ r.pc \in {"acquire", "made", "exec", "release"} => sandbox' > 0
    BY <1>5, <1>0 DEF Judged!Make, Judged!Works, Judged!Goes, Judged!Same, Judged!runner,
       Judged!counts, Judged!At
  <2>3. /\ boxes \subseteq untold \cup kept \cup live \cup owed \cup JudgedHand(e, t)
          => boxes' \subseteq untold' \cup kept' \cup live' \cup owed \cup JudgedHand(r, t)
        /\ live' \subseteq boxes' /\ owed' = owed /\ live' \cap owed = {}
        /\ r.pc = "made" => <<t, r.asked>> \in boxes'
        /\ r.pc = "release" => r.box \notin live'
        /\ live' \subseteq live \/ (live' \subseteq live \cup {<<t, e.asked>>}
           /\ e.asked < r.asked)
    BY <1>5, <1>0 DEF Judged!Make, Judged!Works, Judged!Goes, Judged!Same, Judged!runner,
       Judged!counts, Judged!At, JudgedHand, JudgedRec, Judged!Box
  <2> QED
    <3> HIDE DEF r
    <3> QED
      BY <2>1, <2>2, <2>3, <1>1, JudgedSetsMoves, JudgedSetsTypes, JudgedSetsCounts,
         JudgedSetsOwns
<1>6. CASE Judged!Acquired(t)
  <2> DEFINE r == [pc |-> "work", box |-> <<t, e.asked>>, asked |-> e.asked + 1]
  <2>0. task' = [task EXCEPT ![t] = r]
    BY <1>6, <1>0 DEF Judged!Acquired, Judged!Back, Judged!Works, Judged!Same, Judged!runner,
       Judged!Box, JudgedRec
  <2>5. r \in JudgedRec /\ r.pc \in JudgedHere \cup {"over"} /\ r.asked >= e.asked
    BY <1>0 DEF JudgedRec, JudgedHere, JudgedSpots, JudgedBoxes, Judged!Events
  <2>1. JudgedSets(t, r)
    BY <2>0, <2>5, <1>6, <1>1 DEF Judged!Acquired, Judged!Back, Judged!Works, Judged!Same,
       Judged!runner, Judged!Box, JudgedSets, Judged!At
  <2>2. /\ model' \in Nat /\ sandbox' \in Nat /\ failed' \in BOOLEAN /\ faults' \in 0..MaxFaults
        /\ r.pc = "chat" => model' > 0
        /\ r.pc \in {"acquire", "made", "exec", "release"} => sandbox' > 0
    BY <1>6, <1>0 DEF Judged!Acquired, Judged!Back, Judged!Works, Judged!Same, Judged!runner,
       Judged!Box, Judged!At
  <2>3. /\ boxes \subseteq untold \cup kept \cup live \cup owed \cup JudgedHand(e, t)
          => boxes' \subseteq untold' \cup kept' \cup live' \cup owed \cup JudgedHand(r, t)
        /\ live' \subseteq boxes' /\ owed' = owed /\ live' \cap owed = {}
        /\ r.pc = "made" => <<t, r.asked>> \in boxes'
        /\ r.pc = "release" => r.box \notin live'
        /\ live' \subseteq live \/ (live' \subseteq live \cup {<<t, e.asked>>}
           /\ e.asked < r.asked)
    BY <1>6, <1>0, <1>a DEF Judged!Acquired, Judged!Back, Judged!Works, Judged!Same,
       Judged!runner, Judged!Box, Judged!At, JudgedHand, JudgedRec
  <2> QED
    <3> HIDE DEF r
    <3> QED
      BY <2>1, <2>2, <2>3, <1>1, JudgedSetsMoves, JudgedSetsTypes, JudgedSetsCounts,
         JudgedSetsOwns
<1>7. CASE Judged!NotAcquired(t)
  <2> DEFINE r == [pc |-> "work", box |-> e.box, asked |-> e.asked + 1]
  <2>0. task' = [task EXCEPT ![t] = r]
    BY <1>7, <1>0 DEF Judged!NotAcquired, Judged!Back, Judged!Works, Judged!Same, Judged!runner,
       Judged!edge, Judged!Fault, JudgedRec
  <2>5. r \in JudgedRec /\ r.pc \in JudgedHere \cup {"over"} /\ r.asked >= e.asked
    BY <1>0 DEF JudgedRec, JudgedHere, JudgedSpots, JudgedBoxes, Judged!Events
  <2>1. JudgedSets(t, r)
    BY <2>0, <2>5, <1>7, <1>1 DEF Judged!NotAcquired, Judged!Back, Judged!Works, Judged!Same,
       Judged!runner, Judged!edge, Judged!Fault, JudgedSets, Judged!At
  <2>2. /\ model' \in Nat /\ sandbox' \in Nat /\ failed' \in BOOLEAN /\ faults' \in 0..MaxFaults
        /\ r.pc = "chat" => model' > 0
        /\ r.pc \in {"acquire", "made", "exec", "release"} => sandbox' > 0
    BY <1>7, <1>0 DEF Judged!NotAcquired, Judged!Back, Judged!Works, Judged!Same, Judged!runner,
       Judged!edge, Judged!Fault, Judged!At
  <2>3. /\ boxes \subseteq untold \cup kept \cup live \cup owed \cup JudgedHand(e, t)
          => boxes' \subseteq untold' \cup kept' \cup live' \cup owed \cup JudgedHand(r, t)
        /\ live' \subseteq boxes' /\ owed' = owed /\ live' \cap owed = {}
        /\ r.pc = "made" => <<t, r.asked>> \in boxes'
        /\ r.pc = "release" => r.box \notin live'
        /\ live' \subseteq live \/ (live' \subseteq live \cup {<<t, e.asked>>}
           /\ e.asked < r.asked)
    BY <1>7, <1>0 DEF Judged!NotAcquired, Judged!Back, Judged!Works, Judged!Same, Judged!runner,
       Judged!edge, Judged!Fault, Judged!At, JudgedHand, JudgedRec, Judged!Box
  <2> QED
    <3> HIDE DEF r
    <3> QED
      BY <2>1, <2>2, <2>3, <1>1, JudgedSetsMoves, JudgedSetsTypes, JudgedSetsCounts,
         JudgedSetsOwns
<1>8. CASE Judged!Exec(t)
  <2> DEFINE r == To("exec")
  <2>0. task' = [task EXCEPT ![t] = r]
    BY <1>8, <1>0, JudgedGone DEF Judged!Exec, Judged!Works, Judged!Call, Judged!Same,
       Judged!runner
  <2>5. r \in JudgedRec /\ r.pc \in JudgedHere \cup {"over"} /\ r.asked >= e.asked
    BY <1>0 DEF JudgedRec, JudgedHere, JudgedSpots, JudgedBoxes, Judged!Events
  <2>1. JudgedSets(t, r)
    BY <2>0, <2>5, <1>8, <1>1 DEF Judged!Exec, Judged!Works, Judged!Call, Judged!Same,
       Judged!runner, JudgedSets, Judged!At
  <2>2. /\ model' \in Nat /\ sandbox' \in Nat /\ failed' \in BOOLEAN /\ faults' \in 0..MaxFaults
        /\ r.pc = "chat" => model' > 0
        /\ r.pc \in {"acquire", "made", "exec", "release"} => sandbox' > 0
    BY <1>8, <1>0 DEF Judged!Exec, Judged!Works, Judged!Call, Judged!Goes, Judged!Same,
       Judged!runner, Judged!At
  <2>3. /\ boxes \subseteq untold \cup kept \cup live \cup owed \cup JudgedHand(e, t)
          => boxes' \subseteq untold' \cup kept' \cup live' \cup owed \cup JudgedHand(r, t)
        /\ live' \subseteq boxes' /\ owed' = owed /\ live' \cap owed = {}
        /\ r.pc = "made" => <<t, r.asked>> \in boxes'
        /\ r.pc = "release" => r.box \notin live'
        /\ live' \subseteq live \/ (live' \subseteq live \cup {<<t, e.asked>>}
           /\ e.asked < r.asked)
    BY <1>8, <1>0 DEF Judged!Exec, Judged!Works, Judged!Call, Judged!Goes, Judged!Same,
       Judged!runner, Judged!At, JudgedHand, JudgedRec, Judged!Box
  <2> QED
    <3> HIDE DEF r
    <3> QED
      BY <2>1, <2>2, <2>3, <1>1, JudgedSetsMoves, JudgedSetsTypes, JudgedSetsCounts,
         JudgedSetsOwns
<1>9. CASE Judged!Executed(t)
  <2> DEFINE r == To("work")
  <2>0. task' = [task EXCEPT ![t] = r]
    BY <1>9, <1>0, JudgedGone DEF Judged!Executed, Judged!Back, Judged!Works, Judged!Same,
       Judged!runner, Judged!edge
  <2>5. r \in JudgedRec /\ r.pc \in JudgedHere \cup {"over"} /\ r.asked >= e.asked
    BY <1>0 DEF JudgedRec, JudgedHere, JudgedSpots, JudgedBoxes, Judged!Events
  <2>1. JudgedSets(t, r)
    BY <2>0, <2>5, <1>9, <1>1 DEF Judged!Executed, Judged!Back, Judged!Works, Judged!Same,
       Judged!runner, Judged!edge, JudgedSets, Judged!At
  <2>2. /\ model' \in Nat /\ sandbox' \in Nat /\ failed' \in BOOLEAN /\ faults' \in 0..MaxFaults
        /\ r.pc = "chat" => model' > 0
        /\ r.pc \in {"acquire", "made", "exec", "release"} => sandbox' > 0
    BY <1>9, <1>0 DEF Judged!Executed, Judged!Back, Judged!Works, Judged!Goes, Judged!Same,
       Judged!runner, Judged!edge, Judged!At
  <2>3. /\ boxes \subseteq untold \cup kept \cup live \cup owed \cup JudgedHand(e, t)
          => boxes' \subseteq untold' \cup kept' \cup live' \cup owed \cup JudgedHand(r, t)
        /\ live' \subseteq boxes' /\ owed' = owed /\ live' \cap owed = {}
        /\ r.pc = "made" => <<t, r.asked>> \in boxes'
        /\ r.pc = "release" => r.box \notin live'
        /\ live' \subseteq live \/ (live' \subseteq live \cup {<<t, e.asked>>}
           /\ e.asked < r.asked)
    BY <1>9, <1>0 DEF Judged!Executed, Judged!Back, Judged!Works, Judged!Goes, Judged!Same,
       Judged!runner, Judged!edge, Judged!At, JudgedHand, JudgedRec, Judged!Box
  <2> QED
    <3> HIDE DEF r
    <3> QED
      BY <2>1, <2>2, <2>3, <1>1, JudgedSetsMoves, JudgedSetsTypes, JudgedSetsCounts,
         JudgedSetsOwns
<1>10. CASE Judged!TimesOut(t)
  <2>1. CASE e.pc = "exec"
    <3> DEFINE r == To("work")
    <3>0. task' = [task EXCEPT ![t] = r]
      <4>1. task' = [task EXCEPT ![t] = [[task[t] EXCEPT !.pc = "work"] EXCEPT !.asked =
          IF Judged!At(t, "exec") THEN @ ELSE @ + 1]]
        BY <1>10 DEF Judged!TimesOut
      <4>2. [[task[t] EXCEPT !.pc = "work"] EXCEPT !.asked = IF Judged!At(t, "exec") THEN @
          ELSE @ + 1] = r
        <5>1. [task[t] EXCEPT !.pc = "work"] = [pc |-> "work", box |-> e.box, asked |-> e.asked]
          BY <1>0 DEF JudgedRec
        <5> QED  BY <5>1, <1>0, <2>1 DEF Judged!At, JudgedRec
      <4> QED  BY <4>1, <4>2
    <3>5. r \in JudgedRec /\ r.pc \in JudgedHere \cup {"over"} /\ r.asked >= e.asked
      BY <1>0 DEF JudgedRec, JudgedHere, JudgedSpots, JudgedBoxes, Judged!Events
    <3>1. JudgedSets(t, r)
      BY <3>0, <3>5, <1>10, <2>1, <1>1 DEF Judged!TimesOut, Judged!Works, Judged!Same,
         Judged!runner, Judged!counts, Judged!Fault, Judged!Box, JudgedSets, Judged!At
    <3>2. /\ model' \in Nat /\ sandbox' \in Nat /\ failed' \in BOOLEAN /\ faults' \in 0..MaxFaults
          /\ r.pc = "chat" => model' > 0
          /\ r.pc \in {"acquire", "made", "exec", "release"} => sandbox' > 0
      BY <1>10, <2>1, <1>0 DEF Judged!TimesOut, Judged!Works, Judged!Same, Judged!runner,
         Judged!counts, Judged!Fault, Judged!Box, Judged!At
    <3>3. /\ boxes \subseteq untold \cup kept \cup live \cup owed \cup JudgedHand(e, t)
            => boxes' \subseteq untold' \cup kept' \cup live' \cup owed \cup JudgedHand(r, t)
          /\ live' \subseteq boxes' /\ owed' = owed /\ live' \cap owed = {}
          /\ r.pc = "made" => <<t, r.asked>> \in boxes'
          /\ r.pc = "release" => r.box \notin live'
          /\ live' \subseteq live \/ (live' \subseteq live \cup {<<t, e.asked>>}
             /\ e.asked < r.asked)
      BY <1>10, <2>1, <1>0 DEF Judged!TimesOut, Judged!Works, Judged!Same, Judged!runner,
         Judged!counts, Judged!Fault, Judged!Box, Judged!At, JudgedHand, JudgedRec, Judged!Box
    <3> QED
      <4> HIDE DEF r
      <4> QED
        BY <3>1, <3>2, <3>3, <1>1, JudgedSetsMoves, JudgedSetsTypes, JudgedSetsCounts,
           JudgedSetsOwns
  <2>2. CASE e.pc # "exec"
    <3> DEFINE r == [pc |-> "work", box |-> e.box, asked |-> e.asked + 1]
    <3>0. task' = [task EXCEPT ![t] = r]
      <4>1. task' = [task EXCEPT ![t] = [[task[t] EXCEPT !.pc = "work"] EXCEPT !.asked =
          IF Judged!At(t, "exec") THEN @ ELSE @ + 1]]
        BY <1>10 DEF Judged!TimesOut
      <4>2. [[task[t] EXCEPT !.pc = "work"] EXCEPT !.asked = IF Judged!At(t, "exec") THEN @
          ELSE @ + 1] = r
        <5>1. [task[t] EXCEPT !.pc = "work"] = [pc |-> "work", box |-> e.box, asked |-> e.asked]
          BY <1>0 DEF JudgedRec
        <5>2. ~Judged!At(t, "exec")  BY <2>2 DEF Judged!At
        <5>3. [[pc |-> "work", box |-> e.box, asked |-> e.asked] EXCEPT !.asked = @ + 1] = r
          OBVIOUS
        <5> QED  BY <5>1, <5>2, <5>3
      <4> QED  BY <4>1, <4>2
    <3>5. r \in JudgedRec /\ r.pc \in JudgedHere \cup {"over"} /\ r.asked >= e.asked
      BY <1>0 DEF JudgedRec, JudgedHere, JudgedSpots, JudgedBoxes, Judged!Events
    <3>1. JudgedSets(t, r)
      BY <3>0, <3>5, <1>10, <2>2, <1>1 DEF Judged!TimesOut, Judged!Works, Judged!Same,
         Judged!runner, Judged!counts, Judged!Fault, Judged!Box, JudgedSets, Judged!At
    <3>2. /\ model' \in Nat /\ sandbox' \in Nat /\ failed' \in BOOLEAN /\ faults' \in 0..MaxFaults
          /\ r.pc = "chat" => model' > 0
          /\ r.pc \in {"acquire", "made", "exec", "release"} => sandbox' > 0
      BY <1>10, <2>2, <1>0 DEF Judged!TimesOut, Judged!Works, Judged!Same, Judged!runner,
         Judged!counts, Judged!Fault, Judged!Box, Judged!At
    <3>3. /\ boxes \subseteq untold \cup kept \cup live \cup owed \cup JudgedHand(e, t)
            => boxes' \subseteq untold' \cup kept' \cup live' \cup owed \cup JudgedHand(r, t)
          /\ live' \subseteq boxes' /\ owed' = owed /\ live' \cap owed = {}
          /\ r.pc = "made" => <<t, r.asked>> \in boxes'
          /\ r.pc = "release" => r.box \notin live'
          /\ live' \subseteq live \/ (live' \subseteq live \cup {<<t, e.asked>>}
             /\ e.asked < r.asked)
      BY <1>10, <2>2, <1>0 DEF Judged!TimesOut, Judged!Works, Judged!Same, Judged!runner,
         Judged!counts, Judged!Fault, Judged!Box, Judged!At, JudgedHand, JudgedRec, Judged!Box
    <3> QED
      <4> HIDE DEF r
      <4> QED
        BY <3>1, <3>2, <3>3, <1>1, JudgedSetsMoves, JudgedSetsTypes, JudgedSetsCounts,
           JudgedSetsOwns
  <2> QED  BY <1>10, <2>1, <2>2 DEF Judged!TimesOut
<1>11. CASE Judged!End(t)
  <2>1. CASE e.box = Off
    <3> DEFINE r == To("over")
    <3>0. task' = [task EXCEPT ![t] = r]
      BY <1>11, <2>1, <1>0, JudgedGone DEF Judged!End, Judged!Works, Judged!Call, Judged!Same,
         Judged!runner, Judged!counts, Judged!edge
    <3>5. r \in JudgedRec /\ r.pc \in JudgedHere \cup {"over"} /\ r.asked >= e.asked
      BY <1>0 DEF JudgedRec, JudgedHere, JudgedSpots, JudgedBoxes, Judged!Events
    <3>1. JudgedSets(t, r)
      BY <3>0, <3>5, <1>11, <2>1, <1>1 DEF Judged!End, Judged!Works, Judged!Call, Judged!Same,
         Judged!runner, Judged!counts, Judged!edge, JudgedSets, Judged!At
    <3>2. /\ model' \in Nat /\ sandbox' \in Nat /\ failed' \in BOOLEAN /\ faults' \in 0..MaxFaults
          /\ r.pc = "chat" => model' > 0
          /\ r.pc \in {"acquire", "made", "exec", "release"} => sandbox' > 0
      BY <1>11, <2>1, <1>0 DEF Judged!End, Judged!Works, Judged!Goes, Judged!Call, Judged!Same,
         Judged!runner, Judged!counts, Judged!edge, Judged!At
    <3>3. /\ boxes \subseteq untold \cup kept \cup live \cup owed \cup JudgedHand(e, t)
            => boxes' \subseteq untold' \cup kept' \cup live' \cup owed \cup JudgedHand(r, t)
          /\ live' \subseteq boxes' /\ owed' = owed /\ live' \cap owed = {}
          /\ r.pc = "made" => <<t, r.asked>> \in boxes'
          /\ r.pc = "release" => r.box \notin live'
          /\ live' \subseteq live \/ (live' \subseteq live \cup {<<t, e.asked>>}
             /\ e.asked < r.asked)
      BY <1>11, <2>1, <1>0 DEF Judged!End, Judged!Works, Judged!Goes, Judged!Call, Judged!Same,
         Judged!runner, Judged!counts, Judged!edge, Judged!At, JudgedHand, JudgedRec, Judged!Box
    <3> QED
      <4> HIDE DEF r
      <4> QED
        BY <3>1, <3>2, <3>3, <1>1, JudgedSetsMoves, JudgedSetsTypes, JudgedSetsCounts,
           JudgedSetsOwns
  <2>2. CASE e.box # Off
    <3> DEFINE r == To("release")
    <3>0. task' = [task EXCEPT ![t] = r]
      BY <1>11, <2>2, <1>0, JudgedGone DEF Judged!End, Judged!Works, Judged!Call, Judged!Same,
         Judged!runner, Judged!counts, Judged!edge
    <3>5. r \in JudgedRec /\ r.pc \in JudgedHere \cup {"over"} /\ r.asked >= e.asked
      BY <1>0 DEF JudgedRec, JudgedHere, JudgedSpots, JudgedBoxes, Judged!Events
    <3>1. JudgedSets(t, r)
      BY <3>0, <3>5, <1>11, <2>2, <1>1 DEF Judged!End, Judged!Works, Judged!Call, Judged!Same,
         Judged!runner, Judged!counts, Judged!edge, JudgedSets, Judged!At
    <3>2. /\ model' \in Nat /\ sandbox' \in Nat /\ failed' \in BOOLEAN /\ faults' \in 0..MaxFaults
          /\ r.pc = "chat" => model' > 0
          /\ r.pc \in {"acquire", "made", "exec", "release"} => sandbox' > 0
      BY <1>11, <2>2, <1>0 DEF Judged!End, Judged!Works, Judged!Goes, Judged!Call, Judged!Same,
         Judged!runner, Judged!counts, Judged!edge, Judged!At
    <3>3. /\ boxes \subseteq untold \cup kept \cup live \cup owed \cup JudgedHand(e, t)
            => boxes' \subseteq untold' \cup kept' \cup live' \cup owed \cup JudgedHand(r, t)
          /\ live' \subseteq boxes' /\ owed' = owed /\ live' \cap owed = {}
          /\ r.pc = "made" => <<t, r.asked>> \in boxes'
          /\ r.pc = "release" => r.box \notin live'
          /\ live' \subseteq live \/ (live' \subseteq live \cup {<<t, e.asked>>}
             /\ e.asked < r.asked)
      BY <1>11, <2>2, <1>0 DEF Judged!End, Judged!Works, Judged!Goes, Judged!Call, Judged!Same,
         Judged!runner, Judged!counts, Judged!edge, Judged!At, JudgedHand, JudgedRec, Judged!Box
    <3> QED
      <4> HIDE DEF r
      <4> QED
        BY <3>1, <3>2, <3>3, <1>1, JudgedSetsMoves, JudgedSetsTypes, JudgedSetsCounts,
           JudgedSetsOwns
  <2> QED  BY <1>11, <2>1, <2>2 DEF Judged!End
<1>12. CASE Judged!Released(t)
  <2> DEFINE r == To("over")
  <2>0. task' = [task EXCEPT ![t] = r]
    BY <1>12, <1>0, JudgedGone DEF Judged!Released, Judged!Back, Judged!Works, Judged!Same,
       Judged!runner, Judged!Fault
  <2>5. r \in JudgedRec /\ r.pc \in JudgedHere \cup {"over"} /\ r.asked >= e.asked
    BY <1>0 DEF JudgedRec, JudgedHere, JudgedSpots, JudgedBoxes, Judged!Events
  <2>1. JudgedSets(t, r)
    BY <2>0, <2>5, <1>12, <1>1 DEF Judged!Released, Judged!Back, Judged!Works, Judged!Same,
       Judged!runner, Judged!Fault, JudgedSets, Judged!At
  <2>2. /\ model' \in Nat /\ sandbox' \in Nat /\ failed' \in BOOLEAN /\ faults' \in 0..MaxFaults
        /\ r.pc = "chat" => model' > 0
        /\ r.pc \in {"acquire", "made", "exec", "release"} => sandbox' > 0
    BY <1>12, <1>0 DEF Judged!Released, Judged!Back, Judged!Works, Judged!Goes, Judged!Same,
       Judged!runner, Judged!Fault, Judged!At
  <2>3. /\ boxes \subseteq untold \cup kept \cup live \cup owed \cup JudgedHand(e, t)
          => boxes' \subseteq untold' \cup kept' \cup live' \cup owed \cup JudgedHand(r, t)
        /\ live' \subseteq boxes' /\ owed' = owed /\ live' \cap owed = {}
        /\ r.pc = "made" => <<t, r.asked>> \in boxes'
        /\ r.pc = "release" => r.box \notin live'
        /\ live' \subseteq live \/ (live' \subseteq live \cup {<<t, e.asked>>}
           /\ e.asked < r.asked)
    BY <1>12, <1>0 DEF Judged!Released, Judged!Back, Judged!Works, Judged!Goes, Judged!Same,
       Judged!runner, Judged!Fault, Judged!At, JudgedHand, JudgedRec, Judged!Box
  <2> QED
    <3> HIDE DEF r
    <3> QED
      BY <2>1, <2>2, <2>3, <1>1, JudgedSetsMoves, JudgedSetsTypes, JudgedSetsCounts,
         JudgedSetsOwns
<1> QED
  BY <1>2, <1>3, <1>4, <1>5, <1>6, <1>7, <1>8, <1>9, <1>10, <1>11, <1>12 DEF JudgedWorkerStep

LEMMA JudgedWorkerKeeps == ASSUME JudgedIInv, JudgedAssumed, NEW t \in Judged!Events,
    JudgedWorkerStep(t) PROVE JudgedIInv'
  BY JudgedWorker, JudgedMovesKeep DEF JudgedIInv

\* What run_scenario has waited for stays, as long as tasks only move on.
LEMMA JudgedStays ==
  ASSUME JudgedIInv, UNCHANGED <<plan, queue>>,
         task' \in [Judged!Events -> JudgedRec],
         \A u \in Judged!Events : task[u].pc \notin JudgedHere => task'[u] = task[u],
         \A u \in Judged!Events : task[u].pc \in JudgedHere => task'[u].pc = "dropped",
         JudgedAssumed
  PROVE  /\ JudgedStill => JudgedStill'
         /\ Judged!Running => Judged!Running'
         /\ Judged!Started' = Judged!Started
         /\ Judged!Unfinished = {} => Judged!Active' = Judged!Active
<1>1. Judged!Events' = Judged!Events /\ task \in [Judged!Events -> JudgedRec]
  BY DEF Judged!Events, JudgedIInv, JudgedTypes, JudgedRec
<1>2. Judged!Started' = Judged!Started
    /\ Judged!Started = {t \in Judged!Events : task[t].pc # Off}
  BY <1>1 DEF Judged!Started, Judged!At, JudgedHere, JudgedAssumed
<1>3. /\ Judged!Unfinished = {t \in Judged!Events : task[t].pc \in JudgedHere \cup {"created"}}
      /\ Judged!Active = {t \in Judged!Events : task[t].pc \in JudgedHere \cup {"created",
         "dropped"}}
  BY JudgedGroups DEF JudgedIInv
<1>4. Judged!Unfinished = {} => task' = task
  BY <1>1, <1>3
<1>5. JudgedStill => JudgedStill'
  BY <1>1, <1>2, <1>4 DEF JudgedStill, Judged!Unfinished, Judged!Active, Judged!Started,
     Judged!At, Judged!Events
<1>6. Judged!Unfinished = {} => Judged!Active' = Judged!Active
  BY <1>1, <1>2, <1>4 DEF Judged!Active, Judged!At
<1>7. Judged!Running => Judged!Running'
  <2> SUFFICES ASSUME Judged!Running PROVE Judged!Running'  OBVIOUS
  <2> DEFINE m == Judged!Last(Judged!Started)
  <2>1. m \in Judged!Started  BY DEF Judged!Running, JudgedIInv, JudgedQueued, Judged!Last
  <2>2. m \in Judged!Events /\ task[m].pc # "created"
    BY <2>1 DEF Judged!Started, Judged!Running, Judged!At
  <2>3. task'[m].pc # "created"  BY <2>2
  <2>4. Judged!Last(Judged!Started') = m  BY <1>2
  <2> HIDE DEF m
  <2> QED  BY <1>2, <2>3, <2>4 DEF Judged!Running, Judged!At
<1> QED  BY <1>2, <1>5, <1>6, <1>7

LEMMA JudgedPopKeeps == ASSUME JudgedIInv, JudgedAssumed, Judged!Pop PROVE JudgedIInv'
<1> DEFINE t == Head(queue)
<1>0. /\ queue \in Seq(Judged!Events) /\ queue # <<>> /\ loop = "up" /\ Judged!AtWork = {}
      /\ queue' = Tail(queue) /\ Judged!Goes(t, "work") /\ task \in [Judged!Events -> JudgedRec]
      /\ UNCHANGED <<plan, next, pc, phase, loop, early, model, failed, sandbox, live, owed,
         boxes,
                     untold, kept, faults>>
  BY DEF Judged!Pop, JudgedIInv, JudgedTypes, JudgedRec, Judged!Same, Judged!runner,
     Judged!counts, Judged!edge
<1>1. t \in Judged!Events /\ t = queue[1] /\ 1 \in DOMAIN queue  BY <1>0
<1>2. /\ queue' \in Seq(Judged!Events)
      /\ \A i \in DOMAIN queue' : i + 1 \in DOMAIN queue /\ queue'[i] = queue[i + 1] /\ i + 1 # 1
         /\ i \in Nat
  BY <1>0
<1> HIDE DEF t
<1>3. task' = [task EXCEPT ![t] = [pc |-> "work", box |-> task[t].box, asked |-> task[t].asked]]
  BY <1>0, <1>1, JudgedGone
<1>4. /\ task' \in [Judged!Events -> JudgedRec] /\ task'[t].pc = "work"
         /\ task'[t].asked = task[t].asked
      /\ \A u \in Judged!Events : u # t => task'[u] = task[u]
  BY <1>0, <1>1, <1>3 DEF JudgedRec, JudgedSpots, JudgedHere
<1>5. task[t].pc = "created"  BY <1>1 DEF JudgedIInv, JudgedQueued, Judged!At
<1>6. \A u \in Judged!Events : task[u].pc \notin JudgedHere
  BY <1>0, JudgedGroups DEF JudgedIInv
<1>7. Judged!Events' = Judged!Events  BY <1>0 DEF Judged!Events
<1>8. JudgedTypes'
  BY <1>0, <1>2, <1>4, <1>7 DEF JudgedIInv, JudgedTypes, JudgedRec, Judged!Events
<1>9. Judged!Started' = Judged!Started
  BY <1>4, <1>5, <1>7, <1>1 DEF Judged!Started, Judged!At, JudgedAssumed
<1>10. JudgedQueued'
  <2>1. \A u \in Judged!Events : u >= next' => task'[u].pc = Off
    BY <1>0, <1>4, <1>5 DEF JudgedIInv, JudgedQueued, Judged!At, JudgedAssumed
  <2>2. \A i \in DOMAIN queue' : task'[queue'[i]].pc = "created"
    <3> SUFFICES ASSUME NEW i \in DOMAIN queue' PROVE task'[queue'[i]].pc = "created"  OBVIOUS
    <3>1. queue'[i] # t /\ queue'[i] \in Judged!Events
      BY <1>0, <1>1, <1>2 DEF JudgedIInv, JudgedQueued
    <3> QED  BY <3>1, <1>2, <1>4 DEF JudgedIInv, JudgedQueued, Judged!At
  <2>3. \A i, j \in DOMAIN queue' : queue'[i] = queue'[j] => i = j
    <3> SUFFICES ASSUME NEW i \in DOMAIN queue', NEW j \in DOMAIN queue', queue'[i] = queue'[j]
        PROVE i = j
      OBVIOUS
    <3>1. i + 1 = j + 1  BY <1>2 DEF JudgedIInv, JudgedQueued
    <3> QED  BY <3>1, <1>2
  <2>4. \A u \in Judged!Events : task'[u].pc \in JudgedHere => u = t
    BY <1>4, <1>6
  <2>5. \A u \in Judged!Events : task'[u].pc # "dropped"
    BY <1>0, <1>4 DEF JudgedIInv, JudgedQueued, Judged!At
  <2> QED
    BY <1>0, <1>7, <1>9, <2>1, <2>2, <2>3, <2>4, <2>5 DEF JudgedIInv, JudgedQueued, Judged!At
<1>11. JudgedCounted'  BY <1>0, <1>4, <1>6, <1>7 DEF JudgedCounted, Judged!At, JudgedHere
<1>12. JudgedOwned'
  <2>1. \A b : ~JudgedInHand(b)  BY <1>6 DEF JudgedInHand, Judged!At, JudgedHere
  <2>2. \A u \in Judged!Events : task'[u].pc \notin {"made", "release"}
      /\ task'[u].asked = task[u].asked
    BY <1>4, <1>6 DEF JudgedHere
  <2> QED  BY <1>0, <1>7, <2>1, <2>2 DEF JudgedIInv, JudgedOwned, Judged!At, Judged!Box
<1>13. Judged!Running => Judged!Running'
  <2> SUFFICES ASSUME Judged!Running PROVE Judged!Running'  OBVIOUS
  <2> DEFINE m == Judged!Last(Judged!Started)
  <2>1. m \in Judged!Started  BY DEF Judged!Running, JudgedIInv, JudgedQueued, Judged!Last
  <2>2. m \in Judged!Events /\ task[m].pc # "created"
    BY <2>1 DEF Judged!Started, Judged!Running, Judged!At
  <2>3. task'[m].pc # "created"  BY <2>2, <1>4
  <2>4. Judged!Last(Judged!Started') = m  BY <1>9
  <2> HIDE DEF m
  <2> QED  BY <1>9, <2>3, <2>4 DEF Judged!Running, Judged!At
<1>14. JudgedPhases'
  BY <1>0, <1>13 DEF JudgedIInv, JudgedPhases, Judged!JudgedIsDone, JudgedStill, JudgedAssumed
<1> QED  BY <1>8, <1>10, <1>11, <1>12, <1>14 DEF JudgedIInv

LEMMA JudgedDropped ==
  ASSUME JudgedIInv, JudgedAssumed, Judged!Drops
  PROVE  /\ task' \in [Judged!Events -> JudgedRec]
         /\ \A u \in Judged!Events : task[u].pc \notin JudgedHere => task'[u] = task[u]
         /\ \A u \in Judged!Events : task[u].pc \in JudgedHere => task'[u].pc = "dropped"
         /\ \A u \in Judged!Events : task'[u].asked = task[u].asked
         /\ \A b \in boxes : b \in untold' \cup kept' \cup live \cup owed
<1>1. task \in [Judged!Events -> JudgedRec]
    /\ Judged!AtWork = {t \in Judged!Events : task[t].pc \in JudgedHere}
  BY JudgedGroups DEF JudgedIInv, JudgedTypes, JudgedRec
<1>2. \A u \in Judged!Events : task'[u] =
    IF u \in Judged!AtWork THEN [task[u] EXCEPT !.pc = "dropped"] ELSE task[u]
  BY DEF Judged!Drops
<1>3. \A u \in Judged!Events : [task[u] EXCEPT !.pc = "dropped"] = [pc |-> "dropped",
    box |-> task[u].box, asked |-> task[u].asked]
  BY <1>1 DEF JudgedRec
<1>4. \A u \in Judged!Events : task[u] \in JudgedRec /\ "dropped" \in JudgedSpots
  BY <1>1 DEF JudgedSpots
<1>5. \A u \in Judged!Events : task'[u] \in JudgedRec
  BY <1>2, <1>3, <1>4 DEF JudgedRec
<1>6. task' \in [Judged!Events -> JudgedRec]
  BY <1>5 DEF Judged!Drops
<1>7. \A b : JudgedInHand(b) => b \in untold' \cup kept'
  BY DEF JudgedInHand, Judged!Drops
<1>8. \A b \in boxes : b \in untold' \cup kept' \cup live \cup owed
  BY <1>7 DEF JudgedIInv, JudgedOwned, Judged!Drops
<1> QED  BY <1>1, <1>2, <1>3, <1>6, <1>8

\* The loop is over, by itself or by stop_loop, and nothing is under way any more.
LEMMA JudgedGoneKeeps ==
  ASSUME JudgedIInv, JudgedAssumed, loop' \in {"dead", "stopped"},
         Judged!Drops \/ (loop # "up" /\ UNCHANGED <<task, untold, kept>>),
         UNCHANGED <<plan, next, queue, Judged!counts, live, owed, boxes, early>>,
         faults' \in 0..MaxFaults, phase' \in {Off, "wiring", "dispatch", "drive", "assert",
             "error", "ok"},
         pc' = pc \/ (pc \notin {"giving", "over"} /\ pc' = "closing"),
         pc' \in {"giving", "over"} => loop' # "stopped" \/ loop = "stopped"
  PROVE  /\ JudgedTypes' /\ JudgedQueued' /\ JudgedCounted' /\ JudgedOwned'
         /\ JudgedStill => JudgedStill'
         /\ Judged!Running => Judged!Running'
         /\ Judged!Unfinished = {} => Judged!Active' = Judged!Active
<1>0. task \in [Judged!Events -> JudgedRec] /\ Judged!Events' = Judged!Events
  BY DEF JudgedIInv, JudgedTypes, JudgedRec, Judged!Events
<1>1. /\ task' \in [Judged!Events -> JudgedRec]
      /\ \A u \in Judged!Events : task[u].pc \notin JudgedHere => task'[u] = task[u]
      /\ \A u \in Judged!Events : task[u].pc \in JudgedHere => task'[u].pc = "dropped"
      /\ \A u \in Judged!Events : task'[u].asked = task[u].asked
      /\ \A b \in boxes : b \in untold' \cup kept' \cup live \cup owed
  <2>1. CASE Judged!Drops  BY <2>1, JudgedDropped
  <2>2. CASE loop # "up" /\ UNCHANGED <<task, untold, kept>>
    <3>1. \A u \in Judged!Events : task[u].pc \notin JudgedHere
      BY <2>2 DEF JudgedIInv, JudgedQueued
    <3>2. \A b : ~JudgedInHand(b)  BY <3>1 DEF JudgedInHand, Judged!At, JudgedHere
    <3> QED  BY <2>2, <3>1, <3>2, <1>0 DEF JudgedIInv, JudgedOwned
  <2> QED  BY <2>1, <2>2
<1>2. /\ JudgedStill => JudgedStill'
      /\ Judged!Running => Judged!Running'
      /\ Judged!Started' = Judged!Started
      /\ Judged!Unfinished = {} => Judged!Active' = Judged!Active
  BY <1>1, JudgedStays
<1>3. JudgedTypes'
  BY <1>0, <1>1 DEF JudgedIInv, JudgedTypes, JudgedRec, Judged!Events, Judged!counts
<1>4. \A u \in Judged!Events : task'[u].pc \notin JudgedHere
  BY <1>1 DEF JudgedHere
<1>5. JudgedQueued'
  <2>1. \A u \in Judged!Events : u >= next => task'[u].pc = Off
    BY <1>1 DEF JudgedIInv, JudgedQueued, Judged!At, JudgedHere, JudgedAssumed
  <2>2. \A i \in DOMAIN queue : task'[queue[i]].pc = "created"
    <3> SUFFICES ASSUME NEW i \in DOMAIN queue PROVE task'[queue[i]].pc = "created"  OBVIOUS
    <3>1. queue[i] \in Judged!Events /\ task[queue[i]].pc = "created"
      BY DEF JudgedIInv, JudgedTypes, JudgedQueued, Judged!At
    <3> QED  BY <3>1, <1>1 DEF JudgedHere
  <2> QED  BY <1>0, <1>2, <1>4, <2>1, <2>2 DEF JudgedIInv, JudgedQueued, Judged!At, JudgedAssumed
<1>6. JudgedCounted'  BY <1>0, <1>4 DEF JudgedCounted, Judged!At, JudgedHere
<1>7. JudgedOwned'
  <2>1. \A b \in live \cup owed : \E t \in Judged!Events, k \in Nat : b = <<t, k>>
      /\ k < task'[t].asked
    BY <1>1 DEF JudgedIInv, JudgedOwned
  <2>2. /\ pc' \notin {"giving", "over"} => owed = {}
        /\ pc' \in {"giving", "over"} /\ loop' \in {Off, "stopped"} => live = {}
        /\ pc' = "over" => owed = {}
    BY DEF JudgedIInv, JudgedOwned, JudgedAssumed
  <2>3. \A u \in Judged!Events : task'[u].pc \notin {"made", "release"}  BY <1>4 DEF JudgedHere
  <2> QED  BY <1>0, <1>1, <2>1, <2>2, <2>3 DEF JudgedIInv, JudgedOwned, Judged!At
<1> QED  BY <1>2, <1>3, <1>5, <1>6, <1>7

LEMMA JudgedPanicKeeps == ASSUME JudgedIInv, JudgedAssumed, Judged!Panic PROVE JudgedIInv'
<1>1. /\ loop = "up" /\ loop' = "dead" /\ Judged!Drops /\ faults' \in 0..MaxFaults
      /\ UNCHANGED <<plan, next, pc, phase, queue, Judged!counts, live, owed, boxes, early>>
  BY DEF Judged!Panic, Judged!runner, Judged!Fault, JudgedIInv, JudgedTypes, JudgedAssumed
<1>2. phase \in {Off, "wiring", "dispatch", "drive", "assert", "error", "ok"}
  BY DEF JudgedIInv, JudgedTypes
<1>3. /\ JudgedTypes' /\ JudgedQueued' /\ JudgedCounted' /\ JudgedOwned'
      /\ JudgedStill => JudgedStill'
      /\ Judged!Running => Judged!Running'
  BY <1>1, <1>2, JudgedGoneKeeps
<1>4. JudgedPhases'
  BY <1>1, <1>3 DEF JudgedIInv, JudgedPhases, Judged!JudgedIsDone, JudgedAssumed
<1> QED  BY <1>3, <1>4 DEF JudgedIInv

LEMMA JudgedStopKeeps == ASSUME JudgedIInv, JudgedAssumed, Judged!Stop PROVE JudgedIInv'
<1>1. /\ pc = "stopping" /\ pc' = "closing" /\ loop' = "stopped" /\ loop \in {"up", "dead"}
      /\ Judged!Drops \/ (loop # "up" /\ UNCHANGED <<task, untold, kept>>)
      /\ UNCHANGED <<plan, next, queue, Judged!counts, live, owed, boxes, early, faults>>
      /\ phase' = IF loop = "dead" /\ phase = Off THEN "drive" ELSE phase
  BY DEF Judged!Stop, JudgedIInv, JudgedPhases
<1>2. /\ phase' \in {Off, "wiring", "dispatch", "drive", "assert", "error", "ok"}
      /\ faults' \in 0..MaxFaults
  BY <1>1 DEF JudgedIInv, JudgedTypes
<1>3. /\ JudgedTypes' /\ JudgedQueued' /\ JudgedCounted' /\ JudgedOwned'
      /\ Judged!Unfinished = {} => Judged!Active' = Judged!Active
  BY <1>1, <1>2, JudgedGoneKeeps
<1>4. phase' = Off => next > Len(plan) /\ Judged!Active' = {}
  <2> SUFFICES ASSUME phase' = Off PROVE next > Len(plan) /\ Judged!Active' = {}  OBVIOUS
  <2>1. loop = "up" /\ phase = Off  BY <1>1 DEF JudgedAssumed
  <2>2. next > Len(plan) /\ Judged!Unfinished = {}
    BY <1>1, <2>1 DEF JudgedIInv, JudgedPhases, JudgedStill
  <2>3. Judged!Active = {}
    BY <2>1, <2>2 DEF JudgedIInv, JudgedQueued, Judged!Unfinished, Judged!Active, Judged!Started
  <2> QED  BY <2>2, <2>3, <1>3
<1>5. JudgedPhases'
  BY <1>1, <1>4 DEF JudgedIInv, JudgedPhases, Judged!JudgedIsDone, JudgedAssumed
<1> QED  BY <1>3, <1>5 DEF JudgedIInv

\* A step of run_scenario that leaves the tasks, the queue and the containers alone.
LEMMA JudgedAside ==
  ASSUME JudgedIInv, JudgedAssumed, UNCHANGED <<plan, next, queue, task, Judged!counts,
      Judged!edge, early>>,
         loop' = loop \/ (pc = "wiring" /\ loop' \in {"up", "stopped"}),
         faults' \in 0..MaxFaults, phase' \in {Off, "wiring", "dispatch", "drive", "assert",
             "error", "ok"},
         pc' \in {"wiring", "plan", "idle", "running", "settle", "send", "stopping", "closing",
             "over"},
         pc \in {"giving", "over"} => pc' = "over", pc' = "over" => pc = "giving" /\ owed = {}
  PROVE  /\ JudgedTypes' /\ JudgedQueued' /\ JudgedCounted' /\ JudgedOwned'
         /\ JudgedStill' = JudgedStill /\ Judged!Running' = Judged!Running
            /\ Judged!Active' = Judged!Active
<1>1. Judged!Events' = Judged!Events /\ Judged!Started' = Judged!Started
    /\ Judged!Active' = Judged!Active /\ Judged!Unfinished' = Judged!Unfinished
  BY DEF Judged!Events, Judged!Started, Judged!Active, Judged!Unfinished, Judged!At
<1>2. JudgedStill' = JudgedStill  BY <1>1 DEF JudgedStill
<1>3. Judged!Running' = Judged!Running  BY <1>1 DEF Judged!Running, Judged!At
<1>4. JudgedTypes'  BY <1>1 DEF JudgedIInv, JudgedTypes, Judged!counts, Judged!Events
<1>5. loop' = loop \/ (loop = Off /\ loop' # Off)
  BY DEF JudgedIInv, JudgedPhases, JudgedAssumed
<1>7. JudgedQueued'
  BY <1>1, <1>5 DEF JudgedIInv, JudgedQueued, Judged!At, JudgedAssumed
<1>8. JudgedCounted'  BY <1>1 DEF JudgedIInv, JudgedCounted, Judged!counts, Judged!At
<1>9. \A b : JudgedInHand(b) <=> JudgedInHand(b)'  BY <1>1 DEF JudgedInHand, Judged!At, Judged!Box
<1>10. JudgedOwned'
  BY <1>1, <1>9 DEF JudgedIInv, JudgedOwned, Judged!edge, Judged!At, Judged!Box
<1> QED  BY <1>1, <1>2, <1>3, <1>4, <1>7, <1>8, <1>10

LEMMA JudgedStartKeeps == ASSUME JudgedIInv, JudgedAssumed, Judged!Start PROVE JudgedIInv'
<1>1. /\ UNCHANGED <<plan, next, queue, task, Judged!counts, Judged!edge, early>> /\ pc = "wiring"
      /\ \/ pc' = "plan" /\ loop' = "up" /\ UNCHANGED phase
         \/ pc' = "closing" /\ phase' = "wiring" /\ UNCHANGED loop
         \/ pc' = "closing" /\ phase' = "drive" /\ loop' = "stopped"
      /\ faults' \in 0..MaxFaults
  BY DEF Judged!Start, Judged!System, Judged!Ends, Judged!Fault, JudgedIInv, JudgedTypes,
     JudgedAssumed
<1>2. phase \in {Off, "wiring", "dispatch", "drive", "assert", "error", "ok"}
  BY DEF JudgedIInv, JudgedTypes
<1>3. JudgedTypes' /\ JudgedQueued' /\ JudgedCounted' /\ JudgedOwned'  BY <1>1, <1>2, JudgedAside
<1>4. JudgedPhases'
  BY <1>1 DEF JudgedIInv, JudgedPhases, Judged!JudgedIsDone, JudgedAssumed
<1> QED  BY <1>3, <1>4 DEF JudgedIInv

LEMMA JudgedWaitKeeps == ASSUME JudgedIInv, JudgedAssumed, Judged!Wait PROVE JudgedIInv'
<1>1. /\ UNCHANGED <<plan, next, queue, task, Judged!counts, Judged!edge, early, phase, loop,
         faults>>
      /\ pc = "plan" /\ Judged!After # "none" /\ pc' = Judged!After
  BY DEF Judged!Wait, Judged!System
<1>2. /\ phase \in {Off, "wiring", "dispatch", "drive", "assert", "error", "ok"}
      /\ faults \in 0..MaxFaults
      /\ next \in 1 .. Len(plan) + 1
         /\ plan \in Seq([starts : BOOLEAN, after : {"none", "idle", "running"}])
  BY DEF JudgedIInv, JudgedTypes
<1>3. \/ pc' = "settle" /\ next > Len(plan)
      \/ pc' \in {"idle", "running"} /\ next <= Len(plan) /\ plan[next].after = pc'
  <2>1. ASSUME next <= Len(plan) PROVE plan[next].after \in {"none", "idle", "running"}
    <3>0. next \in 1 .. Len(plan) /\ Len(plan) \in Nat  BY <1>2, <2>1
    <3>1. plan[next] \in [starts : BOOLEAN, after : {"none", "idle", "running"}]
      BY <1>2, <3>0, ElementOfSeq
    <3> QED  BY <3>1
  <2> QED  BY <1>1, <1>2, <2>1 DEF Judged!After
<1>4. JudgedTypes' /\ JudgedQueued' /\ JudgedCounted' /\ JudgedOwned'
  BY <1>1, <1>2, <1>3, JudgedAside
<1>5. JudgedPhases'
  BY <1>1, <1>3 DEF JudgedIInv, JudgedPhases, Judged!JudgedIsDone, JudgedAssumed
<1> QED  BY <1>4, <1>5 DEF JudgedIInv

LEMMA JudgedWaitedKeeps == ASSUME JudgedIInv, JudgedAssumed, Judged!Waited PROVE JudgedIInv'
<1>1. /\ UNCHANGED <<plan, next, queue, task, Judged!counts, Judged!edge, early, loop, faults>>
      /\ pc \in {"idle", "running", "settle"}
      /\ \/ /\ pc' = IF pc = "settle" THEN "stopping" ELSE "send"
            /\ (IF pc = "running" THEN Judged!Running ELSE JudgedStill) /\ UNCHANGED phase
         \/ pc' = "stopping" /\ phase' \in {"drive", "dispatch"}
  BY DEF Judged!Waited, Judged!System, Judged!Quiet, JudgedStill
<1>2. /\ phase \in {Off, "wiring", "dispatch", "drive", "assert", "error", "ok"}
      /\ faults \in 0..MaxFaults
  BY DEF JudgedIInv, JudgedTypes
<1>3. JudgedTypes' /\ JudgedQueued' /\ JudgedCounted' /\ JudgedOwned'
    /\ JudgedStill' = JudgedStill /\ Judged!Running' = Judged!Running
  BY <1>1, <1>2, JudgedAside
<1>4. JudgedPhases'
  BY <1>1, <1>3 DEF JudgedIInv, JudgedPhases, Judged!JudgedIsDone, JudgedAssumed
<1> QED  BY <1>3, <1>4 DEF JudgedIInv

LEMMA JudgedJudgeKeeps == ASSUME JudgedIInv, JudgedAssumed, Judged!Judge PROVE JudgedIInv'
<1>1. /\ UNCHANGED <<plan, next, queue, task, Judged!counts, Judged!edge, early, loop>>
      /\ pc = "giving" /\ owed = {} /\ pc' = "over"
      /\ \/ phase' = (IF phase = Off THEN "ok" ELSE phase)
         \/ phase = Off /\ phase' \in {"assert", "error"}
      /\ faults' \in 0..MaxFaults
  BY DEF Judged!Judge, Judged!System, Judged!Fault, JudgedIInv, JudgedTypes, JudgedAssumed
<1>2. phase \in {Off, "wiring", "dispatch", "drive", "assert", "error", "ok"}
  BY DEF JudgedIInv, JudgedTypes
<1>3. JudgedTypes' /\ JudgedQueued' /\ JudgedCounted' /\ JudgedOwned'
    /\ Judged!Active' = Judged!Active
  BY <1>1, <1>2, JudgedAside
<1>4. JudgedPhases'
  BY <1>1, <1>3 DEF JudgedIInv, JudgedPhases, Judged!JudgedIsDone, JudgedAssumed
<1> QED  BY <1>3, <1>4 DEF JudgedIInv

\* close_all: what it takes and gives back is nobody else's.
LEMMA JudgedGivingKeeps ==
  ASSUME JudgedIInv, JudgedAssumed, Judged!Close \/ Judged!GiveBack
  PROVE  JudgedIInv'
<1>0. /\ UNCHANGED <<plan, next, phase, loop, queue, task, model, failed, sandbox, untold, early>>
      /\ faults' \in 0..MaxFaults
      /\ \/ pc = "closing" /\ pc' = "giving"
         \/ pc = "giving" /\ pc' = "giving"
  BY DEF Judged!Close, Judged!GiveBack, Judged!runner, Judged!counts, Judged!Fault, JudgedIInv,
     JudgedTypes, JudgedAssumed
<1>1. Judged!Events' = Judged!Events /\ Judged!Started' = Judged!Started
    /\ Judged!Active' = Judged!Active
  BY <1>0 DEF Judged!Events, Judged!Started, Judged!Active, Judged!At
<1>2. JudgedTypes'  BY <1>0, <1>1 DEF JudgedIInv, JudgedTypes, Judged!Events
<1>3. JudgedQueued'  BY <1>0, <1>1 DEF JudgedIInv, JudgedQueued, Judged!At
<1>4. JudgedCounted'  BY <1>0, <1>1 DEF JudgedIInv, JudgedCounted, Judged!At
<1>5. JudgedPhases'  BY <1>0, <1>1 DEF JudgedIInv, JudgedPhases, Judged!JudgedIsDone
<1>6. \A b : JudgedInHand(b) => JudgedInHand(b)'
  BY <1>0, <1>1 DEF JudgedInHand, Judged!At, Judged!Box
<1>7. CASE Judged!Close
  <2>1. JudgedOwned'
    BY <1>0, <1>1, <1>6, <1>7 DEF Judged!Close, JudgedIInv, JudgedOwned, Judged!At, Judged!Box
  <2> QED  BY <1>2, <1>3, <1>4, <1>5, <2>1 DEF JudgedIInv
<1>8. CASE Judged!GiveBack
  <2>1. PICK b \in owed : /\ owed' = owed \ {b} /\ UNCHANGED live
                          /\ \/ boxes' = boxes \ {b} /\ UNCHANGED kept
                             \/ kept' = kept \cup {b} /\ UNCHANGED boxes
    BY <1>8 DEF Judged!GiveBack
  <2>2. \A t \in Judged!Events : Judged!Box(t) # b
    BY JudgedOwedIsAsked
  <2>3. JudgedOwned'
    BY <1>0, <1>1, <1>6, <2>1, <2>2 DEF JudgedIInv, JudgedOwned, Judged!At, Judged!Box
  <2> QED  BY <1>2, <1>3, <1>4, <1>5, <2>3 DEF JudgedIInv
<1> QED  BY <1>2, <1>3, <1>4, <1>5, <1>7, <1>8 DEF JudgedIInv

LEMMA JudgedSendKeeps == ASSUME JudgedIInv, JudgedAssumed, Judged!Send PROVE JudgedIInv'
<1>0. /\ next \in 1 .. Len(plan) + 1
         /\ plan \in Seq([starts : BOOLEAN, after : {"none", "idle", "running"}])
      /\ Judged!Events = 1 .. Len(plan) /\ queue \in Seq(Judged!Events)
         /\ task \in [Judged!Events -> JudgedRec]
      /\ UNCHANGED <<plan, loop, Judged!counts, Judged!edge>> /\ pc \in {"send", "plan"}
         /\ loop \in {"up", "dead"}
      /\ early' = (early \/ (plan[next].after = "idle" /\ Judged!Unfinished # {})
                         \/ (plan[next].after = "running" /\ ~Judged!Running))
      /\ early = FALSE
  BY DEF Judged!Send, JudgedIInv, JudgedTypes, Judged!Events, JudgedRec, JudgedPhases
<1>1. /\ next \in Judged!Events /\ early' = FALSE
  <2>1. next <= Len(plan)
    BY <1>0 DEF Judged!Send, Judged!After, JudgedIInv, JudgedPhases
  <2>2. ~(plan[next].after = "idle" /\ Judged!Unfinished # {}) /\ ~(plan[next].after = "running"
      /\ ~Judged!Running)
    BY <1>0, <2>1 DEF Judged!Send, Judged!After, JudgedIInv, JudgedPhases, JudgedStill
  <2>3. early' = FALSE  BY <1>0, <2>2, Zenon
  <2>4. next \in Judged!Events  BY <1>0, <2>1
  <2> QED  BY <2>3, <2>4
<1>2. Judged!Events' = Judged!Events  BY <1>0 DEF Judged!Events
<1>3. CASE /\ pc' = "plan" /\ next' = next + 1 /\ UNCHANGED <<phase, faults>>
           /\ plan[next].starts /\ Judged!Goes(next, "created") /\ queue' = Append(queue, next)
  <2>1. task' = [task EXCEPT ![next] = [pc |-> "created", box |-> task[next].box,
      asked |-> task[next].asked]]
    BY <1>0, <1>1, <1>3, JudgedGone
  <2>2. /\ task' \in [Judged!Events -> JudgedRec] /\ task'[next].pc = "created"
           /\ task'[next].asked = task[next].asked
        /\ \A u \in Judged!Events : u # next => task'[u] = task[u]
    BY <1>0, <1>1, <2>1 DEF JudgedRec, JudgedSpots
  <2>3. /\ queue' \in Seq(Judged!Events) /\ Len(queue') = Len(queue) + 1
           /\ queue'[Len(queue) + 1] = next
        /\ \A i \in 1 .. Len(queue) : queue'[i] = queue[i]
    BY <1>0, <1>1, <1>3
  <2>4. task[next].pc = Off  BY <1>0, <1>1 DEF JudgedIInv, JudgedQueued, Judged!At
  <2>5. Judged!Started' = Judged!Started \cup {next}
    BY <1>1, <1>2, <2>2 DEF Judged!Started, Judged!At, JudgedAssumed
  <2>6. JudgedTypes'
    BY <1>0, <1>1, <1>2, <1>3, <2>2, <2>3 DEF JudgedIInv, JudgedTypes, JudgedRec, Judged!Events,
       Judged!counts
  <2>7. JudgedQueued'
    <3>1. \A u \in Judged!Events : u >= next' => task'[u].pc = Off
      BY <1>0, <1>3, <2>2 DEF JudgedIInv, JudgedQueued, Judged!At
    <3>2. DOMAIN queue' = 1 .. Len(queue) + 1 /\ DOMAIN queue = 1 .. Len(queue)
        /\ Len(queue) \in Nat
      BY <1>0, <2>3
    <3>3. \A i \in 1 .. Len(queue) : queue[i] # next /\ queue[i] \in Judged!Events
        /\ task[queue[i]].pc = "created"
      BY <1>0, <2>4, <3>2 DEF JudgedIInv, JudgedQueued, Judged!At, JudgedAssumed
    <3>4. \A i \in DOMAIN queue' : task'[queue'[i]].pc = "created"
      BY <2>2, <2>3, <3>2, <3>3
    <3>5. \A i, j \in DOMAIN queue' : queue'[i] = queue'[j] => i = j
      BY <2>3, <3>2, <3>3 DEF JudgedIInv, JudgedQueued
    <3>6. \A u \in Judged!Started' : u <= next
      BY <1>0, <1>1, <2>5 DEF JudgedIInv, JudgedQueued, Judged!At, Judged!Started
    <3>7. \A u \in Judged!Events : task'[u].pc \in JudgedHere => task[u].pc \in JudgedHere
      BY <2>2 DEF JudgedHere
    <3>8. \A u \in Judged!Events : task'[u].pc = "dropped" => task[u].pc = "dropped"
      BY <2>2
    <3> QED
      BY <1>0, <1>2, <2>5, <3>1, <3>4, <3>5, <3>6, <3>7, <3>8 DEF JudgedIInv, JudgedQueued,
         Judged!At
  <2>8. JudgedCounted'
    BY <1>0, <1>2, <2>2 DEF JudgedIInv, JudgedCounted, Judged!counts, Judged!At
  <2>9. JudgedOwned'
    <3>1. \A u \in Judged!Events : task'[u].asked = task[u].asked  BY <2>2
    <3>2. \A u \in Judged!Events : task'[u].pc \in {"made", "release"}
        \/ task[u].pc \in {"made", "release"}
                                     => task'[u] = task[u]
      BY <2>2, <2>4 DEF JudgedAssumed
    <3>3. \A b : JudgedInHand(b) => JudgedInHand(b)'
      BY <1>2, <3>2 DEF JudgedInHand, Judged!At, Judged!Box
    <3> QED
      BY <1>0, <1>2, <1>3, <3>1, <3>2, <3>3 DEF JudgedIInv, JudgedOwned, Judged!edge, Judged!At,
         Judged!Box
  <2>10. JudgedPhases'
    BY <1>0, <1>3 DEF JudgedIInv, JudgedPhases, Judged!JudgedIsDone, JudgedAssumed
  <2> QED  BY <2>6, <2>7, <2>8, <2>9, <2>10 DEF JudgedIInv
<1>4. CASE /\ pc' = "plan" /\ next' = next + 1 /\ UNCHANGED <<phase, faults, task, queue>>
  <2>1. Judged!Started' = Judged!Started  BY <1>2, <1>4 DEF Judged!Started, Judged!At
  <2>2. JudgedTypes'
    BY <1>0, <1>1, <1>2, <1>4 DEF JudgedIInv, JudgedTypes, Judged!Events, Judged!counts
  <2>3. JudgedQueued'
    <3>1. \A u \in Judged!Events : u >= next' => task'[u].pc = Off
      BY <1>0, <1>4 DEF JudgedIInv, JudgedQueued, Judged!At
    <3> QED  BY <1>0, <1>2, <1>4, <2>1, <3>1 DEF JudgedIInv, JudgedQueued, Judged!At
  <2>4. JudgedCounted'
    BY <1>0, <1>2, <1>4 DEF JudgedIInv, JudgedCounted, Judged!counts, Judged!At
  <2>5. JudgedOwned'
    <3>1. \A b : JudgedInHand(b) => JudgedInHand(b)'
      BY <1>2, <1>4 DEF JudgedInHand, Judged!At, Judged!Box
    <3> QED
      BY <1>0, <1>2, <1>4, <3>1 DEF JudgedIInv, JudgedOwned, Judged!edge, Judged!At, Judged!Box
  <2>6. JudgedPhases'
    BY <1>0, <1>4 DEF JudgedIInv, JudgedPhases, Judged!JudgedIsDone, JudgedAssumed
  <2> QED  BY <2>2, <2>3, <2>4, <2>5, <2>6 DEF JudgedIInv
<1>5. CASE /\ Judged!Fault /\ UNCHANGED <<next, task, queue>>
           /\ \/ pc' = "stopping" /\ phase' = "dispatch"
              \/ pc' = "closing" /\ phase' = "error"
  <2>0. faults' \in 0..MaxFaults
    BY <1>5 DEF Judged!Fault, JudgedIInv, JudgedTypes, JudgedAssumed
  <2>1. /\ UNCHANGED <<plan, next, queue, task, Judged!counts, Judged!edge, early, loop>>
        /\ faults' \in 0..MaxFaults
    BY <1>0, <1>1, <1>5, <2>0
  <2>2. JudgedTypes' /\ JudgedQueued' /\ JudgedCounted' /\ JudgedOwned'
    BY <1>0, <1>5, <2>1, JudgedAside
  <2>3. JudgedPhases'
    BY <1>0, <1>5, <2>1 DEF JudgedIInv, JudgedPhases, Judged!JudgedIsDone, JudgedAssumed
  <2> QED  BY <2>2, <2>3 DEF JudgedIInv
<1> QED  BY <1>3, <1>4, <1>5 DEF Judged!Send

LEMMA JudgedNextKeeps == ASSUME JudgedIInv, JudgedAssumed, [Judged!Next]_(Judged!vars)
    PROVE JudgedIInv'
<1>1. CASE Judged!Next
  BY <1>1, JudgedPopKeeps, JudgedPanicKeeps, JudgedStartKeeps, JudgedWaitKeeps,
     JudgedWaitedKeeps, JudgedSendKeeps, JudgedStopKeeps, JudgedGivingKeeps,
     JudgedJudgeKeeps, JudgedWorkerKeeps DEF Judged!Next, JudgedWorkerStep
<1>2. CASE UNCHANGED Judged!vars
  <2>1. Judged!Events' = Judged!Events /\ Judged!Started' = Judged!Started
      /\ Judged!Active' = Judged!Active /\ Judged!Unfinished' = Judged!Unfinished
    BY <1>2 DEF Judged!vars, Judged!runner, Judged!Events, Judged!Started, Judged!Active,
       Judged!Unfinished, Judged!At
  <2>2. JudgedTypes'
    BY <1>2, <2>1 DEF Judged!vars, Judged!runner, Judged!counts, Judged!edge, JudgedIInv,
       JudgedTypes
  <2>3. JudgedQueued'
    BY <1>2, <2>1 DEF Judged!vars, Judged!runner, JudgedIInv, JudgedQueued, Judged!At
  <2>4. JudgedCounted'
    BY <1>2, <2>1 DEF Judged!vars, Judged!counts, JudgedIInv, JudgedCounted, Judged!At
  <2>5. \A b : JudgedInHand(b) <=> JudgedInHand(b)'
    BY <1>2, <2>1 DEF Judged!vars, JudgedInHand, Judged!At, Judged!Box
  <2>6. JudgedOwned'
    BY <1>2, <2>1, <2>5 DEF Judged!vars, Judged!runner, Judged!edge, JudgedIInv, JudgedOwned,
       Judged!At, Judged!Box
  <2>7. JudgedStill' = JudgedStill /\ Judged!Running' = Judged!Running
    BY <1>2, <2>1 DEF Judged!vars, JudgedStill, Judged!Running, Judged!At
  <2>8. JudgedPhases'
    BY <1>2, <2>1, <2>7 DEF Judged!vars, Judged!runner, JudgedIInv, JudgedPhases,
       Judged!JudgedIsDone
  <2> QED  BY <2>2, <2>3, <2>4, <2>6, <2>8 DEF JudgedIInv
<1> QED  BY <1>1, <1>2

LEMMA JudgedTypesHold == ASSUME JudgedIInv, JudgedAssumed PROVE Judged!TypeOK
<1>1. Judged!AtWork # {} => loop = "up"  BY JudgedGroups DEF JudgedIInv, JudgedQueued
<1> QED
  BY <1>1 DEF JudgedIInv, JudgedTypes, JudgedQueued, JudgedCounted, JudgedOwned, Judged!TypeOK

LEMMA JudgedClean == ASSUME JudgedIInv, JudgedAssumed PROVE Judged!NothingIsLeft
<1> SUFFICES ASSUME pc = "over", loop \in {Off, "stopped"} PROVE boxes \subseteq untold \cup kept
  BY DEF Judged!NothingIsLeft
<1>1. \A b : ~JudgedInHand(b)
  BY DEF JudgedIInv, JudgedQueued, JudgedInHand, Judged!At, JudgedHere, JudgedAssumed
<1> QED  BY <1>1 DEF JudgedIInv, JudgedOwned

LEMMA JudgedJudges == ASSUME JudgedIInv PROVE Judged!JudgedIsDone /\ Judged!InTime
  BY DEF JudgedIInv, JudgedTypes, JudgedPhases, Judged!InTime
-----------------------------------------------------------------------------
\* The whole.
Parts ==
  /\ In("conversation") => TalkIInv
  /\ In("evaluation") => JudgedIInv

LEMMA Assumes == TalkAssumed /\ JudgedAssumed
  BY ServicesAssumption DEF TalkAssumed, JudgedAssumed, AllCalls, TalkAllCalls, Named

LEMMA InitParts == Init => Parts
<1> SUFFICES ASSUME Init PROVE Parts  OBVIOUS
<1>1. CASE In("conversation") /\ Talk!Init
  BY <1>1, Assumes, TalkStarts DEF Parts, In
<1>2. CASE In("evaluation") /\ Judged!Init
  BY <1>2, Assumes, JudgedStarts DEF Parts, In
<1> QED  BY <1>1, <1>2 DEF Init

\* A step is one of the component that runs, or leaves it alone.
LEMMA StepIs ==
  ASSUME [Next]_all
  PROVE  /\ UNCHANGED scenario
         /\ In("conversation") => [Talk!Next]_(Talk!vars)
         /\ In("evaluation") => [Judged!Next]_(Judged!vars)
<1>1. CASE UNCHANGED all
  BY <1>1 DEF all, Talk!vars, Judged!vars, Judged!runner, Judged!counts, Judged!edge
<1>2. CASE Next
  BY <1>2 DEF Next, In
<1> QED  BY <1>1, <1>2

LEMMA PartsAlways == Spec => []Parts
<1>1. Init => Parts  BY InitParts
<1>2. Parts /\ [Next]_all => Parts'
  <2> SUFFICES ASSUME Parts, [Next]_all PROVE Parts'  OBVIOUS
  <2>0. UNCHANGED scenario  BY StepIs
  <2>1. CASE In("conversation")
    BY <2>0, <2>1, StepIs, Assumes, TalkNextKeeps DEF Parts, In
  <2>2. CASE In("evaluation")
    BY <2>0, <2>2, StepIs, Assumes, JudgedNextKeeps DEF Parts, In
  <2> QED  BY <2>0, <2>1, <2>2 DEF Parts, In
<1> QED  BY <1>1, <1>2, PTL DEF Spec
-----------------------------------------------------------------------------
\* The component that runs keeps the types of its state.
THEOREM TypeCorrect == Spec => []TypeOK
<1>1. Parts => TypeOK
  BY Assumes, TalkTypesHold, JudgedTypesHold DEF Parts, TypeOK
<1> QED  BY <1>1, PartsAlways, PTL

\* For any number of tasks that share the model client, answers, ids of calls and
\* endpoints, and any size of the cache: what the model thought comes back with the
\* call it belongs to and with no other, the newest is never lost, every request is
\* one the vendor accepts and no tool spins (echo.rs, vendor.rs, loop.rs).  For any
\* plan of events, however the loop, a handler, a sandbox call or edge fails: an event
\* goes out when what it waits for is there, only a scenario that is over is judged by
\* its checks, and no container is left but those nobody was told of and those edge
\* refused to release (runner.rs, real_stack.rs, wiring.rs).
THEOREM HistoriesAreTrue == Spec => []HistoryIsTrue
<1>1. Parts => HistoryIsTrue
  <2>1. CASE In("conversation")
    BY <2>1, Assumes, TalkBelong, TalkComesBack, TalkAccepted, TalkSpinless DEF Parts,
        HistoryIsTrue, In
  <2>2. CASE In("evaluation")
    BY <2>2, Assumes, JudgedClean, JudgedJudges DEF Parts, HistoryIsTrue, In
  <2> QED  BY <2>1, <2>2 DEF HistoryIsTrue
<1> QED  BY <1>1, PartsAlways, PTL
=============================================================================
