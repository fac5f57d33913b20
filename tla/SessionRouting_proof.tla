----------------------- MODULE SessionRouting_proof ------------------------
(***************************************************************************)
(* Proofs about SessionRouting, for any events, failures and deadlines:     *)
(* a text is written once, before the task it starts, what was handled is   *)
(* written, and a !restart takes its thread over.                          *)
(***************************************************************************)
EXTENDS SessionRouting, SequenceTheorems, FiniteSetTheorems, TLAPS

\* No event is what stands for none.
Assumed == NoThread \notin Events

PCs == Going \cup Over \cup {"out"}
SessionRow == [thread : Events \cup {NoThread}, status : {"none", "active", "archived"}, at : Nat]
TaskRow == [at : {"none", "row", "queued", "busy", "stopping", "answered", "noting", "unnoted", "over"},
            session : Events \cup {NoThread}, seq : Nat, try : 1..Attempts]
Broken == {"failed", "exhausted", "cut"}

\* Where a handler is, or else where the write is that it left behind.
Phase(e) == IF handler[e].owes = "nothing" THEN handler[e].pc ELSE handler[e].owes

Before == {"out", "look", "tasks", "stop", "archive", "open"}
Writing == {"turn", "create", "seq", "write"}
After == {"touch", "list", "row", "record", "return", "reply", "done"}

\* The transcript of s, or any transcript, has the text of e.
Has(s, e) == \E i \in DOMAIN turns[s] : turns[s][i] = e
Written(e) == \E s \in Events : Has(s, e)
Pending(e) == handler[e].left \in {<<e>>, <<None, e>>}
Speaks(e) == e \notin Bare \/ ~Opens(e)
Born(s) == sessions[s].status # "none"
Unborn(e) == Opens(e) /\ Phase(e) \in {"turn", "create"}

Begun(e) ==
  /\ e \notin seen => handler[e].pc = "out"
  /\ handler[e].owes # "nothing" => handler[e].pc = "cut"
  /\ Phase(e) \in {"out", "look"} => handler[e].session = NoThread

\* The text of e is written nowhere as long as it may yet be written.
Text(e) ==
  /\ handler[e].left \in {<<>>, <<None>>, <<e>>, <<None, e>>}
  /\ Phase(e) \in Before => ~Written(e) /\ handler[e].left = <<>>
  /\ Pending(e) => ~Written(e)
  /\ Phase(e) \in {"seq", "write"} => handler[e].left # <<>>
  /\ Phase(e) \in Writing /\ Speaks(e) => Pending(e)

\* Once the turns are over the text of e is in the transcript of its session.
Heard(e) ==
  /\ Phase(e) \in After /\ handler[e].session # NoThread /\ Speaks(e) => Has(handler[e].session, e)
  /\ Phase(e) \in {"touch", "list", "row", "record"} => Speaks(e)

\* The session a handler works in is there, unless it is its own and still to
\* be created.
Place(e) ==
  /\ Phase(e) \in Writing \cup (After \ {"done"}) \cup {"tasks", "stop", "archive"}
       => handler[e].session \in Events
  /\ Phase(e) = "create" => Opens(e)
  /\ Phase(e) \in Before \/ Unborn(e) => ~Born(e)
  /\ /\ Phase(e) \in Writing \cup After \cup {"tasks", "stop", "archive"}
     /\ handler[e].session # NoThread /\ ~Unborn(e)
     => Born(handler[e].session)
  /\ Phase(e) \in {"tasks", "stop", "archive"} =>
       kind[e] = "restart" /\ handler[e].thread = sessions[handler[e].session].thread

Local(e) == Begun(e) /\ Text(e) /\ Heard(e) /\ Place(e)

\* No text has two places.
OnePlace == \A e, s, r \in Events : \A i \in DOMAIN turns[s], j \in DOMAIN turns[r] :
              turns[s][i] = e /\ turns[r][j] = e => s = r /\ i = j

TasksHeard == \A t \in Events : tasks[t].at # "none" =>
                tasks[t].session \in Events /\ Has(tasks[t].session, t)

\* A !restart that has archived session s, or has come after that: it failed,
\* or is about to open a session in the thread, or has one that is newer.
Heir(f, s) ==
  /\ kind[f] = "restart"
  /\ \/ handler[f].pc \in Broken
     \/ handler[f].pc = "open" /\ handler[f].thread = sessions[s].thread
     \/ /\ handler[f].pc \in {"turn", "create"} /\ Opens(f)
        /\ handler[f].thread = sessions[s].thread /\ handler[f].at > sessions[s].at
     \/ Born(f) /\ sessions[f].thread = sessions[s].thread /\ sessions[f].at > sessions[s].at

Inherited == \A s \in Events : sessions[s].status = "archived" => \E f \in Events : Heir(f, s)

\* Each thread has a newest session.
Newest(m, s) == /\ Born(m) /\ sessions[m].thread = sessions[s].thread
                /\ \A r \in Events : Born(r) /\ sessions[r].thread = sessions[s].thread
                                       => sessions[r].at <= sessions[m].at
HasNewest == \A s \in Events : Born(s) => \E m \in Events : Newest(m, s)

Times == \A e \in Events : sessions[e].at <= clock /\ handler[e].at <= clock

IInv == /\ TypeOK /\ OnePlace /\ TasksHeard /\ Inherited /\ HasNewest /\ Times
        /\ \A e \in Events : Local(e)
-----------------------------------------------------------------------------
\* One handler moves; the others stay.
LEMMA OneMoves ==
  ASSUME TypeOK, NEW e \in Events, NEW h \in Handler, Continue(e, h)
  PROVE  /\ handler' \in [Events -> Handler] /\ handler'[e] = h
         /\ \A f \in Events \ {e} : handler'[f] = handler[f]
  BY DEF TypeOK, Continue

\* The records of handlers with another pc.
Like(h, k) == /\ h \in Handler
              /\ h.owes = k.owes /\ h.session = k.session /\ h.thread = k.thread
              /\ h.at = k.at /\ h.left = k.left
LEMMA PcOnly ==
  ASSUME NEW k \in Handler, NEW p \in PCs
  PROVE  Like([k EXCEPT !.pc = p], k) /\ [k EXCEPT !.pc = p].pc = p
  BY DEF Like, Handler, PCs

LEMMA GoMoves ==
  ASSUME TypeOK, NEW e \in Events, NEW p \in PCs, Go(e, p)
  PROVE  /\ handler' \in [Events -> Handler]
         /\ Like(handler'[e], handler[e]) /\ handler'[e].pc = p
         /\ \A f \in Events \ {e} : handler'[f] = handler[f]
<1> DEFINE h == [handler[e] EXCEPT !.pc = p]
<1>1. handler[e] \in Handler  BY DEF TypeOK
<1>2. h \in Handler /\ Like(h, handler[e]) /\ h.pc = p  BY <1>1, PcOnly DEF Like
<1>3. Continue(e, h)  BY DEF Go
<1> HIDE DEF h
<1> QED  BY <1>2, <1>3, OneMoves

LEMMA OutsideIs ==
  /\ Outside \in Handler /\ Outside.pc = "out" /\ Outside.owes = "nothing"
  /\ Outside.session = NoThread /\ Outside.left = <<>> /\ Outside.at = 0
  BY DEF Outside, Handler, Attempts, Over

LEMMA StopMoves ==
  ASSUME TypeOK, NEW e \in Events, NEW p \in PCs, Stop(e, p)
  PROVE  /\ handler' \in [Events -> Handler]
         /\ handler'[e].pc = p /\ handler'[e].owes = "nothing" /\ handler'[e].left = <<>>
         /\ handler'[e].session = handler[e].session /\ handler'[e].at = 0
         /\ \A f \in Events \ {e} : handler'[f] = handler[f]
<1> DEFINE h == [Outside EXCEPT !.pc = p, !.session = handler[e].session]
<1>1. handler[e] \in Handler  BY DEF TypeOK
<1>2. /\ h \in Handler /\ h.pc = p /\ h.owes = "nothing" /\ h.left = <<>>
      /\ h.session = handler[e].session /\ h.at = 0
  <2> DEFINE g == [Outside EXCEPT !.pc = p]
  <2>1. Like(g, Outside) /\ g.pc = p  BY OutsideIs, PcOnly
  <2>2. h = [g EXCEPT !.session = handler[e].session]  BY DEF Outside
  <2>3. handler[e].session \in Events \cup {NoThread}  BY <1>1 DEF Handler
  <2> HIDE DEF g, h
  <2> QED  BY <2>1, <2>2, <2>3, OutsideIs DEF Like, Handler
<1>3. Continue(e, h)  BY DEF Stop
<1> HIDE DEF h
<1> QED  BY <1>2, <1>3, OneMoves
-----------------------------------------------------------------------------
\* Transcripts only grow, and the thread and age of a session stay.
Grows == \A s \in Events : \A i \in DOMAIN turns[s] :
           i \in DOMAIN turns'[s] /\ turns'[s][i] = turns[s][i]
RowsKept == \A s \in Events : Born(s) =>
              /\ Born(s)' /\ sessions'[s].thread = sessions[s].thread
              /\ sessions'[s].at = sessions[s].at

\* What a step of e does to the store disturbs no other handler.
LEMMA OthersStay ==
  ASSUME Assumed, IInv, NEW e \in Events, NEW f \in Events \ {e},
         kind' = kind, seen \subseteq seen', handler'[f] = handler[f],
         Grows, RowsKept, Written(f)' => Written(f), Born(f)' => Born(f)
  PROVE  Local(f)'
<1>1. Local(f)  BY DEF IInv
<1>2. Phase(f)' = Phase(f) /\ Opens(f)' = Opens(f) /\ Speaks(f)' = Speaks(f) /\ Unborn(f)' = Unborn(f)
  BY DEF Phase, Opens, Speaks, Unborn
<1>3. Begun(f)'  BY <1>1, <1>2 DEF Local, Begun
<1>4. Text(f)'  BY <1>1, <1>2 DEF Local, Text, Pending
<1>5. Heard(f)'
  <2>1. \A s \in Events : Has(s, f) => Has(s, f)'  BY DEF Has, Grows
  <2>2. handler[f].session \in Events \cup {NoThread}  BY DEF IInv, TypeOK, Handler
  <2> QED  BY <1>1, <1>2, <2>1, <2>2 DEF Local, Heard
<1>6. Place(f)'
  <2>1. handler[f].session \in Events \cup {NoThread}  BY DEF IInv, TypeOK, Handler
  <2>2. \A s \in Events : Born(s) => Born(s)' /\ sessions'[s].thread = sessions[s].thread
    BY DEF RowsKept
  <2>3. Place(f)  BY <1>1 DEF Local
  <2>4. Phase(f) \in {"tasks", "stop", "archive"} =>
          sessions'[handler[f].session].thread = sessions[handler[f].session].thread
    BY <2>1, <2>2, <2>3 DEF Place, Unborn, Assumed
  <2> HIDE DEF IInv
  <2> QED  BY <1>2, <2>1, <2>2, <2>3, <2>4 DEF Place
<1> QED  BY <1>3, <1>4, <1>5, <1>6 DEF Local

\* A step that leaves transcripts and sessions alone.
LEMMA QuietStep ==
  ASSUME Assumed, IInv, NEW e \in Events, TypeOK', kind' = kind, seen \subseteq seen',
         UNCHANGED <<sessions, turns>>, clock <= clock',
         \A f \in Events \ {e} : handler'[f] = handler[f],
         handler'[e].at <= clock',
         \A t \in Events : tasks'[t].at # "none" =>
            tasks[t].at # "none" /\ tasks'[t].session = tasks[t].session,
         \A s \in Events : Heir(e, s) => Heir(e, s)',
         Local(e)'
  PROVE  IInv'
<1>1. \A f \in Events : Local(f)'
  <2>1. Grows /\ RowsKept  BY DEF Grows, RowsKept, Born
  <2>2. \A f \in Events : (Written(f)' => Written(f)) /\ (Born(f)' => Born(f))
    BY DEF Written, Has, Born
  <2> QED  BY <2>1, <2>2, OthersStay
<1>2. OnePlace'  BY DEF IInv, OnePlace
<1>3. TasksHeard'  BY DEF IInv, TasksHeard, Has
<1>4. Inherited'
  <2>1. \A f \in Events \ {e}, s \in Events : Heir(f, s) => Heir(f, s)'
    BY DEF Heir, Opens, Born
  <2> QED  BY <2>1 DEF IInv, Inherited
<1>5. HasNewest'  BY DEF IInv, HasNewest, Newest, Born
<1>6. Times'
  <2>1. \A f \in Events : sessions[f].at \in Nat /\ handler[f].at \in Nat
    BY DEF IInv, TypeOK, Handler
  <2>2. clock \in Nat /\ clock' \in Nat  BY DEF IInv, TypeOK
  <2>3. \A f \in Events : sessions[f].at <= clock'  BY <2>1, <2>2 DEF IInv, Times
  <2>4. \A f \in Events \ {e} : handler[f].at <= clock'  BY <2>1, <2>2 DEF IInv, Times
  <2> QED  BY <2>3, <2>4 DEF Times
<1> QED  BY <1>1, <1>2, <1>3, <1>4, <1>5, <1>6 DEF IInv

\* What is read of the store, when the store stays.
LEMMA SameStore ==
  ASSUME UNCHANGED <<sessions, turns>>
  PROVE  /\ \A s, e \in Events : Has(s, e)' = Has(s, e)
         /\ \A e \in Events : Written(e)' = Written(e) /\ Born(e)' = Born(e)
  BY DEF Has, Written, Born

\* A handler that goes on, its record alike, in a phase that asks no more.
Asks(p, q) ==
  \/ q \in Over \ {"done"}
  \/ q = "done" /\ p \in {"return", "reply"}
  \/ p = q
  \/ <<p, q>> \in {<<"out", "look">>, <<"seq", "write">>, <<"touch", "list">>, <<"list", "row">>,
                   <<"list", "return">>, <<"row", "record">>, <<"record", "reply">>,
                   <<"record", "return">>, <<"tasks", "stop">>, <<"stop", "archive">>}

LEMMA LocalStays ==
  ASSUME Assumed, IInv, NEW e \in Events, kind' = kind, UNCHANGED <<sessions, turns>>,
         e \in seen', handler'[e] \in Handler,
         handler'[e].owes # "nothing" => handler'[e].pc = "cut",
         Asks(Phase(e), Phase(e)'),
         handler'[e].session = handler[e].session,
         \/ handler'[e].left = handler[e].left /\ handler'[e].thread = handler[e].thread
         \/ handler'[e].left = <<>> /\ Phase(e)' \in Over
  PROVE  Local(e)'
<1> DEFINE p == Phase(e)
           x == handler[e].session
<1>1. Local(e)  BY DEF IInv
<1>2. PICK q : q = Phase(e)'  OBVIOUS
<1>3. /\ \A s \in Events : Has(s, e)' = Has(s, e) /\ Born(s)' = Born(s)
      /\ Written(e)' = Written(e)
  BY SameStore
<1>4. Opens(e)' = Opens(e) /\ Speaks(e)' = Speaks(e)  BY DEF Opens, Speaks
<1>5. Asks(p, q)  BY <1>2
<1>6. x \in Events \cup {NoThread}  BY DEF IInv, TypeOK, Handler
<1>7. p \in PCs \cup Writes  BY DEF Phase, IInv, TypeOK, Handler, PCs
<1> HIDE DEF p, IInv
<1>8. Begun(e)'
  <2>1. q \in {"out", "look"} => p \in {"out", "look"}  BY <1>5 DEF Asks, Over
  <2> QED  BY <1>1, <1>2, <2>1 DEF Local, Begun, p
<1>9. Text(e)'
  <2>1. q \in Before => p \in Before  BY <1>5 DEF Asks, Over, Before
  <2>2. q \in {"seq", "write"} => p \in {"seq", "write"}  BY <1>5 DEF Asks, Over
  <2>3. q \in Writing => p \in Writing  BY <1>5 DEF Asks, Over, Writing
  <2>4. q \in Over => q \notin Before \cup Writing  BY DEF Over, Before, Writing
  <2>5. CASE handler'[e].left = handler[e].left
    BY <1>1, <1>2, <1>3, <1>4, <2>1, <2>2, <2>3, <2>5 DEF Local, Text, Pending, p
  <2>6. CASE handler'[e].left = <<>> /\ q \in Over
    BY <1>2, <2>4, <2>6 DEF Text, Pending, Writing
  <2> QED  BY <1>2, <2>5, <2>6
<1>10. Heard(e)'
  <2>1. q \in After => p \in After  BY <1>5 DEF Asks, Over, After
  <2>2. q \in {"touch", "list", "row", "record"} => p \in {"touch", "list", "row", "record"}
    BY <1>5 DEF Asks, Over
  <2> QED  BY <1>1, <1>2, <1>3, <1>4, <1>6, <2>1, <2>2 DEF Local, Heard, p
<1>11. Place(e)'
  <2> DEFINE Early == {"tasks", "stop", "archive"}
             Deep == Writing \cup (After \ {"done"}) \cup Early
             All == Writing \cup After \cup Early
  <2>1. q \in Deep => p \in Deep  BY <1>5 DEF Asks, Over, After, Writing
  <2>2. q \in All => p \in All  BY <1>5 DEF Asks, Over, After, Writing
  <2>3. q \in Early => p \in Early  BY <1>5 DEF Asks, Over
  <2>4. q \in Before => p \in Before  BY <1>5 DEF Asks, Over, Before
  <2>5. q \in {"turn", "create"} => p = q  BY <1>5 DEF Asks, Over
  <2>6. p \in {"turn", "create"} => q = p \/ q \in Over \ {"done"}  BY <1>5 DEF Asks, Over
  <2>7. q \in Over \ {"done"} => q \notin All  BY DEF Over, After, Writing
  <2>8. q \in Early => handler'[e].thread = handler[e].thread  BY <1>2 DEF Over
  <2> HIDE DEF Early, Deep, All
  <2>9. Place(e)  BY <1>1 DEF Local
  <2>10. q \in Deep => x \in Events  BY <2>1, <2>9 DEF Place, p, Deep, Early
  <2>11. q \in Before \/ Unborn(e)' => ~Born(e)'
    BY <1>2, <1>3, <1>4, <2>4, <2>5, <2>9 DEF Place, p, Unborn
  <2>12. q \in All /\ x # NoThread /\ ~Unborn(e)' => Born(x)'
    <3>1. q \in All /\ ~Unborn(e)' => ~Unborn(e)
      BY <1>2, <1>4, <2>6, <2>7 DEF Unborn, p
    <3> QED  BY <1>3, <1>6, <2>2, <2>9, <3>1 DEF Place, p, All, Early
  <2>13. q \in Early => kind[e] = "restart" /\ handler[e].thread = sessions[x].thread
    BY <2>3, <2>9 DEF Place, p, Early
  <2>14. q = "create" => Opens(e)'  BY <1>4, <2>5, <2>9 DEF Place, p
  <2> QED  BY <1>2, <2>8, <2>10, <2>11, <2>12, <2>13, <2>14 DEF Place, Deep, All, Early
<1> QED  BY <1>8, <1>9, <1>10, <1>11 DEF Local

LEMMA HeirStays ==
  ASSUME NEW e \in Events, NEW s \in Events, kind' = kind, UNCHANGED sessions, Heir(e, s),
         \/ handler'[e].pc \in Broken
         \/ handler[e].pc \notin {"open", "turn", "create"} \cup Broken
  PROVE  Heir(e, s)'
  BY DEF Heir, Born

\* A step of one handler, or of one task, that writes nothing.
LEMMA QuietMove ==
  ASSUME Assumed, IInv, NEW e \in Events, UNCHANGED <<kind, sessions, turns, clock>>,
         e \in seen', seen' \in {seen, seen \cup {e}}, errors' \subseteq Events,
         lock' \in Events \cup {None},
         tasks' \in [Events -> TaskRow],
         \A t \in Events : tasks'[t].at # "none" =>
            tasks[t].at # "none" /\ tasks'[t].session = tasks[t].session,
         handler' \in [Events -> Handler],
         \A f \in Events \ {e} : handler'[f] = handler[f],
         handler'[e].owes # "nothing" => handler'[e].pc = "cut",
         Asks(Phase(e), Phase(e)'),
         handler'[e].session = handler[e].session,
         \/ handler'[e].left = handler[e].left /\ handler'[e].thread = handler[e].thread
         \/ handler'[e].left = <<>> /\ Phase(e)' \in Over,
         handler'[e].at \in {0, handler[e].at},
         \/ handler'[e].pc \in Broken
         \/ handler[e].pc \notin {"open", "turn", "create"} \cup Broken
  PROVE  IInv'
<1>1. TypeOK'  BY DEF IInv, TypeOK, TaskRow
<1>2. Local(e)'  BY LocalStays
<1>3. \A s \in Events : Heir(e, s) => Heir(e, s)'  BY HeirStays
<1>4. clock' = clock /\ clock \in Nat /\ handler[e].at <= clock  BY DEF IInv, TypeOK, Times
<1>5. handler'[e].at <= clock'  BY <1>4
<1>6. seen \subseteq seen'  OBVIOUS
<1> QED  BY <1>1, <1>2, <1>3, <1>4, <1>5, <1>6, QuietStep

\* What the invariant says of a handler at pc p.
LEMMA AtPhase ==
  ASSUME IInv, NEW e \in Events
  PROVE  /\ handler[e] \in Handler /\ Local(e)
         /\ handler[e].pc # "cut" => Phase(e) = handler[e].pc /\ handler[e].owes = "nothing"
         /\ handler[e].pc # "out" => e \in seen
  BY DEF IInv, TypeOK, Local, Begun, Phase

\* The plain steps from one pc to the next.
LEMMA GoStep ==
  ASSUME Assumed, IInv, NEW e \in Events, NEW q \in PCs, Go(e, q),
         Asks(handler[e].pc, q), handler[e].pc \notin {"out", "cut"},
         handler[e].pc \notin {"open", "turn", "create"} \cup Broken,
         UNCHANGED <<edge, seen, sessions, turns, lock, clock>>,
         tasks' \in [Events -> TaskRow],
         \A t \in Events : tasks'[t].at # "none" =>
            tasks[t].at # "none" /\ tasks'[t].session = tasks[t].session
  PROVE  IInv'
<1>1. TypeOK  BY DEF IInv
<1>2. /\ handler' \in [Events -> Handler]
      /\ Like(handler'[e], handler[e]) /\ handler'[e].pc = q
      /\ \A f \in Events \ {e} : handler'[f] = handler[f]
  BY <1>1, GoMoves
<1>3. Phase(e) = handler[e].pc /\ handler[e].owes = "nothing" /\ e \in seen  BY AtPhase
<1>4. Phase(e)' = q  BY <1>2, <1>3 DEF Phase, Like
<1>5. errors \subseteq Events /\ lock \in Events \cup {None}  BY <1>1 DEF TypeOK
<1> QED  BY <1>2, <1>3, <1>4, <1>5, QuietMove DEF Like, edge

\* The ends: with Ok, with Err, or dropped.
LEMMA StopStep ==
  ASSUME Assumed, IInv, NEW e \in Events, NEW q \in Over, Stop(e, q),
         q # "done" \/ handler[e].pc \in {"return", "reply"}, handler[e].pc \notin {"out", "cut"},
         q = "done" => handler[e].pc \notin {"open", "turn", "create"} \cup Broken,
         UNCHANGED <<kind, seen, sessions, turns, tasks, clock>>,
         errors' \subseteq Events, lock' \in Events \cup {None}
  PROVE  IInv'
<1>1. TypeOK  BY DEF IInv
<1>2. /\ handler' \in [Events -> Handler]
      /\ handler'[e].pc = q /\ handler'[e].owes = "nothing" /\ handler'[e].left = <<>>
      /\ handler'[e].session = handler[e].session /\ handler'[e].at = 0
      /\ \A f \in Events \ {e} : handler'[f] = handler[f]
  BY <1>1, StopMoves DEF PCs
<1>3. Phase(e) = handler[e].pc /\ e \in seen  BY AtPhase
<1>4. Phase(e)' = q  BY <1>2 DEF Phase
<1>5. tasks' \in [Events -> TaskRow]  BY <1>1 DEF TypeOK, TaskRow
<1>6. Asks(Phase(e), Phase(e)')  BY <1>3, <1>4 DEF Asks
<1>7. q = "done" \/ q \in Broken  BY DEF Over, Broken
<1> QED  BY <1>2, <1>3, <1>4, <1>5, <1>6, <1>7, QuietMove
-----------------------------------------------------------------------------
\* The handlers, as long as they write nothing.
LEMMA AcceptIInv ==
  ASSUME Assumed, IInv, NEW e \in Events, Accept(e)
  PROVE  IInv'
<1>1. handler[e].pc = "out" /\ Phase(e) = "out" /\ handler[e].owes = "nothing" /\ TypeOK
  BY DEF Accept, IInv, Local, Begun, Phase
<1>2. PICK q \in {"look", "cut"} : Go(e, q) /\ errors' \subseteq Events
  BY <1>1 DEF Accept, Erring, TypeOK
<1>3. /\ handler' \in [Events -> Handler]
      /\ Like(handler'[e], handler[e]) /\ handler'[e].pc = q
      /\ \A f \in Events \ {e} : handler'[f] = handler[f]
  BY <1>1, <1>2, GoMoves DEF PCs, Going, Storing, Over
<1>4. Phase(e)' = q  BY <1>1, <1>3 DEF Phase, Like
<1>5. lock \in Events \cup {None} /\ tasks \in [Events -> TaskRow]  BY <1>1 DEF TypeOK, TaskRow
<1>6. Asks("out", q)  BY DEF Asks, Over
<1> QED  BY <1>1, <1>2, <1>3, <1>4, <1>5, <1>6, QuietMove DEF Accept, Like, Broken

LEMMA AcceptFailsIInv ==
  ASSUME Assumed, IInv, NEW e \in Events, AcceptFails(e)
  PROVE  IInv'
<1>1. TypeOK'  BY DEF AcceptFails, Erring, IInv, TypeOK
<1>2. UNCHANGED <<kind, seen, sessions, turns, tasks, handler, lock, clock>>  BY DEF AcceptFails
<1> QED  BY <1>1, <1>2 DEF IInv, Local, Begun, Text, Heard, Place, OnePlace, TasksHeard, Inherited,
           HasNewest, Times, Heir, Newest, Born, Unborn, Has, Written, Pending, Speaks, Opens, Phase

LEMMA ReadSeqIInv ==
  ASSUME Assumed, IInv, NEW e \in Events, ReadSeq(e)
  PROVE  IInv'
<1> DEFINE h == [handler[e] EXCEPT !.pc = "write", !.seq = NextSeq(e)]
<1>1. Phase(e) = "seq" /\ handler[e].owes = "nothing" /\ e \in seen /\ handler[e] \in Handler
      /\ Local(e)
  BY AtPhase DEF ReadSeq, At
<1>2. handler[e].session \in Events  BY <1>1 DEF Local, Place, Writing
<1>3. NextSeq(e) \in Nat  BY <1>2 DEF NextSeq, IInv, TypeOK
<1>4. Like(h, handler[e]) /\ h.pc = "write"
  <2> DEFINE g == [handler[e] EXCEPT !.pc = "write"]
  <2>1. Like(g, handler[e]) /\ g.pc = "write"
    BY <1>1, PcOnly DEF PCs, Going, Storing
  <2>2. h = [g EXCEPT !.seq = NextSeq(e)]  OBVIOUS
  <2> HIDE DEF g, h
  <2> QED  BY <1>3, <2>1, <2>2 DEF Like, Handler
<1>5. /\ handler' \in [Events -> Handler] /\ handler'[e] = h
      /\ \A f \in Events \ {e} : handler'[f] = handler[f]
  BY <1>4, OneMoves DEF ReadSeq, IInv, Like
<1> HIDE DEF h
<1>6. Phase(e)' = "write"  BY <1>1, <1>4, <1>5 DEF Phase, Like
<1>7. Asks("seq", "write")  BY DEF Asks
<1>8. errors \subseteq Events /\ lock \in Events \cup {None} /\ tasks \in [Events -> TaskRow]
  BY DEF IInv, TypeOK, TaskRow
<1> QED  BY <1>1, <1>4, <1>5, <1>6, <1>7, <1>8, QuietMove DEF ReadSeq, edge, Like, At, Broken

LEMMA SameTasks ==
  ASSUME IInv, UNCHANGED tasks
  PROVE  /\ tasks' \in [Events -> TaskRow]
         /\ \A t \in Events : tasks'[t].at # "none" =>
              tasks[t].at # "none" /\ tasks'[t].session = tasks[t].session
  BY DEF IInv, TypeOK, TaskRow

LEMMA ListIInv ==
  ASSUME Assumed, IInv, NEW e \in Events, List(e)
  PROVE  IInv'
<1>1. PICK q \in {"return", "row"} : Go(e, q)  BY DEF List
<1>2. Asks("list", q) /\ q \in PCs  BY DEF Asks, PCs, Going, Storing
<1> QED  BY <1>1, <1>2, SameTasks, GoStep DEF List, At, Broken

LEMMA EnqueueIInv ==
  ASSUME Assumed, IInv, NEW e \in Events, Enqueue(e)
  PROVE  IInv'
<1>1. PICK q \in {"return", "reply"} : Go(e, q)  BY DEF Enqueue
<1>2. Asks("record", q) /\ q \in PCs  BY DEF Asks, PCs, Going
<1>3. tasks' \in [Events -> TaskRow]
      /\ \A t \in Events : tasks'[t].at # "none" =>
           tasks[t].at # "none" /\ tasks'[t].session = tasks[t].session
  <2> DEFINE k == [tasks[e] EXCEPT !.at = IF @ = "row" THEN "queued" ELSE @]
  <2>1. tasks \in [Events -> TaskRow]  BY DEF IInv, TypeOK, TaskRow
  <2>2. k \in TaskRow /\ k.session = tasks[e].session /\ (k.at # "none" => tasks[e].at # "none")
    BY <2>1 DEF TaskRow
  <2>3. tasks' = [tasks EXCEPT ![e] = k]  BY <2>1 DEF Enqueue
  <2> HIDE DEF k
  <2> QED  BY <2>1, <2>2, <2>3
<1> QED  BY <1>1, <1>2, <1>3, GoStep DEF Enqueue, At, Broken

LEMMA ReturnIInv ==
  ASSUME Assumed, IInv, NEW e \in Events, Return(e) \/ Reply(e)
  PROVE  IInv'
<1>1. Stop(e, "done") /\ handler[e].pc \in {"return", "reply"}
      /\ UNCHANGED <<kind, errors, seen, sessions, turns, tasks, clock, lock>>
  BY DEF Return, Reply, ReturnOk, edge, At
<1> QED  BY <1>1, StopStep DEF Over, Broken, IInv, TypeOK

LEMMA FailsIInv ==
  ASSUME Assumed, IInv, NEW e \in Events, Fails(e)
  PROVE  IInv'
<1>1. Stop(e, "failed") /\ handler[e].pc \in Storing
      /\ UNCHANGED <<kind, seen, sessions, turns, tasks, clock>>
  BY DEF Fails, ReturnErr
<1>2. errors' \subseteq Events /\ lock' \in Events \cup {None}
  BY DEF Fails, ReturnErr, Erring, Release, IInv, TypeOK
<1> QED  BY <1>1, <1>2, StopStep DEF Over, Storing

LEMMA CutIInv ==
  ASSUME Assumed, IInv, NEW e \in Events, Cut(e)
  PROVE  IInv'
<1>1. UNCHANGED <<kind, seen, sessions, turns, tasks, clock>> /\ handler[e].pc \in Going
  BY DEF Cut
<1>2. errors' \subseteq Events /\ lock' \in Events \cup {None}
  BY DEF Cut, Erring, Release, IInv, TypeOK
<1>3. CASE Stop(e, "cut")
  BY <1>1, <1>2, <1>3, StopStep DEF Over, Going, Storing
<1>4. CASE handler[e].pc \in Writes
           /\ Continue(e, [handler[e] EXCEPT !.pc = "cut", !.owes = handler[e].pc])
  <2> DEFINE h == [handler[e] EXCEPT !.pc = "cut", !.owes = handler[e].pc]
  <2>1. Phase(e) = handler[e].pc /\ handler[e] \in Handler /\ e \in seen
    BY <1>4, AtPhase DEF Writes
  <2>2. /\ h \in Handler /\ h.pc = "cut" /\ h.owes = handler[e].pc /\ h.session = handler[e].session
        /\ h.left = handler[e].left /\ h.thread = handler[e].thread /\ h.at = handler[e].at
    <3> DEFINE g == [handler[e] EXCEPT !.pc = "cut"]
    <3>1. Like(g, handler[e]) /\ g.pc = "cut"  BY <2>1, PcOnly DEF PCs, Over
    <3>2. h = [g EXCEPT !.owes = handler[e].pc]  OBVIOUS
    <3> HIDE DEF g, h
    <3> QED  BY <1>4, <3>1, <3>2 DEF Like, Handler
  <2>3. Continue(e, h)  BY <1>4
  <2> HIDE DEF h
  <2>4. /\ handler' \in [Events -> Handler] /\ handler'[e] = h
        /\ \A f \in Events \ {e} : handler'[f] = handler[f]
    BY <2>2, <2>3, OneMoves DEF IInv
  <2>5. Phase(e)' = Phase(e)  BY <1>4, <2>1, <2>2, <2>4 DEF Phase, Writes
  <2>6. Asks(Phase(e), Phase(e)')  BY <2>5 DEF Asks
  <2> QED  BY <1>1, <1>2, <2>1, <2>2, <2>4, <2>6, SameTasks, QuietMove DEF Broken
<1> QED  BY <1>3, <1>4 DEF Cut

\* The tasks.
LEMMA TaskMoves ==
  ASSUME Assumed, IInv, NEW t \in Events, NEW p, NEW k \in TaskRow, Moves(t, p, k), p # "none",
         k.session = tasks[t].session,
         UNCHANGED <<edge, seen, sessions, turns, handler, lock, clock>>
  PROVE  IInv'
<1>1. tasks' = [tasks EXCEPT ![t] = k] /\ tasks[t].at # "none"  BY DEF Moves
<1>2. tasks \in [Events -> TaskRow]  BY DEF IInv, TypeOK, TaskRow
<1>3. TypeOK'  BY <1>1, <1>2 DEF IInv, TypeOK, TaskRow, edge
<1>4. UNCHANGED <<kind, seen, sessions, turns, handler, lock, clock>>  BY DEF edge
<1>5. Local(t)'
  BY <1>4 DEF IInv, Local, Begun, Text, Heard, Place, Born, Unborn, Has, Written, Pending, Speaks,
              Opens, Phase
<1>6. \A s \in Events : Heir(t, s) => Heir(t, s)'  BY <1>4 DEF Heir, Born, Opens
<1>7. handler'[t].at <= clock' /\ clock <= clock'  BY <1>4 DEF IInv, Times, TypeOK
<1>8. \A u \in Events : tasks'[u].at # "none" =>
         tasks[u].at # "none" /\ tasks'[u].session = tasks[u].session
  BY <1>1, <1>2
<1> QED  BY <1>3, <1>4, <1>5, <1>6, <1>7, <1>8, QuietStep

LEMMA TaskWith ==
  ASSUME NEW k \in TaskRow, NEW p \in {"busy", "answered", "over", "unnoted"}
  PROVE  [k EXCEPT !.at = p] \in TaskRow /\ [k EXCEPT !.at = p].session = k.session
  BY DEF TaskRow

LEMMA WorkIInv ==
  ASSUME Assumed, IInv, NEW t \in Events, Work(t) \/ Answer(t)
  PROVE  IInv'
<1>1. tasks[t] \in TaskRow  BY DEF IInv, TypeOK, TaskRow
<1>2. PICK p \in {"queued", "busy", "stopping"}, q \in {"busy", "answered", "over"} :
        Moves(t, p, [tasks[t] EXCEPT !.at = q])
  BY DEF Work, Answer
<1>3. UNCHANGED <<edge, seen, sessions, turns, handler, lock, clock>>  BY DEF Work, Answer
<1> DEFINE k == [tasks[t] EXCEPT !.at = q]
<1>4. k \in TaskRow /\ k.session = tasks[t].session  BY <1>1, TaskWith
<1> HIDE DEF k
<1>5. Moves(t, p, k)  BY <1>2 DEF k
<1> QED  BY <1>3, <1>4, <1>5, TaskMoves

LEMMA ReadAnswerSeqIInv ==
  ASSUME Assumed, IInv, NEW t \in Events, ReadAnswerSeq(t)
  PROVE  IInv'
<1> DEFINE k == [tasks[t] EXCEPT !.at = "noting", !.seq = Len(turns[tasks[t].session])]
<1>1. tasks[t] \in TaskRow  BY DEF IInv, TypeOK, TaskRow
<1>2. tasks[t].session \in Events  BY DEF ReadAnswerSeq, IInv, TasksHeard
<1>3. Len(turns[tasks[t].session]) \in Nat  BY <1>2 DEF IInv, TypeOK
<1>4. k \in TaskRow /\ k.session = tasks[t].session  BY <1>1, <1>3 DEF TaskRow
<1>5. Moves(t, "answered", k)  BY DEF ReadAnswerSeq
<1> HIDE DEF k
<1> QED  BY <1>4, <1>5, TaskMoves DEF ReadAnswerSeq

LEMMA ListTasksIInv ==
  ASSUME Assumed, IInv, NEW e \in Events, ListTasks(e)
  PROVE  IInv'
<1> DEFINE mine == {t \in Events : tasks[t].session = handler[e].session}
           b == \E t \in mine : tasks[t].at \in {"answered", "noting"}
           T == {t \in mine : Stoppable(t)}
           h == [handler[e] EXCEPT !.pc = "stop", !.todo = T, !.told = b]
<1>1. Phase(e) = "tasks" /\ handler[e].owes = "nothing" /\ e \in seen /\ handler[e] \in Handler
  BY AtPhase DEF ListTasks, At
<1>2. b \in BOOLEAN /\ T \subseteq Events  OBVIOUS
<1>3. Continue(e, h)  BY DEF ListTasks
<1> HIDE DEF b, T
<1>4. Like(h, handler[e]) /\ h.pc = "stop"
  <2> DEFINE g == [handler[e] EXCEPT !.pc = "stop"]
             i == [g EXCEPT !.todo = T]
  <2>1. Like(g, handler[e]) /\ g.pc = "stop"  BY <1>1, PcOnly DEF PCs, Going
  <2>2. h = [i EXCEPT !.told = b]  OBVIOUS
  <2> HIDE DEF g, h
  <2>3. Like(i, handler[e]) /\ i.pc = "stop"  BY <1>2, <2>1 DEF Like, Handler
  <2> HIDE DEF i
  <2> QED  BY <1>2, <2>2, <2>3 DEF Like, Handler
<1> HIDE DEF h
<1>5. /\ handler' \in [Events -> Handler] /\ handler'[e] = h
      /\ \A f \in Events \ {e} : handler'[f] = handler[f]
  BY <1>3, <1>4, OneMoves DEF IInv, Like
<1>6. Phase(e)' = "stop"  BY <1>1, <1>4, <1>5 DEF Phase, Like
<1>7. Asks("tasks", "stop")  BY DEF Asks
<1>8. errors \subseteq Events /\ lock \in Events \cup {None}  BY DEF IInv, TypeOK
<1> QED  BY <1>1, <1>4, <1>5, <1>6, <1>7, <1>8, SameTasks, QuietMove
         DEF ListTasks, edge, Like, At, Broken

LEMMA StopTasksIInv ==
  ASSUME Assumed, IInv, NEW e \in Events, StopTasks(e)
  PROVE  IInv'
<1>1. Phase(e) = "stop" /\ handler[e].owes = "nothing" /\ e \in seen /\ handler[e] \in Handler
  BY AtPhase DEF StopTasks, At
<1>2. UNCHANGED <<edge, seen, sessions, turns, lock, clock>> /\ handler[e].pc = "stop"
  BY DEF StopTasks, At
<1>3. CASE Go(e, "archive") /\ UNCHANGED tasks
  <2>1. Asks("stop", "archive") /\ "archive" \in PCs  BY DEF Asks, PCs, Going, Storing
  <2> QED  BY <1>2, <1>3, <2>1, SameTasks, GoStep DEF Broken
<1>4. ASSUME NEW t \in handler[e].todo,
             Continue(e, [handler[e] EXCEPT !.todo = @ \ {t}, !.told = TRUE]),
             tasks' = [tasks EXCEPT ![t].at = CASE @ \in {"row", "queued"} -> "over"
                                                [] @ = "busy" -> "stopping"
                                                [] OTHER -> @]
      PROVE  IInv'
  <2> DEFINE h == [handler[e] EXCEPT !.todo = @ \ {t}, !.told = TRUE]
             k == [tasks[t] EXCEPT !.at = CASE @ \in {"row", "queued"} -> "over"
                                            [] @ = "busy" -> "stopping"
                                            [] OTHER -> @]
  <2>1. t \in Events  BY <1>1 DEF Handler
  <2>2. tasks \in [Events -> TaskRow]  BY DEF IInv, TypeOK, TaskRow
  <2>3. k \in TaskRow /\ k.session = tasks[t].session /\ (k.at # "none" => tasks[t].at # "none")
    BY <2>1, <2>2 DEF TaskRow
  <2>4. tasks' = [tasks EXCEPT ![t] = k]  BY <1>4, <2>1, <2>2
  <2>5. Like(h, handler[e]) /\ h.pc = "stop"
    <3> DEFINE g == [handler[e] EXCEPT !.todo = @ \ {t}]
    <3>1. Like(g, handler[e]) /\ g.pc = "stop"  BY <1>1, <1>2 DEF Like, Handler
    <3>2. h = [g EXCEPT !.told = TRUE]  OBVIOUS
    <3> HIDE DEF g, h
    <3> QED  BY <3>1, <3>2 DEF Like, Handler
  <2>6. Continue(e, h)  BY <1>4
  <2> HIDE DEF h, k
  <2>7. tasks' \in [Events -> TaskRow]
        /\ \A u \in Events : tasks'[u].at # "none" =>
             tasks[u].at # "none" /\ tasks'[u].session = tasks[u].session
    BY <2>1, <2>2, <2>3, <2>4
  <2>8. /\ handler' \in [Events -> Handler] /\ handler'[e] = h
        /\ \A f \in Events \ {e} : handler'[f] = handler[f]
    BY <2>5, <2>6, OneMoves DEF IInv, Like
  <2>9. Phase(e)' = "stop"  BY <1>1, <2>5, <2>8 DEF Phase, Like
  <2>10. Asks("stop", "stop")  BY DEF Asks
  <2>11. errors \subseteq Events /\ lock \in Events \cup {None}  BY DEF IInv, TypeOK
  <2> QED  BY <1>1, <1>2, <2>5, <2>7, <2>8, <2>9, <2>10, <2>11, QuietMove DEF edge, Like, Broken
<1> QED  BY <1>3, <1>4 DEF StopTasks
-----------------------------------------------------------------------------
\* What Route, Open and TakeLock make of a handler.

\* The common part: the handler changes, the store does not.
LEMMA HandlerStep ==
  ASSUME Assumed, IInv, NEW e \in Events, e \in seen, UNCHANGED <<edge, seen, sessions, turns, tasks>>,
         lock' \in Events \cup {None}, clock' \in Nat, clock <= clock',
         NEW h \in Handler, Continue(e, h), h.at <= clock',
         \A s \in Events : Heir(e, s) => Heir(e, s)',
         handler' \in [Events -> Handler] /\ handler'[e] = h => Local(e)'
  PROVE  IInv'
<1>1. /\ handler' \in [Events -> Handler] /\ handler'[e] = h
      /\ \A f \in Events \ {e} : handler'[f] = handler[f]
  BY OneMoves DEF IInv
<1>2. TypeOK'  BY <1>1 DEF IInv, TypeOK, edge
<1>3. Local(e)'  BY <1>1
<1>4. handler'[e].at <= clock'  BY <1>1
<1>5. kind' = kind  BY DEF edge
<1> QED  BY <1>1, <1>2, <1>3, <1>4, <1>5, SameTasks, QuietStep

LEMMA FoundIsBorn ==
  ASSUME NEW e \in Events, NEW s \in SessionOf(e)
  PROVE  s \in Events /\ Born(s)
  BY DEF SessionOf, Found, Born

LEMMA RouteIInv ==
  ASSUME Assumed, IInv, NEW e \in Events, Route(e)
  PROVE  IInv'
<1>1. /\ Phase(e) = "look" /\ handler[e].owes = "nothing" /\ e \in seen /\ handler[e] \in Handler
      /\ handler[e].pc = "look" /\ Local(e)
  BY AtPhase DEF Route, At
<1>2. handler[e].session = NoThread /\ ~Written(e) /\ ~Born(e) /\ handler[e].left = <<>>
  BY <1>1 DEF Local, Begun, Text, Place, Before
<1>3. UNCHANGED <<seen, sessions, turns, tasks, lock, clock>>  BY DEF Route
<1>4. lock' \in Events \cup {None} /\ clock' \in Nat /\ clock <= clock' /\ handler[e].at <= clock'
  BY <1>3 DEF IInv, TypeOK, Times
<1>5. \A s \in Events : ~Heir(e, s)  BY <1>1, <1>2 DEF Heir, Broken
<1>6. /\ \A s, f \in Events : Has(s, f)' = Has(s, f) /\ Born(s)' = Born(s)
      /\ Written(e)' = Written(e)
  BY <1>3, SameStore
<1>7. ASSUME NEW s \in Events, Joins(e, s), UNCHANGED edge,
             Continue(e, [handler[e] EXCEPT !.pc = "turn", !.session = s, !.left = <<e>>])
      PROVE  IInv'
  <2> DEFINE h == [handler[e] EXCEPT !.pc = "turn", !.session = s, !.left = <<e>>]
  <2>1. /\ h \in Handler /\ h.pc = "turn" /\ h.session = s /\ h.left = <<e>> /\ h.owes = "nothing"
        /\ h.at = handler[e].at
    <3> DEFINE g == [handler[e] EXCEPT !.pc = "turn"]
               i == [g EXCEPT !.session = s]
    <3>1. Like(g, handler[e]) /\ g.pc = "turn"  BY <1>1, PcOnly DEF PCs, Going
    <3>2. h = [i EXCEPT !.left = <<e>>]  OBVIOUS
    <3> HIDE DEF g, h
    <3>3. i \in Handler /\ i.pc = "turn" /\ i.session = s /\ i.owes = "nothing" /\ i.at = handler[e].at
      BY <1>1, <3>1 DEF Like, Handler
    <3>4. <<e>> \in Seq(Events \cup {None})  OBVIOUS
    <3> HIDE DEF i
    <3> QED  BY <3>2, <3>3, <3>4 DEF Handler
  <2>2. Born(s) /\ s # e  BY <1>2, <1>7, FoundIsBorn DEF Joins
  <2>3. Continue(e, h)  BY <1>7
  <2> HIDE DEF h
  <2>4. ASSUME handler' \in [Events -> Handler], handler'[e] = h  PROVE Local(e)'
    <3>1. Phase(e)' = "turn" /\ ~Opens(e)'  BY <2>1, <2>2, <2>4 DEF Phase, Opens
    <3>2. Begun(e)'  BY <1>1, <1>3, <2>1, <2>4, <3>1 DEF Begun
    <3>3. Text(e)'  BY <1>2, <1>6, <2>1, <2>4, <3>1 DEF Text, Pending, Before, Writing
    <3>4. Heard(e)'  BY <3>1 DEF Heard, After
    <3>5. Place(e)'  BY <1>6, <2>1, <2>2, <2>4, <3>1 DEF Place, After, Writing, Before, Unborn
    <3> QED  BY <3>2, <3>3, <3>4, <3>5 DEF Local
  <2>5. h.at <= clock'  BY <1>4, <2>1
  <2> QED  BY <1>1, <1>3, <1>4, <1>5, <1>7, <2>1, <2>3, <2>4, <2>5, HandlerStep
<1>8. ASSUME NEW s \in Events, Ends(e, s), UNCHANGED edge,
             Continue(e, [handler[e] EXCEPT !.pc = "tasks", !.session = s,
                                            !.thread = sessions[s].thread])
      PROVE  IInv'
  <2> DEFINE h == [handler[e] EXCEPT !.pc = "tasks", !.session = s, !.thread = sessions[s].thread]
  <2>1. /\ h \in Handler /\ h.pc = "tasks" /\ h.session = s /\ h.left = <<>> /\ h.owes = "nothing"
        /\ h.thread = sessions[s].thread /\ h.at = handler[e].at
    <3> DEFINE g == [handler[e] EXCEPT !.pc = "tasks"]
               i == [g EXCEPT !.session = s]
    <3>1. Like(g, handler[e]) /\ g.pc = "tasks"  BY <1>1, PcOnly DEF PCs, Going, Storing
    <3>2. h = [i EXCEPT !.thread = sessions[s].thread]  OBVIOUS
    <3> HIDE DEF g, h
    <3>3. /\ i \in Handler /\ i.pc = "tasks" /\ i.session = s /\ i.owes = "nothing" /\ i.left = <<>>
          /\ i.at = handler[e].at
      BY <1>1, <1>2, <3>1 DEF Like, Handler
    <3>4. sessions[s].thread \in Events \cup {NoThread}  BY DEF IInv, TypeOK
    <3> HIDE DEF i
    <3> QED  BY <3>2, <3>3, <3>4 DEF Handler
  <2>2. Born(s) /\ s # e /\ kind[e] = "restart"  BY <1>2, <1>8, FoundIsBorn DEF Ends
  <2>3. Continue(e, h)  BY <1>8
  <2> HIDE DEF h
  <2>4. ASSUME handler' \in [Events -> Handler], handler'[e] = h  PROVE Local(e)'
    <3>1. Phase(e)' = "tasks" /\ ~Opens(e)'  BY <2>1, <2>2, <2>4 DEF Phase, Opens
    <3>2. Begun(e)'  BY <1>1, <1>3, <2>1, <2>4, <3>1 DEF Begun
    <3>3. Text(e)'  BY <1>2, <1>6, <2>1, <2>4, <3>1 DEF Text, Pending, Before, Writing
    <3>4. Heard(e)'  BY <3>1 DEF Heard, After
    <3>5. kind' = kind /\ sessions' = sessions  BY <1>3, <1>8 DEF edge
    <3>6. Place(e)'
      BY <1>2, <1>6, <2>1, <2>2, <2>4, <3>1, <3>5 DEF Place, After, Writing, Before, Unborn
    <3> QED  BY <3>2, <3>3, <3>4, <3>6 DEF Local
  <2>5. h.at <= clock'  BY <1>4, <2>1
  <2> QED  BY <1>1, <1>3, <1>4, <1>5, <1>8, <2>1, <2>3, <2>4, <2>5, HandlerStep
<1>9. ASSUME NEW thread \in OpensIn(e), UNCHANGED edge,
             Continue(e, [handler[e] EXCEPT !.pc = "open", !.thread = thread])
      PROVE  IInv'
  <2> DEFINE h == [handler[e] EXCEPT !.pc = "open", !.thread = thread]
  <2>1. thread \in Events \cup {NoThread}
    <3>1. \A s \in SessionOf(e) : sessions[s].thread \in Events \cup {NoThread}
      BY FoundIsBorn DEF IInv, TypeOK
    <3>2. OpensIn(e) \subseteq {sessions[s].thread : s \in SessionOf(e)} \cup {e}  BY DEF OpensIn
    <3> QED  BY <3>1, <3>2
  <2>2. /\ h \in Handler /\ h.pc = "open" /\ h.session = NoThread /\ h.left = <<>>
        /\ h.owes = "nothing" /\ h.at = handler[e].at
    <3> DEFINE g == [handler[e] EXCEPT !.pc = "open"]
    <3>1. Like(g, handler[e]) /\ g.pc = "open"  BY <1>1, PcOnly DEF PCs, Going
    <3>2. h = [g EXCEPT !.thread = thread]  OBVIOUS
    <3> HIDE DEF g, h
    <3> QED  BY <1>1, <1>2, <2>1, <3>1, <3>2 DEF Like, Handler
  <2>3. Continue(e, h)  BY <1>9
  <2> HIDE DEF h
  <2>4. ASSUME handler' \in [Events -> Handler], handler'[e] = h  PROVE Local(e)'
    <3>1. Phase(e)' = "open"  BY <2>2, <2>4 DEF Phase
    <3>2. Begun(e)'  BY <1>1, <1>3, <2>2, <2>4, <3>1 DEF Begun
    <3>3. Text(e)'  BY <1>2, <1>6, <2>2, <2>4, <3>1 DEF Text, Pending, Before, Writing
    <3>4. Heard(e)'  BY <3>1 DEF Heard, After
    <3>5. Place(e)'  BY <1>2, <1>6, <3>1 DEF Place, After, Writing, Before, Unborn
    <3> QED  BY <3>2, <3>3, <3>4, <3>5 DEF Local
  <2>5. h.at <= clock'  BY <1>4, <2>2
  <2> QED  BY <1>1, <1>3, <1>4, <1>5, <1>9, <2>2, <2>3, <2>4, <2>5, HandlerStep
<1>10. CASE ReturnOk(e)
  <2>1. Stop(e, "done") /\ UNCHANGED edge  BY <1>10 DEF ReturnOk
  <2>2. /\ handler' \in [Events -> Handler]
        /\ handler'[e].pc = "done" /\ handler'[e].owes = "nothing" /\ handler'[e].left = <<>>
        /\ handler'[e].session = NoThread /\ handler'[e].at = 0
        /\ \A f \in Events \ {e} : handler'[f] = handler[f]
    BY <1>2, <2>1, StopMoves DEF IInv, PCs, Over
  <2>3. Phase(e)' = "done"  BY <2>2 DEF Phase
  <2>4. Begun(e)'  BY <1>1, <1>3, <2>2, <2>3 DEF Begun
  <2>5. Text(e)'  BY <2>2, <2>3 DEF Text, Pending, Before, Writing
  <2>6. Heard(e)'  BY <2>2, <2>3 DEF Heard
  <2>7. Place(e)'  BY <2>2, <2>3, Assumed DEF Place, After, Writing, Before, Unborn, Opens, Assumed
  <2>8. Local(e)'  BY <2>4, <2>5, <2>6, <2>7 DEF Local
  <2>9. TypeOK' /\ kind' = kind  BY <1>3, <1>4, <2>1, <2>2 DEF IInv, TypeOK, edge
  <2>10. handler'[e].at <= clock'  BY <1>4, <2>2
  <2> QED  BY <1>3, <1>4, <1>5, <2>2, <2>8, <2>9, <2>10, SameTasks, QuietStep
<1> QED  BY <1>7, <1>8, <1>9, <1>10 DEF Route

LEMMA OpenIInv ==
  ASSUME Assumed, IInv, NEW e \in Events, Open(e)
  PROVE  IInv'
<1>1. /\ Phase(e) = "open" /\ handler[e].owes = "nothing" /\ e \in seen /\ handler[e] \in Handler
      /\ handler[e].pc = "open" /\ Local(e)
  BY AtPhase DEF Open, At
<1>2. ~Written(e) /\ ~Born(e)  BY <1>1 DEF Local, Text, Place, Before
<1>3. UNCHANGED <<edge, seen, sessions, turns, tasks, lock>> /\ clock' = clock + 1 /\ clock \in Nat
  BY DEF Open, IInv, TypeOK
<1>4. PICK past \in {<<>>, <<None>>} :
        Continue(e, [handler[e] EXCEPT !.pc = "turn", !.session = e, !.at = clock + 1,
                                       !.left = past \o IF e \in Bare THEN <<>> ELSE <<e>>])
  BY DEF Open
<1> DEFINE own == IF e \in Bare THEN <<>> ELSE <<e>>
           text == past \o own
           h == [handler[e] EXCEPT !.pc = "turn", !.session = e, !.at = clock + 1, !.left = text]
<1>5. /\ text \in {<<>>, <<None>>, <<e>>, <<None, e>>}
      /\ e \notin Bare => text \in {<<e>>, <<None, e>>}
  <2>1. own \in {<<>>, <<e>>} /\ (e \notin Bare => own = <<e>>)  OBVIOUS
  <2>2. <<>> \o <<>> = <<>> /\ <<>> \o <<e>> = <<e>>  OBVIOUS
  <2>3. <<None>> \o <<>> = <<None>>
    <3>1. <<None>> \in Seq({None})  OBVIOUS
    <3> QED  BY <3>1, ConcatEmptySeq
  <2>4. <<None>> \o <<e>> = <<None, e>>
    <3>1. <<None>> \in Seq({None, e})  OBVIOUS
    <3>2. Append(<<None>>, e) = <<None>> \o <<e>>  BY <3>1, AppendIsConcat
    <3>3. Append(<<None>>, e) = <<None, e>>
      <4> DEFINE a == Append(<<None>>, e)
                 b == <<None, e>>
      <4>1. a \in Seq({None, e}) /\ Len(a) = 2 /\ a[1] = None /\ a[2] = e
        <5>1. Len(<<None>>) = 1 /\ <<None>>[1] = None  OBVIOUS
        <5> QED  BY <3>1, <5>1, AppendProperties
      <4>2. b \in Seq({None, e}) /\ Len(b) = 2 /\ b[1] = None /\ b[2] = e  OBVIOUS
      <4> HIDE DEF a, b
      <4>3. \A i \in 1..Len(a) : a[i] = b[i]  BY <4>1, <4>2
      <4>4. a = b  BY <4>1, <4>2, <4>3, SeqEqual
      <4> QED  BY Zenon, <4>4 DEF a, b
    <3> QED  BY <3>2, <3>3
  <2> HIDE DEF own
  <2>5. text = past \o own /\ past \in {<<>>, <<None>>}  OBVIOUS
  <2> HIDE DEF text
  <2>6. CASE past = <<>>  BY Zenon, <2>1, <2>2, <2>5, <2>6
  <2>7. CASE past = <<None>>  BY Zenon, <2>1, <2>3, <2>4, <2>5, <2>7
  <2> QED  BY <2>5, <2>6, <2>7
<1>6. text \in Seq(Events \cup {None})
  <2>1. /\ <<>> \in Seq(Events \cup {None}) /\ <<None>> \in Seq(Events \cup {None})
        /\ <<e>> \in Seq(Events \cup {None}) /\ <<None, e>> \in Seq(Events \cup {None})
    OBVIOUS
  <2> HIDE DEF text
  <2> QED  BY <1>5, <2>1
<1> HIDE DEF text
<1>7. /\ h \in Handler /\ h.pc = "turn" /\ h.session = e /\ h.left = text /\ h.owes = "nothing"
      /\ h.at = clock + 1 /\ h.thread = handler[e].thread
  <2> DEFINE g == [handler[e] EXCEPT !.pc = "turn"]
             i == [g EXCEPT !.session = e]
             j == [i EXCEPT !.at = clock + 1]
  <2>1. Like(g, handler[e]) /\ g.pc = "turn"  BY <1>1, PcOnly DEF PCs, Going
  <2>2. h = [j EXCEPT !.left = text]  OBVIOUS
  <2> HIDE DEF g, h
  <2>3. /\ i \in Handler /\ i.pc = "turn" /\ i.session = e /\ i.owes = "nothing"
        /\ i.thread = handler[e].thread
    BY <1>1, <2>1 DEF Like, Handler
  <2> HIDE DEF i
  <2>4. /\ j \in Handler /\ j.pc = "turn" /\ j.session = e /\ j.owes = "nothing"
        /\ j.thread = handler[e].thread /\ j.at = clock + 1
    BY <1>3, <2>3 DEF Handler
  <2> HIDE DEF j
  <2> QED  BY <1>6, <2>2, <2>4 DEF Handler
<1>8. Continue(e, h)  BY <1>4 DEF text
<1> HIDE DEF h
<1>9. ASSUME handler' \in [Events -> Handler], handler'[e] = h  PROVE Local(e)'
  <2>1. Phase(e)' = "turn" /\ Opens(e)'  BY <1>7, <1>9 DEF Phase, Opens
  <2>2. ~Written(e)' /\ ~Born(e)'  BY <1>2, <1>3, SameStore
  <2>3. Begun(e)'  BY <1>1, <1>3, <1>7, <1>9, <2>1 DEF Begun
  <2>4. Text(e)'  BY <1>5, <1>7, <1>9, <2>1, <2>2 DEF Text, Pending, Before, Writing, Speaks
  <2>5. Heard(e)'  BY <2>1 DEF Heard, After
  <2>6. Place(e)'  BY <1>7, <1>9, <2>1, <2>2 DEF Place, After, Writing, Before, Unborn
  <2> QED  BY <2>3, <2>4, <2>5, <2>6 DEF Local
<1>10. \A s \in Events : Heir(e, s) => Heir(e, s)'
  <2>1. handler'[e] = h  BY <1>7, <1>8, OneMoves DEF IInv
  <2>2. \A s \in Events : sessions[s].at < clock + 1
    BY <1>3 DEF IInv, TypeOK, Times
  <2> QED  BY <1>1, <1>2, <1>3, <1>7, <2>1, <2>2 DEF Heir, Broken, Born, Opens, edge
<1>11. lock' \in Events \cup {None} /\ clock' \in Nat /\ clock <= clock' /\ h.at <= clock'
  BY <1>3, <1>7 DEF IInv, TypeOK
<1> QED  BY <1>1, <1>3, <1>7, <1>8, <1>9, <1>10, <1>11, HandlerStep

LEMMA TakeLockIInv ==
  ASSUME Assumed, IInv, NEW e \in Events, TakeLock(e)
  PROVE  IInv'
<1>1. /\ Phase(e) = "turn" /\ handler[e].owes = "nothing" /\ e \in seen /\ handler[e] \in Handler
      /\ handler[e].pc = "turn" /\ Local(e)
  BY AtPhase DEF TakeLock, At
<1>2. UNCHANGED <<edge, seen, sessions, turns, tasks, clock>> /\ lock' = e  BY DEF TakeLock
<1> DEFINE q == IF Opens(e) THEN "create" ELSE "seq"
           h == [handler[e] EXCEPT !.pc = q]
<1>3. q \in PCs  BY DEF PCs, Going, Storing
<1>4. Continue(e, h)  BY DEF TakeLock, Go
<1>5. Like(h, handler[e]) /\ h.pc = q  BY <1>1, <1>3, PcOnly
<1>6. q \in {"create", "seq"} /\ (q = "create" <=> Opens(e))  OBVIOUS
<1> HIDE DEF q, h
<1>7. ASSUME handler' \in [Events -> Handler], handler'[e] = h  PROVE Local(e)'
  <2>1. Phase(e)' = q /\ Opens(e)' = Opens(e) /\ Speaks(e)' = Speaks(e)
    BY <1>1, <1>5, <1>7 DEF Phase, Opens, Like, Speaks
  <2>2. /\ \A s \in Events : Has(s, e)' = Has(s, e) /\ Born(s)' = Born(s)
        /\ Written(e)' = Written(e)
    BY <1>2, SameStore
  <2>3. Begun(e)'  BY <1>1, <1>2, <1>5, <1>6, <1>7, <2>1 DEF Begun, Like
  <2>4. Text(e)'
    <3>1. Speaks(e) => Pending(e)  BY <1>1 DEF Local, Text, Writing
    <3>2. q = "seq" => handler[e].left # <<>>  BY <1>6, <3>1 DEF Speaks, Pending
    <3> QED  BY <1>1, <1>5, <1>6, <1>7, <2>1, <2>2, <3>1, <3>2
             DEF Local, Text, Pending, Before, Like
  <2>5. Heard(e)'  BY <1>6, <2>1 DEF Heard, After
  <2>6. Place(e)'
    <3>1. handler[e].session \in Events  BY <1>1 DEF Local, Place, Writing
    <3>2. Unborn(e) <=> Opens(e)  BY <1>1 DEF Unborn
    <3>3. Unborn(e)' <=> Opens(e)  BY <1>6, <2>1 DEF Unborn
    <3>4. Opens(e) => ~Born(e)  BY <1>1, <3>2 DEF Local, Place
    <3>5. ~Opens(e) => Born(handler[e].session)
      BY <1>1, <3>1, <3>2, Assumed DEF Local, Place, Writing, Assumed
    <3> QED  BY <1>5, <1>6, <1>7, <2>1, <2>2, <3>1, <3>3, <3>4, <3>5
             DEF Place, After, Writing, Before, Like
  <2> QED  BY <2>3, <2>4, <2>5, <2>6 DEF Local
<1>8. \A s \in Events : Heir(e, s) => Heir(e, s)'
  <2>1. handler'[e] = h  BY <1>4, <1>5, OneMoves DEF IInv, Like
  <2> QED  BY <1>1, <1>2, <1>5, <1>6, <2>1 DEF Heir, Broken, Born, Opens, edge, Like
<1>9. lock' \in Events \cup {None} /\ clock' \in Nat /\ clock <= clock' /\ h.at <= clock'
  BY <1>2, <1>5 DEF IInv, TypeOK, Times, Like
<1>10. h \in Handler  BY <1>5 DEF Like
<1> QED  BY <1>1, <1>2, <1>4, <1>7, <1>8, <1>9, <1>10, HandlerStep
-----------------------------------------------------------------------------
\* The writes, as the handler's own step or as one that lands after it.

LEMMA WriteStep ==
  ASSUME Assumed, IInv, NEW e \in Events, TypeOK', UNCHANGED <<kind, seen>>,
         \A f \in Events \ {e} : handler'[f] = handler[f],
         Grows, RowsKept,
         \A f \in Events \ {e} : (Written(f)' => Written(f)) /\ (Born(f)' => Born(f)),
         OnePlace', TasksHeard', Inherited', HasNewest', Times', Local(e)'
  PROVE  IInv'
<1>1. \A f \in Events \ {e} : Local(f)'  BY OthersStay
<1> QED  BY <1>1 DEF IInv

\* A write that has landed leaves a handler that is over.
LEMMA LandedIsLocal ==
  ASSUME NEW e \in Events, e \in seen', handler'[e].pc = "cut", handler'[e].owes = "nothing",
         handler'[e].left = <<>>
  PROVE  Local(e)'
<1>1. Phase(e)' = "cut"  BY DEF Phase
<1> QED  BY <1>1 DEF Local, Begun, Text, Heard, Place, Before, Writing, After, Pending, Unborn

\* One turn more in a transcript.
LEMMA AppendOne ==
  ASSUME Assumed, IInv, NEW x \in Events, NEW v \in Events \cup {None},
         turns' = [turns EXCEPT ![x] = Append(@, v)],
         v \in Events => ~Written(v)
  PROVE  /\ turns' \in [Events -> Seq(Events \cup {None})] /\ Grows /\ OnePlace'
         /\ \A f \in Events : f # v => (Written(f)' => Written(f))
         /\ \A y, f \in Events : Has(y, f) => Has(y, f)'
         /\ v \in Events => Has(x, v)'
<1> DEFINE S == Events \cup {None}
           n == Len(turns[x])
           app == Append(turns[x], v)
<1>1. turns \in [Events -> Seq(S)] /\ turns[x] \in Seq(S) /\ v \in S  BY DEF IInv, TypeOK
<1>2. /\ app \in Seq(S) /\ Len(app) = n + 1 /\ n \in Nat
      /\ \A i \in 1..n : app[i] = turns[x][i]
      /\ app[n + 1] = v
  BY <1>1, AppendProperties, LenProperties
<1>3. DOMAIN app = 1..(n + 1) /\ DOMAIN turns[x] = 1..n  BY <1>1, <1>2, LenProperties
<1>4. turns' = [turns EXCEPT ![x] = app]  BY <1>1
<1> HIDE DEF app, n, S
<1>5. turns' \in [Events -> Seq(S)]  BY <1>1, <1>2, <1>4
<1>6. turns'[x] = app /\ \A y \in Events \ {x} : turns'[y] = turns[y]  BY <1>1, <1>4
<1>7. Grows  BY <1>2, <1>3, <1>6 DEF Grows
<1>8. \A y \in Events : \A i \in DOMAIN turns'[y] :
         \/ i \in DOMAIN turns[y] /\ turns'[y][i] = turns[y][i]
         \/ y = x /\ i = n + 1 /\ turns'[y][i] = v
  BY <1>2, <1>3, <1>6
<1>9. \A f \in Events : f # v => (Written(f)' => Written(f))  BY <1>8 DEF Written, Has
<1>10. \A y, f \in Events : Has(y, f) => Has(y, f)'  BY <1>7 DEF Has, Grows
<1>11. v \in Events => Has(x, v)'
  <2>1. n + 1 \in DOMAIN turns'[x] /\ turns'[x][n + 1] = v  BY <1>2, <1>3, <1>6
  <2> QED  BY <2>1 DEF Has
<1>12. OnePlace'
  <2> SUFFICES ASSUME NEW f \in Events, NEW y \in Events, NEW r \in Events,
                      NEW i \in DOMAIN turns'[y], NEW j \in DOMAIN turns'[r],
                      turns'[y][i] = f, turns'[r][j] = f
               PROVE  y = r /\ i = j
    BY DEF OnePlace
  <2>1. CASE f = v
    <3>1. \A z \in Events : \A k \in DOMAIN turns[z] : turns[z][k] # v
      BY <2>1 DEF Written, Has
    <3> QED  BY <1>8, <2>1, <3>1
  <2>2. CASE f # v
    <3>1. i \in DOMAIN turns[y] /\ turns[y][i] = f /\ j \in DOMAIN turns[r] /\ turns[r][j] = f
      BY <1>8, <2>2
    <3> QED  BY <3>1 DEF IInv, OnePlace
  <2> QED  BY <2>1, <2>2
<1> QED  BY <1>5, <1>7, <1>9, <1>10, <1>11, <1>12 DEF S

\* With the sessions as they are, the threads have their heirs and their newest.
LEMMA SessionsStay ==
  ASSUME IInv, NEW e \in Events, kind' = kind, sessions' = sessions, clock' = clock,
         \A f \in Events \ {e} : handler'[f] = handler[f],
         handler'[e].at \in {0, handler[e].at},
         \/ handler'[e].pc \in Broken
         \/ handler[e].pc \notin {"open", "turn", "create"} \cup Broken
  PROVE  Inherited' /\ HasNewest' /\ Times' /\ RowsKept /\ \A f \in Events : Born(f)' = Born(f)
<1>1. \A f \in Events, s \in Events : Heir(f, s) => Heir(f, s)'
  <2>1. \A s \in Events : Heir(e, s) => Heir(e, s)'  BY HeirStays
  <2>2. \A f \in Events \ {e}, s \in Events : Heir(f, s) => Heir(f, s)'  BY DEF Heir, Opens, Born
  <2> QED  BY <2>1, <2>2
<1>2. Inherited'  BY <1>1 DEF IInv, Inherited
<1>3. HasNewest'  BY DEF IInv, HasNewest, Newest, Born
<1>4. Times'
  <2>1. clock \in Nat /\ handler[e].at <= clock  BY DEF IInv, TypeOK, Times
  <2>2. handler'[e].at <= clock  BY <2>1
  <2> QED  BY <2>2 DEF IInv, Times
<1>5. RowsKept /\ \A f \in Events : Born(f)' = Born(f)  BY DEF RowsKept, Born
<1> QED  BY <1>2, <1>3, <1>4, <1>5

LEMMA SameTurns ==
  ASSUME IInv, UNCHANGED turns
  PROVE  /\ Grows /\ OnePlace' /\ \A s, f \in Events : Has(s, f)' = Has(s, f)
         /\ \A f \in Events : Written(f)' = Written(f)
  BY DEF IInv, Grows, OnePlace, Has, Written

\* append_turn: the text of e, or one of the thread's history, or nothing
\* because the seq is taken.
LEMMA AppendStep ==
  ASSUME Assumed, IInv, NEW e \in Events, Phase(e) = "write", AppendTurn(e),
         UNCHANGED <<kind, seen, clock>>,
         errors' \subseteq Events, lock' \in Events \cup {None},
         handler' \in [Events -> Handler],
         \A f \in Events \ {e} : handler'[f] = handler[f],
         handler'[e].at \in {0, handler[e].at}, handler'[e].session = handler[e].session,
         \/ handler'[e].pc \in Broken
         \/ handler[e].pc \notin {"open", "turn", "create"} \cup Broken,
         /\ \A y \in Events : Has(y, e) => Has(y, e)'
         /\ handler[e].seq = NextSeq(e) /\ Head(handler[e].left) = e => Has(handler[e].session, e)'
         /\ Head(handler[e].left) # e => (Written(e)' => Written(e))
         => Local(e)'
  PROVE  IInv'
<1>0. PICK x, v : x = handler[e].session /\ v = Head(handler[e].left)  OBVIOUS
<1>1. x \in Events  BY <1>0 DEF IInv, Local, Place, Writing
<1>2. /\ handler[e].left \in {<<None>>, <<e>>, <<None, e>>}
      /\ handler[e].left = <<e>> => ~Written(e)
  BY DEF IInv, Local, Text, Pending
<1>3. v \in {None, e} /\ (v = e => ~Written(e))  <2>1. Head(<<None>>) = None /\ Head(<<e>>) = e /\ Head(<<None, e>>) = None  OBVIOUS
  <2>2. e # None  BY Assumed DEF Assumed, None
  <2> QED  BY <1>0, <1>2, <2>1, <2>2
<1>4. v \in Events => ~Written(v)  BY <1>3, Assumed DEF Assumed, None
<1>5. UNCHANGED <<sessions, tasks>>  BY DEF AppendTurn
<1>6. Inherited' /\ HasNewest' /\ Times' /\ RowsKept /\ \A f \in Events : Born(f)' = Born(f)
  BY <1>5, SessionsStay
<1>7. CASE handler[e].seq = NextSeq(e)
  <2>1. turns' = [turns EXCEPT ![x] = Append(@, v)]  BY <1>0, <1>7 DEF AppendTurn
  <2>2. v \in Events \cup {None}  BY <1>3
  <2>3. /\ turns' \in [Events -> Seq(Events \cup {None})] /\ Grows /\ OnePlace'
        /\ \A f \in Events : f # v => (Written(f)' => Written(f))
        /\ \A y, f \in Events : Has(y, f) => Has(y, f)'
        /\ v \in Events => Has(x, v)'
    BY <1>1, <1>4, <2>1, <2>2, AppendOne
  <2>4. TypeOK'  BY <1>5, <2>3 DEF IInv, TypeOK
  <2>5. TasksHeard'  BY <1>5, <2>3 DEF IInv, TasksHeard
  <2>6. Local(e)'
    <3>1. Head(handler[e].left) = e => Has(handler[e].session, e)'  BY <1>0, <1>3, <2>3
    <3>2. Head(handler[e].left) # e => (Written(e)' => Written(e))  BY <1>0, <1>1, <2>3
    <3> QED  BY <2>3, <3>1, <3>2
  <2>7. \A f \in Events \ {e} : (Written(f)' => Written(f)) /\ (Born(f)' => Born(f))
    BY <1>3, <1>6, <2>3, Assumed DEF Assumed, None
  <2> QED  BY <1>6, <2>3, <2>4, <2>5, <2>6, <2>7, WriteStep
<1>8. CASE handler[e].seq # NextSeq(e)
  <2>1. turns' = turns  BY <1>8 DEF AppendTurn
  <2>2. /\ Grows /\ OnePlace' /\ \A s, f \in Events : Has(s, f)' = Has(s, f)
        /\ \A f \in Events : Written(f)' = Written(f)
    BY <2>1, SameTurns
  <2>3. TypeOK'  BY <1>5, <2>1 DEF IInv, TypeOK
  <2>4. TasksHeard'  BY <1>5, <2>2 DEF IInv, TasksHeard
  <2>5. Local(e)'  BY <1>8, <2>2
  <2> QED  BY <1>6, <2>2, <2>3, <2>4, <2>5, WriteStep
<1> QED  BY <1>7, <1>8

\* Where a handler goes after a turn.
LEMMA TurnsLeftMoves ==
  ASSUME IInv, NEW e \in Events, NEW left \in {<<>>, <<None>>, <<e>>, <<None, e>>},
         TurnsLeft(e, left), handler[e].session \in Events
  PROVE  /\ handler' \in [Events -> Handler]
         /\ handler'[e].owes = handler[e].owes /\ handler'[e].session = handler[e].session
         /\ handler'[e].thread = handler[e].thread /\ handler'[e].at = handler[e].at
         /\ handler'[e].left = left
         /\ handler'[e].pc = IF left = <<>> THEN AfterTurns(e) ELSE "seq"
         /\ \A f \in Events \ {e} : handler'[f] = handler[f]
         /\ lock' \in Events \cup {None}
<1> DEFINE q == IF left = <<>> THEN AfterTurns(e) ELSE "seq"
           h == [handler[e] EXCEPT !.left = left, !.try = 1, !.pc = q]
           i == [handler[e] EXCEPT !.left = left]
           j == [i EXCEPT !.try = 1]
<1>1. handler[e] \in Handler /\ TypeOK  BY DEF IInv, TypeOK
<1>2. q \in PCs
  <2>1. AfterTurns(e) \in {"return", "touch", "reply", "row"}  BY DEF AfterTurns
  <2> QED  BY <2>1 DEF PCs, Going, Storing
<1>3. Continue(e, h) /\ lock' \in Events \cup {None}  BY <1>1 DEF TurnsLeft, Release, TypeOK
<1>4. h = [j EXCEPT !.pc = q]  OBVIOUS
<1>5. left \in Seq(Events \cup {None})
  <2>1. /\ <<>> \in Seq(Events \cup {None}) /\ <<None>> \in Seq(Events \cup {None})
        /\ <<e>> \in Seq(Events \cup {None}) /\ <<None, e>> \in Seq(Events \cup {None})
    OBVIOUS
  <2> QED  BY <2>1
<1> HIDE DEF h, j, q
<1>6. /\ i \in Handler /\ i.owes = handler[e].owes /\ i.session = handler[e].session
      /\ i.thread = handler[e].thread /\ i.at = handler[e].at /\ i.left = left
  BY <1>1, <1>5 DEF Handler
<1> HIDE DEF i
<1>7. /\ j \in Handler /\ j.owes = handler[e].owes /\ j.session = handler[e].session
      /\ j.thread = handler[e].thread /\ j.at = handler[e].at /\ j.left = left
  BY <1>6 DEF Handler, j, Attempts
<1>8. /\ h \in Handler /\ h.owes = handler[e].owes /\ h.session = handler[e].session
      /\ h.thread = handler[e].thread /\ h.at = handler[e].at /\ h.left = left /\ h.pc = q
  BY <1>2, <1>4, <1>7, PcOnly DEF Like
<1>9. /\ handler' \in [Events -> Handler] /\ handler'[e] = h
      /\ \A f \in Events \ {e} : handler'[f] = handler[f]
  BY <1>1, <1>3, <1>8, OneMoves
<1> QED  BY <1>3, <1>8, <1>9 DEF q

LEMMA WriteTurnIInv ==
  ASSUME Assumed, IInv, NEW e \in Events, WriteTurn(e)
  PROVE  IInv'
<1>1. /\ Phase(e) = "write" /\ handler[e].owes = "nothing" /\ e \in seen /\ handler[e] \in Handler
      /\ handler[e].pc = "write" /\ Local(e)
  BY AtPhase DEF WriteTurn, At
<1>2. AppendTurn(e) /\ UNCHANGED <<seen, clock>>  BY DEF WriteTurn, Write
<1>3. handler[e].session \in Events /\ Born(handler[e].session)
  BY <1>1, Assumed DEF Local, Place, Writing, Unborn, Assumed
<1>4. handler[e].left \in {<<None>>, <<e>>, <<None, e>>}
  BY <1>1 DEF Local, Text
<1>5. Speaks(e) => Pending(e)  BY <1>1 DEF Local, Text, Writing
<1>6. CASE handler[e].seq = NextSeq(e) /\ TurnsLeft(e, Tail(handler[e].left)) /\ UNCHANGED edge
  <2>1. PICK left : left = Tail(handler[e].left)  OBVIOUS
  <2>2. /\ left \in {<<>>, <<e>>} /\ e # None
        /\ left = <<e>> => Head(handler[e].left) # e /\ Pending(e)
        /\ left = <<>> /\ Pending(e) => Head(handler[e].left) = e
    <3>1. e # None  BY Assumed DEF Assumed, None
    <3>2. Head(<<None>>) = None /\ Head(<<e>>) = e /\ Head(<<None, e>>) = None  OBVIOUS
    <3>3. Tail(<<None>>) = <<>> /\ Tail(<<e>>) = <<>> /\ Tail(<<None, e>>) = <<e>>
      <4>1. Tail(<<None>>) = <<>> /\ Tail(<<e>>) = <<>>  OBVIOUS
      <4>2. Tail(<<None, e>>) = <<e>>  OBVIOUS
      <4> QED  BY <4>1, <4>2
    <3>4. CASE handler[e].left = <<None>>  BY <2>1, <3>1, <3>2, <3>3, <3>4 DEF Pending
    <3>5. CASE handler[e].left = <<e>>  BY <2>1, <3>1, <3>2, <3>3, <3>5 DEF Pending
    <3>6. CASE handler[e].left = <<None, e>>  BY <2>1, <3>1, <3>2, <3>3, <3>6 DEF Pending
    <3> QED  BY <1>4, <3>4, <3>5, <3>6
  <2>3. /\ handler' \in [Events -> Handler]
        /\ handler'[e].owes = "nothing" /\ handler'[e].session = handler[e].session
        /\ handler'[e].at = handler[e].at /\ handler'[e].left = left
        /\ handler'[e].pc = IF left = <<>> THEN AfterTurns(e) ELSE "seq"
        /\ \A f \in Events \ {e} : handler'[f] = handler[f]
        /\ lock' \in Events \cup {None}
    BY <1>1, <1>3, <1>6, <2>1, <2>2, TurnsLeftMoves
  <2>4. PICK q : q = handler'[e].pc  OBVIOUS
  <2>5. /\ Phase(e)' = q /\ Opens(e)' = Opens(e) /\ Speaks(e)' = Speaks(e)
    BY <2>3, <2>4 DEF Phase, Opens, Speaks
  <2>6. \/ left = <<e>> /\ q = "seq"
        \/ left = <<>> /\ q \in {"return", "reply"}
        \/ left = <<>> /\ q \in {"touch", "row"} /\ Speaks(e)
    BY <2>2, <2>3, <2>4 DEF AfterTurns, Speaks
  <2>7. UNCHANGED <<sessions, kind>> /\ errors' \subseteq Events
    BY <1>2, <1>6 DEF AppendTurn, edge, IInv, TypeOK
  <2>8. ASSUME Head(handler[e].left) = e => Has(handler[e].session, e)',
               Head(handler[e].left) # e => (Written(e)' => Written(e))
        PROVE  Local(e)'
    <3>1. Begun(e)'  BY <1>1, <1>2, <2>3, <2>5, <2>6 DEF Begun
    <3>2. Text(e)'
      <4>1. left = <<e>> => ~Written(e)'  BY <1>1, <2>2, <2>8 DEF Local, Text
      <4>2. left = <<>> => ~Pending(e)'  BY <2>3 DEF Pending
      <4>3. Pending(e)' <=> left = <<e>>  BY <2>2, <2>3, <4>2 DEF Pending
      <4>4. <<e>> # <<>>  OBVIOUS
      <4>5. handler'[e].left = left /\ left \in {<<>>, <<e>>}  BY <2>2, <2>3
      <4>6. q \in Before => FALSE  BY <2>6 DEF Before
      <4>7. q \in {"seq", "write"} \cup Writing => left = <<e>>  BY <2>6 DEF Writing
      <4> QED  BY <2>5, <4>1, <4>3, <4>4, <4>5, <4>6, <4>7 DEF Text
    <3>3. Heard(e)'  BY <1>5, <2>2, <2>3, <2>5, <2>6, <2>8 DEF Heard, After
    <3>4. Place(e)'
      <4>1. Born(handler[e].session)'  BY <1>3, <2>3, <2>7 DEF Born
      <4> QED  BY <1>3, <2>3, <2>5, <2>6, <4>1 DEF Place, Before, Writing, After, Unborn
    <3> QED  BY <3>1, <3>2, <3>3, <3>4 DEF Local
  <2>9. handler[e].pc \notin {"open", "turn", "create"} \cup Broken  BY <1>1 DEF Broken
  <2> QED  BY <1>1, <1>2, <1>6, <2>3, <2>7, <2>8, <2>9, AppendStep
<1>7. CASE handler[e].seq # NextSeq(e) /\ UNCHANGED <<edge, lock>>
           /\ Continue(e, [handler[e] EXCEPT !.pc = "seq", !.try = @ + 1]) /\ handler[e].try < Attempts
  <2> DEFINE h == [handler[e] EXCEPT !.pc = "seq", !.try = @ + 1]
  <2>1. Like(h, handler[e]) /\ h.pc = "seq"
    <3> DEFINE g == [handler[e] EXCEPT !.pc = "seq"]
    <3>1. Like(g, handler[e]) /\ g.pc = "seq" /\ g.try = handler[e].try
      BY <1>1, PcOnly DEF PCs, Going, Storing
    <3>2. h = [g EXCEPT !.try = handler[e].try + 1]  OBVIOUS
    <3>3. handler[e].try + 1 \in 1..Attempts  BY <1>1, <1>7 DEF Handler, Attempts
    <3> HIDE DEF g, h
    <3> QED  BY <3>1, <3>2, <3>3 DEF Like, Handler
  <2>2. Continue(e, h)  BY <1>7
  <2> HIDE DEF h
  <2>3. /\ handler' \in [Events -> Handler] /\ handler'[e] = h
        /\ \A f \in Events \ {e} : handler'[f] = handler[f]
    BY <2>1, <2>2, OneMoves DEF IInv, Like
  <2>4. turns' = turns /\ UNCHANGED <<kind, errors, sessions, tasks>>
    BY <1>2, <1>7 DEF AppendTurn, edge
  <2>5. Phase(e)' = "seq" /\ Opens(e)' = Opens(e) /\ Speaks(e)' = Speaks(e) /\ Pending(e)' = Pending(e)
    BY <1>1, <2>1, <2>3 DEF Phase, Like, Opens, Speaks, Pending
  <2>6. /\ \A s \in Events : Has(s, e)' = Has(s, e) /\ Born(s)' = Born(s)
        /\ Written(e)' = Written(e)
    BY <2>4, SameStore
  <2>7. Local(e)'
    <3>1. Begun(e)'  BY <1>1, <1>2, <2>1, <2>3, <2>5 DEF Begun, Like
    <3>2. Text(e)'
      BY <1>1, <1>5, <2>1, <2>3, <2>5, <2>6 DEF Local, Text, Before, Like
    <3>3. Heard(e)'  BY <2>5 DEF Heard, After
    <3>4. Place(e)'
      BY <1>3, <2>1, <2>3, <2>5, <2>6 DEF Place, Before, Writing, After, Unborn, Like
    <3> QED  BY <3>1, <3>2, <3>3, <3>4 DEF Local
  <2>8. TypeOK'  BY <1>2, <1>7, <2>3, <2>4 DEF IInv, TypeOK
  <2>9. \A s \in Events : Heir(e, s) => Heir(e, s)'
    BY <1>1, <2>4, HeirStays DEF Broken
  <2>10. handler'[e].at <= clock' /\ clock <= clock'
    BY <1>2, <2>1, <2>3 DEF IInv, TypeOK, Times, Like
  <2> QED  BY <1>2, <2>3, <2>4, <2>7, <2>8, <2>9, <2>10, SameTasks, QuietStep
<1>8. CASE handler[e].seq # NextSeq(e) /\ ReturnErr(e, "exhausted")
  <2>1. Stop(e, "exhausted") /\ UNCHANGED <<kind, seen, sessions, turns, tasks, clock>>
    BY <1>2, <1>8 DEF AppendTurn, ReturnErr
  <2>2. errors' \subseteq Events /\ lock' \in Events \cup {None}
    BY <1>8 DEF ReturnErr, Erring, Release, IInv, TypeOK
  <2> QED  BY <1>1, <2>1, <2>2, StopStep DEF Over
<1> QED  BY <1>6, <1>7, <1>8 DEF WriteTurn

\* create_session: the new session is the newest of its thread, or an even
\* newer one is already there.
LEMMA CreateStep ==
  ASSUME Assumed, IInv, NEW e \in Events, Phase(e) = "create", CreateSession(e),
         UNCHANGED <<kind, seen, clock>>,
         errors' \subseteq Events, lock' \in Events \cup {None},
         handler' \in [Events -> Handler],
         \A f \in Events \ {e} : handler'[f] = handler[f],
         handler'[e].at \in {0, handler[e].at}, handler'[e].session = handler[e].session,
         handler[e].pc \in Broken => handler'[e].pc \in Broken,
         /\ Born(e)' /\ \A s \in Events : Has(s, e)' = Has(s, e)
         /\ Written(e)' = Written(e)
         => Local(e)'
  PROVE  IInv'
<1>1. handler[e] \in Handler /\ sessions \in [Events -> SessionRow]
      /\ Local(e) /\ clock \in Nat /\ handler[e].at <= clock /\ handler[e].at \in Nat
  BY DEF IInv, TypeOK, SessionRow, Times, Handler
<1>2. Opens(e) /\ ~Born(e)  BY <1>1 DEF Local, Place, Unborn
<1>3. UNCHANGED <<turns, tasks>>  BY DEF CreateSession
<1>4. PICK row : row = [thread |-> handler[e].thread, status |-> "active", at |-> handler[e].at]
  OBVIOUS
<1>5. /\ row \in SessionRow /\ row.thread = handler[e].thread /\ row.status = "active"
      /\ row.at = handler[e].at
  BY <1>1, <1>4 DEF Handler, SessionRow
<1>6. sessions' = [sessions EXCEPT ![e] = row]  BY <1>4 DEF CreateSession
<1>7. /\ sessions' \in [Events -> SessionRow] /\ sessions'[e] = row
      /\ \A s \in Events \ {e} : sessions'[s] = sessions[s]
  BY <1>1, <1>5, <1>6
<1>8. Born(e)' /\ \A s \in Events \ {e} : Born(s)' = Born(s)
  BY <1>5, <1>7 DEF Born
<1>9. RowsKept  BY <1>2, <1>7, <1>8 DEF RowsKept
<1>10. /\ Grows /\ OnePlace' /\ \A s, f \in Events : Has(s, f)' = Has(s, f)
       /\ \A f \in Events : Written(f)' = Written(f)
  BY <1>3, SameTurns
<1>11. TypeOK'  BY <1>3, <1>7 DEF IInv, TypeOK, SessionRow
<1>12. TasksHeard'  BY <1>3, <1>10 DEF IInv, TasksHeard
<1>13. Local(e)'  BY <1>8, <1>10
<1>14. Inherited'
  <2> SUFFICES ASSUME NEW s \in Events, sessions'[s].status = "archived"
               PROVE  \E f \in Events : Heir(f, s)'
    BY DEF Inherited
  <2>1. s # e  BY <1>5, <1>7
  <2>2. sessions'[s] = sessions[s]  BY <1>7, <2>1
  <2>3. PICK f \in Events : Heir(f, s)  BY <2>2 DEF IInv, Inherited
  <2>4. CASE f # e
    <3>1. sessions'[f] = sessions[f] /\ handler'[f] = handler[f]  BY <1>7, <2>4
    <3> QED  BY <1>3, <2>2, <2>3, <3>1 DEF Heir, Opens, Born
  <2>5. CASE f = e
    <3>1. CASE handler[e].pc \in Broken  BY <2>3, <2>5, <3>1 DEF Heir
    <3>2. CASE handler[e].pc \notin Broken
      <4>1. handler[e].pc = "create"  BY <1>1, <3>2 DEF Local, Begun, Phase, Broken
      <4>2. handler[e].thread = sessions[s].thread /\ handler[e].at > sessions[s].at
        BY <1>2, <2>3, <2>5, <3>2, <4>1 DEF Heir
      <4> QED  BY <1>5, <1>7, <1>8, <2>2, <2>3, <2>5, <4>2 DEF Heir
    <3> QED  BY <3>1, <3>2
  <2> QED  BY <2>4, <2>5
<1>15. HasNewest'
  <2> SUFFICES ASSUME NEW s \in Events, Born(s)'
               PROVE  \E m \in Events : Newest(m, s)'
    BY DEF HasNewest
  <2>0. \A r \in Events : sessions[r].at \in Nat  BY <1>1 DEF SessionRow
  <2>1. CASE sessions'[s].thread # row.thread
    <3>1. s # e  BY <1>7, <2>1
    <3>2. sessions'[s] = sessions[s] /\ Born(s)  BY <1>7, <1>8, <3>1
    <3>3. PICK m \in Events : Newest(m, s)  BY <3>2 DEF IInv, HasNewest
    <3>4. m # e  BY <1>2, <3>3 DEF Newest
    <3> QED  BY <1>7, <1>8, <2>1, <3>2, <3>3, <3>4 DEF Newest
  <2>2. CASE sessions'[s].thread = row.thread
    <3>1. CASE \E r \in Events : Born(r) /\ sessions[r].thread = row.thread
      <4>1. PICK r \in Events : Born(r) /\ sessions[r].thread = row.thread  BY <3>1
      <4>2. PICK m \in Events : Newest(m, r)  BY <4>1 DEF IInv, HasNewest
      <4>3. m # e /\ Born(m) /\ sessions[m].thread = row.thread  BY <1>2, <4>1, <4>2 DEF Newest
      <4>4. \A z \in Events \ {e} : Born(z) /\ sessions[z].thread = row.thread
                                     => sessions[z].at <= sessions[m].at
        BY <4>1, <4>2 DEF Newest
      <4>5. CASE sessions[m].at >= row.at
        <5>1. Newest(m, s)'
          BY <1>1, <1>5, <1>7, <1>8, <2>0, <2>2, <4>3, <4>4, <4>5 DEF Newest
        <5> QED  BY <5>1
      <4>6. CASE sessions[m].at < row.at
        <5>1. \A z \in Events \ {e} : Born(z) /\ sessions[z].thread = row.thread
                                       => sessions[z].at <= row.at
          BY <1>1, <1>5, <2>0, <4>4, <4>6
        <5>2. Newest(e, s)'
          BY <1>1, <1>5, <1>7, <1>8, <2>2, <5>1 DEF Newest
        <5> QED  BY <5>2
      <4> QED  BY <1>1, <1>5, <2>0, <4>5, <4>6
    <3>2. CASE ~ \E r \in Events : Born(r) /\ sessions[r].thread = row.thread
      <4>1. Newest(e, s)'
        BY <1>1, <1>5, <1>7, <1>8, <2>2, <3>2 DEF Newest
      <4> QED  BY <4>1
    <3> QED  BY <3>1, <3>2
  <2> QED  BY <2>1, <2>2
<1>16. Times'
  <2>1. handler'[e].at <= clock  BY <1>1
  <2> QED  BY <1>1, <1>5, <1>7, <2>1 DEF IInv, Times
<1>17. \A f \in Events \ {e} : (Written(f)' => Written(f)) /\ (Born(f)' => Born(f))
  BY <1>8, <1>10
<1> QED  BY <1>9, <1>10, <1>11, <1>12, <1>13, <1>14, <1>15, <1>16, <1>17, WriteStep

LEMMA CreateIInv ==
  ASSUME Assumed, IInv, NEW e \in Events, Create(e)
  PROVE  IInv'
<1>1. /\ Phase(e) = "create" /\ handler[e].owes = "nothing" /\ e \in seen
      /\ handler[e].pc = "create" /\ Local(e)
  BY AtPhase DEF Create, At
<1>2. CreateSession(e) /\ UNCHANGED <<edge, seen, clock>> /\ TurnsLeft(e, handler[e].left)
  BY DEF Create, Write
<1>3. handler[e].session = e /\ handler[e].left \in {<<>>, <<None>>, <<e>>, <<None, e>>}
      /\ (Pending(e) => ~Written(e)) /\ (Speaks(e) => Pending(e))
  BY <1>1 DEF Local, Text, Place, Opens, Writing
<1>4. /\ handler' \in [Events -> Handler]
      /\ handler'[e].owes = "nothing" /\ handler'[e].session = e
      /\ handler'[e].at = handler[e].at /\ handler'[e].left = handler[e].left
      /\ handler'[e].pc = IF handler[e].left = <<>> THEN AfterTurns(e) ELSE "seq"
      /\ \A f \in Events \ {e} : handler'[f] = handler[f]
      /\ lock' \in Events \cup {None}
  <2>1. PICK left : left = handler[e].left  OBVIOUS
  <2>2. TurnsLeft(e, left)  BY <1>2, <2>1
  <2> QED  BY <1>1, <1>3, <2>1, <2>2, TurnsLeftMoves
<1>5. PICK q : q = handler'[e].pc  OBVIOUS
<1>6. Phase(e)' = q /\ Opens(e)' /\ Opens(e) /\ Speaks(e)' = Speaks(e) /\ Pending(e)' = Pending(e)
  BY <1>3, <1>4, <1>5 DEF Phase, Opens, Speaks, Pending
<1>7. \/ handler[e].left # <<>> /\ q = "seq"
      \/ handler[e].left = <<>> /\ q \in {"return", "reply"} /\ ~Speaks(e)
  <2>1. handler[e].left = <<>> => ~Pending(e)  BY DEF Pending
  <2> QED  BY <1>3, <1>4, <1>5, <1>6, <2>1 DEF AfterTurns, Speaks
<1>8. ASSUME Born(e)', Written(e)' = Written(e)  PROVE Local(e)'
  <2>1. Begun(e)'  BY <1>1, <1>2, <1>4, <1>6, <1>7 DEF Begun
  <2>2. Text(e)'
    <3>1. Writing \cap {"return", "reply"} = {} /\ Before \cap {"seq", "return", "reply"} = {}
      BY DEF Writing, Before
    <3> QED  BY <1>3, <1>4, <1>6, <1>7, <1>8, <3>1 DEF Text
  <2>3. Heard(e)'  BY <1>6, <1>7 DEF Heard, After
  <2>4. Place(e)'  BY <1>4, <1>6, <1>7, <1>8 DEF Place, Before, Writing, After, Unborn
  <2> QED  BY <2>1, <2>2, <2>3, <2>4 DEF Local
<1>9. kind' = kind /\ errors' \subseteq Events /\ handler[e].pc \notin Broken
  BY <1>1, <1>2 DEF edge, IInv, TypeOK, Broken
<1> QED  BY <1>1, <1>2, <1>3, <1>4, <1>8, <1>9, CreateStep

\* update_session: the session stays where and how old it is; one that is
\* archived is so by a !restart that goes on to open the next, or fails.
LEMMA UpdateStep ==
  ASSUME Assumed, IInv, NEW e \in Events, NEW st \in {"active", "archived"},
         Phase(e) \in {"touch", "archive"}, UpdateSession(e, st),
         UNCHANGED <<kind, seen, clock>>,
         errors' \subseteq Events, lock' \in Events \cup {None},
         handler' \in [Events -> Handler],
         \A f \in Events \ {e} : handler'[f] = handler[f],
         handler'[e].at \in {0, handler[e].at},
         handler[e].pc \in Broken => handler'[e].pc \in Broken,
         st = "archived" =>
            /\ kind[e] = "restart"
            /\ \/ handler'[e].pc \in Broken
               \/ handler'[e].pc = "open" /\ handler'[e].thread = sessions[handler[e].session].thread,
         /\ \A s \in Events : Has(s, e)' = Has(s, e) /\ Born(s)' = Born(s)
         /\ Written(e)' = Written(e)
         => Local(e)'
  PROVE  IInv'
<1>1. sessions \in [Events -> SessionRow] /\ clock \in Nat /\ handler[e].at <= clock /\ Local(e)
  BY DEF IInv, TypeOK, SessionRow, Times
<1>2. PICK x : x = handler[e].session  OBVIOUS
<1>3. x \in Events /\ Born(x)
  BY <1>1, <1>2, Assumed DEF Local, Place, After, Unborn, Assumed
<1>4. PICK row : row = [sessions[x] EXCEPT !.status = st]  OBVIOUS
<1>5. /\ row \in SessionRow /\ row.thread = sessions[x].thread /\ row.at = sessions[x].at
      /\ row.status = st
  BY <1>1, <1>3, <1>4 DEF SessionRow
<1>6. sessions' = [sessions EXCEPT ![x] = row]  BY <1>1, <1>2, <1>3, <1>4 DEF UpdateSession
<1>7. /\ sessions' \in [Events -> SessionRow] /\ sessions'[x] = row
      /\ \A s \in Events \ {x} : sessions'[s] = sessions[s]
  BY <1>1, <1>3, <1>5, <1>6
<1>8. \A s \in Events : /\ sessions'[s].thread = sessions[s].thread
                        /\ sessions'[s].at = sessions[s].at
                        /\ Born(s)' = Born(s)
  <2>1. \A s \in Events \ {x} : sessions'[s] = sessions[s]  BY <1>7
  <2>2. st # "none"  OBVIOUS
  <2> QED  BY <1>3, <1>5, <1>7, <2>1, <2>2 DEF Born
<1>9. UNCHANGED <<turns, tasks>>  BY DEF UpdateSession
<1>10. /\ Grows /\ OnePlace' /\ \A s, f \in Events : Has(s, f)' = Has(s, f)
       /\ \A f \in Events : Written(f)' = Written(f)
  BY <1>9, SameTurns
<1>11. TypeOK'  BY <1>7, <1>9 DEF IInv, TypeOK, SessionRow
<1>12. TasksHeard'  BY <1>9, <1>10 DEF IInv, TasksHeard
<1>13. Local(e)'  BY <1>8, <1>10
<1>14. RowsKept  BY <1>8 DEF RowsKept
<1>15. Inherited'
  <2> SUFFICES ASSUME NEW s \in Events, sessions'[s].status = "archived"
               PROVE  \E f \in Events : Heir(f, s)'
    BY DEF Inherited
  <2>1. CASE s = x /\ st = "archived"
    <3>1. Heir(e, s)'  BY <1>2, <1>8, <2>1 DEF Heir
    <3> QED  BY <3>1
  <2>2. CASE ~(s = x /\ st = "archived")
    <3>1. sessions[s].status = "archived"  BY <1>5, <1>7, <2>2
    <3>2. PICK f \in Events : Heir(f, s)  BY <3>1 DEF IInv, Inherited
    <3>3. CASE f # e  BY <1>8, <3>2, <3>3 DEF Heir, Opens
    <3>4. CASE f = e
      <4>1. handler[e].pc \in {"touch", "archive"} \/ handler[e].pc = "cut"
        BY <1>1 DEF Local, Begun, Phase
      <4> QED  BY <1>8, <3>2, <3>4, <4>1 DEF Heir, Broken
    <3> QED  BY <3>3, <3>4
  <2> QED  BY <2>1, <2>2
<1>16. HasNewest'
  <2> SUFFICES ASSUME NEW s \in Events, Born(s)'
               PROVE  \E m \in Events : Newest(m, s)'
    BY DEF HasNewest
  <2>1. PICK m \in Events : Newest(m, s)  BY <1>8 DEF IInv, HasNewest
  <2>2. Newest(m, s)'  BY <1>8, <2>1 DEF Newest
  <2> QED  BY <2>2
<1>17. Times'
  <2>1. handler'[e].at <= clock  BY <1>1
  <2> QED  BY <1>8, <2>1 DEF IInv, Times
<1> QED  BY <1>8, <1>10, <1>11, <1>12, <1>13, <1>14, <1>15, <1>16, <1>17, WriteStep

LEMMA TouchIInv ==
  ASSUME Assumed, IInv, NEW e \in Events, Touch(e)
  PROVE  IInv'
<1>1. /\ Phase(e) = "touch" /\ handler[e].owes = "nothing" /\ e \in seen
      /\ handler[e].pc = "touch" /\ Local(e) /\ TypeOK
  BY AtPhase DEF Touch, At, IInv
<1>2. UpdateSession(e, "active") /\ UNCHANGED <<edge, seen, lock, clock>> /\ Go(e, "list")
  BY DEF Touch, Write
<1>3. /\ handler' \in [Events -> Handler]
      /\ Like(handler'[e], handler[e]) /\ handler'[e].pc = "list"
      /\ \A f \in Events \ {e} : handler'[f] = handler[f]
  BY <1>1, <1>2, GoMoves DEF PCs, Going, Storing
<1>4. Phase(e)' = "list" /\ Opens(e)' = Opens(e) /\ Speaks(e)' = Speaks(e) /\ Pending(e)' = Pending(e)
      /\ handler'[e].session = handler[e].session
  BY <1>1, <1>3 DEF Phase, Opens, Speaks, Pending, Like
<1>5. ASSUME \A s \in Events : Has(s, e)' = Has(s, e) /\ Born(s)' = Born(s),
             Written(e)' = Written(e)
      PROVE  Local(e)'
  <2>1. handler[e].session \in Events  BY <1>1 DEF Local, Place, After
  <2>2. Begun(e)'  BY <1>1, <1>2, <1>3, <1>4 DEF Begun, Like
  <2>3. Text(e)'  BY <1>1, <1>3, <1>4, <1>5 DEF Local, Text, Before, Writing, Like
  <2>4. Heard(e)'  BY <1>1, <1>4, <1>5, <2>1 DEF Local, Heard, After
  <2>5. Place(e)'
    BY <1>1, <1>4, <1>5, <2>1, Assumed DEF Local, Place, Before, Writing, After, Unborn, Assumed
  <2> QED  BY <2>2, <2>3, <2>4, <2>5 DEF Local
<1>6. kind' = kind /\ errors' \subseteq Events /\ lock' \in Events \cup {None}
      /\ handler[e].pc \notin Broken /\ handler'[e].at = handler[e].at
  BY <1>1, <1>2, <1>3 DEF edge, TypeOK, Broken, Like
<1> QED  BY <1>1, <1>2, <1>3, <1>5, <1>6, UpdateStep

LEMMA ArchiveIInv ==
  ASSUME Assumed, IInv, NEW e \in Events, Archive(e)
  PROVE  IInv'
<1>1. /\ Phase(e) = "archive" /\ handler[e].owes = "nothing" /\ e \in seen
      /\ handler[e].pc = "archive" /\ Local(e) /\ TypeOK
  BY AtPhase DEF Archive, At, IInv
<1>2. UpdateSession(e, "archived") /\ UNCHANGED <<edge, seen, lock, clock>> /\ Go(e, "open")
  BY DEF Archive, Write
<1>3. /\ handler' \in [Events -> Handler]
      /\ Like(handler'[e], handler[e]) /\ handler'[e].pc = "open"
      /\ \A f \in Events \ {e} : handler'[f] = handler[f]
  BY <1>1, <1>2, GoMoves DEF PCs, Going
<1>4. Phase(e)' = "open" /\ Pending(e)' = Pending(e)
  BY <1>1, <1>3 DEF Phase, Pending, Like
<1>5. kind[e] = "restart" /\ handler[e].thread = sessions[handler[e].session].thread
      /\ ~Written(e) /\ ~Born(e) /\ handler[e].left = <<>>
  BY <1>1 DEF Local, Place, Text, Before
<1>6. ASSUME \A s \in Events : Has(s, e)' = Has(s, e) /\ Born(s)' = Born(s),
             Written(e)' = Written(e)
      PROVE  Local(e)'
  <2>1. Begun(e)'  BY <1>1, <1>2, <1>3, <1>4 DEF Begun, Like
  <2>2. Text(e)'  BY <1>3, <1>4, <1>5, <1>6 DEF Text, Writing, Like, Before, Pending
  <2>3. Heard(e)'  BY <1>4 DEF Heard, After
  <2>4. Place(e)'  BY <1>4, <1>5, <1>6 DEF Place, Before, Writing, After, Unborn
  <2> QED  BY <2>1, <2>2, <2>3, <2>4 DEF Local
<1>7. kind' = kind /\ errors' \subseteq Events /\ lock' \in Events \cup {None}
      /\ handler[e].pc \notin Broken /\ handler'[e].at = handler[e].at
      /\ handler'[e].thread = handler[e].thread
  BY <1>1, <1>2, <1>3 DEF edge, TypeOK, Broken, Like
<1> QED  BY <1>1, <1>2, <1>3, <1>5, <1>6, <1>7, UpdateStep

\* create_task: its message is in the transcript.
LEMMA RowStep ==
  ASSUME Assumed, IInv, NEW e \in Events, Phase(e) = "row", CreateTask(e),
         UNCHANGED <<kind, seen, clock>>,
         errors' \subseteq Events, lock' \in Events \cup {None},
         handler' \in [Events -> Handler],
         \A f \in Events \ {e} : handler'[f] = handler[f],
         handler'[e].at \in {0, handler[e].at},
         handler[e].pc \in Broken => handler'[e].pc \in Broken,
         Local(e)'
  PROVE  IInv'
<1>1. tasks \in [Events -> TaskRow] /\ Local(e)  BY DEF IInv, TypeOK, TaskRow
<1>2. PICK x : x = handler[e].session  OBVIOUS
<1>3. x \in Events /\ Has(x, e)
  <2>1. x \in Events /\ Speaks(e)  BY <1>1, <1>2 DEF Local, Place, Heard, After
  <2> QED  BY <1>1, <1>2, <2>1, Assumed DEF Local, Heard, After, Assumed
<1>4. PICK k : k = [tasks[e] EXCEPT !.at = "row", !.session = x]  OBVIOUS
<1>5. k \in TaskRow /\ k.session = x
  <2>1. tasks[e] \in TaskRow  BY <1>1
  <2> QED  BY <1>3, <1>4, <2>1 DEF TaskRow
<1>6. tasks' = [tasks EXCEPT ![e] = k]  BY <1>1, <1>2, <1>4 DEF CreateTask
<1>7. tasks' \in [Events -> TaskRow] /\ tasks'[e] = k /\ \A t \in Events \ {e} : tasks'[t] = tasks[t]
  BY <1>1, <1>5, <1>6
<1>8. UNCHANGED <<sessions, turns>>  BY DEF CreateTask
<1>9. handler[e].pc \notin {"open", "turn", "create"} \cup Broken \/ handler'[e].pc \in Broken
  BY <1>1 DEF Local, Begun, Phase, Broken
<1>10. Inherited' /\ HasNewest' /\ Times' /\ RowsKept /\ \A f \in Events : Born(f)' = Born(f)
  BY <1>8, <1>9, SessionsStay
<1>11. /\ Grows /\ OnePlace' /\ \A s, f \in Events : Has(s, f)' = Has(s, f)
       /\ \A f \in Events : Written(f)' = Written(f)
  BY <1>8, SameTurns
<1>12. TasksHeard'  BY <1>3, <1>5, <1>7, <1>11 DEF IInv, TasksHeard
<1>13. TypeOK'  BY <1>7, <1>8 DEF IInv, TypeOK, TaskRow
<1> QED  BY <1>10, <1>11, <1>12, <1>13, WriteStep

LEMMA StartTaskIInv ==
  ASSUME Assumed, IInv, NEW e \in Events, StartTask(e)
  PROVE  IInv'
<1>1. /\ Phase(e) = "row" /\ handler[e].owes = "nothing" /\ e \in seen
      /\ handler[e].pc = "row" /\ Local(e) /\ TypeOK
  BY AtPhase DEF StartTask, At, IInv
<1>2. CreateTask(e) /\ UNCHANGED <<edge, seen, lock, clock>> /\ Go(e, "record")
  BY DEF StartTask, Write
<1>3. /\ handler' \in [Events -> Handler]
      /\ Like(handler'[e], handler[e]) /\ handler'[e].pc = "record"
      /\ \A f \in Events \ {e} : handler'[f] = handler[f]
  BY <1>1, <1>2, GoMoves DEF PCs, Going, Storing
<1>4. Phase(e)' = "record"  BY <1>1, <1>3 DEF Phase, Like
<1>5. UNCHANGED <<kind, sessions, turns>>  BY <1>2 DEF edge, CreateTask
<1>6. Local(e)'
  <2>1. Asks(Phase(e), Phase(e)')  BY <1>1, <1>4 DEF Asks
  <2> QED  BY <1>1, <1>2, <1>3, <1>5, <2>1, LocalStays DEF Like
<1>7. errors' \subseteq Events /\ lock' \in Events \cup {None} /\ handler[e].pc \notin Broken
      /\ handler'[e].at = handler[e].at
  BY <1>1, <1>2, <1>3 DEF edge, TypeOK, Broken, Like
<1> QED  BY <1>1, <1>2, <1>3, <1>5, <1>6, <1>7, RowStep

LEMMA LandIInv ==
  ASSUME Assumed, IInv, NEW e \in Events, Land(e)
  PROVE  IInv'
<1>1. /\ handler[e].pc = "cut" /\ handler[e].owes # "nothing" /\ TypeOK /\ e \in seen
      /\ Phase(e) = handler[e].owes /\ Local(e)
  BY DEF Land, At, IInv, Phase, Local, Begun
<1>2. Write(e, handler[e].owes) /\ Stop(e, "cut") /\ UNCHANGED <<edge, seen, lock, clock>>
  BY DEF Land
<1>3. /\ handler' \in [Events -> Handler]
      /\ handler'[e].pc = "cut" /\ handler'[e].owes = "nothing" /\ handler'[e].left = <<>>
      /\ handler'[e].session = handler[e].session /\ handler'[e].at = 0
      /\ \A f \in Events \ {e} : handler'[f] = handler[f]
  BY <1>1, <1>2, StopMoves DEF PCs, Over
<1>4. Local(e)'  BY <1>1, <1>2, <1>3, LandedIsLocal
<1>5. kind' = kind /\ errors' \subseteq Events /\ lock' \in Events \cup {None}
      /\ handler'[e].pc \in Broken
  BY <1>1, <1>2, <1>3 DEF edge, TypeOK, Broken
<1>6. CASE Phase(e) = "create" /\ CreateSession(e)  BY <1>2, <1>3, <1>4, <1>5, <1>6, CreateStep
<1>7. CASE Phase(e) = "write" /\ AppendTurn(e)  BY <1>2, <1>3, <1>4, <1>5, <1>7, AppendStep
<1>8. CASE Phase(e) = "touch" /\ UpdateSession(e, "active")
  BY <1>2, <1>3, <1>4, <1>5, <1>8, UpdateStep
<1>9. CASE Phase(e) = "archive" /\ UpdateSession(e, "archived")
  <2>1. kind[e] = "restart"  BY <1>1, <1>9 DEF Local, Place
  <2> QED  BY <1>2, <1>3, <1>4, <1>5, <1>9, <2>1, UpdateStep
<1>10. CASE Phase(e) = "row" /\ CreateTask(e)  BY <1>2, <1>3, <1>4, <1>5, <1>10, RowStep
<1> QED  BY <1>1, <1>2, <1>6, <1>7, <1>8, <1>9, <1>10 DEF Write

LEMMA NoteAnswerIInv ==
  ASSUME Assumed, IInv, NEW t \in Events, NoteAnswer(t)
  PROVE  IInv'
<1>1. tasks \in [Events -> TaskRow] /\ tasks[t] \in TaskRow /\ tasks[t].at = "noting"
  BY DEF NoteAnswer, IInv, TypeOK, TaskRow
<1>2. PICK x : x = tasks[t].session  OBVIOUS
<1>3. x \in Events  BY <1>1, <1>2 DEF IInv, TasksHeard
<1>4. UNCHANGED <<edge, seen, sessions, handler, lock, clock>>  BY DEF NoteAnswer
<1>5. CASE tasks[t].seq = Len(turns[tasks[t].session])
  <2>1. PICK k : k = [NoTask EXCEPT !.at = "over", !.session = x]  OBVIOUS
  <2>2. k \in TaskRow /\ k.session = x
    <3>1. k = [at |-> "over", session |-> x, seq |-> 0, try |-> 1]  BY <2>1 DEF NoTask
    <3> QED  BY <1>3, <3>1 DEF TaskRow, Attempts
  <2>3. turns' = [turns EXCEPT ![x] = Append(@, None)] /\ tasks' = [tasks EXCEPT ![t] = k]
    BY <1>2, <1>5, <2>1 DEF NoteAnswer, Moves
  <2>4. PICK v : v = None  OBVIOUS
  <2>5. v \in Events \cup {None} /\ v \notin Events  BY <2>4, Assumed DEF Assumed, None
  <2>6. turns' = [turns EXCEPT ![x] = Append(@, v)]  BY <2>3, <2>4
  <2>7. /\ turns' \in [Events -> Seq(Events \cup {None})] /\ Grows /\ OnePlace'
        /\ \A f \in Events : f # v => (Written(f)' => Written(f))
        /\ \A y, f \in Events : Has(y, f) => Has(y, f)'
    BY <1>3, <2>5, <2>6, AppendOne
  <2>8. tasks' \in [Events -> TaskRow] /\ tasks'[t] = k
        /\ \A u \in Events \ {t} : tasks'[u] = tasks[u]
    BY <1>1, <2>2, <2>3
  <2>9. TypeOK'  BY <1>4, <2>7, <2>8 DEF IInv, TypeOK, edge, TaskRow
  <2>10. TasksHeard'
    BY <1>1, <1>2, <2>2, <2>7, <2>8 DEF IInv, TasksHeard
  <2>11. Inherited' /\ HasNewest' /\ Times'
    BY <1>4 DEF IInv, Inherited, HasNewest, Times, Heir, Newest, Born, Opens, edge
  <2>12. RowsKept /\ \A f \in Events : Born(f)' = Born(f) /\ (Written(f)' => Written(f))
    BY <1>4, <2>5, <2>7 DEF RowsKept, Born
  <2>13. \A f \in Events : Local(f)'
    <3> SUFFICES ASSUME NEW f \in Events PROVE Local(f)'  OBVIOUS
    <3>1. Local(f) /\ handler[f].session \in Events \cup {NoThread}
      BY DEF IInv, TypeOK, Handler
    <3>2. UNCHANGED <<kind, seen, sessions, handler>>  BY <1>4 DEF edge
    <3>3. Phase(f)' = Phase(f) /\ Opens(f)' = Opens(f) /\ Speaks(f)' = Speaks(f)
          /\ Unborn(f)' = Unborn(f) /\ Pending(f)' = Pending(f)
      BY <3>2 DEF Phase, Opens, Speaks, Unborn, Pending
    <3>4. Begun(f)'  BY <3>1, <3>2, <3>3 DEF Local, Begun
    <3>5. Text(f)'  BY <2>12, <3>1, <3>2, <3>3 DEF Local, Text
    <3>6. Heard(f)'  BY <2>7, <3>1, <3>2, <3>3 DEF Local, Heard
    <3>7. Place(f)'  BY <2>12, <3>1, <3>2, <3>3 DEF Local, Place, Born
    <3> QED  BY <3>4, <3>5, <3>6, <3>7 DEF Local
  <2> QED  BY <2>7, <2>9, <2>10, <2>11, <2>13 DEF IInv
<1>6. CASE tasks[t].seq # Len(turns[tasks[t].session])
  <2> DEFINE k == IF tasks[t].try < Attempts
                  THEN [tasks[t] EXCEPT !.at = "answered", !.try = @ + 1]
                  ELSE [tasks[t] EXCEPT !.at = "unnoted"]
  <2>1. turns' = turns /\ Moves(t, "noting", k)  BY <1>6 DEF NoteAnswer
  <2>2. k \in TaskRow /\ k.session = tasks[t].session
    <3>1. CASE tasks[t].try < Attempts
      <4>1. k = [tasks[t] EXCEPT !.at = "answered", !.try = @ + 1]  BY <3>1
      <4>2. tasks[t].try + 1 \in 1..Attempts  BY <1>1, <3>1 DEF TaskRow, Attempts
      <4> QED  BY <1>1, <4>1, <4>2 DEF TaskRow
    <3>2. CASE ~(tasks[t].try < Attempts)
      <4>1. k = [tasks[t] EXCEPT !.at = "unnoted"]  BY <3>2
      <4> HIDE DEF k
      <4> QED  BY <1>1, <4>1, TaskWith
    <3> QED  BY <3>1, <3>2
  <2> HIDE DEF k
  <2> QED  BY <1>4, <2>1, <2>2, TaskMoves
<1> QED  BY <1>5, <1>6
-----------------------------------------------------------------------------
LEMMA InitIInv == ASSUME Assumed PROVE Init => IInv
<1> SUFFICES ASSUME Init PROVE IInv  OBVIOUS
<1>1. PICK out : out = Outside  OBVIOUS
<1>2. handler = [e \in Events |-> out] /\ out \in Handler /\ out.pc = "out" /\ out.owes = "nothing"
      /\ out.session = NoThread /\ out.left = <<>> /\ out.at = 0
  BY <1>1, OutsideIs DEF Init
<1>3. /\ sessions = [e \in Events |-> NoSession] /\ turns = [e \in Events |-> <<>>]
      /\ tasks = [e \in Events |-> NoTask] /\ clock = 0
  BY DEF Init
<1>4. NoTask \in TaskRow /\ NoTask.at = "none"  BY DEF NoTask, TaskRow, Attempts
<1>5. NoSession \in SessionRow /\ NoSession.status = "none" /\ NoSession.at = 0
  BY DEF NoSession, SessionRow
<1>6. TypeOK
  <2>1. handler \in [Events -> Handler]  BY <1>2
  <2>2. tasks \in [Events -> TaskRow]  BY <1>3, <1>4
  <2>3. sessions \in [Events -> SessionRow]  BY <1>3, <1>5
  <2>4. turns \in [Events -> Seq(Events \cup {None})]  BY <1>3
  <2> QED  BY <2>1, <2>2, <2>3, <2>4 DEF Init, TypeOK, TaskRow, SessionRow
<1>7. \A s, e \in Events : ~Has(s, e) /\ ~Born(s)  BY <1>3, <1>5 DEF Has, Born
<1>8. OnePlace  BY <1>3 DEF OnePlace
<1>9. TasksHeard  BY <1>3, <1>4 DEF TasksHeard
<1>10. Inherited /\ HasNewest  BY <1>3, <1>5, <1>7 DEF Inherited, HasNewest
<1>11. Times  BY <1>2, <1>3, <1>5 DEF Times
<1>12. \A e \in Events : Local(e)
  <2> SUFFICES ASSUME NEW e \in Events PROVE Local(e)  OBVIOUS
  <2>1. Phase(e) = "out"  BY <1>2 DEF Phase
  <2>2. ~Written(e)  BY <1>7 DEF Written
  <2> QED  BY <1>2, <1>7, <2>1, <2>2
           DEF Local, Begun, Text, Heard, Place, Writing, After, Before, Unborn, Pending
<1> QED  BY <1>6, <1>8, <1>9, <1>10, <1>11, <1>12 DEF IInv

LEMMA StepIInv == ASSUME Assumed PROVE IInv /\ [Next]_vars => IInv'
<1> SUFFICES ASSUME IInv, [Next]_vars PROVE IInv'  OBVIOUS
<1>1. CASE UNCHANGED vars
  BY <1>1 DEF vars, edge, IInv, TypeOK, Local, Begun, Text, Heard, Place, OnePlace, TasksHeard,
              Inherited, HasNewest, Times, Heir, Newest, Born, Unborn, Has, Written, Pending,
              Speaks, Opens, Phase
<1>2. ASSUME NEW e \in Events, Arrive(e) \/ Fails(e) \/ Cut(e) \/ Land(e)  PROVE IInv'
  BY <1>2, AcceptIInv, AcceptFailsIInv, FailsIInv, CutIInv, LandIInv DEF Arrive
<1>3. ASSUME NEW e \in Events, Handle(e)  PROVE IInv'
  BY <1>3, RouteIInv, OpenIInv, TakeLockIInv, CreateIInv, ReadSeqIInv, WriteTurnIInv, TouchIInv,
     ListIInv, StartTaskIInv, EnqueueIInv, ReturnIInv, ListTasksIInv, StopTasksIInv, ArchiveIInv
  DEF Handle
<1>4. ASSUME NEW e \in Events, Perform(e)  PROVE IInv'
  BY <1>4, WorkIInv, ReadAnswerSeqIInv, NoteAnswerIInv DEF Perform
<1> QED  BY <1>1, <1>2, <1>3, <1>4 DEF Next

LEMMA Invariance == ASSUME Assumed PROVE Spec => []IInv
<1>1. Init => IInv  BY InitIInv
<1>2. IInv /\ [Next]_vars => IInv'  BY StepIInv
<1> QED  BY <1>1, <1>2, PTL DEF Spec
-----------------------------------------------------------------------------
LEMMA PlacesOf ==
  ASSUME NEW e \in Events
  PROVE  /\ \A place \in TurnsOf(e) : /\ place[1] \in Events /\ place[2] \in DOMAIN turns[place[1]]
                                      /\ turns[place[1]][place[2]] = e
                                      /\ place = <<place[1], place[2]>>
         /\ \A s \in Events : Has(s, e) => \E place \in TurnsOf(e) : place[1] = s
<1>1. ASSUME NEW place \in TurnsOf(e)
      PROVE  /\ place[1] \in Events /\ place[2] \in DOMAIN turns[place[1]]
             /\ turns[place[1]][place[2]] = e /\ place = <<place[1], place[2]>>
  <2>1. PICK s \in Events : place \in {s} \X {i \in DOMAIN turns[s] : turns[s][i] = e}
    BY DEF TurnsOf
  <2> QED  BY <2>1
<1>2. ASSUME NEW s \in Events, Has(s, e)  PROVE \E place \in TurnsOf(e) : place[1] = s
  <2>1. PICK i \in DOMAIN turns[s] : turns[s][i] = e  BY <1>2 DEF Has
  <2>2. <<s, i>> \in {s} \X {j \in DOMAIN turns[s] : turns[s][j] = e}  BY <2>1
  <2>3. <<s, i>> \in TurnsOf(e)  BY <2>2 DEF TurnsOf
  <2> QED  BY <2>3
<1> QED  BY <1>1, <1>2

LEMMA IInvWrittenOnce == IInv => WrittenOnce
<1> SUFFICES ASSUME IInv, NEW e \in Events PROVE Cardinality(TurnsOf(e)) <= 1
  BY DEF WrittenOnce
<1>1. \A p, q \in TurnsOf(e) : p = q
  <2> SUFFICES ASSUME NEW p \in TurnsOf(e), NEW q \in TurnsOf(e) PROVE p = q  OBVIOUS
  <2>1. p[1] = q[1] /\ p[2] = q[2]  BY PlacesOf DEF IInv, OnePlace
  <2>2. p = <<p[1], p[2]>> /\ q = <<q[1], q[2]>>  BY PlacesOf
  <2> QED  BY <2>1, <2>2
<1>2. CASE TurnsOf(e) = {}  BY <1>2, FS_EmptySet
<1>3. CASE TurnsOf(e) # {}
  <2>1. PICK p : p \in TurnsOf(e)  BY <1>3
  <2>2. TurnsOf(e) = {p}  BY <1>1, <2>1
  <2>3. PICK x : p = x  OBVIOUS
  <2>4. Cardinality({x}) = 1  BY FS_Singleton
  <2> QED  BY <2>2, <2>3, <2>4
<1> QED  BY <1>2, <1>3

LEMMA IInvTaskKnows == IInv => TaskKnowsItsMessage
<1> SUFFICES ASSUME IInv, NEW t \in Events, tasks[t].at \in {"queued", "busy"}
             PROVE  \E place \in TurnsOf(t) : place[1] = tasks[t].session
  BY DEF TaskKnowsItsMessage
<1>1. tasks[t].session \in Events /\ Has(tasks[t].session, t)  BY DEF IInv, TasksHeard
<1> QED  BY <1>1, PlacesOf

LEMMA IInvHandled == IInv => HandledIsWritten
<1> SUFFICES ASSUME IInv, NEW e \in Events \ Bare, handler[e].pc = "done",
                    handler[e].session # NoThread
             PROVE  TurnsOf(e) # {}
  BY DEF HandledIsWritten, At
<1>1. Phase(e) = "done"  BY DEF Phase, IInv, Local, Begun
<1>2. handler[e].session \in Events  BY DEF IInv, TypeOK, Handler
<1>3. Has(handler[e].session, e)  BY <1>1 DEF IInv, Local, Heard, After, Speaks
<1> QED  BY <1>2, <1>3, PlacesOf

LEMMA IInvRestart == ASSUME Assumed PROVE IInv => RestartTakesOver
<1> SUFFICES ASSUME IInv, NEW e \in Events, At(e, "done"), kind[e] = "restart", Opens(e),
                    \A f \in Events \ {e} : kind[f] = "restart" => handler[f].pc \in {"out", "done"}
             PROVE  \E s \in Found(sessions[e].thread) : sessions[s].at >= sessions[e].at
  BY DEF RestartTakesOver
<1>1. Phase(e) = "done" /\ handler[e].pc = "done"  BY DEF At, Phase, IInv, Local, Begun
<1>2. Born(e)  BY <1>1, Assumed DEF IInv, Local, Place, After, Opens, Unborn, Assumed
<1>3. PICK m \in Events : Newest(m, e)  BY <1>2 DEF IInv, HasNewest
<1>4. sessions[m].status = "active"
  <2> SUFFICES ASSUME sessions[m].status = "archived" PROVE FALSE
    BY <1>3 DEF Newest, Born, IInv, TypeOK
  <2>1. PICK f \in Events : Heir(f, m)  BY DEF IInv, Inherited
  <2>2. handler[f].pc \in {"out", "done"}  BY <1>1, <2>1 DEF Heir
  <2>3. Born(f) /\ sessions[f].thread = sessions[m].thread /\ sessions[f].at > sessions[m].at
    BY <2>1, <2>2 DEF Heir, Broken
  <2>4. sessions[f].at \in Nat /\ sessions[m].at \in Nat  BY DEF IInv, TypeOK
  <2> QED  BY <1>3, <2>3, <2>4 DEF Newest
<1>5. m \in Found(sessions[e].thread)  BY <1>3, <1>4 DEF Newest, Found, Born
<1>6. sessions[m].at >= sessions[e].at
  <2>1. sessions[e].at \in Nat /\ sessions[m].at \in Nat  BY DEF IInv, TypeOK
  <2> QED  BY <1>2, <1>3, <2>1 DEF Newest
<1> QED  BY <1>5, <1>6

\* The state keeps its types.
THEOREM TypeCorrect == ASSUME Assumed PROVE Spec => []TypeOK
<1>1. IInv => TypeOK  BY DEF IInv
<1> QED  BY <1>1, Invariance, PTL

\* However often an event is offered, cut off and retried, its text is in the
\* transcripts at most once (R2, write_turn_locked).
THEOREM TextIsWrittenOnce == ASSUME Assumed PROVE Spec => []WrittenOnce
<1>1. IInv => WrittenOnce  BY IInvWrittenOnce
<1> QED  BY <1>1, Invariance, PTL

\* A task that a worker may take finds the message that started it in the
\* transcript of its session (append_turn before create_task).
THEOREM TasksKnowTheirMessage == ASSUME Assumed PROVE Spec => []TaskKnowsItsMessage
<1>1. IInv => TaskKnowsItsMessage  BY IInvTaskKnows
<1> QED  BY <1>1, Invariance, PTL

\* What was handled to its end is in a transcript, whoever took the seq it was
\* to get (write_turn_locked, APPEND_TURN_ATTEMPTS).
THEOREM WhatIsHandledIsWritten == ASSUME Assumed PROVE Spec => []HandledIsWritten
<1>1. IInv => HandledIsWritten  BY IInvHandled
<1> QED  BY <1>1, Invariance, PTL

\* Once a !restart has been handled and no other one is under way or failed,
\* the thread belongs to its session or a newer one, whatever writes of older
\* handlers land later (restart.rs, sessions.rs).
THEOREM RestartOwnsTheThread == ASSUME Assumed PROVE Spec => []RestartTakesOver
<1>1. IInv => RestartTakesOver  BY IInvRestart
<1> QED  BY <1>1, Invariance, PTL
=============================================================================
