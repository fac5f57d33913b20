------------------------------- MODULE MCCore -------------------------------
(***************************************************************************)
(* Core with three events of a thread, two processes, two tool calls, two   *)
(* connections through the proxy, and two cores that open a database.       *)
(***************************************************************************)
EXTENDS Core, Sequences, TLC

CONSTANTS root, second, third

(* A root message, then an event in its thread and a command there.         *)
MCEvents == {root, second, third}
MCKinds == {(root :> "message") @@ (second :> k[1]) @@ (third :> k[2]) :
              k \in {<<"message", "restart">>, <<"edited", "message">>}}
MCThread == (root :> Off) @@ (second :> root) @@ (third :> root)
MCRoot == {root}

MCPair == {"c1", "c2"}
MCTasks == {"t1", "t2"}
MCProcs == {"p1", "p2"}

(* Two calls: of one task, at once or in a row, or of two tasks.           *)
LeaseAsk(t, k) == [task |-> t, kind |-> k]
MCLeaseAsks == {("c1" :> LeaseAsk("t1", k[1])) @@ ("c2" :> LeaseAsk(k[3], k[2])) :
                  k \in {<<"python", "python", "t1">>, <<"attachment", "artifact", "t1">>,
                         <<"python", "list", "t2">>}}

(* Hosts as label sequences; patterns that overlap, widen or are refused.  *)
Pattern(host, wild, port, valid) == [host |-> host, wild |-> wild, port |-> port, valid |-> valid]
Mirror == <<"mirror", "cn">>
Feishu == <<"open", "feishu", "cn">>
Lab == <<"x", "lab">>
Patterns == {Pattern(<<"lab">>, TRUE, 0, TRUE), Pattern(Lab, FALSE, 8443, TRUE),
             Pattern(<<"feishu", "cn">>, TRUE, 0, TRUE), Pattern(<<"cn">>, TRUE, 8443, TRUE),
             Pattern(<<>>, TRUE, 0, FALSE)}
MCPreset == {Pattern(Mirror, FALSE, 0, TRUE)}
MCReserved == {Feishu}
MCPolicies ==
    {[level |-> l, hosts |-> hs, credentials |-> {}] :
       l \in {"none", "trusted", "custom", "full", "other"}, hs \in {{}} \cup {{p, q} : p, q \in Patterns}}
      \cup {[level |-> "custom", hosts |-> {}, credentials |-> {"key"}]}
Ask(m, t, v, h, p) == [method |-> m, token |-> t, valid |-> v, host |-> h, port |-> p]
MCConnAsks == [c \in {"c1", "c2"} |->
    IF c = "c1"
    THEN {Ask("CONNECT", "known", TRUE, h, p) : h \in {Mirror, Feishu, Lab, <<"lab">>}, p \in {443, 8443}}
           \cup {Ask("GET", "known", TRUE, Lab, 80), Ask("GET", "unknown", TRUE, Lab, 80),
                 Ask("CONNECT", "none", TRUE, Lab, 443), Ask("CONNECT", "known", FALSE, <<>>, 1)}
    ELSE {Ask("CONNECT", "known", TRUE, Mirror, 443)}]

(* Databases: none yet, of before the migrations, at the first, and a newer *)
(* program's; each with tasks, or with events, or with messages.            *)
File(v, t, ss, ts, es, ms) ==
  [version |-> v, tables |-> t, counter |-> IF t > 0 THEN 1 ELSE 0,
   sessions |-> [s \in ss |-> IF t > 0 /\ s = "s1" THEN "chat" ELSE Off],
   tasks |-> [x \in ts |->
     IF t > 0 /\ x = "t1"
     THEN [data |-> [session |-> "s1", no |-> 1, status |-> "working", cost |-> 2], chat |-> Off, cost |-> Off]
     ELSE Off],
   seen |-> [e \in es |-> IF t > 0 THEN 0 ELSE Off],
   index |-> [m \in ms |-> Off]]
MCFiles ==
  UNION {{File(v[1], v[2], {"s1"}, {"t1", "t2"}, {}, {}), File(v[1], v[2], {}, {}, {"e"}, {}),
          File(v[1], v[2], {"s1", "s2"}, {}, {}, {"m"})} : v \in {<<0, 0>>, <<0, 1>>, <<1, 1>>}}
   \cup {File(3, 3, {}, {}, {}, {})}
MCCores == {"a", "b"}
MCChats == {"chat"}
=============================================================================
