---------------------------- MODULE EgressProxy ----------------------------
(***************************************************************************)
(* The egress proxy of the sandboxes (edge/internal/egress: policy.go,     *)
(* egress.go, tunnel.go): policies that are registered and withdrawn by    *)
(* token, the decision over a request, tunnels and forwarded requests from *)
(* their entry to their line in the audit log, and the end of Serve.       *)
(*                                                                         *)
(* A host is its sequence of labels, so that a wildcard is a suffix.       *)
(* Tokens, parsing and headers are reduced to what the decision tells      *)
(* apart: no token, a token nobody registered, the token of the policy.    *)
(***************************************************************************)
EXTENDS Naturals, FiniteSets, Sequences, SequencesExt

CONSTANTS
  Conns,      \* the connections to the proxy, one request each
  Asks,       \* what each of them may ask for
  Policies,   \* the policies that may be registered
  Preset,     \* the patterns of level trusted
  Reserved,   \* the hosts that no policy may reach
  MaxChanges  \* bound: registrations and withdrawals

VARIABLES
  policy,   \* the compiled policy of the token, or NoPolicy
  changes,
  pc,       \* where each request is
  ask,      \* the request
  pol,      \* the policy it found
  killed,   \* its connection was closed by srv.Close
  tracked,  \* connections in the table: <<"client", c>> and <<"up", c>>
  shut,     \* connections closed by closeTunnels
  copying,  \* directions of a tunnel that are still copied: <<"client", c>>, <<"up", c>>
  audit,    \* the lines written for each request
  closed,
  inflight, \* the wait group
  serve     \* Serve: "serving", "told", "closing", "waiting" or "returned"

table == <<policy, changes>>
server == <<closed, serve>>
vars == <<table, pc, ask, pol, killed, tracked, shut, copying, audit, closed, inflight, serve>>

NoPolicy == [level |-> "absent", patterns |-> {}]
Nothing == [method |-> "GET", token |-> "none", valid |-> FALSE, host |-> <<>>, port |-> 1]

Init ==
  /\ policy = NoPolicy
  /\ changes = 0
  /\ pc = [c \in Conns |-> "idle"]
  /\ ask = [c \in Conns |-> Nothing]
  /\ pol = [c \in Conns |-> NoPolicy]
  /\ killed = {}
  /\ tracked = {}
  /\ shut = {}
  /\ copying = {}
  /\ audit = [c \in Conns |-> 0]
  /\ closed = FALSE
  /\ inflight = 0
  /\ serve = "serving"

-----------------------------------------------------------------------------
\* Policies

MatchesHost(p, host) ==
  IF p.wild THEN Len(host) > Len(p.host) /\ IsSuffix(p.host, host) ELSE host = p.host

DefaultPort(port) == port \in {80, 443}

\* A pattern without a port lets 80 and 443 through.
MatchesPort(p, port) == IF p.port = 0 THEN DefaultPort(port) ELSE port = p.port

\* compile: what Register refuses.
Accepted(raw) ==
  /\ raw.credentials = {}
  /\ raw.level \in {"none", "trusted", "custom", "full"}
  /\ \A p \in raw.hosts : p.valid /\ \A r \in Reserved : ~ MatchesHost(p, r)

Compiled(raw) ==
  [level |-> raw.level, patterns |-> raw.hosts \cup (IF raw.level = "trusted" THEN Preset ELSE {})]

Change == changes < MaxChanges /\ changes' = changes + 1

Register(raw) ==
  /\ Change
  /\ Accepted(raw)
  /\ policy' = Compiled(raw)
  /\ UNCHANGED <<pc, ask, pol, killed, tracked, shut, copying, audit, closed, inflight, serve>>

\* A policy that is refused leaves the table as it is.
RegisterRefused(raw) ==
  /\ Change
  /\ ~ Accepted(raw)
  /\ UNCHANGED <<policy, pc, ask, pol, killed, tracked, shut, copying, audit, closed, inflight, serve>>

\* Requests that have found their policy, and open tunnels, keep it.
Unregister ==
  /\ Change
  /\ policy # NoPolicy
  /\ policy' = NoPolicy
  /\ UNCHANGED <<pc, ask, pol, killed, tracked, shut, copying, audit, closed, inflight, serve>>

\* A mutant: one pattern may give the host and another one the port.
Allows_Apart(q, host, port) ==
  /\ q.level # "none" /\ host \notin Reserved
  /\ q.level = "full" \/ \E p \in q.patterns : MatchesHost(p, host)
  /\ (q.level = "full" /\ DefaultPort(port)) \/ \E p \in q.patterns : MatchesPort(p, port)

\* decide: the host has to be granted, and its port.
Allows(q, host, port) ==
  /\ q.level # "none" /\ host \notin Reserved
  /\ q.level = "full" \/ \E p \in q.patterns : MatchesHost(p, host)
  /\ (q.level = "full" /\ DefaultPort(port))
       \/ \E p \in q.patterns : MatchesHost(p, host) /\ MatchesPort(p, port)

-----------------------------------------------------------------------------
\* ServeHTTP

Goto(c, from, to) == pc[c] = from /\ pc' = [pc EXCEPT ![c] = to]

Arrive(c) ==
  /\ serve \in {"serving", "told"}
  /\ Goto(c, "idle", "enter")
  /\ ask' \in {[ask EXCEPT ![c] = a] : a \in Asks[c]}
  /\ UNCHANGED <<table, pol, killed, tracked, shut, copying, audit, inflight, server>>

\* enter: not after closeTunnels.
Enter(c) ==
  /\ ~ closed
  /\ Goto(c, "enter", "lookup")
  /\ inflight' = inflight + 1
  /\ UNCHANGED <<table, ask, pol, killed, tracked, shut, copying, audit, server>>

TurnAway(c) ==
  /\ closed
  /\ Goto(c, "enter", "turned_away")
  /\ UNCHANGED <<table, ask, pol, killed, tracked, shut, copying, audit, inflight, server>>

\* finish, and the end of the handler.
Done(c) ==
  /\ audit' = [audit EXCEPT ![c] = @ + 1]
  /\ inflight' = inflight - 1

\* lookup; a token that is missing or nobody's and a target that cannot be parsed are denied.
Lookup(c) ==
  /\ pc[c] = "lookup"
  /\ IF ask[c].token = "known" /\ policy # NoPolicy /\ ask[c].valid
     THEN /\ Goto(c, "lookup", "decide")
          /\ pol' = [pol EXCEPT ![c] = policy]
          /\ UNCHANGED <<audit, inflight>>
     ELSE /\ Goto(c, "lookup", "gone")
          /\ Done(c)
          /\ UNCHANGED pol
  /\ UNCHANGED <<table, ask, killed, tracked, shut, copying, server>>

Decide(c) ==
  /\ pc[c] = "decide"
  /\ IF Allows(pol[c], ask[c].host, ask[c].port)
     THEN /\ Goto(c, "decide", IF ask[c].method = "CONNECT" THEN "dial" ELSE "forward")
          /\ UNCHANGED <<audit, inflight>>
     ELSE /\ Goto(c, "decide", "gone")
          /\ Done(c)
  /\ UNCHANGED <<table, ask, pol, killed, tracked, shut, copying, server>>

\* forward: the round trip and the body, which end when the connection does.
Forwarded(c) ==
  /\ Goto(c, "forward", "gone")
  /\ Done(c)
  /\ UNCHANGED <<table, ask, pol, killed, tracked, shut, copying, server>>

-----------------------------------------------------------------------------
\* tunnel

Dialed(c) ==
  /\ Goto(c, "dial", "hijack")
  /\ UNCHANGED <<table, ask, pol, killed, tracked, shut, copying, audit, inflight, server>>

\* The target does not answer, or the request's context is cancelled.
DialFails(c) ==
  /\ Goto(c, "dial", "gone")
  /\ Done(c)
  /\ UNCHANGED <<table, ask, pol, killed, tracked, shut, copying, server>>

\* A connection that srv.Close has closed can still be taken over.
Hijacked(c) ==
  /\ Goto(c, "hijack", "track")
  /\ UNCHANGED <<table, ask, pol, killed, tracked, shut, copying, audit, inflight, server>>

HijackFails(c) ==
  /\ c \in killed
  /\ Goto(c, "hijack", "gone")
  /\ Done(c)
  /\ UNCHANGED <<table, ask, pol, killed, tracked, shut, copying, server>>

\* trackConn: after closeTunnels the tunnel is given up again.
Track(c, side, to) ==
  /\ pc[c] = IF side = "client" THEN "track" ELSE "track_up"
  /\ IF closed
     THEN /\ tracked' = tracked \ {<<"client", c>>, <<"up", c>>}
          /\ pc' = [pc EXCEPT ![c] = "gone"]
          /\ Done(c)
     ELSE /\ tracked' = tracked \cup {<<side, c>>}
          /\ pc' = [pc EXCEPT ![c] = to]
          /\ UNCHANGED <<audit, inflight>>

TrackClient(c) ==
  /\ Track(c, "client", "track_up")
  /\ UNCHANGED <<table, ask, pol, killed, shut, copying, server>>

TrackUp(c) ==
  /\ Track(c, "up", "established")
  /\ UNCHANGED <<table, ask, pol, killed, shut, copying, server>>

\* The 200 is written and two goroutines copy.
Establish(c) ==
  /\ Goto(c, "established", "copy")
  /\ copying' = copying \cup {<<"client", c>>, <<"up", c>>}
  /\ UNCHANGED <<table, ask, pol, killed, tracked, shut, audit, inflight, server>>

EstablishFails(c) ==
  /\ Goto(c, "established", "gone")
  /\ tracked' = tracked \ {<<"client", c>>, <<"up", c>>}
  /\ Done(c)
  /\ UNCHANGED <<table, ask, pol, killed, shut, copying, server>>

\* A peer ends its direction.
PeerEnds(c, side) ==
  /\ <<side, c>> \in copying
  /\ copying' = copying \ {<<side, c>>}
  /\ UNCHANGED <<table, pc, ask, pol, killed, tracked, shut, audit, inflight, server>>

\* A direction ends because a connection of the tunnel was closed.
PipeEnds(c, side) ==
  /\ <<side, c>> \in copying
  /\ shut \cap {<<"client", c>>, <<"up", c>>} # {}
  /\ copying' = copying \ {<<side, c>>}
  /\ UNCHANGED <<table, pc, ask, pol, killed, tracked, shut, audit, inflight, server>>

\* wg.Wait, finish, the deferred closing.
TunnelEnds(c) ==
  /\ copying \cap {<<"client", c>>, <<"up", c>>} = {}
  /\ Goto(c, "copy", "gone")
  /\ tracked' = tracked \ {<<"client", c>>, <<"up", c>>}
  /\ Done(c)
  /\ UNCHANGED <<table, ask, pol, killed, shut, copying, server>>

-----------------------------------------------------------------------------
\* Serve

Cancel ==
  /\ serve = "serving"
  /\ serve' = "told"
  /\ UNCHANGED <<table, pc, ask, pol, killed, tracked, shut, copying, audit, closed, inflight>>

\* srv.Close: the listener and every connection that is not hijacked.
CloseServer ==
  /\ serve = "told"
  /\ serve' = "closing"
  /\ killed' = {c \in Conns : pc[c] \notin {"idle", "gone", "turned_away", "track", "track_up", "established", "copy"}}
  /\ UNCHANGED <<table, pc, ask, pol, tracked, shut, copying, audit, closed, inflight>>

CloseTunnels ==
  /\ serve = "closing"
  /\ serve' = "waiting"
  /\ closed' = TRUE
  /\ shut' = tracked
  /\ UNCHANGED <<table, pc, ask, pol, killed, tracked, copying, audit, inflight>>

\* inflight.Wait
Return ==
  /\ serve = "waiting"
  /\ inflight = 0
  /\ serve' = "returned"
  /\ UNCHANGED <<table, pc, ask, pol, killed, tracked, shut, copying, audit, closed, inflight>>

Handler(c) ==
  \/ Enter(c) \/ TurnAway(c) \/ Lookup(c) \/ Decide(c)
  \/ Forwarded(c) \/ Dialed(c) \/ DialFails(c) \/ Hijacked(c) \/ HijackFails(c)
  \/ TrackClient(c) \/ TrackUp(c) \/ Establish(c) \/ EstablishFails(c) \/ TunnelEnds(c)

ServeSteps == CloseServer \/ CloseTunnels \/ Return

Next ==
  \/ \E raw \in Policies : Register(raw) \/ RegisterRefused(raw)
  \/ Unregister
  \/ \E c \in Conns :
       Arrive(c) \/ Handler(c) \/ \E side \in {"client", "up"} : PeerEnds(c, side) \/ PipeEnds(c, side)
  \/ Cancel \/ ServeSteps

\* The goroutines run; a round trip and a dial end, by their timeouts or with the
\* request's context.  Nobody has to end a tunnel.
Work ==
  \/ ServeSteps
  \/ \E c \in Conns : Handler(c) \/ \E side \in {"client", "up"} : PipeEnds(c, side)

Spec == Init /\ [][Next]_vars /\ WF_vars(Work)

-----------------------------------------------------------------------------
Inside == {c \in Conns : pc[c] \notin {"idle", "enter", "gone", "turned_away"}}

\* The state is well formed: the wait group counts the handlers that are inside, and
\* only their connections are in the table.
TypeOK ==
  /\ policy.level \in {"absent", "none", "trusted", "custom", "full"}
  /\ changes \in 0 .. MaxChanges
  /\ inflight = Cardinality(Inside)
  /\ copying \subseteq tracked
  /\ tracked \subseteq {"client", "up"} \X {c \in Conns : pc[c] \in {"track_up", "established", "copy"}}
  /\ serve \in {"serving", "told", "closing", "waiting", "returned"}

\* Whatever is dialed or forwarded was granted by one pattern for host and port
\* alike, or by level full on a default port; and never a reserved host, whatever
\* was registered before or is registered since (policy.go compile, decide).
DialedIsGranted ==
  \A c \in Conns :
    pc[c] \in {"dial", "forward", "hijack", "track", "track_up", "established", "copy"} =>
      /\ ask[c].token = "known"
      /\ ask[c].host \notin Reserved
      /\ \/ pol[c].level = "full" /\ ask[c].port \in {80, 443}
         \/ /\ pol[c].level \in {"trusted", "custom", "full"}
            /\ \E p \in pol[c].patterns :
                 MatchesHost(p, ask[c].host) /\ MatchesPort(p, ask[c].port)

\* Compiled policies grant no reserved host by themselves: the table would stay safe
\* without the check in decide (policy.go compile; docs/p1/egress.md keeps both).
TableIsSafe == \A p \in policy.patterns : \A r \in Reserved : ~ MatchesHost(p, r)

\* A request that was let in leaves exactly one line in the audit log, whichever way
\* it ends, and a request that is turned away leaves none (egress.go finish, tunnel.go).
AuditedOnce == \A c \in Conns : audit[c] = (IF pc[c] = "gone" THEN 1 ELSE 0)

\* When Serve has returned no handler is inside, no tunnel is in the table and
\* nobody copies (egress.go Serve, enter, trackConn).
ReturnedIsQuiet == serve = "returned" => Inside = {} /\ tracked = {} /\ copying = {}

\* A Serve that is told to stop returns, whoever dials, hijacks or holds a tunnel
\* open at that moment (egress.go Serve, closeTunnels).
Settled == serve \in {"serving", "returned"}
Settles == <>[]Settled
=============================================================================
