------------------------------ MODULE EdgeLink ------------------------------
(***************************************************************************)
(* core's side of the socket to edge: core/crates/edge-client.  The gate   *)
(* (gate.rs) compares the contract version of edge with core's own and     *)
(* bars every call on a mismatch.  Three tasks ask edge for its version:   *)
(* the probe, which dials with a backoff, the detached check that a        *)
(* successful call starts while nothing has been compared yet, and         *)
(* build_app during takeoff (app.rs).  Calls themselves go over a lazy     *)
(* channel that redials on its own.  edge is another process, which stops  *)
(* and starts, with either version, whenever it likes.                     *)
(*                                                                         *)
(* A request that is on its way when edge stops fails; an answer core has  *)
(* received but not yet looked at may be older than the edge that now      *)
(* runs.  The flag `connected` has no reader in the product and is left    *)
(* out, and so is the length of the backoff.                               *)
(***************************************************************************)
EXTENDS Naturals

CONSTANTS
  Calls,      \* callers of platform and sandbox RPCs, each calling again and again
  Attempts,   \* EDGE_STATUS_ATTEMPTS of app.rs
  MaxStarts,  \* bound: how often edge starts
  MaxFaults   \* bound: requests that fail although edge runs

VARIABLES
  edge,     \* "down", or the contract version of the edge that runs
  starts,   \* how often edge has started
  gate,     \* ContractState
  probe,    \* the probe; `probing` is set unless it is "off"
  verify,   \* the detached check; `verifying` is set unless it is "off"
  takeoff,  \* where build_app and EdgePlatform.start are
  tries,    \* failed attempts of check_contract_version
  ask,      \* the GetStatus of each asker
  call,     \* the RPC of each caller; "caps" is start()'s own
  caps,     \* whether the capabilities of edge are cached
  faults    \* requests that failed although edge ran

vars == <<edge, starts, gate, probe, verify, takeoff, tries, ask, call, caps, faults>>

Versions == {"good", "bad"}
Errors == {"unavailable", "other"}
Askers == {"probe", "verify", "takeoff"}
Callers == Calls \cup {"caps"}

\* ContractGate::observe: an answer opens or closes the gate, whatever it was.
Observed(version) == IF version = "good" THEN "ok" ELSE "mismatch"

\* Link::probe and verify_contract_detached start their task unless it runs.
ProbeWoken == IF probe = "off" THEN "dial" ELSE probe
VerifyWoken == IF gate = "unverified" /\ verify = "off" THEN "ask" ELSE verify

\* Link::note: only these errors wake the probe.
ProbeAfter(result) == IF result = "unavailable" THEN ProbeWoken ELSE probe

Init ==
  /\ edge \in Versions \cup {"down"}
  /\ starts = 0
  /\ gate = "unverified"
  /\ probe = "dial"                \* EdgeClient::connect starts the probe
  /\ verify = "off"
  /\ takeoff = "ask"
  /\ tries = 0
  /\ ask = [a \in Askers |-> "none"]
  /\ call = [c \in Callers |-> "idle"]
  /\ caps = FALSE
  /\ faults = 0

-----------------------------------------------------------------------------
\* The process aite-edge.

EdgeStarts ==
  /\ edge = "down"
  /\ starts < MaxStarts
  /\ edge' \in Versions
  /\ starts' = starts + 1
  /\ UNCHANGED <<gate, probe, verify, takeoff, tries, ask, call, caps, faults>>

\* What edge had not answered fails, as "unavailable" or as a transport error.
EdgeStops ==
  /\ edge # "down"
  /\ edge' = "down"
  /\ \E e \in Errors :
       /\ ask' = [a \in Askers |-> IF ask[a] = "asked" THEN e ELSE ask[a]]
       /\ call' = [c \in Callers |-> IF call[c] = "sent" THEN e ELSE call[c]]
  /\ UNCHANGED <<starts, gate, probe, verify, takeoff, tries, caps, faults>>

\* A request without an edge fails at the dial; with one it may fail too.
MayFail ==
  \/ edge = "down" /\ faults' = faults
  \/ edge # "down" /\ faults < MaxFaults /\ faults' = faults + 1

AnswerStatus(a) ==
  /\ ask[a] = "asked"
  /\ edge # "down"
  /\ ask' = [ask EXCEPT ![a] = edge]
  /\ UNCHANGED <<edge, starts, gate, probe, verify, takeoff, tries, call, caps, faults>>

FailStatus(a) ==
  /\ ask[a] = "asked"
  /\ MayFail
  /\ \E e \in Errors : ask' = [ask EXCEPT ![a] = e]
  /\ UNCHANGED <<edge, starts, gate, probe, verify, takeoff, tries, call, caps>>

AnswerCall(c) ==
  /\ call[c] = "sent"
  /\ edge # "down"
  /\ call' = [call EXCEPT ![c] = "ok"]
  /\ UNCHANGED <<edge, starts, gate, probe, verify, takeoff, tries, ask, caps, faults>>

FailCall(c) ==
  /\ call[c] = "sent"
  /\ MayFail
  /\ \E e \in Errors : call' = [call EXCEPT ![c] = e]
  /\ UNCHANGED <<edge, starts, gate, probe, verify, takeoff, tries, ask, caps>>

-----------------------------------------------------------------------------
\* The probe: dial until edge is there, compare once, stop.

Dial ==
  /\ probe = "dial"
  /\ \/ edge = "down" /\ probe' = "sleep" /\ UNCHANGED ask
     \/ edge # "down" /\ probe' = "asking" /\ ask' = [ask EXCEPT !["probe"] = "asked"]
  /\ UNCHANGED <<edge, starts, gate, verify, takeoff, tries, call, caps, faults>>

Redial ==
  /\ probe = "sleep"
  /\ probe' = "dial"
  /\ UNCHANGED <<edge, starts, gate, verify, takeoff, tries, ask, call, caps, faults>>

\* verify_contract for its two askers: an answer is observed, a failure is
\* logged, and the flag of the asker is still set.
Verified(a) ==
  /\ ask[a] \in Versions \cup Errors
  /\ gate' = IF ask[a] \in Versions THEN Observed(ask[a]) ELSE gate
  /\ ask' = [ask EXCEPT ![a] = "none"]

ProbeVerified ==
  /\ Verified("probe")
  /\ probe' = "ending"
  /\ UNCHANGED <<edge, starts, verify, takeoff, tries, call, caps, faults>>

ProbeEnds ==
  /\ probe = "ending"
  /\ probe' = "off"
  /\ UNCHANGED <<edge, starts, gate, verify, takeoff, tries, ask, call, caps, faults>>

\* The detached check.
VerifyAsks ==
  /\ verify = "ask"
  /\ verify' = "asking"
  /\ ask' = [ask EXCEPT !["verify"] = "asked"]
  /\ UNCHANGED <<edge, starts, gate, probe, takeoff, tries, call, caps, faults>>

VerifyVerified ==
  /\ Verified("verify")
  /\ verify' = "ending"
  /\ UNCHANGED <<edge, starts, probe, takeoff, tries, call, caps, faults>>

VerifyEnds ==
  /\ verify = "ending"
  /\ verify' = "off"
  /\ UNCHANGED <<edge, starts, gate, probe, takeoff, tries, ask, call, caps, faults>>

-----------------------------------------------------------------------------
\* Takeoff: check_contract_version, then EdgePlatform.start.

TakeoffAsks ==
  /\ takeoff = "ask"
  /\ takeoff' = "asking"
  /\ ask' = [ask EXCEPT !["takeoff"] = "asked"]
  /\ UNCHANGED <<edge, starts, gate, probe, verify, tries, call, caps, faults>>

\* EdgeClient::status: note_ok looks at the gate before note_contract sets it.
TakeoffAnswered ==
  /\ ask["takeoff"] = "good"
  /\ verify' = VerifyWoken
  /\ gate' = Observed("good")
  /\ ask' = [ask EXCEPT !["takeoff"] = "none"]
  /\ takeoff' = "start"
  /\ UNCHANGED <<edge, starts, probe, tries, call, caps, faults>>

\* A mismatch refuses to take off, and the process exits with all its tasks.
TakeoffRefused ==
  /\ ask["takeoff"] = "bad"
  /\ takeoff' = "refused"
  /\ gate' = Observed("bad")
  /\ probe' = "off"
  /\ verify' = "off"
  /\ ask' = [a \in Askers |-> "none"]
  /\ UNCHANGED <<edge, starts, tries, call, caps, faults>>

\* An edge that does not answer is no reason not to take off.
TakeoffFailed ==
  /\ ask["takeoff"] \in Errors
  /\ probe' = ProbeAfter(ask["takeoff"])
  /\ ask' = [ask EXCEPT !["takeoff"] = "none"]
  /\ tries' = tries + 1
  /\ takeoff' = IF tries + 1 < Attempts THEN "ask" ELSE "start"
  /\ UNCHANGED <<edge, starts, gate, verify, call, caps, faults>>

\* start() asks for the capabilities once; a failure is a warning.
StartAsks ==
  /\ takeoff = "start"
  /\ \/ /\ gate = "mismatch"
        /\ probe' = ProbeWoken
        /\ takeoff' = "flying"
        /\ UNCHANGED call
     \/ /\ gate # "mismatch"
        /\ call' = [call EXCEPT !["caps"] = "sent"]
        /\ takeoff' = "starting"
        /\ UNCHANGED probe
  /\ UNCHANGED <<edge, starts, gate, verify, tries, ask, caps, faults>>

-----------------------------------------------------------------------------
\* Calls.

\* platform_client and sandbox_client: a barred call fails here and wakes the
\* probe, the one way back from a mismatch.
Barred(c) ==
  /\ takeoff = "flying" /\ call[c] = "idle"
  /\ gate = "mismatch"
  /\ probe' = ProbeWoken
  /\ UNCHANGED <<edge, starts, gate, verify, takeoff, tries, ask, call, caps, faults>>

Send(c) ==
  /\ takeoff = "flying" /\ call[c] = "idle"
  /\ gate # "mismatch"
  /\ call' = [call EXCEPT ![c] = "sent"]
  /\ UNCHANGED <<edge, starts, gate, probe, verify, takeoff, tries, ask, caps, faults>>

\* note_ok.
Succeeded(c) ==
  /\ call[c] = "ok"
  /\ call' = [call EXCEPT ![c] = "idle"]
  /\ verify' = VerifyWoken
  /\ caps' = (caps \/ c = "caps")
  /\ takeoff' = IF c = "caps" THEN "flying" ELSE takeoff
  /\ UNCHANGED <<edge, starts, gate, probe, tries, ask, faults>>

\* platform_error and sandbox_error.
Failed(c) ==
  /\ call[c] \in Errors
  /\ call' = [call EXCEPT ![c] = "idle"]
  /\ probe' = ProbeAfter(call[c])
  /\ takeoff' = IF c = "caps" THEN "flying" ELSE takeoff
  /\ UNCHANGED <<edge, starts, gate, verify, tries, ask, caps, faults>>

-----------------------------------------------------------------------------

\* The tasks of core, each with the request it has under way.
Answered(a) == AnswerStatus(a) \/ FailStatus(a)
Probing == Dial \/ Redial \/ ProbeVerified \/ ProbeEnds \/ Answered("probe")
Verifying == VerifyAsks \/ VerifyVerified \/ VerifyEnds \/ Answered("verify")
Rpc(c) == AnswerCall(c) \/ FailCall(c) \/ Succeeded(c) \/ Failed(c)
TakingOff ==
  \/ TakeoffAsks \/ TakeoffAnswered \/ TakeoffRefused \/ TakeoffFailed \/ StartAsks
  \/ Answered("takeoff") \/ Rpc("caps")
Calling(c) == Barred(c) \/ Send(c) \/ Rpc(c)

Next ==
  \/ EdgeStarts \/ EdgeStops
  \/ Probing \/ Verifying \/ TakingOff
  \/ \E c \in Calls : Calling(c)

\* tokio runs every task that can run; a request is answered or fails; core
\* keeps calling (control/src/reaper.rs asks edge to reap idle sandboxes
\* every minute).  Nothing obliges edge to start or to stop.
Spec ==
  /\ Init /\ [][Next]_vars
  /\ WF_vars(Probing) /\ WF_vars(Verifying) /\ WF_vars(TakingOff)
  /\ \A c \in Calls : WF_vars(Calling(c))

-----------------------------------------------------------------------------

\* Types, and each asker waits exactly while its request is out.
TypeOK ==
  /\ edge \in Versions \cup {"down"}
  /\ gate \in {"unverified", "ok", "mismatch"}
  /\ probe \in {"off", "dial", "sleep", "asking", "ending"}
  /\ verify \in {"off", "ask", "asking", "ending"}
  /\ takeoff \in {"ask", "asking", "start", "starting", "flying", "refused"}
  /\ ask \in [Askers -> {"none", "asked"} \cup Versions \cup Errors]
  /\ call \in [Callers -> {"idle", "sent", "ok"} \cup Errors]
  /\ caps \in BOOLEAN
  /\ tries \in 0..Attempts /\ starts \in 0..MaxStarts /\ faults \in 0..MaxFaults
  /\ (probe = "asking") = (ask["probe"] # "none")
  /\ (verify = "asking") = (ask["verify"] # "none")
  /\ (takeoff = "asking") = (ask["takeoff"] # "none")
  /\ (takeoff = "starting") = (call["caps"] # "idle")

\* What it comes to, as edge starts and stops only so often.  With an edge of
\* the right version the gate opens for good without a restart of core, whatever
\* the gate saw before and however late the answers of earlier edges are looked
\* at (gate.rs: 「人一把 edge 换回对的版本就自己恢复」).  Core does not go on
\* working with an edge it has not compared, also when the takeoff could not
\* compare (link.rs, note_ok).  And takeoff comes to an end whether edge is
\* there, comes, goes or fails (app.rs, check_contract_version).
Settled ==
  \/ takeoff = "refused"
  \/ /\ takeoff = "flying"
     /\ edge = "good" => gate = "ok"
     /\ edge # "down" => gate # "unverified"
Settles == <>[]Settled

\* Not kept.  The capabilities are cached once edge has been up and called for
\* long enough: platform.rs, start(): 「能力表下次再问」.
CapabilitiesAreAsked ==
  <>[](edge = "good") => <>(caps \/ takeoff = "refused")

\* Not kept.  app.rs: 「后台探针每重新连上一次就比一次，比出不一致就闸断」.
BadEdgeIsBarred ==
  <>[](edge = "bad") => <>(gate = "mismatch" \/ takeoff = "refused")

=============================================================================
