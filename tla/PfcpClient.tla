----------------------------- MODULE PfcpClient -----------------------------
(***************************************************************************)
(* The SMF end of N4: the PFCP transaction engine with its T1/N1           *)
(* retransmission, the association with its restart detection, the         *)
(* association maintenance task, and the session requests that the SM      *)
(* context handlers run through the engine.                                *)
(*                                                                         *)
(* A handler that awaits a response is split where it awaits: the step     *)
(* that sends, the T1 steps, and the step that continues with the response *)
(* or with the exhaustion.  The continuation has no further await before   *)
(* it updates the SMF context, so it is one step with the arrival.         *)
(***************************************************************************)
EXTENDS N4Net

CONSTANT MaxSmfRts      \* bound: incarnations of an SMF
ASSUME MaxSmfRtsAssumption == MaxSmfRts \in Nat \ {0}

VARIABLES
    status,         \* process: "run"; "stop" and "deaf" while the association is
                    \* released at shutdown; "down"
    smfRts,         \* recovery_time_stamp of the running incarnation
    associated,     \* AssociationState.associated
    peerRts,        \* AssociationState.peer_recovery_time_stamp, 0 for None
    phase,          \* association maintenance task: next duty, "assoc" or "hb"
    reqs,           \* requests awaiting a response (the pending tables)
    ctx,            \* SM context: "free", "est", "up", "rel", "done"
    held            \* pfcp_sessions: SEID stored for the context, 0 for none

clientVars == <<status, smfRts, associated, peerRts, phase, reqs, ctx, held>>

NoSeid == [seid |-> 0, inc |-> 0]
NoSessions == [r \in Ref |-> NoSeid]

PfcpClientTypeOK ==
    /\ status \in [Smf -> {"run", "stop", "deaf", "down"}]
    /\ smfRts \in [Smf -> 1 .. MaxSmfRts]
    /\ associated \in [Smf -> BOOLEAN]
    /\ peerRts \in [Smf -> Nat]
    /\ phase \in [Smf -> {"assoc", "hb"}]
    /\ reqs \subseteq Datagram
    /\ ctx \in [Smf -> [Ref -> {"free", "est", "up", "rel", "done"}]]
    /\ held \in [Smf -> [Ref -> [seid : Nat, inc : Nat]]]

PfcpClientInit ==
    /\ status = [s \in Smf |-> "run"]
    /\ smfRts = [s \in Smf |-> 1]
    /\ associated = [s \in Smf |-> FALSE]
    /\ peerRts = [s \in Smf |-> 0]
    /\ phase = [s \in Smf |-> "assoc"]
    /\ reqs = {}
    /\ ctx = [s \in Smf |-> [r \in Ref |-> "free"]]
    /\ held = [s \in Smf |-> NoSessions]

-----------------------------------------------------------------------------
(* The transaction engine: PfcpClient::request.                            *)

BugAnySeq(s, q) == TRUE

(***************************************************************************)
(* PFCP_SEQ counts through 24 bits.  A number is taken again only after    *)
(* 2^24 further requests, when no datagram with it is left in flight.      *)
(***************************************************************************)
FreshSeq(s, q) ==
    \A m \in net \cup reqs : m.smf = s => m.seq # q

(***************************************************************************)
(* First transmission: register the response slot, then send.              *)
(***************************************************************************)
Transmit(m) ==
    /\ reqs' = reqs \cup {m}
    /\ net' = Sent(net, m)

BugOneTooMany(s) ==
    \E r \in reqs :
        /\ r.smf = s
        /\ r.att <= N1 + 1
        /\ reqs' = (reqs \ {r}) \cup {[r EXCEPT !.att = @ + 1]}
        /\ net' = Sent(net, [r EXCEPT !.att = @ + 1])
        /\ UNCHANGED <<status, smfRts, associated, peerRts, phase, ctx, held>>

BugUncounted(s) ==
    \E r \in reqs :
        /\ r.smf = s
        /\ r.att <= N1
        /\ net' = Sent(net, r)
        /\ UNCHANGED clientVars

(***************************************************************************)
(* T1 expired with retransmissions left: the identical datagram again.     *)
(***************************************************************************)
T1Retransmit(s) ==
    \E r \in reqs :
        /\ r.smf = s
        /\ r.att <= N1
        /\ LET again == [r EXCEPT !.att = @ + 1] IN
              /\ reqs' = (reqs \ {r}) \cup {again}
              /\ net' = Sent(net, again)
        /\ UNCHANGED <<status, smfRts, associated, peerRts, phase, ctx, held>>

(***************************************************************************)
(* The receive loop ends after the datagram that it is waiting for when    *)
(* the shutdown flag is set, or after a second of silence.                 *)
(***************************************************************************)
Listening(s) == status[s] \in {"run", "stop"}
AfterDatagram(s) ==
    [status EXCEPT ![s] = IF @ = "stop" THEN "deaf" ELSE @]

ListenerStops(s) ==
    /\ status[s] = "stop"
    /\ status' = [status EXCEPT ![s] = "deaf"]
    /\ UNCHANGED <<net, smfRts, associated, peerRts, phase, reqs, ctx, held>>

NodeRequestPending(s) == \E r \in reqs : r.smf = s /\ r.kind \in NodeRequests

-----------------------------------------------------------------------------
(* The association: check_peer_restart and teardown_association.           *)

Restarted(s, rts) == peerRts[s] # 0 /\ peerRts[s] # rts

BugStaysAssociated(s, rts) ==
    /\ peerRts' = [peerRts EXCEPT ![s] = IF Restarted(s, rts) THEN rts ELSE @]
    /\ held' = [held EXCEPT ![s] = IF Restarted(s, rts) THEN NoSessions ELSE @]
    /\ UNCHANGED associated

BugKeepsSessions(s, rts) ==
    /\ associated' = [associated EXCEPT ![s] = @ /\ ~Restarted(s, rts)]
    /\ peerRts' = [peerRts EXCEPT ![s] = IF Restarted(s, rts) THEN rts ELSE @]
    /\ UNCHANGED held

(***************************************************************************)
(* A changed Recovery Time Stamp tears the association down, flushes every *)
(* stored PFCP session and remembers the new incarnation.                  *)
(***************************************************************************)
CheckPeerRestart(s, rts) ==
    IF Restarted(s, rts)
    THEN /\ associated' = [associated EXCEPT ![s] = FALSE]
         /\ peerRts' = [peerRts EXCEPT ![s] = rts]
         /\ held' = [held EXCEPT ![s] = NoSessions]
    ELSE UNCHANGED <<associated, peerRts, held>>

(***************************************************************************)
(* The maintenance task, first duty: associate when not associated.        *)
(***************************************************************************)
MaintainAssociate(s) ==
    /\ status[s] = "run"
    /\ phase[s] = "assoc"
    /\ ~NodeRequestPending(s)
    /\ IF associated[s]
       THEN /\ phase' = [phase EXCEPT ![s] = "hb"]
            /\ UNCHANGED <<reqs, net>>
       ELSE /\ \E q \in SeqNo :
                  /\ FreshSeq(s, q)
                  /\ Transmit([Request("SetupReq", s, q) EXCEPT !.rts = smfRts[s]])
            /\ UNCHANGED phase
    /\ UNCHANGED <<status, smfRts, associated, peerRts, ctx, held>>

(***************************************************************************)
(* Second duty, a heartbeat period later: heartbeat when associated.       *)
(***************************************************************************)
MaintainHeartbeat(s) ==
    /\ status[s] = "run"
    /\ phase[s] = "hb"
    /\ ~NodeRequestPending(s)
    /\ IF associated[s]
       THEN /\ \E q \in SeqNo :
                  /\ FreshSeq(s, q)
                  /\ Transmit([Request("HbReq", s, q) EXCEPT !.rts = smfRts[s]])
            /\ UNCHANGED phase
       ELSE /\ phase' = [phase EXCEPT ![s] = "assoc"]
            /\ UNCHANGED <<reqs, net>>
    /\ UNCHANGED <<status, smfRts, associated, peerRts, ctx, held>>

(***************************************************************************)
(* The response m completes request r: the listener removes the pending    *)
(* entry with the sequence number of m, whatever the message type is.      *)
(***************************************************************************)
Completes(m, r) ==
    /\ m.kind \in SmfResponses
    /\ Listening(m.smf)
    /\ r.smf = m.smf
    /\ r.seq = m.seq
    /\ reqs' = reqs \ {r}
    /\ net' = net \ {m}
    /\ status' = AfterDatagram(m.smf)

(***************************************************************************)
(* A response nobody waits for any more is consumed without effect.        *)
(***************************************************************************)
DropLateResponse(s) ==
    \E m \in net :
        /\ m.smf = s
        /\ m.kind \in SmfResponses
        /\ Listening(s)
        /\ \A r \in reqs : r.smf = s => r.seq # m.seq
        /\ net' = net \ {m}
        /\ status' = AfterDatagram(s)
        /\ UNCHANGED <<smfRts, associated, peerRts, phase, reqs, ctx, held>>

(***************************************************************************)
(* associate(): restart detection first, then the association is up.       *)
(***************************************************************************)
OnSetupResponse(s) ==
    \E m \in net, r \in reqs :
        /\ m.smf = s
        /\ r.kind = "SetupReq"
        /\ Completes(m, r)
        /\ associated' = [associated EXCEPT ![s] = TRUE]
        /\ peerRts' = [peerRts EXCEPT ![s] = m.rts]
        /\ held' = IF Restarted(s, m.rts)
                   THEN [held EXCEPT ![s] = NoSessions]
                   ELSE held
        /\ phase' = [phase EXCEPT ![s] = "hb"]
        /\ UNCHANGED <<smfRts, ctx>>

(***************************************************************************)
(* heartbeat_once(): the peer answered; has it restarted meanwhile?        *)
(***************************************************************************)
OnHeartbeatResponse(s) ==
    \E m \in net, r \in reqs :
        /\ m.smf = s
        /\ r.kind = "HbReq"
        /\ Completes(m, r)
        /\ CheckPeerRestart(s, m.rts)
        /\ phase' = [phase EXCEPT ![s] = "assoc"]
        /\ UNCHANGED <<smfRts, ctx>>

(***************************************************************************)
(* on_datagram: a heartbeat of the UPF.  Restart detection, then answer.   *)
(***************************************************************************)
OnHeartbeatRequest(s) ==
    \E m \in net :
        /\ m.kind = "UHbReq"
        /\ m.smf = s
        /\ Listening(s)
        /\ CheckPeerRestart(s, m.rts)
        /\ net' = Sent(net \ {m}, [m EXCEPT !.kind = "UHbRsp", !.rts = smfRts[s]])
        /\ status' = AfterDatagram(s)
        /\ UNCHANGED <<smfRts, phase, reqs, ctx>>

(***************************************************************************)
(* T1 expired.  N1 exhausted: whatever was requested, the association is   *)
(* marked down.  A retransmission that the socket refuses ends the request *)
(* too, and leaves the association alone (a first transmission that is     *)
(* refused looks like one that was lost).                                  *)
(***************************************************************************)
RequestFails(s, r) ==
    /\ reqs' = reqs \ {r}
    /\ \/ r.att = N1 + 1 /\ associated' = [associated EXCEPT ![s] = FALSE]
       \/ r.att <= N1 /\ UNCHANGED associated

(***************************************************************************)
(* The maintenance task carries on with its next duty.                     *)
(***************************************************************************)
NodeRequestFails(s) ==
    \E r \in reqs :
        /\ r.smf = s
        /\ r.kind \in {"SetupReq", "HbReq"}
        /\ RequestFails(s, r)
        /\ phase' = [phase EXCEPT ![s] = IF r.kind = "SetupReq" THEN "hb" ELSE "assoc"]
        /\ UNCHANGED <<net, status, smfRts, peerRts, ctx, held>>

-----------------------------------------------------------------------------
(* The session requests of the SM context handlers.                        *)

SessionRequest(kind, s, q, r) ==
    [Request(kind, s, q) EXCEPT !.ref = r, !.seid = held[s][r].seid,
                                !.inc = held[s][r].inc]

(***************************************************************************)
(* handle_sm_context_create up to pfcp_session_establish: an association   *)
(* is required.                                                            *)
(***************************************************************************)
SmContextCreate(s, r) ==
    /\ status[s] # "down"
    /\ ctx[s][r] = "free"
    /\ associated[s]
    /\ \E q \in SeqNo :
          /\ FreshSeq(s, q)
          /\ Transmit([Request("EstReq", s, q) EXCEPT !.ref = r])
    /\ ctx' = [ctx EXCEPT ![s][r] = "est"]
    /\ UNCHANGED <<status, smfRts, associated, peerRts, phase, held>>

(***************************************************************************)
(* The establishment response: store the SEID, or give the context up.     *)
(***************************************************************************)
OnEstablishmentResponse(s) ==
    \E m \in net, r \in reqs :
        /\ m.smf = s
        /\ r.kind = "EstReq"
        /\ Completes(m, r)
        /\ IF m.ok
           THEN /\ held' = [held EXCEPT ![s][r.ref] = [seid |-> m.seid, inc |-> m.inc]]
                /\ ctx' = [ctx EXCEPT ![s][r.ref] = "up"]
           ELSE /\ ctx' = [ctx EXCEPT ![s][r.ref] = "done"]
                /\ UNCHANGED held
        /\ UNCHANGED <<smfRts, associated, peerRts, phase>>

(***************************************************************************)
(* handle_sm_context_update and handle_sm_policy_notify: a modification of *)
(* the stored session.  Activating the downlink FAR asks for an            *)
(* association; deactivating it and updating the QER do not.               *)
(***************************************************************************)
SmContextUpdate(s, r, what) ==
    /\ status[s] # "down"
    /\ held[s][r].seid # 0
    /\ what = "activate" => associated[s]
    /\ \E q \in SeqNo :
          /\ FreshSeq(s, q)
          /\ Transmit([SessionRequest("ModReq", s, q, r) EXCEPT
                          !.tun = (what = "activate")])
    /\ UNCHANGED <<status, smfRts, associated, peerRts, phase, ctx, held>>

OnModificationResponse(s) ==
    \E m \in net, r \in reqs :
        /\ m.smf = s
        /\ r.kind = "ModReq"
        /\ Completes(m, r)
        /\ UNCHANGED <<smfRts, associated, peerRts, phase, ctx, held>>

(***************************************************************************)
(* handle_sm_context_release, by the AMF or by the PCF, and possibly twice *)
(* for one context: without a stored SEID or an association nothing is     *)
(* sent and the context just goes.                                         *)
(***************************************************************************)
SmContextRelease(s, r) ==
    /\ status[s] # "down"
    /\ ctx[s][r] \in {"up", "rel"}
    /\ IF held[s][r].seid # 0 /\ associated[s]
       THEN /\ \E q \in SeqNo :
                  /\ FreshSeq(s, q)
                  /\ Transmit(SessionRequest("DelReq", s, q, r))
            /\ ctx' = [ctx EXCEPT ![s][r] = "rel"]
            /\ UNCHANGED held
       ELSE /\ ctx' = [ctx EXCEPT ![s][r] = "done"]
            /\ held' = [held EXCEPT ![s][r] = NoSeid]
            /\ UNCHANGED <<reqs, net>>
    /\ UNCHANGED <<status, smfRts, associated, peerRts, phase>>

(***************************************************************************)
(* The deletion response: the context goes, whatever the Cause says.       *)
(***************************************************************************)
OnDeletionResponse(s) ==
    \E m \in net, r \in reqs :
        /\ m.smf = s
        /\ r.kind = "DelReq"
        /\ Completes(m, r)
        /\ ctx' = [ctx EXCEPT ![s][r.ref] = "done"]
        /\ held' = [held EXCEPT ![s][r.ref] = NoSeid]
        /\ UNCHANGED <<smfRts, associated, peerRts, phase>>

(***************************************************************************)
(* Failure of a session request.  A create is rejected, a release goes  *)
(* on without the UPF, an update is answered 504.                          *)
(***************************************************************************)
SessionRequestFails(s) ==
    \E r \in reqs :
        /\ r.smf = s
        /\ r.kind \in SessionRequests
        /\ RequestFails(s, r)
        /\ ctx' = IF r.kind = "ModReq" THEN ctx
                  ELSE [ctx EXCEPT ![s][r.ref] = "done"]
        /\ held' = IF r.kind = "DelReq"
                   THEN [held EXCEPT ![s][r.ref] = NoSeid]
                   ELSE held
        /\ UNCHANGED <<net, status, smfRts, peerRts, phase>>

-----------------------------------------------------------------------------
(* Shutdown, crash and start of the SMF process.                           *)

(***************************************************************************)
(* What is left of an SMF process that is gone: nothing.                   *)
(***************************************************************************)
ProcessGone(s) ==
    /\ status' = [status EXCEPT ![s] = "down"]
    /\ associated' = [associated EXCEPT ![s] = FALSE]
    /\ peerRts' = [peerRts EXCEPT ![s] = 0]
    /\ phase' = [phase EXCEPT ![s] = "assoc"]
    /\ reqs' = {r \in reqs : r.smf # s}
    /\ ctx' = [ctx EXCEPT ![s] = [r \in Ref |-> "free"]]
    /\ held' = [held EXCEPT ![s] = NoSessions]
    /\ UNCHANGED smfRts

(***************************************************************************)
(* Graceful shutdown: the maintenance task is aborted and, when there is   *)
(* an association, it is released before the process ends.                 *)
(***************************************************************************)
Shutdown(s) ==
    /\ status[s] = "run"
    /\ IF associated[s]
       THEN /\ status' = [status EXCEPT ![s] = "stop"]
            /\ \E q \in SeqNo :
                  LET m == Request("RelReq", s, q) IN
                  /\ FreshSeq(s, q)
                  /\ reqs' = {r \in reqs : r.smf = s => r.kind \notin NodeRequests}
                                \cup {m}
                  /\ net' = Sent(net, m)
            /\ UNCHANGED <<smfRts, associated, peerRts, phase, ctx, held>>
       ELSE /\ ProcessGone(s)
            /\ UNCHANGED net

(***************************************************************************)
(* release_association ends, answered or not, and the process exits.       *)
(***************************************************************************)
ReleaseDone(s) ==
    \E r \in reqs :
        /\ r.smf = s
        /\ r.kind = "RelReq"
        /\ \/ UNCHANGED net
           \/ \E m \in net :
                 /\ Listening(s)
                 /\ m.kind \in SmfResponses
                 /\ m.smf = s
                 /\ m.seq = r.seq
                 /\ net' = net \ {m}
        /\ ProcessGone(s)

Crash(s) ==
    /\ status[s] # "down"
    /\ ProcessGone(s)
    /\ UNCHANGED net

(***************************************************************************)
(* A new incarnation.  Starting takes longer than a datagram lives.        *)
(***************************************************************************)
Start(s) ==
    /\ status[s] = "down"
    /\ smfRts[s] < MaxSmfRts
    /\ status' = [status EXCEPT ![s] = "run"]
    /\ smfRts' = [smfRts EXCEPT ![s] = @ + 1]
    /\ net' = {m \in net : m.smf # s}
    /\ UNCHANGED <<associated, peerRts, phase, reqs, ctx, held>>

-----------------------------------------------------------------------------
Maintenance(s) ==
    \/ MaintainAssociate(s)
    \/ MaintainHeartbeat(s)

Listener(s) ==
    \/ OnSetupResponse(s)
    \/ OnHeartbeatResponse(s)
    \/ OnHeartbeatRequest(s)
    \/ OnEstablishmentResponse(s)
    \/ OnModificationResponse(s)
    \/ OnDeletionResponse(s)
    \/ DropLateResponse(s)
    \/ ListenerStops(s)

T1Expiry(s) ==
    \/ T1Retransmit(s)
    \/ NodeRequestFails(s)
    \/ SessionRequestFails(s)

SmContextHandlers(s) ==
    \E r \in Ref :
        \/ SmContextCreate(s, r)
        \/ \E what \in {"activate", "other"} : SmContextUpdate(s, r, what)
        \/ SmContextRelease(s, r)

Process(s) ==
    \/ Shutdown(s)
    \/ ReleaseDone(s)
    \/ Crash(s)
    \/ Start(s)

PfcpClientNext(s) ==
    \/ Maintenance(s)
    \/ Listener(s)
    \/ T1Expiry(s)
    \/ SmContextHandlers(s)
    \/ Process(s)

=============================================================================
