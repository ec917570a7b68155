----------------------------- MODULE PfcpServer -----------------------------
(***************************************************************************)
(* The UPF end of N4: the PFCP server with its single association, its     *)
(* session table and its restart detection, and behind it the task that    *)
(* carries every session event into the data plane's session tables.       *)
(*                                                                         *)
(* The server is one sequential loop: a handler runs to its end before the *)
(* next datagram is read.  Handlers hand events to the data plane through  *)
(* a bounded channel; a full channel stops the loop in mid handler.  The   *)
(* event it is stuck with is the last element of events, so the loop runs  *)
(* on while Len(events) <= EventCap.  Session handlers respond before they *)
(* emit; the peer failure of a heartbeat or a setup is emitted before the  *)
(* response, which the model lets out at once.                             *)
(*                                                                         *)
(* A handler returns where the socket refuses its response.  Where the     *)
(* response is the last thing it does this is a response that is lost; the *)
(* release and the session handlers leave the rest undone.                 *)
(***************************************************************************)
EXTENDS N4Net, Sequences

CONSTANTS
    MaxUpfRts,      \* bound: incarnations of the UPF
    EventCap        \* capacity of the session event channel
ASSUME MaxUpfRtsAssumption == MaxUpfRts \in Nat \ {0}
ASSUME EventCapAssumption == EventCap \in Nat \ {0}

VARIABLES
    upfRts,         \* recovery_time_stamp of the running incarnation
    upfAssoc,       \* association: a set with at most one [smf, rts]
    sess,           \* sessions: UPF SEID -> owner [smf, ref]
    nextSeid,       \* next SEID to allocate
    events,         \* session_tx: events on their way to the data plane
    dp,             \* data plane seid_map: UPF SEID -> UE address
    ueIp,           \* data plane ue_ip_map: UE address -> UPF SEID
    untold          \* history: SEIDs deleted without an event, until the association ends

serverVars == <<upfRts, upfAssoc, sess, nextSeid, events, dp, ueIp, untold>>

(***************************************************************************)
(* Every SMF numbers its contexts from the same start and assigns UE       *)
(* addresses from the same subnet, lowest address first: the context       *)
(* reference stands for the UE address too.                                *)
(***************************************************************************)
Owner == [smf : Smf, ref : Ref]
Event ==
    [kind : {"established"}, seid : Nat, ue : Ref, tun : BOOLEAN] \cup
    [kind : {"modified", "deleted", "peerFailure"},
     seid : Nat, ue : {NoRef}, tun : BOOLEAN]

IsPartialMap(f, S, T) == DOMAIN f \subseteq S /\ \A x \in DOMAIN f : f[x] \in T

PfcpServerTypeOK ==
    /\ upfRts \in 1 .. MaxUpfRts
    /\ upfAssoc \subseteq [smf : Smf, rts : Nat]
    /\ IsPartialMap(sess, Nat, Owner)
    /\ nextSeid \in Nat \ {0}
    /\ events \in Seq(Event)
    /\ IsPartialMap(dp, Nat, Ref)
    /\ IsPartialMap(ueIp, Ref, Nat)
    /\ untold \subseteq Nat

Nothing == [x \in {} |-> 0]
Put(f, k, v) == [x \in DOMAIN f \cup {k} |-> IF x = k THEN v ELSE f[x]]
Without(f, k) == [x \in DOMAIN f \ {k} |-> f[x]]

PfcpServerInit ==
    /\ upfRts = 1
    /\ upfAssoc = {}
    /\ sess = Nothing
    /\ nextSeid = 1
    /\ events = <<>>
    /\ dp = Nothing
    /\ ueIp = Nothing
    /\ untold = {}

-----------------------------------------------------------------------------
(* The PFCP server loop.                                                   *)

Receive(m, kind) ==
    /\ m.kind = kind
    /\ Len(events) <= EventCap

Emit(kind, k, r, t) ==
    Append(events, [kind |-> kind, seid |-> k, ue |-> r, tun |-> t])

Respond(m, rsp) == net' = Sent(net \ {m}, rsp)
Refused(m) == net' = net \ {m}

IsAssociatedWith(s) == \E a \in upfAssoc : a.smf = s

(***************************************************************************)
(* check_peer_recovery: only the associated peer's own time stamp counts.  *)
(***************************************************************************)
PeerRestarted(s, rts) == \E a \in upfAssoc : a.smf = s /\ a.rts # rts

BugSilentFailure ==
    /\ upfAssoc' = {}
    /\ sess' = Nothing
    /\ untold' = {}
    /\ UNCHANGED events

(***************************************************************************)
(* declare_peer_failure for the peer that holds the association: the       *)
(* association and the whole session table go, and the data plane is told. *)
(***************************************************************************)
PeerFailure ==
    /\ upfAssoc' = {}
    /\ sess' = Nothing
    /\ events' = Emit("peerFailure", 0, NoRef, FALSE)
    /\ untold' = {}

CheckPeerRecovery(s, rts) ==
    IF PeerRestarted(s, rts) THEN PeerFailure
    ELSE UNCHANGED <<upfAssoc, sess, events, untold>>

HandleHeartbeatRequest ==
    \E m \in net :
        /\ Receive(m, "HbReq")
        /\ CheckPeerRecovery(m.smf, m.rts)
        /\ Respond(m, [Answer(m, TRUE) EXCEPT !.rts = upfRts])
        /\ UNCHANGED <<upfRts, nextSeid, dp, ueIp>>

HandleHeartbeatResponse ==
    \E m \in net :
        /\ Receive(m, "UHbRsp")
        /\ CheckPeerRecovery(m.smf, m.rts)
        /\ net' = net \ {m}
        /\ UNCHANGED <<upfRts, nextSeid, dp, ueIp>>

BugKeepsAssociation ==
    \E m \in net :
        /\ Receive(m, "SetupReq")
        /\ upfAssoc' = IF IsAssociatedWith(m.smf) THEN upfAssoc
                       ELSE {[smf |-> m.smf, rts |-> m.rts]}
        /\ Respond(m, [Answer(m, TRUE) EXCEPT !.rts = upfRts])
        /\ UNCHANGED <<upfRts, sess, nextSeid, events, dp, ueIp, untold>>

BugSetupKeepsTable ==
    \E m \in net :
        /\ Receive(m, "SetupReq")
        /\ upfAssoc' = {[smf |-> m.smf, rts |-> m.rts]}
        /\ Respond(m, [Answer(m, TRUE) EXCEPT !.rts = upfRts])
        /\ UNCHANGED <<upfRts, sess, nextSeid, events, dp, ueIp, untold>>

(***************************************************************************)
(* The one association goes to whoever asked last.  The session table is   *)
(* flushed only when the peer that holds the association has restarted.    *)
(***************************************************************************)
HandleAssociationSetupRequest ==
    \E m \in net :
        /\ Receive(m, "SetupReq")
        /\ upfAssoc' = {[smf |-> m.smf, rts |-> m.rts]}
        /\ IF PeerRestarted(m.smf, m.rts)
           THEN /\ sess' = Nothing
                /\ events' = Emit("peerFailure", 0, NoRef, FALSE)
                /\ untold' = {}
           ELSE UNCHANGED <<sess, events, untold>>
        /\ Respond(m, [Answer(m, TRUE) EXCEPT !.rts = upfRts])
        /\ UNCHANGED <<upfRts, nextSeid, dp, ueIp>>

HandleAssociationReleaseRequest ==
    \E m \in net :
        /\ Receive(m, "RelReq")
        /\ \/ /\ Respond(m, Answer(m, TRUE))
              /\ IF IsAssociatedWith(m.smf) THEN PeerFailure
                 ELSE UNCHANGED <<upfAssoc, sess, events, untold>>
           \/ /\ Refused(m)
              /\ UNCHANGED <<upfAssoc, sess, events, untold>>
        /\ UNCHANGED <<upfRts, nextSeid, dp, ueIp>>

BugSeidFromCount ==
    \E m \in net :
        LET k == Cardinality(DOMAIN sess) + 1 IN
        /\ Receive(m, "EstReq")
        /\ upfAssoc # {}
        /\ Respond(m, [Answer(m, TRUE) EXCEPT !.seid = k, !.inc = upfRts])
        /\ sess' = Put(sess, k, [smf |-> m.smf, ref |-> m.ref])
        /\ events' = Emit("established", k, m.ref, FALSE)
        /\ UNCHANGED <<upfRts, upfAssoc, nextSeid, dp, ueIp, untold>>

(***************************************************************************)
(* A new SEID for every accepted request, retransmission or not.  An       *)
(* association must be up; it need not be the sender's.                    *)
(***************************************************************************)
HandleSessionEstablishmentRequest ==
    \E m \in net :
        /\ Receive(m, "EstReq")
        /\ IF upfAssoc = {}
           THEN /\ Respond(m, Answer(m, FALSE))
                /\ UNCHANGED <<sess, nextSeid, events>>
           ELSE /\ nextSeid' = nextSeid + 1
                /\ \/ /\ Respond(m, [Answer(m, TRUE) EXCEPT
                                       !.seid = nextSeid, !.inc = upfRts])
                      /\ sess' = Put(sess, nextSeid, [smf |-> m.smf, ref |-> m.ref])
                      /\ events' = Emit("established", nextSeid, m.ref, FALSE)
                   \/ /\ Refused(m)
                      /\ UNCHANGED <<sess, events>>
        /\ UNCHANGED <<upfRts, upfAssoc, dp, ueIp, untold>>

(***************************************************************************)
(* The session is found by the SEID of the header alone.                   *)
(***************************************************************************)
HandleSessionModificationRequest ==
    \E m \in net :
        /\ Receive(m, "ModReq")
        /\ \/ /\ Respond(m, Answer(m, m.seid \in DOMAIN sess))
              /\ events' = IF m.seid \in DOMAIN sess
                           THEN Emit("modified", m.seid, NoRef, m.tun)
                           ELSE events
           \/ /\ Refused(m)
              /\ UNCHANGED events
        /\ UNCHANGED <<upfRts, upfAssoc, sess, nextSeid, dp, ueIp, untold>>

(***************************************************************************)
(* The session goes first, then the response, then the event: a deletion   *)
(* whose response is refused is never told to the data plane.              *)
(***************************************************************************)
HandleSessionDeletionRequest ==
    \E m \in net :
        /\ Receive(m, "DelReq")
        /\ IF m.seid \in DOMAIN sess
           THEN /\ sess' = Without(sess, m.seid)
                /\ \/ /\ Respond(m, Answer(m, TRUE))
                      /\ events' = Emit("deleted", m.seid, NoRef, FALSE)
                      /\ UNCHANGED untold
                   \/ /\ Refused(m)
                      /\ untold' = untold \cup {m.seid}
                      /\ UNCHANGED events
           ELSE /\ Respond(m, Answer(m, FALSE))
                /\ UNCHANGED <<sess, events, untold>>
        /\ UNCHANGED <<upfRts, upfAssoc, nextSeid, dp, ueIp>>

(***************************************************************************)
(* The heartbeat task runs beside the server loop.                         *)
(***************************************************************************)
SendHeartbeatRequest ==
    \E a \in upfAssoc :
        /\ net' = Sent(net, [Request("UHbReq", a.smf, NoSeq) EXCEPT
                                !.att = 0, !.rts = upfRts])
        /\ UNCHANGED serverVars

-----------------------------------------------------------------------------
(* handle_pfcp_session_event: the data plane's session tables.             *)

BugKeepsAddress(k) ==
    /\ dp' = Without(dp, k)
    /\ UNCHANGED ueIp

(***************************************************************************)
(* add_session indexes a session by SEID and by UE address, and            *)
(* remove_session_by_seid drops both entries, whichever session the UE     *)
(* address led to.                                                         *)
(***************************************************************************)
AddSession(k, ue) ==
    /\ dp' = Put(dp, k, ue)
    /\ ueIp' = Put(ueIp, ue, k)

RemoveSession(k) ==
    /\ dp' = Without(dp, k)
    /\ ueIp' = Without(ueIp, dp[k])

HandleSessionEvent ==
    /\ events # <<>>
    /\ events' = Tail(events)
    /\ LET e == Head(events) IN
         CASE e.kind = "established" -> AddSession(e.seid, e.ue)
           \* a new downlink tunnel removes the session and adds it again
           [] e.kind = "modified" /\ e.tun /\ e.seid \in DOMAIN dp ->
                /\ UNCHANGED dp
                /\ ueIp' = Put(ueIp, dp[e.seid], e.seid)
           [] e.kind = "deleted" /\ e.seid \in DOMAIN dp -> RemoveSession(e.seid)
           [] e.kind = "peerFailure" ->
                /\ dp' = Nothing
                /\ ueIp' = [u \in {v \in DOMAIN ueIp :
                                      \A k \in DOMAIN dp : dp[k] # v} |-> ueIp[u]]
           [] OTHER -> UNCHANGED <<dp, ueIp>>
    /\ UNCHANGED <<net, upfRts, upfAssoc, sess, nextSeid, untold>>

-----------------------------------------------------------------------------
(***************************************************************************)
(* The UPF process restarts with empty tables, SEIDs from 1 and a new      *)
(* Recovery Time Stamp.  Restarting takes longer than a datagram lives.    *)
(***************************************************************************)
UpfRestart ==
    /\ upfRts < MaxUpfRts
    /\ upfRts' = upfRts + 1
    /\ upfAssoc' = {}
    /\ sess' = Nothing
    /\ nextSeid' = 1
    /\ events' = <<>>
    /\ dp' = Nothing
    /\ ueIp' = Nothing
    /\ untold' = {}
    /\ net' = {}

ServerLoop ==
    \/ HandleHeartbeatRequest
    \/ HandleHeartbeatResponse
    \/ HandleAssociationSetupRequest
    \/ HandleAssociationReleaseRequest
    \/ HandleSessionEstablishmentRequest
    \/ HandleSessionModificationRequest
    \/ HandleSessionDeletionRequest

PfcpServerNext ==
    \/ ServerLoop
    \/ SendHeartbeatRequest
    \/ HandleSessionEvent
    \/ UpfRestart

=============================================================================
