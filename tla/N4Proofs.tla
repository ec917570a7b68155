------------------------------ MODULE N4Proofs ------------------------------
(***************************************************************************)
(* Proofs about N4, for any number of SMFs, SM contexts, restarts,         *)
(* retransmissions and datagrams in flight.                                *)
(***************************************************************************)
EXTENDS N4, TLAPS

-----------------------------------------------------------------------------
(* Type correctness.                                                       *)

(***************************************************************************)
(* Sending adds at most the datagram that is sent.                         *)
(***************************************************************************)
LEMMA SentSubset ==
    ASSUME NEW D, NEW m
    PROVE  Sent(D, m) \subseteq D \cup {m}
BY DEF Sent

(***************************************************************************)
(* Every request of an SMF has a response type.                            *)
(***************************************************************************)
LEMMA RspOfType ==
    ASSUME NEW kind \in SmfRequests
    PROVE  RspOf(kind) \in SmfResponses
BY DEF SmfRequests, SessionRequests, NodeRequests, RspOf, SmfResponses

(***************************************************************************)
(* Requests, answers and retransmissions are datagrams.                    *)
(***************************************************************************)
LEMMA RequestType ==
    ASSUME NEW kind \in SmfRequests \cup {"UHbReq"}, NEW s \in Smf,
           NEW q \in SeqNo \cup {NoSeq}
    PROVE  Request(kind, s, q) \in Datagram
BY N1Assumption DEF Request, Datagram

LEMMA AnswerType ==
    ASSUME NEW m \in Datagram, m.kind \in SmfRequests, NEW b \in BOOLEAN
    PROVE  Answer(m, b) \in Datagram
BY RspOfType DEF Answer, Datagram

LEMMA TypeInit == Init => TypeOK
<1> SUFFICES ASSUME Init PROVE TypeOK
  OBVIOUS
<1>1. PfcpClientTypeOK
  BY MaxSmfRtsAssumption DEF Init, PfcpClientInit, PfcpClientTypeOK, NoSessions, NoSeid
<1>2. PfcpServerTypeOK
  BY MaxUpfRtsAssumption DEF Init, PfcpServerInit, PfcpServerTypeOK, Nothing, IsPartialMap
<1> QED BY <1>1, <1>2 DEF Init, TypeOK

(***************************************************************************)
(* A first transmission keeps the two sets of datagrams well typed.        *)
(***************************************************************************)
LEMMA TransmitType ==
    ASSUME net \subseteq Datagram, reqs \subseteq Datagram,
           NEW m \in Datagram, Transmit(m)
    PROVE  net' \subseteq Datagram /\ reqs' \subseteq Datagram
BY SentSubset DEF Transmit

(***************************************************************************)
(* Type correctness through the steps of the association's maintenance.    *)
(***************************************************************************)
LEMMA TypeMaintenance ==
    ASSUME TypeOK, NEW s \in Smf, Maintenance(s)
    PROVE  PfcpClientTypeOK' /\ net' \subseteq Datagram
<1>1. ASSUME NEW kind \in NodeRequests, NEW q \in SeqNo
      PROVE  [Request(kind, s, q) EXCEPT !.rts = smfRts[s]] \in Datagram
  <2>1. smfRts[s] \in Nat
    BY MaxSmfRtsAssumption DEF TypeOK, PfcpClientTypeOK
  <2>2. Request(kind, s, q) \in Datagram
    BY RequestType DEF SmfRequests
  <2> QED BY <2>1, <2>2 DEF Datagram
<1>2. CASE MaintainAssociate(s) /\ associated[s]
  BY <1>2 DEF MaintainAssociate, TypeOK, PfcpClientTypeOK
<1>3. CASE MaintainAssociate(s) /\ ~associated[s]
  <2>1. PICK q \in SeqNo :
            Transmit([Request("SetupReq", s, q) EXCEPT !.rts = smfRts[s]])
    BY <1>3 DEF MaintainAssociate
  <2>2. net' \subseteq Datagram /\ reqs' \subseteq Datagram
    BY <1>1, <2>1, TransmitType DEF NodeRequests, TypeOK, PfcpClientTypeOK
  <2> QED BY <1>3, <2>2 DEF MaintainAssociate, TypeOK, PfcpClientTypeOK
<1>4. CASE MaintainHeartbeat(s) /\ ~associated[s]
  BY <1>4 DEF MaintainHeartbeat, TypeOK, PfcpClientTypeOK
<1>5. CASE MaintainHeartbeat(s) /\ associated[s]
  <2>1. PICK q \in SeqNo :
            Transmit([Request("HbReq", s, q) EXCEPT !.rts = smfRts[s]])
    BY <1>5 DEF MaintainHeartbeat
  <2>2. net' \subseteq Datagram /\ reqs' \subseteq Datagram
    BY <1>1, <2>1, TransmitType DEF NodeRequests, TypeOK, PfcpClientTypeOK
  <2> QED BY <1>5, <2>2 DEF MaintainHeartbeat, TypeOK, PfcpClientTypeOK
<1> QED BY <1>2, <1>3, <1>4, <1>5 DEF Maintenance

(***************************************************************************)
(* Updating one entry of a table of tables.                                *)
(***************************************************************************)
LEMMA TableType ==
    ASSUME NEW S, NEW R, NEW V, NEW f \in [S -> [R -> V]], NEW s \in S, NEW x,
           NEW v \in V
    PROVE  [f EXCEPT ![s][x] = v] \in [S -> [R -> V]]
<1>1. [f[s] EXCEPT ![x] = v] \in [R -> V]
  OBVIOUS
<1> QED BY <1>1

(***************************************************************************)
(* check_peer_restart keeps the association state well typed.              *)
(***************************************************************************)
LEMMA CheckPeerRestartType ==
    ASSUME PfcpClientTypeOK, NEW s \in Smf, NEW rts \in Nat, CheckPeerRestart(s, rts)
    PROVE  /\ associated' \in [Smf -> BOOLEAN]
           /\ peerRts' \in [Smf -> Nat]
           /\ held' \in [Smf -> [Ref -> [seid : Nat, inc : Nat]]]
<1>1. NoSessions \in [Ref -> [seid : Nat, inc : Nat]]
  BY DEF NoSessions, NoSeid
<1>2. CASE UNCHANGED <<associated, peerRts, held>>
  BY <1>2 DEF PfcpClientTypeOK
<1>3. CASE /\ associated' = [associated EXCEPT ![s] = FALSE]
           /\ peerRts' = [peerRts EXCEPT ![s] = rts]
           /\ held' = [held EXCEPT ![s] = NoSessions]
  <2>1. associated' \in [Smf -> BOOLEAN]
    BY <1>3 DEF PfcpClientTypeOK
  <2>2. peerRts' \in [Smf -> Nat]
    BY <1>3 DEF PfcpClientTypeOK
  <2>3. held' \in [Smf -> [Ref -> [seid : Nat, inc : Nat]]]
    BY <1>1, <1>3 DEF PfcpClientTypeOK
  <2> QED BY <2>1, <2>2, <2>3
<1> QED BY <1>2, <1>3 DEF CheckPeerRestart

(***************************************************************************)
(* Type correctness through the receive loop.                              *)
(***************************************************************************)
LEMMA TypeListener ==
    ASSUME TypeOK, NEW s \in Smf, Listener(s)
    PROVE  PfcpClientTypeOK' /\ net' \subseteq Datagram
<1> USE DEF TypeOK, PfcpClientTypeOK
<1>1. \A m \in net : m.rts \in Nat /\ m.seid \in Nat /\ m.inc \in Nat
  BY DEF Datagram
<1>2. \A r \in reqs : r.kind \in SessionRequests => r.ref \in Ref \cup {NoRef}
  BY DEF Datagram
<1>3. AfterDatagram(s) \in [Smf -> {"run", "stop", "deaf", "down"}]
  BY DEF AfterDatagram
<1>4. NoSessions \in [Ref -> [seid : Nat, inc : Nat]]
  BY DEF NoSessions, NoSeid
<1>5. CASE OnSetupResponse(s)
  <2>1. PICK m \in net, r \in reqs :
            /\ Completes(m, r)
            /\ m.smf = s
            /\ associated' = [associated EXCEPT ![s] = TRUE]
            /\ peerRts' = [peerRts EXCEPT ![s] = m.rts]
            /\ held' = held \/ held' = [held EXCEPT ![s] = NoSessions]
            /\ phase' = [phase EXCEPT ![s] = "hb"]
            /\ UNCHANGED <<smfRts, ctx>>
    BY <1>5 DEF OnSetupResponse
  <2>2. held' \in [Smf -> [Ref -> [seid : Nat, inc : Nat]]]
    BY <1>4, <2>1
  <2> QED BY <1>1, <1>3, <2>1, <2>2 DEF Completes
<1>6. CASE OnHeartbeatResponse(s)
  <2>1. PICK m \in net, r \in reqs :
            /\ Completes(m, r)
            /\ m.smf = s
            /\ CheckPeerRestart(s, m.rts)
            /\ phase' = [phase EXCEPT ![s] = "assoc"]
            /\ UNCHANGED <<smfRts, ctx>>
    BY <1>6 DEF OnHeartbeatResponse
  <2>2. /\ associated' \in [Smf -> BOOLEAN]
        /\ peerRts' \in [Smf -> Nat]
        /\ held' \in [Smf -> [Ref -> [seid : Nat, inc : Nat]]]
    BY <1>1, <2>1, CheckPeerRestartType
  <2> QED BY <1>3, <2>1, <2>2 DEF Completes
<1>7. CASE OnHeartbeatRequest(s)
  <2>1. PICK m \in net :
            /\ m.kind = "UHbReq"
            /\ CheckPeerRestart(s, m.rts)
            /\ net' = Sent(net \ {m}, [m EXCEPT !.kind = "UHbRsp", !.rts = smfRts[s]])
            /\ status' = AfterDatagram(s)
            /\ UNCHANGED <<smfRts, phase, reqs, ctx>>
    BY <1>7 DEF OnHeartbeatRequest
  <2>2. [m EXCEPT !.kind = "UHbRsp", !.rts = smfRts[s]] \in Datagram
    <3>1. smfRts[s] \in Nat
      BY MaxSmfRtsAssumption
    <3>2. m \in Datagram
      OBVIOUS
    <3> QED BY <3>1, <3>2 DEF Datagram
  <2>3. net' \subseteq Datagram
    BY <2>1, <2>2, SentSubset
  <2>4. /\ associated' \in [Smf -> BOOLEAN]
        /\ peerRts' \in [Smf -> Nat]
        /\ held' \in [Smf -> [Ref -> [seid : Nat, inc : Nat]]]
    BY <1>1, <2>1, CheckPeerRestartType
  <2> QED BY <1>3, <2>1, <2>3, <2>4
<1>8. CASE OnEstablishmentResponse(s)
  <2>1. PICK m \in net, r \in reqs :
            /\ Completes(m, r)
            /\ m.smf = s
            /\ \/ /\ held' = [held EXCEPT ![s][r.ref] = [seid |-> m.seid, inc |-> m.inc]]
                  /\ ctx' = [ctx EXCEPT ![s][r.ref] = "up"]
               \/ /\ ctx' = [ctx EXCEPT ![s][r.ref] = "done"]
                  /\ UNCHANGED held
            /\ UNCHANGED <<smfRts, associated, peerRts, phase>>
    BY <1>8 DEF OnEstablishmentResponse
  <2>2. held' \in [Smf -> [Ref -> [seid : Nat, inc : Nat]]]
    <3>1. [seid |-> m.seid, inc |-> m.inc] \in [seid : Nat, inc : Nat]
      BY <1>1
    <3>2. [held EXCEPT ![s][r.ref] = [seid |-> m.seid, inc |-> m.inc]]
             \in [Smf -> [Ref -> [seid : Nat, inc : Nat]]]
      BY <3>1, TableType
    <3> QED BY <2>1, <3>2
  <2>3. ctx' \in [Smf -> [Ref -> {"free", "est", "up", "rel", "done"}]]
    <3>1. /\ [ctx EXCEPT ![s][r.ref] = "up"]
                \in [Smf -> [Ref -> {"free", "est", "up", "rel", "done"}]]
          /\ [ctx EXCEPT ![s][r.ref] = "done"]
                \in [Smf -> [Ref -> {"free", "est", "up", "rel", "done"}]]
      BY TableType
    <3> QED BY <2>1, <3>1
  <2> QED BY <1>3, <2>1, <2>2, <2>3 DEF Completes
<1>9. CASE OnModificationResponse(s)
  BY <1>3, <1>9 DEF OnModificationResponse, Completes
<1>10. CASE OnDeletionResponse(s)
  <2>1. PICK m \in net, r \in reqs :
            /\ Completes(m, r)
            /\ m.smf = s
            /\ ctx' = [ctx EXCEPT ![s][r.ref] = "done"]
            /\ held' = [held EXCEPT ![s][r.ref] = NoSeid]
            /\ UNCHANGED <<smfRts, associated, peerRts, phase>>
    BY <1>10 DEF OnDeletionResponse
  <2>2. held' \in [Smf -> [Ref -> [seid : Nat, inc : Nat]]]
    BY <2>1, TableType DEF NoSeid
  <2>3. ctx' \in [Smf -> [Ref -> {"free", "est", "up", "rel", "done"}]]
    BY <2>1, TableType
  <2> QED BY <1>3, <2>1, <2>2, <2>3 DEF Completes
<1>11. CASE DropLateResponse(s)
  BY <1>3, <1>11 DEF DropLateResponse
<1>12. CASE ListenerStops(s)
  BY <1>12 DEF ListenerStops
<1> QED
  BY <1>5, <1>6, <1>7, <1>8, <1>9, <1>10, <1>11, <1>12 DEF Listener

(***************************************************************************)
(* Type correctness through the T1 timers.                                 *)
(***************************************************************************)
LEMMA TypeT1Expiry ==
    ASSUME TypeOK, NEW s \in Smf, T1Expiry(s)
    PROVE  PfcpClientTypeOK' /\ net' \subseteq Datagram
<1> USE DEF TypeOK, PfcpClientTypeOK
<1>1. CASE T1Retransmit(s)
  <2>1. PICK r \in reqs :
            /\ r.att <= N1
            /\ reqs' = (reqs \ {r}) \cup {[r EXCEPT !.att = @ + 1]}
            /\ net' = Sent(net, [r EXCEPT !.att = @ + 1])
    BY <1>1 DEF T1Retransmit
  <2>2. [r EXCEPT !.att = @ + 1] \in Datagram
    <3>1. r \in Datagram
      OBVIOUS
    <3>2. r.att + 1 \in 0 .. N1 + 1
      BY <2>1, <3>1, N1Assumption DEF Datagram
    <3> QED BY <3>1, <3>2 DEF Datagram
  <2>3. Sent(net, [r EXCEPT !.att = @ + 1]) \subseteq net \cup {[r EXCEPT !.att = @ + 1]}
    BY SentSubset
  <2>4. net' \subseteq Datagram /\ reqs' \subseteq Datagram
    BY <2>1, <2>2, <2>3
  <2> QED BY <1>1, <2>4 DEF T1Retransmit
<1>2. CASE NodeRequestFails(s)
  BY <1>2 DEF NodeRequestFails, RequestFails
<1>3. CASE SessionRequestFails(s)
  <2>1. PICK r \in reqs :
            /\ reqs' = reqs \ {r}
            /\ associated' = associated \/ associated' = [associated EXCEPT ![s] = FALSE]
            /\ ctx' = ctx \/ ctx' = [ctx EXCEPT ![s][r.ref] = "done"]
            /\ held' = held \/ held' = [held EXCEPT ![s][r.ref] = NoSeid]
            /\ UNCHANGED <<net, status, smfRts, peerRts, phase>>
    BY <1>3 DEF SessionRequestFails, RequestFails
  <2>2. held' \in [Smf -> [Ref -> [seid : Nat, inc : Nat]]]
    <3>1. [held EXCEPT ![s][r.ref] = NoSeid] \in [Smf -> [Ref -> [seid : Nat, inc : Nat]]]
      BY TableType DEF NoSeid
    <3> QED BY <2>1, <3>1
  <2>3. ctx' \in [Smf -> [Ref -> {"free", "est", "up", "rel", "done"}]]
    <3>1. [ctx EXCEPT ![s][r.ref] = "done"]
             \in [Smf -> [Ref -> {"free", "est", "up", "rel", "done"}]]
      BY TableType
    <3> QED BY <2>1, <3>1
  <2> QED BY <2>1, <2>2, <2>3
<1> QED BY <1>1, <1>2, <1>3 DEF T1Expiry

(***************************************************************************)
(* Type correctness through the SM context handlers.                       *)
(***************************************************************************)
LEMMA TypeSmContextHandlers ==
    ASSUME TypeOK, NEW s \in Smf, SmContextHandlers(s)
    PROVE  PfcpClientTypeOK' /\ net' \subseteq Datagram
<1> USE DEF TypeOK, PfcpClientTypeOK
<1>1. PICK r \in Ref :
          \/ SmContextCreate(s, r)
          \/ \E what \in {"activate", "other"} : SmContextUpdate(s, r, what)
          \/ SmContextRelease(s, r)
  BY DEF SmContextHandlers
<1>2. ASSUME NEW kind \in SessionRequests, NEW q \in SeqNo, NEW b \in BOOLEAN
      PROVE  /\ [Request(kind, s, q) EXCEPT !.ref = r] \in Datagram
             /\ SessionRequest(kind, s, q, r) \in Datagram
             /\ [SessionRequest(kind, s, q, r) EXCEPT !.tun = b] \in Datagram
  <2>1. held[s][r].seid \in Nat /\ held[s][r].inc \in Nat
    <3>1. held[s][r] \in [seid : Nat, inc : Nat]
      OBVIOUS
    <3> QED BY <3>1
  <2>2. Request(kind, s, q) \in Datagram
    BY RequestType DEF SmfRequests
  <2> QED BY <2>1, <2>2 DEF SessionRequest, Datagram
<1>3. CASE SmContextCreate(s, r)
  <2>1. PICK q \in SeqNo : Transmit([Request("EstReq", s, q) EXCEPT !.ref = r])
    BY <1>3 DEF SmContextCreate
  <2>2. net' \subseteq Datagram /\ reqs' \subseteq Datagram
    BY <1>2, <2>1, TransmitType DEF SessionRequests
  <2>3. ctx' \in [Smf -> [Ref -> {"free", "est", "up", "rel", "done"}]]
    BY <1>3, TableType DEF SmContextCreate
  <2> QED BY <1>3, <2>2, <2>3 DEF SmContextCreate
<1>4. ASSUME NEW what \in {"activate", "other"}, SmContextUpdate(s, r, what)
      PROVE  PfcpClientTypeOK' /\ net' \subseteq Datagram
  <2>1. PICK q \in SeqNo :
            Transmit([SessionRequest("ModReq", s, q, r) EXCEPT
                         !.tun = (what = "activate")])
    BY <1>4 DEF SmContextUpdate
  <2>2. net' \subseteq Datagram /\ reqs' \subseteq Datagram
    BY <1>2, <2>1, TransmitType DEF SessionRequests
  <2> QED BY <1>4, <2>2 DEF SmContextUpdate
<1>5. CASE SmContextRelease(s, r)
  <2>1. held' \in [Smf -> [Ref -> [seid : Nat, inc : Nat]]]
    <3>1. [held EXCEPT ![s][r] = NoSeid] \in [Smf -> [Ref -> [seid : Nat, inc : Nat]]]
      BY TableType DEF NoSeid
    <3> QED BY <1>5, <3>1 DEF SmContextRelease
  <2>2. ctx' \in [Smf -> [Ref -> {"free", "est", "up", "rel", "done"}]]
    <3>1. /\ [ctx EXCEPT ![s][r] = "rel"]
                \in [Smf -> [Ref -> {"free", "est", "up", "rel", "done"}]]
          /\ [ctx EXCEPT ![s][r] = "done"]
                \in [Smf -> [Ref -> {"free", "est", "up", "rel", "done"}]]
      BY TableType
    <3> QED BY <1>5, <3>1 DEF SmContextRelease
  <2>3. net' \subseteq Datagram /\ reqs' \subseteq Datagram
    BY <1>2, <1>5, TransmitType DEF SmContextRelease, SessionRequests
  <2> QED BY <1>5, <2>1, <2>2, <2>3 DEF SmContextRelease
<1> QED BY <1>1, <1>3, <1>4, <1>5

(***************************************************************************)
(* Type correctness through shutdown, crash and start of an SMF.           *)
(***************************************************************************)
LEMMA ProcessGoneType ==
    ASSUME PfcpClientTypeOK, NEW s \in Smf, ProcessGone(s)
    PROVE  PfcpClientTypeOK'
<1>1. NoSessions \in [Ref -> [seid : Nat, inc : Nat]]
  BY DEF NoSessions, NoSeid
<1>2. [r \in Ref |-> "free"] \in [Ref -> {"free", "est", "up", "rel", "done"}]
  OBVIOUS
<1> QED BY <1>1, <1>2 DEF ProcessGone, PfcpClientTypeOK

LEMMA TypeProcess ==
    ASSUME TypeOK, NEW s \in Smf, Process(s)
    PROVE  PfcpClientTypeOK' /\ net' \subseteq Datagram
<1> USE DEF TypeOK
<1>1. CASE Shutdown(s) /\ associated[s]
  <2>1. PICK q \in SeqNo :
            /\ reqs' = {r \in reqs : r.smf = s => r.kind \notin NodeRequests}
                          \cup {Request("RelReq", s, q)}
            /\ net' = Sent(net, Request("RelReq", s, q))
    BY <1>1 DEF Shutdown
  <2>2. Request("RelReq", s, q) \in Datagram
    BY RequestType DEF SmfRequests, NodeRequests
  <2>3. net' \subseteq Datagram /\ reqs' \subseteq Datagram
    BY <2>1, <2>2, SentSubset DEF PfcpClientTypeOK
  <2> QED BY <1>1, <2>3 DEF Shutdown, PfcpClientTypeOK
<1>2. CASE Shutdown(s) /\ ~associated[s]
  BY <1>2, ProcessGoneType DEF Shutdown
<1>3. CASE ReleaseDone(s)
  <2>1. ProcessGone(s) /\ net' \subseteq net
    BY <1>3 DEF ReleaseDone
  <2> QED BY <2>1, ProcessGoneType
<1>4. CASE Crash(s)
  BY <1>4, ProcessGoneType DEF Crash
<1>5. CASE Start(s)
  BY <1>5, MaxSmfRtsAssumption DEF Start, PfcpClientTypeOK
<1> QED BY <1>1, <1>2, <1>3, <1>4, <1>5 DEF Process

(***************************************************************************)
(* Maps that grow and shrink by one entry.                                 *)
(***************************************************************************)
LEMMA PutType ==
    ASSUME NEW S, NEW T, NEW f, IsPartialMap(f, S, T), NEW k \in S, NEW v \in T
    PROVE  IsPartialMap(Put(f, k, v), S, T)
BY DEF IsPartialMap, Put

LEMMA WithoutType ==
    ASSUME NEW S, NEW T, NEW f, IsPartialMap(f, S, T), NEW k
    PROVE  IsPartialMap(Without(f, k), S, T)
BY DEF IsPartialMap, Without

LEMMA NothingType ==
    ASSUME NEW S, NEW T
    PROVE  IsPartialMap(Nothing, S, T)
BY DEF IsPartialMap, Nothing

(***************************************************************************)
(* An event that is emitted joins a channel of events.                     *)
(***************************************************************************)
LEMMA EmitType ==
    ASSUME events \in Seq(Event),
           NEW kind \in {"established", "modified", "deleted", "peerFailure"},
           NEW k \in Nat, NEW t \in BOOLEAN,
           NEW r, IF kind = "established" THEN r \in Ref ELSE r = NoRef
    PROVE  Emit(kind, k, r, t) \in Seq(Event)
<1>1. [kind |-> kind, seid |-> k, ue |-> r, tun |-> t] \in Event
  BY DEF Event
<1> QED BY <1>1 DEF Emit

(***************************************************************************)
(* Type correctness through the PFCP server loop.                          *)
(***************************************************************************)
LEMMA PeerFailureType ==
    ASSUME PfcpServerTypeOK, PeerFailure
    PROVE  /\ upfAssoc' \subseteq [smf : Smf, rts : Nat]
           /\ IsPartialMap(sess', Nat, Owner)
           /\ events' \in Seq(Event)
           /\ untold' \subseteq Nat
BY EmitType, NothingType DEF PeerFailure, PfcpServerTypeOK

LEMMA CheckPeerRecoveryType ==
    ASSUME PfcpServerTypeOK, NEW s, NEW rts, CheckPeerRecovery(s, rts)
    PROVE  /\ upfAssoc' \subseteq [smf : Smf, rts : Nat]
           /\ IsPartialMap(sess', Nat, Owner)
           /\ events' \in Seq(Event)
           /\ untold' \subseteq Nat
BY PeerFailureType DEF CheckPeerRecovery, PfcpServerTypeOK

(***************************************************************************)
(* The handler of m has come to its response, which the socket may refuse. *)
(***************************************************************************)
Replies(m, rsp) == Respond(m, rsp) \/ Refused(m)

LEMMA RespondType ==
    ASSUME net \subseteq Datagram, NEW m, NEW rsp \in Datagram, Replies(m, rsp)
    PROVE  net' \subseteq Datagram
BY SentSubset DEF Replies, Respond, Refused

(***************************************************************************)
(* Every establishment request under way names an SM context.  Without it  *)
(* type correctness is not inductive: the owner of a new session is the    *)
(* context named in the request.                                           *)
(***************************************************************************)
EstNamesContext ==
    \A m \in net \cup reqs : m.kind = "EstReq" => m.ref \in Ref

LEMMA TypeServerLoop ==
    ASSUME TypeOK, EstNamesContext, ServerLoop
    PROVE  PfcpServerTypeOK' /\ net' \subseteq Datagram
<1> USE DEF TypeOK
<1>1. upfRts \in Nat
  BY MaxUpfRtsAssumption DEF PfcpServerTypeOK
<1>2. ASSUME NEW m \in net, m.kind \in SmfRequests, NEW b \in BOOLEAN, NEW k \in Nat
      PROVE  /\ Answer(m, b) \in Datagram
             /\ [Answer(m, b) EXCEPT !.rts = upfRts] \in Datagram
             /\ [Answer(m, b) EXCEPT !.seid = k, !.inc = upfRts] \in Datagram
  <2>1. Answer(m, b) \in Datagram
    BY <1>2, AnswerType
  <2> QED BY <1>1, <2>1 DEF Datagram
<1>3. CASE HandleHeartbeatRequest
  <2>1. PICK m \in net :
            /\ m.kind = "HbReq"
            /\ CheckPeerRecovery(m.smf, m.rts)
            /\ Respond(m, [Answer(m, TRUE) EXCEPT !.rts = upfRts])
    BY <1>3 DEF HandleHeartbeatRequest, Receive
  <2>2. net' \subseteq Datagram
    BY <1>2, <2>1, RespondType DEF Replies, SmfRequests, NodeRequests
  <2> QED BY <1>3, <2>1, <2>2, CheckPeerRecoveryType
          DEF HandleHeartbeatRequest, PfcpServerTypeOK
<1>4. CASE HandleHeartbeatResponse
  BY <1>4, CheckPeerRecoveryType DEF HandleHeartbeatResponse, PfcpServerTypeOK
<1>5. CASE HandleAssociationSetupRequest
  <2>1. PICK m \in net :
            /\ m.kind = "SetupReq"
            /\ upfAssoc' = {[smf |-> m.smf, rts |-> m.rts]}
            /\ \/ /\ sess' = Nothing
                  /\ events' = Emit("peerFailure", 0, NoRef, FALSE)
                  /\ untold' = {}
               \/ UNCHANGED <<sess, events, untold>>
            /\ Respond(m, [Answer(m, TRUE) EXCEPT !.rts = upfRts])
            /\ UNCHANGED <<upfRts, nextSeid, dp, ueIp>>
    BY <1>5 DEF HandleAssociationSetupRequest, Receive
  <2>2. net' \subseteq Datagram
    BY <1>2, <2>1, RespondType DEF Replies, SmfRequests, NodeRequests
  <2>3. upfAssoc' \subseteq [smf : Smf, rts : Nat]
    BY <2>1 DEF Datagram
  <2>4. IsPartialMap(sess', Nat, Owner) /\ events' \in Seq(Event) /\ untold' \subseteq Nat
    BY <2>1, NothingType, EmitType DEF PfcpServerTypeOK
  <2> QED BY <2>1, <2>2, <2>3, <2>4 DEF PfcpServerTypeOK
<1>6. CASE HandleAssociationReleaseRequest
  <2>1. PICK m \in net :
            /\ m.kind = "RelReq"
            /\ Replies(m, Answer(m, TRUE))
            /\ PeerFailure \/ UNCHANGED <<upfAssoc, sess, events, untold>>
            /\ UNCHANGED <<upfRts, nextSeid, dp, ueIp>>
    BY <1>6 DEF HandleAssociationReleaseRequest, Receive, Replies
  <2>2. net' \subseteq Datagram
    BY <1>2, <2>1, RespondType DEF Replies, SmfRequests, NodeRequests
  <2> QED BY <2>1, <2>2, PeerFailureType DEF PfcpServerTypeOK
<1>7. CASE HandleSessionEstablishmentRequest
  <2>1. PICK m \in net :
            /\ m.kind = "EstReq"
            /\ nextSeid' \in {nextSeid, nextSeid + 1}
            /\ \/ /\ Replies(m, Answer(m, FALSE))
                  /\ UNCHANGED <<sess, events>>
               \/ /\ Respond(m, [Answer(m, TRUE) EXCEPT !.seid = nextSeid, !.inc = upfRts])
                  /\ sess' = Put(sess, nextSeid, [smf |-> m.smf, ref |-> m.ref])
                  /\ events' = Emit("established", nextSeid, m.ref, FALSE)
            /\ UNCHANGED <<upfRts, upfAssoc, dp, ueIp, untold>>
    BY <1>7 DEF HandleSessionEstablishmentRequest, Receive, Replies
  <2>2. m.smf \in Smf /\ m.ref \in Ref
    BY <2>1 DEF Datagram, EstNamesContext
  <2>3. nextSeid \in Nat
    BY DEF PfcpServerTypeOK
  <2>4. net' \subseteq Datagram
    BY <1>2, <2>1, <2>3, RespondType DEF Replies, SmfRequests, SessionRequests
  <2>5. IsPartialMap(sess', Nat, Owner)
    <3>1. [smf |-> m.smf, ref |-> m.ref] \in Owner
      BY <2>2 DEF Owner
    <3>2. IsPartialMap(Put(sess, nextSeid, [smf |-> m.smf, ref |-> m.ref]), Nat, Owner)
      BY <2>3, <3>1, PutType DEF PfcpServerTypeOK
    <3> QED BY <2>1, <3>2 DEF PfcpServerTypeOK
  <2>6. events' \in Seq(Event)
    BY <2>1, <2>2, <2>3, EmitType DEF PfcpServerTypeOK
  <2>7. nextSeid' \in Nat \ {0}
    <3>1. nextSeid' = nextSeid \/ nextSeid' = nextSeid + 1
      BY <2>1
    <3>2. nextSeid \in Nat \ {0}
      BY DEF PfcpServerTypeOK
    <3> QED BY <3>1, <3>2
  <2> QED BY <2>1, <2>4, <2>5, <2>6, <2>7 DEF PfcpServerTypeOK
<1>8. CASE HandleSessionModificationRequest
  <2>1. PICK m \in net :
            /\ m.kind = "ModReq"
            /\ Replies(m, Answer(m, m.seid \in DOMAIN sess))
            /\ events' = events \/ events' = Emit("modified", m.seid, NoRef, m.tun)
            /\ UNCHANGED <<upfRts, upfAssoc, sess, nextSeid, dp, ueIp, untold>>
    BY <1>8 DEF HandleSessionModificationRequest, Receive, Replies
  <2>2. m.seid \in Nat /\ m.tun \in BOOLEAN
    BY DEF Datagram
  <2>3. net' \subseteq Datagram
    <3>1. m.kind \in SmfRequests /\ (m.seid \in DOMAIN sess) \in BOOLEAN
      BY <2>1 DEF SmfRequests, SessionRequests
    <3>2. Answer(m, m.seid \in DOMAIN sess) \in Datagram
      BY <3>1, <1>2, <2>2, Zenon
    <3> QED BY <2>1, <3>2, RespondType
  <2>4. events' \in Seq(Event)
    BY <2>1, <2>2, EmitType DEF PfcpServerTypeOK
  <2> QED BY <2>1, <2>3, <2>4 DEF PfcpServerTypeOK
<1>9. CASE HandleSessionDeletionRequest
  <2>1. PICK m \in net :
            /\ m.kind = "DelReq"
            /\ \E b \in BOOLEAN : Replies(m, Answer(m, b))
            /\ sess' = Without(sess, m.seid) \/ sess' = sess
            /\ events' = Emit("deleted", m.seid, NoRef, FALSE) \/ events' = events
            /\ untold' \subseteq untold \cup {m.seid}
            /\ UNCHANGED <<upfRts, upfAssoc, nextSeid, dp, ueIp>>
    BY <1>9 DEF HandleSessionDeletionRequest, Receive, Replies
  <2>2. m.seid \in Nat
    BY DEF Datagram
  <2>3. net' \subseteq Datagram
    <3>1. m.kind \in SmfRequests
      BY <2>1 DEF SmfRequests, SessionRequests
    <3>2. PICK b \in BOOLEAN : Replies(m, Answer(m, b))
      BY <2>1
    <3>3. Answer(m, b) \in Datagram
      BY <3>1, <1>2, <2>2
    <3> QED BY <3>2, <3>3, RespondType
  <2>4. IsPartialMap(sess', Nat, Owner) /\ events' \in Seq(Event)
    <3>1. IsPartialMap(Without(sess, m.seid), Nat, Owner)
      BY WithoutType DEF PfcpServerTypeOK
    <3>2. Emit("deleted", m.seid, NoRef, FALSE) \in Seq(Event)
      BY <2>2, EmitType DEF PfcpServerTypeOK
    <3> QED BY <2>1, <3>1, <3>2 DEF PfcpServerTypeOK
  <2>5. untold' \subseteq Nat
    BY <2>1, <2>2 DEF PfcpServerTypeOK
  <2> QED BY <2>1, <2>3, <2>4, <2>5 DEF PfcpServerTypeOK
<1> QED BY <1>3, <1>4, <1>5, <1>6, <1>7, <1>8, <1>9 DEF ServerLoop

(***************************************************************************)
(* Type correctness through the data plane's session events.               *)
(***************************************************************************)
LEMMA TypeSessionEvent ==
    ASSUME PfcpServerTypeOK, HandleSessionEvent
    PROVE  /\ events' \in Seq(Event)
           /\ IsPartialMap(dp', Nat, Ref)
           /\ IsPartialMap(ueIp', Ref, Nat)
<1> DEFINE e == Head(events)
<1>1. e \in Event /\ events' \in Seq(Event)
  BY DEF HandleSessionEvent, PfcpServerTypeOK
<1>2. e.seid \in Nat /\ (e.kind = "established" => e.ue \in Ref)
  BY <1>1 DEF Event
<1>3. IsPartialMap(dp, Nat, Ref) /\ IsPartialMap(ueIp, Ref, Nat)
  BY DEF PfcpServerTypeOK
<1>4. CASE e.kind = "established"
  <2>1. dp' = Put(dp, e.seid, e.ue) /\ ueIp' = Put(ueIp, e.ue, e.seid)
    BY <1>4 DEF HandleSessionEvent, AddSession
  <2> QED BY <1>1, <1>2, <1>3, <1>4, <2>1, PutType
<1>5. CASE e.kind = "modified" /\ e.tun /\ e.seid \in DOMAIN dp
  <2>1. dp' = dp /\ ueIp' = Put(ueIp, dp[e.seid], e.seid)
    BY <1>5 DEF HandleSessionEvent
  <2>2. dp[e.seid] \in Ref
    BY <1>3, <1>5 DEF IsPartialMap
  <2> QED BY <1>1, <1>2, <1>3, <2>1, <2>2, PutType
<1>6. CASE e.kind = "deleted" /\ e.seid \in DOMAIN dp
  <2>1. dp' = Without(dp, e.seid) /\ ueIp' = Without(ueIp, dp[e.seid])
    BY <1>6 DEF HandleSessionEvent, RemoveSession
  <2> QED BY <1>1, <1>3, <2>1, WithoutType
<1>7. CASE e.kind = "peerFailure"
  <2>1. /\ dp' = Nothing
        /\ ueIp' = [u \in {v \in DOMAIN ueIp : \A k \in DOMAIN dp : dp[k] # v} |-> ueIp[u]]
    BY <1>7 DEF HandleSessionEvent
  <2>2. IsPartialMap(ueIp', Ref, Nat)
    BY <1>3, <2>1 DEF IsPartialMap
  <2> QED BY <1>1, <2>1, <2>2, NothingType
<1>8. CASE /\ e.kind # "established"
           /\ ~(e.kind = "modified" /\ e.tun /\ e.seid \in DOMAIN dp)
           /\ ~(e.kind = "deleted" /\ e.seid \in DOMAIN dp)
           /\ e.kind # "peerFailure"
  <2>1. UNCHANGED <<dp, ueIp>>
    BY <1>8 DEF HandleSessionEvent
  <2> QED BY <1>1, <1>3, <2>1
<1> QED BY <1>4, <1>5, <1>6, <1>7, <1>8

(***************************************************************************)
(* Type correctness through every step.                                    *)
(***************************************************************************)
LEMMA TypeNext ==
    ASSUME TypeOK, EstNamesContext, [Next]_vars
    PROVE  TypeOK'
<1>1. ASSUME NEW s \in Smf, PfcpClientNext(s), UNCHANGED serverVars
      PROVE  TypeOK'
  <2>1. PfcpClientTypeOK' /\ net' \subseteq Datagram
    BY <1>1, TypeMaintenance, TypeListener, TypeT1Expiry, TypeSmContextHandlers, TypeProcess
    DEF PfcpClientNext
  <2>2. PfcpServerTypeOK'
    BY <1>1 DEF serverVars, TypeOK, PfcpServerTypeOK
  <2> QED BY <2>1, <2>2 DEF TypeOK
<1>2. ASSUME PfcpServerNext, UNCHANGED clientVars
      PROVE  TypeOK'
  <2>1. PfcpClientTypeOK'
    BY <1>2 DEF clientVars, TypeOK, PfcpClientTypeOK
  <2>2. CASE ServerLoop
    BY <2>1, <2>2, TypeServerLoop DEF TypeOK
  <2>3. CASE SendHeartbeatRequest
    <3>1. PICK a \in upfAssoc :
              /\ net' = Sent(net, [Request("UHbReq", a.smf, NoSeq) EXCEPT
                                      !.att = 0, !.rts = upfRts])
              /\ UNCHANGED serverVars
      BY <2>3 DEF SendHeartbeatRequest
    <3>2. a.smf \in Smf /\ upfRts \in Nat
      BY MaxUpfRtsAssumption DEF TypeOK, PfcpServerTypeOK
    <3>3. Request("UHbReq", a.smf, NoSeq) \in Datagram
      BY <3>2, RequestType
    <3>4. [Request("UHbReq", a.smf, NoSeq) EXCEPT !.att = 0, !.rts = upfRts] \in Datagram
      <4>1. 0 \in 0 .. N1 + 1
        BY N1Assumption
      <4> QED BY <3>2, <3>3, <4>1 DEF Datagram
    <3>5. net' \subseteq Datagram
      BY <3>1, <3>4, SentSubset DEF TypeOK
    <3> QED BY <2>1, <3>1, <3>5 DEF TypeOK, PfcpServerTypeOK, serverVars
  <2>4. CASE HandleSessionEvent
    BY <2>1, <2>4, TypeSessionEvent DEF TypeOK, PfcpServerTypeOK, HandleSessionEvent
  <2>5. CASE UpfRestart
    BY <2>1, <2>5, NothingType, MaxUpfRtsAssumption DEF UpfRestart, TypeOK, PfcpServerTypeOK
  <2> QED BY <1>2, <2>2, <2>3, <2>4, <2>5 DEF PfcpServerNext
<1>3. ASSUME Lose, UNCHANGED <<clientVars, serverVars>>
      PROVE  TypeOK'
  BY <1>3 DEF Lose, clientVars, serverVars, TypeOK, PfcpClientTypeOK, PfcpServerTypeOK
<1>4. CASE UNCHANGED vars
  BY <1>4 DEF vars, clientVars, serverVars, TypeOK, PfcpClientTypeOK, PfcpServerTypeOK
<1> QED BY <1>1, <1>2, <1>3, <1>4 DEF Next

-----------------------------------------------------------------------------
(* Where the datagrams and requests of the next state come from.           *)

(***************************************************************************)
(* The request type that a message belongs to.                             *)
(***************************************************************************)
ExchangeOf(kind) ==
    CASE kind = "SetupRsp" -> "SetupReq"
      [] kind = "HbRsp"    -> "HbReq"
      [] kind = "RelRsp"   -> "RelReq"
      [] kind = "EstRsp"   -> "EstReq"
      [] kind = "ModRsp"   -> "ModReq"
      [] kind = "DelRsp"   -> "DelReq"
      [] kind = "UHbRsp"   -> "UHbReq"
      [] OTHER             -> kind

Msgs == net \cup reqs

(***************************************************************************)
(* m is a copy of o or an answer to it: the same exchange.                 *)
(***************************************************************************)
SameExchange(m, o) ==
    /\ m.smf = o.smf
    /\ m.seq = o.seq
    /\ m.ref = o.ref
    /\ ExchangeOf(m.kind) = ExchangeOf(o.kind)
    /\ m.kind = "EstReq" => o.kind = "EstReq"

SameSeid(m, o) == m.seid = o.seid /\ m.inc = o.inc

(***************************************************************************)
(* f opens an exchange, with no SEID or with the one stored for its        *)
(* context.                                                                *)
(***************************************************************************)
Opens(f) ==
    /\ \/ f.seq \in SeqNo /\ FreshSeq(f.smf, f.seq)
       \/ f.seq = NoSeq /\ f.ref = NoRef /\ f.kind = "UHbReq"
    /\ f.kind = "EstReq" => f.ref \in Ref
    /\ \/ f.inc = 0
       \/ f.smf \in Smf /\ f.ref \in Ref /\ SameSeid(f, held[f.smf][f.ref])

(***************************************************************************)
(* A step that issues no SEID either carries exchanges on or opens one.    *)
(***************************************************************************)
CarriesOn ==
    \A m \in Msgs' : \E o \in Msgs : SameExchange(m, o) /\ SameSeid(m, o)

OpensOne ==
    \E f : Opens(f) /\ Msgs' \subseteq Msgs \cup {f}

LEMMA FewerCarryOn ==
    ASSUME Msgs' \subseteq Msgs
    PROVE  CarriesOn
BY DEF CarriesOn, SameExchange, SameSeid

LEMMA TransmitOpens ==
    ASSUME NEW m, Opens(m), Transmit(m)
    PROVE  OpensOne
BY SentSubset DEF Transmit, OpensOne, Msgs

(***************************************************************************)
(* The steps of an SMF.                                                    *)
(***************************************************************************)
LEMMA ClientProvenance ==
    ASSUME TypeOK, NEW s \in Smf, PfcpClientNext(s)
    PROVE  CarriesOn \/ OpensOne
<1>1. ASSUME NEW kind \in NodeRequests, NEW q \in SeqNo, FreshSeq(s, q)
      PROVE  /\ Opens([Request(kind, s, q) EXCEPT !.rts = smfRts[s]])
             /\ Opens(Request(kind, s, q))
  BY <1>1 DEF Opens, Request, NodeRequests
<1>2. CASE Maintenance(s)
  <2>1. CASE Msgs' \subseteq Msgs
    BY <2>1, FewerCarryOn
  <2>2. CASE \E kind \in NodeRequests, q \in SeqNo :
                /\ FreshSeq(s, q)
                /\ Transmit([Request(kind, s, q) EXCEPT !.rts = smfRts[s]])
    BY <1>1, <2>2, TransmitOpens
  <2> QED
    BY <1>2, <2>1, <2>2 DEF Maintenance, MaintainAssociate, MaintainHeartbeat, Msgs, NodeRequests
<1>3. CASE Listener(s) /\ ~OnHeartbeatRequest(s)
  <2>1. Msgs' \subseteq Msgs
    BY <1>3 DEF Listener, OnSetupResponse, OnHeartbeatResponse, OnEstablishmentResponse,
       OnModificationResponse, OnDeletionResponse, DropLateResponse, ListenerStops,
       Completes, Msgs
  <2> QED BY <2>1, FewerCarryOn
<1>4. CASE OnHeartbeatRequest(s)
  <2>1. PICK m \in net :
            /\ m.kind = "UHbReq"
            /\ net' = Sent(net \ {m}, [m EXCEPT !.kind = "UHbRsp", !.rts = smfRts[s]])
            /\ reqs' = reqs
    BY <1>4 DEF OnHeartbeatRequest
  <2> DEFINE a == [m EXCEPT !.kind = "UHbRsp", !.rts = smfRts[s]]
  <2>2. m \in Datagram
    BY DEF TypeOK
  <2>3. SameExchange(a, m) /\ SameSeid(a, m)
    BY <2>1, <2>2 DEF SameExchange, SameSeid, ExchangeOf, Datagram
  <2>4. Msgs' \subseteq Msgs \cup {a}
    BY <2>1, SentSubset DEF Msgs
  <2> QED BY <2>1, <2>3, <2>4 DEF CarriesOn, Msgs, SameExchange, SameSeid
<1>5. CASE T1Retransmit(s)
  <2>1. PICK r \in reqs :
            /\ reqs' = (reqs \ {r}) \cup {[r EXCEPT !.att = @ + 1]}
            /\ net' = Sent(net, [r EXCEPT !.att = @ + 1])
    BY <1>5 DEF T1Retransmit
  <2> DEFINE a == [r EXCEPT !.att = @ + 1]
  <2>2. r \in Datagram
    BY DEF TypeOK, PfcpClientTypeOK
  <2>3. SameExchange(a, r) /\ SameSeid(a, r)
    BY <2>2 DEF SameExchange, SameSeid, Datagram
  <2>4. Msgs' \subseteq Msgs \cup {a}
    <3>1. Sent(net, a) \subseteq net \cup {a}
      BY SentSubset
    <3> QED BY <2>1, <3>1 DEF Msgs
  <2> QED BY <2>3, <2>4 DEF CarriesOn, Msgs, SameExchange, SameSeid
<1>6. CASE NodeRequestFails(s) \/ SessionRequestFails(s)
  <2>1. Msgs' \subseteq Msgs
    BY <1>6 DEF NodeRequestFails, SessionRequestFails, RequestFails, Msgs
  <2> QED BY <2>1, FewerCarryOn
<1>7. CASE SmContextHandlers(s)
  <2>1. PICK r \in Ref :
            \/ SmContextCreate(s, r)
            \/ \E what \in {"activate", "other"} : SmContextUpdate(s, r, what)
            \/ SmContextRelease(s, r)
    BY <1>7 DEF SmContextHandlers
  <2>2. ASSUME NEW kind \in {"ModReq", "DelReq"}, NEW q \in SeqNo, FreshSeq(s, q), NEW b
        PROVE  /\ Opens([Request("EstReq", s, q) EXCEPT !.ref = r])
               /\ Opens(SessionRequest(kind, s, q, r))
               /\ Opens([SessionRequest(kind, s, q, r) EXCEPT !.tun = b])
    BY <2>2 DEF Opens, Request, SessionRequest, SameSeid
  <2>3. CASE SmContextCreate(s, r)
    BY <2>2, <2>3, TransmitOpens DEF SmContextCreate
  <2>4. CASE \E what \in {"activate", "other"} : SmContextUpdate(s, r, what)
    BY <2>2, <2>4, TransmitOpens DEF SmContextUpdate
  <2>5. CASE SmContextRelease(s, r)
    <3>1. CASE Msgs' \subseteq Msgs
      BY <3>1, FewerCarryOn
    <3>2. CASE \E q \in SeqNo : FreshSeq(s, q) /\ Transmit(SessionRequest("DelReq", s, q, r))
      BY <2>2, <3>2, TransmitOpens
    <3> QED BY <2>5, <3>1, <3>2 DEF SmContextRelease, Msgs
  <2> QED BY <2>1, <2>3, <2>4, <2>5
<1>8. CASE Shutdown(s) /\ associated[s]
  <2>1. PICK q \in SeqNo :
            /\ FreshSeq(s, q)
            /\ reqs' = {r \in reqs : r.smf = s => r.kind \notin NodeRequests}
                          \cup {Request("RelReq", s, q)}
            /\ net' = Sent(net, Request("RelReq", s, q))
    BY <1>8 DEF Shutdown
  <2>2. Opens(Request("RelReq", s, q))
    BY <1>1, <2>1 DEF NodeRequests
  <2>3. Msgs' \subseteq Msgs \cup {Request("RelReq", s, q)}
    BY <2>1, SentSubset DEF Msgs
  <2> QED BY <2>2, <2>3 DEF OpensOne
<1>9. CASE Process(s) /\ ~(Shutdown(s) /\ associated[s])
  <2>1. Msgs' \subseteq Msgs
    BY <1>9 DEF Process, Shutdown, ReleaseDone, Crash, Start, ProcessGone, Msgs
  <2> QED BY <2>1, FewerCarryOn
<1> QED
  BY <1>2, <1>3, <1>4, <1>5, <1>6, <1>7, <1>8, <1>9 DEF PfcpClientNext, T1Expiry

(***************************************************************************)
(* The steps of the UPF other than an accepted establishment: sessions may *)
(* go, none is added, and no SEID leaves the UPF, although one is passed   *)
(* over where the response of an establishment is refused.                 *)
(***************************************************************************)
NoSessionAdded ==
    /\ upfRts' = upfRts
    /\ nextSeid' \in {nextSeid, nextSeid + 1}
    /\ DOMAIN sess' \subseteq DOMAIN sess
    /\ \A k \in DOMAIN sess' : sess'[k] = sess[k]

(***************************************************************************)
(* An accepted establishment request m: the next SEID goes to its context. *)
(***************************************************************************)
Establishes(m) ==
    /\ m \in net
    /\ m.kind = "EstReq"
    /\ net' \subseteq net \cup {[Answer(m, TRUE) EXCEPT !.seid = nextSeid, !.inc = upfRts]}
    /\ UNCHANGED <<reqs, upfRts>>
    /\ nextSeid' = nextSeid + 1
    /\ sess' = Put(sess, nextSeid, [smf |-> m.smf, ref |-> m.ref])

(***************************************************************************)
(* An answer belongs to the exchange of its request.                       *)
(***************************************************************************)
LEMMA AnswerSameExchange ==
    ASSUME NEW m \in Datagram, m.kind \in SmfRequests, NEW b, NEW x
    PROVE  /\ SameExchange(Answer(m, b), m) /\ SameSeid(Answer(m, b), m)
           /\ SameExchange([Answer(m, b) EXCEPT !.rts = x], m)
           /\ SameSeid([Answer(m, b) EXCEPT !.rts = x], m)
<1>1. /\ ExchangeOf(RspOf(m.kind)) = ExchangeOf(m.kind)
      /\ RspOf(m.kind) # "EstReq"
  BY DEF SmfRequests, SessionRequests, NodeRequests, RspOf, ExchangeOf
<1> QED BY <1>1 DEF Answer, SameExchange, SameSeid, Datagram

LEMMA RespondCarriesOn ==
    ASSUME NEW m \in net, NEW rsp, SameExchange(rsp, m), SameSeid(rsp, m),
           Replies(m, rsp), reqs' = reqs
    PROVE  CarriesOn
<1>1. Msgs' \subseteq Msgs \cup {rsp}
  BY SentSubset DEF Replies, Respond, Refused, Msgs
<1> QED BY <1>1 DEF CarriesOn, Msgs, SameExchange, SameSeid

LEMMA PeerFailureAddsNone ==
    ASSUME PeerFailure, UNCHANGED <<upfRts, nextSeid>>
    PROVE  NoSessionAdded
BY DEF PeerFailure, NoSessionAdded, Nothing

LEMMA ServerProvenance ==
    ASSUME TypeOK, ServerLoop, reqs' = reqs
    PROVE  (NoSessionAdded /\ CarriesOn) \/ \E m : Establishes(m)
<1>1. \A m \in net : m \in Datagram
  BY DEF TypeOK
<1>2. CASE HandleHeartbeatRequest
  <2>1. PICK m \in net :
            /\ m.kind = "HbReq"
            /\ CheckPeerRecovery(m.smf, m.rts)
            /\ Respond(m, [Answer(m, TRUE) EXCEPT !.rts = upfRts])
            /\ UNCHANGED <<upfRts, nextSeid>>
    BY <1>2 DEF HandleHeartbeatRequest, Receive
  <2>2. NoSessionAdded
    BY <2>1, PeerFailureAddsNone DEF CheckPeerRecovery, NoSessionAdded
  <2>3. m \in Datagram /\ m.kind \in SmfRequests
    BY <1>1, <2>1 DEF SmfRequests, NodeRequests
  <2>4. CarriesOn
    BY <2>1, <2>3, AnswerSameExchange, RespondCarriesOn DEF Replies
  <2> QED BY <2>2, <2>4
<1>3. CASE HandleHeartbeatResponse
  <2>1. CarriesOn
    BY <1>3, FewerCarryOn DEF HandleHeartbeatResponse, Msgs
  <2>2. NoSessionAdded
    BY <1>3, PeerFailureAddsNone DEF HandleHeartbeatResponse, CheckPeerRecovery, NoSessionAdded
  <2> QED BY <2>1, <2>2
<1>4. CASE HandleAssociationSetupRequest
  <2>1. PICK m \in net :
            /\ m.kind = "SetupReq"
            /\ sess' = Nothing \/ sess' = sess
            /\ Respond(m, [Answer(m, TRUE) EXCEPT !.rts = upfRts])
            /\ UNCHANGED <<upfRts, nextSeid>>
    BY <1>4 DEF HandleAssociationSetupRequest, Receive
  <2>2. NoSessionAdded
    BY <2>1 DEF NoSessionAdded, Nothing
  <2>3. m \in Datagram /\ m.kind \in SmfRequests
    BY <1>1, <2>1 DEF SmfRequests, NodeRequests
  <2>4. CarriesOn
    BY <2>1, <2>3, AnswerSameExchange, RespondCarriesOn DEF Replies
  <2> QED BY <2>2, <2>4
<1>5. CASE HandleAssociationReleaseRequest
  <2>1. PICK m \in net :
            /\ m.kind = "RelReq"
            /\ PeerFailure \/ UNCHANGED <<upfAssoc, sess, events, untold>>
            /\ Replies(m, Answer(m, TRUE))
            /\ UNCHANGED <<upfRts, nextSeid>>
    BY <1>5 DEF HandleAssociationReleaseRequest, Receive, Replies
  <2>2. NoSessionAdded
    BY <2>1, PeerFailureAddsNone DEF NoSessionAdded
  <2>3. m \in Datagram /\ m.kind \in SmfRequests
    BY <1>1, <2>1 DEF SmfRequests, NodeRequests
  <2>4. CarriesOn
    BY <2>1, <2>3, AnswerSameExchange, RespondCarriesOn
  <2> QED BY <2>2, <2>4
<1>6. CASE HandleSessionEstablishmentRequest
  <2>1. PICK m \in net :
            /\ m.kind = "EstReq"
            /\ upfRts' = upfRts
            /\ \/ /\ Replies(m, Answer(m, FALSE))
                  /\ sess' = sess
                  /\ nextSeid' \in {nextSeid, nextSeid + 1}
               \/ /\ Respond(m, [Answer(m, TRUE) EXCEPT !.seid = nextSeid, !.inc = upfRts])
                  /\ sess' = Put(sess, nextSeid, [smf |-> m.smf, ref |-> m.ref])
                  /\ nextSeid' = nextSeid + 1
    BY <1>6 DEF HandleSessionEstablishmentRequest, Receive, Replies
  <2>2. m \in Datagram /\ m.kind \in SmfRequests
    BY <1>1, <2>1 DEF SmfRequests, SessionRequests
  <2>3. CASE Replies(m, Answer(m, FALSE)) /\ sess' = sess
    <3>1. CarriesOn
      BY <2>2, <2>3, AnswerSameExchange, RespondCarriesOn
    <3>2. NoSessionAdded
      BY <2>1, <2>3 DEF NoSessionAdded
    <3> QED BY <3>1, <3>2
  <2>4. CASE /\ Respond(m, [Answer(m, TRUE) EXCEPT !.seid = nextSeid, !.inc = upfRts])
             /\ sess' = Put(sess, nextSeid, [smf |-> m.smf, ref |-> m.ref])
             /\ nextSeid' = nextSeid + 1
    <3>1. net' \subseteq net \cup {[Answer(m, TRUE) EXCEPT !.seid = nextSeid, !.inc = upfRts]}
      BY <2>4, SentSubset DEF Respond
    <3> QED BY <2>1, <2>4, <3>1 DEF Establishes
  <2> QED BY <2>1, <2>3, <2>4
<1>7. CASE HandleSessionModificationRequest
  <2>1. PICK m \in net :
            /\ m.kind = "ModReq"
            /\ Replies(m, Answer(m, m.seid \in DOMAIN sess))
            /\ UNCHANGED <<upfRts, nextSeid, sess>>
    BY <1>7 DEF HandleSessionModificationRequest, Receive, Replies
  <2>2. m \in Datagram /\ m.kind \in SmfRequests
    BY <1>1, <2>1 DEF SmfRequests, SessionRequests
  <2>3. CarriesOn
    BY <2>1, <2>2, AnswerSameExchange, RespondCarriesOn, Zenon
  <2> QED BY <2>1, <2>3 DEF NoSessionAdded
<1>8. CASE HandleSessionDeletionRequest
  <2>1. PICK m \in net :
            /\ m.kind = "DelReq"
            /\ \E b : Replies(m, Answer(m, b))
            /\ sess' = Without(sess, m.seid) \/ sess' = sess
            /\ UNCHANGED <<upfRts, nextSeid>>
    BY <1>8 DEF HandleSessionDeletionRequest, Receive, Replies
  <2>2. m \in Datagram /\ m.kind \in SmfRequests
    BY <1>1, <2>1 DEF SmfRequests, SessionRequests
  <2>3. CarriesOn
    BY <2>1, <2>2, AnswerSameExchange, RespondCarriesOn, Zenon
  <2> QED BY <2>1, <2>3 DEF NoSessionAdded, Without
<1> QED
  BY <1>2, <1>3, <1>4, <1>5, <1>6, <1>7, <1>8 DEF ServerLoop

-----------------------------------------------------------------------------
(* Correlation: a sequence number belongs to one exchange at a time.       *)

OneExchangePerSeq ==
    \A m, o \in Msgs :
        m.smf = o.smf /\ m.seq = o.seq =>
            m.ref = o.ref /\ ExchangeOf(m.kind) = ExchangeOf(o.kind)

HeartbeatsUnnumbered ==
    \A m \in Msgs : m.seq = NoSeq => m.ref = NoRef /\ ExchangeOf(m.kind) = "UHbReq"

CorrelationInv ==
    EstNamesContext /\ OneExchangePerSeq /\ HeartbeatsUnnumbered

LEMMA CarriedCorrelation ==
    ASSUME CorrelationInv, \A m \in Msgs' : \E o \in Msgs : SameExchange(m, o)
    PROVE  CorrelationInv'
<1>1. EstNamesContext'
  BY DEF CorrelationInv, EstNamesContext, SameExchange, Msgs
<1>2. OneExchangePerSeq'
  <2> SUFFICES ASSUME NEW m \in Msgs', NEW o \in Msgs', m.smf = o.smf, m.seq = o.seq
               PROVE  m.ref = o.ref /\ ExchangeOf(m.kind) = ExchangeOf(o.kind)
    BY DEF OneExchangePerSeq
  <2>1. PICK m0 \in Msgs : SameExchange(m, m0)
    OBVIOUS
  <2>2. PICK o0 \in Msgs : SameExchange(o, o0)
    OBVIOUS
  <2>3. m0.smf = o0.smf /\ m0.seq = o0.seq
    BY <2>1, <2>2 DEF SameExchange
  <2>4. m0.ref = o0.ref /\ ExchangeOf(m0.kind) = ExchangeOf(o0.kind)
    BY <2>3 DEF CorrelationInv, OneExchangePerSeq
  <2> QED BY <2>1, <2>2, <2>4 DEF SameExchange
<1>3. HeartbeatsUnnumbered'
  BY DEF CorrelationInv, HeartbeatsUnnumbered, SameExchange
<1> QED BY <1>1, <1>2, <1>3 DEF CorrelationInv

LEMMA OpenedCorrelation ==
    ASSUME CorrelationInv, OpensOne
    PROVE  CorrelationInv'
<1>1. PICK f : Opens(f) /\ Msgs' \subseteq Msgs \cup {f}
  BY DEF OpensOne
<1>2. EstNamesContext'
  BY <1>1 DEF CorrelationInv, EstNamesContext, Opens, Msgs
<1>3. \A m \in Msgs : m.smf = f.smf /\ m.seq = f.seq =>
                         m.ref = f.ref /\ ExchangeOf(m.kind) = ExchangeOf(f.kind)
  <2>1. CASE f.seq \in SeqNo /\ FreshSeq(f.smf, f.seq)
    BY <2>1 DEF FreshSeq, Msgs
  <2>2. CASE f.seq = NoSeq /\ f.ref = NoRef /\ f.kind = "UHbReq"
    BY <2>2 DEF CorrelationInv, HeartbeatsUnnumbered, ExchangeOf
  <2> QED BY <1>1, <2>1, <2>2 DEF Opens
<1>4. OneExchangePerSeq'
  BY <1>1, <1>3 DEF CorrelationInv, OneExchangePerSeq
<1>5. HeartbeatsUnnumbered'
  <2>1. f.seq = NoSeq => f.ref = NoRef /\ ExchangeOf(f.kind) = "UHbReq"
    BY <1>1, NoSeqAssumption DEF Opens, ExchangeOf
  <2> QED BY <1>1, <2>1 DEF CorrelationInv, HeartbeatsUnnumbered
<1> QED BY <1>2, <1>4, <1>5 DEF CorrelationInv

-----------------------------------------------------------------------------
(* SEIDs: what a UPF incarnation issued, and to whom.                      *)

(***************************************************************************)
(* The SEID in h, issued to context r of SMF s: it is from an earlier UPF  *)
(* incarnation, or below the next one, and if its session lives, that is   *)
(* the context's.  The bound nextSeid is what makes this inductive.        *)
(***************************************************************************)
Sound(h, s, r) ==
    /\ h.inc <= upfRts
    /\ h.inc = upfRts => h.seid < nextSeid
    /\ h.inc = upfRts /\ h.seid \in DOMAIN sess => sess[h.seid] = [smf |-> s, ref |-> r]

SeidInv ==
    /\ \A k \in DOMAIN sess : k < nextSeid
    /\ \A s \in Smf, r \in Ref : Sound(held[s][r], s, r)
    /\ \A m \in Msgs : Sound(m, m.smf, m.ref)

(***************************************************************************)
(* While the UPF adds no session, whatever was sound remains so.           *)
(***************************************************************************)
LEMMA SoundKept ==
    ASSUME TypeOK, NoSessionAdded, NEW h, h.seid \in Nat, NEW s, NEW r, Sound(h, s, r)
    PROVE  Sound(h, s, r)'
BY DEF NoSessionAdded, Sound, TypeOK, PfcpServerTypeOK

LEMMA SeidsAreNumbers ==
    ASSUME TypeOK
    PROVE  \A m \in Msgs : m.seid \in Nat
BY DEF TypeOK, PfcpClientTypeOK, Msgs, Datagram

LEMMA CarriedSound ==
    ASSUME TypeOK, SeidInv, NoSessionAdded, CarriesOn
    PROVE  \A m \in Msgs' : Sound(m, m.smf, m.ref)'
<1> SUFFICES ASSUME NEW m \in Msgs'
             PROVE  Sound(m, m.smf, m.ref)'
  OBVIOUS
<1>1. PICK o \in Msgs : SameExchange(m, o) /\ SameSeid(m, o)
  BY DEF CarriesOn
<1>2. Sound(m, m.smf, m.ref)
  BY <1>1 DEF SeidInv, Sound, SameExchange, SameSeid
<1>3. m.seid \in Nat
  BY <1>1, SeidsAreNumbers DEF SameSeid
<1> QED BY <1>2, <1>3, SoundKept

LEMMA OpenedSound ==
    ASSUME TypeOK, SeidInv, NoSessionAdded, OpensOne
    PROVE  \A m \in Msgs' : Sound(m, m.smf, m.ref)'
<1>1. PICK f : Opens(f) /\ Msgs' \subseteq Msgs \cup {f}
  BY DEF OpensOne
<1>2. Sound(f, f.smf, f.ref)'
  <2>1. CASE f.inc = 0
    BY <2>1 DEF Sound, NoSessionAdded, TypeOK, PfcpServerTypeOK
  <2>2. CASE f.smf \in Smf /\ f.ref \in Ref /\ SameSeid(f, held[f.smf][f.ref])
    <3>1. Sound(f, f.smf, f.ref)
      BY <2>2 DEF SeidInv, Sound, SameSeid
    <3>2. f.seid \in Nat
      BY <2>2 DEF SameSeid, TypeOK, PfcpClientTypeOK
    <3> QED BY <3>1, <3>2, SoundKept
  <2> QED BY <1>1, <2>1, <2>2 DEF Opens
<1> SUFFICES ASSUME NEW m \in Msgs'
             PROVE  Sound(m, m.smf, m.ref)'
  OBVIOUS
<1>3. CASE m \in Msgs
  <2>1. Sound(m, m.smf, m.ref) /\ m.seid \in Nat
    BY <1>3, SeidsAreNumbers DEF SeidInv
  <2> QED BY <2>1, SoundKept
<1> QED BY <1>1, <1>2, <1>3

(***************************************************************************)
(* What an SMF stores: nothing new, nothing, or the SEID of the response   *)
(* that completed a request of that context.                               *)
(***************************************************************************)
Stored(t, x) ==
    \/ held'[t][x] = held[t][x]
    \/ held'[t][x] = NoSeid
    \/ \E m \in net, r \in reqs :
          /\ m.smf = t /\ r.smf = t /\ m.seq = r.seq /\ r.ref = x
          /\ held'[t][x] = [seid |-> m.seid, inc |-> m.inc]

LEMMA HeldProvenance ==
    ASSUME TypeOK, NEW s \in Smf, PfcpClientNext(s), NEW t \in Smf, NEW x \in Ref
    PROVE  Stored(t, x)
<1>1. held \in [Smf -> [Ref -> [seid : Nat, inc : Nat]]]
  BY DEF TypeOK, PfcpClientTypeOK
<1>2. CASE held' = held
  BY <1>2 DEF Stored
<1>3. CASE held' = [held EXCEPT ![s] = NoSessions]
  BY <1>1, <1>3 DEF Stored, NoSessions
<1>4. CASE \E y : held' = [held EXCEPT ![s][y] = NoSeid]
  BY <1>1, <1>4 DEF Stored
<1>5. CASE \E m \in net, r \in reqs :
              /\ m.smf = s /\ r.smf = s /\ m.seq = r.seq
              /\ held' = [held EXCEPT ![s][r.ref] = [seid |-> m.seid, inc |-> m.inc]]
  <2>1. PICK m \in net, r \in reqs :
            /\ m.smf = s /\ r.smf = s /\ m.seq = r.seq
            /\ held' = [held EXCEPT ![s][r.ref] = [seid |-> m.seid, inc |-> m.inc]]
    BY <1>5
  <2>2. CASE t = s /\ x = r.ref
    <3>1. held'[t][x] = [seid |-> m.seid, inc |-> m.inc]
      BY <1>1, <2>1, <2>2
    <3> QED BY <2>1, <2>2, <3>1 DEF Stored
  <2>3. CASE ~(t = s /\ x = r.ref)
    <3>1. held'[t][x] = held[t][x]
      BY <1>1, <2>1, <2>3
    <3> QED BY <3>1 DEF Stored
  <2> QED BY <2>2, <2>3
<1>6. CASE Maintenance(s)
  BY <1>2, <1>6 DEF Maintenance, MaintainAssociate, MaintainHeartbeat
<1>7. CASE Listener(s)
  <2>1. CASE OnSetupResponse(s)
    BY <1>2, <1>3, <2>1 DEF OnSetupResponse
  <2>2. CASE OnHeartbeatResponse(s) \/ OnHeartbeatRequest(s)
    BY <1>2, <1>3, <2>2 DEF OnHeartbeatResponse, OnHeartbeatRequest, CheckPeerRestart
  <2>3. CASE OnEstablishmentResponse(s)
    BY <1>2, <1>5, <2>3 DEF OnEstablishmentResponse, Completes
  <2>4. CASE OnDeletionResponse(s)
    BY <1>4, <2>4 DEF OnDeletionResponse
  <2>5. CASE OnModificationResponse(s) \/ DropLateResponse(s) \/ ListenerStops(s)
    BY <1>2, <2>5 DEF OnModificationResponse, DropLateResponse, ListenerStops
  <2> QED BY <1>7, <2>1, <2>2, <2>3, <2>4, <2>5 DEF Listener
<1>8. CASE T1Expiry(s)
  BY <1>2, <1>4, <1>8 DEF T1Expiry, T1Retransmit, NodeRequestFails, SessionRequestFails, RequestFails
<1>9. CASE SmContextHandlers(s)
  BY <1>2, <1>4, <1>9
  DEF SmContextHandlers, SmContextCreate, SmContextUpdate, SmContextRelease
<1>10. CASE Process(s)
  BY <1>2, <1>3, <1>10 DEF Process, Shutdown, ReleaseDone, Crash, Start, ProcessGone
<1> QED
  BY <1>6, <1>7, <1>8, <1>9, <1>10 DEF PfcpClientNext

(***************************************************************************)
(* The pending tables hold requests only.                                  *)
(***************************************************************************)
PendingAreRequests == \A r \in reqs : r.kind \in SmfRequests

LEMMA PendingNext ==
    ASSUME TypeOK, PendingAreRequests, [Next]_vars
    PROVE  PendingAreRequests'
<1> USE DEF PendingAreRequests
<1>1. CASE reqs' \subseteq reqs
  BY <1>1
<1>2. ASSUME NEW m, m.kind \in SmfRequests, reqs' \subseteq reqs \cup {m}
      PROVE  PendingAreRequests'
  BY <1>2
<1>3. ASSUME NEW s \in Smf, PfcpClientNext(s)
      PROVE  PendingAreRequests'
  <2>1. ASSUME NEW kind \in SmfRequests, NEW q, NEW x, NEW y
        PROVE  /\ Request(kind, s, q).kind \in SmfRequests
               /\ [Request(kind, s, q) EXCEPT !.rts = x].kind \in SmfRequests
               /\ [Request(kind, s, q) EXCEPT !.ref = x].kind \in SmfRequests
               /\ SessionRequest(kind, s, q, x).kind \in SmfRequests
               /\ [SessionRequest(kind, s, q, x) EXCEPT !.tun = y].kind \in SmfRequests
    BY DEF Request, SessionRequest
  <2>2. {"SetupReq", "HbReq", "RelReq", "EstReq", "ModReq", "DelReq"} \subseteq SmfRequests
    BY DEF SmfRequests, SessionRequests, NodeRequests
  <2>3. CASE Maintenance(s)
    BY <1>1, <1>2, <2>1, <2>2, <2>3 DEF Maintenance, MaintainAssociate, MaintainHeartbeat, Transmit
  <2>4. CASE Listener(s)
    <3>1. reqs' \subseteq reqs
      BY <2>4 DEF Listener, OnSetupResponse, OnHeartbeatResponse, OnHeartbeatRequest,
         OnEstablishmentResponse, OnModificationResponse, OnDeletionResponse,
         DropLateResponse, ListenerStops, Completes
    <3> QED BY <1>1, <3>1
  <2>5. CASE T1Retransmit(s)
    <3>1. PICK r \in reqs : reqs' = (reqs \ {r}) \cup {[r EXCEPT !.att = @ + 1]}
      BY <2>5 DEF T1Retransmit
    <3>2. [r EXCEPT !.att = @ + 1].kind \in SmfRequests
      BY DEF TypeOK, PfcpClientTypeOK, Datagram
    <3> QED BY <1>2, <3>1, <3>2
  <2>6. CASE NodeRequestFails(s) \/ SessionRequestFails(s)
    BY <1>1, <2>6 DEF NodeRequestFails, SessionRequestFails, RequestFails
  <2>7. CASE SmContextHandlers(s)
    <3>1. PICK r \in Ref :
              \/ SmContextCreate(s, r)
              \/ \E what \in {"activate", "other"} : SmContextUpdate(s, r, what)
              \/ SmContextRelease(s, r)
      BY <2>7 DEF SmContextHandlers
    <3>2. CASE SmContextCreate(s, r)
      BY <1>2, <2>1, <2>2, <3>2 DEF SmContextCreate, Transmit
    <3>3. CASE \E what \in {"activate", "other"} : SmContextUpdate(s, r, what)
      BY <1>2, <2>1, <2>2, <3>3 DEF SmContextUpdate, Transmit
    <3>4. CASE SmContextRelease(s, r)
      BY <1>1, <1>2, <2>1, <2>2, <3>4 DEF SmContextRelease, Transmit
    <3> QED BY <3>1, <3>2, <3>3, <3>4
  <2>8. CASE Shutdown(s) /\ associated[s]
    <3>1. PICK q \in SeqNo : reqs' \subseteq reqs \cup {Request("RelReq", s, q)}
      BY <2>8 DEF Shutdown
    <3> QED BY <1>2, <2>1, <2>2, <3>1
  <2>9. CASE Process(s) /\ ~(Shutdown(s) /\ associated[s])
    BY <1>1, <2>9 DEF Process, Shutdown, ReleaseDone, Crash, Start, ProcessGone
  <2> QED BY <1>3, <2>3, <2>4, <2>5, <2>6, <2>7, <2>8, <2>9 DEF PfcpClientNext, T1Expiry
<1> QED BY <1>1, <1>3 DEF Next, vars, clientVars

(***************************************************************************)
(* The inductive invariant.                                                *)
(***************************************************************************)
IInv == TypeOK /\ PendingAreRequests /\ CorrelationInv /\ SeidInv

LEMMA InvInit == Init => IInv
<1> SUFFICES ASSUME Init PROVE IInv
  OBVIOUS
<1>1. TypeOK
  BY TypeInit
<1>2. Msgs = {} /\ DOMAIN sess = {} /\ upfRts = 1
  BY DEF Init, PfcpClientInit, PfcpServerInit, Msgs, Nothing
<1>3. CorrelationInv
  BY <1>2 DEF CorrelationInv, EstNamesContext, OneExchangePerSeq, HeartbeatsUnnumbered, Msgs
<1>4. \A s \in Smf, r \in Ref : held[s][r] = [seid |-> 0, inc |-> 0]
  BY DEF Init, PfcpClientInit, NoSessions, NoSeid
<1>5. SeidInv
  BY <1>2, <1>4 DEF SeidInv, Sound
<1>6. PendingAreRequests
  BY <1>2 DEF PendingAreRequests, Msgs
<1> QED BY <1>1, <1>3, <1>5, <1>6 DEF IInv

(***************************************************************************)
(* A step of an SMF.                                                       *)
(***************************************************************************)
LEMMA InvClient ==
    ASSUME IInv, NEW s \in Smf, PfcpClientNext(s), UNCHANGED serverVars
    PROVE  CorrelationInv' /\ SeidInv'
<1>1. TypeOK /\ CorrelationInv /\ SeidInv
  BY DEF IInv
<1>2. NoSessionAdded
  BY DEF NoSessionAdded, serverVars
<1>3. CarriesOn \/ OpensOne
  BY <1>1, ClientProvenance
<1>4. CorrelationInv'
  BY <1>1, <1>3, CarriedCorrelation, OpenedCorrelation DEF CarriesOn
<1>5. \A m \in Msgs' : Sound(m, m.smf, m.ref)'
  BY <1>1, <1>2, <1>3, CarriedSound, OpenedSound
<1>6. ASSUME NEW t \in Smf, NEW x \in Ref
      PROVE  Sound(held[t][x], t, x)'
  <2>1. Stored(t, x)
    BY <1>1, HeldProvenance
  <2>2. CASE held'[t][x] = held[t][x]
    BY <1>1, <2>2 DEF SeidInv, Sound, serverVars
  <2>3. CASE held'[t][x] = NoSeid
    BY <1>1, <2>3 DEF Sound, serverVars, NoSeid, TypeOK, PfcpServerTypeOK
  <2>4. CASE \E m \in net, r \in reqs :
                /\ m.smf = t /\ r.smf = t /\ m.seq = r.seq /\ r.ref = x
                /\ held'[t][x] = [seid |-> m.seid, inc |-> m.inc]
    <3>1. PICK m \in net, r \in reqs :
              /\ m.smf = t /\ r.smf = t /\ m.seq = r.seq /\ r.ref = x
              /\ held'[t][x] = [seid |-> m.seid, inc |-> m.inc]
      BY <2>4
    <3>2. m.ref = x
      BY <1>1, <3>1 DEF CorrelationInv, OneExchangePerSeq, Msgs
    <3>3. Sound(m, t, x)
      BY <1>1, <3>1, <3>2 DEF SeidInv, Msgs
    <3> QED BY <3>1, <3>3 DEF Sound, serverVars
  <2> QED BY <2>1, <2>2, <2>3, <2>4 DEF Stored
<1>7. \A k \in DOMAIN sess' : k < nextSeid'
  BY <1>1 DEF SeidInv, serverVars
<1>8. SeidInv'
  BY <1>5, <1>6, <1>7 DEF SeidInv
<1> QED BY <1>4, <1>8

(***************************************************************************)
(* A step of the UPF, or of the network, that issues no SEID.              *)
(***************************************************************************)
LEMMA InvNoSessionAdded ==
    ASSUME IInv, NoSessionAdded, CarriesOn \/ OpensOne, held' = held
    PROVE  CorrelationInv' /\ SeidInv'
<1>1. TypeOK /\ CorrelationInv /\ SeidInv
  BY DEF IInv
<1>2. CorrelationInv'
  BY <1>1, CarriedCorrelation, OpenedCorrelation DEF CarriesOn
<1>3. \A m \in Msgs' : Sound(m, m.smf, m.ref)'
  BY <1>1, CarriedSound, OpenedSound
<1>4. ASSUME NEW t \in Smf, NEW x \in Ref
      PROVE  Sound(held[t][x], t, x)'
  <2>1. held[t][x].seid \in Nat /\ nextSeid \in Nat
    BY <1>1 DEF TypeOK, PfcpClientTypeOK, PfcpServerTypeOK
  <2> QED BY <1>1, <2>1 DEF SeidInv, Sound, NoSessionAdded
<1>5. \A k \in DOMAIN sess' : k < nextSeid'
  <2>1. DOMAIN sess \subseteq Nat /\ nextSeid \in Nat
    BY <1>1 DEF TypeOK, PfcpServerTypeOK, IsPartialMap
  <2> QED BY <1>1, <2>1 DEF SeidInv, NoSessionAdded
<1> QED BY <1>2, <1>3, <1>4, <1>5 DEF SeidInv

(***************************************************************************)
(* An accepted establishment: the SEID it issues is new, so whoever holds  *)
(* a SEID of this incarnation keeps what it led to.                        *)
(***************************************************************************)
LEMMA InvEstablishes ==
    ASSUME IInv, NEW m, Establishes(m), held' = held
    PROVE  CorrelationInv' /\ SeidInv'
<1>1. TypeOK /\ CorrelationInv /\ SeidInv
  BY DEF IInv
<1> DEFINE a == [Answer(m, TRUE) EXCEPT !.seid = nextSeid, !.inc = upfRts]
<1>2. m \in net /\ m \in Datagram /\ m.kind \in SmfRequests
  BY <1>1 DEF Establishes, TypeOK, SmfRequests, SessionRequests
<1>3. SameExchange(a, m) /\ a.seid = nextSeid /\ a.inc = upfRts
  <2>1. ExchangeOf(RspOf(m.kind)) = ExchangeOf(m.kind) /\ RspOf(m.kind) # "EstReq"
    BY <1>2 DEF SmfRequests, SessionRequests, NodeRequests, RspOf, ExchangeOf
  <2> QED BY <1>2, <2>1 DEF Answer, SameExchange, Datagram
<1> HIDE DEF a
<1>4. Msgs' \subseteq Msgs \cup {a}
  BY DEF Establishes, Msgs, a
<1>5. CorrelationInv'
  <2>1. \A n \in Msgs' : \E o \in Msgs : SameExchange(n, o)
    BY <1>2, <1>3, <1>4 DEF SameExchange, Msgs
  <2> QED BY <1>1, <2>1, CarriedCorrelation
<1>6. nextSeid \in Nat /\ upfRts \in Nat
  BY <1>1, MaxUpfRtsAssumption DEF TypeOK, PfcpServerTypeOK
<1>7. /\ DOMAIN sess \subseteq Nat
      /\ DOMAIN sess' = DOMAIN sess \cup {nextSeid}
      /\ sess'[nextSeid] = [smf |-> m.smf, ref |-> m.ref]
      /\ \A k \in DOMAIN sess : sess'[k] = sess[k]
  BY <1>1 DEF Establishes, Put, SeidInv, TypeOK, PfcpServerTypeOK, IsPartialMap
<1>8. upfRts' = upfRts /\ nextSeid' = nextSeid + 1
  BY DEF Establishes
<1>9. ASSUME NEW h, h.seid \in Nat, NEW t, NEW x, Sound(h, t, x)
      PROVE  Sound(h, t, x)'
  BY <1>6, <1>7, <1>8, <1>9 DEF Sound
<1>10. ASSUME NEW n \in Msgs'
       PROVE  Sound(n, n.smf, n.ref)'
  <2>1. CASE n \in Msgs
    <3>1. n.seid \in Nat /\ Sound(n, n.smf, n.ref)
      BY <1>1, <2>1 DEF SeidInv, Msgs, TypeOK, PfcpClientTypeOK, Datagram
    <3> QED BY <1>9, <3>1
  <2>2. CASE n = a
    BY <1>3, <1>6, <1>7, <1>8, <2>2 DEF Sound, SameExchange
  <2> QED BY <1>4, <1>10, <2>1, <2>2
<1>11. ASSUME NEW t \in Smf, NEW x \in Ref
       PROVE  Sound(held[t][x], t, x)'
  <2>1. held[t][x].seid \in Nat /\ Sound(held[t][x], t, x)
    <3>1. held[t][x] \in [seid : Nat, inc : Nat]
      BY <1>1 DEF TypeOK, PfcpClientTypeOK
    <3> QED BY <1>1, <3>1 DEF SeidInv
  <2> QED BY <1>6, <1>7, <1>8, <2>1 DEF Sound
<1>12. \A k \in DOMAIN sess' : k < nextSeid'
  BY <1>1, <1>6, <1>7, <1>8 DEF SeidInv
<1> QED BY <1>5, <1>10, <1>11, <1>12 DEF SeidInv

(***************************************************************************)
(* A restart of the UPF: every SEID that is left is from an earlier        *)
(* incarnation.                                                            *)
(***************************************************************************)
LEMMA InvUpfRestart ==
    ASSUME IInv, UpfRestart, UNCHANGED clientVars
    PROVE  CorrelationInv' /\ SeidInv'
<1>1. TypeOK /\ CorrelationInv /\ SeidInv
  BY DEF IInv
<1>2. Msgs' \subseteq Msgs
  BY DEF UpfRestart, clientVars, Msgs
<1>3. CorrelationInv'
  BY <1>1, <1>2, FewerCarryOn, CarriedCorrelation DEF CarriesOn
<1>4. upfRts \in Nat /\ upfRts' = upfRts + 1 /\ DOMAIN sess' = {} /\ held' = held
  BY <1>1, MaxUpfRtsAssumption
  DEF UpfRestart, Nothing, clientVars, TypeOK, PfcpServerTypeOK
<1>5. \A m \in Msgs : m.inc \in Nat
  BY <1>1 DEF TypeOK, PfcpClientTypeOK, Datagram, Msgs
<1>6. ASSUME NEW h, h.inc \in Nat, h.inc <= upfRts
      PROVE  h.inc <= upfRts' /\ h.inc # upfRts'
  BY <1>4, <1>6
<1>7. ASSUME NEW m \in Msgs'
      PROVE  Sound(m, m.smf, m.ref)'
  <2>1. m.inc \in Nat /\ m.inc <= upfRts
    BY <1>1, <1>2, <1>5 DEF SeidInv, Sound
  <2>2. m.inc <= upfRts' /\ m.inc # upfRts'
    BY <1>6, <2>1
  <2> QED BY <2>2 DEF Sound
<1>8. ASSUME NEW t \in Smf, NEW x \in Ref
      PROVE  Sound(held[t][x], t, x)'
  <2>1. held[t][x] \in [seid : Nat, inc : Nat]
    BY <1>1 DEF TypeOK, PfcpClientTypeOK
  <2>2. held[t][x].inc \in Nat /\ held[t][x].inc <= upfRts
    BY <1>1, <2>1 DEF SeidInv, Sound
  <2>3. held'[t][x].inc <= upfRts' /\ held'[t][x].inc # upfRts'
    BY <1>4, <1>6, <2>2
  <2> QED BY <2>3 DEF Sound
<1> QED BY <1>3, <1>4, <1>7, <1>8 DEF SeidInv

LEMMA InvNext == IInv /\ [Next]_vars => IInv'
<1> SUFFICES ASSUME IInv, [Next]_vars PROVE IInv'
  OBVIOUS
<1>1. TypeOK'
  BY TypeNext DEF IInv, CorrelationInv
<1>2. ASSUME NEW s \in Smf, PfcpClientNext(s), UNCHANGED serverVars
      PROVE  CorrelationInv' /\ SeidInv'
  BY <1>2, InvClient
<1>3. ASSUME PfcpServerNext, UNCHANGED clientVars
      PROVE  CorrelationInv' /\ SeidInv'
  <2>1. reqs' = reqs /\ held' = held
    BY <1>3 DEF clientVars
  <2>2. CASE ServerLoop
    BY <2>1, <2>2, ServerProvenance, InvNoSessionAdded, InvEstablishes DEF IInv
  <2>3. CASE SendHeartbeatRequest
    <3>1. PICK a \in upfAssoc :
              net' = Sent(net, [Request("UHbReq", a.smf, NoSeq) EXCEPT
                                   !.att = 0, !.rts = upfRts])
      BY <2>3 DEF SendHeartbeatRequest
    <3> DEFINE f == [Request("UHbReq", a.smf, NoSeq) EXCEPT !.att = 0, !.rts = upfRts]
    <3>2. Opens(f)
      BY DEF Opens, Request
    <3>3. Msgs' \subseteq Msgs \cup {f}
      BY <2>1, <3>1, SentSubset DEF Msgs
    <3>4. OpensOne
      BY <3>2, <3>3 DEF OpensOne
    <3>5. NoSessionAdded
      BY <2>3 DEF SendHeartbeatRequest, serverVars, NoSessionAdded
    <3> QED BY <2>1, <3>4, <3>5, InvNoSessionAdded
  <2>4. CASE HandleSessionEvent
    <3>1. Msgs' \subseteq Msgs /\ NoSessionAdded
      BY <2>1, <2>4 DEF HandleSessionEvent, Msgs, NoSessionAdded
    <3> QED BY <2>1, <3>1, FewerCarryOn, InvNoSessionAdded
  <2>5. CASE UpfRestart
    BY <1>3, <2>5, InvUpfRestart
  <2> QED BY <1>3, <2>2, <2>3, <2>4, <2>5 DEF PfcpServerNext
<1>4. ASSUME Lose \/ net' = net, UNCHANGED <<clientVars, serverVars>>
      PROVE  CorrelationInv' /\ SeidInv'
  <2>1. Msgs' \subseteq Msgs /\ NoSessionAdded /\ held' = held
    BY <1>4 DEF Lose, clientVars, serverVars, Msgs, NoSessionAdded
  <2> QED BY <2>1, FewerCarryOn, InvNoSessionAdded
<1>5. CorrelationInv' /\ SeidInv'
  BY <1>2, <1>3, <1>4 DEF Next, vars
<1>6. PendingAreRequests'
  BY PendingNext DEF IInv
<1> QED BY <1>1, <1>5, <1>6 DEF IInv

(***************************************************************************)
(* The invariant holds in every reachable state.                           *)
(***************************************************************************)
THEOREM Invariance == Spec => []IInv
BY InvInit, InvNext, PTL DEF Spec

(***************************************************************************)
(* Type correctness; with it, no request is transmitted more than N1 + 1   *)
(* times (PfcpClient::request).                                            *)
(***************************************************************************)
THEOREM TypeCorrect == Spec => []TypeOK
<1>1. IInv => TypeOK
  BY DEF IInv
<1> QED BY <1>1, Invariance, PTL

(***************************************************************************)
(* SEIDs never change hands within an incarnation of the UPF: a SEID that  *)
(* an SMF has stored or that is under way leads to the session it was      *)
(* issued for or to none (alloc_seid, pfcp_sessions).                      *)
(***************************************************************************)
THEOREM SeidsStable == Spec => []SeidStable
<1>1. IInv => SeidStable
  BY DEF IInv, SeidInv, Sound, SeidStable, Msgs
<1> QED BY <1>1, Invariance, PTL

(***************************************************************************)
(* Matching by sequence number finds the right request in every state of   *)
(* the invariant.                                                          *)
(***************************************************************************)
LEMMA MatchesRequest == IInv => ResponseMatchesRequest
<1> SUFFICES ASSUME IInv, NEW m \in net, NEW r \in reqs, m.kind \in SmfResponses,
                    m.smf = r.smf, m.seq = r.seq
             PROVE  m.kind = RspOf(r.kind) /\ m.ref = r.ref
  BY DEF ResponseMatchesRequest
<1>1. m.ref = r.ref /\ ExchangeOf(m.kind) = ExchangeOf(r.kind)
  BY DEF IInv, CorrelationInv, OneExchangePerSeq, Msgs
<1>2. r.kind \in SmfRequests
  BY DEF IInv, PendingAreRequests
<1> QED BY <1>1, <1>2
    DEF ExchangeOf, RspOf, SmfResponses, SmfRequests, SessionRequests, NodeRequests

(***************************************************************************)
(* Matching responses by sequence number alone is enough: a response that  *)
(* completes a request has the type that answers it and is about the same  *)
(* SM context (on_datagram).                                               *)
(***************************************************************************)
THEOREM ResponsesMatch == Spec => []ResponseMatchesRequest
BY MatchesRequest, Invariance, PTL

=============================================================================
