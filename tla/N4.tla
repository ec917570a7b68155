--------------------------------- MODULE N4 ---------------------------------
(***************************************************************************)
(* N4 as a whole: the SMFs, the UPF and the network between them.          *)
(***************************************************************************)
EXTENDS PfcpClient, PfcpServer

vars == <<net, clientVars, serverVars>>

Init ==
    /\ net = {}
    /\ PfcpClientInit
    /\ PfcpServerInit

Next ==
    \/ \E s \in Smf : PfcpClientNext(s) /\ UNCHANGED serverVars
    \/ PfcpServerNext /\ UNCHANGED clientVars
    \/ Lose /\ UNCHANGED <<clientVars, serverVars>>

Spec == Init /\ [][Next]_vars

(***************************************************************************)
(* Type correctness of the wire, the SMFs and the UPF together; it also    *)
(* says that no request is ever on its N1 + 2nd transmission.              *)
(***************************************************************************)
TypeOK ==
    /\ net \subseteq Datagram
    /\ PfcpClientTypeOK
    /\ PfcpServerTypeOK

-----------------------------------------------------------------------------
(* Safety.                                                                 *)

(***************************************************************************)
(* SMF s believes in an association with the UPF that is running.          *)
(***************************************************************************)
BelievesAssociated(s) ==
    /\ status[s] = "run"
    /\ associated[s]
    /\ peerRts[s] = upfRts

Agreed(s) ==
    BelievesAssociated(s) /\ upfAssoc = {[smf |-> s, rts |-> smfRts[s]]}

(***************************************************************************)
(* With one SMF the two ends agree: an SMF that is associated with the     *)
(* running UPF incarnation is the peer the UPF has stored, in its present  *)
(* incarnation, through every loss, retransmission and restart of either   *)
(* side (associate, check_peer_restart, handle_association_setup_request). *)
(***************************************************************************)
AssocAgreement ==
    \A s \in Smf : BelievesAssociated(s) => Agreed(s)

(***************************************************************************)
(* A SEID that this UPF incarnation issued leads, as long as its session   *)
(* lives, to the session of the SM context it was issued for: for the      *)
(* SEIDs the SMFs have stored (pfcp_sessions) and for the ones in requests *)
(* and responses that are still under way (alloc_seid is never reused).    *)
(***************************************************************************)
SeidStable ==
    /\ \A s \in Smf, r \in Ref :
          held[s][r].inc = upfRts /\ held[s][r].seid \in DOMAIN sess =>
              sess[held[s][r].seid] = [smf |-> s, ref |-> r]
    /\ \A m \in net \cup reqs :
          m.inc = upfRts /\ m.seid \in DOMAIN sess =>
              sess[m.seid] = [smf |-> m.smf, ref |-> m.ref]

(***************************************************************************)
(* on_datagram correlates by sequence number alone, without looking at the *)
(* message type: still, the response that completes a request answers that *)
(* request, for the same SM context, and not an earlier one.               *)
(***************************************************************************)
ResponseMatchesRequest ==
    \A m \in net, r \in reqs :
        m.kind \in SmfResponses /\ m.smf = r.smf /\ m.seq = r.seq =>
            m.kind = RspOf(r.kind) /\ m.ref = r.ref

(***************************************************************************)
(* With one SMF: while it is associated, no SEID it has stored leads to    *)
(* the session of another context, although SEIDs start from 1 again when  *)
(* the UPF restarts (lookup_upf_seid).                                     *)
(***************************************************************************)
NoSeidAliasing ==
    \A s \in Smf, r \in Ref :
        associated[s] /\ held[s][r].seid \in DOMAIN sess =>
            sess[held[s][r].seid] = [smf |-> s, ref |-> r]

(***************************************************************************)
(* With one SMF: the UPF keeps no more sessions for one SM context than    *)
(* its establishment request was transmitted, orphans of lost responses    *)
(* and of timed-out creations included.                                    *)
(***************************************************************************)
OrphanBound ==
    \A s \in Smf, r \in Ref :
        Cardinality({k \in DOMAIN sess : sess[k] = [smf |-> s, ref |-> r]}) <= N1 + 1

(***************************************************************************)
(* Once the event channel is empty the data plane holds the sessions of    *)
(* the PFCP server, with the UE address of each, and no other session but  *)
(* those whose deletion the server could not acknowledge since the last    *)
(* peer failure (handle_session_deletion_request).                         *)
(***************************************************************************)
DataPlaneCaughtUp ==
    events = <<>> =>
        /\ DOMAIN dp = DOMAIN sess \cup untold
        /\ \A k \in DOMAIN sess : dp[k] = sess[k].ref

(***************************************************************************)
(* The downlink lookup never leads to a session that is gone or to the     *)
(* session of another UE (ue_ip_map against seid_map).                     *)
(***************************************************************************)
IpIndexSound ==
    \A ue \in DOMAIN ueIp : ueIp[ue] \in DOMAIN dp /\ dp[ueIp[ue]] = ue

-----------------------------------------------------------------------------
(* Liveness.                                                               *)

(***************************************************************************)
(* No datagram stays in flight for ever.                                   *)
(***************************************************************************)
Expires(q) ==
    \E m \in net : m.seq = q /\ net' = net \ {m}

(***************************************************************************)
(* The UPF handles a setup request whose sender still waits for it.        *)
(***************************************************************************)
SetupInTime ==
    /\ HandleAssociationSetupRequest
    /\ \E r \in reqs : \E m \in net' \ net :
          m.kind = "SetupRsp" /\ m.smf = r.smf /\ m.seq = r.seq

(***************************************************************************)
(* Every task is scheduled; of the setup requests that are sent again and  *)
(* again the network delivers some, and their responses, within T1; and    *)
(* the SMF's socket does not refuse every retransmission for ever.         *)
(***************************************************************************)
Fairness ==
    /\ \A s \in Smf :
          /\ WF_vars(Maintenance(s) /\ UNCHANGED serverVars)
          /\ WF_vars((T1Expiry(s) \/ ReleaseDone(s)) /\ UNCHANGED serverVars)
          /\ WF_vars(Listener(s) /\ UNCHANGED serverVars)
          /\ SF_vars(OnSetupResponse(s) /\ UNCHANGED serverVars)
          /\ SF_vars(T1Retransmit(s) /\ UNCHANGED serverVars)
    /\ WF_vars(ServerLoop /\ UNCHANGED clientVars)
    /\ SF_vars(SetupInTime /\ UNCHANGED clientVars)
    /\ WF_vars(HandleSessionEvent /\ UNCHANGED clientVars)
    /\ \A q \in SeqNo \cup {NoSeq} : WF_vars(Expires(q) /\ UNCHANGED <<clientVars, serverVars>>)

FairSpec == Spec /\ Fairness

(***************************************************************************)
(* An SMF that stays up comes back to an association with the UPF however  *)
(* often the UPF restarts and datagrams are lost (maintenance task).       *)
(***************************************************************************)
Reassociates ==
    \A s \in Smf : <>[](status[s] = "run") => []<>Agreed(s)

(***************************************************************************)
(* No request waits for ever: T1 and N1 end it when no response does.      *)
(***************************************************************************)
RequestsComplete ==
    \A s \in Smf : []<>(\A r \in reqs : r.smf # s)

=============================================================================
