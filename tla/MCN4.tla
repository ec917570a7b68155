-------------------------------- MODULE MCN4 --------------------------------
(***************************************************************************)
(* Instances of N4 for TLC.  The whole next-state relation is checked on   *)
(* the association alone (no SM context).  With SM contexts the relation   *)
(* is cut into parts that each leave some actors out.                      *)
(***************************************************************************)
EXTENDS N4, TLC

Symmetry == Permutations(SeqNo) \cup Permutations(Ref)

ClientSteps(s) ==
    \/ Maintenance(s)
    \/ Listener(s)
    \/ T1Expiry(s)
    \/ \E r \in Ref : SmContextCreate(s, r) \/ SmContextRelease(s, r)

(***************************************************************************)
(* The UPF's socket refuses the response to an accepted session request.   *)
(***************************************************************************)
SessionRefused ==
    \/ nextSeid' # nextSeid /\ sess' = sess
    \/ untold' # untold

(***************************************************************************)
(* Several contexts against UPF restarts.  The data plane keeps up with    *)
(* the server; no SMF restarts, no updates, no heartbeats of the UPF, and  *)
(* its socket does not refuse.                                             *)
(***************************************************************************)
SeidNext ==
    \/ /\ events = <<>>
       /\ \/ \E s \in Smf : ClientSteps(s) /\ UNCHANGED serverVars
          \/ ServerLoop /\ ~SessionRefused /\ UNCHANGED clientVars
          \/ UpfRestart /\ UNCHANGED clientVars
    \/ HandleSessionEvent /\ UNCHANGED clientVars
    \/ Lose /\ UNCHANGED <<clientVars, serverVars>>

SeidSpec == Init /\ [][SeidNext]_vars

(***************************************************************************)
(* One context that is activated, and the event channel filling up; either *)
(* the SMF crashes or shuts down, and starts again, or the UPF restarts;   *)
(* both restarts are in the run on the association alone.  No heartbeats   *)
(* of the UPF.                                                             *)
(***************************************************************************)
FaultNext ==
    \/ \E s \in Smf :
          /\ \/ ClientSteps(s)
             \/ \E r \in Ref : SmContextUpdate(s, r, "activate")
             \/ upfRts = 1 /\ Process(s)
          /\ UNCHANGED serverVars
    \/ (ServerLoop \/ HandleSessionEvent) /\ UNCHANGED clientVars
    \/ /\ \A s \in Smf : smfRts[s] = 1 /\ status[s] = "run"
       /\ UpfRestart
       /\ UNCHANGED clientVars
    \/ Lose /\ UNCHANGED <<clientVars, serverVars>>

FaultSpec == Init /\ [][FaultNext]_vars

=============================================================================
