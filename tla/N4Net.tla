------------------------------- MODULE N4Net -------------------------------
(***************************************************************************)
(* The N4 wire between the SMFs and one UPF: PFCP datagrams over UDP.      *)
(*                                                                         *)
(* A datagram is a record.  Only what the two state machines look at is    *)
(* kept: the message type, the SMF end point, the sequence number that     *)
(* correlates a response with its request, the Recovery Time Stamp of the  *)
(* sender, the CP F-SEID of an establishment (abstracted to the SM context *)
(* reference), the UPF SEID of the header or of the UP F-SEID, whether a    *)
(* modification carries a downlink tunnel, and whether the Cause is        *)
(* "Request accepted".                                                     *)
(*                                                                         *)
(* Two fields are not on the wire.  att tells the T1 retransmissions of a  *)
(* request apart, so that the set net can hold several copies of it; inc   *)
(* is the UPF incarnation that issued the SEID of a modification or a      *)
(* deletion.  No guard of the model reads them except att for T1/N1.       *)
(***************************************************************************)
EXTENDS Naturals, FiniteSets

CONSTANTS
    Smf,        \* the SMF end points (peer addresses) that talk to the UPF
    Ref,        \* SM context references, reused by every SMF incarnation
    NoRef,      \* "no SM context": node-level messages
    SeqNo,      \* correlation ids: the 24-bit PFCP sequence numbers
    NoSeq,      \* the sequence number of a heartbeat of the UPF
    NetCap,     \* bound: datagrams in flight at a time
    N1          \* retransmissions after the first transmission

ASSUME SmfAssumption == Smf # {}
ASSUME NoRefAssumption == NoRef \notin Ref
ASSUME NoSeqAssumption == NoSeq \notin SeqNo
ASSUME NetCapAssumption == NetCap \in Nat
ASSUME N1Assumption == N1 \in Nat

VARIABLE net    \* the datagrams in flight

-----------------------------------------------------------------------------
SessionRequests == {"EstReq", "ModReq", "DelReq"}
NodeRequests == {"SetupReq", "HbReq", "RelReq"}
SmfRequests == SessionRequests \cup NodeRequests

(***************************************************************************)
(* Message types that answer a request of the SMF (is_response_type).  The *)
(* UPF's own heartbeat (UHbReq) and its answer are kept apart: they are    *)
(* not matched through the pending table.                                  *)
(***************************************************************************)
RspOf(kind) ==
    CASE kind = "SetupReq" -> "SetupRsp"
      [] kind = "HbReq"    -> "HbRsp"
      [] kind = "RelReq"   -> "RelRsp"
      [] kind = "EstReq"   -> "EstRsp"
      [] kind = "ModReq"   -> "ModRsp"
      [] kind = "DelReq"   -> "DelRsp"

SmfResponses == {"SetupRsp", "HbRsp", "RelRsp", "EstRsp", "ModRsp", "DelRsp"}

Datagram ==
    [kind : SmfRequests \cup SmfResponses \cup {"UHbReq", "UHbRsp"},
     smf  : Smf,
     seq  : SeqNo \cup {NoSeq},
     att  : 0 .. N1 + 1,
     rts  : Nat,
     ref  : Ref \cup {NoRef},
     seid : Nat,
     inc  : Nat,
     tun  : BOOLEAN,
     ok   : BOOLEAN]

(***************************************************************************)
(* A request of SMF s as it is first transmitted.                          *)
(***************************************************************************)
Request(kind, s, q) ==
    [kind |-> kind, smf |-> s, seq |-> q, att |-> 1, rts |-> 0,
     ref |-> NoRef, seid |-> 0, inc |-> 0, tun |-> FALSE, ok |-> TRUE]

(***************************************************************************)
(* The answer to request m: same sequence number, back to the sender.      *)
(***************************************************************************)
Answer(m, accepted) == [m EXCEPT !.kind = RspOf(m.kind), !.ok = accepted]

(***************************************************************************)
(* Sending into the datagrams D: lost at once when the buffers are full.   *)
(***************************************************************************)
Sent(D, m) == IF Cardinality(D) < NetCap THEN D \cup {m} ELSE D

(***************************************************************************)
(* UDP loses and reorders: any datagram may be taken out of flight by its  *)
(* receiver or by the network, in any order.                               *)
(***************************************************************************)
Lose ==
    \E m \in net : net' = net \ {m}

=============================================================================
