------------------------------- MODULE AmfUe -------------------------------
(***************************************************************************)
(* The life of one NAS context of the AMF, from the Initial UE Message on: *)
(* registration, the retransmission timers, both deregistrations and the   *)
(* PDU session requests that are relayed, against a UE whose messages may  *)
(* be late or lost and an NG association that may break.                   *)
(*                                                                         *)
(* One task runs every handler to its end (poll), so that a handler is one *)
(* action, whatever the NFs it calls answer.  Contexts share nothing but   *)
(* the registration of their SUPI in the UDM.  A challenge is a number;    *)
(* module Aka has what lies behind it.                                     *)
(***************************************************************************)
EXTENDS Integers, Sequences

CONSTANTS
  T3550, T3560, T3570, T3522,
             \* maximum retransmissions of each NAS timer (timer configuration)
  Slices,    \* the allowed NSSAI of a registration
  Requests,  \* what the UE asks for on an existing connection
  MaxAsks,   \* bound: requests of the UE or of the UDM once registered
  MaxUp,     \* bound: messages of the UE and the gNB under way
  MaxDown    \* bound: messages to the UE and the gNB under way

ASSUME AmfUeAssumption ==
  /\ T3550 \in Nat /\ T3560 \in Nat /\ T3570 \in Nat /\ T3522 \in Nat
  /\ Slices # {}
  /\ Requests \subseteq {"periodic", "mobility", "service", "dereg", "switchOff",
                         "est", "rel"}
  /\ MaxAsks \in Nat /\ MaxUp \in Nat \ {0} /\ MaxDown \in Nat \ {0}

VARIABLES
  ctx,     \* UeNasContext, the entry of ue_auth_state
  broken,  \* the SCTP association of the context is gone
  up,      \* messages of the UE and the gNB to the AMF
  down,    \* messages of the AMF to the UE and the gNB
  ue,      \* what the UE believes
  asks,    \* requests made so far
  held,    \* what UDM, PCF, NSACF and SMF hold for the context
  hist     \* history, for the properties

vars == <<ctx, broken, up, down, ue, asks, held, hist>>

\* The request that a retransmission timer repeats, by timer
T3560Asks == {"auth", "smc"}
T3570Asks == {"identity", "pei"}
MaxRetx(t) == CASE t \in T3560Asks -> T3560
                [] t \in T3570Asks -> T3570
                [] t = "ics"       -> T3550
                [] t = "dereg"     -> T3522
Asks == T3560Asks \cup T3570Asks \cup {"ics", "dereg", "none"}

Gone == [live |-> FALSE, ask |-> "none", retries |-> 0, vec |-> 0, fails |-> 0,
         sec |-> FALSE, pei |-> FALSE, peiReq |-> FALSE, registered |-> FALSE,
         icsResp |-> FALSE]

Msg(t, v) == [t |-> t, vec |-> v]
DownTypes == (Asks \ {"none"}) \cup {"release"}
UpTypes   == {"suci", "badSuci", "imei", "authRes", "authRetry", "authOther",
              "smcComplete", "smcCompletePei", "smcReject", "smcMismatch",
              "icsResp", "icsFail", "regComplete", "deregAccept"} \cup Requests

\* One type invariant.  A running timer has repeated its message at most as often
\* as its configuration allows.
TypeOK ==
  /\ ctx \in [live : BOOLEAN, ask : Asks, retries : Nat, vec : Nat,
              fails : 0..2, sec : BOOLEAN, pei : BOOLEAN, peiReq : BOOLEAN,
              registered : BOOLEAN, icsResp : BOOLEAN]
  /\ ctx.ask # "none" => ctx.retries <= MaxRetx(ctx.ask)
  /\ broken \in BOOLEAN /\ asks \in 0..MaxAsks
  /\ up \in Seq([t : UpTypes, vec : Nat]) /\ Len(up) <= MaxUp
  /\ down \in Seq([t : DownTypes, vec : Nat]) /\ Len(down) <= MaxDown
  /\ ue \in {"off", "connected", "registered", "idle"}
  /\ held \in [uecm : BOOLEAN, sdm : BOOLEAN, policy : BOOLEAN,
               slices : SUBSET Slices, sm : BOOLEAN]
  /\ hist \in [credit : Int, dropped : BOOLEAN, dereg : BOOLEAN,
               crossed : BOOLEAN, open : SUBSET Slices]

Init ==
  /\ ctx = Gone /\ broken = FALSE /\ up = <<>> /\ down = <<>> /\ ue = "off" /\ asks = 0
  /\ held = [uecm |-> FALSE, sdm |-> FALSE, policy |-> FALSE, slices |-> {},
             sm |-> FALSE]
  /\ hist = [credit |-> 0, dropped |-> FALSE, dereg |-> FALSE, crossed |-> FALSE,
             open |-> {}]

\* What does not fit is lost, as the radio may lose it
Enqueue(q, s, max) == IF Len(q) + Len(s) <= max THEN q \o s ELSE q

Send(t, v)  == down' = Enqueue(down, <<Msg(t, v)>>, MaxDown)
Keep(c)     == ctx' = c /\ UNCHANGED down
Stop(c, as) == IF c.ask \in as THEN [c EXCEPT !.ask = "none", !.retries = 0] ELSE c

\* A request and its timer: arm_retx follows the send, and a send that fails
\* leaves the handler before it
AskUe(c, t) ==
  IF broken
  THEN Keep(c)
  ELSE ctx' = [c EXCEPT !.ask = t, !.retries = 0] /\ Send(t, c.vec)

\* The state is dropped before the command is sent
release_ue ==
  /\ ctx' = Gone
  /\ IF broken THEN UNCHANGED down ELSE Send("release", 0)

\* A reject is sent before release_ue: when that fails, the context stays
RejectAndRelease(c) == IF broken THEN Keep(c) ELSE release_ue

-----------------------------------------------------------------------------
(* Registration                                                            *)

\* The AUSF gives a vector, or the registration is rejected.  The state is
\* out of the map during the call, and only comes back with the vector.
start_authentication(c) ==
  \/ AskUe([c EXCEPT !.vec = @ + 1], "auth")
  \/ release_ue

send_registration_accept(c) ==
  IF c.registered /\ c.sec THEN Keep(c) ELSE AskUe(c, "ics")

\* The calls in their order: UECM registration, am-data, SDM subscription, AM
\* policy, allowed NSSAI, admission to each slice.  (The UE policy association
\* is left out: nothing depends on what the PCF answers to it.)  The NSACF is
\* asked slice by slice until it refuses one.  It counts some, and for others
\* call_nsacf_ue_admission degrades open: after a transport error or a status it
\* does not expect, the slice is admitted with nothing counted.
complete_registration(c) ==
  \E done \in 0..6, counted, open \in SUBSET Slices :
    /\ counted \cap open = {} /\ (counted \cup open # {} => done >= 5)
    /\ done = 6 <=> counted \cup open = Slices
    /\ held' = [held EXCEPT !.uecm = @ \/ done >= 1, !.sdm = @ \/ done >= 3,
                            !.policy = @ \/ done >= 4, !.slices = @ \cup counted]
    /\ hist' = [hist EXCEPT !.credit = IF done >= 4 THEN @ - 1 ELSE @,
                            !.open = @ \cup open]
    /\ IF done < 6 THEN RejectAndRelease(c) ELSE send_registration_accept(c)

RegistrationRequest(c, kind) ==
  \/ kind = "suci" /\ start_authentication(c) /\ UNCHANGED hist
  \/ kind \in {"guti", "mobility"} /\ AskUe(c, "identity") /\ UNCHANGED hist
  \/ kind = "nid" /\ RejectAndRelease(c) /\ UNCHANGED hist
  \/ /\ kind = "other"                    \* rejected, and the context stays
     /\ Keep(c) /\ hist' = [hist EXCEPT !.dropped = TRUE]
  \/ /\ kind = "periodic"
     /\ IF c.registered /\ c.sec THEN send_registration_accept(c) ELSE Keep(c)
     /\ UNCHANGED hist

\* handle_initial_ue_message
InitialUeMessage(kind) ==
  /\ ue = "off" /\ ue' = "connected"
  /\ IF kind = "service"                  \* no context: rejected with #9
     THEN UNCHANGED <<ctx, down, hist>>
     ELSE RegistrationRequest([Gone EXCEPT !.live = TRUE], kind)
  /\ UNCHANGED <<broken, up, asks, held>>

\* handle_uplink_nas_transport: the next message; for a context that is gone
\* it changes nothing
Take(ts) == up # <<>> /\ Head(up).t \in ts /\ up' = Tail(up)

IgnoreUnknown ==
  /\ ~ctx.live /\ Take(UpTypes \ {"est", "rel"})
  /\ UNCHANGED <<ctx, broken, down, ue, asks, held, hist>>

UplinkRegistrationRequest ==
  /\ ctx.live /\ Take({"periodic", "mobility"})
  /\ RegistrationRequest(ctx, Head(up).t)
  /\ UNCHANGED <<broken, ue, asks, held>>

\* Mutant: the PEI request is not marked as answered.
BugPeiStaysAsked ==
  LET c == Stop(ctx, T3570Asks) IN
  /\ ctx.live /\ Take({"suci", "badSuci", "imei"})
  /\ \/ /\ Head(up).t = "suci" /\ start_authentication(c)
        /\ UNCHANGED <<held, hist>>
     \/ /\ Head(up).t = "badSuci" /\ Keep(c)
        /\ hist' = [hist EXCEPT !.dropped = TRUE] /\ UNCHANGED held
     \/ /\ Head(up).t = "imei" /\ c.peiReq
        /\ complete_registration([c EXCEPT !.pei = TRUE])
     \/ /\ Head(up).t = "imei" /\ ~c.peiReq
        /\ Keep([c EXCEPT !.pei = TRUE])
        /\ hist' = [hist EXCEPT !.dropped = @ \/ ctx.ask = "identity"]
        /\ UNCHANGED held
  /\ UNCHANGED <<broken, ue, asks>>

\* Any answer stops T3570: one that cannot be parsed, or a late IMEI that meets
\* the request for a SUCI, leaves the context to itself
IdentityResponse ==
  LET c == Stop(ctx, T3570Asks) IN
  /\ ctx.live /\ Take({"suci", "badSuci", "imei"})
  /\ \/ /\ Head(up).t = "suci" /\ start_authentication(c)
        /\ UNCHANGED <<held, hist>>
     \/ /\ Head(up).t = "badSuci" /\ Keep(c)
        /\ hist' = [hist EXCEPT !.dropped = TRUE] /\ UNCHANGED held
     \/ /\ Head(up).t = "imei" /\ c.peiReq
        /\ complete_registration([c EXCEPT !.pei = TRUE, !.peiReq = FALSE])
     \/ /\ Head(up).t = "imei" /\ ~c.peiReq
        /\ Keep([c EXCEPT !.pei = TRUE])
        /\ hist' = [hist EXCEPT !.dropped = @ \/ ctx.ask = "identity"]
        /\ UNCHANGED held
  /\ UNCHANGED <<broken, ue, asks>>

\* The answer is compared with the last challenge; then the AUSF confirms and
\* a common integrity algorithm is found, or not
AuthenticationResponse ==
  LET c == Stop(ctx, T3560Asks) IN
  /\ ctx.live /\ Take({"authRes"})
  /\ \/ /\ Head(up).vec = c.vec
        /\ AskUe([c EXCEPT !.sec = TRUE], "smc")
        /\ hist' = [hist EXCEPT !.credit = @ + 1]
     \/ RejectAndRelease(c) /\ UNCHANGED hist
  /\ UNCHANGED <<broken, ue, asks, held>>

\* Mutant: a failure that is no reason to try again stops the timer, no more.
BugFailureIgnored ==
  LET c == Stop([ctx EXCEPT !.fails = IF @ < 2 THEN @ + 1 ELSE @], T3560Asks) IN
  /\ ctx.live /\ Take({"authRetry", "authOther"})
  /\ IF c.fails > 1 \/ Head(up).t = "authOther"
     THEN Keep(c)
     ELSE start_authentication(c)
  /\ UNCHANGED <<broken, ue, asks, held, hist>>

\* auth_failure_count is only compared with 1, so that it may stay at 2
AuthenticationFailure ==
  LET c == Stop([ctx EXCEPT !.fails = IF @ < 2 THEN @ + 1 ELSE @], T3560Asks) IN
  /\ ctx.live /\ Take({"authRetry", "authOther"})
  /\ IF c.fails > 1 \/ Head(up).t = "authOther"
     THEN RejectAndRelease(c)
     ELSE start_authentication(c)
  /\ UNCHANGED <<broken, ue, asks, held, hist>>

SecurityModeComplete ==
  LET c == [Stop(ctx, T3560Asks) EXCEPT !.pei = @ \/ Head(up).t = "smcCompletePei"] IN
  /\ ctx.live /\ Take({"smcComplete", "smcCompletePei"})
  /\ IF c.pei
     THEN complete_registration(c)
     ELSE AskUe([c EXCEPT !.peiReq = TRUE], "pei") /\ UNCHANGED <<held, hist>>
  /\ UNCHANGED <<broken, ue, asks>>

\* Security Mode Reject of the UE, or capabilities that do not match
SecurityModeFailure ==
  /\ ctx.live /\ Take({"smcReject", "smcMismatch"})
  /\ IF Head(up).t = "smcReject" THEN release_ue ELSE RejectAndRelease(ctx)
  /\ UNCHANGED <<broken, ue, asks, held, hist>>

RegistrationComplete ==
  /\ ctx.live /\ Take({"regComplete"})
  /\ Keep([Stop(ctx, {"ics"}) EXCEPT !.registered = TRUE])
  /\ UNCHANGED <<broken, ue, asks, held, hist>>

\* The response clears whatever timer runs
InitialContextSetupResponse ==
  /\ ctx.live /\ Take({"icsResp"})
  /\ Keep([Stop(ctx, Asks) EXCEPT !.icsResp = TRUE])
  /\ UNCHANGED <<broken, ue, asks, held, hist>>

InitialContextSetupFailure ==
  /\ ctx.live /\ Take({"icsFail"})
  /\ release_ue
  /\ UNCHANGED <<broken, ue, asks, held, hist>>

-----------------------------------------------------------------------------
(* Service, deregistration, sessions                                       *)

\* Accepted or rejected: no state changes
ServiceRequest ==
  /\ ctx.live /\ Take({"service"})
  /\ UNCHANGED <<ctx, broken, down, ue, asks, held, hist>>

\* The state is dropped, the NG context released.  (The UE policy association
\* is deleted in the background.)
finish_deregistration ==
  /\ release_ue
  /\ hist' = [hist EXCEPT !.dereg = TRUE]

\* release_all_pdu_sessions looks in a table the live path never fills: no SM
\* context is released.  The purge at the UDM may fail.
DeregistrationRequest ==
  /\ ctx.live /\ Take({"dereg", "switchOff"})
  /\ \E purged \in BOOLEAN : held' = [held EXCEPT !.uecm = @ /\ ~(purged /\ ctx.sec)]
  /\ IF Head(up).t = "dereg" /\ broken    \* the accept cannot be sent
     THEN UNCHANGED <<ctx, down, hist>>
     ELSE finish_deregistration
  /\ UNCHANGED <<broken, ue, asks>>

\* process_network_deregs, for a context with NAS security
NetworkDereg ==
  /\ asks < MaxAsks /\ asks' = asks + 1
  /\ ctx.live /\ ctx.sec
  /\ AskUe(ctx, "dereg")
  /\ UNCHANGED <<broken, up, ue, held, hist>>

DeregistrationAccept ==
  /\ ctx.live /\ Take({"deregAccept"})
  /\ finish_deregistration
  /\ UNCHANGED <<broken, ue, asks, held>>

\* The same request in another context of the subscriber: the UDM purges by
\* SUPI, whichever context it is
OtherContextDeregisters ==
  /\ asks < MaxAsks /\ asks' = asks + 1
  /\ held.uecm /\ held' = [held EXCEPT !.uecm = FALSE]
  /\ hist' = [hist EXCEPT !.crossed = TRUE]
  /\ UNCHANGED <<ctx, broken, up, down, ue>>

\* handle_5gsm_message; neither request looks at the registration
PduSessionRequest ==
  /\ Take({"est", "rel"})
  /\ \/ Head(up).t = "est" /\ held' = [held EXCEPT !.sm = TRUE]
     \/ Head(up).t = "rel" /\ held' = [held EXCEPT !.sm = FALSE]
     \/ UNCHANGED held                      \* refused by the SMF
  /\ UNCHANGED <<ctx, broken, down, ue, asks, hist>>

-----------------------------------------------------------------------------
(* Timers and the NG interface                                             *)

\* Mutant: one retransmission too many.
BugOneMore ==
  /\ ctx.live /\ ctx.ask # "none" /\ ctx.retries <= MaxRetx(ctx.ask)
  /\ ctx' = [ctx EXCEPT !.retries = @ + 1]
  /\ IF broken THEN UNCHANGED down ELSE Send(ctx.ask, ctx.vec)
  /\ hist' = [hist EXCEPT !.credit = IF ctx.ask = "smc" THEN @ + 1 ELSE @]
  /\ UNCHANGED <<broken, up, ue, asks, held>>

\* Mutant: the retransmissions are not counted.
BugUncounted ==
  /\ ctx.live /\ ctx.ask # "none" /\ ctx.retries < MaxRetx(ctx.ask)
  /\ IF broken THEN UNCHANGED down ELSE Send(ctx.ask, ctx.vec)
  /\ UNCHANGED <<ctx, hist, broken, up, ue, asks, held>>

\* process_nas_timers: repeat the stored PDU, whether it gets through or not
Retransmit ==
  /\ ctx.live /\ ctx.ask # "none" /\ ctx.retries < MaxRetx(ctx.ask)
  /\ ctx' = [ctx EXCEPT !.retries = @ + 1]
  /\ IF broken THEN UNCHANGED down ELSE Send(ctx.ask, ctx.vec)
  /\ hist' = [hist EXCEPT !.credit = IF ctx.ask = "smc" THEN @ + 1 ELSE @]
  /\ UNCHANGED <<broken, up, ue, asks, held>>

\* Mutant: exhaustion of T3570 goes on with the registration whoever asked.
BugAnyIdentity ==
  LET c == Stop(ctx, Asks) IN
  /\ ctx.live /\ ctx.ask # "none" /\ ctx.retries = MaxRetx(ctx.ask)
  /\ \/ /\ ctx.ask = "ics" /\ Keep([c EXCEPT !.registered = TRUE])
        /\ UNCHANGED <<held, hist>>
     \/ /\ ctx.ask \in T3560Asks
        /\ release_ue /\ UNCHANGED <<held, hist>>
     \/ /\ ctx.ask \in T3570Asks
        /\ complete_registration([c EXCEPT !.peiReq = FALSE])
     \/ /\ ctx.ask = "dereg" /\ release_ue
        /\ hist' = [hist EXCEPT !.dereg = TRUE] /\ UNCHANGED held
  /\ UNCHANGED <<broken, up, ue, asks>>

\* process_nas_timers: the abnormal action of each timer
Exhausted ==
  LET c == Stop(ctx, Asks) IN
  /\ ctx.live /\ ctx.ask # "none" /\ ctx.retries = MaxRetx(ctx.ask)
  /\ \/ /\ ctx.ask = "ics" /\ Keep([c EXCEPT !.registered = TRUE])
        /\ UNCHANGED <<held, hist>>
     \/ /\ ctx.ask \in T3560Asks \/ (ctx.ask \in T3570Asks /\ ~c.peiReq)
        /\ release_ue /\ UNCHANGED <<held, hist>>
     \/ /\ ctx.ask \in T3570Asks /\ c.peiReq
        /\ complete_registration([c EXCEPT !.peiReq = FALSE])
     \/ /\ ctx.ask = "dereg" /\ release_ue
        /\ hist' = [hist EXCEPT !.dereg = TRUE] /\ UNCHANGED held
  /\ UNCHANGED <<broken, up, ue, asks>>

TimerExpiry == Retransmit \/ Exhausted

\* handle_ng_reset, of the whole interface or of this context
NgReset ==
  /\ ctx.live /\ ~broken
  /\ ctx' = Gone /\ down' = <<>> /\ ue' = "idle"
  /\ UNCHANGED <<broken, up, asks, held, hist>>

\* handle_association_closed: the context stays.  What had arrived is handled.
AssociationClosed ==
  /\ ~broken /\ ue # "off"
  /\ broken' = TRUE /\ down' = <<>> /\ ue' = "idle"
  /\ UNCHANGED <<ctx, up, asks, held, hist>>

\* handle_ue_context_release: the command only, the context stays
UeContextRelease ==
  /\ ctx.live /\ ue \in {"connected", "registered"}
  /\ Send("release", 0)
  /\ UNCHANGED <<ctx, broken, up, ue, asks, held, hist>>

-----------------------------------------------------------------------------
(* The UE and the gNB                                                      *)

Answers(m) ==
  CASE m.t = "identity" -> {<<Msg("suci", 0)>>, <<Msg("badSuci", 0)>>}
    [] m.t = "auth"     -> {<<Msg("authRes", m.vec)>>, <<Msg("authRetry", 0)>>,
                            <<Msg("authOther", 0)>>}
    [] m.t = "smc"      -> {<<Msg("smcComplete", 0)>>, <<Msg("smcCompletePei", 0)>>,
                            <<Msg("smcReject", 0)>>, <<Msg("smcMismatch", 0)>>}
    [] m.t = "pei"      -> {<<Msg("imei", 0)>>}
    [] m.t = "ics"      -> {<<Msg("icsResp", 0), Msg("regComplete", 0)>>,
                            <<Msg("regComplete", 0), Msg("icsResp", 0)>>,
                            <<Msg("icsResp", 0)>>, <<Msg("icsFail", 0)>>}
    [] m.t = "dereg"    -> {<<Msg("deregAccept", 0)>>}
    [] m.t = "release"  -> {<<>>}

Lose ==
  /\ down # <<>> /\ down' = Tail(down)
  /\ UNCHANGED <<ctx, broken, up, ue, asks, held, hist>>

Deliver ==
  LET m == Head(down) IN
  /\ down # <<>> /\ down' = Tail(down) /\ ue \in {"connected", "registered"}
  /\ \E s \in Answers(m) :
       /\ up' = Enqueue(up, s, MaxUp)
       /\ ue' = CASE m.t = "release" -> "idle"
                  [] m.t = "ics" /\ Len(s) = 2 -> "registered"
                  [] OTHER -> ue
  /\ UNCHANGED <<ctx, broken, asks, held, hist>>

UeRequest(t) ==
  /\ ue = "registered"
  /\ asks < MaxAsks /\ asks' = asks + 1
  /\ up' = Enqueue(up, <<Msg(t, 0)>>, MaxUp)
  /\ ue' = IF t \in {"dereg", "switchOff"} THEN "connected" ELSE ue
  /\ UNCHANGED <<ctx, broken, down, held, hist>>

-----------------------------------------------------------------------------
Uplink ==
  \/ IgnoreUnknown \/ UplinkRegistrationRequest \/ IdentityResponse
  \/ AuthenticationResponse \/ AuthenticationFailure
  \/ SecurityModeComplete \/ SecurityModeFailure \/ RegistrationComplete
  \/ InitialContextSetupResponse \/ InitialContextSetupFailure
  \/ ServiceRequest \/ DeregistrationRequest \/ DeregistrationAccept
  \/ PduSessionRequest

Next ==
  \/ \E kind \in {"suci", "guti", "nid", "other", "service"} : InitialUeMessage(kind)
  \/ Uplink \/ TimerExpiry
  \/ NetworkDereg \/ OtherContextDeregisters
  \/ NgReset \/ AssociationClosed \/ UeContextRelease
  \/ Deliver \/ Lose \/ \E t \in Requests : UeRequest(t)

Spec == Init /\ [][Next]_vars

\* The poll loop comes round every 10 ms and a deadline passes; nothing else
\* is owed by the UE, the gNB or the network
FairSpec == Spec /\ WF_vars(TimerExpiry)

-----------------------------------------------------------------------------
(* Properties                                                              *)

\* Nobody but a timer ends a procedure that the UE abandons.  A context without
\* a running timer is therefore registered, or established at the gNB, or was
\* left behind by a final answer, or its association broke.
WaitGuarded ==
  ctx.live /\ ctx.ask = "none" =>
    ctx.registered \/ ctx.icsResp \/ hist.dropped \/ broken

\* However the UE answers, late, twice or not at all, a context makes no more
\* AM policy associations at the PCF than Security Mode Commands went out: the
\* PEI request and its repetitions never run complete_registration twice.
PolicyBound == hist.credit >= 0

\* A registered context has NAS security and an AM policy.  The NSACF counts it
\* in each of its slices but those that the AMF admitted open, for want of an
\* answer.  The UDM knows of it, unless another context of the UE deregistered
\* meanwhile or a broken association stopped the deregistration of this one half
\* way.
RegisteredIsServed ==
  ctx.live /\ ctx.registered =>
    /\ ctx.sec /\ held.policy /\ Slices \subseteq held.slices \cup hist.open
    /\ held.uecm \/ hist.crossed \/ broken

\* A registration settles, whatever the UE and the gNB do: the context is
\* registered, established or gone, or one of the reasons of WaitGuarded holds.
RegistrationSettles ==
  ctx.live ~> ~ctx.live \/ ctx.registered \/ ctx.icsResp \/ hist.dropped \/ broken

\* What the comments on handle_dereg_notify and on the network-initiated
\* request promise: a deregistered context has left no SM context, AM policy
\* or SDM subscription behind.
DeregisteredHoldsNothing ==
  hist.dereg => ~held.sm /\ ~held.policy /\ ~held.sdm

=============================================================================
