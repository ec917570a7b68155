-------------------------------- MODULE Aka --------------------------------
(***************************************************************************)
(* The 5G AKA procedure of one subscriber: the USIM, the contexts that the *)
(* AMFs keep for it, the AUSF, the UDM and the sequence number in the UDR. *)
(*                                                                         *)
(* Every handler is cut at its awaits: what it read before one may be      *)
(* stale after it.  AUSF and UDM work on COPIES of their UE objects and    *)
(* write the whole copy back.  A call is one POST ue-authentications, from *)
(* the AMF down to the UDR, and its number stands for the vector (RAND,    *)
(* XRES*, KAUSF) that the UDM draws for it.  The contexts belong to        *)
(* different AMFs of a pool, so that their handlers interleave freely.     *)
(***************************************************************************)
EXTENDS Naturals, FiniteSets

CONSTANTS
  Contexts,    \* AMF-UE-NGAP-IDs under which the subscriber appears
  Sucis,       \* concealments of its SUPI
  MaxCalls,    \* bound: authentication requests to the AUSF
  MaxRetx,     \* maximum retransmissions of T3560 (timer configuration)
  UsimSqns,    \* sequence numbers the USIM may start from
  FailCauses,  \* causes but a synch failure for which the UE refuses a challenge
  Tasks,       \* SoR / UPU protection requests to the AUSF
  Kinds,       \* the counters of the anchor: SoR, UPU
  CounterMax,  \* 0xFFFF in the code: the value at which protection suspends
  IndSize,     \* number of IND values (2^5 in the code)
  SqnSize,     \* number of SQN values (2^48 in the code)
  NoSuci

ASSUME AkaAssumption ==
  /\ MaxCalls \in Nat \ {0} /\ MaxRetx \in Nat
  /\ CounterMax \in Nat \ {0}
  /\ FailCauses \subseteq {"again", "other"}
  /\ SqnSize \in Nat /\ IndSize \in 1..(SqnSize - 1) /\ Kinds # {}
  /\ UsimSqns \subseteq 0..(SqnSize - 1)
  /\ NoSuci \notin Sucis

\* The 2^48 sequence numbers do not run out: each request takes one step of SEQ,
\* and one more number when it follows a resynchronisation.
ASSUME SqnAssumption ==
  \A q \in UsimSqns \cup {IndSize} : q + (IndSize + 1) * MaxCalls < SqnSize

VARIABLES
  usim,    \* SQN_MS, the last vector accepted, the context the UE talks to
  accepted,\* vectors whose keys the UE has derived
  amf,     \* UeNasContext of each AMF-UE-NGAP-ID
  calls,   \* the requests in the AUSF and the UDM
  ausf,    \* AusfUe of each SUCI
  conf,    \* the 5g-aka-confirmation of each AMF context
  anchor,  \* SorUpuAnchor of the SUPI
  prot,    \* the protection requests
  udmRand, \* RAND of the UdmUe
  udrSqn,  \* sequenceNumber.sqn in the UDR
  overlap, \* TRUE once two handlers of the UDM overlapped
  degraded,\* TRUE once a vector was issued although its PATCH was refused
  air      \* NAS messages between the UE and the AMFs

vars == <<usim, accepted, amf, calls, ausf, conf, anchor, prot, udmRand,
          udrSqn, overlap, degraded, air>>

Calls == 1..MaxCalls
None  == 0
Vecs  == Calls \cup {None}
Sqns  == 0..(SqnSize - 1)

Fresh == [rand |-> None, auts |-> None, sqnMs |-> 0]   \* no resynchronisation
Resyncs == [rand : Vecs, auts : Vecs, sqnMs : Sqns]

ReqMsg(a, v)       == [type |-> "req", ctx |-> a, vec |-> v, sqn |-> 0]
ResMsg(a, v)       == [type |-> "res", ctx |-> a, vec |-> v, sqn |-> 0]
SynchMsg(a, v, q)  == [type |-> "synch", ctx |-> a, vec |-> v, sqn |-> q]
FailMsg(a, v, t)   == [type |-> t, ctx |-> a, vec |-> v, sqn |-> 0]
RetryCauses        == {"again"}     \* 5GMM causes #20, #26 and #71

\* One type invariant.  T3560 repeats a challenge at most MaxRetx times, and the
\* counters of the anchor stay within 1 and the value at which they suspend.
TypeOK ==
  /\ usim \in [sqn : Sqns, vec : Vecs, at : Contexts \cup {None}]
  /\ accepted \subseteq Calls
  /\ amf \in [Contexts -> [st : {"none", "waitAv", "challenged", "waitConf",
                                 "secured", "gone"},
                           suci : Sucis \cup {NoSuci}, call : Vecs, vec : Vecs,
                           key : Vecs, fails : 0..1, retries : 0..MaxRetx]]
  /\ calls \in [Calls -> [ausf : {"free", "sent", "wait", "ok", "err"},
                          udm : {"idle", "get", "got", "patch", "av", "err"},
                          by : Contexts \cup {None},
                          suci : Sucis \cup {NoSuci}, copy : Vecs,
                          resync : Resyncs, sqn : Sqns]]
  /\ ausf \in [Sucis -> [known : BOOLEAN, vec : Vecs]]
  /\ conf \in [Contexts -> [st : {"none", "asked", "read", "ok", "fail"},
                            copy : Vecs]]
  /\ anchor \in [key : Vecs, ctr : [Kinds -> 1..CounterMax]]
  /\ prot \in [Tasks -> [st : {"idle", "looked", "done", "refused"},
                         kind : Kinds, key : Vecs, ctr : 0..CounterMax]]
  /\ udmRand \in Vecs /\ udrSqn \in Sqns /\ overlap \in BOOLEAN /\ degraded \in BOOLEAN
  /\ \A m \in air : m.ctx \in Contexts /\ m.vec \in Calls

----------------------------------------------------------------------------
(* Vectors and sequence numbers *)

\* advance_sqn_ind: SEQ one further, IND kept, masked to the width of an SQN
advance_sqn_ind(q) == (q + IndSize) % SqnSize

\* the UDM answered with this vector
Issued(c) == calls[c].udm = "av"

UnusedCalls == {c \in Calls : calls[c].ausf = "free"}
NextCall    == CHOOSE c \in UnusedCalls : TRUE

----------------------------------------------------------------------------
(* AMF: ngap_path.rs *)

\* the context asks the AUSF for a vector and waits for it
CallAusf(a, s, resync) ==
  /\ UnusedCalls # {}
  /\ calls' = [calls EXCEPT ![NextCall].ausf = "sent", ![NextCall].by = a,
                            ![NextCall].suci = s, ![NextCall].resync = resync]

\* release_ue: the context, its timer and its keys are dropped (suci and vec stay
\* for a confirmation that the AUSF is still working on), and what is in air for
\* it finds no context any more
Released(x) == [x EXCEPT !.st = "gone", !.key = None,
                         !.call = None, !.fails = 0, !.retries = 0]
Without(a)  == {m \in air : m.ctx # a}

\* a challenge reaches the radio only while the UE is on that connection
Challenge(a, v) == IF usim.at = a THEN air \cup {ReqMsg(a, v)} ELSE air

\* Registration Request with a SUCI: a new context, then start_authentication
RegistrationRequest(a, s) ==
  /\ amf[a].st = "none"
  /\ CallAusf(a, s, Fresh)
  /\ amf' = [amf EXCEPT ![a].st = "waitAv", ![a].suci = s, ![a].call = NextCall]
  /\ usim' = [usim EXCEPT !.at = a]
  /\ air' = {m \in air : m.type # "req"}      \* what its last connection still held
  /\ UNCHANGED <<accepted, ausf, conf, anchor, prot, udmRand, udrSqn, overlap,
                 degraded>>

\* start_authentication, after the await: the challenge, or a reject
AuthenticationAnswer(a) ==
  LET c == amf[a].call IN
  /\ amf[a].st = "waitAv"
  /\ \/ /\ calls[c].ausf = "ok"
        /\ amf' = [amf EXCEPT ![a].st = "challenged", ![a].vec = c,
                              ![a].retries = 0]
        /\ air' = Challenge(a, c)
     \/ /\ calls[c].ausf = "err"
        /\ amf' = [amf EXCEPT ![a] = Released(@)]
        /\ air' = Without(a)
  /\ UNCHANGED <<usim, accepted, calls, ausf, conf, anchor, prot, udmRand,
                 udrSqn, overlap, degraded>>

\* the SBI client gives up on the AUSF; what it started goes on
CallTimeout(a) ==
  /\ amf[a].st \in {"waitAv", "waitConf"}
  /\ amf' = [amf EXCEPT ![a] = Released(@)]
  /\ air' = Without(a)
  /\ UNCHANGED <<usim, accepted, calls, ausf, conf, anchor, prot, udmRand,
                 udrSqn, overlap, degraded>>

\* Authentication Response: T3560 stops, HRES* against the stored HXRES*,
\* then the confirmation towards the AUSF
AuthenticationResponse(a) ==
  \E m \in air :
    /\ m.type = "res" /\ m.ctx = a
    /\ amf[a].st \in {"challenged", "secured"}
    /\ IF m.vec = amf[a].vec
         THEN /\ air' = air \ {m}
              /\ amf' = [amf EXCEPT ![a].st = "waitConf", ![a].retries = 0]
              /\ conf' = [conf EXCEPT ![a] = [st |-> "asked", copy |-> None]]
         ELSE /\ air' = Without(a)
              /\ amf' = [amf EXCEPT ![a] = Released(@)]
              /\ UNCHANGED conf
    /\ UNCHANGED <<usim, accepted, calls, ausf, anchor, prot, udmRand, udrSqn,
                   overlap, degraded>>

\* the answer to the confirmation: KSEAF, and the Security Mode Command, or
\* Authentication Reject and release
ConfirmationAnswer(a) ==
  /\ amf[a].st = "waitConf"
  /\ \/ /\ conf[a].st = "ok"
        /\ amf' = [amf EXCEPT ![a].st = "secured", ![a].key = conf[a].copy]
        /\ UNCHANGED air
     \/ /\ conf[a].st = "fail"
        /\ amf' = [amf EXCEPT ![a] = Released(@)]
        /\ air' = Without(a)
  /\ UNCHANGED <<usim, accepted, calls, ausf, conf, anchor, prot, udmRand,
                 udrSqn, overlap, degraded>>

\* Authentication Failure: one more attempt, with AUTS when the USIM reports a
\* synch failure.  The RAND of the resynchronisation is the one of the context
AuthenticationFailure(a) ==
  \E m \in air :
    /\ m.type \in {"synch"} \cup FailCauses /\ m.ctx = a
    /\ amf[a].st \in {"challenged", "secured"}
    /\ IF amf[a].fails = 0 /\ m.type \in {"synch"} \cup RetryCauses
         THEN /\ air' = air \ {m}
              /\ CallAusf(a, amf[a].suci,
                          IF m.type \in RetryCauses THEN Fresh
                          ELSE [rand |-> amf[a].vec, auts |-> m.vec, sqnMs |-> m.sqn])
              /\ amf' = [amf EXCEPT ![a].st = "waitAv", ![a].fails = 1,
                                    ![a].retries = 0, ![a].call = NextCall]
         ELSE /\ air' = Without(a)
              /\ amf' = [amf EXCEPT ![a] = Released(@)]
              /\ UNCHANGED calls
    /\ UNCHANGED <<usim, accepted, ausf, conf, anchor, prot, udmRand, udrSqn,
                   overlap, degraded>>

\* Mutant: one retransmission too many.
BugOneMore(a) ==
  /\ amf[a].st = "challenged"
  /\ IF amf[a].retries <= MaxRetx
       THEN /\ amf' = [amf EXCEPT ![a].retries = @ + 1]
            /\ air' = Challenge(a, amf[a].vec)
       ELSE /\ amf' = [amf EXCEPT ![a] = Released(@)]
            /\ air' = Without(a)
  /\ UNCHANGED <<usim, accepted, calls, ausf, conf, anchor, prot, udmRand,
                 udrSqn, overlap, degraded>>

\* T3560 of the challenge expires: the stored message again, or release.  The
\* timer runs exactly while the context is challenged; the one of the Security
\* Mode Command that follows is in AmfUe
T3560Expiry(a) ==
  /\ amf[a].st = "challenged"
  /\ IF amf[a].retries < MaxRetx
       THEN /\ amf' = [amf EXCEPT ![a].retries = @ + 1]
            /\ air' = Challenge(a, amf[a].vec)
       ELSE /\ amf' = [amf EXCEPT ![a] = Released(@)]
            /\ air' = Without(a)
  /\ UNCHANGED <<usim, accepted, calls, ausf, conf, anchor, prot, udmRand,
                 udrSqn, overlap, degraded>>

----------------------------------------------------------------------------
(* AUSF: app.rs, context.rs *)

\* handle_ue_authentication up to its await: the UE is found or added, and copied
AusfRequest(c) ==
  LET s == calls[c].suci IN
  /\ calls[c].ausf = "sent"
  /\ calls' = [calls EXCEPT ![c].ausf = "wait", ![c].udm = "get",
                            ![c].copy = ausf[s].vec]
  /\ ausf' = [ausf EXCEPT ![s].known = TRUE]
  /\ UNCHANGED <<usim, accepted, amf, conf, anchor, prot, udmRand, udrSqn,
                 overlap, degraded, air>>

\* Mutant: the vector is answered but not written back.
BugForgetsVector(c) ==
  LET s == calls[c].suci IN
  /\ calls[c].ausf = "wait"
  /\ ausf' = [ausf EXCEPT ![s].vec = calls[c].copy]
  /\ calls' = [calls EXCEPT ![c].ausf = IF calls[c].udm = "av" THEN "ok" ELSE "err",
                            ![c].copy = None]
  /\ UNCHANGED <<usim, accepted, amf, conf, anchor, prot, udmRand, udrSqn,
                 overlap, degraded, air>>

\* and after it: the vector is stored in the copy and the copy written back,
\* or, when the UDM refused or did not answer, the copy alone
AusfAnswer(c) ==
  LET s == calls[c].suci IN
  /\ calls[c].ausf = "wait"
  /\ \/ /\ calls[c].udm = "av"
        /\ ausf' = [ausf EXCEPT ![s].vec = c]
        /\ calls' = [calls EXCEPT ![c].ausf = "ok", ![c].copy = None]
     \/ /\ ausf' = [ausf EXCEPT ![s].vec = calls[c].copy]
        /\ calls' = [calls EXCEPT ![c].ausf = "err", ![c].copy = None]
  /\ UNCHANGED <<usim, accepted, amf, conf, anchor, prot, udmRand, udrSqn,
                 overlap, degraded, air>>

\* handle_5g_aka_confirmation: the UE is copied ...
ConfirmRead(a) ==
  /\ conf[a].st = "asked"
  /\ conf' = [conf EXCEPT ![a] = [st |-> "read", copy |-> ausf[amf[a].suci].vec]]
  /\ UNCHANGED <<usim, accepted, amf, calls, ausf, anchor, prot, udmRand,
                 udrSqn, overlap, degraded, air>>

\* SorUpuAnchor::refresh: the counters start again only with another KAUSF
Refresh(v) == IF anchor.key = v THEN anchor
              ELSE [key |-> v, ctr |-> [k \in Kinds |-> 1]]

\* Mutant: the key is taken from the context after the comparison, not from the copy.
BugReadsAgain(a) ==
  /\ conf[a].st = "read"
  /\ IF conf[a].copy = amf[a].vec
       THEN /\ conf' = [conf EXCEPT ![a] = [st |-> "ok", copy |-> ausf[amf[a].suci].vec]]
            /\ anchor' = Refresh(conf[a].copy)
       ELSE /\ conf' = [conf EXCEPT ![a].st = "fail"]
            /\ UNCHANGED anchor
  /\ UNCHANGED <<usim, accepted, amf, calls, ausf, prot, udmRand, udrSqn, overlap,
                 degraded, air>>

\* Mutant: the anchor is refreshed whatever the result.
BugAnchorsFailure(a) ==
  /\ conf[a].st = "read"
  /\ ausf' = [ausf EXCEPT ![amf[a].suci].vec = conf[a].copy]
  /\ conf' = [conf EXCEPT ![a].st = IF conf[a].copy = amf[a].vec THEN "ok" ELSE "fail"]
  /\ anchor' = Refresh(conf[a].copy)
  /\ UNCHANGED <<usim, accepted, amf, calls, prot, udmRand, udrSqn, overlap,
                 degraded, air>>

\* ... RES* is compared with its XRES*, the copy written back, KSEAF derived
\* from its KAUSF and the anchor refreshed
ConfirmWrite(a) ==
  /\ conf[a].st = "read"
  /\ ausf' = [ausf EXCEPT ![amf[a].suci].vec = conf[a].copy]
  /\ IF conf[a].copy = amf[a].vec
       THEN /\ conf' = [conf EXCEPT ![a].st = "ok"]
            /\ anchor' = Refresh(conf[a].copy)
       ELSE /\ conf' = [conf EXCEPT ![a].st = "fail"]
            /\ UNCHANGED anchor
  /\ UNCHANGED <<usim, accepted, amf, calls, prot, udmRand, udrSqn, overlap, degraded, air>>

\* handle_sor_protect, handle_upu_protect: the key is looked up ...
ProtectLookup(t, k) ==
  /\ prot[t].st = "idle" /\ anchor.key # None
  /\ prot' = [prot EXCEPT ![t] = [st |-> "looked", kind |-> k,
                                  key |-> anchor.key, ctr |-> 0]]
  /\ UNCHANGED <<usim, accepted, amf, calls, ausf, conf, anchor, udmRand,
                 udrSqn, overlap, degraded, air>>

\* ... and a counter value allocated, under another acquisition of the lock
ProtectCount(t) ==
  LET n == anchor.ctr[prot[t].kind] IN
  /\ prot[t].st = "looked"
  /\ IF n = CounterMax
       THEN /\ prot' = [prot EXCEPT ![t].st = "refused"]
            /\ UNCHANGED anchor
       ELSE /\ prot' = [prot EXCEPT ![t].st = "done", ![t].ctr = n]
            /\ anchor' = [anchor EXCEPT !.ctr[prot[t].kind] = n + 1]
  /\ UNCHANGED <<usim, accepted, amf, calls, ausf, conf, udmRand, udrSqn,
                 overlap, degraded, air>>

----------------------------------------------------------------------------
(* UDM handle_generate_auth_data, and the authentication subscription of the UDR *)

Busy(c) == calls[c].udm \in {"got", "patch"}

\* the GET of the authentication subscription.  One that fails ends the handler:
\* this action is then never taken, and AusfAnswer refuses
UdrGet(c) ==
  /\ calls[c].udm = "get"
  /\ calls' = [calls EXCEPT ![c].udm = "got", ![c].sqn = udrSqn]
  /\ overlap' = (overlap \/ \E d \in Calls : Busy(d))
  /\ UNCHANGED <<usim, accepted, amf, ausf, conf, anchor, prot, udmRand, udrSqn,
                 degraded, air>>

\* Mutant: the RAND is not compared with the stored one.
BugAnyRand(r) == r.auts = r.rand

\* the RAND of a resynchronisation must be the last one drawn, and AUTS made for it
ResyncValid(r) == r.rand = udmRand /\ r.auts = r.rand

\* after the GET: resynchronisation, a new RAND, the vector, ue_update
UdmGenerate(c) ==
  LET r == calls[c].resync IN
  /\ calls[c].udm = "got"
  /\ IF r = Fresh \/ ResyncValid(r)
       THEN /\ calls' = [calls EXCEPT
                           ![c].udm = "patch",
                           ![c].sqn = IF r = Fresh THEN @ ELSE (r.sqnMs + 1) % SqnSize]
            /\ udmRand' = c
       ELSE /\ calls' = [calls EXCEPT ![c].udm = "err"]
            /\ UNCHANGED udmRand
  /\ UNCHANGED <<usim, accepted, amf, ausf, conf, anchor, prot, udrSqn, overlap, degraded,
                 air>>

\* the PATCH of the SQN.  Applied and answered: the vector is issued.  Applied
\* but not answered: it is withheld, as after a 5xx, where nothing happens at all
\* but the refusal of AusfAnswer.  Another status: issued although not applied
UdrPatch(c) ==
  LET q == advance_sqn_ind(calls[c].sqn) IN
  /\ calls[c].udm = "patch"
  /\ \/ /\ udrSqn' = q
        /\ calls' = [calls EXCEPT ![c].udm = "av"]
        /\ UNCHANGED degraded
     \/ /\ udrSqn' = q
        /\ calls' = [calls EXCEPT ![c].udm = "err"]
        /\ UNCHANGED degraded
     \/ /\ UNCHANGED udrSqn
        /\ calls' = [calls EXCEPT ![c].udm = "av"]
        /\ degraded' = TRUE
  /\ UNCHANGED <<usim, accepted, amf, ausf, conf, anchor, prot, udmRand, overlap, air>>

----------------------------------------------------------------------------
(* UE and radio (external).  A NAS message may stay in air for ever: that is  *)
(* its loss, and what happens to one that reaches a context already gone.      *)

\* the USIM accepts a fresh SQN, repeats its answer to the vector it accepted
\* last, and reports a synch failure otherwise; it may refuse any challenge
UeChallenge ==
  \E m \in air :
    LET v == m.vec IN
    /\ m.type = "req" /\ m.ctx = usim.at
    /\ \/ /\ calls[v].sqn > usim.sqn
          /\ usim' = [usim EXCEPT !.sqn = calls[v].sqn, !.vec = v]
          /\ accepted' = accepted \cup {v}
          /\ air' = (air \ {m}) \cup {ResMsg(m.ctx, v)}
       \/ /\ v = usim.vec
          /\ air' = (air \ {m}) \cup {ResMsg(m.ctx, v)}
          /\ UNCHANGED <<usim, accepted>>
       \/ /\ v # usim.vec /\ calls[v].sqn <= usim.sqn
          /\ air' = (air \ {m}) \cup {SynchMsg(m.ctx, v, usim.sqn)}
          /\ UNCHANGED <<usim, accepted>>
       \/ /\ \E t \in FailCauses :
               air' = (air \ {m}) \cup {FailMsg(m.ctx, v, t)}
          /\ UNCHANGED <<usim, accepted>>
    /\ UNCHANGED <<amf, calls, ausf, conf, anchor, prot, udmRand, udrSqn, overlap, degraded>>

----------------------------------------------------------------------------
(* Specification *)

Init ==
  /\ usim \in [sqn : UsimSqns, vec : {None}, at : {None}]
  /\ accepted = {}
  /\ amf = [a \in Contexts |-> [st |-> "none", suci |-> NoSuci, call |-> None,
                                vec |-> None, key |-> None, fails |-> 0,
                                retries |-> 0]]
  /\ calls = [c \in Calls |-> [ausf |-> "free", udm |-> "idle", by |-> None,
                               suci |-> NoSuci, copy |-> None, resync |-> Fresh, sqn |-> 0]]
  /\ ausf = [s \in Sucis |-> [known |-> FALSE, vec |-> None]]
  /\ conf = [a \in Contexts |-> [st |-> "none", copy |-> None]]
  /\ anchor = [key |-> None, ctr |-> [k \in Kinds |-> 1]]
  /\ prot \in [Tasks -> [st : {"idle"}, kind : {CHOOSE k \in Kinds : TRUE},
                         key : {None}, ctr : {0}]]
  /\ udmRand = None /\ udrSqn = IndSize /\ overlap = FALSE /\ degraded = FALSE
  /\ air = {}

AmfStep(a) ==
  \/ \E s \in Sucis : RegistrationRequest(a, s)
  \/ AuthenticationAnswer(a)
  \/ CallTimeout(a)
  \/ AuthenticationResponse(a)
  \/ ConfirmationAnswer(a)
  \/ AuthenticationFailure(a)
  \/ T3560Expiry(a)

CoreStep ==
  \/ \E c \in Calls : \/ AusfRequest(c) \/ AusfAnswer(c)
                      \/ UdrGet(c) \/ UdmGenerate(c) \/ UdrPatch(c)
  \/ \E a \in Contexts : ConfirmRead(a) \/ ConfirmWrite(a)
  \/ \E t \in Tasks : ProtectCount(t) \/ \E k \in Kinds : ProtectLookup(t, k)

Next == (\E a \in Contexts : AmfStep(a)) \/ CoreStep \/ UeChallenge

Spec == Init /\ [][Next]_vars

----------------------------------------------------------------------------
(* Properties *)

\* An AMF holds a KSEAF only of a vector whose keys the UE has derived too, and
\* while the Security Mode Command runs it is the key of the challenge the
\* context sent (handle_5g_aka_confirmation compares and derives from one copy).
KeyAgreement ==
  \A a \in Contexts :
    /\ amf[a].key # None => amf[a].key \in accepted
    /\ amf[a].st = "secured" => amf[a].key = amf[a].vec

\* Every SoR or UPU MAC is made with a KAUSF the UE derived, and with a counter
\* between 1 and the one at which the service suspends (anchor_refresh only after
\* a successful confirmation, next_counter).
MacKeyKnown ==
  \A t \in Tasks :
    prot[t].st = "done" => prot[t].key \in accepted /\ prot[t].ctr \in 1..(CounterMax - 1)

\* The AUSF fails the right answer of a UE only when another AMF context asked
\* for a vector for the same SUCI: no earlier request of the context itself, nor
\* one that failed or timed out, leaves a stale vector in the AusfUe.
RejectedOnlyByRival ==
  \A a \in Contexts :
    conf[a].st = "fail" =>
      \E c \in Calls : calls[c].suci = amf[a].suci /\ calls[c].by # a

\* A vector is issued with an SQN above every SQN issued before it, as long as
\* no two requests for the SUPI overlap in the UDM and no PATCH is refused:
\* also across resynchronisations (handle_generate_auth_data).
SqnAdvances ==
  [][\A c, d \in Calls :
       (Issued(c)' /\ ~Issued(c) /\ Issued(d) /\ ~overlap' /\ ~degraded') =>
         calls[d].sqn < calls[c].sqn]_vars
============================================================================
