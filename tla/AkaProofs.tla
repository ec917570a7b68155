----------------------------- MODULE AkaProofs -----------------------------
(***************************************************************************)
(* Proofs about Aka, for any number of contexts, SUCIs, requests and any   *)
(* timer configuration: the keys that AMF and AUSF hold are keys the UE    *)
(* has derived too, the AUSF fails the right answer of a UE only when      *)
(* another context asked for a vector meanwhile, and sequence numbers rise.*)
(***************************************************************************)
EXTENDS Aka, FiniteSetTheorems, TLAPS

-----------------------------------------------------------------------------
(* The core invariant: types, and what each state of a handler refers to.  *)

AmfRec  == [st : {"none", "waitAv", "challenged", "waitConf", "secured", "gone"},
            suci : Sucis \cup {NoSuci}, call : Vecs, vec : Vecs, key : Vecs,
            fails : 0..1, retries : 0..MaxRetx]
CallRec == [ausf : {"free", "sent", "wait", "ok", "err"},
            udm : {"idle", "get", "got", "patch", "av", "err"},
            by : Contexts \cup {None}, suci : Sucis \cup {NoSuci}, copy : Vecs,
            resync : Resyncs, sqn : Sqns]
ConfRec == [st : {"none", "asked", "read", "ok", "fail"}, copy : Vecs]
ProtRec == [st : {"idle", "looked", "done", "refused"}, kind : Kinds, key : Vecs,
            ctr : 0..CounterMax]
Msgs    == [type : {"req", "res", "synch", "again", "other"}, ctx : Contexts,
            vec : Calls, sqn : Sqns]

UeOK    == /\ usim \in [sqn : Sqns, vec : Vecs, at : Contexts \cup {None}]
           /\ accepted \subseteq Calls /\ air \subseteq Msgs
AmfOK   == amf \in [Contexts -> AmfRec]
CallsOK == calls \in [Calls -> CallRec]
AusfOK  == /\ ausf \in [Sucis -> [known : BOOLEAN, vec : Vecs]]
           /\ conf \in [Contexts -> ConfRec]
AncOK   == /\ anchor \in [key : Vecs, ctr : [Kinds -> 1..CounterMax]]
           /\ prot \in [Tasks -> ProtRec]
UdmOK   == /\ udmRand \in Vecs /\ udrSqn \in Sqns
           /\ overlap \in BOOLEAN /\ degraded \in BOOLEAN

Asking(a) == conf[a].st \in {"asked", "read"}

\* What a context refers to.
CtxOK(x) == /\ x.st # "none" => x.suci \in Sucis
            /\ x.st = "waitAv" => x.call \in Calls
            /\ x.st \in {"challenged", "waitConf", "secured"} => x.vec \in Calls
Contexted == \A a \in Contexts : CtxOK(amf[a])
Called    == \A c \in Calls : calls[c].ausf # "free" => calls[c].suci \in Sucis
Confirmed == \A a \in Contexts : Asking(a) => amf[a].st \in {"waitConf", "gone"}

Core == /\ UeOK /\ AmfOK /\ CallsOK /\ AusfOK /\ AncOK /\ UdmOK
        /\ Contexted /\ Called /\ Confirmed

-----------------------------------------------------------------------------
(* Building blocks.                                                        *)

LEMMA Remainder ==
  ASSUME NEW n \in Nat
  PROVE  n % SqnSize \in Sqns
BY AkaAssumption DEF Sqns

LEMMA Zero == 0 \in Sqns /\ IndSize \in Sqns
BY AkaAssumption DEF Sqns

LEMMA FreshResync == Fresh \in Resyncs
BY Zero DEF Fresh, Resyncs, Vecs

LEMMA NextUnused ==
  ASSUME UnusedCalls # {}
  PROVE  NextCall \in Calls /\ calls[NextCall].ausf = "free"
<1>1. NextCall \in UnusedCalls
  BY DEF NextCall
<1> QED
  BY <1>1 DEF UnusedCalls

LEMMA MessageFacts ==
  ASSUME NEW a \in Contexts, NEW v \in Calls, NEW q \in Sqns, NEW t \in FailCauses
  PROVE  /\ ReqMsg(a, v) \in Msgs /\ ReqMsg(a, v).type = "req"
         /\ ResMsg(a, v) \in Msgs /\ ResMsg(a, v).type = "res" /\ ResMsg(a, v).vec = v
         /\ SynchMsg(a, v, q) \in Msgs /\ SynchMsg(a, v, q).type = "synch"
         /\ FailMsg(a, v, t) \in Msgs /\ FailMsg(a, v, t).type \in {"again", "other"}
BY Zero, AkaAssumption DEF ReqMsg, ResMsg, SynchMsg, FailMsg, Msgs

\* The record of one context changes.
PutAmf(a, r) == amf' = [amf EXCEPT ![a] = r]

LEMMA PutAmfFacts ==
  ASSUME AmfOK, NEW a \in Contexts, NEW r \in AmfRec, PutAmf(a, r)
  PROVE  AmfOK' /\ amf'[a] = r /\ \A b \in Contexts \ {a} : amf'[b] = amf[b]
BY DEF AmfOK, PutAmf

LEMMA ReleasedFacts ==
  ASSUME NEW x \in AmfRec
  PROVE  /\ Released(x) \in AmfRec /\ Released(x).st = "gone" /\ Released(x).suci = x.suci
         /\ Released(x).vec = x.vec /\ Released(x).key = None
<1>1. 0 \in 0..MaxRetx /\ 0 \in 0..1 /\ None \in Vecs
  BY AkaAssumption DEF Vecs
<1> QED
  BY <1>1 DEF Released, AmfRec

\* The record of one request changes.
PutCall(c, r) == calls' = [calls EXCEPT ![c] = r]

LEMMA PutCallFacts ==
  ASSUME CallsOK, NEW c \in Calls, NEW r \in CallRec, PutCall(c, r)
  PROVE  CallsOK' /\ calls'[c] = r /\ \A d \in Calls \ {c} : calls'[d] = calls[d]
BY DEF CallsOK, PutCall

LEMMA CallAusfFacts ==
  ASSUME Core, NEW a \in Contexts, NEW s \in Sucis, NEW resync \in Resyncs,
         CallAusf(a, s, resync)
  PROVE  \E c \in Calls :
           /\ c = NextCall /\ calls[c].ausf = "free" /\ CallsOK' /\ Called'
           /\ calls'[c].ausf = "sent" /\ calls'[c].by = a /\ calls'[c].suci = s
           /\ calls'[c].udm = calls[c].udm /\ calls'[c].sqn = calls[c].sqn
           /\ calls'[c].resync = resync
           /\ \A d \in Calls \ {c} : calls'[d] = calls[d]
<1>1. PICK c \in Calls : c = NextCall /\ calls[c].ausf = "free"
  BY NextUnused DEF CallAusf
<1>2. PICK r : r = [calls[c] EXCEPT !.ausf = "sent", !.by = a, !.suci = s, !.resync = resync]
  OBVIOUS
<1>3. PutCall(c, r)
  BY <1>1, <1>2 DEF CallAusf, PutCall
<1>4. /\ r \in CallRec /\ r.ausf = "sent" /\ r.by = a /\ r.suci = s /\ r.udm = calls[c].udm
      /\ r.sqn = calls[c].sqn /\ r.resync = resync
  <2>1. calls[c] \in CallRec
    BY DEF Core, CallsOK
  <2> QED
    BY <1>2, <2>1 DEF CallRec
<1>5. CallsOK' /\ calls'[c] = r /\ \A d \in Calls \ {c} : calls'[d] = calls[d]
  BY <1>3, <1>4, PutCallFacts DEF Core
<1>6. Called'
  BY <1>4, <1>5 DEF Core, Called
<1> QED
  BY <1>1, <1>4, <1>5, <1>6

\* A step of the AMF: context a becomes r.
LEMMA AmfCore ==
  ASSUME Core, NEW a \in Contexts, NEW r \in AmfRec, PutAmf(a, r), CtxOK(r), UeOK',
         CallsOK', Called', conf' \in [Contexts -> ConfRec],
         \A b \in Contexts \ {a} : conf'[b] = conf[b],
         conf'[a].st \in {"asked", "read"} => r.st \in {"waitConf", "gone"},
         UNCHANGED <<ausf, anchor, prot, udmRand, udrSqn, overlap, degraded>>
  PROVE  Core'
<1>1. AmfOK' /\ amf'[a] = r /\ \A b \in Contexts \ {a} : amf'[b] = amf[b]
  BY PutAmfFacts DEF Core
<1>2. Contexted'
  BY <1>1 DEF Core, Contexted
<1>3. Confirmed'
  BY <1>1 DEF Core, Confirmed, Asking
<1>4. AusfOK' /\ AncOK' /\ UdmOK'
  BY DEF Core, AusfOK, AncOK, UdmOK
<1> QED
  BY <1>1, <1>2, <1>3, <1>4 DEF Core

LEMMA RegistrationRequestMove ==
  ASSUME Core, NEW a \in Contexts, NEW s \in Sucis, RegistrationRequest(a, s)
  PROVE  \E r \in AmfRec, c \in Calls :
           /\ PutAmf(a, r) /\ r.st = "waitAv" /\ r.suci = s /\ r.call = c /\ r.vec = amf[a].vec
           /\ r.key = amf[a].key /\ amf[a].st = "none"
           /\ calls[c].ausf = "free" /\ CallsOK' /\ Called'
           /\ calls'[c].ausf = "sent" /\ calls'[c].by = a /\ calls'[c].suci = s
           /\ calls'[c].udm = calls[c].udm /\ calls'[c].sqn = calls[c].sqn
           /\ calls'[c].resync = Fresh
           /\ \A d \in Calls \ {c} : calls'[d] = calls[d]
<1>1. CallAusf(a, s, Fresh) /\ amf[a].st = "none"
  BY DEF RegistrationRequest
<1>2. PICK c \in Calls :
           /\ c = NextCall /\ calls[c].ausf = "free" /\ CallsOK' /\ Called'
           /\ calls'[c].ausf = "sent" /\ calls'[c].by = a /\ calls'[c].suci = s
           /\ calls'[c].udm = calls[c].udm /\ calls'[c].sqn = calls[c].sqn
           /\ calls'[c].resync = Fresh
           /\ \A d \in Calls \ {c} : calls'[d] = calls[d]
  BY <1>1, CallAusfFacts, FreshResync
<1>3. PICK r : r = [amf[a] EXCEPT !.st = "waitAv", !.suci = s, !.call = c]
  OBVIOUS
<1>4. PutAmf(a, r)
  BY <1>2, <1>3 DEF RegistrationRequest, PutAmf
<1>5. /\ r \in AmfRec /\ r.st = "waitAv" /\ r.suci = s /\ r.call = c /\ r.vec = amf[a].vec
      /\ r.key = amf[a].key
  <2>1. amf[a] \in AmfRec /\ c \in Vecs
    BY <1>2 DEF Core, AmfOK, Vecs
  <2> QED
    BY <1>3, <2>1 DEF AmfRec
<1> QED
  BY <1>1, <1>2, <1>4, <1>5

LEMMA RegistrationRequestCore ==
  ASSUME Core, NEW a \in Contexts, NEW s \in Sucis, RegistrationRequest(a, s)
  PROVE  Core'
<1>1. PICK r \in AmfRec, c \in Calls :
           /\ PutAmf(a, r) /\ r.st = "waitAv" /\ r.suci = s /\ r.call = c
           /\ amf[a].st = "none" /\ CallsOK' /\ Called'
  BY RegistrationRequestMove
<1>2. UNCHANGED <<accepted, ausf, conf, anchor, prot, udmRand, udrSqn, overlap, degraded>>
  BY DEF RegistrationRequest
<1>3. UeOK'
  <2>1. usim' = [usim EXCEPT !.at = a] /\ air' \subseteq air
    BY DEF RegistrationRequest
  <2> QED
    BY <1>2, <2>1 DEF Core, UeOK
<1>4. CtxOK(r)
  BY <1>1 DEF CtxOK
<1>5. ~Asking(a)
  BY <1>1 DEF Core, Confirmed
<1> QED
  BY <1>1, <1>2, <1>3, <1>4, <1>5, AmfCore DEF Core, AusfOK, Asking

\* A context that is released.
LEMMA ReleaseMove ==
  ASSUME Core, NEW a \in Contexts, amf' = [amf EXCEPT ![a] = Released(@)]
  PROVE  \E r \in AmfRec : /\ PutAmf(a, r) /\ r.st = "gone" /\ r.suci = amf[a].suci
                           /\ r.vec = amf[a].vec /\ r.key = None
<1>1. PICK x \in AmfRec : x = amf[a]
  BY DEF Core, AmfOK
<1>2. PICK r : r = Released(x)
  OBVIOUS
<1> QED
  BY <1>1, <1>2, ReleasedFacts DEF PutAmf

LEMMA ReleaseCore ==
  ASSUME Core, NEW a \in Contexts, amf' = [amf EXCEPT ![a] = Released(@)], air' = Without(a),
         amf[a].st # "none",
         UNCHANGED <<usim, accepted, calls, ausf, conf, anchor, prot, udmRand, udrSqn, overlap,
                     degraded>>
  PROVE  Core'
<1>1. PICK r \in AmfRec : PutAmf(a, r) /\ r.st = "gone" /\ r.suci = amf[a].suci
  BY ReleaseMove
<1>2. CtxOK(r)
  BY <1>1 DEF CtxOK, Core, Contexted
<1>3. UeOK'
  BY DEF Core, UeOK, Without
<1>4. CallsOK' /\ Called'
  BY DEF Core, CallsOK, Called
<1> QED
  BY <1>1, <1>2, <1>3, <1>4, AmfCore DEF Core, AusfOK

LEMMA ChallengeFacts ==
  ASSUME Core, NEW a \in Contexts, NEW v \in Calls
  PROVE  /\ Challenge(a, v) \subseteq Msgs
         /\ \A m \in Challenge(a, v) : m \in air \/ (m.type = "req" /\ m.vec = v /\ m.sqn = 0)
<1>1. /\ ReqMsg(a, v) \in Msgs /\ ReqMsg(a, v).type = "req" /\ ReqMsg(a, v).vec = v
      /\ ReqMsg(a, v).sqn = 0
  BY Zero DEF ReqMsg, Msgs
<1> QED
  BY <1>1 DEF Challenge, Core, UeOK

LEMMA AnswerMove ==
  ASSUME Core, NEW a \in Contexts, AuthenticationAnswer(a)
  PROVE  /\ amf[a].st = "waitAv" /\ amf[a].call \in Calls
         /\ \/ /\ calls[amf[a].call].ausf = "ok" /\ air' = Challenge(a, amf[a].call)
               /\ \E r \in AmfRec : /\ PutAmf(a, r) /\ r.st = "challenged" /\ r.suci = amf[a].suci
                                    /\ r.vec = amf[a].call /\ r.key = amf[a].key
                                    /\ r.call = amf[a].call
            \/ amf' = [amf EXCEPT ![a] = Released(@)] /\ air' = Without(a)
         /\ UNCHANGED <<usim, accepted, calls, ausf, conf, anchor, prot, udmRand, udrSqn, overlap,
                        degraded>>
<1>1. amf[a].st = "waitAv" /\ amf[a].call \in Calls /\ amf[a] \in AmfRec
  BY DEF AuthenticationAnswer, Core, Contexted, CtxOK, AmfOK
<1>2. PICK r : r = [amf[a] EXCEPT !.st = "challenged", !.vec = amf[a].call, !.retries = 0]
  OBVIOUS
<1>3. /\ r \in AmfRec /\ r.st = "challenged" /\ r.suci = amf[a].suci
      /\ r.vec = amf[a].call /\ r.key = amf[a].key /\ r.call = amf[a].call
  <2>1. 0 \in 0..MaxRetx
    BY AkaAssumption
  <2> QED
    BY <1>1, <1>2, <2>1 DEF AmfRec
<1>4. \/ /\ calls[amf[a].call].ausf = "ok" /\ air' = Challenge(a, amf[a].call) /\ PutAmf(a, r)
      \/ amf' = [amf EXCEPT ![a] = Released(@)] /\ air' = Without(a)
  BY <1>2 DEF AuthenticationAnswer, PutAmf
<1>5. UNCHANGED <<usim, accepted, calls, ausf, conf, anchor, prot, udmRand, udrSqn, overlap,
                  degraded>>
  BY DEF AuthenticationAnswer
<1> QED
  BY <1>1, <1>3, <1>4, <1>5

LEMMA AnswerCore ==
  ASSUME Core, NEW a \in Contexts, AuthenticationAnswer(a)
  PROVE  Core'
<1>1. /\ amf[a].st = "waitAv" /\ amf[a].call \in Calls
      /\ UNCHANGED <<usim, accepted, calls, ausf, conf, anchor, prot, udmRand, udrSqn, overlap,
                     degraded>>
  BY AnswerMove
<1>2. CASE amf' = [amf EXCEPT ![a] = Released(@)] /\ air' = Without(a)
  BY <1>1, <1>2, ReleaseCore
<1>3. ASSUME NEW r \in AmfRec, PutAmf(a, r), r.st = "challenged", r.suci = amf[a].suci,
             r.vec = amf[a].call, air' = Challenge(a, amf[a].call)
      PROVE  Core'
  <2>1. CtxOK(r)
    BY <1>1, <1>3 DEF CtxOK, Core, Contexted
  <2>2. UeOK'
    BY <1>1, <1>3, ChallengeFacts DEF Core, UeOK
  <2>3. CallsOK' /\ Called' /\ ~Asking(a)
    BY <1>1 DEF Core, CallsOK, Called, Confirmed
  <2> QED
    BY <1>1, <1>3, <2>1, <2>2, <2>3, AmfCore DEF Core, AusfOK, Asking
<1> QED
  BY <1>2, <1>3, AnswerMove

LEMMA TimeoutCore ==
  ASSUME Core, NEW a \in Contexts, CallTimeout(a)
  PROVE  Core'
BY ReleaseCore DEF CallTimeout

\* A message that arrives is taken out of the air.
LEMMA ResponseMove ==
  ASSUME Core, NEW a \in Contexts, AuthenticationResponse(a)
  PROVE  /\ amf[a].st \in {"challenged", "secured"} /\ air' \subseteq air
         /\ UNCHANGED <<usim, accepted, calls, ausf, anchor, prot, udmRand, udrSqn, overlap,
                        degraded>>
         /\ \/ /\ \E r \in AmfRec : /\ PutAmf(a, r) /\ r.st = "waitConf" /\ r.suci = amf[a].suci
                                    /\ r.vec = amf[a].vec /\ r.key = amf[a].key
               /\ \E m \in air : m.type = "res" /\ m.vec = amf[a].vec
               /\ conf' = [conf EXCEPT ![a] = [st |-> "asked", copy |-> None]]
            \/ /\ amf' = [amf EXCEPT ![a] = Released(@)] /\ air' = Without(a)
               /\ UNCHANGED conf
<1>1. PICK m \in air :
         /\ m.type = "res" /\ m.ctx = a
         /\ amf[a].st \in {"challenged", "secured"}
         /\ IF m.vec = amf[a].vec
              THEN /\ air' = air \ {m}
                   /\ amf' = [amf EXCEPT ![a].st = "waitConf", ![a].retries = 0]
                   /\ conf' = [conf EXCEPT ![a] = [st |-> "asked", copy |-> None]]
              ELSE /\ air' = Without(a)
                   /\ amf' = [amf EXCEPT ![a] = Released(@)]
                   /\ UNCHANGED conf
         /\ UNCHANGED <<usim, accepted, calls, ausf, anchor, prot, udmRand, udrSqn,
                        overlap, degraded>>
  BY DEF AuthenticationResponse
<1>2. PICK r : r = [amf[a] EXCEPT !.st = "waitConf", !.retries = 0]
  OBVIOUS
<1>3. /\ r \in AmfRec /\ r.st = "waitConf" /\ r.suci = amf[a].suci
      /\ r.vec = amf[a].vec /\ r.key = amf[a].key
  <2>1. 0 \in 0..MaxRetx /\ amf[a] \in AmfRec
    BY AkaAssumption DEF Core, AmfOK
  <2> QED
    BY <1>2, <2>1 DEF AmfRec
<1>4. m.vec = amf[a].vec => PutAmf(a, r)
  BY <1>1, <1>2 DEF PutAmf
<1>5. air' \subseteq air
  BY <1>1 DEF Without
<1>6. CASE m.vec = amf[a].vec
  BY <1>1, <1>3, <1>4, <1>5, <1>6
<1>7. CASE m.vec # amf[a].vec
  BY <1>1, <1>5, <1>7
<1> QED
  BY <1>6, <1>7

LEMMA ResponseCore ==
  ASSUME Core, NEW a \in Contexts, AuthenticationResponse(a)
  PROVE  Core'
<1>1. /\ amf[a].st \in {"challenged", "secured"} /\ air' \subseteq air
      /\ UNCHANGED <<usim, accepted, calls, ausf, anchor, prot, udmRand, udrSqn, overlap, degraded>>
  BY ResponseMove
<1>2. CASE /\ amf' = [amf EXCEPT ![a] = Released(@)] /\ air' = Without(a)
           /\ UNCHANGED conf
  BY <1>1, <1>2, ReleaseCore
<1>3. ASSUME NEW r \in AmfRec, PutAmf(a, r), r.st = "waitConf", r.suci = amf[a].suci,
             r.vec = amf[a].vec, conf' = [conf EXCEPT ![a] = [st |-> "asked", copy |-> None]]
      PROVE  Core'
  <2>1. CtxOK(r)
    BY <1>1, <1>3 DEF CtxOK, Core, Contexted
  <2>2. UeOK' /\ CallsOK' /\ Called'
    BY <1>1 DEF Core, UeOK, CallsOK, Called
  <2>3. conf' \in [Contexts -> ConfRec] /\ \A b \in Contexts \ {a} : conf'[b] = conf[b]
    <3>1. [st |-> "asked", copy |-> None] \in ConfRec
      BY DEF ConfRec, Vecs
    <3> QED
      BY <1>3, <3>1 DEF Core, AusfOK
  <2> QED
    BY <1>1, <1>3, <2>1, <2>2, <2>3, AmfCore
<1> QED
  BY <1>2, <1>3, ResponseMove

LEMMA ConfAnswerMove ==
  ASSUME Core, NEW a \in Contexts, ConfirmationAnswer(a)
  PROVE  /\ amf[a].st = "waitConf"
         /\ UNCHANGED <<usim, accepted, calls, ausf, conf, anchor, prot, udmRand, udrSqn, overlap,
                        degraded>>
         /\ \/ /\ \E r \in AmfRec : /\ PutAmf(a, r) /\ r.st = "secured" /\ r.suci = amf[a].suci
                                    /\ r.vec = amf[a].vec /\ r.key = conf[a].copy
               /\ conf[a].st = "ok" /\ UNCHANGED air
            \/ amf' = [amf EXCEPT ![a] = Released(@)] /\ air' = Without(a)
<1>1. PICK r : r = [amf[a] EXCEPT !.st = "secured", !.key = conf[a].copy]
  OBVIOUS
<1>2. /\ r \in AmfRec /\ r.st = "secured" /\ r.suci = amf[a].suci
      /\ r.vec = amf[a].vec /\ r.key = conf[a].copy
  <2>1. conf[a].copy \in Vecs /\ amf[a] \in AmfRec
    BY DEF Core, AmfOK, AusfOK, ConfRec
  <2> QED
    BY <1>1, <2>1 DEF AmfRec
<1>3. \/ conf[a].st = "ok" /\ PutAmf(a, r) /\ UNCHANGED air
      \/ amf' = [amf EXCEPT ![a] = Released(@)] /\ air' = Without(a)
  BY <1>1 DEF ConfirmationAnswer, PutAmf
<1>4. /\ amf[a].st = "waitConf"
      /\ UNCHANGED <<usim, accepted, calls, ausf, conf, anchor, prot, udmRand, udrSqn, overlap,
                     degraded>>
  BY DEF ConfirmationAnswer
<1> QED
  BY <1>2, <1>3, <1>4

LEMMA ConfAnswerCore ==
  ASSUME Core, NEW a \in Contexts, ConfirmationAnswer(a)
  PROVE  Core'
<1>1. /\ amf[a].st = "waitConf"
      /\ UNCHANGED <<usim, accepted, calls, ausf, conf, anchor, prot, udmRand, udrSqn, overlap,
                     degraded>>
  BY ConfAnswerMove
<1>2. CASE amf' = [amf EXCEPT ![a] = Released(@)] /\ air' = Without(a)
  BY <1>1, <1>2, ReleaseCore
<1>3. ASSUME NEW r \in AmfRec, PutAmf(a, r), r.st = "secured", r.suci = amf[a].suci,
             r.vec = amf[a].vec, conf[a].st = "ok", UNCHANGED air
      PROVE  Core'
  <2>1. CtxOK(r)
    BY <1>1, <1>3 DEF CtxOK, Core, Contexted
  <2>2. UeOK' /\ CallsOK' /\ Called'
    BY <1>1, <1>3 DEF Core, UeOK, CallsOK, Called
  <2> QED
    BY <1>1, <1>3, <2>1, <2>2, AmfCore DEF Core, AusfOK
<1> QED
  BY <1>2, <1>3, ConfAnswerMove

LEMMA FailureMove ==
  ASSUME Core, NEW a \in Contexts, AuthenticationFailure(a)
  PROVE  /\ amf[a].st \in {"challenged", "secured"} /\ air' \subseteq air
         /\ UNCHANGED <<usim, accepted, ausf, conf, anchor, prot, udmRand, udrSqn, overlap, degraded>>
         /\ \/ \E r \in AmfRec, c \in Calls, y \in Resyncs :
                 /\ PutAmf(a, r) /\ r.st = "waitAv" /\ r.suci = amf[a].suci
                 /\ r.vec = amf[a].vec /\ r.key = amf[a].key /\ r.call = c
                 /\ calls[c].ausf = "free" /\ CallsOK' /\ Called'
                 /\ calls'[c].ausf = "sent" /\ calls'[c].by = a /\ calls'[c].suci = amf[a].suci
                 /\ calls'[c].udm = calls[c].udm /\ calls'[c].sqn = calls[c].sqn
                 /\ calls'[c].resync = y
                 /\ \/ y = Fresh
                    \/ \E m \in air : m.type = "synch" /\ y.auts = m.vec /\ y.sqnMs = m.sqn
                 /\ \A d \in Calls \ {c} : calls'[d] = calls[d]
            \/ /\ amf' = [amf EXCEPT ![a] = Released(@)] /\ air' = Without(a)
               /\ UNCHANGED calls
<1>1. PICK m \in air :
         /\ m.type \in {"synch"} \cup FailCauses /\ m.ctx = a
         /\ amf[a].st \in {"challenged", "secured"}
         /\ IF amf[a].fails = 0 /\ m.type \in {"synch"} \cup RetryCauses
              THEN /\ air' = air \ {m}
                   /\ CallAusf(a, amf[a].suci,
                               IF m.type \in RetryCauses THEN Fresh
                               ELSE [rand |-> amf[a].vec, auts |-> m.vec, sqnMs |-> m.sqn])
                   /\ amf' = [amf EXCEPT ![a].st = "waitAv", ![a].fails = 1,
                                         ![a].retries = 0, ![a].call = NextCall]
              ELSE /\ air' = Without(a)
                   /\ amf' = [amf EXCEPT ![a] = Released(@)]
                   /\ UNCHANGED calls
         /\ UNCHANGED <<usim, accepted, ausf, conf, anchor, prot, udmRand, udrSqn,
                        overlap, degraded>>
  BY DEF AuthenticationFailure
<1>2. air' \subseteq air
  BY <1>1 DEF Without
<1>3. CASE ~(amf[a].fails = 0 /\ m.type \in {"synch"} \cup RetryCauses)
  BY <1>1, <1>2, <1>3
<1>4. CASE amf[a].fails = 0 /\ m.type \in {"synch"} \cup RetryCauses
  <2>1. m \in Msgs /\ amf[a] \in AmfRec /\ amf[a].suci \in Sucis
    BY <1>1 DEF Core, UeOK, AmfOK, Contexted, CtxOK
  <2>2. PICK y : y = IF m.type \in RetryCauses THEN Fresh
                     ELSE [rand |-> amf[a].vec, auts |-> m.vec, sqnMs |-> m.sqn]
    OBVIOUS
  <2>3. y \in Resyncs /\ (y = Fresh \/ (m.type = "synch" /\ y.auts = m.vec /\ y.sqnMs = m.sqn))
    <3>1. CASE m.type \in RetryCauses
      BY <2>2, <3>1, FreshResync
    <3>2. CASE m.type \notin RetryCauses
      <4>1. amf[a].vec \in Vecs /\ m.vec \in Vecs /\ m.sqn \in Sqns
        BY <2>1 DEF AmfRec, Msgs, Vecs
      <4> QED
        BY <1>4, <2>2, <3>2, <4>1 DEF Resyncs
    <3> QED
      BY <3>1, <3>2
  <2>4. CallAusf(a, amf[a].suci, y)
    BY <1>1, <1>4, <2>2
  <2>5. PICK s \in Sucis : s = amf[a].suci
    BY <2>1
  <2>6. PICK c \in Calls :
           /\ c = NextCall /\ calls[c].ausf = "free" /\ CallsOK' /\ Called'
           /\ calls'[c].ausf = "sent" /\ calls'[c].by = a /\ calls'[c].suci = s
           /\ calls'[c].udm = calls[c].udm /\ calls'[c].sqn = calls[c].sqn
           /\ calls'[c].resync = y
           /\ \A d \in Calls \ {c} : calls'[d] = calls[d]
    BY <2>3, <2>4, <2>5, CallAusfFacts
  <2>7. PICK r : r = [amf[a] EXCEPT !.st = "waitAv", !.fails = 1, !.retries = 0, !.call = c]
    OBVIOUS
  <2>8. /\ r \in AmfRec /\ r.st = "waitAv" /\ r.suci = amf[a].suci
        /\ r.vec = amf[a].vec /\ r.key = amf[a].key /\ r.call = c
    <3>1. 0 \in 0..MaxRetx /\ 1 \in 0..1 /\ c \in Vecs
      BY AkaAssumption DEF Vecs
    <3> QED
      BY <2>1, <2>7, <3>1 DEF AmfRec
  <2>9. PutAmf(a, r)
    BY <1>1, <1>4, <2>6, <2>7 DEF PutAmf
  <2>10. y = Fresh \/ \E n \in air : n.type = "synch" /\ y.auts = n.vec /\ y.sqnMs = n.sqn
    BY <2>3
  <2> QED
    BY <1>1, <1>2, <2>3, <2>5, <2>6, <2>8, <2>9, <2>10
<1> QED
  BY <1>3, <1>4

LEMMA FailureCore ==
  ASSUME Core, NEW a \in Contexts, AuthenticationFailure(a)
  PROVE  Core'
<1>1. /\ amf[a].st \in {"challenged", "secured"} /\ air' \subseteq air
      /\ UNCHANGED <<usim, accepted, ausf, conf, anchor, prot, udmRand, udrSqn, overlap, degraded>>
  BY FailureMove
<1>2. CASE /\ amf' = [amf EXCEPT ![a] = Released(@)] /\ air' = Without(a)
           /\ UNCHANGED calls
  BY <1>1, <1>2, ReleaseCore
<1>3. ASSUME NEW r \in AmfRec, NEW c \in Calls, PutAmf(a, r), r.st = "waitAv",
             r.suci = amf[a].suci, r.call = c, CallsOK', Called'
      PROVE  Core'
  <2>1. CtxOK(r)
    BY <1>1, <1>3 DEF CtxOK, Core, Contexted
  <2>2. UeOK' /\ ~Asking(a)
    BY <1>1 DEF Core, UeOK, Confirmed
  <2> QED
    BY <1>1, <1>3, <2>1, <2>2, AmfCore DEF Core, AusfOK, Asking
<1> QED
  BY <1>2, <1>3, FailureMove

LEMMA ExpiryMove ==
  ASSUME Core, NEW a \in Contexts, T3560Expiry(a)
  PROVE  /\ amf[a].st = "challenged" /\ amf[a].vec \in Calls
         /\ UNCHANGED <<usim, accepted, calls, ausf, conf, anchor, prot, udmRand, udrSqn, overlap,
                        degraded>>
         /\ \/ /\ \E r \in AmfRec : /\ PutAmf(a, r) /\ r.st = "challenged" /\ r.suci = amf[a].suci
                                    /\ r.vec = amf[a].vec /\ r.key = amf[a].key
                                    /\ r.call = amf[a].call
               /\ air' = Challenge(a, amf[a].vec)
            \/ amf' = [amf EXCEPT ![a] = Released(@)] /\ air' = Without(a)
<1>1. amf[a].st = "challenged" /\ amf[a].vec \in Calls /\ amf[a] \in AmfRec
  BY DEF T3560Expiry, Core, Contexted, CtxOK, AmfOK
<1>2. UNCHANGED <<usim, accepted, calls, ausf, conf, anchor, prot, udmRand, udrSqn, overlap,
                  degraded>>
  BY DEF T3560Expiry
<1>3. CASE amf[a].retries < MaxRetx
  <2>1. PICK n \in 0..MaxRetx : n = amf[a].retries + 1
    <3>1. amf[a].retries \in 0..MaxRetx
      BY <1>1 DEF AmfRec
    <3> QED
      BY <1>3, <3>1, AkaAssumption
  <2>2. PICK r : r = [amf[a] EXCEPT !.retries = n]
    OBVIOUS
  <2>3. /\ r \in AmfRec /\ r.st = amf[a].st /\ r.suci = amf[a].suci
        /\ r.vec = amf[a].vec /\ r.key = amf[a].key /\ r.call = amf[a].call
    BY <1>1, <2>2 DEF AmfRec
  <2>4. PutAmf(a, r) /\ air' = Challenge(a, amf[a].vec)
    BY <1>3, <2>1, <2>2 DEF T3560Expiry, PutAmf
  <2> QED
    BY <1>1, <1>2, <2>3, <2>4
<1>4. CASE ~(amf[a].retries < MaxRetx)
  BY <1>1, <1>2, <1>4 DEF T3560Expiry
<1> QED
  BY <1>3, <1>4

LEMMA ExpiryCore ==
  ASSUME Core, NEW a \in Contexts, T3560Expiry(a)
  PROVE  Core'
<1>1. /\ amf[a].st = "challenged" /\ amf[a].vec \in Calls
      /\ UNCHANGED <<usim, accepted, calls, ausf, conf, anchor, prot, udmRand, udrSqn, overlap,
                     degraded>>
  BY ExpiryMove
<1>2. CASE amf' = [amf EXCEPT ![a] = Released(@)] /\ air' = Without(a)
  BY <1>1, <1>2, ReleaseCore
<1>3. ASSUME NEW r \in AmfRec, PutAmf(a, r), r.st = "challenged", r.suci = amf[a].suci,
             r.vec = amf[a].vec, air' = Challenge(a, amf[a].vec)
      PROVE  Core'
  <2>1. CtxOK(r)
    BY <1>1, <1>3 DEF CtxOK, Core, Contexted
  <2>2. UeOK'
    BY <1>1, <1>3, ChallengeFacts DEF Core, UeOK
  <2>3. CallsOK' /\ Called' /\ ~Asking(a)
    BY <1>1 DEF Core, CallsOK, Called, Confirmed
  <2> QED
    BY <1>1, <1>3, <2>1, <2>2, <2>3, AmfCore DEF Core, AusfOK, Asking
<1> QED
  BY <1>2, <1>3, ExpiryMove

-----------------------------------------------------------------------------
(* The steps of AUSF and UDM: a request keeps its originator and its SUCI. *)

LEMMA CallStepCore ==
  ASSUME Core, NEW c \in Calls, NEW r \in CallRec, PutCall(c, r), calls[c].ausf # "free",
         r.suci = calls[c].suci, ausf' \in [Sucis -> [known : BOOLEAN, vec : Vecs]], UdmOK',
         UNCHANGED <<usim, accepted, amf, conf, anchor, prot, air>>
  PROVE  Core'
<1>1. CallsOK' /\ calls'[c] = r /\ \A d \in Calls \ {c} : calls'[d] = calls[d]
  BY PutCallFacts DEF Core
<1>2. Called'
  BY <1>1 DEF Core, Called
<1>3. UeOK' /\ AmfOK' /\ AusfOK' /\ AncOK'
  BY DEF Core, UeOK, AmfOK, AusfOK, AncOK
<1>4. Contexted' /\ Confirmed'
  BY DEF Core, Contexted, Confirmed, Asking
<1> QED
  BY <1>1, <1>2, <1>3, <1>4 DEF Core

\* The UDM works for a request that was made.
Requested == \A c \in Calls : calls[c].udm # "idle" => calls[c].ausf # "free"

LEMMA AusfRequestMove ==
  ASSUME Core, NEW c \in Calls, AusfRequest(c)
  PROVE  /\ calls[c].ausf = "sent" /\ calls[c].suci \in Sucis
         /\ \E r \in CallRec : /\ PutCall(c, r) /\ r.ausf = "wait" /\ r.udm = "get"
                               /\ r.suci = calls[c].suci /\ r.by = calls[c].by
                               /\ r.sqn = calls[c].sqn /\ r.resync = calls[c].resync
         /\ ausf' \in [Sucis -> [known : BOOLEAN, vec : Vecs]]
         /\ \A s \in Sucis : ausf'[s].vec = ausf[s].vec
         /\ UNCHANGED <<usim, accepted, amf, conf, anchor, prot, udmRand, udrSqn,
                        overlap, degraded, air>>
<1>1. PICK s \in Sucis : s = calls[c].suci
  BY DEF Core, Called, AusfRequest
<1>2. calls[c].ausf = "sent" /\ calls[c] \in CallRec /\ ausf[s].vec \in Vecs
  BY DEF AusfRequest, Core, CallsOK, AusfOK
<1>3. PICK r : r = [calls[c] EXCEPT !.ausf = "wait", !.udm = "get", !.copy = ausf[s].vec]
  OBVIOUS
<1>4. /\ r \in CallRec /\ r.ausf = "wait" /\ r.udm = "get" /\ r.suci = calls[c].suci
      /\ r.by = calls[c].by /\ r.sqn = calls[c].sqn /\ r.resync = calls[c].resync
  BY <1>2, <1>3 DEF CallRec
<1>5. PutCall(c, r)
  BY <1>1, <1>3 DEF AusfRequest, PutCall
<1>6. PICK w : w = [ausf[s] EXCEPT !.known = TRUE]
  OBVIOUS
<1>7. w \in [known : BOOLEAN, vec : Vecs] /\ w.vec = ausf[s].vec
  BY <1>6 DEF Core, AusfOK
<1>8. ausf' = [ausf EXCEPT ![s] = w]
  BY <1>1, <1>6 DEF AusfRequest
<1>9. /\ ausf' \in [Sucis -> [known : BOOLEAN, vec : Vecs]]
      /\ \A q \in Sucis : ausf'[q].vec = ausf[q].vec
  BY <1>7, <1>8 DEF Core, AusfOK
<1>10. UNCHANGED <<usim, accepted, amf, conf, anchor, prot, udmRand, udrSqn,
                   overlap, degraded, air>>
  BY DEF AusfRequest
<1> QED
  BY <1>1, <1>2, <1>4, <1>5, <1>9, <1>10

LEMMA AusfAnswerMove ==
  ASSUME Core, NEW c \in Calls, AusfAnswer(c)
  PROVE  /\ calls[c].ausf = "wait" /\ calls[c].suci \in Sucis
         /\ \E r \in CallRec, v \in Vecs :
              /\ PutCall(c, r) /\ r.udm = calls[c].udm /\ r.suci = calls[c].suci
              /\ r.by = calls[c].by /\ r.sqn = calls[c].sqn /\ r.resync = calls[c].resync
              /\ (r.ausf = "ok" /\ v = c /\ calls[c].udm = "av") \/ r.ausf = "err"
              /\ ausf' \in [Sucis -> [known : BOOLEAN, vec : Vecs]]
              /\ ausf'[calls[c].suci].vec = v
         /\ \A s \in Sucis \ {calls[c].suci} : ausf'[s] = ausf[s]
         /\ UNCHANGED <<usim, accepted, amf, conf, anchor, prot, udmRand, udrSqn,
                        overlap, degraded, air>>
<1>1. PICK s \in Sucis : s = calls[c].suci
  BY DEF Core, Called, AusfAnswer
<1>2. calls[c].ausf = "wait" /\ calls[c] \in CallRec
  BY DEF AusfAnswer, Core, CallsOK
<1>3. ASSUME NEW e \in {"ok", "err"}, NEW v \in Vecs,
             calls' = [calls EXCEPT ![c].ausf = e, ![c].copy = None],
             ausf' = [ausf EXCEPT ![s].vec = v]
      PROVE  /\ \E r \in CallRec :
                  /\ PutCall(c, r) /\ r.udm = calls[c].udm /\ r.suci = calls[c].suci
                  /\ r.by = calls[c].by /\ r.sqn = calls[c].sqn
                  /\ r.resync = calls[c].resync /\ r.ausf = e
             /\ ausf' \in [Sucis -> [known : BOOLEAN, vec : Vecs]]
             /\ ausf'[s].vec = v /\ \A q \in Sucis \ {s} : ausf'[q] = ausf[q]
  <2>1. PICK r : r = [calls[c] EXCEPT !.ausf = e, !.copy = None]
    OBVIOUS
  <2>2. /\ r \in CallRec /\ r.udm = calls[c].udm /\ r.suci = calls[c].suci
        /\ r.by = calls[c].by /\ r.sqn = calls[c].sqn
        /\ r.resync = calls[c].resync /\ r.ausf = e
    BY <1>2, <2>1 DEF CallRec, Vecs
  <2>3. PutCall(c, r)
    BY <1>3, <2>1 DEF PutCall
  <2>4. PICK w : w = [ausf[s] EXCEPT !.vec = v]
    OBVIOUS
  <2>5. w \in [known : BOOLEAN, vec : Vecs] /\ w.vec = v
    BY <2>4 DEF Core, AusfOK
  <2>6. ausf' = [ausf EXCEPT ![s] = w]
    BY <1>3, <2>4
  <2>7. /\ ausf' \in [Sucis -> [known : BOOLEAN, vec : Vecs]]
        /\ ausf'[s].vec = v /\ \A q \in Sucis \ {s} : ausf'[q] = ausf[q]
    BY <2>5, <2>6 DEF Core, AusfOK
  <2> QED
    BY <2>2, <2>3, <2>7
<1>4. UNCHANGED <<usim, accepted, amf, conf, anchor, prot, udmRand, udrSqn,
                  overlap, degraded, air>>
  BY DEF AusfAnswer
<1>5. CASE /\ calls[c].udm = "av"
           /\ ausf' = [ausf EXCEPT ![s].vec = c]
           /\ calls' = [calls EXCEPT ![c].ausf = "ok", ![c].copy = None]
  <2>1. c \in Vecs
    BY DEF Vecs
  <2> QED
    BY <1>1, <1>2, <1>3, <1>4, <1>5, <2>1
<1>6. CASE /\ ausf' = [ausf EXCEPT ![s].vec = calls[c].copy]
           /\ calls' = [calls EXCEPT ![c].ausf = "err", ![c].copy = None]
  <2>1. PICK v \in Vecs : v = calls[c].copy
    BY <1>2 DEF CallRec
  <2> QED
    BY <1>1, <1>2, <1>3, <1>4, <1>6, <2>1
<1> QED
  BY <1>1, <1>5, <1>6 DEF AusfAnswer

LEMMA UdrGetMove ==
  ASSUME Core, NEW c \in Calls, UdrGet(c)
  PROVE  /\ calls[c].udm = "get"
         /\ \E r \in CallRec : /\ PutCall(c, r) /\ r.ausf = calls[c].ausf /\ r.udm = "got"
                               /\ r.suci = calls[c].suci /\ r.by = calls[c].by
                               /\ r.sqn = udrSqn /\ r.resync = calls[c].resync
         /\ UNCHANGED <<usim, accepted, amf, ausf, conf, anchor, prot, udmRand, udrSqn,
                        degraded, air>>
<1>1. calls[c].udm = "get" /\ calls[c] \in CallRec /\ udrSqn \in Sqns
  BY DEF UdrGet, Core, CallsOK, UdmOK
<1>2. PICK r : r = [calls[c] EXCEPT !.udm = "got", !.sqn = udrSqn]
  OBVIOUS
<1>3. /\ r \in CallRec /\ r.ausf = calls[c].ausf /\ r.udm = "got" /\ r.suci = calls[c].suci
      /\ r.by = calls[c].by /\ r.sqn = udrSqn /\ r.resync = calls[c].resync
  BY <1>1, <1>2 DEF CallRec
<1> QED
  BY <1>1, <1>2, <1>3 DEF UdrGet, PutCall

LEMMA UdmGenerateMove ==
  ASSUME Core, NEW c \in Calls, UdmGenerate(c)
  PROVE  /\ calls[c].udm = "got" /\ udmRand' \in Vecs
         /\ \E r \in CallRec :
              /\ PutCall(c, r) /\ r.ausf = calls[c].ausf
              /\ r.suci = calls[c].suci /\ r.by = calls[c].by /\ r.resync = calls[c].resync
              /\ \/ /\ r.udm = "patch" /\ udmRand' = c
                    /\ r.sqn = IF r.resync = Fresh THEN calls[c].sqn
                               ELSE (r.resync.sqnMs + 1) % SqnSize
                    /\ r.resync = Fresh \/ ResyncValid(r.resync)
                 \/ r.udm = "err" /\ r.sqn = calls[c].sqn /\ UNCHANGED udmRand
         /\ UNCHANGED <<usim, accepted, amf, ausf, conf, anchor, prot, udrSqn, overlap, degraded,
                        air>>
<1>1. calls[c].udm = "got" /\ calls[c] \in CallRec /\ c \in Vecs
  BY DEF UdmGenerate, Core, CallsOK, Vecs
<1>2. UNCHANGED <<usim, accepted, amf, ausf, conf, anchor, prot, udrSqn, overlap, degraded, air>>
  BY DEF UdmGenerate
<1>3. PICK y \in Resyncs : y = calls[c].resync
  BY <1>1 DEF CallRec
<1>4. PICK q \in Sqns : q = IF y = Fresh THEN calls[c].sqn ELSE (y.sqnMs + 1) % SqnSize
  <2>1. calls[c].sqn \in Sqns /\ y.sqnMs + 1 \in Nat
    BY <1>1, <1>3, AkaAssumption DEF CallRec, Resyncs, Sqns
  <2>2. (y.sqnMs + 1) % SqnSize \in Sqns
    BY <2>1, Remainder
  <2> QED
    BY <2>1, <2>2
<1>5. CASE y = Fresh \/ ResyncValid(y)
  <2>1. PICK r : r = [calls[c] EXCEPT !.udm = "patch", !.sqn = q]
    OBVIOUS
  <2>2. /\ r \in CallRec /\ r.ausf = calls[c].ausf /\ r.udm = "patch" /\ r.suci = calls[c].suci
        /\ r.by = calls[c].by /\ r.sqn = q /\ r.resync = y
    BY <1>1, <1>3, <2>1 DEF CallRec
  <2>3. PutCall(c, r) /\ udmRand' = c
    BY <1>3, <1>4, <1>5, <2>1 DEF UdmGenerate, PutCall
  <2> QED
    BY <1>1, <1>2, <1>3, <1>4, <1>5, <2>2, <2>3
<1>6. CASE ~(y = Fresh \/ ResyncValid(y))
  <2>1. PICK r : r = [calls[c] EXCEPT !.udm = "err"]
    OBVIOUS
  <2>2. /\ r \in CallRec /\ r.ausf = calls[c].ausf /\ r.udm = "err" /\ r.suci = calls[c].suci
        /\ r.by = calls[c].by /\ r.sqn = calls[c].sqn /\ r.resync = y
    BY <1>1, <1>3, <2>1 DEF CallRec
  <2>3. PutCall(c, r) /\ UNCHANGED udmRand
    BY <1>3, <1>6, <2>1 DEF UdmGenerate, PutCall
  <2> QED
    BY <1>1, <1>2, <1>3, <2>2, <2>3 DEF Core, UdmOK
<1> QED
  BY <1>5, <1>6

LEMMA UdrPatchMove ==
  ASSUME Core, NEW c \in Calls, UdrPatch(c)
  PROVE  /\ calls[c].udm = "patch" /\ udrSqn' \in Sqns /\ degraded' \in BOOLEAN
         /\ \E r \in CallRec :
              /\ PutCall(c, r) /\ r.ausf = calls[c].ausf
              /\ r.suci = calls[c].suci /\ r.by = calls[c].by /\ r.resync = calls[c].resync
              /\ r.sqn = calls[c].sqn /\ r.udm \in {"av", "err"}
         /\ \/ udrSqn' = advance_sqn_ind(calls[c].sqn) /\ UNCHANGED degraded
            \/ degraded' = TRUE
         /\ UNCHANGED <<usim, accepted, amf, ausf, conf, anchor, prot, udmRand, overlap, air>>
<1>1. calls[c].udm = "patch" /\ calls[c] \in CallRec
  BY DEF UdrPatch, Core, CallsOK
<1>2. UNCHANGED <<usim, accepted, amf, ausf, conf, anchor, prot, udmRand, overlap, air>>
  BY DEF UdrPatch
<1>3. advance_sqn_ind(calls[c].sqn) \in Sqns
  <2>1. calls[c].sqn + IndSize \in Nat
    BY <1>1, AkaAssumption DEF CallRec, Sqns
  <2> QED
    BY <2>1, Remainder DEF advance_sqn_ind
<1>4. PICK u \in {"av", "err"} : calls' = [calls EXCEPT ![c].udm = u]
  BY DEF UdrPatch
<1>5. PICK r : r = [calls[c] EXCEPT !.udm = u]
  OBVIOUS
<1>6. /\ r \in CallRec /\ r.ausf = calls[c].ausf /\ r.udm = u /\ r.suci = calls[c].suci
      /\ r.by = calls[c].by /\ r.sqn = calls[c].sqn /\ r.resync = calls[c].resync
  BY <1>1, <1>5 DEF CallRec
<1>7. PutCall(c, r)
  BY <1>4, <1>5 DEF PutCall
<1>8. /\ udrSqn' \in Sqns /\ degraded' \in BOOLEAN
      /\ \/ udrSqn' = advance_sqn_ind(calls[c].sqn) /\ UNCHANGED degraded
         \/ degraded' = TRUE
  BY <1>3 DEF UdrPatch, Core, UdmOK
<1> QED
  BY <1>1, <1>2, <1>6, <1>7, <1>8

LEMMA CallCore ==
  ASSUME Core, Requested, NEW c \in Calls,
         AusfRequest(c) \/ AusfAnswer(c) \/ UdrGet(c) \/ UdmGenerate(c) \/ UdrPatch(c)
  PROVE  Core' /\ Requested'
<1>1. CASE AusfRequest(c)
  <2>1. PICK r \in CallRec : /\ PutCall(c, r) /\ r.ausf = "wait" /\ r.udm = "get"
                             /\ r.suci = calls[c].suci
    BY <1>1, AusfRequestMove
  <2>2. /\ calls[c].ausf = "sent" /\ ausf' \in [Sucis -> [known : BOOLEAN, vec : Vecs]]
        /\ UNCHANGED <<usim, accepted, amf, conf, anchor, prot, udmRand, udrSqn,
                       overlap, degraded, air>>
    BY <1>1, AusfRequestMove
  <2>3. UdmOK'
    BY <2>2 DEF Core, UdmOK
  <2>4. Core'
    BY <2>1, <2>2, <2>3, CallStepCore
  <2> QED
    BY <2>1, <2>4, PutCallFacts DEF Core, Requested
<1>2. CASE AusfAnswer(c)
  <2>1. PICK r \in CallRec : /\ PutCall(c, r) /\ r.ausf \in {"ok", "err"}
                             /\ r.suci = calls[c].suci
    BY <1>2, AusfAnswerMove
  <2>2. /\ calls[c].ausf = "wait" /\ ausf' \in [Sucis -> [known : BOOLEAN, vec : Vecs]]
        /\ UNCHANGED <<usim, accepted, amf, conf, anchor, prot, udmRand, udrSqn,
                       overlap, degraded, air>>
    BY <1>2, AusfAnswerMove
  <2>3. UdmOK'
    BY <2>2 DEF Core, UdmOK
  <2>4. Core'
    BY <2>1, <2>2, <2>3, CallStepCore
  <2> QED
    BY <2>1, <2>4, PutCallFacts DEF Core, Requested
<1>3. CASE UdrGet(c) \/ UdmGenerate(c) \/ UdrPatch(c)
  <2>1. PICK r \in CallRec : /\ PutCall(c, r) /\ r.ausf = calls[c].ausf
                             /\ r.suci = calls[c].suci
    BY <1>3, UdrGetMove, UdmGenerateMove, UdrPatchMove
  <2>2. /\ calls[c].udm # "idle"
        /\ UNCHANGED <<usim, accepted, amf, ausf, conf, anchor, prot, air>>
    BY <1>3, UdrGetMove, UdmGenerateMove, UdrPatchMove
  <2>3. UdmOK'
    <3>1. CASE UdrGet(c)
      BY <3>1 DEF UdrGet, Core, UdmOK
    <3>2. CASE UdmGenerate(c)
      BY <3>2, UdmGenerateMove DEF Core, UdmOK
    <3>3. CASE UdrPatch(c)
      BY <3>3, UdrPatchMove DEF Core, UdmOK
    <3> QED
      BY <1>3, <3>1, <3>2, <3>3
  <2>4. calls[c].ausf # "free" /\ ausf' \in [Sucis -> [known : BOOLEAN, vec : Vecs]]
    BY <2>2 DEF Requested, Core, AusfOK
  <2>5. Core'
    BY <2>1, <2>2, <2>3, <2>4, CallStepCore
  <2> QED
    BY <2>1, <2>4, <2>5, PutCallFacts DEF Core, Requested
<1> QED
  BY <1>1, <1>2, <1>3

\* A confirmation in the AUSF goes on to state k, with copy v.
LEMMA ConfirmReadMove ==
  ASSUME Core, NEW a \in Contexts, ConfirmRead(a)
  PROVE  /\ conf[a].st = "asked" /\ amf[a].suci \in Sucis
         /\ conf' \in [Contexts -> ConfRec] /\ conf'[a].st = "read"
         /\ conf'[a].copy = ausf[amf[a].suci].vec
         /\ \A b \in Contexts \ {a} : conf'[b] = conf[b]
         /\ UNCHANGED <<usim, accepted, amf, calls, ausf, anchor, prot, udmRand,
                        udrSqn, overlap, degraded, air>>
<1>1. conf[a].st = "asked" /\ amf[a].suci \in Sucis
  BY DEF ConfirmRead, Core, Confirmed, Asking, Contexted, CtxOK
<1>2. ausf[amf[a].suci].vec \in Vecs
  BY <1>1 DEF Core, AusfOK
<1>3. PICK v \in Vecs : v = ausf[amf[a].suci].vec
  BY <1>2
<1>4. PICK r : r = [st |-> "read", copy |-> v]
  OBVIOUS
<1>5. r \in ConfRec /\ r.st = "read" /\ r.copy = v
  BY <1>4 DEF ConfRec
<1>6. conf' = [conf EXCEPT ![a] = r]
  BY <1>3, <1>4 DEF ConfirmRead
<1>7. UNCHANGED <<usim, accepted, amf, calls, ausf, anchor, prot, udmRand,
                  udrSqn, overlap, degraded, air>>
  BY DEF ConfirmRead
<1> QED
  BY <1>1, <1>3, <1>5, <1>6, <1>7 DEF Core, AusfOK

LEMMA RefreshFacts ==
  ASSUME AncOK, NEW v \in Vecs
  PROVE  Refresh(v) \in [key : Vecs, ctr : [Kinds -> 1..CounterMax]] /\ Refresh(v).key = v
<1>1. 1 \in 1..CounterMax
  BY AkaAssumption
<1>2. [k \in Kinds |-> 1] \in [Kinds -> 1..CounterMax]
  BY <1>1
<1> QED
  BY <1>2 DEF Refresh, AncOK

LEMMA ConfirmWriteMove ==
  ASSUME Core, NEW a \in Contexts, ConfirmWrite(a)
  PROVE  /\ conf[a].st = "read" /\ amf[a].suci \in Sucis /\ conf[a].copy \in Vecs
         /\ conf' \in [Contexts -> ConfRec] /\ conf'[a].copy = conf[a].copy
         /\ \A b \in Contexts \ {a} : conf'[b] = conf[b]
         /\ ausf' \in [Sucis -> [known : BOOLEAN, vec : Vecs]]
         /\ ausf'[amf[a].suci].vec = conf[a].copy
         /\ \A s \in Sucis \ {amf[a].suci} : ausf'[s] = ausf[s]
         /\ \/ /\ conf[a].copy = amf[a].vec /\ conf'[a].st = "ok"
               /\ anchor' = Refresh(conf[a].copy)
            \/ conf[a].copy # amf[a].vec /\ conf'[a].st = "fail" /\ UNCHANGED anchor
         /\ UNCHANGED <<usim, accepted, amf, calls, prot, udmRand, udrSqn, overlap, degraded, air>>
<1>1. conf[a].st = "read" /\ amf[a].suci \in Sucis /\ conf[a] \in ConfRec
  BY DEF ConfirmWrite, Core, Confirmed, Asking, Contexted, CtxOK, AusfOK
<1>2. PICK v \in Vecs : v = conf[a].copy
  BY <1>1 DEF ConfRec
<1>3. PICK s \in Sucis : s = amf[a].suci
  BY <1>1
<1>4. /\ ausf' \in [Sucis -> [known : BOOLEAN, vec : Vecs]]
      /\ ausf'[s].vec = v /\ \A q \in Sucis \ {s} : ausf'[q] = ausf[q]
  <2>1. PICK w : w = [ausf[s] EXCEPT !.vec = v]
    OBVIOUS
  <2>2. w \in [known : BOOLEAN, vec : Vecs] /\ w.vec = v
    BY <2>1 DEF Core, AusfOK
  <2>3. ausf' = [ausf EXCEPT ![s] = w]
    BY <1>2, <1>3, <2>1 DEF ConfirmWrite
  <2> QED
    BY <2>2, <2>3 DEF Core, AusfOK
<1>5. ASSUME NEW k \in {"ok", "fail"}, conf' = [conf EXCEPT ![a].st = k]
      PROVE  /\ conf' \in [Contexts -> ConfRec] /\ conf'[a].copy = v /\ conf'[a].st = k
             /\ \A b \in Contexts \ {a} : conf'[b] = conf[b]
  <2>1. PICK r : r = [conf[a] EXCEPT !.st = k]
    OBVIOUS
  <2>2. r \in ConfRec /\ r.st = k /\ r.copy = v
    BY <1>1, <1>2, <2>1 DEF ConfRec
  <2>3. conf' = [conf EXCEPT ![a] = r]
    BY <1>5, <2>1
  <2> QED
    BY <2>2, <2>3 DEF Core, AusfOK
<1>6. UNCHANGED <<usim, accepted, amf, calls, prot, udmRand, udrSqn, overlap, degraded, air>>
  BY DEF ConfirmWrite
<1>7. CASE conf[a].copy = amf[a].vec
  <2>1. conf' = [conf EXCEPT ![a].st = "ok"] /\ anchor' = Refresh(conf[a].copy)
    BY <1>7 DEF ConfirmWrite
  <2> QED
    BY <1>1, <1>2, <1>3, <1>4, <1>5, <1>6, <1>7, <2>1
<1>8. CASE conf[a].copy # amf[a].vec
  <2>1. conf' = [conf EXCEPT ![a].st = "fail"] /\ UNCHANGED anchor
    BY <1>8 DEF ConfirmWrite
  <2> QED
    BY <1>1, <1>2, <1>3, <1>4, <1>5, <1>6, <1>8, <2>1
<1> QED
  BY <1>7, <1>8

LEMMA ConfirmCore ==
  ASSUME Core, NEW a \in Contexts, ConfirmRead(a) \/ ConfirmWrite(a)
  PROVE  Core'
<1>1. CASE ConfirmRead(a)
  <2>1. /\ conf[a].st = "asked" /\ conf' \in [Contexts -> ConfRec]
        /\ \A b \in Contexts \ {a} : conf'[b] = conf[b]
        /\ UNCHANGED <<usim, accepted, amf, calls, ausf, anchor, prot, udmRand,
                       udrSqn, overlap, degraded, air>>
    BY <1>1, ConfirmReadMove
  <2>2. Confirmed'
    BY <2>1 DEF Core, Confirmed, Asking
  <2> QED
    BY <2>1, <2>2
    DEF Core, UeOK, AmfOK, CallsOK, AusfOK, AncOK, UdmOK, Contexted, Called
<1>2. CASE ConfirmWrite(a)
  <2>1. /\ conf[a].st = "read" /\ conf' \in [Contexts -> ConfRec] /\ conf[a].copy \in Vecs
        /\ \A b \in Contexts \ {a} : conf'[b] = conf[b]
        /\ ausf' \in [Sucis -> [known : BOOLEAN, vec : Vecs]]
        /\ conf'[a].st \in {"ok", "fail"}
        /\ anchor' = Refresh(conf[a].copy) \/ UNCHANGED anchor
        /\ UNCHANGED <<usim, accepted, amf, calls, prot, udmRand, udrSqn, overlap, degraded, air>>
    BY <1>2, ConfirmWriteMove
  <2>2. Confirmed'
    BY <2>1 DEF Core, Confirmed, Asking
  <2>3. AncOK'
    <3>1. AncOK
      BY DEF Core
    <3> QED
      BY <2>1, <3>1, RefreshFacts DEF AncOK
  <2>4. AusfOK'
    BY <2>1 DEF AusfOK
  <2> QED
    BY <2>1, <2>2, <2>3, <2>4
    DEF Core, UeOK, AmfOK, CallsOK, UdmOK, Contexted, Called
<1> QED
  BY <1>1, <1>2

LEMMA ProtectLookupMove ==
  ASSUME Core, NEW t \in Tasks, NEW k \in Kinds, ProtectLookup(t, k)
  PROVE  /\ anchor.key # None /\ AncOK'
         /\ prot'[t].st = "looked" /\ prot'[t].key = anchor.key
         /\ \A u \in Tasks \ {t} : prot'[u] = prot[u]
         /\ UNCHANGED <<usim, accepted, amf, calls, ausf, conf, anchor, udmRand,
                        udrSqn, overlap, degraded, air>>
<1>1. PICK r : r = [st |-> "looked", kind |-> k, key |-> anchor.key, ctr |-> 0]
  OBVIOUS
<1>2. r \in ProtRec /\ r.st = "looked" /\ r.key = anchor.key
  <2>1. anchor.key \in Vecs /\ 0 \in 0..CounterMax
    BY AkaAssumption DEF Core, AncOK
  <2> QED
    BY <1>1, <2>1 DEF ProtRec
<1>3. prot' = [prot EXCEPT ![t] = r]
  BY <1>1 DEF ProtectLookup
<1>4. /\ anchor.key # None
      /\ UNCHANGED <<usim, accepted, amf, calls, ausf, conf, anchor, udmRand,
                     udrSqn, overlap, degraded, air>>
  BY DEF ProtectLookup
<1> QED
  BY <1>2, <1>3, <1>4 DEF Core, AncOK

LEMMA ProtectCountMove ==
  ASSUME Core, NEW t \in Tasks, ProtectCount(t)
  PROVE  /\ prot[t].st = "looked" /\ AncOK' /\ anchor'.key = anchor.key
         /\ prot'[t].key = prot[t].key
         /\ \/ prot'[t].st = "refused"
            \/ prot'[t].st = "done" /\ prot'[t].ctr \in 1..(CounterMax - 1)
         /\ \A u \in Tasks \ {t} : prot'[u] = prot[u]
         /\ UNCHANGED <<usim, accepted, amf, calls, ausf, conf, udmRand, udrSqn,
                        overlap, degraded, air>>
<1>1. prot[t] \in ProtRec /\ prot[t].kind \in Kinds /\ prot[t].st = "looked"
  BY DEF Core, AncOK, ProtRec, ProtectCount
<1>2. PICK k \in Kinds : k = prot[t].kind
  BY <1>1
<1>3. PICK n \in 1..CounterMax : n = anchor.ctr[k]
  BY DEF Core, AncOK
<1>4. UNCHANGED <<usim, accepted, amf, calls, ausf, conf, udmRand, udrSqn, overlap, degraded, air>>
  BY DEF ProtectCount
<1>5. CASE n = CounterMax
  <2>1. prot' = [prot EXCEPT ![t].st = "refused"] /\ UNCHANGED anchor
    BY <1>2, <1>3, <1>5 DEF ProtectCount
  <2>2. PICK r : r = [prot[t] EXCEPT !.st = "refused"]
    OBVIOUS
  <2>3. r \in ProtRec /\ r.st = "refused" /\ r.key = prot[t].key
    BY <1>1, <2>2 DEF ProtRec
  <2>4. prot' = [prot EXCEPT ![t] = r]
    BY <2>1, <2>2
  <2> QED
    BY <1>1, <1>4, <2>1, <2>3, <2>4 DEF Core, AncOK
<1>6. CASE n # CounterMax
  <2>1. /\ prot' = [prot EXCEPT ![t].st = "done", ![t].ctr = n]
        /\ anchor' = [anchor EXCEPT !.ctr[k] = n + 1]
    BY <1>2, <1>3, <1>6 DEF ProtectCount
  <2>2. n \in 1..(CounterMax - 1) /\ n + 1 \in 1..CounterMax /\ n \in 0..CounterMax
    BY <1>3, <1>6, AkaAssumption
  <2>3. PICK r : r = [prot[t] EXCEPT !.st = "done", !.ctr = n]
    OBVIOUS
  <2>4. r \in ProtRec /\ r.st = "done" /\ r.key = prot[t].key /\ r.ctr = n
    BY <1>1, <2>2, <2>3 DEF ProtRec
  <2>5. prot' = [prot EXCEPT ![t] = r]
    BY <2>1, <2>3
  <2>6. PICK m \in 1..CounterMax : m = n + 1
    BY <2>2
  <2>7. PICK f : f = [anchor.ctr EXCEPT ![k] = m]
    OBVIOUS
  <2>8. f \in [Kinds -> 1..CounterMax]
    BY <2>7 DEF Core, AncOK
  <2>9. anchor' = [anchor EXCEPT !.ctr = f]
    BY <2>1, <2>6, <2>7
  <2>10. anchor' \in [key : Vecs, ctr : [Kinds -> 1..CounterMax]] /\ anchor'.key = anchor.key
    BY <2>8, <2>9 DEF Core, AncOK
  <2>11. /\ prot' \in [Tasks -> ProtRec] /\ prot'[t] = r
         /\ \A u \in Tasks \ {t} : prot'[u] = prot[u]
    BY <2>4, <2>5 DEF Core, AncOK
  <2> QED
    BY <1>1, <1>4, <2>2, <2>4, <2>10, <2>11 DEF AncOK
<1> QED
  BY <1>5, <1>6

LEMMA ProtectCore ==
  ASSUME Core, NEW t \in Tasks, NEW k \in Kinds, ProtectCount(t) \/ ProtectLookup(t, k)
  PROVE  Core'
<1>1. /\ AncOK'
      /\ UNCHANGED <<usim, accepted, amf, calls, ausf, conf, udmRand, udrSqn, overlap, degraded,
                     air>>
  BY ProtectLookupMove, ProtectCountMove
<1> QED
  BY <1>1 DEF Core, UeOK, AmfOK, CallsOK, AusfOK, UdmOK, Contexted, Called, Confirmed, Asking

LEMMA UeMove ==
  ASSUME Core, UeChallenge
  PROVE  /\ UNCHANGED <<amf, calls, ausf, conf, anchor, prot, udmRand, udrSqn, overlap, degraded>>
         /\ \E m \in air, n \in Msgs :
              /\ m.type = "req" /\ air' = (air \ {m}) \cup {n} /\ n.vec = m.vec /\ m.vec \in Calls
              /\ n.sqn \in {0, usim.sqn}
              /\ \/ /\ n.type = "res" /\ accepted' = accepted \cup {m.vec}
                    /\ usim' = [usim EXCEPT !.sqn = calls[m.vec].sqn, !.vec = m.vec]
                    /\ calls[m.vec].sqn > usim.sqn
                 \/ n.type = "res" /\ m.vec = usim.vec /\ UNCHANGED <<usim, accepted>>
                 \/ /\ n.type = "synch" /\ n.sqn = usim.sqn /\ calls[m.vec].sqn <= usim.sqn
                    /\ UNCHANGED <<usim, accepted>>
                 \/ n.type \in {"again", "other"} /\ UNCHANGED <<usim, accepted>>
<1>1. PICK m \in air :
         /\ m.type = "req" /\ m.ctx = usim.at
         /\ \/ /\ calls[m.vec].sqn > usim.sqn
               /\ usim' = [usim EXCEPT !.sqn = calls[m.vec].sqn, !.vec = m.vec]
               /\ accepted' = accepted \cup {m.vec}
               /\ air' = (air \ {m}) \cup {ResMsg(m.ctx, m.vec)}
            \/ /\ m.vec = usim.vec
               /\ air' = (air \ {m}) \cup {ResMsg(m.ctx, m.vec)}
               /\ UNCHANGED <<usim, accepted>>
            \/ /\ m.vec # usim.vec /\ calls[m.vec].sqn <= usim.sqn
               /\ air' = (air \ {m}) \cup {SynchMsg(m.ctx, m.vec, usim.sqn)}
               /\ UNCHANGED <<usim, accepted>>
            \/ /\ \E t \in FailCauses :
                    air' = (air \ {m}) \cup {FailMsg(m.ctx, m.vec, t)}
               /\ UNCHANGED <<usim, accepted>>
         /\ UNCHANGED <<amf, calls, ausf, conf, anchor, prot, udmRand, udrSqn, overlap, degraded>>
  BY DEF UeChallenge
<1>2. m.ctx \in Contexts /\ m.vec \in Calls /\ usim.sqn \in Sqns
  BY DEF Core, UeOK, Msgs
<1>3. PICK n1 : n1 = ResMsg(m.ctx, m.vec)
  OBVIOUS
<1>4. n1 \in Msgs /\ n1.type = "res" /\ n1.vec = m.vec /\ n1.sqn = 0
  BY <1>2, <1>3, Zero DEF ResMsg, Msgs
<1>5. PICK n2 : n2 = SynchMsg(m.ctx, m.vec, usim.sqn)
  OBVIOUS
<1>6. n2 \in Msgs /\ n2.type = "synch" /\ n2.vec = m.vec /\ n2.sqn = usim.sqn
  BY <1>2, <1>5 DEF SynchMsg, Msgs
<1>7. ASSUME NEW t \in FailCauses, air' = (air \ {m}) \cup {FailMsg(m.ctx, m.vec, t)}
      PROVE  \E n \in Msgs : /\ air' = (air \ {m}) \cup {n} /\ n.vec = m.vec /\ n.sqn = 0
                             /\ n.type \in {"again", "other"}
  <2>1. PICK n : n = FailMsg(m.ctx, m.vec, t)
    OBVIOUS
  <2>2. t \in {"again", "other"}
    BY <1>7, AkaAssumption
  <2>3. n \in Msgs /\ n.type = t /\ n.vec = m.vec /\ n.sqn = 0
    BY <1>2, <2>1, <2>2, Zero DEF FailMsg, Msgs
  <2> QED
    BY <1>7, <2>1, <2>2, <2>3
<1>8. CASE /\ calls[m.vec].sqn > usim.sqn
           /\ usim' = [usim EXCEPT !.sqn = calls[m.vec].sqn, !.vec = m.vec]
           /\ accepted' = accepted \cup {m.vec}
           /\ air' = (air \ {m}) \cup {n1}
  BY <1>1, <1>2, <1>4, <1>8
<1>9. CASE m.vec = usim.vec /\ air' = (air \ {m}) \cup {n1} /\ UNCHANGED <<usim, accepted>>
  BY <1>1, <1>2, <1>4, <1>9
<1>10. CASE /\ calls[m.vec].sqn <= usim.sqn
            /\ air' = (air \ {m}) \cup {n2} /\ UNCHANGED <<usim, accepted>>
  BY <1>1, <1>2, <1>6, <1>10
<1>11. CASE /\ \E t \in FailCauses : air' = (air \ {m}) \cup {FailMsg(m.ctx, m.vec, t)}
            /\ UNCHANGED <<usim, accepted>>
  BY <1>1, <1>2, <1>7, <1>11
<1> QED
  BY <1>1, <1>3, <1>5, <1>8, <1>9, <1>10, <1>11

LEMMA UeCore ==
  ASSUME Core, UeChallenge
  PROVE  Core'
<1>1. UNCHANGED <<amf, calls, ausf, conf, anchor, prot, udmRand, udrSqn, overlap, degraded>>
  BY UeMove
<1>2. UeOK'
  <2>1. PICK m \in air, n \in Msgs :
           /\ air' = (air \ {m}) \cup {n} /\ m.vec \in Calls
           /\ \/ /\ accepted' = accepted \cup {m.vec}
                 /\ usim' = [usim EXCEPT !.sqn = calls[m.vec].sqn, !.vec = m.vec]
              \/ UNCHANGED <<usim, accepted>>
    BY UeMove
  <2>2. calls[m.vec].sqn \in Sqns /\ m.vec \in Vecs
    BY <2>1 DEF Core, CallsOK, CallRec, Vecs
  <2>3. air' \subseteq Msgs
    BY <2>1 DEF Core, UeOK
  <2> QED
    BY <2>1, <2>2, <2>3 DEF Core, UeOK
<1> QED
  BY <1>1, <1>2
  DEF Core, AmfOK, CallsOK, AusfOK, AncOK, UdmOK, Contexted, Called, Confirmed, Asking

LEMMA InitCore == Init => Core /\ Requested
<1> SUFFICES ASSUME Init PROVE Core /\ Requested
  OBVIOUS
<1>1. 0 \in 0..MaxRetx /\ 0 \in 0..1 /\ None \in Vecs /\ 0 \in Sqns /\ 0 \in 0..CounterMax
  BY AkaAssumption DEF Vecs, Sqns
<1>2. UeOK
  <2>1. UsimSqns \subseteq Sqns
    BY AkaAssumption DEF Sqns
  <2> QED
    BY <1>1, <2>1 DEF Init, UeOK
<1>3. AmfOK /\ Contexted
  <2>1. PICK r : r = [st |-> "none", suci |-> NoSuci, call |-> None, vec |-> None, key |-> None,
                      fails |-> 0, retries |-> 0]
    OBVIOUS
  <2>2. r \in AmfRec /\ CtxOK(r)
    BY <1>1, <2>1 DEF AmfRec, CtxOK
  <2>3. amf = [a \in Contexts |-> r]
    BY <2>1 DEF Init
  <2> QED
    BY <2>2, <2>3 DEF AmfOK, Contexted
<1>4. CallsOK /\ Called /\ Requested
  <2>1. PICK r : r = [ausf |-> "free", udm |-> "idle", by |-> None, suci |-> NoSuci,
                      copy |-> None, resync |-> Fresh, sqn |-> 0]
    OBVIOUS
  <2>2. r \in CallRec /\ r.ausf = "free" /\ r.udm = "idle"
    BY <1>1, <2>1, FreshResync DEF CallRec
  <2>3. calls = [c \in Calls |-> r]
    BY <2>1 DEF Init
  <2> QED
    BY <2>2, <2>3 DEF CallsOK, Called, Requested
<1>5. AusfOK /\ Confirmed
  <2>1. PICK r : r = [st |-> "none", copy |-> None]
    OBVIOUS
  <2>2. r \in ConfRec /\ r.st = "none"
    BY <1>1, <2>1 DEF ConfRec
  <2>3. conf = [a \in Contexts |-> r] /\ ausf = [s \in Sucis |-> [known |-> FALSE, vec |-> None]]
    BY <2>1 DEF Init
  <2> QED
    BY <1>1, <2>2, <2>3 DEF AusfOK, Confirmed, Asking
<1>6. AncOK
  <2>1. 1 \in 1..CounterMax
    BY AkaAssumption
  <2>2. [k \in Kinds |-> 1] \in [Kinds -> 1..CounterMax]
    BY <2>1
  <2>3. anchor \in [key : Vecs, ctr : [Kinds -> 1..CounterMax]]
    BY <1>1, <2>2 DEF Init
  <2>4. PICK k \in Kinds : k = CHOOSE j \in Kinds : TRUE
    BY AkaAssumption
  <2>5. prot \in [Tasks -> [st : {"idle"}, kind : {k}, key : {None}, ctr : {0}]]
    BY <2>4 DEF Init
  <2>6. prot \in [Tasks -> ProtRec]
    BY <1>1, <2>5 DEF ProtRec
  <2> QED
    BY <2>3, <2>6 DEF AncOK
<1>7. UdmOK
  BY <1>1, Zero DEF Init, UdmOK
<1> QED
  BY <1>2, <1>3, <1>4, <1>5, <1>6, <1>7 DEF Core

LEMMA AmfStepCore ==
  ASSUME Core, NEW a \in Contexts, AmfStep(a)
  PROVE  Core'
BY RegistrationRequestCore, AnswerCore, TimeoutCore, ResponseCore, ConfAnswerCore, FailureCore,
   ExpiryCore
DEF AmfStep

\* What a step of an AMF does to the requests: at most one more of them.
LEMMA AmfStepCalls ==
  ASSUME Core, NEW a \in Contexts, AmfStep(a)
  PROVE  \/ UNCHANGED calls
         \/ \E c \in Calls :
              /\ calls[c].ausf = "free" /\ calls'[c].ausf = "sent" /\ calls'[c].by = a
              /\ amf'[a].st = "waitAv" /\ amf'[a].call = c /\ amf'[a].suci = calls'[c].suci
              /\ amf[a].st # "none" => amf'[a].suci = amf[a].suci
              /\ amf[a].st \in {"none", "challenged", "secured"}
              /\ calls'[c].udm = calls[c].udm /\ calls'[c].sqn = calls[c].sqn
              /\ \A d \in Calls \ {c} : calls'[d] = calls[d]
<1>1. ASSUME NEW s \in Sucis, RegistrationRequest(a, s)
      PROVE  \E c \in Calls :
              /\ calls[c].ausf = "free" /\ calls'[c].ausf = "sent" /\ calls'[c].by = a
              /\ amf'[a].st = "waitAv" /\ amf'[a].call = c /\ amf'[a].suci = calls'[c].suci
              /\ amf[a].st # "none" => amf'[a].suci = amf[a].suci
              /\ amf[a].st \in {"none", "challenged", "secured"}
              /\ calls'[c].udm = calls[c].udm /\ calls'[c].sqn = calls[c].sqn
              /\ \A d \in Calls \ {c} : calls'[d] = calls[d]
  BY <1>1, RegistrationRequestMove, PutAmfFacts DEF Core
<1>2. CASE AuthenticationFailure(a)
  BY <1>2, FailureMove, PutAmfFacts DEF Core
<1>3. CASE AuthenticationAnswer(a) \/ AuthenticationResponse(a) \/ ConfirmationAnswer(a)
  BY <1>3, AnswerMove, ResponseMove, ConfAnswerMove
<1>4. CASE CallTimeout(a) \/ T3560Expiry(a)
  BY <1>4 DEF CallTimeout, T3560Expiry
<1> QED
  BY <1>1, <1>2, <1>3, <1>4 DEF AmfStep

LEMMA NextCore ==
  ASSUME Core, Requested, [Next]_vars
  PROVE  Core' /\ Requested'
<1>1. ASSUME NEW a \in Contexts, AmfStep(a) PROVE Core' /\ Requested'
  <2>1. Core'
    BY <1>1, AmfStepCore
  <2>2. Requested'
    BY <1>1, AmfStepCalls DEF Requested
  <2> QED
    BY <2>1, <2>2
<1>2. CASE CoreStep
  <2>1. ASSUME NEW a \in Contexts, ConfirmRead(a) \/ ConfirmWrite(a) PROVE Core' /\ Requested'
    <3>1. UNCHANGED calls
      BY <2>1 DEF ConfirmRead, ConfirmWrite
    <3> QED
      BY <2>1, <3>1, ConfirmCore DEF Requested
  <2>2. ASSUME NEW t \in Tasks, ProtectCount(t) \/ \E k \in Kinds : ProtectLookup(t, k)
        PROVE  Core' /\ Requested'
    <3>1. UNCHANGED calls
      BY <2>2 DEF ProtectCount, ProtectLookup
    <3>2. Core'
      BY <2>2, ProtectCore, AkaAssumption
    <3> QED
      BY <3>1, <3>2 DEF Requested
  <2> QED
    BY <1>2, <2>1, <2>2, CallCore DEF CoreStep
<1>3. CASE UeChallenge
  <2>1. UNCHANGED calls
    BY <1>3 DEF UeChallenge
  <2> QED
    BY <1>3, <2>1, UeCore DEF Requested
<1>4. CASE UNCHANGED vars
  BY <1>4
  DEF vars, Core, UeOK, AmfOK, CallsOK, AusfOK, AncOK, UdmOK, Contexted, Called, Confirmed,
      Asking, Requested
<1> QED
  BY <1>1, <1>2, <1>3, <1>4 DEF Next

(***************************************************************************)
(* Types, and what every state of a handler refers to, for every value of  *)
(* the constants.                                                          *)
(***************************************************************************)
THEOREM CoreInvariance == Spec => [](Core /\ Requested)
<1>1. Core /\ Requested /\ [Next]_vars => (Core /\ Requested)'
  BY NextCore
<1> QED
  BY <1>1, InitCore, PTL DEF Spec

(***************************************************************************)
(* TypeOK: a challenge is repeated at most MaxRetx times, the counters of  *)
(* the anchor stay below the value at which they suspend (T3560 of the     *)
(* AMF, next_counter of the AUSF).                                         *)
(***************************************************************************)
THEOREM TypeCorrect == Spec => []TypeOK
<1>1. Core => TypeOK
  BY DEF Core, UeOK, AmfOK, CallsOK, AusfOK, AncOK, UdmOK, TypeOK, AmfRec, CallRec, ConfRec,
         ProtRec, Msgs
<1> QED
  BY <1>1, CoreInvariance, PTL

-----------------------------------------------------------------------------
(* Keys.                                                                   *)

\* The UE has derived the keys of every vector that it answered.
UeKnows == /\ usim.vec # None => usim.vec \in accepted
           /\ \A m \in air : m.type = "res" => m.vec \in accepted

\* A confirmation is about a vector that the UE answered, and one that went
\* well, for a context that still waits, about the vector of that context.
ConfKnows(a) == /\ Asking(a) => amf[a].vec \in accepted
                /\ conf[a].st = "ok" /\ amf[a].st = "waitConf" =>
                     conf[a].copy = amf[a].vec /\ conf[a].copy \in accepted

AmfKnows(x) == /\ x.key # None => x.key \in accepted
               /\ x.st = "secured" => x.key = x.vec

Keys == /\ UeKnows
        /\ \A a \in Contexts : ConfKnows(a) /\ AmfKnows(amf[a])
        /\ anchor.key # None => anchor.key \in accepted
        /\ \A t \in Tasks :
             /\ prot[t].st \in {"looked", "done"} => prot[t].key \in accepted
             /\ prot[t].st = "done" => prot[t].ctr \in 1..(CounterMax - 1)

\* A step of the AMF, for the keys.
LEMMA AmfKeys ==
  ASSUME Core, Keys, NEW a \in Contexts, NEW r \in AmfRec, PutAmf(a, r),
         UNCHANGED <<usim, accepted, anchor, prot>>, \A b \in Contexts \ {a} : conf'[b] = conf[b],
         \A m \in air' : m \in air \/ m.type = "req",
         r.key # None => r.key \in accepted, r.st = "secured" => r.key = r.vec,
         conf'[a].st \in {"asked", "read"} => r.vec \in accepted,
         ~(conf'[a].st = "ok" /\ r.st = "waitConf")
  PROVE  Keys'
<1>1. amf'[a] = r /\ \A b \in Contexts \ {a} : amf'[b] = amf[b]
  BY PutAmfFacts DEF Core
<1>2. UeKnows'
  BY DEF Keys, UeKnows
<1>3. \A b \in Contexts : ConfKnows(b)' /\ AmfKnows(amf[b])'
  BY <1>1 DEF Keys, ConfKnows, AmfKnows, Asking
<1> QED
  BY <1>2, <1>3 DEF Keys

LEMMA ReleaseKeys ==
  ASSUME Core, Keys, NEW a \in Contexts, amf' = [amf EXCEPT ![a] = Released(@)],
         air' = Without(a), UNCHANGED <<usim, accepted, anchor, prot, conf>>
  PROVE  Keys'
<1>1. PICK r \in AmfRec : /\ PutAmf(a, r) /\ r.st = "gone" /\ r.suci = amf[a].suci
                          /\ r.vec = amf[a].vec /\ r.key = None
  BY ReleaseMove
<1>2. \A m \in air' : m \in air
  BY DEF Without
<1> QED
  BY <1>1, <1>2, AmfKeys DEF Keys, ConfKnows, Asking

LEMMA AmfStepKeys ==
  ASSUME Core, Keys, NEW a \in Contexts, AmfStep(a)
  PROVE  Keys'
<1>1. ASSUME NEW s \in Sucis, RegistrationRequest(a, s) PROVE Keys'
  <2>1. PICK r \in AmfRec : PutAmf(a, r) /\ r.st = "waitAv" /\ r.key = amf[a].key
    BY <1>1, RegistrationRequestMove
  <2>2. /\ UNCHANGED <<accepted, anchor, prot, conf>> /\ amf[a].st = "none" /\ air' \subseteq air
        /\ usim' = [usim EXCEPT !.at = a]
    BY <1>1 DEF RegistrationRequest
  <2>3. usim'.vec = usim.vec /\ ~Asking(a)
    BY <2>2 DEF Core, UeOK, Confirmed
  <2>4. amf'[a] = r /\ \A b \in Contexts \ {a} : amf'[b] = amf[b]
    BY <2>1, PutAmfFacts DEF Core
  <2>5. UeKnows'
    BY <2>2, <2>3 DEF Keys, UeKnows
  <2>6. \A b \in Contexts : ConfKnows(b)' /\ AmfKnows(amf[b])'
    BY <2>1, <2>2, <2>3, <2>4 DEF Keys, ConfKnows, AmfKnows, Asking
  <2> QED
    BY <2>2, <2>5, <2>6 DEF Keys
<1>2. CASE AuthenticationAnswer(a)
  <2>1. /\ amf[a].st = "waitAv" /\ amf[a].call \in Calls
        /\ UNCHANGED <<usim, accepted, anchor, prot, conf>>
    BY <1>2, AnswerMove
  <2>2. CASE amf' = [amf EXCEPT ![a] = Released(@)] /\ air' = Without(a)
    BY <2>1, <2>2, ReleaseKeys
  <2>3. ASSUME NEW r \in AmfRec, PutAmf(a, r), r.st = "challenged", r.key = amf[a].key,
               air' = Challenge(a, amf[a].call)
        PROVE  Keys'
    <3>1. ~Asking(a) /\ \A m \in air' : m \in air \/ m.type = "req"
      BY <2>1, <2>3, ChallengeFacts DEF Core, Confirmed
    <3> QED
      BY <2>1, <2>3, <3>1, AmfKeys DEF Keys, AmfKnows, Asking
  <2> QED
    BY <1>2, <2>2, <2>3, AnswerMove
<1>3. CASE CallTimeout(a)
  BY <1>3, ReleaseKeys DEF CallTimeout
<1>4. CASE AuthenticationResponse(a)
  <2>1. air' \subseteq air /\ UNCHANGED <<usim, accepted, anchor, prot>>
    BY <1>4, ResponseMove
  <2>2. CASE /\ amf' = [amf EXCEPT ![a] = Released(@)] /\ air' = Without(a)
             /\ UNCHANGED conf
    BY <2>1, <2>2, ReleaseKeys
  <2>3. ASSUME NEW r \in AmfRec, PutAmf(a, r), r.st = "waitConf", r.vec = amf[a].vec,
               r.key = amf[a].key, \E m \in air : m.type = "res" /\ m.vec = amf[a].vec,
               conf' = [conf EXCEPT ![a] = [st |-> "asked", copy |-> None]]
        PROVE  Keys'
    <3>1. conf'[a].st = "asked" /\ \A b \in Contexts \ {a} : conf'[b] = conf[b]
      BY <2>3 DEF Core, AusfOK
    <3>2. r.vec \in accepted
      BY <2>3 DEF Keys, UeKnows
    <3> QED
      BY <2>1, <2>3, <3>1, <3>2, AmfKeys DEF Keys, AmfKnows
  <2> QED
    BY <1>4, <2>2, <2>3, ResponseMove
<1>5. CASE ConfirmationAnswer(a)
  <2>1. amf[a].st = "waitConf" /\ UNCHANGED <<usim, accepted, anchor, prot, conf>>
    BY <1>5, ConfAnswerMove
  <2>2. CASE amf' = [amf EXCEPT ![a] = Released(@)] /\ air' = Without(a)
    BY <2>1, <2>2, ReleaseKeys
  <2>3. ASSUME NEW r \in AmfRec, PutAmf(a, r), r.st = "secured", r.vec = amf[a].vec,
               r.key = conf[a].copy, conf[a].st = "ok", UNCHANGED air
        PROVE  Keys'
    <3>1. r.key = r.vec /\ r.key \in accepted
      BY <2>1, <2>3 DEF Keys, ConfKnows
    <3> QED
      BY <2>1, <2>3, <3>1, AmfKeys
  <2> QED
    BY <1>5, <2>2, <2>3, ConfAnswerMove
<1>6. CASE AuthenticationFailure(a)
  <2>1. /\ amf[a].st \in {"challenged", "secured"} /\ air' \subseteq air
        /\ UNCHANGED <<usim, accepted, anchor, prot, conf>>
    BY <1>6, FailureMove
  <2>2. CASE amf' = [amf EXCEPT ![a] = Released(@)] /\ air' = Without(a)
    BY <2>1, <2>2, ReleaseKeys
  <2>3. ASSUME NEW r \in AmfRec, PutAmf(a, r), r.st = "waitAv", r.key = amf[a].key
        PROVE  Keys'
    <3>1. ~Asking(a)
      BY <2>1 DEF Core, Confirmed
    <3> QED
      BY <2>1, <2>3, <3>1, AmfKeys DEF Keys, AmfKnows, Asking
  <2> QED
    BY <1>6, <2>2, <2>3, FailureMove
<1>7. CASE T3560Expiry(a)
  <2>1. /\ amf[a].st = "challenged" /\ amf[a].vec \in Calls
        /\ UNCHANGED <<usim, accepted, anchor, prot, conf>>
    BY <1>7, ExpiryMove
  <2>2. CASE amf' = [amf EXCEPT ![a] = Released(@)] /\ air' = Without(a)
    BY <2>1, <2>2, ReleaseKeys
  <2>3. ASSUME NEW r \in AmfRec, PutAmf(a, r), r.st = "challenged", r.key = amf[a].key,
               air' = Challenge(a, amf[a].vec)
        PROVE  Keys'
    <3>1. ~Asking(a) /\ \A m \in air' : m \in air \/ m.type = "req"
      BY <2>1, <2>3, ChallengeFacts DEF Core, Confirmed
    <3> QED
      BY <2>1, <2>3, <3>1, AmfKeys DEF Keys, AmfKnows, Asking
  <2> QED
    BY <1>7, <2>2, <2>3, ExpiryMove
<1> QED
  BY <1>1, <1>2, <1>3, <1>4, <1>5, <1>6, <1>7 DEF AmfStep

\* A step of AUSF or UDM for a vector touches no key.
LEMMA CallKeys ==
  ASSUME Core, Keys, NEW c \in Calls,
         AusfRequest(c) \/ AusfAnswer(c) \/ UdrGet(c) \/ UdmGenerate(c) \/ UdrPatch(c)
  PROVE  Keys'
<1>1. UNCHANGED <<usim, accepted, amf, conf, anchor, prot, air>>
  BY DEF AusfRequest, AusfAnswer, UdrGet, UdmGenerate, UdrPatch
<1> QED
  BY <1>1 DEF Keys, UeKnows, ConfKnows, AmfKnows, Asking

LEMMA ConfirmKeys ==
  ASSUME Core, Keys, NEW a \in Contexts, ConfirmRead(a) \/ ConfirmWrite(a)
  PROVE  Keys'
<1>1. CASE ConfirmRead(a)
  <2>1. /\ conf[a].st = "asked" /\ conf'[a].st = "read"
        /\ \A b \in Contexts \ {a} : conf'[b] = conf[b]
        /\ UNCHANGED <<usim, accepted, amf, anchor, prot, air>>
    BY <1>1, ConfirmReadMove
  <2> QED
    BY <2>1 DEF Keys, UeKnows, ConfKnows, AmfKnows, Asking
<1>2. CASE ConfirmWrite(a)
  <2>1. /\ conf[a].st = "read" /\ conf'[a].copy = conf[a].copy /\ conf[a].copy \in Vecs
        /\ \A b \in Contexts \ {a} : conf'[b] = conf[b]
        /\ UNCHANGED <<usim, accepted, amf, prot, air>>
        /\ \/ /\ conf[a].copy = amf[a].vec /\ conf'[a].st = "ok"
              /\ anchor' = Refresh(conf[a].copy)
           \/ conf'[a].st = "fail" /\ UNCHANGED anchor
    BY <1>2, ConfirmWriteMove
  <2>2. amf[a].vec \in accepted
    BY <2>1 DEF Keys, ConfKnows, Asking
  <2>3. anchor'.key # None => anchor'.key \in accepted'
    <3>1. AncOK
      BY DEF Core
    <3> QED
      BY <2>1, <2>2, <3>1, RefreshFacts DEF Keys
  <2>4. \A b \in Contexts : ConfKnows(b)' /\ AmfKnows(amf[b])'
    BY <2>1, <2>2 DEF Keys, ConfKnows, AmfKnows, Asking
  <2> QED
    BY <2>1, <2>3, <2>4 DEF Keys, UeKnows
<1> QED
  BY <1>1, <1>2

LEMMA ProtectKeys ==
  ASSUME Core, Keys, NEW t \in Tasks, NEW k \in Kinds, ProtectCount(t) \/ ProtectLookup(t, k)
  PROVE  Keys'
<1>1. UNCHANGED <<usim, accepted, amf, conf, air>>
  BY ProtectLookupMove, ProtectCountMove
<1>2. anchor'.key = anchor.key
  BY ProtectLookupMove, ProtectCountMove
<1>3. \A u \in Tasks :
        /\ prot'[u].st \in {"looked", "done"} => prot'[u].key \in accepted
        /\ prot'[u].st = "done" => prot'[u].ctr \in 1..(CounterMax - 1)
  <2>1. CASE ProtectLookup(t, k)
    BY <2>1, ProtectLookupMove DEF Keys
  <2>2. CASE ProtectCount(t)
    BY <2>2, ProtectCountMove DEF Keys
  <2> QED
    BY <2>1, <2>2
<1> QED
  BY <1>1, <1>2, <1>3 DEF Keys, UeKnows, ConfKnows, AmfKnows, Asking

LEMMA UeKeys ==
  ASSUME Core, Keys, UeChallenge
  PROVE  Keys'
<1>1. PICK m \in air, n \in Msgs :
         /\ air' = (air \ {m}) \cup {n} /\ m.vec \in Calls /\ n.vec = m.vec
         /\ \/ /\ n.type = "res" /\ accepted' = accepted \cup {m.vec}
               /\ usim' = [usim EXCEPT !.sqn = calls[m.vec].sqn, !.vec = m.vec]
            \/ n.type = "res" /\ m.vec = usim.vec /\ UNCHANGED <<usim, accepted>>
            \/ n.type # "res" /\ UNCHANGED <<usim, accepted>>
  BY UeMove
<1>2. UNCHANGED <<amf, conf, anchor, prot>>
  BY UeMove
<1>3. accepted \subseteq accepted'
  BY <1>1
<1>4. UeKnows'
  <2>1. m.vec # None
    BY <1>1 DEF Calls, None
  <2>2. usim'.vec # None => usim'.vec \in accepted'
    BY <1>1 DEF Keys, UeKnows, Core, UeOK
  <2>3. n.type = "res" => n.vec \in accepted'
    BY <1>1, <2>1 DEF Keys, UeKnows
  <2> QED
    BY <1>1, <1>3, <2>2, <2>3 DEF Keys, UeKnows
<1> QED
  BY <1>2, <1>3, <1>4 DEF Keys, ConfKnows, AmfKnows, Asking

LEMMA InitKeys == Init => Keys
<1> SUFFICES ASSUME Init PROVE Keys
  OBVIOUS
<1>1. usim.vec = None /\ air = {} /\ anchor.key = None
  BY DEF Init
<1>2. \A a \in Contexts : conf[a].st = "none" /\ amf[a].st = "none" /\ amf[a].key = None
  BY DEF Init
<1>3. \A t \in Tasks : prot[t].st = "idle"
  BY DEF Init
<1> QED
  BY <1>1, <1>2, <1>3 DEF Keys, UeKnows, ConfKnows, AmfKnows, Asking

LEMMA NextKeys ==
  ASSUME Core, Keys, [Next]_vars
  PROVE  Keys'
<1>1. CASE CoreStep
  BY <1>1, CallKeys, ConfirmKeys, ProtectKeys, AkaAssumption DEF CoreStep
<1>2. CASE UNCHANGED vars
  BY <1>2 DEF vars, Keys, UeKnows, ConfKnows, AmfKnows, Asking
<1> QED
  BY <1>1, <1>2, AmfStepKeys, UeKeys DEF Next

(***************************************************************************)
(* The inductive invariant about keys holds in every reachable state.      *)
(***************************************************************************)
THEOREM KeysInvariance == Spec => []Keys
<1>1. Core /\ Keys /\ [Next]_vars => Keys'
  BY NextKeys
<1> QED
  BY <1>1, InitKeys, CoreInvariance, PTL DEF Spec

(***************************************************************************)
(* An AMF holds a KSEAF only of a vector whose keys the UE has derived,    *)
(* and a secured context the one of its own challenge, whatever other      *)
(* contexts did to the AusfUe meanwhile.                                   *)
(***************************************************************************)
THEOREM KeysAgree == Spec => []KeyAgreement
<1>1. Keys => KeyAgreement
  BY DEF Keys, AmfKnows, KeyAgreement
<1> QED
  BY <1>1, KeysInvariance, PTL

(***************************************************************************)
(* Every SoR or UPU MAC is made with a KAUSF that the UE derived, and with *)
(* a counter that has not reached the value at which the service suspends. *)
(***************************************************************************)
THEOREM MacKeysKnown == Spec => []MacKeyKnown
<1>1. Keys => MacKeyKnown
  BY DEF Keys, MacKeyKnown
<1> QED
  BY <1>1, KeysInvariance, PTL

-----------------------------------------------------------------------------
(* Rivals.                                                                 *)

\* Nobody but context a asked for a vector for its SUCI.
Sole(a) == \A c \in Calls :
             calls[c].ausf # "free" /\ calls[c].suci = amf[a].suci => calls[c].by = a

Active(c) == calls[c].ausf \in {"sent", "wait"}

\* A request is of a context that waits for it, or that gave up on it.
Asked == \A c \in Calls : calls[c].ausf # "free" =>
           /\ calls[c].by \in Contexts /\ amf[calls[c].by].st # "none"
           /\ Active(c) => \/ amf[calls[c].by].st = "waitAv" /\ amf[calls[c].by].call = c
                           \/ amf[calls[c].by].st = "gone" /\ ~Asking(calls[c].by)

\* Without a rival the AusfUe holds the vector of the context's challenge.
Kept(a) ==
  /\ amf[a].st # "none" => \E c \in Calls : /\ calls[c].ausf # "free" /\ calls[c].by = a
                                            /\ calls[c].suci = amf[a].suci
  /\ amf[a].st = "none" => conf[a].st = "none"
  /\ amf[a].st = "waitAv" => /\ calls[amf[a].call].ausf # "free" /\ calls[amf[a].call].by = a
                             /\ calls[amf[a].call].suci = amf[a].suci
  /\ conf[a].st = "fail" => ~Sole(a)
  /\ Sole(a) =>
       /\ amf[a].st \in {"challenged", "waitConf", "secured"} \/ Asking(a)
            => ausf[amf[a].suci].vec = amf[a].vec
       /\ conf[a].st = "read" => conf[a].copy = amf[a].vec
       /\ amf[a].st = "waitAv" /\ calls[amf[a].call].ausf = "ok"
            => ausf[amf[a].suci].vec = amf[a].call

Rivals == Asked /\ \A a \in Contexts : Kept(a)

\* No request is forgotten, nor who made it.
Remembered == \A c \in Calls : calls[c].ausf # "free" =>
                /\ calls'[c].ausf # "free" /\ calls'[c].by = calls[c].by
                /\ calls'[c].suci = calls[c].suci

LEMMA SoleStays ==
  ASSUME NEW a \in Contexts, Remembered, amf'[a].suci = amf[a].suci, Sole(a)'
  PROVE  Sole(a)
BY DEF Sole, Remembered

\* What a context keeps while others step.
LEMMA KeptStays ==
  ASSUME Core, NEW a \in Contexts, Kept(a), Remembered, amf'[a] = amf[a], conf'[a] = conf[a],
         Sole(a) /\ amf[a].st # "none" => ausf'[amf[a].suci].vec = ausf[amf[a].suci].vec,
         amf[a].st = "waitAv" => calls'[amf[a].call].ausf = calls[amf[a].call].ausf
  PROVE  Kept(a)'
<1>1. Sole(a)' => Sole(a)
  BY SoleStays
<1>2. amf'[a].st # "none" => \E c \in Calls : /\ calls'[c].ausf # "free" /\ calls'[c].by = a
                                              /\ calls'[c].suci = amf'[a].suci
  BY DEF Kept, Remembered
<1>3. Asking(a)' = Asking(a) /\ (Asking(a) => amf[a].st # "none")
  BY DEF Asking, Core, Confirmed
<1>4. amf'[a].st = "waitAv" =>
        /\ calls'[amf'[a].call].ausf # "free" /\ calls'[amf'[a].call].by = a
        /\ calls'[amf'[a].call].suci = amf'[a].suci
  BY DEF Kept, Remembered, Core, Contexted, CtxOK
<1> QED
  BY <1>1, <1>2, <1>3, <1>4 DEF Kept

LEMMA RememberedSame ==
  ASSUME UNCHANGED calls
  PROVE  Remembered
BY DEF Remembered

LEMMA RememberedPut ==
  ASSUME Core, NEW c \in Calls, NEW r \in CallRec, PutCall(c, r), r.ausf # "free",
         r.suci = calls[c].suci, r.by = calls[c].by
  PROVE  Remembered
BY PutCallFacts DEF Core, Remembered

\* A step of an AMF that asks for no vector.
LEMMA AmfRivals ==
  ASSUME Core, Rivals, NEW a \in Contexts, NEW r \in AmfRec, PutAmf(a, r), UNCHANGED <<calls, ausf>>,
         \A b \in Contexts \ {a} : conf'[b] = conf[b],
         amf[a].st # "none", r.st # "none", r.st # "waitAv", r.suci = amf[a].suci,
         \A c \in Calls : Active(c) /\ calls[c].by = a
           => r.st = "gone" /\ conf'[a].st \notin {"asked", "read"},
         conf'[a].st = "fail" => ~Sole(a),
         Sole(a) =>
           /\ r.st \in {"challenged", "waitConf", "secured"} \/ conf'[a].st \in {"asked", "read"}
                => ausf[r.suci].vec = r.vec
           /\ conf'[a].st = "read" => conf'[a].copy = r.vec
  PROVE  Rivals'
<1>1. amf'[a] = r /\ \A b \in Contexts \ {a} : amf'[b] = amf[b]
  BY PutAmfFacts DEF Core
<1>2. Remembered
  BY RememberedSame
<1>3. Sole(a)' => Sole(a)
  BY <1>1, <1>2, SoleStays
<1>4. Sole(a) => Sole(a)'
  BY <1>1 DEF Sole
<1>5. ASSUME NEW b \in Contexts, b # a PROVE Kept(b)'
  BY <1>1, <1>2, <1>5, KeptStays DEF Rivals
<1>6. Kept(a)'
  <2>1. \E c \in Calls : /\ calls'[c].ausf # "free" /\ calls'[c].by = a
                         /\ calls'[c].suci = amf'[a].suci
    BY <1>1 DEF Rivals, Kept
  <2> QED
    BY <1>1, <1>3, <1>4, <2>1 DEF Kept, Asking
<1>7. Asked'
  <2> SUFFICES ASSUME NEW c \in Calls, calls'[c].ausf # "free"
               PROVE  /\ calls'[c].by \in Contexts /\ amf'[calls'[c].by].st # "none"
                      /\ Active(c)' => \/ amf'[calls'[c].by].st = "waitAv" /\ amf'[calls'[c].by].call = c
                                       \/ amf'[calls'[c].by].st = "gone" /\ ~Asking(calls[c].by)'
    BY DEF Asked
  <2>1. PICK b \in Contexts : b = calls[c].by /\ calls'[c].by = b
    BY DEF Rivals, Asked
  <2>2. /\ amf[b].st # "none"
        /\ Active(c) => \/ amf[b].st = "waitAv" /\ amf[b].call = c
                        \/ amf[b].st = "gone" /\ ~Asking(b)
    BY <2>1 DEF Rivals, Asked
  <2>3. Active(c)' = Active(c)
    BY DEF Active
  <2>4. CASE b = a
    BY <1>1, <2>1, <2>2, <2>3, <2>4 DEF Asking
  <2>5. CASE b # a
    BY <1>1, <2>1, <2>2, <2>3, <2>5 DEF Asking
  <2> QED
    BY <2>4, <2>5
<1> QED
  BY <1>5, <1>6, <1>7 DEF Rivals

LEMMA NoneActive ==
  ASSUME Core, Rivals, NEW a \in Contexts, amf[a].st \notin {"waitAv", "gone"}, NEW c \in Calls,
         Active(c)
  PROVE  calls[c].by # a
BY DEF Rivals, Asked, Active

LEMMA ReleaseRivals ==
  ASSUME Core, Rivals, NEW a \in Contexts, amf[a].st \notin {"none", "gone"},
         amf' = [amf EXCEPT ![a] = Released(@)], UNCHANGED <<calls, ausf, conf>>
  PROVE  Rivals'
<1>1. PICK r \in AmfRec : /\ PutAmf(a, r) /\ r.st = "gone" /\ r.suci = amf[a].suci
                          /\ r.vec = amf[a].vec
  BY ReleaseMove
<1>2. \A c \in Calls : Active(c) /\ calls[c].by = a => ~Asking(a)
  BY NoneActive DEF Core, Confirmed
<1>3. Kept(a)
  BY DEF Rivals
<1> QED
  BY <1>1, <1>2, <1>3, AmfRivals DEF Kept, Asking

\* A context that asks for a vector.
LEMMA RequestRivals ==
  ASSUME Core, Rivals, NEW a \in Contexts, NEW r \in AmfRec, PutAmf(a, r), NEW c \in Calls,
         amf[a].st \in {"none", "challenged", "secured"},
         r.st = "waitAv", r.call = c, amf[a].st # "none" => r.suci = amf[a].suci,
         calls[c].ausf = "free", calls'[c].ausf = "sent", calls'[c].by = a,
         calls'[c].suci = r.suci, \A d \in Calls \ {c} : calls'[d] = calls[d],
         UNCHANGED <<ausf, conf>>
  PROVE  Rivals'
<1>1. amf'[a] = r /\ \A b \in Contexts \ {a} : amf'[b] = amf[b]
  BY PutAmfFacts DEF Core
<1>2. Remembered
  BY DEF Remembered
<1>3. ~Asking(a) /\ \A d \in Calls : Active(d) => calls[d].by # a
  BY NoneActive DEF Core, Confirmed
<1>4. ASSUME NEW b \in Contexts, b # a PROVE Kept(b)'
  <2>1. amf[b].st = "waitAv" => amf[b].call \in Calls /\ amf[b].call # c
    BY DEF Core, Contexted, CtxOK, Rivals, Kept
  <2> QED
    BY <1>1, <1>2, <1>4, <2>1, KeptStays DEF Rivals
<1>5. Kept(a)'
  <2>1. conf[a].st = "fail" => ~Sole(a)'
    <3>1. CASE amf[a].st = "none"
      BY <3>1 DEF Rivals, Kept
    <3>2. CASE amf[a].st # "none"
      BY <1>1, <1>2, <3>2, SoleStays DEF Rivals, Kept
    <3> QED
      BY <3>1, <3>2
  <2> QED
    BY <1>1, <1>3, <2>1 DEF Kept, Asking
<1>6. Asked'
  <2> SUFFICES ASSUME NEW d \in Calls, calls'[d].ausf # "free"
               PROVE  /\ calls'[d].by \in Contexts /\ amf'[calls'[d].by].st # "none"
                      /\ Active(d)' => \/ amf'[calls'[d].by].st = "waitAv" /\ amf'[calls'[d].by].call = d
                                       \/ amf'[calls'[d].by].st = "gone" /\ ~Asking(calls[d].by)'
    BY DEF Asked
  <2>1. CASE d = c
    BY <1>1, <2>1
  <2>2. CASE d # c
    <3>1. PICK b \in Contexts : b = calls[d].by /\ calls'[d].by = b
      BY <2>2 DEF Rivals, Asked
    <3>2. /\ amf[b].st # "none"
          /\ Active(d) => \/ amf[b].st = "waitAv" /\ amf[b].call = d
                          \/ amf[b].st = "gone" /\ ~Asking(b)
      BY <2>2, <3>1 DEF Rivals, Asked
    <3>3. Active(d)' = Active(d)
      BY <2>2 DEF Active
    <3>4. CASE b = a
      BY <1>1, <1>3, <3>1, <3>3, <3>4
    <3>5. CASE b # a
      BY <1>1, <3>1, <3>2, <3>3, <3>5 DEF Asking
    <3> QED
      BY <3>4, <3>5
  <2> QED
    BY <2>1, <2>2
<1> QED
  BY <1>4, <1>5, <1>6 DEF Rivals

LEMMA AmfStepRivals ==
  ASSUME Core, Rivals, NEW a \in Contexts, AmfStep(a)
  PROVE  Rivals'
<1>0. Kept(a)
  BY DEF Rivals
<1>1. ASSUME NEW s \in Sucis, RegistrationRequest(a, s) PROVE Rivals'
  <2>1. UNCHANGED <<ausf, conf>>
    BY <1>1 DEF RegistrationRequest
  <2>2. PICK r \in AmfRec, c \in Calls :
           /\ PutAmf(a, r) /\ r.st = "waitAv" /\ r.suci = s /\ r.call = c /\ amf[a].st = "none"
           /\ calls[c].ausf = "free" /\ calls'[c].ausf = "sent" /\ calls'[c].by = a
           /\ calls'[c].suci = s /\ \A d \in Calls \ {c} : calls'[d] = calls[d]
    BY <1>1, RegistrationRequestMove
  <2> QED
    BY <2>1, <2>2, RequestRivals
<1>2. CASE AuthenticationAnswer(a)
  <2>1. amf[a].st = "waitAv" /\ amf[a].call \in Calls /\ UNCHANGED <<calls, ausf, conf>>
    BY <1>2, AnswerMove
  <2>2. CASE amf' = [amf EXCEPT ![a] = Released(@)]
    BY <2>1, <2>2, ReleaseRivals
  <2>3. ASSUME NEW r \in AmfRec, PutAmf(a, r), r.st = "challenged", r.suci = amf[a].suci,
               r.vec = amf[a].call, calls[amf[a].call].ausf = "ok"
        PROVE  Rivals'
    <3>1. \A c \in Calls : ~(Active(c) /\ calls[c].by = a)
      BY <2>1, <2>3 DEF Rivals, Asked, Active
    <3>2. ~Asking(a)
      BY <2>1 DEF Core, Confirmed
    <3> QED
      BY <1>0, <2>1, <2>3, <3>1, <3>2, AmfRivals DEF Kept, Asking
  <2> QED
    BY <1>2, <2>2, <2>3, AnswerMove
<1>3. CASE CallTimeout(a)
  BY <1>3, ReleaseRivals DEF CallTimeout
<1>4. CASE AuthenticationResponse(a)
  <2>1. amf[a].st \in {"challenged", "secured"} /\ UNCHANGED <<calls, ausf>>
    BY <1>4, ResponseMove
  <2>2. CASE amf' = [amf EXCEPT ![a] = Released(@)] /\ UNCHANGED conf
    BY <2>1, <2>2, ReleaseRivals
  <2>3. ASSUME NEW r \in AmfRec, PutAmf(a, r), r.st = "waitConf", r.suci = amf[a].suci,
               r.vec = amf[a].vec, conf' = [conf EXCEPT ![a] = [st |-> "asked", copy |-> None]]
        PROVE  Rivals'
    <3>1. conf'[a].st = "asked" /\ \A b \in Contexts \ {a} : conf'[b] = conf[b]
      BY <2>3 DEF Core, AusfOK
    <3>2. \A c \in Calls : ~(Active(c) /\ calls[c].by = a)
      BY <2>1, NoneActive
    <3> QED
      BY <1>0, <2>1, <2>3, <3>1, <3>2, AmfRivals DEF Kept
  <2> QED
    BY <1>4, <2>2, <2>3, ResponseMove
<1>5. CASE ConfirmationAnswer(a)
  <2>1. amf[a].st = "waitConf" /\ UNCHANGED <<calls, ausf, conf>>
    BY <1>5, ConfAnswerMove
  <2>2. CASE amf' = [amf EXCEPT ![a] = Released(@)]
    BY <2>1, <2>2, ReleaseRivals
  <2>3. ASSUME NEW r \in AmfRec, PutAmf(a, r), r.st = "secured", r.suci = amf[a].suci,
               r.vec = amf[a].vec, conf[a].st = "ok"
        PROVE  Rivals'
    <3>1. \A c \in Calls : ~(Active(c) /\ calls[c].by = a)
      BY <2>1, NoneActive
    <3> QED
      BY <1>0, <2>1, <2>3, <3>1, AmfRivals DEF Kept
  <2> QED
    BY <1>5, <2>2, <2>3, ConfAnswerMove
<1>6. CASE AuthenticationFailure(a)
  <2>1. amf[a].st \in {"challenged", "secured"} /\ UNCHANGED <<ausf, conf>>
    BY <1>6, FailureMove
  <2>2. CASE amf' = [amf EXCEPT ![a] = Released(@)] /\ UNCHANGED calls
    BY <2>1, <2>2, ReleaseRivals
  <2>3. ASSUME NEW r \in AmfRec, NEW c \in Calls, PutAmf(a, r), r.st = "waitAv",
               r.suci = amf[a].suci, r.call = c,
               calls[c].ausf = "free", calls'[c].ausf = "sent", calls'[c].by = a,
               calls'[c].suci = amf[a].suci, \A d \in Calls \ {c} : calls'[d] = calls[d]
        PROVE  Rivals'
    BY <2>1, <2>3, RequestRivals
  <2> QED
    BY <1>6, <2>2, <2>3, FailureMove
<1>7. CASE T3560Expiry(a)
  <2>1. amf[a].st = "challenged" /\ UNCHANGED <<calls, ausf, conf>>
    BY <1>7, ExpiryMove
  <2>2. CASE amf' = [amf EXCEPT ![a] = Released(@)]
    BY <2>1, <2>2, ReleaseRivals
  <2>3. ASSUME NEW r \in AmfRec, PutAmf(a, r), r.st = "challenged", r.suci = amf[a].suci,
               r.vec = amf[a].vec
        PROVE  Rivals'
    <3>1. \A c \in Calls : ~(Active(c) /\ calls[c].by = a)
      BY <2>1, NoneActive
    <3>2. ~Asking(a)
      BY <2>1 DEF Core, Confirmed
    <3> QED
      BY <1>0, <2>1, <2>3, <3>1, <3>2, AmfRivals DEF Kept, Asking
  <2> QED
    BY <1>7, <2>2, <2>3, ExpiryMove
<1> QED
  BY <1>1, <1>2, <1>3, <1>4, <1>5, <1>6, <1>7 DEF AmfStep

\* Contexts and confirmations stay, and a request only comes nearer its end.
LEMMA CallRivals ==
  ASSUME Core, Rivals, Requested, NEW c \in Calls,
         AusfRequest(c) \/ AusfAnswer(c) \/ UdrGet(c) \/ UdmGenerate(c) \/ UdrPatch(c)
  PROVE  Rivals'
<1>1. UNCHANGED <<amf, conf>>
  BY DEF AusfRequest, AusfAnswer, UdrGet, UdmGenerate, UdrPatch
<1>2. PICK r \in CallRec : /\ PutCall(c, r) /\ r.suci = calls[c].suci /\ r.by = calls[c].by
                           /\ r.ausf # "free" /\ calls[c].ausf # "free"
                           /\ r.ausf \in {"sent", "wait"} => Active(c)
                           /\ r.ausf = "ok" /\ ~AusfAnswer(c) => calls[c].ausf = "ok"
  <2>1. CASE AusfRequest(c)
    BY <2>1, AusfRequestMove DEF Active
  <2>2. CASE AusfAnswer(c)
    BY <2>2, AusfAnswerMove DEF Active
  <2>3. CASE UdrGet(c) \/ UdmGenerate(c) \/ UdrPatch(c)
    <3>1. calls[c].udm # "idle"
      BY <2>3, UdrGetMove, UdmGenerateMove, UdrPatchMove
    <3>2. calls[c].ausf # "free"
      BY <3>1 DEF Requested
    <3>3. PICK r \in CallRec : /\ PutCall(c, r) /\ r.suci = calls[c].suci /\ r.by = calls[c].by
                              /\ r.ausf = calls[c].ausf
      BY <2>3, UdrGetMove, UdmGenerateMove, UdrPatchMove
    <3> QED
      BY <3>2, <3>3 DEF Active
  <2> QED
    BY <2>1, <2>2, <2>3
<1>3. Remembered
  BY <1>2, RememberedPut
<1>4. calls'[c] = r /\ \A d \in Calls \ {c} : calls'[d] = calls[d]
  BY <1>2, PutCallFacts DEF Core
<1>5. Asked'
  <2>1. \A d \in Calls : Active(d)' => Active(d)
    BY <1>2, <1>4 DEF Active
  <2>2. \A d \in Calls : calls'[d].ausf # "free" => calls[d].ausf # "free"
    BY <1>2, <1>4
  <2>3. \A d \in Calls : calls'[d].by = calls[d].by
    BY <1>2, <1>4
  <2>4. \A b \in Contexts : Asking(b)' = Asking(b)
    BY <1>1 DEF Asking
  <2> QED
    BY <1>1, <2>1, <2>2, <2>3, <2>4 DEF Rivals, Asked
<1>6. ASSUME NEW a \in Contexts PROVE Kept(a)'
  <2>0. /\ Kept(a) /\ amf'[a] = amf[a] /\ conf'[a] = conf[a]
        /\ amf[a].st # "none" => amf[a].suci \in Sucis
        /\ amf[a].st = "waitAv" => amf[a].call \in Calls
    BY <1>1 DEF Rivals, Core, Contexted, CtxOK
  <2>1. CASE calls[c].by = a /\ AusfAnswer(c)
    <3>1. PICK q \in CallRec, v \in Vecs :
            /\ PutCall(c, q)
            /\ (q.ausf = "ok" /\ v = c) \/ q.ausf = "err"
            /\ ausf'[calls[c].suci].vec = v
      BY <2>1, AusfAnswerMove
    <3>2. calls'[c] = q
      BY <3>1, PutCallFacts DEF Core
    <3>3. \/ amf[a].st = "waitAv" /\ amf[a].call = c
          \/ amf[a].st = "gone" /\ ~Asking(a)
      BY <2>1 DEF Rivals, Asked, Active, AusfAnswer
    <3>4. ~Asking(a) /\ ~Asking(a)'
      BY <1>1, <3>3 DEF Core, Confirmed, Asking
    <3>5. Sole(a)' => Sole(a)
      BY <1>3, <2>0, SoleStays
    <3>6. amf[a].st = "waitAv" /\ calls'[amf[a].call].ausf = "ok"
            => ausf'[amf[a].suci].vec = amf[a].call
      BY <2>0, <3>1, <3>2, <3>3 DEF Kept
    <3>7. \E d \in Calls : /\ calls'[d].ausf # "free" /\ calls'[d].by = a
                           /\ calls'[d].suci = amf'[a].suci
      BY <1>3, <2>0, <3>3 DEF Kept, Remembered
    <3>8. amf'[a].st = "waitAv" =>
            /\ calls'[amf'[a].call].ausf # "free" /\ calls'[amf'[a].call].by = a
            /\ calls'[amf'[a].call].suci = amf'[a].suci
      BY <1>3, <2>0 DEF Kept, Remembered
    <3> QED
      BY <2>0, <3>3, <3>4, <3>5, <3>6, <3>7, <3>8 DEF Kept, Asking
  <2>2. CASE ~(calls[c].by = a /\ AusfAnswer(c))
    <3>1. amf[a].st = "waitAv" => calls'[amf[a].call].ausf = calls[amf[a].call].ausf
                                    \/ (amf[a].call = c /\ ~AusfAnswer(c))
      BY <1>4, <2>0, <2>2 DEF Kept
    <3>2. Sole(a) /\ amf[a].st # "none" => ausf'[amf[a].suci].vec = ausf[amf[a].suci].vec
      <4>1. CASE AusfAnswer(c)
        <5>1. \A s \in Sucis \ {calls[c].suci} : ausf'[s] = ausf[s]
          BY <4>1, AusfAnswerMove
        <5>2. Sole(a) => amf[a].suci # calls[c].suci
          BY <1>2, <2>2, <4>1 DEF Sole
        <5> QED
          BY <2>0, <5>1, <5>2
      <4>2. CASE AusfRequest(c)
        BY <2>0, <4>2, AusfRequestMove
      <4>3. CASE UdrGet(c) \/ UdmGenerate(c) \/ UdrPatch(c)
        BY <4>3 DEF UdrGet, UdmGenerate, UdrPatch
      <4> QED
        BY <4>1, <4>2, <4>3
    <3>3. CASE amf[a].st = "waitAv" /\ amf[a].call = c /\ ~AusfAnswer(c)
      <4>1. ~Asking(a) /\ ~Asking(a)'
        BY <1>1, <3>3 DEF Core, Confirmed, Asking
      <4>2. Sole(a)' => Sole(a)
        BY <1>3, <2>0, SoleStays
      <4>3. calls'[c].ausf = "ok" => calls[c].ausf = "ok"
        BY <1>2, <1>4, <3>3
      <4>4. /\ calls'[c].ausf # "free" /\ calls'[c].by = a /\ calls'[c].suci = amf'[a].suci
        BY <1>3, <2>0, <3>3 DEF Kept, Remembered
      <4> QED
        BY <2>0, <3>2, <3>3, <4>1, <4>2, <4>3, <4>4 DEF Kept, Asking
    <3>4. CASE ~(amf[a].st = "waitAv" /\ amf[a].call = c /\ ~AusfAnswer(c))
      BY <1>3, <2>0, <3>1, <3>2, <3>4, KeptStays
    <3> QED
      BY <3>3, <3>4
  <2> QED
    BY <2>1, <2>2
<1> QED
  BY <1>5, <1>6 DEF Rivals

LEMMA ConfirmRivals ==
  ASSUME Core, Rivals, NEW a \in Contexts, ConfirmRead(a) \/ ConfirmWrite(a)
  PROVE  Rivals'
<1>1. UNCHANGED <<amf, calls>>
  BY DEF ConfirmRead, ConfirmWrite
<1>2. Remembered
  BY <1>1, RememberedSame
<1>3. Asking(a) /\ amf[a].st \in {"waitConf", "gone"} /\ amf[a].suci \in Sucis
  BY DEF ConfirmRead, ConfirmWrite, Asking, Core, Confirmed, Contexted, CtxOK
<1>4. \A b \in Contexts \ {a} : conf'[b] = conf[b]
  BY ConfirmReadMove, ConfirmWriteMove
<1>5. Asked'
  <2>1. \A c \in Calls : Active(c)' = Active(c)
    BY <1>1 DEF Active
  <2>2. \A b \in Contexts : Asking(b)' => Asking(b)
    BY <1>3, <1>4 DEF Asking
  <2> QED
    BY <1>1, <2>1, <2>2 DEF Rivals, Asked
<1>6. ASSUME NEW b \in Contexts, b # a PROVE Kept(b)'
  <2>1. CASE ConfirmRead(a)
    BY <1>1, <1>2, <1>4, <1>6, <2>1, KeptStays DEF Rivals, ConfirmRead
  <2>2. CASE ConfirmWrite(a)
    <3>1. \A s \in Sucis \ {amf[a].suci} : ausf'[s] = ausf[s]
      BY <2>2, ConfirmWriteMove
    <3>2. Sole(b) => amf[b].suci # amf[a].suci
      BY <1>3, <1>6 DEF Rivals, Kept, Sole
    <3>3. amf[b].st # "none" => amf[b].suci \in Sucis
      BY DEF Core, Contexted, CtxOK
    <3> QED
      BY <1>1, <1>2, <1>4, <1>6, <3>1, <3>2, <3>3, KeptStays DEF Rivals
  <2> QED
    BY <2>1, <2>2
<1>7. Kept(a)'
  <2>0. Kept(a) /\ amf'[a] = amf[a] /\ (Sole(a)' = Sole(a))
    BY <1>1 DEF Rivals, Sole
  <2>1. CASE ConfirmRead(a)
    <3>1. conf'[a].st = "read" /\ conf'[a].copy = ausf[amf[a].suci].vec /\ UNCHANGED ausf
      BY <2>1, ConfirmReadMove
    <3> QED
      BY <1>1, <1>3, <2>0, <3>1 DEF Kept, Asking
  <2>2. CASE ConfirmWrite(a)
    <3>1. /\ conf[a].st = "read" /\ ausf'[amf[a].suci].vec = conf[a].copy
          /\ conf'[a].st = "ok" \/ (conf'[a].st = "fail" /\ conf[a].copy # amf[a].vec)
      BY <2>2, ConfirmWriteMove
    <3> QED
      BY <1>1, <1>3, <2>0, <3>1 DEF Kept, Asking
  <2> QED
    BY <2>1, <2>2
<1> QED
  BY <1>5, <1>6, <1>7 DEF Rivals

LEMMA RivalsSame ==
  ASSUME Rivals, UNCHANGED <<amf, calls, ausf, conf>>
  PROVE  Rivals'
BY DEF Rivals, Asked, Kept, Sole, Active, Asking

LEMMA NextRivals ==
  ASSUME Core, Requested, Rivals, [Next]_vars
  PROVE  Rivals'
<1>1. CASE CoreStep
  <2>1. ASSUME NEW t \in Tasks, ProtectCount(t) \/ \E k \in Kinds : ProtectLookup(t, k)
        PROVE  Rivals'
    BY <2>1, RivalsSame DEF ProtectCount, ProtectLookup
  <2> QED
    BY <1>1, <2>1, CallRivals, ConfirmRivals DEF CoreStep
<1>2. CASE UeChallenge \/ UNCHANGED vars
  BY <1>2, RivalsSame DEF UeChallenge, vars
<1> QED
  BY <1>1, <1>2, AmfStepRivals DEF Next

(***************************************************************************)
(* The AUSF fails the right answer of a UE only when another AMF context   *)
(* asked for a vector for the same SUCI: no request of the context itself, *)
(* refused, timed out or repeated, leaves a stale vector in the AusfUe     *)
(* although every handler writes back the whole copy it read before.       *)
(***************************************************************************)
THEOREM OnlyRivalsReject == Spec => []RejectedOnlyByRival
<1>1. Init => Rivals
  <2> SUFFICES ASSUME Init PROVE Rivals
    OBVIOUS
  <2>1. \A c \in Calls : calls[c].ausf = "free"
    BY DEF Init
  <2>2. \A a \in Contexts : amf[a].st = "none" /\ conf[a].st = "none"
    BY DEF Init
  <2> QED
    BY <2>1, <2>2 DEF Rivals, Asked, Kept, Asking
<1>2. Core /\ Requested /\ Rivals /\ [Next]_vars => Rivals'
  BY NextRivals
<1>3. Rivals => RejectedOnlyByRival
  BY DEF Rivals, Kept, Sole, RejectedOnlyByRival
<1> QED
  BY <1>1, <1>2, <1>3, CoreInvariance, PTL DEF Spec

-----------------------------------------------------------------------------
(* Sequence numbers.                                                       *)

\* A request for which no vector was drawn may still take a step of SEQ, and
\* one number more.
Undrawn == {c \in Calls : calls[c].udm \in {"idle", "get", "got"}}
Needed  == (IndSize + 1) * Cardinality(Undrawn)
Fits(q) == q + Needed < SqnSize

\* No number is so large that the requests to come could make it wrap.
Rooms ==
  /\ Fits(udrSqn) /\ Fits(usim.sqn)
  /\ \A m \in air : Fits(m.sqn)
  /\ \A c \in Calls : /\ Fits(calls[c].sqn) /\ Fits(calls[c].resync.sqnMs)
                      /\ calls[c].udm = "patch" => Fits(calls[c].sqn + IndSize)

\* A resynchronisation reports a number not below the one it refused.
Reported(r) == r.auts \in Calls /\ Issued(r.auts) /\ calls[r.auts].sqn <= r.sqnMs

\* Challenges, and what answers them, are of vectors that the UDM issued.
Traced ==
  /\ \A c \in Calls : /\ calls[c].ausf \in {"free", "sent"} => calls[c].udm = "idle"
                      /\ calls[c].ausf = "ok" => Issued(c)
                      /\ calls[c].resync = Fresh \/ Reported(calls[c].resync)
  /\ \A m \in air : Issued(m.vec) /\ (m.type = "synch" => calls[m.vec].sqn <= m.sqn)
  /\ \A a \in Contexts : amf[a].st = "challenged" => Issued(amf[a].vec)
  /\ udmRand # None => calls[udmRand].udm \in {"patch", "av", "err"}

\* The number in the UDR, and the one of a vector about to be issued, are above
\* all that were issued, and the last vector drawn is not below any of them.
Rising(c) ==
  /\ Issued(c) => /\ calls[c].sqn < udrSqn
                  /\ udmRand # None /\ calls[c].sqn <= calls[udmRand].sqn
  /\ calls[c].udm = "got" => calls[c].sqn = udrSqn
  /\ calls[c].udm = "patch" => /\ udmRand = c
                               /\ \A d \in Calls : Issued(d) => calls[d].sqn < calls[c].sqn
Ascending ==
  ~overlap /\ ~degraded =>
    /\ \A c, d \in Calls : Busy(c) /\ Busy(d) => c = d
    /\ \A c \in Calls : Rising(c)

LEMMA NeededFacts ==
  /\ IsFiniteSet(Undrawn) /\ Cardinality(Undrawn) \in Nat /\ Needed \in Nat
  /\ IsFiniteSet(Undrawn') /\ Cardinality(Undrawn') \in Nat /\ Needed' \in Nat
<1>1. IsFiniteSet(Calls)
  BY FS_Interval, AkaAssumption DEF Calls
<1>2. Undrawn \subseteq Calls /\ Undrawn' \subseteq Calls
  BY DEF Undrawn
<1>3. IsFiniteSet(Undrawn) /\ IsFiniteSet(Undrawn')
  BY <1>1, <1>2, FS_Subset
<1>4. Cardinality(Undrawn) \in Nat /\ Cardinality(Undrawn') \in Nat
  BY <1>3, FS_CardinalityType
<1>5. \A n \in Nat : (IndSize + 1) * n \in Nat
  BY AkaAssumption
<1> QED
  BY <1>3, <1>4, <1>5 DEF Needed

LEMMA NumbersAreNat ==
  ASSUME Core
  PROVE  /\ udrSqn \in Nat /\ usim.sqn \in Nat /\ \A m \in air : m.sqn \in Nat
         /\ \A c \in Calls : calls[c].sqn \in Nat /\ calls[c].resync.sqnMs \in Nat
         /\ SqnSize \in Nat /\ IndSize \in Nat /\ IndSize > 0
<1>1. SqnSize \in Nat /\ IndSize \in Nat /\ IndSize > 0 /\ Sqns \subseteq Nat
  BY AkaAssumption DEF Sqns
<1>2. udrSqn \in Sqns /\ usim.sqn \in Sqns /\ \A m \in air : m.sqn \in Sqns
  BY DEF Core, UeOK, UdmOK, Msgs
<1>3. \A c \in Calls : calls[c].sqn \in Sqns /\ calls[c].resync \in Resyncs
  BY DEF Core, CallsOK, CallRec
<1>4. \A c \in Calls : calls[c].resync.sqnMs \in Sqns
  BY <1>3 DEF Resyncs
<1> QED
  BY <1>1, <1>2, <1>3, <1>4

\* Nothing is drawn.
LEMMA NeededSame ==
  ASSUME \A c \in Calls : calls'[c].udm = calls[c].udm \/
                          (calls[c].udm \in {"idle", "get", "got"} /\
                           calls'[c].udm \in {"idle", "get", "got"}) \/
                          (calls[c].udm \notin {"idle", "get", "got"} /\
                           calls'[c].udm \notin {"idle", "get", "got"})
  PROVE  Needed' = Needed
<1>1. Undrawn' = Undrawn
  BY DEF Undrawn
<1> QED
  BY <1>1 DEF Needed

\* A vector is drawn.
LEMMA NeededLess ==
  ASSUME NEW c \in Calls, calls[c].udm = "got", calls'[c].udm \in {"patch", "err"},
         \A d \in Calls \ {c} : calls'[d] = calls[d]
  PROVE  Needed' + IndSize + 1 = Needed
<1>1. Undrawn' = Undrawn \ {c} /\ c \in Undrawn
  BY DEF Undrawn
<1>2. PICK n \in Nat : n = Cardinality(Undrawn')
  BY NeededFacts
<1>3. Cardinality(Undrawn) = n + 1
  BY <1>1, <1>2, NeededFacts, FS_RemoveElement
<1>4. (IndSize + 1) * (n + 1) = (IndSize + 1) * n + IndSize + 1
  BY AkaAssumption
<1> QED
  BY <1>2, <1>3, <1>4 DEF Needed

\* A step after which every number is as small as one there was before.
LEMMA RoomsKept ==
  ASSUME Core, Core', Rooms, Needed' <= Needed,
         udrSqn' = udrSqn, usim'.sqn = usim.sqn \/ \E c \in Calls : usim'.sqn = calls[c].sqn,
         \A m \in air' : m \in air \/ m.sqn \in {0, usim.sqn},
         \A c \in Calls : /\ calls'[c].sqn \in {calls[c].sqn, udrSqn}
                          /\ \/ calls'[c].resync.sqnMs \in {calls[c].resync.sqnMs, 0}
                             \/ \E m \in air : calls'[c].resync.sqnMs = m.sqn
                          /\ calls'[c].udm = "patch" =>
                               calls[c].udm = "patch" /\ calls'[c].sqn = calls[c].sqn
  PROVE  Rooms'
<1>1. Needed \in Nat /\ Needed' \in Nat
  BY NeededFacts
<1>2. \A q \in Nat : Fits(q) => Fits(q)'
  BY <1>1, NumbersAreNat DEF Fits
<1>3. Fits(0)
  BY <1>1, NumbersAreNat DEF Fits, Rooms
<1>4. Fits(udrSqn)' /\ Fits(usim.sqn)'
  BY <1>2, NumbersAreNat DEF Rooms, Fits
<1>5. ASSUME NEW m \in air' PROVE Fits(m.sqn)'
  BY <1>2, <1>3, NumbersAreNat DEF Rooms, Fits
<1>6. ASSUME NEW c \in Calls
      PROVE  /\ Fits(calls[c].sqn)' /\ Fits(calls[c].resync.sqnMs)'
             /\ calls'[c].udm = "patch" => Fits(calls[c].sqn + IndSize)'
  <2>1. Fits(calls[c].sqn)'
    BY <1>2, NumbersAreNat DEF Rooms, Fits
  <2>2. Fits(calls[c].resync.sqnMs)'
    BY <1>2, <1>3, NumbersAreNat DEF Rooms, Fits
  <2>3. calls'[c].udm = "patch" => Fits(calls[c].sqn + IndSize)'
    <3>1. calls[c].sqn + IndSize \in Nat
      BY NumbersAreNat
    <3> QED
      BY <1>2, <3>1 DEF Rooms, Fits
  <2> QED
    BY <2>1, <2>2, <2>3
<1> QED
  BY <1>4, <1>5, <1>6 DEF Rooms

\* The records of the vectors stay, once they are drawn.
Settled == \A c \in Calls : Issued(c) => Issued(c)' /\ calls'[c].sqn = calls[c].sqn

LEMMA ReportedStays ==
  ASSUME Settled, NEW r, Reported(r)
  PROVE  Reported(r)'
BY DEF Settled, Reported

\* A step of an AMF, seen from the numbers: a request more, a challenge, and
\* messages that arrive.
CallsQuiet ==
  \A c \in Calls :
    /\ calls'[c].udm = calls[c].udm /\ calls'[c].sqn = calls[c].sqn
    /\ \/ calls'[c].ausf = calls[c].ausf /\ calls'[c].resync = calls[c].resync
       \/ /\ calls[c].ausf = "free" /\ calls'[c].ausf = "sent"
          /\ \/ calls'[c].resync = Fresh
             \/ \E m \in air : /\ m.type = "synch" /\ calls'[c].resync.auts = m.vec
                               /\ calls'[c].resync.sqnMs = m.sqn
AirQuiet == \A m \in air' : m \in air \/ (m.type = "req" /\ m.sqn = 0 /\ Issued(m.vec))
AmfQuiet == \A b \in Contexts : amf'[b].st = "challenged" => Issued(amf'[b].vec)

LEMMA AmfStepSqns ==
  ASSUME Core, Traced, NEW a \in Contexts, AmfStep(a)
  PROVE  /\ CallsQuiet /\ AirQuiet /\ AmfQuiet /\ usim'.sqn = usim.sqn
         /\ UNCHANGED <<udmRand, udrSqn, overlap, degraded>>
<1>1. \A b \in Contexts : amf[b].st = "challenged" => Issued(amf[b].vec)
  BY DEF Traced
<1>2. ASSUME NEW r \in AmfRec, PutAmf(a, r), r.st = "challenged" => Issued(r.vec)
      PROVE  AmfQuiet
  BY <1>1, <1>2, PutAmfFacts DEF Core, AmfQuiet
<1>3. ASSUME amf' = [amf EXCEPT ![a] = Released(@)], air' = Without(a)
      PROVE  AmfQuiet /\ AirQuiet
  <2>1. PICK r \in AmfRec : PutAmf(a, r) /\ r.st = "gone"
    BY <1>3, ReleaseMove
  <2>2. air' \subseteq air
    BY <1>3 DEF Without
  <2> QED
    BY <1>2, <2>1, <2>2 DEF AirQuiet
<1>4. UNCHANGED calls => CallsQuiet
  BY DEF CallsQuiet
<1>5. ASSUME NEW s \in Sucis, RegistrationRequest(a, s)
      PROVE  /\ CallsQuiet /\ AirQuiet /\ AmfQuiet /\ usim'.sqn = usim.sqn
             /\ UNCHANGED <<udmRand, udrSqn, overlap, degraded>>
  <2>1. PICK r \in AmfRec, c \in Calls :
           /\ PutAmf(a, r) /\ r.st = "waitAv" /\ calls[c].ausf = "free"
           /\ calls'[c].ausf = "sent" /\ calls'[c].resync = Fresh
           /\ calls'[c].udm = calls[c].udm /\ calls'[c].sqn = calls[c].sqn
           /\ \A d \in Calls \ {c} : calls'[d] = calls[d]
    BY <1>5, RegistrationRequestMove
  <2>2. CallsQuiet
    BY <2>1 DEF CallsQuiet
  <2>3. AmfQuiet
    BY <1>2, <2>1
  <2>4. AirQuiet /\ UNCHANGED <<udmRand, udrSqn, overlap, degraded>>
    BY <1>5 DEF RegistrationRequest, AirQuiet
  <2>5. usim'.sqn = usim.sqn
    BY <1>5 DEF RegistrationRequest, Core, UeOK
  <2> QED
    BY <2>2, <2>3, <2>4, <2>5
<1>6. CASE AuthenticationAnswer(a)
  <2>1. /\ amf[a].call \in Calls
        /\ UNCHANGED <<usim, calls, udmRand, udrSqn, overlap, degraded>>
    BY <1>6, AnswerMove
  <2>2. PICK c \in Calls : c = amf[a].call
    BY <2>1
  <2>3. ASSUME NEW r \in AmfRec, PutAmf(a, r), r.vec = c, calls[c].ausf = "ok",
               air' = Challenge(a, c)
        PROVE  AmfQuiet /\ AirQuiet
    <3>1. Issued(c)
      BY <2>3 DEF Traced
    <3>2. AirQuiet
      BY <2>3, <3>1, ChallengeFacts DEF AirQuiet
    <3> QED
      BY <1>2, <2>3, <3>1, <3>2
  <2>4. \/ /\ calls[c].ausf = "ok" /\ air' = Challenge(a, c)
           /\ \E r \in AmfRec : PutAmf(a, r) /\ r.vec = c
        \/ amf' = [amf EXCEPT ![a] = Released(@)] /\ air' = Without(a)
    BY <1>6, <2>2, AnswerMove
  <2> QED
    BY <1>3, <1>4, <2>1, <2>3, <2>4
<1>7. CASE CallTimeout(a)
  <2>1. /\ amf' = [amf EXCEPT ![a] = Released(@)] /\ air' = Without(a)
        /\ UNCHANGED <<usim, calls, udmRand, udrSqn, overlap, degraded>>
    BY <1>7 DEF CallTimeout
  <2> QED
    BY <1>3, <1>4, <2>1
<1>8. CASE AuthenticationResponse(a)
  <2>1. /\ UNCHANGED <<usim, calls, udmRand, udrSqn, overlap, degraded>>
        /\ air' \subseteq air
        /\ \/ \E r \in AmfRec : PutAmf(a, r) /\ r.st = "waitConf"
           \/ amf' = [amf EXCEPT ![a] = Released(@)] /\ air' = Without(a)
    BY <1>8, ResponseMove
  <2>2. AirQuiet
    BY <2>1 DEF AirQuiet
  <2> QED
    BY <1>2, <1>3, <1>4, <2>1, <2>2
<1>9. CASE ConfirmationAnswer(a)
  <2>1. /\ UNCHANGED <<usim, calls, udmRand, udrSqn, overlap, degraded>>
        /\ \/ UNCHANGED air /\ \E r \in AmfRec : PutAmf(a, r) /\ r.st = "secured"
           \/ amf' = [amf EXCEPT ![a] = Released(@)] /\ air' = Without(a)
    BY <1>9, ConfAnswerMove
  <2>2. UNCHANGED air => AirQuiet
    BY DEF AirQuiet
  <2> QED
    BY <1>2, <1>3, <1>4, <2>1, <2>2
<1>10. CASE AuthenticationFailure(a)
  <2>1. /\ air' \subseteq air
        /\ UNCHANGED <<usim, udmRand, udrSqn, overlap, degraded>>
    BY <1>10, FailureMove
  <2>2. AirQuiet
    BY <2>1 DEF AirQuiet
  <2>3. ASSUME NEW r \in AmfRec, NEW c \in Calls, NEW y \in Resyncs,
               PutAmf(a, r), r.st = "waitAv", calls[c].ausf = "free", calls'[c].ausf = "sent",
               calls'[c].udm = calls[c].udm, calls'[c].sqn = calls[c].sqn,
               calls'[c].resync = y,
               y = Fresh \/ \E m \in air : m.type = "synch" /\ y.auts = m.vec /\ y.sqnMs = m.sqn,
               \A d \in Calls \ {c} : calls'[d] = calls[d]
        PROVE  CallsQuiet /\ AmfQuiet
    <3>1. CallsQuiet
      BY <2>3 DEF CallsQuiet
    <3>2. AmfQuiet
      BY <1>2, <2>3
    <3> QED
      BY <3>1, <3>2
  <2>4. \/ \E r \in AmfRec, c \in Calls, y \in Resyncs :
             /\ PutAmf(a, r) /\ r.st = "waitAv" /\ calls[c].ausf = "free"
             /\ calls'[c].ausf = "sent"
             /\ calls'[c].udm = calls[c].udm /\ calls'[c].sqn = calls[c].sqn
             /\ calls'[c].resync = y
             /\ y = Fresh \/ \E m \in air : m.type = "synch" /\ y.auts = m.vec /\ y.sqnMs = m.sqn
             /\ \A d \in Calls \ {c} : calls'[d] = calls[d]
        \/ amf' = [amf EXCEPT ![a] = Released(@)] /\ air' = Without(a) /\ UNCHANGED calls
    BY <1>10, FailureMove
  <2>5. CallsQuiet /\ AmfQuiet
    BY <1>3, <1>4, <2>3, <2>4
  <2> QED
    BY <2>1, <2>2, <2>5
<1>11. CASE T3560Expiry(a)
  <2>1. /\ amf[a].vec \in Calls /\ amf[a].st = "challenged"
        /\ UNCHANGED <<usim, calls, udmRand, udrSqn, overlap, degraded>>
    BY <1>11, ExpiryMove
  <2>2. PICK v \in Calls : v = amf[a].vec
    BY <2>1
  <2>3. Issued(v)
    BY <1>1, <2>1, <2>2
  <2>4. ASSUME NEW r \in AmfRec, PutAmf(a, r), r.vec = v, air' = Challenge(a, v)
        PROVE  AmfQuiet /\ AirQuiet
    <3>1. AirQuiet
      BY <2>3, <2>4, ChallengeFacts DEF AirQuiet
    <3> QED
      BY <1>2, <2>3, <2>4, <3>1
  <2>5. \/ air' = Challenge(a, v) /\ \E r \in AmfRec : PutAmf(a, r) /\ r.vec = v
        \/ amf' = [amf EXCEPT ![a] = Released(@)] /\ air' = Without(a)
    BY <1>11, <2>2, ExpiryMove
  <2> QED
    BY <1>3, <1>4, <2>1, <2>4, <2>5
<1> QED
  BY <1>5, <1>6, <1>7, <1>8, <1>9, <1>10, <1>11 DEF AmfStep

\* The UDM is elsewhere.
LEMMA AscendingSame ==
  ASSUME Core, Ascending, UNCHANGED <<udrSqn, udmRand, overlap, degraded>>,
         \A c \in Calls : /\ calls'[c].sqn = calls[c].sqn
                          /\ \/ calls'[c].udm = calls[c].udm
                             \/ calls[c].udm = "idle" /\ calls'[c].udm = "get"
  PROVE  Ascending'
<1> SUFFICES ASSUME ~overlap, ~degraded
             PROVE  /\ \A c, d \in Calls : Busy(c)' /\ Busy(d)' => c = d
                    /\ \A c \in Calls : Rising(c)'
  BY DEF Ascending
<1>1. /\ \A c, d \in Calls : Busy(c) /\ Busy(d) => c = d
      /\ \A c \in Calls : Rising(c)
  BY DEF Ascending
<1>2. \A c \in Calls : /\ Busy(c)' => Busy(c)
                       /\ Issued(c)' => Issued(c)
                       /\ calls'[c].udm \in {"got", "patch"} => calls'[c].udm = calls[c].udm
  BY DEF Busy, Issued
<1>3. udmRand # None => udmRand \in Calls
  BY DEF Core, UdmOK, Vecs
<1>4. ASSUME NEW c \in Calls PROVE Rising(c)'
  BY <1>1, <1>2, <1>3 DEF Rising
<1> QED
  BY <1>1, <1>2, <1>4

Sqn == Rooms /\ Traced /\ Ascending

LEMMA AmfStepKeepsSqn ==
  ASSUME Core, Core', Sqn, NEW a \in Contexts, AmfStep(a)
  PROVE  Sqn'
<1>1. /\ CallsQuiet /\ AirQuiet /\ AmfQuiet /\ usim'.sqn = usim.sqn
      /\ UNCHANGED <<udmRand, udrSqn, overlap, degraded>>
  BY AmfStepSqns DEF Sqn
<1>2. Needed' = Needed
  BY <1>1, NeededSame DEF CallsQuiet
<1>3. Rooms'
  <2>1. \A c \in Calls :
          /\ calls'[c].sqn = calls[c].sqn /\ calls'[c].udm = calls[c].udm
          /\ \/ calls'[c].resync.sqnMs \in {calls[c].resync.sqnMs, 0}
             \/ \E m \in air : calls'[c].resync.sqnMs = m.sqn
    BY <1>1 DEF CallsQuiet, Fresh
  <2>2. \A m \in air' : m \in air \/ m.sqn \in {0, usim.sqn}
    BY <1>1 DEF AirQuiet
  <2>3. Needed' <= Needed
    BY <1>2, NeededFacts
  <2> QED
    BY <1>1, <2>1, <2>2, <2>3, RoomsKept DEF Sqn
<1>4. Settled
  BY <1>1 DEF Settled, CallsQuiet, Issued
<1>5. Traced'
  <2>1. \A m \in air : m.vec \in Calls
    BY DEF Core, UeOK, Msgs
  <2>2. ASSUME NEW c \in Calls
        PROVE  /\ calls'[c].ausf \in {"free", "sent"} => calls'[c].udm = "idle"
               /\ calls'[c].ausf = "ok" => Issued(c)'
               /\ calls'[c].resync = Fresh \/ Reported(calls[c].resync)'
    <3>1. /\ calls'[c].ausf \in {"free", "sent"} => calls'[c].udm = "idle"
          /\ calls'[c].ausf = "ok" => Issued(c)'
      BY <1>1 DEF Sqn, Traced, CallsQuiet, Issued
    <3>2. PICK y : y = calls'[c].resync
      OBVIOUS
    <3>3. y = Fresh \/ Reported(y)
      BY <1>1, <2>1, <3>2 DEF Sqn, Traced, CallsQuiet, Reported
    <3>4. Reported(y) => Reported(y)'
      BY <1>4, ReportedStays
    <3>5. Reported(y)' => Reported(calls[c].resync)'
      BY <3>2 DEF Reported
    <3> QED
      BY <3>1, <3>2, <3>3, <3>4, <3>5
  <2>3. ASSUME NEW m \in air'
        PROVE  Issued(m.vec)' /\ (m.type = "synch" => calls'[m.vec].sqn <= m.sqn)
    <3>1. m.vec \in Calls
      BY DEF Core, UeOK, Msgs
    <3>2. Issued(m.vec) /\ (m.type = "synch" => calls[m.vec].sqn <= m.sqn)
      BY <1>1 DEF AirQuiet, Sqn, Traced
    <3> QED
      BY <1>4, <3>1, <3>2 DEF Settled
  <2>4. ASSUME NEW b \in Contexts, amf'[b].st = "challenged" PROVE Issued(amf[b].vec)'
    <3>1. Issued(amf'[b].vec) /\ amf'[b].vec \in Calls
      BY <1>1, <2>4 DEF AmfQuiet, Core, Contexted, CtxOK
    <3> QED
      BY <1>4, <3>1 DEF Settled, Issued
  <2>5. udmRand' # None => calls'[udmRand'].udm \in {"patch", "av", "err"}
    BY <1>1 DEF CallsQuiet, Sqn, Traced, Core, UdmOK, Vecs
  <2> QED
    BY <2>2, <2>3, <2>4, <2>5 DEF Traced
<1>6. Ascending'
  BY <1>1, AscendingSame DEF Sqn, CallsQuiet
<1> QED
  BY <1>3, <1>5, <1>6 DEF Sqn

\* The USIM takes a vector, or refuses it.
LEMMA UeKeepsSqn ==
  ASSUME Core, Core', Sqn, UeChallenge
  PROVE  Sqn'
<1>1. UNCHANGED <<amf, calls, udmRand, udrSqn, overlap, degraded>>
  BY UeMove
<1>2. PICK m \in air, n \in Msgs :
         /\ m.type = "req" /\ air' = (air \ {m}) \cup {n} /\ n.vec = m.vec /\ m.vec \in Calls
         /\ n.sqn \in {0, usim.sqn}
         /\ n.type = "synch" => n.sqn = usim.sqn /\ calls[m.vec].sqn <= usim.sqn
         /\ \/ usim' = [usim EXCEPT !.sqn = calls[m.vec].sqn, !.vec = m.vec]
            \/ usim' = usim
  BY UeMove
<1>3. Needed' = Needed /\ Needed' <= Needed
  BY <1>1, NeededSame, NeededFacts
<1>4. usim'.sqn = usim.sqn \/ \E c \in Calls : usim'.sqn = calls[c].sqn
  BY <1>2 DEF Core, UeOK
<1>5. Rooms'
  BY <1>1, <1>2, <1>3, <1>4, RoomsKept DEF Sqn
<1>6. Traced'
  <2>1. \A k \in air' : Issued(k.vec) /\ (k.type = "synch" => calls[k.vec].sqn <= k.sqn)
    BY <1>2 DEF Sqn, Traced
  <2> QED
    BY <1>1, <2>1 DEF Sqn, Traced, Issued, Reported
<1>7. Ascending'
  BY <1>1, AscendingSame DEF Sqn
<1> QED
  BY <1>5, <1>6, <1>7 DEF Sqn

\* What neither the numbers nor the messages see.
LEMMA QuietKeepsSqn ==
  ASSUME Core, Sqn, UNCHANGED <<usim, amf, calls, udmRand, udrSqn, overlap, degraded, air>>
  PROVE  Sqn'
BY DEF Sqn, Rooms, Fits, Needed, Undrawn, Traced, Issued, Reported, Ascending, Rising, Busy

\* The record of one request changes, but not once its vector is issued.
LEMMA CallTraced ==
  ASSUME Core, Traced, NEW c \in Calls, NEW r \in CallRec, PutCall(c, r),
         UNCHANGED <<amf, air>>, r.resync = calls[c].resync,
         Issued(c) => r.udm = "av" /\ r.sqn = calls[c].sqn,
         r.ausf \in {"free", "sent"} => r.udm = "idle",
         r.ausf = "ok" => r.udm = "av",
         calls[c].udm \in {"patch", "av", "err"} => r.udm \in {"patch", "av", "err"},
         udmRand' = udmRand \/ (udmRand' = c /\ r.udm = "patch")
  PROVE  Traced' /\ Settled
<1>1. calls'[c] = r /\ \A d \in Calls \ {c} : calls'[d] = calls[d]
  BY PutCallFacts DEF Core
<1>2. Settled
  BY <1>1 DEF Settled, Issued
<1>3. ASSUME NEW d \in Calls
      PROVE  /\ calls'[d].ausf \in {"free", "sent"} => calls'[d].udm = "idle"
             /\ calls'[d].ausf = "ok" => Issued(d)'
             /\ calls'[d].resync = Fresh \/ Reported(calls[d].resync)'
  <2>1. /\ calls'[d].ausf \in {"free", "sent"} => calls'[d].udm = "idle"
        /\ calls'[d].ausf = "ok" => Issued(d)'
    BY <1>1 DEF Traced, Issued
  <2>2. PICK y : y = calls[d].resync
    OBVIOUS
  <2>3. calls'[d].resync = y
    BY <1>1, <2>2
  <2>4. y = Fresh \/ Reported(y)'
    BY <1>2, <2>2, ReportedStays DEF Traced
  <2>5. Reported(y)' => Reported(calls[d].resync)'
    BY <2>3 DEF Reported
  <2> QED
    BY <2>1, <2>3, <2>4, <2>5
<1>4. \A m \in air : m.vec \in Calls
  BY DEF Core, UeOK, Msgs
<1>5. ASSUME NEW m \in air
      PROVE  Issued(m.vec)' /\ (m.type = "synch" => calls'[m.vec].sqn <= m.sqn)
  BY <1>2, <1>4 DEF Settled, Traced
<1>6. ASSUME NEW b \in Contexts, amf[b].st = "challenged" PROVE Issued(amf[b].vec)'
  <2>1. amf[b].vec \in Calls /\ Issued(amf[b].vec)
    BY <1>6 DEF Traced, Core, Contexted, CtxOK
  <2> QED
    BY <1>2, <2>1 DEF Settled, Issued
<1>7. udmRand' # None => calls'[udmRand'].udm \in {"patch", "av", "err"}
  BY <1>1 DEF Traced, Core, UdmOK, Vecs
<1> QED
  BY <1>2, <1>3, <1>5, <1>6, <1>7 DEF Traced

\* The AUSF: nothing of the UDM's changes but that it is asked.
LEMMA AusfKeepsSqn ==
  ASSUME Core, Core', Sqn, NEW c \in Calls, AusfRequest(c) \/ AusfAnswer(c)
  PROVE  Sqn'
<1>1. UNCHANGED <<usim, amf, udmRand, udrSqn, overlap, degraded, air>>
  BY AusfRequestMove, AusfAnswerMove
<1>2. PICK r \in CallRec :
         /\ PutCall(c, r) /\ r.sqn = calls[c].sqn /\ r.resync = calls[c].resync
         /\ \/ r.udm = calls[c].udm \/ (calls[c].udm = "idle" /\ r.udm = "get")
         /\ \/ r.ausf \in {"wait", "err"} \/ (r.ausf = "ok" /\ r.udm = "av")
         /\ Issued(c) => r.udm = "av"
  <2>1. CASE AusfRequest(c)
    <3>1. calls[c].udm = "idle"
      BY <2>1, AusfRequestMove DEF Sqn, Traced
    <3> QED
      BY <2>1, <3>1, AusfRequestMove DEF Issued
  <2>2. CASE AusfAnswer(c)
    <3>1. PICK r \in CallRec, v \in Vecs :
            /\ PutCall(c, r) /\ r.udm = calls[c].udm
            /\ r.sqn = calls[c].sqn /\ r.resync = calls[c].resync
            /\ (r.ausf = "ok" /\ v = c /\ calls[c].udm = "av") \/ r.ausf = "err"
      BY <2>2, AusfAnswerMove
    <3> QED
      BY <3>1 DEF Issued
  <2> QED
    BY <2>1, <2>2
<1>3. calls'[c] = r /\ \A d \in Calls \ {c} : calls'[d] = calls[d]
  BY <1>2, PutCallFacts DEF Core
<1>4. Needed' = Needed /\ Needed' <= Needed
  BY <1>2, <1>3, NeededSame, NeededFacts
<1>5. \A d \in Calls : /\ calls'[d].sqn = calls[d].sqn /\ calls'[d].resync = calls[d].resync
                       /\ \/ calls'[d].udm = calls[d].udm
                          \/ calls[d].udm = "idle" /\ calls'[d].udm = "get"
  BY <1>2, <1>3
<1>6. Rooms'
  BY <1>1, <1>4, <1>5, RoomsKept DEF Sqn
<1>7. Traced'
  BY <1>1, <1>2, CallTraced DEF Sqn
<1>8. Ascending'
  BY <1>1, <1>5, AscendingSame DEF Sqn
<1> QED
  BY <1>6, <1>7, <1>8 DEF Sqn

\* The UDM reads the number, alone or not.
LEMMA GetKeepsSqn ==
  ASSUME Core, Core', Sqn, Requested, NEW c \in Calls, UdrGet(c)
  PROVE  Sqn'
<1>1. UNCHANGED <<usim, amf, udmRand, udrSqn, degraded, air>> /\ calls[c].udm = "get"
  BY UdrGetMove
<1>2. PICK r \in CallRec : /\ PutCall(c, r) /\ r.ausf = calls[c].ausf /\ r.udm = "got"
                           /\ r.sqn = udrSqn /\ r.resync = calls[c].resync
  BY UdrGetMove
<1>3. calls'[c] = r /\ \A d \in Calls \ {c} : calls'[d] = calls[d]
  BY <1>2, PutCallFacts DEF Core
<1>4. Needed' = Needed /\ Needed' <= Needed
  BY <1>1, <1>2, <1>3, NeededSame, NeededFacts
<1>5. Rooms'
  <2>1. \A d \in Calls : /\ calls'[d].sqn \in {calls[d].sqn, udrSqn}
                         /\ calls'[d].resync = calls[d].resync
                         /\ calls'[d].udm = "patch" =>
                              calls[d].udm = "patch" /\ calls'[d].sqn = calls[d].sqn
    BY <1>2, <1>3
  <2> QED
    BY <1>1, <1>4, <2>1, RoomsKept DEF Sqn
<1>6. Traced'
  <2>1. calls[c].ausf \notin {"free", "sent", "ok"} /\ ~Issued(c)
    BY <1>1 DEF Sqn, Traced, Issued
  <2> QED
    BY <1>1, <1>2, <2>1, CallTraced DEF Sqn
<1>7. Ascending'
  <2> SUFFICES ASSUME ~overlap', ~degraded'
               PROVE  /\ \A d, e \in Calls : Busy(d)' /\ Busy(e)' => d = e
                      /\ \A d \in Calls : Rising(d)'
    BY DEF Ascending
  <2>1. ~overlap /\ ~degraded /\ \A d \in Calls : ~Busy(d)
    <3>1. overlap' = (overlap \/ \E d \in Calls : Busy(d))
      BY DEF UdrGet
    <3> QED
      BY <1>1, <3>1, Zenon
  <2>2. \A d \in Calls : Busy(d)' => d = c
    BY <1>3, <2>1 DEF Busy
  <2>3. ASSUME NEW d \in Calls PROVE Rising(d)'
    <3>1. CASE d = c
      BY <1>1, <1>2, <1>3, <3>1 DEF Rising, Issued
    <3>2. CASE d # c
      <4>1. Rising(d) /\ ~Busy(d)
        BY <2>1 DEF Sqn, Ascending
      <4>2. Issued(d) => udmRand \in Calls /\ udmRand # c
        BY <1>1, <4>1 DEF Rising, Sqn, Traced, Core, UdmOK, Vecs
      <4> QED
        BY <1>1, <1>3, <3>2, <4>1, <4>2 DEF Rising, Issued, Busy
    <3> QED
      BY <3>1, <3>2
  <2> QED
    BY <2>2, <2>3
<1> QED
  BY <1>5, <1>6, <1>7 DEF Sqn

LEMMA RoomArithmetic ==
  ASSUME NEW q \in Nat, NEW n \in Nat, NEW k \in Nat, NEW i \in Nat, NEW s \in Nat,
         k + i + 1 = n, q + n < s
  PROVE  q + 1 < s /\ q + k < s /\ q + 1 + i + k < s
OBVIOUS

\* The UDM draws a vector: from the number it read, or above the one reported.
LEMMA GenerateKeepsSqn ==
  ASSUME Core, Core', Sqn, NEW c \in Calls, UdmGenerate(c)
  PROVE  Sqn'
<1>1. /\ UNCHANGED <<usim, amf, udrSqn, overlap, degraded, air>> /\ calls[c].udm = "got"
  BY UdmGenerateMove
<1>2. PICK r \in CallRec :
         /\ PutCall(c, r) /\ r.ausf = calls[c].ausf /\ r.resync = calls[c].resync
         /\ \/ /\ r.udm = "patch" /\ udmRand' = c
               /\ r.sqn = IF r.resync = Fresh THEN calls[c].sqn
                          ELSE (r.resync.sqnMs + 1) % SqnSize
               /\ r.resync = Fresh \/ ResyncValid(r.resync)
            \/ r.udm = "err" /\ r.sqn = calls[c].sqn /\ UNCHANGED udmRand
  BY UdmGenerateMove
<1>3. calls'[c] = r /\ \A d \in Calls \ {c} : calls'[d] = calls[d]
  BY <1>2, PutCallFacts DEF Core
<1>4. Needed' + IndSize + 1 = Needed /\ Needed \in Nat /\ Needed' \in Nat /\ IndSize \in Nat
  BY <1>1, <1>2, <1>3, NeededLess, NeededFacts, NumbersAreNat
<1>5. PICK y \in Resyncs : y = calls[c].resync
  BY DEF Core, CallsOK, CallRec
<1>6. y.sqnMs \in Nat /\ Fits(y.sqnMs) /\ calls[c].sqn \in Nat /\ Fits(calls[c].sqn)
  BY <1>5, NumbersAreNat DEF Sqn, Rooms
<1>7. (y.sqnMs + 1) % SqnSize = y.sqnMs + 1
  <2>1. y.sqnMs + 1 < SqnSize
    BY <1>4, <1>6, NumbersAreNat, RoomArithmetic DEF Fits
  <2>2. \A p, n \in Nat : p < n => p % n = p
    OBVIOUS
  <2> QED
    BY <1>6, <2>1, <2>2, NumbersAreNat
<1>8. \/ /\ r.udm = "patch" /\ udmRand' = c
         /\ \/ y = Fresh /\ r.sqn = calls[c].sqn
            \/ y # Fresh /\ ResyncValid(y) /\ r.sqn = y.sqnMs + 1
      \/ r.udm = "err" /\ r.sqn = calls[c].sqn /\ UNCHANGED udmRand
  BY <1>2, <1>5, <1>7
<1>9. Rooms'
  <2>1. \A q \in Nat : Fits(q) => Fits(q)' /\ q + 1 + IndSize + Needed' < SqnSize
    BY <1>4, NumbersAreNat, RoomArithmetic DEF Fits
  <2>2. /\ Fits(udrSqn)' /\ Fits(usim.sqn)' /\ \A m \in air : Fits(m.sqn)'
    BY <1>1, <2>1, NumbersAreNat DEF Sqn, Rooms, Fits
  <2>3. ASSUME NEW d \in Calls
        PROVE  /\ Fits(calls[d].sqn)' /\ Fits(calls[d].resync.sqnMs)'
               /\ calls'[d].udm = "patch" => Fits(calls[d].sqn + IndSize)'
    <3>1. CASE d # c
      <4>1. /\ calls[d].sqn \in Nat /\ calls[d].resync.sqnMs \in Nat
            /\ calls[d].sqn + IndSize \in Nat
        BY NumbersAreNat
      <4>2. /\ Fits(calls[d].sqn) /\ Fits(calls[d].resync.sqnMs)
            /\ calls[d].udm = "patch" => Fits(calls[d].sqn + IndSize)
        BY DEF Sqn, Rooms
      <4>3. calls'[d] = calls[d]
        BY <1>3, <3>1
      <4> QED
        BY <2>1, <4>1, <4>2, <4>3 DEF Fits
    <3>2. CASE d = c
      <4>1. r.sqn = calls[c].sqn \/ r.sqn = y.sqnMs + 1
        BY <1>8
      <4>2. r.sqn + IndSize + Needed' < SqnSize /\ r.sqn + Needed' < SqnSize
        BY <1>4, <1>6, <2>1, <4>1, NumbersAreNat
      <4>3. calls'[d].resync.sqnMs + Needed' < SqnSize
        BY <1>2, <1>3, <1>5, <1>6, <2>1, <3>2 DEF Fits
      <4> QED
        BY <1>3, <3>2, <4>2, <4>3 DEF Fits
    <3> QED
      BY <3>1, <3>2
  <2> QED
    BY <1>1, <2>2, <2>3 DEF Rooms
<1>10. Traced'
  <2>1. calls[c].ausf \notin {"free", "sent", "ok"} /\ ~Issued(c)
    BY <1>1 DEF Sqn, Traced, Issued
  <2> QED
    BY <1>1, <1>2, <2>1, CallTraced DEF Sqn
<1>11. Ascending'
  <2> SUFFICES ASSUME ~overlap, ~degraded
               PROVE  /\ \A d, e \in Calls : Busy(d)' /\ Busy(e)' => d = e
                      /\ \A d \in Calls : Rising(d)'
    BY <1>1 DEF Ascending
  <2>1. Busy(c) /\ \A d \in Calls : Busy(d) => d = c
    BY <1>1 DEF Sqn, Ascending, Busy
  <2>2. \A d \in Calls : Busy(d)' => d = c
    BY <1>3, <2>1 DEF Busy
  <2>3. \A d \in Calls : Rising(d)
    BY DEF Sqn, Ascending
  <2>4. \A d \in Calls : Issued(d)' => Issued(d) /\ d # c
    BY <1>3, <1>8 DEF Issued
  <2>5. udmRand # None => udmRand \in Calls /\ udmRand # c
    BY <1>1 DEF Sqn, Traced, Core, UdmOK, Vecs
  <2>6. CASE r.udm = "err" /\ UNCHANGED udmRand
    <3>1. ASSUME NEW d \in Calls PROVE Rising(d)'
      <4>1. CASE d = c
        BY <1>3, <2>6, <4>1 DEF Rising, Issued
      <4>2. CASE d # c
        <5>1. ~Busy(d) /\ calls'[d] = calls[d]
          BY <1>3, <2>1, <4>2
        <5> QED
          BY <1>1, <1>3, <2>3, <2>5, <2>6, <5>1 DEF Rising, Issued, Busy
      <4> QED
        BY <4>1, <4>2
    <3> QED
      BY <2>2, <3>1
  <2>7. CASE r.udm = "patch" /\ udmRand' = c
    <3>1. ASSUME NEW d \in Calls, Issued(d) PROVE calls[d].sqn < r.sqn
      <4>1. calls[d].sqn < udrSqn /\ udmRand # None /\ calls[d].sqn <= calls[udmRand].sqn
        BY <2>3, <3>1 DEF Rising
      <4>2. CASE r.sqn = calls[c].sqn
        BY <1>1, <2>3, <4>1, <4>2 DEF Rising
      <4>3. CASE y # Fresh /\ ResyncValid(y) /\ r.sqn = y.sqnMs + 1
        <5>1. y.auts = udmRand /\ Reported(y)
          BY <1>5, <4>3 DEF ResyncValid, Sqn, Traced
        <5>2. calls[udmRand].sqn <= y.sqnMs /\ calls[udmRand].sqn \in Nat
          BY <5>1, NumbersAreNat DEF Reported
        <5> QED
          BY <1>6, <4>1, <4>3, <5>2, NumbersAreNat
      <4> QED
        BY <1>8, <2>7, <4>2, <4>3
    <3>2. ASSUME NEW d \in Calls PROVE Rising(d)'
      <4>1. CASE d = c
        BY <1>3, <2>4, <2>7, <3>1, <4>1 DEF Rising, Issued
      <4>2. CASE d # c
        <5>1. ~Busy(d) /\ calls'[d] = calls[d]
          BY <1>3, <2>1, <4>2
        <5>2. Issued(d) => calls[d].sqn < udrSqn /\ calls[d].sqn < r.sqn
          BY <2>3, <3>1 DEF Rising
        <5>3. calls[d].sqn \in Nat /\ r.sqn \in Nat
          BY <1>6, <1>8, NumbersAreNat
        <5>4. Issued(d) => calls[d].sqn <= r.sqn
          BY <5>2, <5>3
        <5>5. None \notin Calls
          BY DEF None, Calls
        <5> QED
          BY <1>1, <1>3, <2>7, <5>1, <5>2, <5>4, <5>5 DEF Rising, Issued, Busy
      <4> QED
        BY <4>1, <4>2
    <3> QED
      BY <2>2, <3>2
  <2> QED
    BY <1>8, <2>6, <2>7
<1> QED
  BY <1>9, <1>10, <1>11 DEF Sqn

\* The number is written to the UDR, and the vector issued or withheld.
LEMMA PatchKeepsSqn ==
  ASSUME Core, Core', Sqn, NEW c \in Calls, UdrPatch(c)
  PROVE  Sqn'
<1>1. /\ UNCHANGED <<usim, amf, udmRand, overlap, air>> /\ calls[c].udm = "patch"
      /\ udrSqn' = udrSqn \/ udrSqn' = advance_sqn_ind(calls[c].sqn)
      /\ \/ udrSqn' = advance_sqn_ind(calls[c].sqn) /\ UNCHANGED degraded
         \/ degraded' = TRUE
  BY UdrPatchMove DEF UdrPatch
<1>2. PICK r \in CallRec :
         /\ PutCall(c, r) /\ r.ausf = calls[c].ausf /\ r.resync = calls[c].resync
         /\ r.sqn = calls[c].sqn /\ r.udm \in {"av", "err"}
  BY UdrPatchMove
<1>3. calls'[c] = r /\ \A d \in Calls \ {c} : calls'[d] = calls[d]
  BY <1>2, PutCallFacts DEF Core
<1>4. Needed' = Needed /\ Needed \in Nat
  BY <1>1, <1>2, <1>3, NeededSame, NeededFacts
<1>5. calls[c].sqn \in Nat /\ IndSize \in Nat /\ IndSize > 0 /\ SqnSize \in Nat
      /\ Fits(calls[c].sqn + IndSize)
  BY <1>1, NumbersAreNat DEF Sqn, Rooms
<1>6. advance_sqn_ind(calls[c].sqn) = calls[c].sqn + IndSize
  <2>1. calls[c].sqn + IndSize < SqnSize /\ calls[c].sqn + IndSize \in Nat
    BY <1>4, <1>5 DEF Fits
  <2>2. \A p, n \in Nat : p < n => p % n = p
    OBVIOUS
  <2> QED
    BY <1>5, <2>1, <2>2 DEF advance_sqn_ind
<1>7. \A d \in Calls : /\ calls'[d].sqn = calls[d].sqn /\ calls'[d].resync = calls[d].resync
                       /\ calls'[d].udm = "patch" => calls[d].udm = "patch"
  BY <1>2, <1>3
<1>8. Rooms'
  <2>1. Fits(udrSqn)'
    BY <1>1, <1>4, <1>5, <1>6 DEF Fits, Sqn, Rooms
  <2> QED
    BY <1>1, <1>4, <1>7, <2>1 DEF Fits, Sqn, Rooms
<1>9. Traced'
  <2>1. calls[c].ausf \notin {"free", "sent", "ok"} /\ ~Issued(c)
    BY <1>1 DEF Sqn, Traced, Issued
  <2> QED
    BY <1>1, <1>2, <2>1, CallTraced DEF Sqn
<1>10. Ascending'
  <2> SUFFICES ASSUME ~overlap', ~degraded'
               PROVE  /\ \A d, e \in Calls : Busy(d)' /\ Busy(e)' => d = e
                      /\ \A d \in Calls : Rising(d)'
    BY DEF Ascending
  <2>1. ~overlap /\ ~degraded /\ udrSqn' = calls[c].sqn + IndSize
    BY <1>1, <1>6
  <2>2. Busy(c) /\ \A d \in Calls : Busy(d) => d = c
    BY <1>1, <2>1 DEF Sqn, Ascending, Busy
  <2>3. \A d \in Calls : ~Busy(d)'
    BY <1>2, <1>3, <2>2 DEF Busy
  <2>4. Rising(c) /\ \A d \in Calls : Rising(d)
    BY <2>1 DEF Sqn, Ascending
  <2>5. udmRand = c /\ \A d \in Calls : Issued(d) => calls[d].sqn < calls[c].sqn
    BY <1>1, <2>4 DEF Rising
  <2>6. ASSUME NEW d \in Calls, Issued(d)'
        PROVE  /\ calls'[d].sqn < udrSqn'
               /\ udmRand' # None /\ calls'[d].sqn <= calls'[udmRand'].sqn
    <3>1. c # None
      BY DEF None, Calls
    <3>2. calls[d].sqn <= calls[c].sqn /\ calls[d].sqn \in Nat
      <4>1. CASE d = c
        BY <1>5, <4>1
      <4>2. CASE d # c
        <5>1. Issued(d)
          BY <1>3, <2>6, <4>2 DEF Issued
        <5> QED
          BY <1>5, <2>5, <5>1, NumbersAreNat
      <4> QED
        BY <4>1, <4>2
    <3>3. calls[d].sqn < calls[c].sqn + IndSize
      BY <1>5, <3>2
    <3> QED
      BY <1>1, <1>7, <2>1, <2>5, <3>1, <3>2, <3>3
  <2>7. \A d \in Calls : calls'[d].udm \notin {"got", "patch"}
    BY <2>3 DEF Busy
  <2> QED
    BY <2>3, <2>6, <2>7 DEF Rising
<1> QED
  BY <1>8, <1>9, <1>10 DEF Sqn

LEMMA InitSqn == Init => Sqn
<1> SUFFICES ASSUME Init PROVE Sqn
  OBVIOUS
<1>1. /\ udrSqn = IndSize /\ usim.sqn \in UsimSqns /\ air = {} /\ udmRand = None
      /\ \A a \in Contexts : amf[a].st = "none"
      /\ \A c \in Calls : /\ calls[c].ausf = "free" /\ calls[c].udm = "idle"
                          /\ calls[c].resync = Fresh /\ calls[c].sqn = 0
  BY DEF Init
<1>2. Undrawn = 1..MaxCalls
  BY <1>1 DEF Undrawn, Calls
<1>3. Needed = (IndSize + 1) * MaxCalls
  BY <1>2, FS_Interval, AkaAssumption DEF Needed
<1>4. \A q \in UsimSqns \cup {IndSize} : Fits(q)
  BY <1>3, SqnAssumption DEF Fits
<1>5. Fits(0)
  BY <1>4, NeededFacts, AkaAssumption DEF Fits
<1>6. Rooms
  BY <1>1, <1>4, <1>5 DEF Rooms, Fresh
<1>7. Traced
  BY <1>1 DEF Traced
<1>8. Ascending
  BY <1>1 DEF Ascending, Rising, Busy, Issued
<1> QED
  BY <1>6, <1>7, <1>8 DEF Sqn

LEMMA NextSqn ==
  ASSUME Core, Core', Requested, Sqn, [Next]_vars
  PROVE  Sqn'
<1>1. CASE CoreStep
  <2>1. ASSUME NEW t \in Tasks, ProtectCount(t) \/ \E k \in Kinds : ProtectLookup(t, k)
        PROVE  Sqn'
    BY <2>1, QuietKeepsSqn DEF ProtectCount, ProtectLookup
  <2>2. ASSUME NEW a \in Contexts, ConfirmRead(a) \/ ConfirmWrite(a)
        PROVE  Sqn'
    BY <2>2, QuietKeepsSqn DEF ConfirmRead, ConfirmWrite
  <2> QED
    BY <1>1, <2>1, <2>2, AusfKeepsSqn, GetKeepsSqn, GenerateKeepsSqn, PatchKeepsSqn DEF CoreStep
<1>2. CASE UNCHANGED vars
  BY <1>2, QuietKeepsSqn DEF vars
<1> QED
  BY <1>1, <1>2, AmfStepKeepsSqn, UeKeepsSqn DEF Next

\* A vector is issued only by the PATCH of its number.
LEMMA IssuedByPatch ==
  ASSUME Core, Core', Requested, Sqn, [Next]_vars, NEW c \in Calls, ~Issued(c), Issued(c)'
  PROVE  calls[c].udm = "patch" /\ calls'[c].sqn = calls[c].sqn /\ UNCHANGED overlap
         /\ (degraded => degraded')
<1>1. CASE \E a \in Contexts : AmfStep(a)
  BY <1>1, AmfStepCalls DEF Issued
<1>2. CASE UeChallenge \/ UNCHANGED vars
  BY <1>2 DEF UeChallenge, vars, Issued
<1>3. CASE CoreStep
  <2>1. ASSUME NEW t \in Tasks, ProtectCount(t) \/ \E k \in Kinds : ProtectLookup(t, k)
        PROVE  FALSE
    BY <2>1 DEF ProtectCount, ProtectLookup, Issued
  <2>2. ASSUME NEW a \in Contexts, ConfirmRead(a) \/ ConfirmWrite(a)
        PROVE  FALSE
    BY <2>2 DEF ConfirmRead, ConfirmWrite, Issued
  <2>3. ASSUME NEW d \in Calls, AusfRequest(d) \/ AusfAnswer(d) \/ UdrGet(d) \/ UdmGenerate(d)
        PROVE  FALSE
    <3>1. PICK r \in CallRec : PutCall(d, r) /\ (r.udm = "av" => calls[d].udm = "av")
      BY <2>3, AusfRequestMove, AusfAnswerMove, UdrGetMove, UdmGenerateMove
    <3>2. calls'[d] = r /\ \A e \in Calls \ {d} : calls'[e] = calls[e]
      BY <3>1, PutCallFacts DEF Core
    <3> QED
      BY <3>1, <3>2 DEF Issued
  <2>4. ASSUME NEW d \in Calls, UdrPatch(d)
        PROVE  calls[c].udm = "patch" /\ calls'[c].sqn = calls[c].sqn /\ UNCHANGED overlap
               /\ (degraded => degraded')
    <3>1. PICK r \in CallRec : PutCall(d, r) /\ r.sqn = calls[d].sqn
      BY <2>4, UdrPatchMove
    <3>2. calls'[d] = r /\ \A e \in Calls \ {d} : calls'[e] = calls[e]
      BY <3>1, PutCallFacts DEF Core
    <3>3. c = d
      BY <3>2 DEF Issued
    <3>4. calls[d].udm = "patch" /\ UNCHANGED overlap /\ (degraded => degraded')
      BY <2>4 DEF UdrPatch
    <3> QED
      BY <3>1, <3>2, <3>3, <3>4
  <2> QED
    BY <1>3, <2>1, <2>2, <2>3, <2>4 DEF CoreStep
<1> QED
  BY <1>1, <1>2, <1>3 DEF Next

(***************************************************************************)
(* A vector is issued with a number above every number issued before it,   *)
(* also across resynchronisations, as long as no two requests for the SUPI *)
(* overlap in the UDM and no PATCH is refused (handle_generate_auth_data). *)
(***************************************************************************)
THEOREM SqnsAdvance == Spec => SqnAdvances
<1>1. Core /\ Requested /\ Sqn /\ Core' /\ [Next]_vars => Sqn'
  BY NextSqn
<1>2. ASSUME Core, Requested, Sqn, Core', [Next]_vars
      PROVE  [\A c, d \in Calls :
                (Issued(c)' /\ ~Issued(c) /\ Issued(d) /\ ~overlap' /\ ~degraded') =>
                  calls[d].sqn < calls[c].sqn]_vars
  <2>1. ASSUME NEW c \in Calls, NEW d \in Calls, Issued(c)', ~Issued(c), Issued(d),
               ~overlap', ~degraded'
        PROVE  calls[d].sqn < calls[c].sqn
    <3>1. calls[c].udm = "patch" /\ ~overlap /\ ~degraded
      BY <1>2, <2>1, IssuedByPatch
    <3>2. Rising(c)
      BY <1>2, <3>1 DEF Sqn, Ascending
    <3> QED
      BY <2>1, <3>1, <3>2 DEF Rising
  <2> QED
    BY <2>1
<1> QED
  BY <1>1, <1>2, InitSqn, CoreInvariance, PTL DEF Spec, SqnAdvances

=============================================================================
