-------------------------- MODULE SmContextProofs --------------------------
(***************************************************************************)
(* Proofs about SmContext, for every number of contexts, every pool size,  *)
(* every set of keys and every quota: no two contexts have the same UE     *)
(* address and none leaks; the handlers implement AddressService; and a    *)
(* context that ended has left nothing behind.                             *)
(***************************************************************************)
EXTENDS SmContext, TLAPS

\* The create handler has not stored the binding.
Early(r) == At(r, "none") \/ Creating(r)

(***************************************************************************)
(* At every time one party answers for a context's address: the create     *)
(* handler until the binding is stored, then the binding, then the one     *)
(* release that took it.                                                   *)
(***************************************************************************)
OneOwner ==
    \A r \in Ref :
        /\ r >= nextRef => At(r, "none")
        /\ Early(r) => r \notin bindings /\ \A o \in Origin : ~rel[r][o].own
        /\ r \in bindings => \A o \in Origin : ~rel[r][o].own
        /\ \A o, p \in Origin : rel[r][o].own /\ rel[r][p].own => o = p
        /\ \A o \in Origin : RelAt(r, o, "none") \/ RelAt(r, o, "take") =>
                                 ~rel[r][o].own

IInv == TypeOK /\ OneOwner /\ AddressExclusive /\ AddressOwned

-----------------------------------------------------------------------------
(* Types.                                                                  *)

LEMMA InitTypeOK == Init => TypeOK
<1> SUFFICES ASSUME Init PROVE TypeOK
  OBVIOUS
<1>1. ASSUME NEW r \in Ref
      PROVE  create[r] \in CreateHandler /\ create[r].pc = "none"
  <2>1. PICK k \in Key : create[r] = [pc |-> "none", ip |-> NoAddr, key |-> k,
                                      admitted |-> FALSE, pol |-> FALSE]
    BY Zenon DEF Init
  <2> QED
    BY <2>1 DEF CreateHandler, CreatePc
<1>2. create \in [Ref -> CreateHandler]
  BY <1>1, ZenonT(20) DEF Init
<1>3. rel \in [Ref -> [Origin -> ReleaseHandler]]
  BY DEF Init, ReleaseHandler, ReleasePc
<1>4. nextRef \in 1 .. MaxRef + 2
  BY ConstantsAssumption DEF Init
<1> QED
  BY <1>1, <1>2, <1>3, <1>4 DEF Init, TypeOK

LEMMA CreateUpdate ==
    ASSUME TypeOK, NEW r \in Ref, At(r, "nsac") \/ At(r, "pcf"), NEW h \in CreateHandler,
           h.ip = create[r].ip, create' = [create EXCEPT ![r] = h]
    PROVE  /\ create' \in [Ref -> CreateHandler]
           /\ \A q \in Ref : create'[q].pc # "none" => create'[q].ip \in Addr
<1>1. create[r].ip \in Addr
  BY DEF TypeOK, At
<1> QED
  BY <1>1 DEF TypeOK

LEMMA CreateTypeOK ==
    ASSUME TypeOK, NEW r \in Ref, Create(r)
    PROVE  TypeOK'
<1> USE DEF TypeOK, CreateHandler, CreatePc, At, Goto, RollBack, ReleaseIp, InDoubt, smfVars, peerVars
<1>1. CASE NsacAdmitted(r)
  <2> DEFINE h == [create[r] EXCEPT !.pc = "pcf", !.admitted = TRUE]
  <2>1. h \in CreateHandler /\ h.ip = create[r].ip
    OBVIOUS
  <2>2. create' = [create EXCEPT ![r] = h]
    BY <1>1 DEF NsacAdmitted
  <2>3. At(r, "nsac") /\ counted' \subseteq Key
    BY <1>1 DEF NsacAdmitted
  <2> HIDE DEF h
  <2>4. /\ create' \in [Ref -> CreateHandler]
        /\ \A q \in Ref : create'[q].pc # "none" => create'[q].ip \in Addr
    BY <2>1, <2>2, <2>3, CreateUpdate
  <2> QED
    BY <1>1, <2>3, <2>4 DEF NsacAdmitted
<1>2. CASE NsacRejected(r) BY <1>2 DEF NsacRejected
<1>3. CASE NsacSkipped(r) BY <1>3 DEF NsacSkipped
<1>4. CASE PcfNone(r) BY <1>4 DEF PcfNone
<1>5. CASE PcfCreated(r)
  <2> DEFINE h == [create[r] EXCEPT !.pc = "n4", !.pol = TRUE]
  <2>1. h \in CreateHandler /\ h.ip = create[r].ip
    OBVIOUS
  <2>2. create' = [create EXCEPT ![r] = h]
    BY <1>5 DEF PcfCreated
  <2>3. At(r, "pcf") /\ policies' \subseteq Ref
    BY <1>5 DEF PcfCreated
  <2> HIDE DEF h
  <2>4. /\ create' \in [Ref -> CreateHandler]
        /\ \A q \in Ref : create'[q].pc # "none" => create'[q].ip \in Addr
    BY <2>1, <2>2, <2>3, CreateUpdate
  <2> QED
    BY <1>5, <2>3, <2>4 DEF PcfCreated
<1>6. CASE PcfFailed(r) BY <1>6 DEF PcfFailed
<1>7. CASE N4Established(r) BY <1>7 DEF N4Established
<1>8. CASE N4Failed(r)
  <2>1. upf' \subseteq Ref /\ doubt' \subseteq Ref
    BY <1>8 DEF N4Failed
  <2>2. pool' \subseteq Addr /\ create' \in [Ref -> CreateHandler]
    BY <1>8 DEF N4Failed
  <2>3. \E pc \in CreatePc : create' = [create EXCEPT ![r].pc = pc]
    BY <1>8 DEF N4Failed
  <2>4. \A q \in Ref : create'[q].pc # "none" => create'[q].ip \in Addr
    BY <1>8, <2>3 DEF N4Failed
  <2> QED
    BY <1>8, <2>1, <2>2, <2>4 DEF N4Failed
<1>9. CASE UndoPolicy(r) BY <1>9 DEF UndoPolicy
<1>10. CASE UndoNsac(r) BY <1>10 DEF UndoNsac
<1>11. CASE StoreSeid(r) BY <1>11 DEF StoreSeid
<1>12. CASE StoreBinding(r) BY <1>12 DEF StoreBinding
<1>13. CASE Encoded(r) BY <1>13 DEF Encoded
<1>14. CASE EncodeFailed(r) BY <1>14 DEF EncodeFailed
<1> QED
  BY <1>1, <1>2, <1>3, <1>4, <1>5, <1>6, <1>7, <1>8, <1>9, <1>10, <1>11,
     <1>12, <1>13, <1>14 DEF Create

LEMMA RelUpdate ==
    ASSUME TypeOK, NEW r \in Ref, NEW o \in Origin, NEW h \in ReleaseHandler,
           rel' = [rel EXCEPT ![r][o] = h]
    PROVE  rel' \in [Ref -> [Origin -> ReleaseHandler]]
BY DEF TypeOK

LEMMA RelGotoType ==
    ASSUME TypeOK, NEW r \in Ref, NEW o \in Origin, NEW pc \in ReleasePc,
           RelGoto(r, o, pc)
    PROVE  rel' \in [Ref -> [Origin -> ReleaseHandler]]
<1> DEFINE h == [rel[r][o] EXCEPT !.pc = pc]
<1>1. h \in ReleaseHandler
  BY DEF TypeOK, ReleaseHandler
<1>2. rel' = [rel EXCEPT ![r][o] = h]
  BY DEF RelGoto
<1> QED
  BY <1>1, <1>2, RelUpdate

LEMMA ReleaseTypeOK ==
    ASSUME TypeOK, NEW r \in Ref, NEW o \in Origin, Release(r, o)
    PROVE  TypeOK'
<1> USE DEF InDoubt, smfVars, peerVars
<1>1. CASE TakeBinding(r, o)
  <2> DEFINE h == [own |-> r \in bindings,
                   pc  |-> IF r \in bindings /\ create[r].pol THEN "pol" ELSE "seid"]
  <2>1. h \in ReleaseHandler
    BY DEF ReleaseHandler, ReleasePc
  <2>2. rel' = [rel EXCEPT ![r][o] = h]
    BY <1>1 DEF TakeBinding
  <2>3. rel' \in [Ref -> [Origin -> ReleaseHandler]]
    BY <2>1, <2>2, RelUpdate
  <2> QED
    BY <1>1, <2>3 DEF TakeBinding, TypeOK
<1>2. CASE DeletePolicy(r, o)
  <2>1. "seid" \in ReleasePc
    BY DEF ReleasePc
  <2>2. rel' \in [Ref -> [Origin -> ReleaseHandler]]
    BY <1>2, <2>1, RelGotoType DEF DeletePolicy
  <2> QED
    BY <1>2, <2>2 DEF DeletePolicy, TypeOK
<1>3. CASE LookupUpfSeid(r, o)
  <2>1. (IF r \in seids THEN "del" ELSE "ip") \in ReleasePc
    BY DEF ReleasePc
  <2>2. rel' \in [Ref -> [Origin -> ReleaseHandler]]
    BY <1>3, <2>1, RelGotoType DEF LookupUpfSeid
  <2> QED
    BY <1>3, <2>2 DEF LookupUpfSeid, TypeOK
<1>4. CASE DeleteN4(r, o)
  <2>1. "ip" \in ReleasePc
    BY DEF ReleasePc
  <2>2. rel' \in [Ref -> [Origin -> ReleaseHandler]]
    BY <1>4, <2>1, RelGotoType DEF DeleteN4
  <2> QED
    BY <1>4, <2>2 DEF DeleteN4, TypeOK
<1>5. CASE FinishRelease(r, o)
  <2>1. "done" \in ReleasePc
    BY DEF ReleasePc
  <2>2. rel' \in [Ref -> [Origin -> ReleaseHandler]]
    BY <1>5, <2>1, RelGotoType DEF FinishRelease
  <2>3. pool' \subseteq Addr
    BY <1>5 DEF FinishRelease, ReleaseIp, TypeOK
  <2> QED
    BY <1>5, <2>2, <2>3 DEF FinishRelease, TypeOK
<1> QED
  BY <1>1, <1>2, <1>3, <1>4, <1>5 DEF Release

LEMMA NextTypeOK ==
    ASSUME TypeOK, [Next]_vars
    PROVE  TypeOK'
<1>1. CASE PoolExhausted
  BY <1>1, ConstantsAssumption DEF PoolExhausted, TypeOK, peerVars
<1>2. CASE Allocate
  <2>1. PICK a \in Addr \ pool :
            /\ pool' = pool \cup {a}
            /\ create' = [create EXCEPT ![nextRef].pc = "nsac", ![nextRef].ip = a]
    BY <1>2 DEF Allocate
  <2>2. create' \in [Ref -> CreateHandler]
    <3> DEFINE h == [create[nextRef] EXCEPT !.pc = "nsac", !.ip = a]
    <3>1. nextRef \in Ref
      BY <1>2 DEF Allocate
    <3>2. h \in CreateHandler
      BY <3>1 DEF TypeOK, CreateHandler, CreatePc
    <3>3. create' = [create EXCEPT ![nextRef] = h]
      BY <2>1, <3>1 DEF TypeOK
    <3> QED
      BY <3>2, <3>3 DEF TypeOK
  <2>3. \A q \in Ref : create'[q].pc # "none" => create'[q].ip \in Addr
    BY <1>2, <2>1 DEF Allocate, TypeOK, CreateHandler
  <2>4. nextRef' \in 1 .. MaxRef + 2
    BY <1>2, ConstantsAssumption DEF Allocate, Ref
  <2> QED
    BY <1>2, <2>1, <2>2, <2>3, <2>4 DEF Allocate, TypeOK, peerVars
<1>3. ASSUME NEW r \in Ref, Create(r) PROVE TypeOK'
  BY <1>3, CreateTypeOK
<1>4. ASSUME NEW r \in Ref, AmfRelease(r) PROVE TypeOK'
  <2>1. "take" \in ReleasePc /\ "amf" \in Origin /\ "pcf" \in Origin
    BY DEF ReleasePc, Origin
  <2>2. rel' \in [Ref -> [Origin -> ReleaseHandler]]
    BY <1>4, <2>1, RelGotoType DEF AmfRelease
  <2> QED
    BY <1>4, <2>2 DEF AmfRelease, TypeOK, peerVars
<1>5. ASSUME NEW r \in Ref, PolicyTerminate(r) PROVE TypeOK'
  <2>1. "take" \in ReleasePc /\ "amf" \in Origin /\ "pcf" \in Origin
    BY DEF ReleasePc, Origin
  <2>2. rel' \in [Ref -> [Origin -> ReleaseHandler]]
    BY <1>5, <2>1, RelGotoType DEF PolicyTerminate
  <2> QED
    BY <1>5, <2>2 DEF PolicyTerminate, TypeOK, peerVars
<1>6. ASSUME NEW r \in Ref, NEW o \in Origin, Release(r, o) PROVE TypeOK'
  BY <1>6, ReleaseTypeOK
<1>7. CASE UNCHANGED vars
  BY <1>7 DEF vars, smfVars, peerVars, TypeOK
<1> QED
  BY <1>1, <1>2, <1>3, <1>4, <1>5, <1>6, <1>7 DEF Next

(***************************************************************************)
(* Type correctness: addresses come from the pool and handlers are at      *)
(* points of the code.                                                     *)
(***************************************************************************)
THEOREM TypeCorrect == Spec => []TypeOK
BY InitTypeOK, NextTypeOK, PTL DEF Spec

-----------------------------------------------------------------------------
(* What a step does to addresses and to those who answer for them.         *)

\* The create handler of r goes from one point to another.
Moves(r, from, to) ==
    /\ create[r].pc \in from
    /\ create'[r].pc \in to
    /\ create'[r].ip = create[r].ip

CreatingPc == {"nsac", "pcf", "n4", "unpol", "seid", "bind"}

CreateView(r) ==
    /\ UNCHANGED <<nextRef, rel>>
    /\ \A q \in Ref \ {r} : create'[q] = create[q]
    /\ \/ Moves(r, CreatingPc, CreatingPc) /\ UNCHANGED <<pool, bindings, misencoded>>
       \/ /\ Moves(r, CreatingPc, {"unnsac", "rejected"})
          /\ pool' = pool \ {create[r].ip}
          /\ UNCHANGED <<bindings, misencoded>>
       \/ /\ Moves(r, {"bind"}, {"encode"})
          /\ bindings' = bindings \cup {r}
          /\ UNCHANGED <<pool, misencoded>>
       \/ /\ Moves(r, {"encode", "unnsac"}, {"created", "rejected"})
          /\ UNCHANGED <<pool, bindings, misencoded>>
       \/ /\ Moves(r, {"encode"}, {"unnsac", "rejected"})
          /\ pool' = pool \ {create[r].ip}
          /\ misencoded' # {}
          /\ UNCHANGED bindings

LEMMA GotoView ==
    ASSUME TypeOK, NEW r \in Ref, NEW pc, Goto(r, pc)
    PROVE  /\ create'[r].pc = pc
           /\ create'[r].ip = create[r].ip
           /\ \A q \in Ref \ {r} : create'[q] = create[q]
BY DEF TypeOK, CreateHandler, Goto

LEMMA RollBackView ==
    ASSUME TypeOK, NEW r \in Ref, RollBack(r)
    PROVE  /\ create'[r].pc \in {"unnsac", "rejected"}
           /\ create'[r].ip = create[r].ip
           /\ \A q \in Ref \ {r} : create'[q] = create[q]
           /\ pool' = pool \ {create[r].ip}
<1>1. \E pc \in {"unnsac", "rejected"} : Goto(r, pc)
  BY DEF RollBack
<1> QED
  BY <1>1, GotoView DEF RollBack, ReleaseIp

LEMMA CreateHasView ==
    ASSUME TypeOK, NEW r \in Ref, Create(r)
    PROVE  CreateView(r)
<1> USE GotoView, RollBackView DEF CreateView, Moves, CreatingPc, At
<1>1. CASE NsacAdmitted(r)
  BY <1>1 DEF NsacAdmitted, TypeOK, CreateHandler
<1>2. CASE NsacRejected(r)
  BY <1>2 DEF NsacRejected, ReleaseIp, peerVars
<1>3. CASE NsacSkipped(r)
  BY <1>3 DEF NsacSkipped
<1>4. CASE PcfNone(r)
  BY <1>4 DEF PcfNone
<1>5. CASE PcfCreated(r)
  BY <1>5 DEF PcfCreated, TypeOK, CreateHandler
<1>6. CASE PcfFailed(r)
  BY <1>6 DEF PcfFailed
<1>7. CASE N4Established(r)
  BY <1>7 DEF N4Established
<1>8. CASE N4Failed(r)
  <2>1. CASE create[r].pol BY <1>8, <2>1 DEF N4Failed
  <2>2. CASE ~create[r].pol BY <1>8, <2>2 DEF N4Failed
  <2> QED BY <2>1, <2>2
<1>9. CASE UndoPolicy(r)
  BY <1>9 DEF UndoPolicy
<1>10. CASE UndoNsac(r)
  BY <1>10 DEF UndoNsac
<1>11. CASE StoreSeid(r)
  BY <1>11 DEF StoreSeid
<1>12. CASE StoreBinding(r)
  BY <1>12 DEF StoreBinding
<1>13. CASE Encoded(r)
  BY <1>13 DEF Encoded
<1>14. CASE EncodeFailed(r)
  BY <1>14 DEF EncodeFailed
<1> QED
  BY <1>1, <1>2, <1>3, <1>4, <1>5, <1>6, <1>7, <1>8, <1>9, <1>10, <1>11,
     <1>12, <1>13, <1>14 DEF Create

ReleaseView(r, o) ==
    /\ UNCHANGED <<nextRef, create, misencoded>>
    /\ \A q \in Ref, p \in Origin : <<q, p>> # <<r, o>> => rel'[q][p] = rel[q][p]
    /\ \/ /\ rel[r][o].pc = "take"
          /\ rel'[r][o].pc \in {"pol", "seid"}
          /\ rel'[r][o].own = (r \in bindings)
          /\ bindings' = bindings \ {r}
          /\ UNCHANGED pool
       \/ /\ rel[r][o].pc = "none"
          /\ rel'[r][o].pc = "take"
          /\ rel'[r][o].own = rel[r][o].own
          /\ ~Early(r)
          /\ UNCHANGED <<pool, bindings>>
       \/ /\ rel[r][o].pc \in {"pol", "seid", "del"}
          /\ rel'[r][o].pc \in {"seid", "del", "ip"}
          /\ rel'[r][o].own = rel[r][o].own
          /\ UNCHANGED <<pool, bindings>>
       \/ /\ rel[r][o].pc = "ip"
          /\ rel'[r][o].pc = "done"
          /\ rel'[r][o].own = rel[r][o].own
          /\ pool' = IF rel[r][o].own THEN pool \ {create[r].ip} ELSE pool
          /\ UNCHANGED bindings

LEMMA RelGotoView ==
    ASSUME TypeOK, NEW r \in Ref, NEW o \in Origin, NEW pc, RelGoto(r, o, pc)
    PROVE  /\ rel'[r][o].pc = pc
           /\ rel'[r][o].own = rel[r][o].own
           /\ \A q \in Ref, p \in Origin : <<q, p>> # <<r, o>> => rel'[q][p] = rel[q][p]
BY DEF TypeOK, ReleaseHandler, RelGoto

LEMMA ReleaseHasView ==
    ASSUME TypeOK, NEW r \in Ref, NEW o \in Origin, Release(r, o)
    PROVE  ReleaseView(r, o)
<1> USE RelGotoView DEF ReleaseView, RelAt
<1>1. CASE TakeBinding(r, o)
  BY <1>1 DEF TakeBinding, TypeOK
<1>2. CASE DeletePolicy(r, o)
  BY <1>2 DEF DeletePolicy
<1>3. CASE LookupUpfSeid(r, o)
  BY <1>3 DEF LookupUpfSeid
<1>4. CASE DeleteN4(r, o)
  BY <1>4 DEF DeleteN4
<1>5. CASE FinishRelease(r, o)
  BY <1>5 DEF FinishRelease, ReleaseIp
<1> QED
  BY <1>1, <1>2, <1>3, <1>4, <1>5 DEF Release

LEMMA RequestHasView ==
    ASSUME TypeOK, OneOwner, NEW r \in Ref, AmfRelease(r) \/ PolicyTerminate(r)
    PROVE  \E o \in Origin : ReleaseView(r, o)
<1>1. "amf" \in Origin /\ "pcf" \in Origin
  BY DEF Origin
<1>2. CASE AmfRelease(r)
  BY <1>1, <1>2, RelGotoView DEF AmfRelease, ReleaseView, RelAt, At, Early, Creating
<1>3. CASE PolicyTerminate(r)
  <2>1. ~Early(r)
    BY <1>3 DEF PolicyTerminate, OneOwner
  <2> QED
    BY <1>1, <1>3, <2>1, RelGotoView DEF PolicyTerminate, ReleaseView, RelAt
<1> QED
  BY <1>2, <1>3

-----------------------------------------------------------------------------
(* One owner at a time.                                                    *)

LEMMA InitOneOwner == Init => OneOwner
<1> SUFFICES ASSUME Init PROVE OneOwner
  OBVIOUS
<1>1. \A r \in Ref, o \in Origin : rel[r][o] = [pc |-> "none", own |-> FALSE]
  BY DEF Init
<1>2. ASSUME NEW r \in Ref PROVE At(r, "none")
  <2>1. PICK k \in Key : create[r] = [pc |-> "none", ip |-> NoAddr, key |-> k,
                                      admitted |-> FALSE, pol |-> FALSE]
    BY Zenon DEF Init
  <2> QED
    BY <2>1 DEF At
<1> QED
  BY <1>1, <1>2 DEF Init, OneOwner

LEMMA CreateOneOwner ==
    ASSUME TypeOK, OneOwner, NEW r \in Ref, CreateView(r)
    PROVE  OneOwner'
BY DEF CreateView, Moves, CreatingPc, OneOwner, Early, Creating, At, RelAt

LEMMA ReleaseOneOwner ==
    ASSUME TypeOK, OneOwner, NEW r \in Ref, NEW o \in Origin, ReleaseView(r, o)
    PROVE  OneOwner'
<1>1. /\ UNCHANGED <<nextRef, create>>
      /\ \A q \in Ref : q \in bindings' => q \in bindings
      /\ \A q \in Ref, p \in Origin : <<q, p>> # <<r, o>> => rel'[q][p] = rel[q][p]
  BY DEF ReleaseView
<1>2. CASE /\ rel'[r][o].own
           /\ ~rel[r][o].own
  <2>1. r \in bindings /\ r \notin bindings'
    BY <1>2 DEF ReleaseView
  <2>2. rel'[r][o].pc \notin {"none", "take"}
    BY <1>2 DEF ReleaseView
  <2> QED
    BY <1>1, <1>2, <2>1, <2>2 DEF OneOwner, Early, Creating, At, RelAt
<1>3. CASE rel'[r][o].own => rel[r][o].own
  <2>1. rel'[r][o].pc \in {"none", "take"} => ~rel'[r][o].own
    BY <1>3 DEF ReleaseView, OneOwner, RelAt
  <2>2. \A q \in Ref, p \in Origin : rel'[q][p].own => rel[q][p].own
    BY <1>1, <1>3
  <2> QED
    BY <1>1, <2>1, <2>2 DEF OneOwner, Early, Creating, At, RelAt
<1> QED
  BY <1>2, <1>3

LEMMA NextOneOwner ==
    ASSUME TypeOK, OneOwner, [Next]_vars
    PROVE  OneOwner'
<1>1. CASE PoolExhausted
  BY <1>1, ConstantsAssumption
     DEF PoolExhausted, OneOwner, TypeOK, Early, Creating, At, RelAt, Ref
<1>2. CASE Allocate
  <2>1. nextRef \in Ref /\ nextRef' = nextRef + 1 /\ UNCHANGED <<bindings, rel>>
    BY <1>2 DEF Allocate
  <2>2. PICK a \in Addr \ pool :
            create' = [create EXCEPT ![nextRef].pc = "nsac", ![nextRef].ip = a]
    BY <1>2 DEF Allocate
  <2>3. \A q \in Ref \ {nextRef} : create'[q] = create[q]
    BY <2>2 DEF TypeOK
  <2>4. At(nextRef, "none")
    BY <2>1 DEF OneOwner, Ref
  <2> QED
    BY <2>1, <2>3, <2>4 DEF OneOwner, Early, Creating, At, RelAt, Ref
<1>3. ASSUME NEW r \in Ref, Create(r) PROVE OneOwner'
  BY <1>3, CreateHasView, CreateOneOwner
<1>4. ASSUME NEW r \in Ref, AmfRelease(r) \/ PolicyTerminate(r) PROVE OneOwner'
  BY <1>4, RequestHasView, ReleaseOneOwner
<1>5. ASSUME NEW r \in Ref, NEW o \in Origin, Release(r, o) PROVE OneOwner'
  BY <1>5, ReleaseHasView, ReleaseOneOwner
<1>6. CASE UNCHANGED vars
  BY <1>6 DEF vars, smfVars, OneOwner, Early, Creating, At, RelAt
<1> QED
  BY <1>1, <1>2, <1>3, <1>4, <1>5, <1>6 DEF Next

-----------------------------------------------------------------------------
(* Every step takes an address, gives one back, or leaves them alone.      *)

\* Context q has what it had before.
Same(q) == Holds(q)' = Holds(q) /\ create'[q].ip = create[q].ip

Quiet == UNCHANGED <<pool, misencoded>> /\ \A q \in Ref : Same(q)

Takes(r) ==
    /\ ~Holds(r)
    /\ create'[r].ip \notin pool
    /\ pool' = pool \cup {create'[r].ip}
    /\ misencoded' = misencoded
    /\ Holds(r)'
    /\ \A q \in Ref \ {r} : Same(q)

GivesBack(r) ==
    /\ Holds(r)
    /\ pool' = pool \ {create[r].ip}
    /\ misencoded' = misencoded
    /\ ~Holds(r)'
    /\ create'[r].ip = create[r].ip
    /\ \A q \in Ref \ {r} : Same(q)

Misencodes(r) ==
    /\ pool' = pool \ {create[r].ip}
    /\ misencoded' # {}
    /\ \A q \in Ref : Same(q)

Accounted ==
    Quiet \/ \E r \in Ref : Takes(r) \/ GivesBack(r) \/ Misencodes(r)

LEMMA CreateAccounted ==
    ASSUME TypeOK, OneOwner, NEW r \in Ref, CreateView(r)
    PROVE  Accounted
<1> USE DEF Holds, Creating, Releasing, CreatingPc, Moves
<1>1. \A q \in Ref \ {r} : Same(q)
  BY DEF CreateView, Same
<1>2. CASE Moves(r, CreatingPc, CreatingPc) /\ UNCHANGED <<pool, bindings, misencoded>>
  <2>1. Same(r) BY <1>2 DEF CreateView, Same
  <2> QED BY <1>1, <1>2, <2>1 DEF Accounted, Quiet
<1>3. CASE /\ Moves(r, CreatingPc, {"unnsac", "rejected"})
           /\ pool' = pool \ {create[r].ip}
           /\ UNCHANGED <<bindings, misencoded>>
  <2>1. Holds(r) /\ ~Holds(r)'
    BY <1>3 DEF CreateView, OneOwner, Early
  <2> QED BY <1>1, <1>3, <2>1 DEF Accounted, GivesBack
<1>4. CASE /\ Moves(r, {"bind"}, {"encode"})
           /\ bindings' = bindings \cup {r}
           /\ UNCHANGED <<pool, misencoded>>
  <2>1. Same(r) BY <1>4 DEF CreateView, Same
  <2> QED BY <1>1, <1>4, <2>1 DEF Accounted, Quiet
<1>5. CASE /\ Moves(r, {"encode", "unnsac"}, {"created", "rejected"})
           /\ UNCHANGED <<pool, bindings, misencoded>>
  <2>1. Same(r) BY <1>5 DEF CreateView, Same
  <2> QED BY <1>1, <1>5, <2>1 DEF Accounted, Quiet
<1>6. CASE /\ Moves(r, {"encode"}, {"unnsac", "rejected"})
           /\ pool' = pool \ {create[r].ip}
           /\ misencoded' # {}
           /\ UNCHANGED bindings
  <2>1. Same(r) BY <1>6 DEF CreateView, Same
  <2> QED BY <1>1, <1>6, <2>1 DEF Accounted, Misencodes
<1> QED
  BY <1>2, <1>3, <1>4, <1>5, <1>6 DEF CreateView

LEMMA ReleaseAccounted ==
    ASSUME TypeOK, OneOwner, NEW r \in Ref, NEW o \in Origin, ReleaseView(r, o)
    PROVE  Accounted
<1> USE DEF Holds, Creating, Releasing
<1>1. \A q \in Ref \ {r} : Same(q)
  BY DEF ReleaseView, Same
<1>2. CASE /\ rel[r][o].pc = "take"
           /\ rel'[r][o].pc \in {"pol", "seid"}
           /\ rel'[r][o].own = (r \in bindings)
           /\ bindings' = bindings \ {r}
           /\ UNCHANGED pool
  <2>1. ~rel[r][o].own
    BY <1>2 DEF OneOwner, RelAt
  <2>2. CASE r \in bindings
    <3>1. Holds(r) /\ Holds(r)'
      BY <1>2, <2>2
    <3>2. Same(r)
      BY <3>1 DEF Same, ReleaseView
    <3> QED BY <1>1, <1>2, <3>2 DEF Accounted, Quiet, ReleaseView
  <2>3. CASE r \notin bindings
    <3>1. Same(r) BY <1>2, <2>1, <2>3 DEF ReleaseView, Same
    <3> QED BY <1>1, <1>2, <3>1 DEF Accounted, Quiet, ReleaseView
  <2> QED BY <2>2, <2>3
<1>3. CASE /\ rel[r][o].pc # "done" /\ rel'[r][o].pc # "done"
           /\ rel'[r][o].own = rel[r][o].own
           /\ UNCHANGED <<pool, bindings>>
  <2>1. Same(r) BY <1>3 DEF ReleaseView, Same
  <2> QED BY <1>1, <1>3, <2>1 DEF Accounted, Quiet, ReleaseView
<1>4. CASE /\ rel[r][o].pc = "ip"
           /\ rel'[r][o].pc = "done"
           /\ rel'[r][o].own = rel[r][o].own
           /\ pool' = IF rel[r][o].own THEN pool \ {create[r].ip} ELSE pool
           /\ UNCHANGED bindings
  <2>1. CASE rel[r][o].own
    <3>1. Holds(r) /\ ~Holds(r)'
      BY <1>4, <2>1 DEF ReleaseView, OneOwner, Early
    <3> QED BY <1>1, <1>4, <2>1, <3>1 DEF Accounted, GivesBack, ReleaseView
  <2>2. CASE ~rel[r][o].own
    <3>1. Same(r) BY <1>4, <2>2 DEF ReleaseView, Same
    <3> QED BY <1>1, <1>4, <2>2, <3>1 DEF Accounted, Quiet, ReleaseView
  <2> QED BY <2>1, <2>2
<1> QED
  BY <1>2, <1>3, <1>4 DEF ReleaseView

LEMMA NextAccounted ==
    ASSUME TypeOK, OneOwner, [Next]_vars
    PROVE  Accounted
<1>1. CASE PoolExhausted
  BY <1>1 DEF PoolExhausted, Accounted, Quiet, Same, Holds, Creating, Releasing
<1>2. CASE Allocate
  <2>1. PICK r \in Ref : r = nextRef
    BY <1>2 DEF Allocate
  <2>2. UNCHANGED <<bindings, rel, misencoded>>
    BY <1>2 DEF Allocate
  <2>3. PICK a \in Addr \ pool :
            /\ pool' = pool \cup {a}
            /\ create' = [create EXCEPT ![r].pc = "nsac", ![r].ip = a]
    BY <1>2, <2>1 DEF Allocate
  <2>4. create'[r].pc = "nsac" /\ create'[r].ip = a
    BY <2>3 DEF TypeOK, CreateHandler
  <2>5. At(r, "none")
    BY <2>1 DEF OneOwner, Ref
  <2>6. ~Holds(r)
    BY <2>5 DEF OneOwner, Early, Holds, Creating, Releasing, At
  <2>7. Holds(r)'
    BY <2>4 DEF Holds, Creating
  <2>8. \A q \in Ref \ {r} : Same(q)
    BY <2>2, <2>3 DEF TypeOK, Same, Holds, Creating, Releasing
  <2> QED
    BY <2>2, <2>3, <2>4, <2>6, <2>7, <2>8 DEF Accounted, Takes
<1>3. ASSUME NEW r \in Ref, Create(r) PROVE Accounted
  BY <1>3, CreateHasView, CreateAccounted
<1>4. ASSUME NEW r \in Ref, AmfRelease(r) \/ PolicyTerminate(r) PROVE Accounted
  BY <1>4, RequestHasView, ReleaseAccounted
<1>5. ASSUME NEW r \in Ref, NEW o \in Origin, Release(r, o) PROVE Accounted
  BY <1>5, ReleaseHasView, ReleaseAccounted
<1>6. CASE UNCHANGED vars
  BY <1>6 DEF vars, smfVars, Accounted, Quiet, Same, Holds, Creating, Releasing
<1> QED
  BY <1>1, <1>2, <1>3, <1>4, <1>5, <1>6 DEF Next

-----------------------------------------------------------------------------
(* The theorems.                                                           *)

LEMMA ExclusiveStep ==
    ASSUME AddressExclusive, Accounted
    PROVE  AddressExclusive'
<1> SUFFICES ASSUME misencoded' = {}, NEW r \in Ref, Holds(r)'
             PROVE  /\ create'[r].ip \in pool'
                    /\ \A q \in Ref \ {r} : Holds(q)' => create'[q].ip # create'[r].ip
  BY DEF AddressExclusive
<1>1. CASE Quiet
  BY <1>1 DEF Quiet, Same, AddressExclusive
<1>2. ASSUME NEW s \in Ref, Takes(s)
      PROVE  /\ create'[r].ip \in pool'
             /\ \A q \in Ref \ {r} : Holds(q)' => create'[q].ip # create'[r].ip
  BY <1>2 DEF Takes, Same, AddressExclusive
<1>3. ASSUME NEW s \in Ref, GivesBack(s)
      PROVE  /\ create'[r].ip \in pool'
             /\ \A q \in Ref \ {r} : Holds(q)' => create'[q].ip # create'[r].ip
  BY <1>3 DEF GivesBack, Same, AddressExclusive
<1>4. ASSUME NEW s \in Ref, Misencodes(s) PROVE FALSE
  BY <1>4 DEF Misencodes
<1> QED
  BY <1>1, <1>2, <1>3, <1>4 DEF Accounted

LEMMA OwnedStep ==
    ASSUME AddressOwned, Accounted
    PROVE  AddressOwned'
<1> SUFFICES ASSUME NEW a \in pool'
             PROVE  \E r \in Ref : Holds(r)' /\ create'[r].ip = a
  BY DEF AddressOwned
<1>1. CASE Quiet
  BY <1>1 DEF Quiet, Same, AddressOwned
<1>2. ASSUME NEW s \in Ref, Takes(s)
      PROVE  \E r \in Ref : Holds(r)' /\ create'[r].ip = a
  BY <1>2 DEF Takes, Same, AddressOwned
<1>3. ASSUME NEW s \in Ref, GivesBack(s)
      PROVE  \E r \in Ref : Holds(r)' /\ create'[r].ip = a
  BY <1>3 DEF GivesBack, Same, AddressOwned
<1>4. ASSUME NEW s \in Ref, Misencodes(s)
      PROVE  \E r \in Ref : Holds(r)' /\ create'[r].ip = a
  BY <1>4 DEF Misencodes, Same, AddressOwned
<1> QED
  BY <1>1, <1>2, <1>3, <1>4 DEF Accounted

LEMMA InitAddresses == Init => AddressExclusive /\ AddressOwned
<1> SUFFICES ASSUME Init PROVE AddressExclusive /\ AddressOwned
  OBVIOUS
<1>1. ASSUME NEW r \in Ref PROVE ~Holds(r)
  <2>1. At(r, "none") /\ r \notin bindings
    BY InitOneOwner, ConstantsAssumption DEF OneOwner, Init, Ref
  <2>2. \A o \in Origin : ~rel[r][o].own
    BY DEF Init
  <2> QED
    BY <2>1, <2>2 DEF Holds, Creating, Releasing, At
<1> QED
  BY <1>1 DEF AddressExclusive, AddressOwned, Init

(***************************************************************************)
(* The inductive invariant.  OneOwner is what makes the others inductive:  *)
(* giving an address back ends the context's claim to it because nobody    *)
(* else answers for it.                                                    *)
(***************************************************************************)
THEOREM Invariance == Spec => []IInv
<1>1. Init => IInv
  BY InitTypeOK, InitOneOwner, InitAddresses DEF IInv
<1>2. IInv /\ [Next]_vars => IInv'
  BY NextTypeOK, NextOneOwner, NextAccounted, ExclusiveStep, OwnedStep DEF IInv
<1> QED
  BY <1>1, <1>2, PTL DEF Spec

(***************************************************************************)
(* While every N2 message could be encoded, a context's UE address stays   *)
(* allocated and is nobody else's, whatever handlers of the AMF and the    *)
(* PCF run at the same time.                                               *)
(***************************************************************************)
THEOREM AddressesExclusive == Spec => []AddressExclusive
BY Invariance, PTL DEF IInv

(***************************************************************************)
(* No failure path of create and release leaks a UE address.               *)
(***************************************************************************)
THEOREM AddressesOwned == Spec => []AddressOwned
BY Invariance, PTL DEF IInv

-----------------------------------------------------------------------------
(* The handlers implement AddressService.                                  *)

\* The address of every context, as AddressService has it.
LeaseMap == [r \in Ref |-> IF Holds(r) THEN create[r].ip ELSE NoAddr]

LEMMA HoldsAddress ==
    ASSUME TypeOK, OneOwner, NEW r \in Ref, Holds(r)
    PROVE  create[r].ip \in Addr
<1>1. ~At(r, "none")
  BY DEF OneOwner, Early, Holds, Creating, Releasing, At
<1> QED
  BY <1>1 DEF TypeOK, At

\* Only a request for a context takes a number or an address.
LEMMA OnlyRequestsTake ==
    ASSUME TypeOK, OneOwner, [Next]_vars, ~PoolExhausted, ~Allocate
    PROVE  nextRef' = nextRef /\ pool' \subseteq pool
<1>1. ASSUME NEW r \in Ref, Create(r) PROVE nextRef' = nextRef /\ pool' \subseteq pool
  BY <1>1, CreateHasView DEF CreateView
<1>2. ASSUME NEW r \in Ref, AmfRelease(r) \/ PolicyTerminate(r)
      PROVE  nextRef' = nextRef /\ pool' \subseteq pool
  BY <1>2, RequestHasView DEF ReleaseView
<1>3. ASSUME NEW r \in Ref, NEW o \in Origin, Release(r, o)
      PROVE  nextRef' = nextRef /\ pool' \subseteq pool
  BY <1>3, ReleaseHasView DEF ReleaseView
<1>4. CASE UNCHANGED vars
  BY <1>4 DEF vars, smfVars
<1> QED
  BY <1>1, <1>2, <1>3, <1>4 DEF Next

LEMMA LeasedIsPool ==
    ASSUME IInv, misencoded = {}
    PROVE  {LeaseMap[r] : r \in Ref} \ {NoAddr} = pool
<1>1. ASSUME NEW a \in {LeaseMap[r] : r \in Ref} \ {NoAddr} PROVE a \in pool
  <2>1. PICK r \in Ref : Holds(r) /\ create[r].ip = a
    BY DEF LeaseMap
  <2> QED
    BY <2>1 DEF IInv, AddressExclusive
<1>2. ASSUME NEW a \in pool PROVE a \in {LeaseMap[r] : r \in Ref} \ {NoAddr}
  <2>1. PICK r \in Ref : Holds(r) /\ create[r].ip = a
    BY DEF IInv, AddressOwned
  <2>2. LeaseMap[r] = a
    BY <2>1 DEF LeaseMap
  <2>3. a # NoAddr
    BY <2>1, HoldsAddress DEF IInv, Addr, NoAddr
  <2> QED
    BY <2>2, <2>3
<1> QED
  BY <1>1, <1>2

LEMMA LeaseStep ==
    ASSUME IInv, [Next]_vars
    PROVE  [AS!Next]_(AS!vars)
<1>1. Accounted
  BY NextAccounted DEF IInv
<1>2. CASE misencoded' # {}
  BY <1>2 DEF AS!Next, AS!Fault
<1>3. CASE misencoded' = {}
  <2>1. misencoded = {} /\ \A r \in Ref : ~Misencodes(r)
    BY <1>1, <1>3 DEF Accounted, Quiet, Takes, GivesBack, Misencodes
  <2>2. (misencoded = {})' = (misencoded = {})
    BY <1>3, <2>1
  <2>3. CASE PoolExhausted
    <3>1. \A q \in Ref : Same(q)
      BY <2>3 DEF PoolExhausted, Same, Holds, Creating, Releasing
    <3>2. LeaseMap' = LeaseMap
      BY <3>1 DEF Same, LeaseMap
    <3>3. {LeaseMap[r] : r \in Ref} \ {NoAddr} = Addr
      BY <2>1, <2>3, LeasedIsPool DEF PoolExhausted
    <3>4. nextRef' = nextRef + 1
      BY <2>3 DEF PoolExhausted
    <3> QED
      BY <2>2, <3>2, <3>3, <3>4 DEF LeaseMap, AS!Next, AS!Refuse, AS!Leased
  <2>4. CASE Allocate
    <3>1. nextRef \in Ref /\ nextRef' = nextRef + 1
      BY <2>4 DEF Allocate
    <3>2. PICK a \in Addr \ pool :
             create' = [create EXCEPT ![nextRef].pc = "nsac", ![nextRef].ip = a]
      BY <2>4 DEF Allocate
    <3>3. create'[nextRef].pc = "nsac" /\ create'[nextRef].ip = a
      BY <3>1, <3>2 DEF IInv, TypeOK, CreateHandler
    <3>4. LeaseMap'[nextRef] = a
      BY <3>1, <3>3 DEF LeaseMap, Holds, Creating
    <3>5. \A q \in Ref \ {nextRef} : Same(q)
      BY <2>4, <3>2 DEF Allocate, IInv, TypeOK, Same, Holds, Creating, Releasing
    <3>6. \A q \in Ref \ {nextRef} : LeaseMap'[q] = LeaseMap[q]
      BY <3>5 DEF Same, LeaseMap
    <3>7. LeaseMap' = [LeaseMap EXCEPT ![nextRef] = a]
      BY <3>1, <3>4, <3>6 DEF LeaseMap
    <3>8. a \notin {LeaseMap[r] : r \in Ref} \ {NoAddr}
      BY <2>1, <3>2, LeasedIsPool
    <3> QED
      BY <2>2, <3>1, <3>2, <3>7, <3>8 DEF LeaseMap, AS!Next, AS!Lease, AS!Leased
  <2>5. CASE ~PoolExhausted /\ ~Allocate
    <3>1. nextRef' = nextRef /\ pool' \subseteq pool
      BY <2>5, OnlyRequestsTake DEF IInv
    <3>2. \A r \in Ref : ~Takes(r)
      BY <3>1 DEF Takes
    <3>3. CASE Quiet
      <4>1. LeaseMap' = LeaseMap
        BY <3>3 DEF Quiet, Same, LeaseMap
      <4> QED
        BY <2>2, <3>1, <4>1 DEF LeaseMap, AS!vars
    <3>4. ASSUME NEW r \in Ref, GivesBack(r) PROVE AS!Next
      <4>1. LeaseMap' = [LeaseMap EXCEPT ![r] = NoAddr]
        BY <3>4 DEF GivesBack, Same, LeaseMap
      <4>2. LeaseMap[r] # NoAddr
        BY <3>4, HoldsAddress DEF GivesBack, IInv, LeaseMap, Addr, NoAddr
      <4> QED
        BY <2>2, <3>1, <4>1, <4>2 DEF LeaseMap, AS!Next, AS!GiveBack
    <3> QED
      BY <1>1, <2>1, <3>2, <3>3, <3>4 DEF Accounted
  <2> QED
    BY <2>3, <2>4, <2>5
<1> QED
  BY <1>2, <1>3

(***************************************************************************)
(* The create and release handlers implement AddressService: each step is  *)
(* a lease of a free address, a refusal with none free, one return of one  *)
(* context's address, the fault that ends the promise, or nothing.         *)
(***************************************************************************)
THEOREM Refinement == Spec => LeasesAddresses
<1>1. Init => AS!Init
  <2> SUFFICES ASSUME Init PROVE AS!Init
    OBVIOUS
  <2>1. ASSUME NEW r \in Ref PROVE ~Holds(r)
    <3>1. At(r, "none") /\ r \notin bindings
      BY InitOneOwner, ConstantsAssumption DEF OneOwner, Init, Ref
    <3>2. \A o \in Origin : ~rel[r][o].own
      BY DEF Init
    <3> QED
      BY <3>1, <3>2 DEF Holds, Creating, Releasing, At
  <2> QED
    BY <2>1 DEF Init, AS!Init
<1>2. IInv /\ [Next]_vars => [AS!Next]_(AS!vars)
  BY LeaseStep
<1> QED
  BY <1>1, <1>2, Invariance, PTL DEF Spec, LeasesAddresses, AS!Spec

-----------------------------------------------------------------------------
(* All or nothing.                                                         *)

\* Context q is one that the NSACF may still count: its admission is not undone,
\* or nobody knows.
Backs(q) ==
    /\ ~At(q, "none")
    /\ q \in doubt \/ q \in misencoded \/ (create[q].admitted /\ ~At(q, "rejected"))

\* What the SMF, the PCF and the UPF have of context r fits the point at which
\* its handlers are.
Tidy(r) ==
    /\ create[r].pc \in {"none", "nsac", "pcf", "n4", "unpol", "seid"} => r \notin seids
    /\ create[r].pc \in {"none", "nsac", "pcf", "n4", "unpol"} => r \notin upf
    /\ create[r].pc \in {"none", "nsac", "pcf"} => r \notin policies
    /\ create[r].pc \in {"unnsac", "rejected"} =>
           r \notin bindings /\ r \notin seids /\ r \notin policies /\ r \notin upf
    /\ create[r].pc \notin {"encode", "created"} => \A o \in Origin : RelAt(r, o, "none")
    /\ r \in policies => create[r].pol
    /\ r \in policies /\ create[r].pc \in {"encode", "created"} =>
           r \in bindings \/ \E o \in Origin : rel[r][o].own /\ RelAt(r, o, "pol")
    /\ r \in upf /\ create[r].pc \in {"bind", "encode", "created"} => r \in seids
    /\ \A o \in Origin : rel[r][o].pc \in {"ip", "done"} => r \notin seids /\ r \notin upf

CountedBacked == \A k \in counted : \E q \in Ref : create[q].key = k /\ Backs(q)

AllTidy == \A r \in Ref : r \notin doubt /\ r \notin misencoded => Tidy(r)

\* Nothing that Tidy(q) speaks of changes.
Unmoved(q) ==
    /\ create'[q] = create[q]
    /\ rel'[q] = rel[q]
    /\ q \in bindings' <=> q \in bindings
    /\ q \in seids' <=> q \in seids
    /\ q \in policies' <=> q \in policies
    /\ q \in upf' <=> q \in upf
    /\ q \in doubt => q \in doubt'
    /\ q \in misencoded => q \in misencoded'

LEMMA UnmovedTidy ==
    ASSUME NEW q \in Ref, Tidy(q), Unmoved(q)
    PROVE  Tidy(q)'
BY DEF Tidy, Unmoved, RelAt

LEMMA UnmovedBacks ==
    ASSUME NEW q \in Ref, Backs(q), Unmoved(q)
    PROVE  Backs(q)' /\ create'[q].key = create[q].key
BY DEF Backs, Unmoved, At

\* A step of context r alone: doubts are for good, the rest is tidy.
LEMMA TidyStep ==
    ASSUME AllTidy, NEW r \in Ref,
           \A q \in Ref \ {r} : Unmoved(q),
           r \in doubt => r \in doubt',
           r \in misencoded => r \in misencoded',
           Tidy(r) /\ r \notin doubt' /\ r \notin misencoded' => Tidy(r)'
    PROVE  AllTidy'
<1> SUFFICES ASSUME NEW q \in Ref, q \notin doubt', q \notin misencoded'
             PROVE  Tidy(q)'
  BY DEF AllTidy
<1>1. CASE q = r
  BY <1>1 DEF AllTidy
<1>2. CASE q # r
  <2>1. Unmoved(q)
    BY <1>2
  <2>2. Tidy(q)
    BY <2>1 DEF AllTidy, Unmoved
  <2> QED
    BY <2>1, <2>2, UnmovedTidy
<1> QED
  BY <1>1, <1>2

LEMMA BackedStep ==
    ASSUME CountedBacked, NEW r \in Ref,
           \A q \in Ref \ {r} : Unmoved(q),
           create'[r].key = create[r].key,
           \A k \in counted' : k \in counted \/ (k = create[r].key /\ Backs(r)'),
           Backs(r) => Backs(r)' \/ create[r].key \notin counted'
    PROVE  CountedBacked'
<1> SUFFICES ASSUME NEW k \in counted'
             PROVE  \E q \in Ref : create'[q].key = k /\ Backs(q)'
  BY DEF CountedBacked
<1>1. CASE k = create[r].key /\ Backs(r)'
  BY <1>1
<1>2. CASE k \in counted
  <2>1. PICK q \in Ref : create[q].key = k /\ Backs(q)
    BY <1>2 DEF CountedBacked
  <2>2. CASE q = r
    BY <2>1, <2>2
  <2>3. CASE q # r
    BY <2>1, <2>3, UnmovedBacks
  <2> QED
    BY <2>2, <2>3
<1> QED
  BY <1>1, <1>2

\* What Goto and RollBack leave of the handler.
LEMMA GotoKeeps ==
    ASSUME TypeOK, NEW r \in Ref, NEW pc, Goto(r, pc)
    PROVE  /\ create'[r].pc = pc
           /\ create'[r].key = create[r].key
           /\ create'[r].pol = create[r].pol
           /\ create'[r].admitted = create[r].admitted
           /\ \A q \in Ref \ {r} : create'[q] = create[q]
BY DEF TypeOK, CreateHandler, Goto

LEMMA RollBackKeeps ==
    ASSUME TypeOK, NEW r \in Ref, RollBack(r)
    PROVE  /\ create'[r].pc = IF create[r].admitted THEN "unnsac" ELSE "rejected"
           /\ create'[r].key = create[r].key
           /\ create'[r].pol = create[r].pol
           /\ create'[r].admitted = create[r].admitted
           /\ \A q \in Ref \ {r} : create'[q] = create[q]
<1>1. Goto(r, IF create[r].admitted THEN "unnsac" ELSE "rejected")
  BY DEF RollBack
<1> QED
  BY <1>1, GotoKeeps

\* A step of r leaves the other contexts alone, and doubts are for good.
OnlyMoves(r) ==
    /\ \A q \in Ref \ {r} : Unmoved(q)
    /\ r \in doubt => r \in doubt'
    /\ r \in misencoded => r \in misencoded'

KeepsTidy(r) == Tidy(r) /\ r \notin doubt' /\ r \notin misencoded' => Tidy(r)'

KeepsBacked(r) ==
    /\ create'[r].key = create[r].key
    /\ \A k \in counted' : k \in counted \/ (k = create[r].key /\ Backs(r)')
    /\ Backs(r) => Backs(r)' \/ create[r].key \notin counted'


LEMMA CreateOnlyMoves ==
    ASSUME TypeOK, OneOwner, NEW r \in Ref, Create(r)
    PROVE  OnlyMoves(r)
<1> USE DEF OnlyMoves, Unmoved, At, InDoubt, peerVars
<1>1. CASE NsacAdmitted(r)
  BY <1>1 DEF NsacAdmitted, TypeOK, CreateHandler
<1>2. CASE NsacRejected(r)
  BY <1>2, GotoKeeps DEF NsacRejected, Admits
<1>3. CASE NsacSkipped(r)
  BY <1>3, GotoKeeps DEF NsacSkipped
<1>4. CASE PcfNone(r)
  BY <1>4, GotoKeeps DEF PcfNone
<1>5. CASE PcfCreated(r)
  BY <1>5 DEF PcfCreated, TypeOK, CreateHandler
<1>6. CASE PcfFailed(r)
  BY <1>6, RollBackKeeps DEF PcfFailed
<1>7. CASE N4Established(r)
  BY <1>7, GotoKeeps DEF N4Established
<1>8. CASE N4Failed(r)
  <2>1. CASE create[r].pol
    BY <1>8, <2>1, GotoKeeps DEF N4Failed
  <2>2. CASE ~create[r].pol
    BY <1>8, <2>2, RollBackKeeps DEF N4Failed
  <2> QED BY <2>1, <2>2
<1>9. CASE UndoPolicy(r)
  BY <1>9, RollBackKeeps DEF UndoPolicy
<1>10. CASE UndoNsac(r)
  BY <1>10, GotoKeeps DEF UndoNsac
<1>11. CASE StoreSeid(r)
  BY <1>11, GotoKeeps DEF StoreSeid
<1>12. CASE StoreBinding(r)
  BY <1>12, GotoKeeps DEF StoreBinding
<1>13. CASE Encoded(r)
  BY <1>13, GotoKeeps DEF Encoded
<1>14. CASE EncodeFailed(r)
  BY <1>14, RollBackKeeps DEF EncodeFailed
<1> QED
  BY <1>1, <1>2, <1>3, <1>4, <1>5, <1>6, <1>7, <1>8, <1>9, <1>10, <1>11,
     <1>12, <1>13, <1>14 DEF Create

LEMMA CreateKeepsTidy ==
    ASSUME TypeOK, OneOwner, NEW r \in Ref, Create(r)
    PROVE  KeepsTidy(r)
<1> USE DEF KeepsTidy, Tidy, At, RelAt, InDoubt, peerVars, OneOwner, Early, Creating
<1>1. CASE NsacAdmitted(r)
  BY <1>1 DEF NsacAdmitted, TypeOK, CreateHandler
<1>2. CASE NsacRejected(r)
  BY <1>2, GotoKeeps DEF NsacRejected, Admits
<1>3. CASE NsacSkipped(r)
  BY <1>3, GotoKeeps DEF NsacSkipped
<1>4. CASE PcfNone(r)
  BY <1>4, GotoKeeps DEF PcfNone
<1>5. CASE PcfCreated(r)
  BY <1>5 DEF PcfCreated, TypeOK, CreateHandler
<1>6. CASE PcfFailed(r)
  BY <1>6, RollBackKeeps DEF PcfFailed
<1>7. CASE N4Established(r)
  BY <1>7, GotoKeeps DEF N4Established
<1>8. CASE N4Failed(r)
  <2>1. CASE create[r].pol
    BY <1>8, <2>1, GotoKeeps DEF N4Failed
  <2>2. CASE ~create[r].pol
    BY <1>8, <2>2, RollBackKeeps DEF N4Failed
  <2> QED BY <2>1, <2>2
<1>9. CASE UndoPolicy(r)
  BY <1>9, RollBackKeeps DEF UndoPolicy
<1>10. CASE UndoNsac(r)
  BY <1>10, GotoKeeps DEF UndoNsac
<1>11. CASE StoreSeid(r)
  BY <1>11, GotoKeeps DEF StoreSeid
<1>12. CASE StoreBinding(r)
  BY <1>12, GotoKeeps DEF StoreBinding
<1>13. CASE Encoded(r)
  BY <1>13, GotoKeeps DEF Encoded
<1>14. CASE EncodeFailed(r)
  BY <1>14, RollBackKeeps DEF EncodeFailed
<1> QED
  BY <1>1, <1>2, <1>3, <1>4, <1>5, <1>6, <1>7, <1>8, <1>9, <1>10, <1>11,
     <1>12, <1>13, <1>14 DEF Create

LEMMA CreateKeepsBacked ==
    ASSUME TypeOK, OneOwner, NEW r \in Ref, Create(r)
    PROVE  KeepsBacked(r)
<1> USE DEF KeepsBacked, Backs, At, InDoubt, peerVars
<1>0. create[r].admitted \in BOOLEAN
  BY DEF TypeOK, CreateHandler
<1>1. CASE NsacAdmitted(r)
  BY <1>1 DEF NsacAdmitted, TypeOK, CreateHandler
<1>2. CASE NsacRejected(r)
  BY <1>0, <1>2, GotoKeeps DEF NsacRejected, Admits
<1>3. CASE NsacSkipped(r)
  BY <1>0, <1>3, GotoKeeps DEF NsacSkipped
<1>4. CASE PcfNone(r)
  BY <1>0, <1>4, GotoKeeps DEF PcfNone
<1>5. CASE PcfCreated(r)
  BY <1>5 DEF PcfCreated, TypeOK, CreateHandler
<1>6. CASE PcfFailed(r)
  BY <1>0, <1>6, RollBackKeeps DEF PcfFailed
<1>7. CASE N4Established(r)
  BY <1>0, <1>7, GotoKeeps DEF N4Established
<1>8. CASE N4Failed(r)
  <2>1. CASE create[r].pol
    BY <1>0, <1>8, <2>1, GotoKeeps DEF N4Failed
  <2>2. CASE ~create[r].pol
    BY <1>0, <1>8, <2>2, RollBackKeeps DEF N4Failed
  <2> QED BY <2>1, <2>2
<1>9. CASE UndoPolicy(r)
  BY <1>0, <1>9, RollBackKeeps DEF UndoPolicy
<1>10. CASE UndoNsac(r)
  BY <1>0, <1>10, GotoKeeps DEF UndoNsac
<1>11. CASE StoreSeid(r)
  BY <1>0, <1>11, GotoKeeps DEF StoreSeid
<1>12. CASE StoreBinding(r)
  BY <1>0, <1>12, GotoKeeps DEF StoreBinding
<1>13. CASE Encoded(r)
  BY <1>0, <1>13, GotoKeeps DEF Encoded
<1>14. CASE EncodeFailed(r)
  BY <1>0, <1>14, RollBackKeeps DEF EncodeFailed
<1> QED
  BY <1>1, <1>2, <1>3, <1>4, <1>5, <1>6, <1>7, <1>8, <1>9, <1>10, <1>11,
     <1>12, <1>13, <1>14 DEF Create

\* Releases of r leave the admission alone.
ReleaseTidies(r) ==
    /\ \A q \in Ref \ {r} : Unmoved(q)
    /\ r \in doubt => r \in doubt'
    /\ r \in misencoded => r \in misencoded'
    /\ Tidy(r) /\ r \notin doubt' /\ r \notin misencoded' => Tidy(r)'
    /\ create' = create
    /\ counted' = counted

LEMMA RelGotoKeeps ==
    ASSUME TypeOK, NEW r \in Ref, NEW o \in Origin, NEW pc, RelGoto(r, o, pc)
    PROVE  /\ rel'[r][o].pc = pc
           /\ rel'[r][o].own = rel[r][o].own
           /\ \A p \in Origin \ {o} : rel'[r][p] = rel[r][p]
           /\ \A q \in Ref \ {r} : rel'[q] = rel[q]
BY DEF TypeOK, ReleaseHandler, RelGoto

LEMMA ReleaseIsTidy ==
    ASSUME TypeOK, OneOwner, NEW r \in Ref, NEW o \in Origin, Release(r, o)
    PROVE  ReleaseTidies(r)
<1> USE DEF ReleaseTidies, Unmoved, Tidy, RelAt, InDoubt, peerVars
<1>1. CASE TakeBinding(r, o)
  <2>1. /\ rel'[r][o].own = (r \in bindings)
        /\ rel'[r][o].pc = IF r \in bindings /\ create[r].pol THEN "pol" ELSE "seid"
        /\ \A p \in Origin \ {o} : rel'[r][p] = rel[r][p]
        /\ \A q \in Ref \ {r} : rel'[q] = rel[q]
    BY <1>1 DEF TakeBinding, TypeOK
  <2>2. CASE r \in bindings /\ create[r].pol
    <3>1. rel'[r][o].own /\ rel'[r][o].pc = "pol"
      BY <2>1, <2>2
    <3> QED
      BY <1>1, <2>1, <2>2, <3>1 DEF TakeBinding
  <2>3. CASE ~(r \in bindings /\ create[r].pol)
    <3>1. rel'[r][o].pc = "seid"
      BY <2>1, <2>3
    <3> QED
      BY <1>1, <2>1, <2>3, <3>1 DEF TakeBinding
  <2> QED
    BY <2>2, <2>3
<1>2. CASE DeletePolicy(r, o)
  BY <1>2, RelGotoKeeps DEF DeletePolicy
<1>3. CASE LookupUpfSeid(r, o)
  <2>1. CASE r \in seids
    BY <1>3, <2>1, RelGotoKeeps DEF LookupUpfSeid
  <2>2. CASE r \notin seids
    BY <1>3, <2>2, RelGotoKeeps DEF LookupUpfSeid
  <2> QED
    BY <2>1, <2>2
<1>4. CASE DeleteN4(r, o)
  BY <1>4, RelGotoKeeps DEF DeleteN4
<1>5. CASE FinishRelease(r, o)
  BY <1>5, RelGotoKeeps DEF FinishRelease
<1> QED
  BY <1>1, <1>2, <1>3, <1>4, <1>5 DEF Release

LEMMA RequestIsTidy ==
    ASSUME TypeOK, OneOwner, NEW r \in Ref, AmfRelease(r) \/ PolicyTerminate(r)
    PROVE  ReleaseTidies(r)
<1> USE DEF ReleaseTidies, Unmoved, Tidy, RelAt, At, peerVars
<1>1. "amf" \in Origin /\ "pcf" \in Origin
  BY DEF Origin
<1>2. CASE AmfRelease(r)
  BY <1>1, <1>2, RelGotoKeeps DEF AmfRelease
<1>3. CASE PolicyTerminate(r)
  <2>1. r \in bindings => create[r].pc \notin CreatingPc \cup {"none"}
    BY DEF OneOwner, Early, Creating, CreatingPc
  <2>2. Tidy(r) /\ r \in bindings => create[r].pc \in {"encode", "created"}
    BY <2>1 DEF TypeOK, CreateHandler, CreatePc, CreatingPc
  <2>3. RelGoto(r, "pcf", "take") /\ r \in bindings
    BY <1>3 DEF PolicyTerminate
  <2>4. /\ rel'[r]["pcf"].pc = "take"
        /\ rel'[r]["pcf"].own = rel[r]["pcf"].own
        /\ \A p \in Origin \ {"pcf"} : rel'[r][p] = rel[r][p]
        /\ \A q \in Ref \ {r} : rel'[q] = rel[q]
    BY <1>1, <2>3, RelGotoKeeps
  <2> QED
    BY <1>3, <2>2, <2>3, <2>4 DEF PolicyTerminate
<1> QED
  BY <1>2, <1>3

LEMMA ReleaseStep ==
    ASSUME AllTidy, CountedBacked, NEW r \in Ref, ReleaseTidies(r)
    PROVE  AllTidy' /\ CountedBacked'
<1>1. AllTidy'
  BY TidyStep DEF ReleaseTidies
<1>2. Backs(r) => Backs(r)'
  BY DEF Backs, At, ReleaseTidies
<1>3. CountedBacked'
  BY <1>2, BackedStep DEF ReleaseTidies
<1> QED
  BY <1>1, <1>3

LEMMA NextTidy ==
    ASSUME TypeOK, OneOwner, AllTidy, CountedBacked, [Next]_vars
    PROVE  AllTidy' /\ CountedBacked'
<1>1. CASE PoolExhausted \/ UNCHANGED vars
  BY <1>1 DEF PoolExhausted, vars, smfVars, peerVars, AllTidy, Tidy, RelAt,
              CountedBacked, Backs, At
<1>2. CASE Allocate
  <2>0. PICK r \in Ref : r = nextRef
    BY <1>2 DEF Allocate
  <2>1. At(r, "none")
    BY <2>0 DEF OneOwner, Ref
  <2>2. PICK a \in Addr \ pool :
           create' = [create EXCEPT ![r].pc = "nsac", ![r].ip = a]
    BY <1>2, <2>0 DEF Allocate
  <2>3. /\ create'[r].pc = "nsac"
        /\ create'[r].key = create[r].key
        /\ create'[r].pol = create[r].pol
        /\ create'[r].admitted = create[r].admitted
        /\ \A q \in Ref \ {r} : create'[q] = create[q]
    BY <2>1, <2>2 DEF TypeOK, CreateHandler
  <2>4. \A q \in Ref \ {r} : Unmoved(q)
    BY <1>2, <2>3 DEF Allocate, peerVars, Unmoved
  <2>5. Tidy(r) => Tidy(r)'
    BY <1>2, <2>1, <2>3 DEF Allocate, peerVars, Tidy, At, RelAt
  <2>6. UNCHANGED <<doubt, misencoded, counted>>
    BY <1>2 DEF Allocate, peerVars
  <2>7. AllTidy'
    BY <2>1, <2>4, <2>5, <2>6, TidyStep
  <2>8. ~Backs(r)
    BY <2>1 DEF Backs
  <2> QED
    BY <2>1, <2>3, <2>4, <2>6, <2>7, <2>8, BackedStep
<1>3. ASSUME NEW r \in Ref, Create(r) PROVE AllTidy' /\ CountedBacked'
  <2>1. OnlyMoves(r) /\ KeepsTidy(r) /\ KeepsBacked(r)
    BY <1>3, CreateOnlyMoves, CreateKeepsTidy, CreateKeepsBacked
  <2>2. AllTidy'
    BY <2>1, TidyStep DEF OnlyMoves, KeepsTidy
  <2> QED
    BY <2>1, <2>2, BackedStep DEF OnlyMoves, KeepsBacked
<1>4. ASSUME NEW r \in Ref, AmfRelease(r) \/ PolicyTerminate(r)
      PROVE  AllTidy' /\ CountedBacked'
  BY <1>4, RequestIsTidy, ReleaseStep
<1>5. ASSUME NEW r \in Ref, NEW o \in Origin, Release(r, o)
      PROVE  AllTidy' /\ CountedBacked'
  BY <1>5, ReleaseIsTidy, ReleaseStep
<1> QED
  BY <1>1, <1>2, <1>3, <1>4, <1>5 DEF Next

LEMMA InitTidy == Init => AllTidy /\ CountedBacked
<1> SUFFICES ASSUME Init PROVE AllTidy /\ CountedBacked
  OBVIOUS
<1>1. \A r \in Ref : create[r].pc = "none"
  BY InitOneOwner, ConstantsAssumption DEF Init, OneOwner, At, Ref
<1>2. \A r \in Ref, o \in Origin : rel[r][o].pc = "none"
  BY DEF Init
<1> QED
  BY <1>1, <1>2 DEF Init, AllTidy, Tidy, RelAt, CountedBacked

LEMMA TidySuffices ==
    ASSUME OneOwner, AllTidy, CountedBacked
    PROVE  AllOrNothing
<1> SUFFICES ASSUME NEW r \in Ref, r \notin doubt, r \notin misencoded, Ended(r), ~Busy(r)
             PROVE  /\ r \notin bindings \cup seids \cup policies \cup upf
                    /\ At(r, "rejected") /\ create[r].key \in counted =>
                           \E q \in Ref \ {r} : /\ create[q].key = create[r].key
                                                /\ ~At(q, "none")
  BY DEF AllOrNothing
<1>1. Tidy(r)
  BY DEF AllTidy
<1>2. r \notin bindings \cup seids \cup policies \cup upf
  <2>1. CASE At(r, "rejected")
    BY <1>1, <2>1 DEF Tidy, At
  <2>2. CASE ~At(r, "rejected")
    <3>1. PICK o \in Origin : rel[r][o].own /\ RelAt(r, o, "done")
      BY <2>2 DEF Ended
    <3>2. create[r].pc \in {"encode", "created"}
      BY <1>1, <3>1 DEF Tidy, RelAt
    <3>3. r \notin bindings /\ r \notin seids /\ r \notin upf
      BY <1>1, <3>1 DEF Tidy, RelAt, OneOwner
    <3>4. r \notin policies
      BY <1>1, <3>1, <3>2, <3>3 DEF Tidy, RelAt, OneOwner
    <3> QED
      BY <3>3, <3>4
  <2> QED
    BY <2>1, <2>2
<1>3. ASSUME At(r, "rejected"), create[r].key \in counted
      PROVE  \E q \in Ref \ {r} : create[q].key = create[r].key /\ ~At(q, "none")
  <2>1. PICK q \in Ref : create[q].key = create[r].key /\ Backs(q)
    BY <1>3 DEF CountedBacked
  <2>2. ~Backs(r)
    BY <1>3 DEF Backs
  <2> QED
    BY <2>1, <2>2 DEF Backs
<1> QED
  BY <1>2, <1>3

(***************************************************************************)
(* A context whose creation was refused or that was released leaves        *)
(* nothing behind in the SMF, the PCF and the UPF, and a refused one no    *)
(* admission at the NSACF, unless the outcome of one of its requests is    *)
(* unknown or its N2 message could not be encoded.  The invariant behind   *)
(* it, AllTidy, says at each point of the handlers what exists where.      *)
(***************************************************************************)
THEOREM NothingLeftBehind == Spec => []AllOrNothing
<1>1. Init => AllTidy /\ CountedBacked
  BY InitTidy
<1>2. IInv /\ AllTidy /\ CountedBacked /\ [Next]_vars => AllTidy' /\ CountedBacked'
  BY NextTidy DEF IInv
<1>3. IInv /\ AllTidy /\ CountedBacked => AllOrNothing
  BY TidySuffices DEF IInv
<1> QED
  BY <1>1, <1>2, <1>3, Invariance, PTL DEF Spec

=============================================================================
