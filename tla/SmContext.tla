----------------------------- MODULE SmContext -----------------------------
(***************************************************************************)
(* Creation and release of SM contexts in the SMF (smfd main.rs:           *)
(* handle_sm_context_create, handle_sm_context_release,                    *)
(* handle_sm_policy_terminate): the UE address, the slice admission of the *)
(* NSACF, the policy association of the PCF and the N4 session are taken   *)
(* one by one, each behind an await, and given back when a later step      *)
(* fails.  Handlers of different requests, also for one context, run       *)
(* concurrently; a step here is what a handler does between two awaits,    *)
(* or under one lock where another handler could see the difference.       *)
(*                                                                         *)
(* NSACF, PCF and UPF answer, refuse, or fail to answer after they did or  *)
(* did not do what was asked.  The N4 exchange is one step here; N4        *)
(* models it in full.                                                      *)
(***************************************************************************)
EXTENDS Naturals, FiniteSets

CONSTANTS
    MaxRef,    \* requests for a context, numbered by next_sess_index; one more
               \* may come when the pool is exhausted
    PoolSize,  \* host addresses of the pool
    Key,       \* SUPI and PDU session identity, under which the NSACF counts
    MaxPdu     \* max_pdu_sessions of the slice

ASSUME ConstantsAssumption ==
    /\ MaxRef \in Nat
    /\ PoolSize \in Nat
    /\ MaxPdu \in Nat
    /\ IsFiniteSet(Key)

Ref == 1 .. MaxRef
Addr == 1 .. PoolSize
NoAddr == 0

\* Who asks for a release: the AMF, and the PCF that terminates the policy.
Origin == {"amf", "pcf"}

VARIABLES
    \* SMF
    nextRef,   \* sess_index
    pool,      \* Ipv4Pool: the addresses whose bit is set
    bindings,  \* policy_bindings: the contexts that have one
    seids,     \* pfcp_sessions: the contexts with a stored SEID
    create,    \* [Ref -> ...]: the create handler of each context, its locals
    rel,       \* [Ref -> [Origin -> ...]]: the release handlers
    \* The other network functions
    counted,   \* NSACF: pdu_sessions of the slice
    policies,  \* PCF: contexts with a policy association
    upf,       \* UPF: contexts with a session
    \* History
    doubt,     \* contexts one of whose requests failed without a clear answer
    misencoded \* contexts whose N2 message could not be encoded

smfVars == <<nextRef, pool, bindings, seids, create, rel>>
peerVars == <<counted, policies, upf>>
vars == <<smfVars, peerVars, doubt, misencoded>>

CreatePc == {"none", "nsac", "pcf", "n4", "unpol", "seid", "bind", "encode",
             "unnsac", "created", "rejected"}
ReleasePc == {"none", "take", "pol", "seid", "del", "ip", "done"}

CreateHandler == [pc : CreatePc, ip : Addr \cup {NoAddr}, key : Key,
                  admitted : BOOLEAN, pol : BOOLEAN]
ReleaseHandler == [pc : ReleasePc, own : BOOLEAN]

(***************************************************************************)
(* Types: addresses are of the pool, and only started contexts have state. *)
(***************************************************************************)
TypeOK ==
    /\ nextRef \in 1 .. MaxRef + 2
    /\ pool \subseteq Addr
    /\ bindings \subseteq Ref
    /\ seids \subseteq Ref
    /\ create \in [Ref -> CreateHandler]
    /\ rel \in [Ref -> [Origin -> ReleaseHandler]]
    /\ counted \subseteq Key
    /\ policies \subseteq Ref
    /\ upf \subseteq Ref
    /\ doubt \subseteq Ref
    /\ misencoded \subseteq Ref
    /\ \A r \in Ref : create[r].pc # "none" => create[r].ip \in Addr

Init ==
    /\ nextRef = 1
    /\ pool = {}
    /\ bindings = {}
    /\ seids = {}
    /\ create \in [Ref -> {[pc |-> "none", ip |-> NoAddr, key |-> k,
                            admitted |-> FALSE, pol |-> FALSE] : k \in Key}]
    /\ rel = [r \in Ref |-> [o \in Origin |-> [pc |-> "none", own |-> FALSE]]]
    /\ counted = {}
    /\ policies = {}
    /\ upf = {}
    /\ doubt = {}
    /\ misencoded = {}

-----------------------------------------------------------------------------
(* Creation.                                                               *)

\* The create handler of context r is at this point.
At(r, pc) == create[r].pc = pc

Goto(r, pc) == create' = [create EXCEPT ![r].pc = pc]

\* release_ip(): clears the bit, whoever has the address by now.
ReleaseIp(r) == pool' = pool \ {create[r].ip}

\* After release_ip() of a failed creation: rollback_nsac, then the error.
RollBack(r) ==
    /\ ReleaseIp(r)
    /\ Goto(r, IF create[r].admitted THEN "unnsac" ELSE "rejected")

\* A request of context r failed; whether the peer acted on it is not known.
InDoubt(r) == doubt' = doubt \cup {r}

\* No address is free: the request is refused, the reference is used up.
PoolExhausted ==
    /\ nextRef <= MaxRef + 1
    /\ pool = Addr
    /\ nextRef' = nextRef + 1
    /\ UNCHANGED <<pool, bindings, seids, create, rel, peerVars, doubt, misencoded>>

\* Mutant: the scan does not stop at pool_size.
BugScansTooFar ==
    /\ nextRef \in Ref
    /\ \E a \in (1 .. PoolSize + 1) \ pool :
          /\ pool' = pool \cup {a}
          /\ create' = [create EXCEPT ![nextRef].pc = "nsac", ![nextRef].ip = a]
    /\ nextRef' = nextRef + 1
    /\ UNCHANGED <<bindings, seids, rel, peerVars, doubt, misencoded>>

\* Ipv4Pool::allocate: the lowest free address.
Allocate ==
    /\ nextRef \in Ref
    /\ \E a \in Addr \ pool :
          /\ \A b \in Addr \ pool : a <= b
          /\ pool' = pool \cup {a}
          /\ create' = [create EXCEPT ![nextRef].pc = "nsac", ![nextRef].ip = a]
    /\ nextRef' = nextRef + 1
    /\ UNCHANGED <<bindings, seids, rel, peerVars, doubt, misencoded>>

\* The slice has room, or has this PDU session already (admit_pdu_session).
Admits(k) == k \in counted \/ Cardinality(counted) < MaxPdu

NsacAdmitted(r) ==
    /\ At(r, "nsac")
    /\ Admits(create[r].key)
    /\ counted' = counted \cup {create[r].key}
    /\ create' = [create EXCEPT ![r].pc = "pcf", ![r].admitted = TRUE]
    /\ UNCHANGED <<nextRef, pool, bindings, seids, rel, policies, upf, doubt, misencoded>>

\* Mutant: release_ip() is forgotten.
BugKeepsAddress(r) ==
    /\ At(r, "nsac")
    /\ ~Admits(create[r].key)
    /\ Goto(r, "rejected")
    /\ UNCHANGED <<nextRef, pool, bindings, seids, rel, peerVars, doubt, misencoded>>

NsacRejected(r) ==
    /\ At(r, "nsac")
    /\ ~Admits(create[r].key)
    /\ ReleaseIp(r)
    /\ Goto(r, "rejected")
    /\ UNCHANGED <<nextRef, bindings, seids, rel, peerVars, doubt, misencoded>>

\* No NSACF, or no usable answer: fail open, nothing to roll back.
NsacSkipped(r) ==
    /\ At(r, "nsac")
    /\ \/ UNCHANGED <<counted, doubt>>
       \/ /\ Admits(create[r].key)
          /\ counted' = counted \cup {create[r].key}
          /\ InDoubt(r)
    /\ Goto(r, "pcf")
    /\ UNCHANGED <<nextRef, pool, bindings, seids, rel, policies, upf, misencoded>>

\* No PCF is configured: the default policy.
PcfNone(r) ==
    /\ At(r, "pcf")
    /\ Goto(r, "n4")
    /\ UNCHANGED <<nextRef, pool, bindings, seids, rel, peerVars, doubt, misencoded>>

PcfCreated(r) ==
    /\ At(r, "pcf")
    /\ policies' = policies \cup {r}
    /\ create' = [create EXCEPT ![r].pc = "n4", ![r].pol = TRUE]
    /\ UNCHANGED <<nextRef, pool, bindings, seids, rel, counted, upf, doubt, misencoded>>

\* Refused, unreachable, or an answer that cannot be used.
PcfFailed(r) ==
    /\ At(r, "pcf")
    /\ \/ UNCHANGED <<policies, doubt>>
       \/ policies' = policies \cup {r} /\ InDoubt(r)
    /\ RollBack(r)
    /\ UNCHANGED <<nextRef, bindings, seids, rel, counted, upf, misencoded>>

N4Established(r) ==
    /\ At(r, "n4")
    /\ upf' = upf \cup {r}
    /\ Goto(r, "seid")
    /\ UNCHANGED <<nextRef, pool, bindings, seids, rel, counted, policies, doubt, misencoded>>

\* Mutant: the policy is not rolled back.
BugKeepsPolicy(r) ==
    /\ At(r, "n4")
    /\ RollBack(r)
    /\ UNCHANGED <<nextRef, bindings, seids, rel, peerVars, doubt, misencoded>>

\* Refused or timed out.  Without a policy the address is released at once.
N4Failed(r) ==
    /\ At(r, "n4")
    /\ \/ UNCHANGED <<upf, doubt>>
       \/ upf' = upf \cup {r} /\ InDoubt(r)
    /\ IF create[r].pol
       THEN Goto(r, "unpol") /\ UNCHANGED pool
       ELSE RollBack(r)
    /\ UNCHANGED <<nextRef, bindings, seids, rel, counted, policies, misencoded>>

\* sm_policy_delete of the roll back; its failure is only logged.
UndoPolicy(r) ==
    /\ At(r, "unpol")
    /\ \/ policies' = policies \ {r} /\ UNCHANGED doubt
       \/ UNCHANGED policies /\ InDoubt(r)
    /\ RollBack(r)
    /\ UNCHANGED <<nextRef, bindings, seids, rel, counted, upf, misencoded>>

\* rollback_nsac: DECREASE, best effort.
UndoNsac(r) ==
    /\ At(r, "unnsac")
    /\ \/ counted' = counted \ {create[r].key} /\ UNCHANGED doubt
       \/ UNCHANGED counted /\ InDoubt(r)
    /\ Goto(r, "rejected")
    /\ UNCHANGED <<nextRef, pool, bindings, seids, rel, policies, upf, misencoded>>

StoreSeid(r) ==
    /\ At(r, "seid")
    /\ seids' = seids \cup {r}
    /\ Goto(r, "bind")
    /\ UNCHANGED <<nextRef, pool, bindings, rel, peerVars, doubt, misencoded>>

StoreBinding(r) ==
    /\ At(r, "bind")
    /\ bindings' = bindings \cup {r}
    /\ Goto(r, "encode")
    /\ UNCHANGED <<nextRef, pool, seids, rel, peerVars, doubt, misencoded>>

Encoded(r) ==
    /\ At(r, "encode")
    /\ Goto(r, "created")
    /\ UNCHANGED <<nextRef, pool, bindings, seids, rel, peerVars, doubt, misencoded>>

\* The QoS that the PCF authorised has no encoding (an ARP priority outside
\* 1..15): address and admission go back, binding, SEID and session stay.
EncodeFailed(r) ==
    /\ At(r, "encode")
    /\ create[r].pol
    /\ misencoded' = misencoded \cup {r}
    /\ RollBack(r)
    /\ UNCHANGED <<nextRef, bindings, seids, rel, peerVars, doubt>>

Create(r) ==
    \/ NsacAdmitted(r) \/ NsacRejected(r) \/ NsacSkipped(r)
    \/ PcfNone(r) \/ PcfCreated(r) \/ PcfFailed(r)
    \/ N4Established(r) \/ N4Failed(r)
    \/ UndoPolicy(r) \/ UndoNsac(r)
    \/ StoreSeid(r) \/ StoreBinding(r) \/ Encoded(r) \/ EncodeFailed(r)

-----------------------------------------------------------------------------
(* Release.                                                                *)

RelAt(r, o, pc) == rel[r][o].pc = pc

RelGoto(r, o, pc) == rel' = [rel EXCEPT ![r][o].pc = pc]

\* The AMF releases a context that it was told of.
AmfRelease(r) ==
    /\ At(r, "created")
    /\ RelAt(r, "amf", "none")
    /\ RelGoto(r, "amf", "take")
    /\ UNCHANGED <<nextRef, pool, bindings, seids, create, peerVars, doubt, misencoded>>

\* The PCF terminates; without a binding the answer is 404 and nothing else.
PolicyTerminate(r) ==
    /\ r \in policies
    /\ r \in bindings
    /\ RelAt(r, "pcf", "none")
    /\ RelGoto(r, "pcf", "take")
    /\ UNCHANGED <<nextRef, pool, bindings, seids, create, peerVars, doubt, misencoded>>

\* Mutant: the binding is read here and removed at the end.
BugReadsBinding(r, o) ==
    /\ RelAt(r, o, "take")
    /\ rel' = [rel EXCEPT ![r][o] =
                  [own |-> r \in bindings,
                   pc  |-> IF r \in bindings /\ create[r].pol THEN "pol" ELSE "seid"]]
    /\ UNCHANGED <<nextRef, pool, bindings, seids, create, peerVars, doubt, misencoded>>

\* The binding is removed under one lock: only one release gets it.
TakeBinding(r, o) ==
    /\ RelAt(r, o, "take")
    /\ bindings' = bindings \ {r}
    /\ rel' = [rel EXCEPT ![r][o] =
                  [own |-> r \in bindings,
                   pc  |-> IF r \in bindings /\ create[r].pol THEN "pol" ELSE "seid"]]
    /\ UNCHANGED <<nextRef, pool, seids, create, peerVars, doubt, misencoded>>

\* sm_policy_delete; its failure is only logged.
DeletePolicy(r, o) ==
    /\ RelAt(r, o, "pol")
    /\ \/ policies' = policies \ {r} /\ UNCHANGED doubt
       \/ UNCHANGED policies /\ InDoubt(r)
    /\ RelGoto(r, o, "seid")
    /\ UNCHANGED <<nextRef, pool, bindings, seids, create, counted, upf, misencoded>>

LookupUpfSeid(r, o) ==
    /\ RelAt(r, o, "seid")
    /\ RelGoto(r, o, IF r \in seids THEN "del" ELSE "ip")
    /\ UNCHANGED <<nextRef, pool, bindings, seids, create, peerVars, doubt, misencoded>>

\* pfcp_session_delete; the SEID is forgotten whether it succeeded or not.
DeleteN4(r, o) ==
    /\ RelAt(r, o, "del")
    /\ \/ upf' = upf \ {r} /\ UNCHANGED doubt
       \/ UNCHANGED upf /\ InDoubt(r)
    /\ seids' = seids \ {r}
    /\ RelGoto(r, o, "ip")
    /\ UNCHANGED <<nextRef, pool, bindings, create, counted, policies, misencoded>>

\* Mutant: every release gives the address back, whoever got the binding.
BugReleasesAnyway(r, o) ==
    /\ RelAt(r, o, "ip")
    /\ ReleaseIp(r)
    /\ RelGoto(r, o, "done")
    /\ UNCHANGED <<nextRef, bindings, seids, create, peerVars, doubt, misencoded>>

\* Only the release that got the binding releases its address.
FinishRelease(r, o) ==
    /\ RelAt(r, o, "ip")
    /\ IF rel[r][o].own THEN ReleaseIp(r) ELSE UNCHANGED pool
    /\ RelGoto(r, o, "done")
    /\ UNCHANGED <<nextRef, bindings, seids, create, peerVars, doubt, misencoded>>

Release(r, o) ==
    \/ TakeBinding(r, o) \/ DeletePolicy(r, o) \/ LookupUpfSeid(r, o)
    \/ DeleteN4(r, o) \/ FinishRelease(r, o)

-----------------------------------------------------------------------------
Next ==
    \/ PoolExhausted
    \/ Allocate
    \/ \E r \in Ref : Create(r) \/ AmfRelease(r) \/ PolicyTerminate(r)
    \/ \E r \in Ref, o \in Origin : Release(r, o)

Spec == Init /\ [][Next]_vars

-----------------------------------------------------------------------------
(* Properties.                                                             *)

\* The points of the create handler at which it alone answers for the address.
Creating(r) == create[r].pc \in {"nsac", "pcf", "n4", "unpol", "seid", "bind"}

\* A release that has taken the binding and not yet released the address.
Releasing(r, o) == rel[r][o].own /\ rel[r][o].pc # "done"

\* Context r has a UE address.
Holds(r) == Creating(r) \/ r \in bindings \/ \E o \in Origin : Releasing(r, o)

(***************************************************************************)
(* As long as every N2 message could be encoded: a context's address is    *)
(* allocated in the pool for as long as the context has it, and no two     *)
(* contexts have the same one, however creations, releases by the AMF and  *)
(* terminations by the PCF interleave (no early and no second release).    *)
(***************************************************************************)
AddressExclusive ==
    misencoded = {} =>
        \A r \in Ref : Holds(r) =>
            /\ create[r].ip \in pool
            /\ \A q \in Ref \ {r} : Holds(q) => create[q].ip # create[r].ip

(***************************************************************************)
(* No address leaks: an allocated address belongs to a context, through    *)
(* every failure path of creation and release.                             *)
(***************************************************************************)
AddressOwned ==
    \A a \in pool : \E r \in Ref : Holds(r) /\ create[r].ip = a

(***************************************************************************)
(* The handlers implement AddressService: a request takes an address that  *)
(* nobody has, is refused only when all are taken, and each context gives  *)
(* its address back once, in one step and for good.  The first N2 message  *)
(* that cannot be encoded ends the promise.                                *)
(***************************************************************************)
AS == INSTANCE AddressService WITH
          asked  <- nextRef,
          lease  <- [r \in Ref |-> IF Holds(r) THEN create[r].ip ELSE NoAddr],
          intact <- misencoded = {}

LeasesAddresses == AS!Spec

\* Nobody will do anything for context r any more.
Ended(r) ==
    \/ At(r, "rejected")
    \/ \E o \in Origin : rel[r][o].own /\ RelAt(r, o, "done")

\* A handler of context r still runs.
Busy(r) == \E o \in Origin : rel[r][o].pc \notin {"none", "done"}

(***************************************************************************)
(* All or nothing: a context whose creation was refused, or that was       *)
(* released, has left nothing behind in the SMF, the PCF and the UPF; a    *)
(* refused one has given its admission back, unless another context counts *)
(* under the same key.  (Contexts with a request of unknown outcome and    *)
(* with the encoding failure are excepted.)                                *)
(***************************************************************************)
AllOrNothing ==
    \A r \in Ref \ (doubt \cup misencoded) :
        Ended(r) /\ ~Busy(r) =>
            /\ r \notin bindings \cup seids \cup policies \cup upf
            /\ At(r, "rejected") /\ create[r].key \in counted =>
                   \E q \in Ref \ {r} : /\ create[q].key = create[r].key
                                        /\ ~At(q, "none")

-----------------------------------------------------------------------------
(* What the code's comments say and the code does not do.                  *)

(***************************************************************************)
(* Ipv4Pool: "bit i = 1 means host address i is allocated".  The address   *)
(* of a context that the AMF knows is allocated, so that nobody else gets  *)
(* it.                                                                     *)
(***************************************************************************)
AddressAllocated ==
    \A r \in bindings : At(r, "created") => create[r].ip \in pool

=============================================================================
