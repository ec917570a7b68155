----------------------------- MODULE NrfProofs -----------------------------
(***************************************************************************)
(* Proofs about module Nrf: type correctness, that nothing in the registry *)
(* stays without supervision, the grace given before a deregistration, and *)
(* the state file.  Each rests on an inductive invariant of its own, above *)
(* one that says what an actor at each place of its operation carries.     *)
(***************************************************************************)
EXTENDS Nrf, TLAPS

-----------------------------------------------------------------------------
(* The core invariant.                                                     *)

Ids   == Nfs \cup Subs
State == {"REGISTERED", "SUSPENDED"}
Snaps == [kind : {"doc"}, p : Registries, s : SUBSET Subs]
Files == {None, Blank, Mixed} \cup Snaps
Past  == {"none", "gone", "REGISTERED", "SUSPENDED", "touched"}

Nexts == {"idle", "arm", "disarm", "startTimer", "grace"}
Ops   == {"put", "heartbeat", "sleep", "delete", "subscribe", "unsubscribe", "event"}
Busy  == [pc : Pcs \ {"idle"}, op : Ops, id : Ids, val : State \cup {""},
          next : Nexts, doc : {None} \cup Snaps, fd : {"tmp", "file", "gone"},
          alone : BOOLEAN]

AboutNf  == {"addInstance", "insert", "arm", "reactivate", "remove", "disarm",
             "check", "suspend", "grace"}
AboutSub == {"addSub", "startTimer", "removeSub"}
OfTasks  == {"addInstance", "insert", "reactivate", "addSub", "startTimer"}

\* No snapshot names a subscription that is yet to be made.
Earlier(d, un) == d.kind = "doc" => d.s \cap un = {}

\* What an actor carries, by where it stands.
Carries(a, r, un) ==
  /\ r.pc \in AboutNf \/ r.next \in AboutNf => r.id \in Nfs
  /\ r.pc \in AboutSub \/ r.next \in AboutSub => r.id \in Subs
  /\ r.pc = "addSub" => r.id \notin un
  /\ r.next # "idle" => r.pc \in Writing
  /\ r.pc \in {"addInstance", "insert"} => r.val \in State
  /\ r.pc \in {"snapSubs", "open", "fill"} => r.doc \in Snaps
  /\ Earlier(r.doc, un)
  /\ a = Loop => r.op = "event" /\ r.pc \notin OfTasks /\ r.next # "startTimer"

ActOK(a, r, un) == r = Idle \/ (r \in Busy /\ Carries(a, r, un))

MemoryOK ==
  /\ instances \subseteq Nfs /\ profiles \in Registries
  /\ subs \subseteq Subs \ unused /\ unused \subseteq Subs
  /\ timers \subseteq Ids /\ queue \subseteq Ids
  /\ asked \in 0..MaxRequests /\ restarts \in 0..MaxRestarts

ActsOK == act \in [Actors -> {Idle} \cup Busy] /\ \A a \in Actors : ActOK(a, act[a], unused)

DiskOK == /\ tmp \in Files /\ file \in Files
          /\ Earlier(tmp, unused) /\ Earlier(file, unused)

HistOK == hist \in [restored : SUBSET Ids, overlap : SUBSET Ids, raced : BOOLEAN,
                    failed : BOOLEAN, was : [Nfs -> Past]]

\* An instance without profile is one that a request is about to store.
Stored == \A n \in instances \ DOMAIN profiles :
            \E t \in Tasks : act[t].pc = "insert" /\ act[t].id = n

Core == MemoryOK /\ ActsOK /\ DiskOK /\ HistOK /\ Stored

-----------------------------------------------------------------------------
(* Registries and snapshots.                                               *)

LEMMA RegistryFacts ==
  ASSUME NEW p \in Registries
  PROVE  DOMAIN p \subseteq Nfs /\ \A n \in DOMAIN p : p[n] \in State
BY DEF Registries, State

LEMMA RegistryIntro ==
  ASSUME NEW N \in SUBSET Nfs, NEW p \in [N -> State]
  PROVE  p \in Registries
BY DEF Registries, State

LEMMA EmptyRegistry == <<>> \in Registries /\ DOMAIN <<>> = {}
<1>1. <<>> \in [{} -> State]
  OBVIOUS
<1> QED
  BY <1>1, RegistryIntro

LEMMA DocFacts ==
  ASSUME NEW p \in Registries, NEW s \in SUBSET Subs
  PROVE  /\ Doc(p, s) \in Snaps /\ Doc(p, s).kind = "doc"
         /\ Doc(p, s).p = p /\ Doc(p, s).s = s
BY DEF Doc, Snaps

LEMMA SnapFacts ==
  ASSUME NEW d \in Snaps
  PROVE  d = Doc(d.p, d.s) /\ d.kind = "doc" /\ d.p \in Registries /\ d.s \in SUBSET Subs
BY DEF Doc, Snaps

LEMMA KindFacts ==
  /\ None.kind = "none" /\ Blank.kind = "blank" /\ Mixed.kind = "mixed"
  /\ None \notin Snaps /\ Blank \notin Snaps /\ Mixed \notin Snaps
  /\ None # Blank /\ None # Mixed /\ Blank # Mixed
<1>1. None.kind = "none" /\ Blank.kind = "blank" /\ Mixed.kind = "mixed"
  BY DEF None, Blank, Mixed
<1> QED
  BY <1>1, SnapFacts

LEMMA LoadedFacts ==
  ASSUME NEW f \in Files, NEW un, Earlier(f, un)
  PROVE  /\ Loaded(f) \in Snaps /\ Loaded(f).s \cap un = {}
         /\ Loaded(f).p \in Registries /\ Loaded(f).s \in SUBSET Subs
         /\ Loaded(f) = Doc(Loaded(f).p, Loaded(f).s)
<1>1. CASE f.kind = "doc"
  <2>1. f \in Snaps
    BY <1>1, KindFacts DEF Files
  <2> QED
    BY <1>1, <2>1, SnapFacts DEF Loaded, Earlier
<1>2. CASE f.kind # "doc"
  <2>1. Doc(<<>>, {}) \in Snaps /\ Doc(<<>>, {}).p = <<>> /\ Doc(<<>>, {}).s = {}
    BY EmptyRegistry, DocFacts
  <2> QED
    BY <1>2, <2>1, SnapFacts DEF Loaded
<1> QED
  BY <1>1, <1>2

LEMMA LoadsFacts ==
  ASSUME NEW f \in Files, NEW un, Earlier(f, un), NEW d \in Loads(f)
  PROVE  /\ d \in Snaps /\ d.s \cap un = {} /\ d.p \in Registries /\ d.s \in SUBSET Subs
         /\ d = Doc(d.p, d.s)
<1>1. Doc(<<>>, {}) \in Snaps /\ Doc(<<>>, {}).p = <<>> /\ Doc(<<>>, {}).s = {}
  BY EmptyRegistry, DocFacts
<1> QED
  BY <1>1, LoadedFacts, SnapFacts DEF Loads

-----------------------------------------------------------------------------
(* Moves of one actor.                                                     *)

\* Only a moves.
Moves(a) == /\ act' \in [Actors -> {Idle} \cup Busy]
            /\ \A b \in Actors \ {a} : act'[b] = act[b]

LEMMA BusyFacts ==
  ASSUME ActsOK, NEW a \in Actors, act[a].pc # "idle"
  PROVE  act[a] \in Busy /\ Carries(a, act[a], unused)
BY DEF ActsOK, ActOK, Idle

LEMMA GotoMoves ==
  ASSUME ActsOK, NEW a \in Actors, act[a].pc # "idle", NEW pc \in Pcs \ {"idle"}, Goto(a, pc)
  PROVE  /\ Moves(a) /\ act'[a] \in Busy /\ act'[a].pc = pc
         /\ act'[a].op = act[a].op /\ act'[a].id = act[a].id /\ act'[a].val = act[a].val
         /\ act'[a].next = act[a].next /\ act'[a].doc = act[a].doc /\ act'[a].fd = act[a].fd
         /\ act'[a].alone = act[a].alone
<1>1. PICK r : r = [act[a] EXCEPT !.pc = pc] /\ act' = [act EXCEPT ![a] = r]
  BY DEF Goto
<1>2. act[a] \in Busy
  BY BusyFacts
<1>3. /\ r \in Busy /\ r.pc = pc /\ r.op = act[a].op /\ r.id = act[a].id /\ r.val = act[a].val
      /\ r.next = act[a].next /\ r.doc = act[a].doc /\ r.fd = act[a].fd
      /\ r.alone = act[a].alone
  BY <1>1, <1>2 DEF Busy
<1> QED
  BY <1>1, <1>3 DEF Moves, ActsOK

LEMMA PersistMoves ==
  ASSUME ActsOK, NEW a \in Actors, act[a].pc # "idle", NEW next \in Nexts, Persist(a, next)
  PROVE  /\ Moves(a) /\ act'[a] \in Busy /\ act'[a].pc = "snapProfiles"
         /\ act'[a].op = act[a].op /\ act'[a].id = act[a].id /\ act'[a].val = act[a].val
         /\ act'[a].next = next /\ act'[a].doc = act[a].doc /\ act'[a].fd = act[a].fd
         /\ act'[a].alone = act[a].alone
<1>1. PICK r : /\ r = [act[a] EXCEPT !.pc = "snapProfiles", !.next = next]
               /\ act' = [act EXCEPT ![a] = r]
  BY DEF Persist
<1>2. act[a] \in Busy /\ "snapProfiles" \in Pcs \ {"idle"}
  BY BusyFacts DEF Pcs, Writing
<1>3. /\ r \in Busy /\ r.pc = "snapProfiles" /\ r.op = act[a].op /\ r.id = act[a].id
      /\ r.val = act[a].val /\ r.next = next /\ r.doc = act[a].doc /\ r.fd = act[a].fd
      /\ r.alone = act[a].alone
  BY <1>1, <1>2 DEF Busy
<1> QED
  BY <1>1, <1>3 DEF Moves, ActsOK

LEMMA DoneMoves ==
  ASSUME ActsOK, NEW a \in Actors, Done(a)
  PROVE  Moves(a) /\ act'[a] = Idle /\ act'[a].pc = "idle"
BY DEF ActsOK, Done, Moves, Idle

\* At most the records of the other actors' writes change.
Like(x, y) == /\ x.pc = y.pc
              /\ y = Idle => x = Idle
              /\ y \in Busy => /\ x \in Busy /\ x.op = y.op /\ x.id = y.id /\ x.val = y.val
                               /\ x.next = y.next /\ x.doc = y.doc
Others(a)  == /\ act' \in [Actors -> {Idle} \cup Busy]
              /\ \A b \in Actors \ {a} : Like(act'[b], act[b])

LEMMA MovesOthers ==
  ASSUME NEW a \in Actors, Moves(a)
  PROVE  Others(a)
BY DEF Moves, Others, Like

LEMMA OthersActs ==
  ASSUME ActsOK, NEW a \in Actors, Others(a), unused' \subseteq unused,
         ActOK(a, act'[a], unused')
  PROVE  ActsOK'
<1>1. ASSUME NEW b \in Actors, b # a PROVE ActOK(b, act'[b], unused')
  <2>1. Like(act'[b], act[b]) /\ ActOK(b, act[b], unused)
    BY <1>1 DEF Others, ActsOK
  <2> QED
    BY <2>1 DEF Like, ActOK, Carries, Earlier
<1> QED
  BY <1>1 DEF ActsOK, Others

LEMMA OthersStored ==
  ASSUME Core, NEW a \in Actors, Others(a),
         \A n \in instances' \ DOMAIN profiles' :
           \/ n \in instances \ DOMAIN profiles /\ ~(act[a].pc = "insert" /\ act[a].id = n)
           \/ a \in Tasks /\ act'[a].pc = "insert" /\ act'[a].id = n
  PROVE  Stored'
<1> SUFFICES ASSUME NEW n \in instances' \ DOMAIN profiles'
             PROVE  \E t \in Tasks : act'[t].pc = "insert" /\ act'[t].id = n
  BY DEF Stored
<1>1. CASE n \in instances \ DOMAIN profiles /\ ~(act[a].pc = "insert" /\ act[a].id = n)
  <2>1. PICK t \in Tasks : act[t].pc = "insert" /\ act[t].id = n
    BY <1>1 DEF Core, Stored
  <2>2. t \in Actors \ {a} /\ act[t] \in Busy
    BY <1>1, <2>1, BusyFacts DEF Actors, Core
  <2> QED
    BY <2>1, <2>2 DEF Others, Like
<1> QED
  BY <1>1

\* A move keeps the core invariant when the actor that moves does.
LEMMA MoveActs ==
  ASSUME ActsOK, NEW a \in Actors, Moves(a), unused' \subseteq unused,
         ActOK(a, act'[a], unused')
  PROVE  ActsOK'
BY MovesOthers, OthersActs

LEMMA StoredMove ==
  ASSUME Core, NEW a \in Actors, Moves(a),
         \A n \in instances' \ DOMAIN profiles' :
           \/ n \in instances \ DOMAIN profiles /\ ~(act[a].pc = "insert" /\ act[a].id = n)
           \/ a \in Tasks /\ act'[a].pc = "insert" /\ act'[a].id = n
  PROVE  Stored'
BY MovesOthers, OthersStored

\* A move that changes neither the memory nor the disk.
LEMMA CoreMove ==
  ASSUME Core, NEW a \in Actors, Moves(a), ActOK(a, act'[a], unused), act[a].pc # "insert",
         UNCHANGED <<memory, disk, rest>>, HistOK'
  PROVE  Core'
<1>1. ActsOK'
  BY MoveActs DEF Core, rest
<1>2. Stored'
  BY StoredMove DEF Core, Stored, memory
<1>3. MemoryOK'
  BY DEF Core, MemoryOK, memory, rest
<1>4. DiskOK'
  BY DEF Core, DiskOK, disk, rest
<1> QED
  BY <1>1, <1>2, <1>3, <1>4 DEF Core

LEMMA OneMore ==
  ASSUME NEW m \in Nat, NEW k \in 0..m, k < m
  PROVE  k + 1 \in 0..m
OBVIOUS

\* A request begins, carrying what its first place needs.
LEMMA BeginCore ==
  ASSUME Core, NEW t \in Tasks, NEW pc \in {"addInstance", "remove", "addSub", "removeSub"},
         NEW op \in Ops, NEW id \in Ids, NEW val \in State \cup {""},
         Begin(t, pc, op, id, val), unused' \subseteq unused,
         pc \in {"addInstance", "remove"} => id \in Nfs,
         pc \in {"addSub", "removeSub"} => id \in Subs \ unused',
         pc = "addInstance" => val \in State
  PROVE  Core'
<1>1. PICK r : /\ r = [pc |-> pc, op |-> op, id |-> id, val |-> val, next |-> "idle",
                       doc |-> None, fd |-> "gone", alone |-> FALSE]
               /\ act' = [act EXCEPT ![t] = r]
  BY DEF Begin
<1>2. UNCHANGED <<memory, disk, restarts, hist>> /\ asked < MaxRequests /\ asked' = asked + 1
      /\ act[t].pc = "idle"
  BY DEF Begin, At
<1>3. r \in Busy /\ r.pc = pc /\ r.op = op /\ r.id = id /\ r.val = val /\ r.next = "idle"
      /\ r.doc = None
  BY <1>1 DEF Busy, Pcs, Writing, Nexts
<1>4. t \in Actors /\ t # Loop
  BY NrfAssumption DEF Actors
<1>5. Carries(t, r, unused')
  BY <1>3, <1>4, KindFacts DEF Carries, AboutNf, AboutSub, Earlier
<1>6. Moves(t) /\ act'[t] = r
  BY <1>1, <1>3, <1>4 DEF Moves, Core, ActsOK
<1>7. ActsOK'
  BY <1>3, <1>4, <1>5, <1>6, MoveActs DEF Core, ActOK
<1>8. Stored'
  BY <1>2, <1>4, <1>6, StoredMove DEF Core, Stored, memory
<1>9. MemoryOK'
  <2>1. UNCHANGED <<instances, profiles, subs, timers, queue, restarts>>
    BY <1>2 DEF memory
  <2>2. asked' \in 0..MaxRequests
    <3>1. MaxRequests \in Nat /\ asked \in 0..MaxRequests
      BY NrfAssumption DEF Core, MemoryOK
    <3>2. asked < MaxRequests /\ asked' = asked + 1
      BY <1>2
    <3> QED
      BY <3>1, <3>2, OneMore, Zenon
  <2> QED
    BY <2>1, <2>2 DEF Core, MemoryOK
<1>10. DiskOK' /\ HistOK'
  BY <1>2 DEF Core, DiskOK, HistOK, disk, Earlier
<1> QED
  BY <1>7, <1>8, <1>9, <1>10 DEF Core

LEMMA RequestCore ==
  ASSUME Core, NEW t \in Tasks, Request(t)
  PROVE  Core'
<1>1. ASSUME NEW n \in Nfs, NEW v \in Statuses, NfRegister(t, n, v) PROVE Core'
  <2>1. /\ n \in Ids /\ v \in State /\ v \in State \cup {""} /\ "put" \in Ops
        /\ Begin(t, "addInstance", "put", n, v) /\ unused' \subseteq unused
    BY <1>1, NrfAssumption DEF NfRegister, Ids, State, Ops
  <2> QED
    BY <2>1, BeginCore
<1>2. ASSUME NEW n \in Nfs, NEW op \in {"heartbeat", "sleep"}, NfUpdate(t, n, op) PROVE Core'
  <2>1. n \in Ids /\ op \in Ops /\ unused' \subseteq unused
    BY <1>2 DEF NfUpdate, Ids, Ops
  <2>2. profiles[n] \in State /\ "SUSPENDED" \in State
    BY <1>2, RegistryFacts DEF NfUpdate, Core, MemoryOK, State
  <2>3. PICK v \in State : Begin(t, "addInstance", op, n, v)
    BY <1>2, <2>2 DEF NfUpdate
  <2> QED
    BY <2>1, <2>3, BeginCore
<1>3. ASSUME NEW n \in Nfs, NfDeregister(t, n) PROVE Core'
  <2>1. /\ n \in Ids /\ "" \in State \cup {""} /\ "delete" \in Ops
        /\ Begin(t, "remove", "delete", n, "") /\ unused' \subseteq unused
    BY <1>3 DEF NfDeregister, Ids, Ops
  <2> QED
    BY <2>1, BeginCore
<1>4. ASSUME NEW s \in Subs, SubscriptionCreate(t, s) PROVE Core'
  <2>1. /\ s \in Ids /\ "" \in State \cup {""} /\ "subscribe" \in Ops
        /\ Begin(t, "addSub", "subscribe", s, "") /\ unused' \subseteq unused
        /\ s \in Subs \ unused'
    BY <1>4 DEF SubscriptionCreate, Ids, Ops
  <2> QED
    BY <2>1, BeginCore
<1>5. ASSUME NEW s \in Subs, SubscriptionDelete(t, s) PROVE Core'
  <2>1. /\ s \in Ids /\ "" \in State \cup {""} /\ "unsubscribe" \in Ops
        /\ Begin(t, "removeSub", "unsubscribe", s, "") /\ unused' \subseteq unused
        /\ s \in Subs \ unused'
    BY <1>5 DEF SubscriptionDelete, Ids, Ops
  <2> QED
    BY <2>1, BeginCore
<1> QED
  BY <1>1, <1>2, <1>3, <1>4, <1>5 DEF Request

\* A move of the core: what happens to the memory is stated by each action.
LEMMA CoreStep ==
  ASSUME Core, NEW a \in Actors, Moves(a), ActOK(a, act'[a], unused),
         instances' \subseteq Nfs, profiles' \in Registries, subs' \subseteq Subs \ unused,
         timers' \subseteq Ids, queue' \subseteq Ids, UNCHANGED <<disk, rest>>, HistOK', Stored'
  PROVE  Core'
<1>1. ActsOK'
  BY MoveActs DEF Core, rest
<1>2. MemoryOK'
  BY DEF Core, MemoryOK, rest
<1>3. DiskOK'
  BY DEF Core, DiskOK, disk, rest
<1> QED
  BY <1>1, <1>2, <1>3 DEF Core

LEMMA AddInstanceCore ==
  ASSUME Core, NEW t \in Tasks, AddInstance(t)
  PROVE  Core'
<1>1. t \in Actors /\ t # Loop /\ act[t].pc = "addInstance"
  BY NrfAssumption DEF Actors, AddInstance, At
<1>2. act[t] \in Busy /\ Carries(t, act[t], unused)
  BY <1>1, BusyFacts DEF Core
<1>3. /\ Moves(t) /\ act'[t] \in Busy /\ act'[t].pc = "insert" /\ act'[t].id = act[t].id
      /\ act'[t].val = act[t].val /\ act'[t].next = act[t].next /\ act'[t].doc = act[t].doc
  <2>1. "insert" \in Pcs \ {"idle"} /\ Goto(t, "insert")
    BY DEF Pcs, AddInstance
  <2> QED
    BY <1>1, <2>1, GotoMoves DEF Core
<1>4. ActOK(t, act'[t], unused)
  BY <1>1, <1>2, <1>3 DEF ActOK, Carries, AboutNf, AboutSub, Writing
<1>5. act[t].id \in Nfs /\ instances' = instances \cup {act[t].id}
  BY <1>1, <1>2 DEF Carries, AboutNf, AddInstance
<1>6. UNCHANGED <<profiles, subs, timers, queue, disk, rest, hist>>
  BY DEF AddInstance
<1>7. Stored'
  BY <1>1, <1>3, <1>5, <1>6, StoredMove
<1>8. HistOK'
  BY <1>6 DEF Core, HistOK
<1> QED
  BY <1>1, <1>3, <1>4, <1>5, <1>6, <1>7, <1>8, CoreStep DEF Core, MemoryOK

LEMMA TouchedOK ==
  ASSUME HistOK, NEW n \in Nfs
  PROVE  /\ Touched(n) \in [restored : SUBSET Ids, overlap : SUBSET Ids, raced : BOOLEAN,
                            failed : BOOLEAN, was : [Nfs -> Past]]
         /\ Touched(n).restored = hist.restored /\ Touched(n).overlap = hist.overlap
         /\ Touched(n).raced = hist.raced /\ Touched(n).failed = hist.failed
         /\ \A m \in Nfs : Touched(n).was[m] = IF m = n /\ hist.was[m] # "none"
                                               THEN "touched" ELSE hist.was[m]
<1>1. CASE hist.was[n] = "none"
  BY <1>1 DEF Touched, HistOK
<1>2. CASE hist.was[n] # "none"
  <2>1. PICK w : w = [hist.was EXCEPT ![n] = "touched"] /\ Touched(n) = [hist EXCEPT !.was = w]
    BY <1>2 DEF Touched
  <2>2. /\ w \in [Nfs -> Past]
        /\ \A m \in Nfs : w[m] = IF m = n /\ hist.was[m] # "none" THEN "touched" ELSE hist.was[m]
    BY <1>2, <2>1 DEF HistOK, Past
  <2> QED
    BY <2>1, <2>2 DEF HistOK
<1> QED
  BY <1>1, <1>2

LEMMA InsertCore ==
  ASSUME Core, NEW t \in Tasks, Insert(t)
  PROVE  Core'
<1>1. t \in Actors /\ t # Loop /\ act[t].pc = "insert"
  BY NrfAssumption DEF Actors, Insert, At
<1>2. act[t] \in Busy /\ Carries(t, act[t], unused)
  BY <1>1, BusyFacts DEF Core
<1>3. /\ Moves(t) /\ act'[t] \in Busy /\ act'[t].pc = "snapProfiles" /\ act'[t].next = "arm"
      /\ act'[t].id = act[t].id /\ act'[t].doc = act[t].doc
  BY <1>1, PersistMoves DEF Insert, Core, Nexts
<1>4. ActOK(t, act'[t], unused)
  BY <1>1, <1>2, <1>3 DEF ActOK, Carries, AboutNf, AboutSub, Writing
<1>5. PICK n \in Nfs : n = act[t].id
  BY <1>1, <1>2 DEF Carries, AboutNf
<1>6. PICK v \in State : v = act[t].val
  BY <1>1, <1>2 DEF Carries
<1>7. profiles' = [m \in DOMAIN profiles \cup {n} |-> IF m = n THEN v ELSE profiles[m]]
  BY <1>5, <1>6 DEF Insert
<1>8. profiles' \in Registries /\ DOMAIN profiles' = DOMAIN profiles \cup {n}
  <2>1. DOMAIN profiles \subseteq Nfs /\ \A m \in DOMAIN profiles : profiles[m] \in State
    BY RegistryFacts DEF Core, MemoryOK
  <2>2. profiles' \in [DOMAIN profiles \cup {n} -> State]
    BY <1>7, <2>1
  <2> QED
    BY <1>7, <2>1, <2>2, RegistryIntro
<1>9. UNCHANGED <<instances, subs, timers, queue, disk, rest>> /\ hist' = Touched(n)
  BY <1>5 DEF Insert
<1>10. Stored'
  BY <1>1, <1>3, <1>5, <1>8, <1>9, StoredMove
<1>11. HistOK'
  BY <1>9, TouchedOK DEF Core, HistOK
<1> QED
  BY <1>1, <1>3, <1>4, <1>8, <1>9, <1>10, <1>11, CoreStep DEF Core, MemoryOK

LEMMA ArmCore ==
  ASSUME Core, NEW a \in Actors, Arm(a)
  PROVE  Core'
<1>1. act[a].pc = "arm"
  BY DEF Arm, At
<1>2. act[a] \in Busy /\ Carries(a, act[a], unused) /\ act[a].id \in Ids
  BY <1>1, BusyFacts DEF Core, Busy
<1>3. Moves(a) /\ ActOK(a, act'[a], unused)
  <2>1. CASE Done(a)
    BY <2>1, DoneMoves DEF Core, ActOK
  <2>2. CASE act[a].op = "heartbeat" /\ Goto(a, "reactivate")
    <3>1. /\ Moves(a) /\ act'[a] \in Busy /\ act'[a].pc = "reactivate" /\ act'[a].id = act[a].id
          /\ act'[a].next = act[a].next /\ act'[a].doc = act[a].doc
      <4>1. "reactivate" \in Pcs \ {"idle"}
        BY DEF Pcs
      <4> QED
        BY <1>1, <2>2, <4>1, GotoMoves DEF Core
    <3> QED
      BY <1>1, <1>2, <2>2, <3>1 DEF ActOK, Carries, AboutNf, AboutSub, Writing
  <2> QED
    BY <2>1, <2>2 DEF Arm
<1>4. UNCHANGED <<instances, profiles, subs, queue, disk, rest>> /\ timers' = timers \cup {act[a].id}
  BY DEF Arm
<1>5. Stored'
  BY <1>1, <1>3, <1>4, StoredMove
<1>6. HistOK'
  BY <1>2 DEF Arm, Core, HistOK
<1> QED
  BY <1>2, <1>3, <1>4, <1>5, <1>6, CoreStep DEF Core, MemoryOK

\* A change of the status of n.
LEMMA SetStatus ==
  ASSUME NEW p \in Registries, NEW n \in DOMAIN p, NEW v \in State, NEW q, q = [p EXCEPT ![n] = v]
  PROVE  q \in Registries /\ DOMAIN q = DOMAIN p
<1>1. DOMAIN p \subseteq Nfs /\ p = [m \in DOMAIN p |-> p[m]] /\ \A m \in DOMAIN p : p[m] \in State
  BY DEF Registries, State
<1>2. q \in [DOMAIN p -> State] /\ DOMAIN q = DOMAIN p
  BY <1>1
<1> QED
  BY <1>1, <1>2, RegistryIntro

LEMMA ReactivateCore ==
  ASSUME Core, NEW t \in Tasks, Reactivate(t)
  PROVE  Core'
<1>1. t \in Actors /\ t # Loop /\ act[t].pc = "reactivate"
  BY NrfAssumption DEF Actors, Reactivate, At
<1>2. act[t] \in Busy /\ Carries(t, act[t], unused)
  BY <1>1, BusyFacts DEF Core
<1>3. UNCHANGED <<instances, subs, timers, queue, disk, rest>>
  BY DEF Reactivate
<1>4. CASE Done(t) /\ UNCHANGED <<profiles, hist>>
  <2>1. Moves(t) /\ ActOK(t, act'[t], unused)
    BY <1>1, <1>4, DoneMoves DEF Core, ActOK
  <2>2. Stored' /\ HistOK'
    BY <1>1, <1>3, <1>4, <2>1, StoredMove DEF Core, HistOK
  <2> QED
    BY <1>1, <1>3, <1>4, <2>1, <2>2, CoreStep DEF Core, MemoryOK
<1>5. CASE /\ act[t].id \in DOMAIN profiles /\ profiles' = [profiles EXCEPT ![act[t].id] = "REGISTERED"]
           /\ hist' = Touched(act[t].id) /\ Persist(t, "idle")
  <2>1. /\ Moves(t) /\ act'[t] \in Busy /\ act'[t].pc = "snapProfiles" /\ act'[t].next = "idle"
        /\ act'[t].id = act[t].id /\ act'[t].doc = act[t].doc
    BY <1>1, <1>5, PersistMoves DEF Core, Nexts
  <2>2. ActOK(t, act'[t], unused)
    BY <1>1, <1>2, <2>1 DEF ActOK, Carries, AboutNf, AboutSub, Writing
  <2>3. profiles' \in Registries /\ DOMAIN profiles' = DOMAIN profiles
    BY <1>5, SetStatus DEF Core, MemoryOK, State
  <2>4. act[t].id \in Nfs
    BY <1>1, <1>2 DEF Carries, AboutNf
  <2>5. HistOK'
    BY <1>5, <2>4, TouchedOK DEF Core, HistOK
  <2>6. Stored'
    BY <1>1, <1>3, <2>1, <2>3, StoredMove
  <2> QED
    BY <1>1, <1>3, <2>1, <2>2, <2>3, <2>5, <2>6, CoreStep DEF Core, MemoryOK
<1> QED
  BY <1>4, <1>5 DEF Reactivate

LEMMA RemoveCore ==
  ASSUME Core, NEW a \in Actors, Remove(a)
  PROVE  Core'
<1>1. act[a].pc = "remove"
  BY DEF Remove, At
<1>2. act[a] \in Busy /\ Carries(a, act[a], unused)
  BY <1>1, BusyFacts DEF Core
<1>3. UNCHANGED <<subs, timers, queue, disk, rest>>
  BY DEF Remove
<1>4. PICK n \in Nfs : n = act[a].id
  BY <1>1, <1>2 DEF Carries, AboutNf
<1>5. CASE n \in instances
  <2>1. /\ instances' = instances \ {n} /\ Persist(a, "disarm")
        /\ profiles' = Restrict(profiles, DOMAIN profiles \ {n})
    BY <1>4, <1>5 DEF Remove
  <2>2. PICK o \in SUBSET Ids : hist' = [hist EXCEPT !.restored = @ \ {n}, !.overlap = o]
    <3>1. hist.overlap \cup {n} \in SUBSET Ids /\ hist.overlap \ {n} \in SUBSET Ids
      BY DEF Core, HistOK, Ids
    <3> QED
      BY <1>4, <1>5, <3>1 DEF Remove
  <2>3. HistOK'
    BY <2>2 DEF Core, HistOK
  <2>4. profiles' \in Registries /\ DOMAIN profiles' = DOMAIN profiles \ {n}
    <3>1. DOMAIN profiles \subseteq Nfs /\ \A m \in DOMAIN profiles : profiles[m] \in State
      BY RegistryFacts DEF Core, MemoryOK
    <3>2. profiles' \in [DOMAIN profiles \ {n} -> State]
      BY <2>1, <3>1 DEF Restrict
    <3> QED
      BY <2>1, <3>1, <3>2, RegistryIntro DEF Restrict
  <2>5. /\ Moves(a) /\ act'[a] \in Busy /\ act'[a].pc = "snapProfiles" /\ act'[a].next = "disarm"
        /\ act'[a].id = act[a].id /\ act'[a].doc = act[a].doc /\ act'[a].op = act[a].op
    BY <1>1, <2>1, PersistMoves DEF Core, Nexts
  <2>6. ActOK(a, act'[a], unused)
    BY <1>1, <1>2, <2>5 DEF ActOK, Carries, AboutNf, AboutSub, Writing, OfTasks
  <2>7. Stored'
    BY <1>1, <2>1, <2>4, <2>5, StoredMove
  <2> QED
    BY <1>3, <2>1, <2>3, <2>4, <2>5, <2>6, <2>7, CoreStep DEF Core, MemoryOK
<1>6. CASE n \notin instances
  <2>1. (Goto(a, "disarm") \/ Done(a)) /\ UNCHANGED <<instances, profiles, hist>>
    BY <1>4, <1>6 DEF Remove
  <2>2. Moves(a) /\ ActOK(a, act'[a], unused)
    <3>1. CASE Done(a)
      BY <3>1, DoneMoves DEF Core, ActOK
    <3>2. CASE Goto(a, "disarm")
      <4>1. "disarm" \in Pcs \ {"idle"}
        BY DEF Pcs
      <4>2. /\ Moves(a) /\ act'[a] \in Busy /\ act'[a].pc = "disarm" /\ act'[a].id = act[a].id
            /\ act'[a].next = act[a].next /\ act'[a].doc = act[a].doc /\ act'[a].op = act[a].op
        BY <1>1, <3>2, <4>1, GotoMoves DEF Core
      <4> QED
        BY <1>1, <1>2, <4>2 DEF ActOK, Carries, AboutNf, AboutSub, Writing, OfTasks
    <3> QED
      BY <2>1, <3>1, <3>2
  <2>3. UNCHANGED <<memory, disk, rest>> /\ HistOK'
    BY <1>3, <2>1 DEF memory, Core, HistOK
  <2> QED
    BY <1>1, <2>2, <2>3, CoreMove
<1> QED
  BY <1>5, <1>6

LEMMA DisarmCore ==
  ASSUME Core, NEW a \in Actors, Disarm(a)
  PROVE  Core'
<1>1. act[a].pc = "disarm" /\ UNCHANGED <<instances, profiles, subs, queue, disk, rest>>
      /\ timers' = timers \ {act[a].id}
  BY DEF Disarm, At
<1>2. act[a].id \in Ids
  BY <1>1, BusyFacts DEF Core, Busy
<1>3. Moves(a) /\ ActOK(a, act'[a], unused)
  BY DoneMoves DEF Core, ActOK, Disarm
<1>4. HistOK'
  BY <1>2 DEF Disarm, Core, HistOK
<1>5. Stored'
  BY <1>1, <1>3, StoredMove
<1> QED
  BY <1>1, <1>3, <1>4, <1>5, CoreStep DEF Core, MemoryOK

LEMMA AddSubCore ==
  ASSUME Core, NEW t \in Tasks, AddSub(t)
  PROVE  Core'
<1>1. /\ t \in Actors /\ t # Loop /\ act[t].pc = "addSub" /\ subs' = subs \cup {act[t].id}
      /\ UNCHANGED <<instances, profiles, timers, queue, disk, rest, hist>>
  BY NrfAssumption DEF Actors, AddSub, At
<1>2. act[t] \in Busy /\ Carries(t, act[t], unused)
  BY <1>1, BusyFacts DEF Core
<1>3. /\ Moves(t) /\ act'[t] \in Busy /\ act'[t].pc = "snapProfiles"
      /\ act'[t].next = "startTimer" /\ act'[t].id = act[t].id /\ act'[t].doc = act[t].doc
  BY <1>1, PersistMoves DEF Core, Nexts, AddSub
<1>4. ActOK(t, act'[t], unused)
  BY <1>1, <1>2, <1>3 DEF ActOK, Carries, AboutNf, AboutSub, Writing
<1>5. act[t].id \in Subs \ unused
  BY <1>1, <1>2 DEF Carries, AboutSub
<1>6. Stored' /\ HistOK'
  BY <1>1, <1>3, StoredMove DEF Core, HistOK
<1> QED
  BY <1>1, <1>3, <1>4, <1>5, <1>6, CoreStep DEF Core, MemoryOK

LEMMA StartTimerCore ==
  ASSUME Core, NEW t \in Tasks, StartTimer(t)
  PROVE  Core'
<1>1. /\ t \in Actors /\ act[t].pc = "startTimer" /\ timers' = timers \cup {act[t].id}
      /\ UNCHANGED <<instances, profiles, subs, queue, disk, rest, hist>>
  BY DEF Actors, StartTimer, At
<1>2. act[t].id \in Ids
  BY <1>1, BusyFacts DEF Core, Busy
<1>3. Moves(t) /\ ActOK(t, act'[t], unused)
  BY <1>1, DoneMoves DEF Core, ActOK, StartTimer
<1>4. Stored' /\ HistOK'
  BY <1>1, <1>3, StoredMove DEF Core, HistOK
<1> QED
  BY <1>1, <1>2, <1>3, <1>4, CoreStep DEF Core, MemoryOK

LEMMA RemoveSubCore ==
  ASSUME Core, NEW a \in Actors, RemoveSub(a)
  PROVE  Core'
<1>1. /\ act[a].pc = "removeSub" /\ subs' \subseteq subs
      /\ UNCHANGED <<instances, profiles, timers, queue, disk, rest, hist>>
  BY DEF RemoveSub, At
<1>2. act[a] \in Busy /\ Carries(a, act[a], unused)
  BY <1>1, BusyFacts DEF Core
<1>3. Moves(a) /\ ActOK(a, act'[a], unused)
  <2>1. CASE Done(a)
    BY <2>1, DoneMoves DEF Core, ActOK
  <2>2. CASE Persist(a, "idle")
    <3>1. /\ Moves(a) /\ act'[a] \in Busy /\ act'[a].pc = "snapProfiles" /\ act'[a].next = "idle"
          /\ act'[a].id = act[a].id /\ act'[a].doc = act[a].doc /\ act'[a].op = act[a].op
      BY <1>1, <2>2, PersistMoves DEF Core, Nexts
    <3> QED
      BY <1>1, <1>2, <3>1 DEF ActOK, Carries, AboutNf, AboutSub, Writing, OfTasks
  <2> QED
    BY <2>1, <2>2 DEF RemoveSub
<1>4. Stored' /\ HistOK'
  BY <1>1, <1>3, StoredMove DEF Core, HistOK
<1> QED
  BY <1>1, <1>3, <1>4, CoreStep DEF Core, MemoryOK

-----------------------------------------------------------------------------
(* The event loop and the state file.                                      *)

LEMMA TickCore ==
  ASSUME Core, Tick
  PROVE  Core'
<1>1. PICK E \in SUBSET timers :
        /\ queue' = E /\ timers' = timers \ E
        /\ hist' = [hist EXCEPT !.was = [n \in Nfs |->
                      IF n \notin E THEN "none"
                      ELSE IF n \in DOMAIN profiles THEN profiles[n] ELSE "gone"]]
  BY DEF Tick
<1>2. UNCHANGED <<instances, profiles, subs, act, disk, rest>>
  BY DEF Tick
<1>3. HistOK'
  <2>1. \A n \in DOMAIN profiles : profiles[n] \in State
    BY RegistryFacts DEF Core, MemoryOK
  <2>2. PICK w : w = [n \in Nfs |-> IF n \notin E THEN "none"
                        ELSE IF n \in DOMAIN profiles THEN profiles[n] ELSE "gone"]
    OBVIOUS
  <2>3. w \in [Nfs -> Past] /\ hist' = [hist EXCEPT !.was = w]
    BY <1>1, <2>1, <2>2 DEF State, Past
  <2> QED
    BY <2>3 DEF Core, HistOK
<1>4. MemoryOK' /\ DiskOK'
  BY <1>1, <1>2 DEF Core, MemoryOK, DiskOK, disk, rest
<1>5. ActsOK' /\ Stored'
  BY <1>2 DEF Core, ActsOK, Stored, rest
<1> QED
  BY <1>3, <1>4, <1>5 DEF Core

LEMMA NextEventMove ==
  ASSUME Core, NextEvent
  PROVE  \E id \in queue :
           /\ queue' = queue \ {id} /\ Moves(Loop) /\ act'[Loop] \in Busy
           /\ act'[Loop].pc = (IF id \in Subs THEN "removeSub" ELSE "check")
           /\ act'[Loop].op = "event" /\ act'[Loop].id = id /\ act'[Loop].next = "idle"
           /\ act'[Loop].doc = None
<1>0. PICK id \in queue :
         /\ queue' = queue \ {id}
         /\ act' = [act EXCEPT ![Loop] =
                      [pc |-> IF id \in Subs THEN "removeSub" ELSE "check", op |-> "event",
                       id |-> id, val |-> "", next |-> "idle", doc |-> None,
                       fd |-> "gone", alone |-> FALSE]]
  BY DEF NextEvent
<1>1. PICK r :
         /\ r = [pc |-> IF id \in Subs THEN "removeSub" ELSE "check", op |-> "event",
                 id |-> id, val |-> "", next |-> "idle", doc |-> None,
                 fd |-> "gone", alone |-> FALSE]
         /\ act' = [act EXCEPT ![Loop] = r]
  BY <1>0
<1>2. id \in Ids /\ Loop \in Actors
  BY DEF Core, MemoryOK, Actors
<1>3. /\ r \in Busy /\ r.pc = (IF id \in Subs THEN "removeSub" ELSE "check") /\ r.op = "event"
      /\ r.id = id /\ r.next = "idle" /\ r.doc = None
  BY <1>1, <1>2 DEF Busy, Pcs, Nexts, Ops
<1>4. Moves(Loop) /\ act'[Loop] = r
  BY <1>1, <1>2, <1>3 DEF Moves, Core, ActsOK
<1> QED
  BY <1>0, <1>3, <1>4

LEMMA NextEventCore ==
  ASSUME Core, NextEvent
  PROVE  Core'
<1>1. PICK id \in queue :
           /\ queue' = queue \ {id} /\ Moves(Loop) /\ act'[Loop] \in Busy
           /\ act'[Loop].pc = (IF id \in Subs THEN "removeSub" ELSE "check")
           /\ act'[Loop].op = "event" /\ act'[Loop].id = id /\ act'[Loop].next = "idle"
           /\ act'[Loop].doc = None
  BY NextEventMove
<1>2. /\ act[Loop].pc = "idle" /\ Loop \in Actors
      /\ UNCHANGED <<instances, profiles, subs, timers, disk, rest, hist>>
  BY DEF NextEvent, At, Actors
<1>3. id \in Ids
  BY DEF Core, MemoryOK
<1>4. ActOK(Loop, act'[Loop], unused)
  BY <1>1, <1>3, KindFacts DEF ActOK, Carries, AboutNf, AboutSub, OfTasks, Writing, Earlier, Ids
<1>5. Stored' /\ HistOK'
  BY <1>1, <1>2, StoredMove DEF Core, HistOK, Stored
<1> QED
  BY <1>1, <1>2, <1>4, <1>5, CoreStep DEF Core, MemoryOK

LEMMA CheckCore ==
  ASSUME Core, Check
  PROVE  Core'
<1>1. act[Loop].pc = "check" /\ Loop \in Actors /\ UNCHANGED <<memory, disk, rest, hist>>
  BY DEF Check, At, Actors
<1>2. act[Loop] \in Busy /\ Carries(Loop, act[Loop], unused)
  BY <1>1, BusyFacts DEF Core
<1>3. PICK pc \in {"remove", "suspend"} : Goto(Loop, pc)
  BY DEF Check
<1>4. pc \in Pcs \ {"idle"}
  BY DEF Pcs
<1>5. /\ Moves(Loop) /\ act'[Loop] \in Busy /\ act'[Loop].pc = pc /\ act'[Loop].id = act[Loop].id
      /\ act'[Loop].next = act[Loop].next /\ act'[Loop].doc = act[Loop].doc
      /\ act'[Loop].op = act[Loop].op
  BY <1>1, <1>3, <1>4, GotoMoves DEF Core
<1>6. ActOK(Loop, act'[Loop], unused)
  BY <1>1, <1>2, <1>5 DEF ActOK, Carries, AboutNf, AboutSub, Writing, OfTasks
<1>7. HistOK'
  BY <1>1 DEF Core, HistOK
<1> QED
  BY <1>1, <1>5, <1>6, <1>7, CoreMove

LEMMA SuspendCore ==
  ASSUME Core, Suspend
  PROVE  Core'
<1>1. /\ act[Loop].pc = "suspend" /\ Loop \in Actors
      /\ UNCHANGED <<instances, subs, timers, queue, disk, rest, hist>>
  BY DEF Suspend, At, Actors
<1>2. act[Loop] \in Busy /\ Carries(Loop, act[Loop], unused)
  BY <1>1, BusyFacts DEF Core
<1>3. HistOK'
  BY <1>1 DEF Core, HistOK
<1>4. CASE /\ act[Loop].id \in DOMAIN profiles
           /\ profiles' = [profiles EXCEPT ![act[Loop].id] = "SUSPENDED"] /\ Persist(Loop, "grace")
  <2>1. /\ Moves(Loop) /\ act'[Loop] \in Busy /\ act'[Loop].pc = "snapProfiles"
        /\ act'[Loop].next = "grace" /\ act'[Loop].id = act[Loop].id
        /\ act'[Loop].doc = act[Loop].doc /\ act'[Loop].op = act[Loop].op
    BY <1>1, <1>4, PersistMoves DEF Core, Nexts
  <2>2. ActOK(Loop, act'[Loop], unused)
    BY <1>1, <1>2, <2>1 DEF ActOK, Carries, AboutNf, AboutSub, Writing, OfTasks
  <2>3. profiles' \in Registries /\ DOMAIN profiles' = DOMAIN profiles
    BY <1>4, SetStatus DEF Core, MemoryOK, State
  <2>4. Stored'
    BY <1>1, <2>1, <2>3, StoredMove
  <2> QED
    BY <1>1, <1>3, <2>1, <2>2, <2>3, <2>4, CoreStep DEF Core, MemoryOK
<1>5. CASE Goto(Loop, "grace") /\ UNCHANGED profiles
  <2>1. "grace" \in Pcs \ {"idle"}
    BY DEF Pcs
  <2>2. /\ Moves(Loop) /\ act'[Loop] \in Busy /\ act'[Loop].pc = "grace"
        /\ act'[Loop].id = act[Loop].id /\ act'[Loop].next = act[Loop].next
        /\ act'[Loop].doc = act[Loop].doc /\ act'[Loop].op = act[Loop].op
    BY <1>1, <1>5, <2>1, GotoMoves DEF Core
  <2>3. ActOK(Loop, act'[Loop], unused)
    BY <1>1, <1>2, <2>2 DEF ActOK, Carries, AboutNf, AboutSub, Writing, OfTasks
  <2>4. UNCHANGED <<memory, disk, rest>>
    BY <1>1, <1>5 DEF memory
  <2> QED
    BY <1>1, <1>3, <2>2, <2>3, <2>4, CoreMove
<1> QED
  BY <1>4, <1>5 DEF Suspend

LEMMA GraceCore ==
  ASSUME Core, Grace
  PROVE  Core'
<1>1. act[Loop].pc = "grace" /\ Loop \in Actors /\ UNCHANGED <<memory, disk, rest, hist>>
  BY DEF Grace, At, Actors
<1>2. act[Loop] \in Busy /\ Carries(Loop, act[Loop], unused)
  BY <1>1, BusyFacts DEF Core
<1>3. Moves(Loop) /\ ActOK(Loop, act'[Loop], unused)
  <2>1. CASE Done(Loop)
    BY <1>1, <2>1, DoneMoves DEF Core, ActOK
  <2>2. CASE Goto(Loop, "arm")
    <3>1. "arm" \in Pcs \ {"idle"}
      BY DEF Pcs
    <3>2. /\ Moves(Loop) /\ act'[Loop] \in Busy /\ act'[Loop].pc = "arm"
          /\ act'[Loop].id = act[Loop].id /\ act'[Loop].next = act[Loop].next
          /\ act'[Loop].doc = act[Loop].doc /\ act'[Loop].op = act[Loop].op
      BY <1>1, <2>2, <3>1, GotoMoves DEF Core
    <3> QED
      BY <1>1, <1>2, <3>2 DEF ActOK, Carries, AboutNf, AboutSub, Writing, OfTasks
  <2> QED
    BY <2>1, <2>2 DEF Grace
<1>4. HistOK'
  BY <1>1 DEF Core, HistOK
<1> QED
  BY <1>1, <1>3, <1>4, CoreMove

\* A step of a write: the memory stays.
LEMMA WriteStep ==
  ASSUME Core, NEW a \in Actors, Others(a), ActOK(a, act'[a], unused), act[a].pc # "insert",
         UNCHANGED <<memory, rest>>, DiskOK', HistOK'
  PROVE  Core'
<1>1. ActsOK'
  BY OthersActs DEF Core, rest
<1>2. Stored'
  BY OthersStored DEF Core, Stored, memory
<1>3. MemoryOK'
  BY DEF Core, MemoryOK, memory, rest
<1> QED
  BY <1>1, <1>2, <1>3 DEF Core

LEMMA SnapProfilesMove ==
  ASSUME Core, NEW a \in Actors, SnapProfiles(a)
  PROVE  /\ Others(a) /\ act'[a] \in Busy /\ act'[a].pc = "snapSubs"
         /\ act'[a].doc = Doc(profiles, {}) /\ act'[a].doc \in Snaps
         /\ act'[a].op = act[a].op /\ act'[a].id = act[a].id /\ act'[a].val = act[a].val
         /\ act'[a].next = act[a].next /\ act'[a].fd = act[a].fd
         /\ act'[a].alone = (\A b \in Actors \ {a} : act[b].pc \notin Writing \ {"snapProfiles"})
         /\ \A b \in Actors \ {a} :
              /\ act[b].pc \in Writing \ {"snapProfiles"} => act'[b].alone = FALSE
              /\ act[b].pc \notin Writing \ {"snapProfiles"} => act'[b] = act[b]
              /\ act'[b].fd = act[b].fd
<1> DEFINE others == {b \in Actors \ {a} : act[b].pc \in Writing \ {"snapProfiles"}}
<1>1. act[a].pc = "snapProfiles" /\ act[a] \in Busy
  BY BusyFacts DEF Core, SnapProfiles, At
<1>2. PICK al \in BOOLEAN : al = (others = {})
  OBVIOUS
<1>3. PICK d : d = Doc(profiles, {}) /\ d \in Snaps
  BY DocFacts DEF Core, MemoryOK
<1>4. PICK r : r = [act[a] EXCEPT !.pc = "snapSubs", !.doc = d, !.alone = al]
  OBVIOUS
<1>5. act' = [b \in Actors |-> IF b = a THEN r
                ELSE IF b \in others THEN [act[b] EXCEPT !.alone = FALSE] ELSE act[b]]
  BY <1>2, <1>3, <1>4 DEF SnapProfiles
<1>6. /\ r \in Busy /\ r.pc = "snapSubs" /\ r.doc = d /\ r.alone = al /\ r.op = act[a].op
      /\ r.id = act[a].id /\ r.val = act[a].val /\ r.next = act[a].next /\ r.fd = act[a].fd
  BY <1>1, <1>3, <1>4 DEF Busy, Pcs, Writing
<1>7. ASSUME NEW b \in Actors, b # a
      PROVE  /\ act'[b] \in {Idle} \cup Busy /\ Like(act'[b], act[b]) /\ act'[b].fd = act[b].fd
             /\ act[b].pc \in Writing \ {"snapProfiles"} => act'[b].alone = FALSE
             /\ act[b].pc \notin Writing \ {"snapProfiles"} => act'[b] = act[b]
  <2>1. CASE b \in others
    <3>1. act[b] \in Busy
      <4>1. act[b].pc # "idle"
        BY <2>1 DEF Writing
      <4> QED
        BY <4>1, BusyFacts DEF Core
    <3>2. act'[b] = [act[b] EXCEPT !.alone = FALSE]
      BY <1>5, <1>7, <2>1
    <3>3. Idle \notin Busy
      <4>1. \A x \in Busy : x.pc # "idle"
        BY DEF Busy
      <4> QED
        BY <4>1 DEF Idle
    <3>4. /\ act'[b] \in Busy /\ act'[b].pc = act[b].pc /\ act'[b].op = act[b].op
          /\ act'[b].id = act[b].id /\ act'[b].val = act[b].val /\ act'[b].next = act[b].next
          /\ act'[b].doc = act[b].doc /\ act'[b].fd = act[b].fd /\ act'[b].alone = FALSE
      BY <3>1, <3>2 DEF Busy
    <3> QED
      BY <2>1, <3>1, <3>3, <3>4 DEF Like
  <2>2. CASE b \notin others
    <3>1. act'[b] = act[b] /\ act[b] \in {Idle} \cup Busy
      BY <1>5, <1>7, <2>2 DEF Core, ActsOK
    <3> QED
      BY <1>7, <2>2, <3>1 DEF Like
  <2> QED
    BY <2>1, <2>2
<1>8. act'[a] = r /\ Others(a)
  <2>1. act'[a] = r
    BY <1>5
  <2> QED
    BY <1>5, <1>6, <1>7, <2>1 DEF Others
<1> QED
  BY <1>2, <1>3, <1>6, <1>7, <1>8

LEMMA SnapProfilesCore ==
  ASSUME Core, NEW a \in Actors, SnapProfiles(a)
  PROVE  Core'
<1>1. /\ Others(a) /\ act'[a] \in Busy /\ act'[a].pc = "snapSubs"
      /\ act'[a].doc = Doc(profiles, {}) /\ act'[a].doc \in Snaps
      /\ act'[a].op = act[a].op /\ act'[a].id = act[a].id /\ act'[a].next = act[a].next
  BY SnapProfilesMove
<1>2. act[a].pc = "snapProfiles" /\ UNCHANGED <<memory, disk, rest, hist>>
  BY DEF SnapProfiles, At
<1>3. Carries(a, act[a], unused)
  BY <1>2, BusyFacts DEF Core
<1>4. Earlier(act'[a].doc, unused)
  <2>1. Doc(profiles, {}).s = {}
    BY DocFacts DEF Core, MemoryOK
  <2> QED
    BY <1>1, <2>1 DEF Earlier
<1>5. ActOK(a, act'[a], unused)
  BY <1>1, <1>2, <1>3, <1>4 DEF ActOK, Carries, AboutNf, AboutSub, OfTasks, Writing
<1>6. DiskOK' /\ HistOK'
  BY <1>2 DEF Core, DiskOK, HistOK, disk, rest
<1> QED
  BY <1>1, <1>2, <1>5, <1>6, WriteStep

LEMMA SnapSubsMove ==
  ASSUME Core, NEW a \in Actors, SnapSubs(a)
  PROVE  /\ Moves(a) /\ act'[a] \in Busy /\ act'[a].pc = "open"
         /\ act[a].doc \in Snaps /\ act'[a].doc = Doc(act[a].doc.p, subs) /\ act'[a].doc \in Snaps
         /\ act'[a].op = act[a].op /\ act'[a].id = act[a].id /\ act'[a].val = act[a].val
         /\ act'[a].next = act[a].next /\ act'[a].alone = act[a].alone
<1>1. act[a].pc = "snapSubs" /\ act[a] \in Busy /\ act[a].doc \in Snaps /\ subs \in SUBSET Subs
  BY BusyFacts DEF Core, SnapSubs, At, Carries, MemoryOK
<1>2. PICK d : d = [act[a].doc EXCEPT !.s = subs]
  OBVIOUS
<1>3. d = Doc(act[a].doc.p, subs) /\ d \in Snaps
  BY <1>1, <1>2 DEF Snaps, Doc
<1>4. PICK r : r = [act[a] EXCEPT !.pc = "open", !.doc = d] /\ act' = [act EXCEPT ![a] = r]
  BY <1>2 DEF SnapSubs
<1>5. /\ r \in Busy /\ r.pc = "open" /\ r.doc = d /\ r.alone = act[a].alone /\ r.op = act[a].op
      /\ r.id = act[a].id /\ r.val = act[a].val /\ r.next = act[a].next
  BY <1>1, <1>3, <1>4 DEF Busy, Pcs, Writing
<1>6. Moves(a) /\ act'[a] = r
  BY <1>4, <1>5 DEF Moves, Core, ActsOK
<1> QED
  BY <1>1, <1>3, <1>5, <1>6

LEMMA SnapSubsCore ==
  ASSUME Core, NEW a \in Actors, SnapSubs(a)
  PROVE  Core'
<1>1. /\ Moves(a) /\ act'[a] \in Busy /\ act'[a].pc = "open"
      /\ act[a].doc \in Snaps /\ act'[a].doc = Doc(act[a].doc.p, subs) /\ act'[a].doc \in Snaps
      /\ act'[a].op = act[a].op /\ act'[a].id = act[a].id /\ act'[a].next = act[a].next
  BY SnapSubsMove
<1>2. act[a].pc = "snapSubs" /\ UNCHANGED <<memory, disk, rest, hist>>
  BY DEF SnapSubs, At
<1>3. Carries(a, act[a], unused)
  BY <1>2, BusyFacts DEF Core
<1>4. Earlier(act'[a].doc, unused)
  <2>1. act'[a].doc.s = subs
    BY <1>1 DEF Doc
  <2> QED
    BY <2>1 DEF Earlier, Core, MemoryOK
<1>5. ActOK(a, act'[a], unused)
  BY <1>1, <1>2, <1>3, <1>4 DEF ActOK, Carries, AboutNf, AboutSub, OfTasks, Writing
<1>6. HistOK'
  BY <1>2 DEF Core, HistOK
<1> QED
  BY <1>1, <1>2, <1>5, <1>6, CoreMove

LEMMA OpenMove ==
  ASSUME Core, NEW a \in Actors, Open(a)
  PROVE  /\ Moves(a) /\ act'[a] \in Busy /\ act'[a].pc = "fill" /\ act'[a].fd = "tmp"
         /\ act'[a].op = act[a].op /\ act'[a].id = act[a].id /\ act'[a].val = act[a].val
         /\ act'[a].next = act[a].next /\ act'[a].doc = act[a].doc
         /\ act'[a].alone = act[a].alone
<1>1. act[a].pc = "open" /\ act[a] \in Busy
  BY BusyFacts DEF Core, Open, At
<1>2. PICK r : r = [act[a] EXCEPT !.pc = "fill", !.fd = "tmp"] /\ act' = [act EXCEPT ![a] = r]
  BY DEF Open
<1>3. /\ r \in Busy /\ r.pc = "fill" /\ r.fd = "tmp" /\ r.doc = act[a].doc
      /\ r.alone = act[a].alone /\ r.op = act[a].op
      /\ r.id = act[a].id /\ r.val = act[a].val /\ r.next = act[a].next
  BY <1>1, <1>2 DEF Busy, Pcs, Writing
<1>4. Moves(a) /\ act'[a] = r
  BY <1>2, <1>3 DEF Moves, Core, ActsOK
<1> QED
  BY <1>3, <1>4

LEMMA OpenCore ==
  ASSUME Core, NEW a \in Actors, Open(a)
  PROVE  Core'
<1>1. /\ Moves(a) /\ act'[a] \in Busy /\ act'[a].pc = "fill" /\ act'[a].doc = act[a].doc
      /\ act'[a].op = act[a].op /\ act'[a].id = act[a].id /\ act'[a].next = act[a].next
  BY OpenMove
<1>2. act[a].pc = "open" /\ UNCHANGED <<memory, file, rest, hist>> /\ tmp' = Blank
  BY DEF Open, At
<1>3. Carries(a, act[a], unused)
  BY <1>2, BusyFacts DEF Core
<1>4. ActOK(a, act'[a], unused)
  BY <1>1, <1>2, <1>3 DEF ActOK, Carries, AboutNf, AboutSub, OfTasks, Writing
<1>5. DiskOK' /\ HistOK'
  BY <1>2, KindFacts DEF Core, DiskOK, HistOK, rest, Files, Earlier
<1> QED
  BY <1>1, <1>2, <1>4, <1>5, WriteStep, MovesOthers

LEMMA FillMove ==
  ASSUME Core, NEW a \in Actors, Fill(a)
  PROVE  /\ Moves(a) /\ act'[a] \in Busy /\ act'[a].pc = "rename" /\ act'[a].doc = None
         /\ act'[a].op = act[a].op /\ act'[a].id = act[a].id /\ act'[a].val = act[a].val
         /\ act'[a].next = act[a].next /\ act'[a].alone = act[a].alone
<1>1. act[a].pc = "fill" /\ act[a] \in Busy
  BY BusyFacts DEF Core, Fill, At
<1>2. PICK r : /\ r = [act[a] EXCEPT !.pc = "rename", !.doc = None, !.fd = "gone"]
               /\ act' = [act EXCEPT ![a] = r]
  BY DEF Fill
<1>3. /\ r \in Busy /\ r.pc = "rename" /\ r.doc = None /\ r.alone = act[a].alone
      /\ r.op = act[a].op /\ r.id = act[a].id /\ r.val = act[a].val /\ r.next = act[a].next
  BY <1>1, <1>2 DEF Busy, Pcs, Writing
<1>4. Moves(a) /\ act'[a] = r
  BY <1>2, <1>3 DEF Moves, Core, ActsOK
<1> QED
  BY <1>3, <1>4

LEMMA FillCore ==
  ASSUME Core, NEW a \in Actors, Fill(a)
  PROVE  Core'
<1>1. /\ Moves(a) /\ act'[a] \in Busy /\ act'[a].pc = "rename" /\ act'[a].doc = None
      /\ act'[a].op = act[a].op /\ act'[a].id = act[a].id /\ act'[a].next = act[a].next
  BY FillMove
<1>2. act[a].pc = "fill" /\ UNCHANGED <<memory, rest, hist>>
  BY DEF Fill, At
<1>3. Carries(a, act[a], unused)
  BY <1>2, BusyFacts DEF Core
<1>4. ActOK(a, act'[a], unused)
  BY <1>1, <1>2, <1>3, KindFacts DEF ActOK, Carries, AboutNf, AboutSub, OfTasks, Writing, Earlier
<1>5. \A x : \A y \in Overlay(x, act[a].doc) : y \in Files /\ Earlier(y, unused)
  <2>1. act[a].doc \in Snaps /\ Earlier(act[a].doc, unused)
    BY <1>2, <1>3 DEF Carries
  <2> QED
    BY <2>1, KindFacts DEF Overlay, Files, Earlier
<1>6. DiskOK' /\ HistOK'
  BY <1>2, <1>5 DEF Fill, Core, DiskOK, HistOK, rest, disk
<1> QED
  BY <1>1, <1>2, <1>4, <1>6, WriteStep, MovesOthers

LEMMA ResumeFacts ==
  ASSUME ActsOK, NEW a \in Actors, act[a].pc \in Writing, NEW r, r = Resume(a)
  PROVE  /\ act[a].next = "idle" => r = Idle
         /\ act[a].next # "idle" =>
              /\ r \in Busy /\ r.pc = act[a].next /\ r.next = "idle" /\ r.id = act[a].id
              /\ r.op = act[a].op /\ r.doc = None
<1>1. act[a] \in Busy
  BY BusyFacts DEF Writing
<1>2. Nexts \ {"idle"} \subseteq Pcs \ {"idle"}
  BY DEF Nexts, Pcs
<1> QED
  BY <1>1, <1>2 DEF Resume, Busy, Nexts

LEMMA RenameMove ==
  ASSUME Core, NEW a \in Actors, Rename(a)
  PROVE  /\ Others(a) /\ act'[a] = Resume(a)
         /\ \A b \in Actors \ {a} :
              /\ act'[b].alone = act[b].alone
              /\ act[b].pc # "fill" => act'[b] = act[b]
<1>1. act[a].pc = "rename"
  BY DEF Rename, At
<1>2. PICK r : r = Resume(a)
  OBVIOUS
<1>3. act' = [b \in Actors |->
         IF b = a THEN r
         ELSE IF ~At(b, "fill") THEN act[b]
         ELSE [act[b] EXCEPT !.fd = IF @ = "tmp" THEN "file" ELSE "gone"]]
  BY <1>2 DEF Rename
<1>4. r \in {Idle} \cup Busy
  BY <1>1, <1>2, ResumeFacts DEF Core, Writing
<1>5. ASSUME NEW b \in Actors, b # a
      PROVE  /\ act'[b] \in {Idle} \cup Busy /\ Like(act'[b], act[b])
             /\ act'[b].alone = act[b].alone
             /\ act[b].pc # "fill" => act'[b] = act[b]
  <2>1. CASE ~At(b, "fill")
    <3>1. act'[b] = act[b] /\ act[b] \in {Idle} \cup Busy
      BY <1>3, <1>5, <2>1 DEF Core, ActsOK
    <3> QED
      BY <3>1 DEF Like
  <2>2. CASE At(b, "fill")
    <3>1. act[b].pc = "fill" /\ act[b] \in Busy
      BY <2>2, BusyFacts DEF Core, At
    <3>2. PICK f \in {"file", "gone"} : act'[b] = [act[b] EXCEPT !.fd = f]
      BY <1>3, <1>5, <2>2
    <3>3. /\ act'[b] \in Busy /\ act'[b].pc = act[b].pc /\ act'[b].op = act[b].op
          /\ act'[b].id = act[b].id /\ act'[b].val = act[b].val /\ act'[b].next = act[b].next
          /\ act'[b].doc = act[b].doc /\ act'[b].alone = act[b].alone
      BY <3>1, <3>2 DEF Busy
    <3>4. act[b] # Idle
      BY <3>1 DEF Idle
    <3> QED
      BY <2>2, <3>1, <3>3, <3>4 DEF Like, At
  <2> QED
    BY <2>1, <2>2
<1>6. act'[a] = r
  BY <1>3
<1> QED
  BY <1>2, <1>3, <1>4, <1>5, <1>6 DEF Others

LEMMA ResumeOK ==
  ASSUME ActsOK, NEW a \in Actors, act[a].pc \in Writing, Carries(a, act[a], unused)
  PROVE  ActOK(a, Resume(a), unused)
<1>1. PICK r : /\ r = Resume(a)
               /\ act[a].next = "idle" => r = Idle
               /\ act[a].next # "idle" =>
                    /\ r \in Busy /\ r.pc = act[a].next /\ r.next = "idle" /\ r.id = act[a].id
                    /\ r.op = act[a].op /\ r.doc = None
  BY ResumeFacts
<1>2. act[a].next \in Nexts
  BY BusyFacts DEF Busy, Writing
<1> QED
  BY <1>1, <1>2, KindFacts
  DEF ActOK, Carries, AboutNf, AboutSub, OfTasks, Writing, Earlier, Nexts

LEMMA RenameCore ==
  ASSUME Core, NEW a \in Actors, Rename(a)
  PROVE  Core'
<1>1. Others(a) /\ act'[a] = Resume(a)
  BY RenameMove
<1>2. act[a].pc = "rename" /\ UNCHANGED <<memory, rest>>
  BY DEF Rename, At
<1>3. Carries(a, act[a], unused) /\ act[a] \in Busy
  BY <1>2, BusyFacts DEF Core
<1>4. ActOK(a, act'[a], unused)
  BY <1>1, <1>2, <1>3, ResumeOK DEF Core, Writing
<1>5. DiskOK'
  BY <1>2, KindFacts DEF Rename, Core, DiskOK, rest, disk, Files, Earlier
<1>6. HistOK'
  <2>1. act[a].alone \in BOOLEAN
    BY <1>3 DEF Busy
  <2> QED
    BY <2>1 DEF Rename, Core, HistOK
<1> QED
  BY <1>1, <1>2, <1>4, <1>5, <1>6, WriteStep

LEMMA WriteFailsMove ==
  ASSUME Core, NEW a \in Actors, WriteFails(a)
  PROVE  /\ Moves(a) /\ act'[a] = Resume(a) /\ act[a].pc \in {"open", "fill", "rename"}
         /\ UNCHANGED <<memory, rest>>
         /\ hist'.restored = hist.restored /\ hist'.overlap = hist.overlap
         /\ hist'.was = hist.was /\ hist'.raced = hist.raced /\ hist'.failed = TRUE
<1>1. act[a].pc \in {"open", "fill", "rename"} /\ UNCHANGED <<memory, rest>>
  BY DEF WriteFails
<1>2. PICK r : r = Resume(a) /\ act' = [act EXCEPT ![a] = r]
  BY DEF WriteFails
<1>3. r \in {Idle} \cup Busy
  BY <1>1, <1>2, ResumeFacts DEF Core, Writing
<1>4. Moves(a) /\ act'[a] = r
  BY <1>2, <1>3 DEF Moves, Core, ActsOK
<1>5. /\ hist'.restored = hist.restored /\ hist'.overlap = hist.overlap
      /\ hist'.was = hist.was /\ hist'.raced = hist.raced /\ hist'.failed = TRUE
  BY DEF WriteFails, Core, HistOK
<1> QED
  BY <1>1, <1>2, <1>4, <1>5

LEMMA WriteFailsCore ==
  ASSUME Core, NEW a \in Actors, WriteFails(a)
  PROVE  Core'
<1>1. /\ Moves(a) /\ act'[a] = Resume(a) /\ act[a].pc \in {"open", "fill", "rename"}
      /\ UNCHANGED <<memory, rest>>
  BY WriteFailsMove
<1>2. Carries(a, act[a], unused) /\ act[a] \in Busy
  BY <1>1, BusyFacts DEF Core
<1>3. ActOK(a, act'[a], unused)
  BY <1>1, <1>2, ResumeOK DEF Core, Writing
<1>4. DiskOK'
  BY <1>1, KindFacts DEF WriteFails, Core, DiskOK, rest, disk, Files, Earlier
<1>5. HistOK'
  BY DEF WriteFails, Core, HistOK
<1> QED
  BY <1>1, <1>3, <1>4, <1>5, WriteStep, MovesOthers

LEMMA RestartCore ==
  ASSUME Core, Restart
  PROVE  Core'
<1>1. PICK d \in Loads(file) :
        /\ profiles' = d.p /\ instances' = DOMAIN d.p /\ subs' = d.s
        /\ hist' = [restored |-> DOMAIN d.p \cup d.s, overlap |-> {},
                    raced |-> file.kind \in {"blank", "mixed"}, failed |-> d # Loaded(file),
                    was |-> [n \in Nfs |-> "none"]]
  BY DEF Restart
<1>2. /\ profiles' = d.p /\ instances' = DOMAIN d.p /\ subs' = d.s /\ timers' = {} /\ queue' = {}
      /\ act' = [a \in Actors |-> Idle] /\ UNCHANGED <<disk, asked, unused>>
      /\ d \in Snaps /\ d.s \cap unused = {} /\ d.p \in Registries /\ d.s \in SUBSET Subs
  BY <1>1, LoadsFacts DEF Restart, Core, DiskOK
<1>3. DOMAIN d.p \subseteq Nfs
  BY <1>2, RegistryFacts
<1>4. MemoryOK'
  <2>1. restarts' \in 0..MaxRestarts
    <3>1. MaxRestarts \in Nat /\ restarts \in 0..MaxRestarts
      BY NrfAssumption DEF Core, MemoryOK
    <3>2. restarts < MaxRestarts /\ restarts' = restarts + 1
      BY DEF Restart
    <3> QED
      BY <3>1, <3>2, OneMore, Zenon
  <2> QED
    BY <1>2, <1>3, <2>1 DEF Core, MemoryOK
<1>5. ActsOK'
  BY <1>2 DEF ActsOK, ActOK
<1>6. DiskOK'
  BY <1>2 DEF Core, DiskOK, disk
<1>7. HistOK'
  <2>1. [n \in Nfs |-> "none"] \in [Nfs -> Past]
    BY DEF Past
  <2>2. (file.kind \in {"blank", "mixed"}) \in BOOLEAN /\ (d # Loaded(file)) \in BOOLEAN
    OBVIOUS
  <2>3. \E ra, fa \in BOOLEAN, w \in [Nfs -> Past] :
          hist' = [restored |-> DOMAIN d.p \cup d.s, overlap |-> {}, raced |-> ra,
                   failed |-> fa, was |-> w]
    BY <1>1, <2>1, <2>2, Zenon
  <2>4. DOMAIN d.p \cup d.s \in SUBSET Ids
    BY <1>2, <1>3 DEF Ids
  <2> QED
    BY <2>3, <2>4 DEF HistOK
<1>8. Stored'
  BY <1>2 DEF Stored
<1> QED
  BY <1>4, <1>5, <1>6, <1>7, <1>8 DEF Core

LEMMA InitCore == Init => Core
<1> SUFFICES ASSUME Init PROVE Core
  OBVIOUS
<1>1. file \in Files
  BY LeftAssumption, DocFacts DEF Init, Files
<1>2. PICK d : /\ d = Loaded(file) /\ d \in Snaps
               /\ d.p \in Registries /\ d.s \in SUBSET Subs
  <2>1. Earlier(file, {})
    BY DEF Earlier
  <2> QED
    BY <1>1, <2>1, LoadedFacts
<1>3. /\ profiles = d.p /\ instances = DOMAIN d.p /\ subs = d.s /\ timers = {} /\ queue = {}
      /\ act = [a \in Actors |-> Idle] /\ tmp = None /\ unused = Subs \ d.s
      /\ asked = 0 /\ restarts \in {0, 1} /\ (file # None => MaxRestarts > 0)
      /\ (file = None => restarts = 0)
  BY <1>2, LeftAssumption DEF Init
<1>4. DOMAIN d.p \subseteq Nfs
  BY <1>2, RegistryFacts
<1>5. MemoryOK
  <2>1. MaxRequests \in Nat /\ MaxRestarts \in Nat
    BY NrfAssumption
  <2>2. asked \in 0..MaxRequests /\ restarts \in 0..MaxRestarts
    BY <1>3, <2>1
  <2> QED
    BY <1>2, <1>3, <1>4, <2>2 DEF MemoryOK
<1>6. ActsOK
  BY <1>3 DEF ActsOK, ActOK
<1>7. DiskOK
  <2>1. Earlier(file, unused)
    BY <1>2, <1>3 DEF Earlier, Loaded
  <2> QED
    BY <1>1, <1>3, <2>1, KindFacts DEF DiskOK, Files, Earlier
<1>8. HistOK
  <2>1. [n \in Nfs |-> "none"] \in [Nfs -> Past]
    BY DEF Past
  <2>2. \E w \in [Nfs -> Past] :
          hist = [restored |-> DOMAIN d.p \cup d.s, overlap |-> {}, raced |-> FALSE,
                  failed |-> FALSE, was |-> w]
    BY <1>2, <2>1 DEF Init
  <2>3. DOMAIN d.p \cup d.s \in SUBSET Ids
    BY <1>2, <1>4 DEF Ids
  <2> QED
    BY <2>2, <2>3 DEF HistOK
<1>9. Stored
  BY <1>3 DEF Stored
<1> QED
  BY <1>5, <1>6, <1>7, <1>8, <1>9 DEF Core

LEMMA WriteCore ==
  ASSUME Core, NEW a \in Actors, Write(a)
  PROVE  Core'
BY SnapProfilesCore, SnapSubsCore, OpenCore, FillCore, RenameCore, WriteFailsCore DEF Write

LEMMA NextCore ==
  ASSUME Core, [Next]_vars
  PROVE  Core'
<1>1. Loop \in Actors /\ Tasks \subseteq Actors
  BY DEF Actors
<1>2. ASSUME NEW t \in Tasks, Step(t) PROVE Core'
  BY <1>1, <1>2, AddInstanceCore, InsertCore, ArmCore, ReactivateCore, RemoveCore, DisarmCore,
     AddSubCore, StartTimerCore, RemoveSubCore, WriteCore
  DEF Step
<1>3. CASE LoopStep
  BY <1>1, <1>3, TickCore, NextEventCore, CheckCore, SuspendCore, GraceCore, ArmCore, RemoveCore,
     DisarmCore, RemoveSubCore, WriteCore
  DEF LoopStep
<1>4. CASE UNCHANGED vars
  BY <1>4 DEF vars, Core, MemoryOK, ActsOK, DiskOK, HistOK, Stored
<1> QED
  BY <1>2, <1>3, <1>4, RequestCore, RestartCore DEF Next

(***************************************************************************)
(* What each actor carries at each place of its operation, and that no     *)
(* file or snapshot is anything but a registry of the past.                *)
(***************************************************************************)
THEOREM CoreInvariance == Spec => []Core
BY InitCore, NextCore, PTL DEF Spec

(***************************************************************************)
(* Type correctness.  An instance without profile is one that a request    *)
(* is about to store, however requests and the event loop interleave.      *)
(***************************************************************************)
THEOREM TypeCorrect == Spec => []TypeOK
<1>1. Core => TypeOK
  <2> SUFFICES ASSUME Core PROVE TypeOK
    OBVIOUS
  <2>1. ASSUME NEW a \in Actors PROVE act[a].pc \in Pcs
    <3>1. act[a] = Idle \/ act[a] \in Busy
      BY DEF Core, ActsOK
    <3>2. Idle.pc \in Pcs /\ \A x \in Busy : x.pc \in Pcs
      BY DEF Idle, Busy, Pcs
    <3> QED
      BY <3>1, <3>2
  <2> QED
    BY <2>1 DEF Core, MemoryOK, Stored, TypeOK, Ids
<1> QED
  BY <1>1, CoreInvariance, PTL

-----------------------------------------------------------------------------
(* Supervision.                                                            *)

\* The actor has the timer of id in hand.
Hand(r, id) ==
  /\ r.pc # "idle" /\ r.id = id
  /\ \/ r.next \in {"arm", "startTimer", "grace"}
     \/ r.pc \in {"arm", "startTimer", "check", "suspend", "grace", "remove", "removeSub"}

Charge == (DOMAIN profiles \cup subs) \ (hist.restored \cup hist.overlap)

Watched   == \A id \in Charge : id \in timers \cup queue \/ \E a \in Actors : Hand(act[a], id)
Backed    == DOMAIN profiles \subseteq instances \cup hist.overlap
Inserting == \A a \in Actors : act[a].pc = "insert" => act[a].id \in instances \cup hist.overlap
Sup       == Watched /\ Backed /\ Inserting

LEMMA SupMove ==
  ASSUME Core, Sup, NEW a \in Actors, Others(a),
         \A id \in Charge' :
           \/ id \in timers' \cup queue'
           \/ Hand(act'[a], id)
           \/ /\ id \in Charge /\ ~Hand(act[a], id)
              /\ id \in timers \cup queue => id \in timers' \cup queue',
         Backed',
         act'[a].pc = "insert" => act'[a].id \in instances' \cup hist'.overlap,
         \A b \in Actors \ {a} :
           act[b].pc = "insert" /\ act[b].id \in instances \cup hist.overlap
             => act[b].id \in instances' \cup hist'.overlap
  PROVE  Sup'
<1>1. ASSUME NEW b \in Actors \ {a}
      PROVE  /\ act'[b].pc = act[b].pc
             /\ act[b].pc # "idle" => act'[b].id = act[b].id /\ act'[b].next = act[b].next
  <2>1. Like(act'[b], act[b]) /\ (act[b].pc # "idle" => act[b] \in Busy)
    BY BusyFacts DEF Others, Core
  <2> QED
    BY <2>1 DEF Like
<1>2. Watched'
  <2> SUFFICES ASSUME NEW id \in Charge', id \notin timers' \cup queue'
               PROVE  \E b \in Actors : Hand(act'[b], id)
    BY DEF Watched
  <2>1. CASE Hand(act'[a], id)
    BY <2>1
  <2>2. CASE /\ id \in Charge /\ ~Hand(act[a], id)
             /\ id \in timers \cup queue => id \in timers' \cup queue'
    <3>1. PICK b \in Actors : Hand(act[b], id)
      BY <2>2 DEF Sup, Watched
    <3>2. b \in Actors \ {a}
      BY <2>2, <3>1
    <3>3. Hand(act'[b], id)
      BY <1>1, <3>1, <3>2 DEF Hand
    <3> QED
      BY <3>3
  <2> QED
    BY <2>1, <2>2
<1>3. Inserting'
  <2> SUFFICES ASSUME NEW b \in Actors, act'[b].pc = "insert"
               PROVE  act'[b].id \in instances' \cup hist'.overlap
    BY DEF Inserting
  <2>1. CASE b = a
    BY <2>1
  <2>2. CASE b \in Actors \ {a}
    <3>1. act[b].pc = "insert" /\ act'[b].id = act[b].id
      BY <1>1, <2>2
    <3> QED
      BY <2>2, <3>1 DEF Sup, Inserting
  <2> QED
    BY <2>1, <2>2
<1> QED
  BY <1>2, <1>3 DEF Sup

\* A move that changes the registry in nothing.
LEMMA SupQuiet ==
  ASSUME Core, Sup, NEW a \in Actors, Others(a), UNCHANGED memory,
         hist'.restored = hist.restored, hist'.overlap = hist.overlap,
         \A id \in Charge : Hand(act[a], id) => Hand(act'[a], id),
         act'[a].pc # "insert"
  PROVE  Sup'
<1>1. UNCHANGED <<instances, profiles, subs, timers, queue>>
  BY DEF memory
<1>2. Charge' = Charge /\ Backed'
  BY <1>1 DEF Charge, Backed, Sup
<1> QED
  BY <1>1, <1>2, SupMove

LEMMA NotInHand ==
  ASSUME NEW r, r.pc = "idle"
  PROVE  \A id : ~Hand(r, id)
BY DEF Hand

LEMMA BeginMove ==
  ASSUME Core, NEW t \in Tasks, NEW pc, NEW op, NEW id, NEW val, Begin(t, pc, op, id, val), Core'
  PROVE  /\ Moves(t) /\ t \in Actors /\ act[t].pc = "idle" /\ act'[t].pc = pc
         /\ UNCHANGED <<memory, disk, hist>>
<1>1. PICK r : /\ r = [pc |-> pc, op |-> op, id |-> id, val |-> val, next |-> "idle",
                       doc |-> None, fd |-> "gone", alone |-> FALSE]
               /\ act' = [act EXCEPT ![t] = r]
  BY DEF Begin
<1>2. r.pc = pc /\ t \in Actors
  BY <1>1 DEF Actors
<1>3. act'[t] = r /\ act' \in [Actors -> {Idle} \cup Busy]
  BY <1>1, <1>2 DEF Core, ActsOK
<1>4. Moves(t)
  BY <1>1, <1>3 DEF Moves, Core, ActsOK
<1> QED
  BY <1>2, <1>3, <1>4 DEF Begin, At

LEMMA RequestMove ==
  ASSUME Core, Core', NEW t \in Tasks, Request(t)
  PROVE  /\ Moves(t) /\ t \in Actors /\ act[t].pc = "idle"
         /\ act'[t].pc \in {"addInstance", "remove", "addSub", "removeSub"}
         /\ UNCHANGED <<memory, disk, hist>>
<1>1. PICK pc \in {"addInstance", "remove", "addSub", "removeSub"} :
        \E op, id, val : Begin(t, pc, op, id, val)
  BY DEF Request, NfRegister, NfUpdate, NfDeregister, SubscriptionCreate, SubscriptionDelete
<1> QED
  BY <1>1, BeginMove

LEMMA RequestSup ==
  ASSUME Core, Core', Sup, NEW t \in Tasks, Request(t)
  PROVE  Sup'
<1>1. /\ Moves(t) /\ t \in Actors /\ act[t].pc = "idle"
      /\ act'[t].pc \in {"addInstance", "remove", "addSub", "removeSub"}
      /\ UNCHANGED <<memory, disk, hist>>
  BY RequestMove
<1> QED
  BY <1>1, MovesOthers, SupQuiet, NotInHand

LEMMA AddInstanceMove ==
  ASSUME Core, NEW t \in Tasks, AddInstance(t)
  PROVE  /\ t \in Actors /\ act[t].pc = "addInstance" /\ Moves(t)
         /\ act'[t] \in Busy /\ act'[t].pc = "insert" /\ act'[t].id = act[t].id
         /\ act[t].next = "idle" /\ act'[t].next = "idle"
         /\ UNCHANGED <<profiles, subs, timers, queue, disk, rest, hist>>
         /\ instances' = instances \cup {act[t].id}
<1>1. t \in Actors /\ act[t].pc = "addInstance"
  BY DEF Actors, AddInstance, At
<1>2. Carries(t, act[t], unused)
  BY <1>1, BusyFacts DEF Core
<1>3. "insert" \in Pcs \ {"idle"} /\ Goto(t, "insert")
  BY DEF Pcs, AddInstance
<1>4. /\ Moves(t) /\ act'[t] \in Busy /\ act'[t].pc = "insert" /\ act'[t].id = act[t].id
      /\ act'[t].next = act[t].next
  BY <1>1, <1>3, GotoMoves DEF Core
<1>5. act[t].next = "idle"
  BY <1>1, <1>2 DEF Carries, Writing
<1> QED
  BY <1>1, <1>4, <1>5 DEF AddInstance

LEMMA AddInstanceSup ==
  ASSUME Core, Sup, NEW t \in Tasks, AddInstance(t)
  PROVE  Sup'
<1>1. /\ t \in Actors /\ act[t].pc = "addInstance" /\ Moves(t)
      /\ act'[t] \in Busy /\ act'[t].pc = "insert" /\ act'[t].id = act[t].id
      /\ act[t].next = "idle"
      /\ UNCHANGED <<profiles, subs, timers, queue, disk, rest, hist>>
      /\ instances' = instances \cup {act[t].id}
  BY AddInstanceMove
<1>2. \A id : ~Hand(act[t], id)
  BY <1>1 DEF Hand
<1>3. Charge' = Charge /\ Backed'
  BY <1>1 DEF Charge, Backed, Sup
<1>4. \A b \in Actors \ {t} : act[b].id \in instances \cup hist.overlap
                                => act[b].id \in instances' \cup hist'.overlap
  BY <1>1
<1> QED
  BY <1>1, <1>2, <1>3, <1>4, MovesOthers, SupMove

LEMMA InsertMove ==
  ASSUME Core, NEW t \in Tasks, Insert(t)
  PROVE  /\ t \in Actors /\ act[t].pc = "insert" /\ Moves(t) /\ act[t].id \in Nfs
         /\ act[t].val \in State
         /\ act'[t] \in Busy /\ act'[t].pc = "snapProfiles" /\ act'[t].next = "arm"
         /\ act'[t].id = act[t].id /\ DOMAIN profiles' = DOMAIN profiles \cup {act[t].id}
         /\ \A m \in DOMAIN profiles \ {act[t].id} : profiles'[m] = profiles[m]
         /\ UNCHANGED <<instances, subs, timers, queue, disk, rest>> /\ hist' = Touched(act[t].id)
<1>1. t \in Actors /\ act[t].pc = "insert"
  BY DEF Actors, Insert, At
<1>2. Carries(t, act[t], unused)
  BY <1>1, BusyFacts DEF Core
<1>3. /\ Moves(t) /\ act'[t] \in Busy /\ act'[t].pc = "snapProfiles" /\ act'[t].next = "arm"
      /\ act'[t].id = act[t].id
  BY <1>1, PersistMoves DEF Insert, Core, Nexts
<1>4. PICK n \in Nfs : n = act[t].id
  BY <1>1, <1>2 DEF Carries, AboutNf
<1>5. profiles' = [m \in DOMAIN profiles \cup {n} |-> IF m = n THEN act[t].val ELSE profiles[m]]
  BY <1>4 DEF Insert
<1>6. act[t].val \in State
  BY <1>1, <1>2 DEF Carries
<1> QED
  BY <1>1, <1>3, <1>4, <1>5, <1>6 DEF Insert

LEMMA InsertSup ==
  ASSUME Core, Sup, NEW t \in Tasks, Insert(t)
  PROVE  Sup'
<1>1. /\ t \in Actors /\ act[t].pc = "insert" /\ Moves(t) /\ act[t].id \in Nfs
      /\ act'[t] \in Busy /\ act'[t].pc = "snapProfiles" /\ act'[t].next = "arm"
      /\ act'[t].id = act[t].id /\ DOMAIN profiles' = DOMAIN profiles \cup {act[t].id}
      /\ UNCHANGED <<instances, subs, timers, queue, disk, rest>> /\ hist' = Touched(act[t].id)
  BY InsertMove
<1>2. hist'.restored = hist.restored /\ hist'.overlap = hist.overlap
  BY <1>1, TouchedOK DEF Core
<1>3. act[t].id \in instances \cup hist.overlap
  BY <1>1 DEF Sup, Inserting
<1>4. Backed'
  BY <1>1, <1>2, <1>3 DEF Sup, Backed
<1>5. Hand(act'[t], act[t].id)
  BY <1>1 DEF Hand
<1>6. Charge' \subseteq Charge \cup {act[t].id}
  BY <1>1, <1>2 DEF Charge
<1>7. \A id \in Charge' : id # act[t].id => id \in Charge /\ ~Hand(act[t], id)
  BY <1>6 DEF Hand
<1> QED
  BY <1>1, <1>2, <1>4, <1>5, <1>7, MovesOthers, SupMove

LEMMA ArmSup ==
  ASSUME Core, Sup, NEW a \in Actors, Arm(a)
  PROVE  Sup'
<1>1. /\ act[a].pc = "arm" /\ timers' = timers \cup {act[a].id}
      /\ UNCHANGED <<instances, profiles, subs, queue, disk, rest>>
  BY DEF Arm, At
<1>2. Moves(a) /\ act'[a].pc # "insert"
  <2>1. CASE Done(a)
    BY <2>1, DoneMoves DEF Core
  <2>2. CASE Goto(a, "reactivate")
    <3>1. "reactivate" \in Pcs \ {"idle"}
      BY DEF Pcs
    <3> QED
      BY <1>1, <2>2, <3>1, GotoMoves DEF Core
  <2> QED
    BY <2>1, <2>2 DEF Arm
<1>3. CASE act[a].id \in instances \cap DOMAIN profiles
  <2>1. hist' = [hist EXCEPT !.restored = @ \ {act[a].id}, !.overlap = @ \ {act[a].id}]
    BY <1>3 DEF Arm
  <2>2. hist'.restored = hist.restored \ {act[a].id} /\ hist'.overlap = hist.overlap \ {act[a].id}
    BY <2>1 DEF Core, HistOK
  <2>3. Backed' /\ instances' \cup hist'.overlap = instances \cup hist.overlap
    BY <1>1, <1>3, <2>2, Zenon DEF Sup, Backed
  <2>4. \A id \in Charge' : id \in timers' \/ (id \in Charge /\ ~Hand(act[a], id))
    BY <1>1, <2>2 DEF Charge, Hand
  <2> QED
    BY <1>1, <1>2, <2>3, <2>4, MovesOthers, SupMove
<1>4. CASE act[a].id \notin instances \cap DOMAIN profiles
  <2>1. hist' = hist
    BY <1>4 DEF Arm
  <2>2. Charge' = Charge /\ Backed'
    BY <1>1, <2>1 DEF Charge, Sup, Backed
  <2>3. \A id \in Charge' : id \in timers' \/ (id \in Charge /\ ~Hand(act[a], id))
    BY <1>1, <2>2 DEF Hand
  <2> QED
    BY <1>1, <1>2, <2>1, <2>2, <2>3, MovesOthers, SupMove
<1> QED
  BY <1>3, <1>4

\* What a change of one NF's status does.
LEMMA ReactivateMove ==
  ASSUME Core, NEW t \in Tasks, Reactivate(t)
  PROVE  /\ t \in Actors /\ act[t].pc = "reactivate" /\ act[t].next = "idle"
         /\ act[t].id \in Nfs /\ Moves(t) /\ DOMAIN profiles' = DOMAIN profiles
         /\ UNCHANGED <<instances, subs, timers, queue, disk, rest>>
         /\ \/ act'[t] = Idle /\ act'[t].pc = "idle" /\ UNCHANGED <<profiles, hist>>
            \/ /\ act'[t] \in Busy /\ act'[t].pc = "snapProfiles" /\ act'[t].next = "idle"
               /\ hist' = Touched(act[t].id)
               /\ \A m \in DOMAIN profiles \ {act[t].id} : profiles'[m] = profiles[m]
<1>1. t \in Actors /\ act[t].pc = "reactivate"
  BY DEF Actors, Reactivate, At
<1>2. Carries(t, act[t], unused)
  BY <1>1, BusyFacts DEF Core
<1>3. act[t].next = "idle" /\ act[t].id \in Nfs
  BY <1>1, <1>2 DEF Carries, Writing, AboutNf
<1>4. CASE Done(t) /\ UNCHANGED <<profiles, hist>>
  BY <1>1, <1>3, <1>4, DoneMoves DEF Core, Reactivate
<1>5. CASE /\ act[t].id \in DOMAIN profiles
           /\ profiles' = [profiles EXCEPT ![act[t].id] = "REGISTERED"]
           /\ hist' = Touched(act[t].id) /\ Persist(t, "idle")
  <2>1. /\ Moves(t) /\ act'[t] \in Busy /\ act'[t].pc = "snapProfiles" /\ act'[t].next = "idle"
    BY <1>1, <1>5, PersistMoves DEF Core, Nexts
  <2>2. /\ DOMAIN profiles' = DOMAIN profiles
        /\ \A m \in DOMAIN profiles \ {act[t].id} : profiles'[m] = profiles[m]
    BY <1>5
  <2> QED
    BY <1>1, <1>3, <1>5, <2>1, <2>2 DEF Reactivate
<1> QED
  BY <1>4, <1>5 DEF Reactivate

LEMMA ReactivateSup ==
  ASSUME Core, Sup, NEW t \in Tasks, Reactivate(t)
  PROVE  Sup'
<1>1. /\ t \in Actors /\ act[t].pc = "reactivate" /\ act[t].next = "idle"
      /\ act[t].id \in Nfs /\ Moves(t) /\ DOMAIN profiles' = DOMAIN profiles
      /\ UNCHANGED <<instances, subs, timers, queue, disk, rest>>
      /\ act'[t].pc # "insert" /\ (hist' = hist \/ hist' = Touched(act[t].id))
  BY ReactivateMove
<1>2. hist'.restored = hist.restored /\ hist'.overlap = hist.overlap
  BY <1>1, TouchedOK DEF Core
<1>3. Charge' = Charge /\ Backed'
  BY <1>1, <1>2 DEF Charge, Sup, Backed
<1>4. \A id : ~Hand(act[t], id)
  BY <1>1 DEF Hand
<1> QED
  BY <1>1, <1>2, <1>3, <1>4, MovesOthers, SupMove

LEMMA RemoveMove ==
  ASSUME Core, NEW a \in Actors, Remove(a)
  PROVE  /\ act[a].pc = "remove" /\ act[a].id \in Nfs /\ act[a].next = "idle" /\ Moves(a)
         /\ act'[a].pc # "insert"
         /\ UNCHANGED <<subs, timers, queue, disk, rest>>
         /\ \/ /\ act[a].id \in instances /\ instances' = instances \ {act[a].id}
               /\ act'[a].pc = "snapProfiles" /\ act'[a] \in Busy
               /\ DOMAIN profiles' = DOMAIN profiles \ {act[a].id}
               /\ \A m \in DOMAIN profiles' : profiles'[m] = profiles[m]
               /\ hist'.restored = hist.restored \ {act[a].id}
               /\ hist'.overlap = IF \E b \in Actors : At(b, "insert") /\ act[b].id = act[a].id
                                  THEN hist.overlap \cup {act[a].id}
                                  ELSE hist.overlap \ {act[a].id}
               /\ hist'.raced = hist.raced /\ hist'.failed = hist.failed /\ hist'.was = hist.was
            \/ /\ act[a].id \notin instances /\ UNCHANGED <<instances, profiles, hist>>
               /\ act'[a].pc \in {"disarm", "idle"}
<1>1. act[a].pc = "remove" /\ UNCHANGED <<subs, timers, queue, disk, rest>>
  BY DEF Remove, At
<1>2. Carries(a, act[a], unused)
  BY <1>1, BusyFacts DEF Core
<1>3. act[a].next = "idle" /\ act[a].id \in Nfs
  BY <1>1, <1>2 DEF Carries, Writing, AboutNf
<1>4. CASE act[a].id \in instances
  <2>1. PICK n : n = act[a].id
    OBVIOUS
  <2>2. PICK o : o = IF \E b \in Actors : At(b, "insert") /\ act[b].id = n
                     THEN hist.overlap \cup {n} ELSE hist.overlap \ {n}
    OBVIOUS
  <2>3. /\ instances' = instances \ {n} /\ Persist(a, "disarm")
        /\ profiles' = Restrict(profiles, DOMAIN profiles \ {n})
    BY <1>4, <2>1 DEF Remove
  <2>4. hist' = [hist EXCEPT !.restored = @ \ {n}, !.overlap = o]
    BY <1>4, <2>1, <2>2 DEF Remove
  <2>5. /\ hist'.restored = hist.restored \ {n} /\ hist'.overlap = o
        /\ hist'.raced = hist.raced /\ hist'.failed = hist.failed /\ hist'.was = hist.was
    BY <2>4 DEF Core, HistOK
  <2>6. /\ DOMAIN profiles' = DOMAIN profiles \ {n}
        /\ \A m \in DOMAIN profiles' : profiles'[m] = profiles[m]
    BY <2>3 DEF Restrict
  <2>7. Moves(a) /\ act'[a].pc = "snapProfiles" /\ act'[a] \in Busy
    BY <1>1, <2>3, PersistMoves DEF Core, Nexts
  <2> QED
    BY <1>1, <1>3, <1>4, <2>1, <2>2, <2>3, <2>5, <2>6, <2>7
<1>5. CASE act[a].id \notin instances
  <2>1. (Goto(a, "disarm") \/ Done(a)) /\ UNCHANGED <<instances, profiles, hist>>
    BY <1>5 DEF Remove
  <2>2. "disarm" \in Pcs \ {"idle"}
    BY DEF Pcs
  <2>3. Moves(a) /\ act'[a].pc \in {"disarm", "idle"}
    BY <1>1, <2>1, <2>2, GotoMoves, DoneMoves DEF Core
  <2> QED
    BY <1>1, <1>3, <1>5, <2>1, <2>3
<1> QED
  BY <1>4, <1>5

LEMMA RemoveSup ==
  ASSUME Core, Sup, NEW a \in Actors, Remove(a)
  PROVE  Sup'
<1>1. PICK n : n = act[a].id
  OBVIOUS
<1>2. /\ n \in Nfs /\ Moves(a) /\ act'[a].pc # "insert"
      /\ UNCHANGED <<subs, timers, queue, disk, rest>>
  BY <1>1, RemoveMove
<1>3. \A id : Hand(act[a], id) => id = n
  BY <1>1 DEF Hand
<1>4. CASE /\ n \in instances /\ instances' = instances \ {n}
           /\ DOMAIN profiles' = DOMAIN profiles \ {n}
           /\ hist'.restored = hist.restored \ {n}
           /\ hist'.overlap = IF \E b \in Actors : At(b, "insert") /\ act[b].id = n
                              THEN hist.overlap \cup {n} ELSE hist.overlap \ {n}
  <2>1. n \notin subs
    BY <1>2, NrfAssumption DEF Core, MemoryOK
  <2>2. \A id \in Charge' : id # n /\ id \in Charge
    BY <1>2, <1>4, <2>1 DEF Charge
  <2>3. Backed'
    BY <1>4 DEF Sup, Backed
  <2>4. \A b \in Actors : act[b].pc = "insert" /\ act[b].id \in instances \cup hist.overlap
                             => act[b].id \in instances' \cup hist'.overlap
    BY <1>4 DEF At
  <2>5. \A id \in Charge' : id \in Charge /\ ~Hand(act[a], id)
    BY <1>3, <2>2
  <2> QED
    BY <1>2, <2>3, <2>4, <2>5, MovesOthers, SupMove
<1>5. CASE n \notin instances /\ UNCHANGED <<instances, profiles, hist>>
  <2>1. Charge' = Charge /\ Backed'
    BY <1>2, <1>5 DEF Charge, Sup, Backed
  <2>2. n \notin Charge
    <3>1. n \notin subs
      BY <1>2, NrfAssumption DEF Core, MemoryOK
    <3> QED
      BY <1>5, <3>1 DEF Charge, Sup, Backed
  <2>3. \A id \in Charge' : id \in Charge /\ ~Hand(act[a], id)
    BY <1>3, <2>1, <2>2
  <2> QED
    BY <1>2, <1>5, <2>1, <2>3, MovesOthers, SupMove
<1>6. CASE act[a].id \in instances
  <2>1. /\ instances' = instances \ {act[a].id} /\ DOMAIN profiles' = DOMAIN profiles \ {act[a].id}
        /\ hist'.restored = hist.restored \ {act[a].id}
        /\ hist'.overlap = IF \E b \in Actors : At(b, "insert") /\ act[b].id = act[a].id
                           THEN hist.overlap \cup {act[a].id} ELSE hist.overlap \ {act[a].id}
    BY <1>6, RemoveMove
  <2> QED
    BY <1>1, <1>4, <1>6, <2>1
<1>7. CASE act[a].id \notin instances
  <2>1. UNCHANGED <<instances, profiles, hist>>
    BY <1>7, RemoveMove
  <2> QED
    BY <1>1, <1>5, <1>7, <2>1
<1> QED
  BY <1>6, <1>7

LEMMA DisarmSup ==
  ASSUME Core, Sup, NEW a \in Actors, Disarm(a)
  PROVE  Sup'
<1>1. PICK n : n = act[a].id
  OBVIOUS
<1>2. /\ act[a].pc = "disarm" /\ timers' = timers \ {n}
      /\ UNCHANGED <<instances, profiles, subs, queue, disk, rest>>
  BY <1>1 DEF Disarm, At
<1>3. Carries(a, act[a], unused)
  BY <1>2, BusyFacts DEF Core
<1>4. n \in Nfs /\ act[a].next = "idle"
  BY <1>1, <1>2, <1>3 DEF Carries, Writing, AboutNf
<1>5. Moves(a) /\ act'[a].pc = "idle"
  BY DoneMoves DEF Core, Disarm
<1>6. /\ hist'.restored = hist.restored
      /\ hist'.overlap = IF n \in DOMAIN profiles THEN hist.overlap \cup {n} ELSE hist.overlap
  BY <1>1 DEF Disarm, Core, HistOK
<1>7. n \notin subs
  BY <1>4, NrfAssumption DEF Core, MemoryOK
<1>8. \A id \in Charge' : id # n /\ id \in Charge
  BY <1>2, <1>6, <1>7 DEF Charge
<1>9. \A id : ~Hand(act[a], id)
  BY <1>2, <1>4 DEF Hand
<1>10. Backed' /\ hist.overlap \subseteq hist'.overlap
  BY <1>2, <1>6 DEF Sup, Backed
<1>11. \A id \in Charge' : /\ id \in Charge /\ ~Hand(act[a], id)
                           /\ id \in timers \cup queue => id \in timers' \cup queue'
  BY <1>2, <1>8, <1>9
<1> QED
  BY <1>2, <1>5, <1>10, <1>11, MovesOthers, SupMove

LEMMA AddSubSup ==
  ASSUME Core, Sup, NEW t \in Tasks, AddSub(t)
  PROVE  Sup'
<1>1. /\ t \in Actors /\ act[t].pc = "addSub" /\ subs' = subs \cup {act[t].id}
      /\ UNCHANGED <<instances, profiles, timers, queue, disk, rest, hist>>
  BY DEF Actors, AddSub, At
<1>2. /\ Moves(t) /\ act'[t].pc = "snapProfiles" /\ act'[t].next = "startTimer"
      /\ act'[t].id = act[t].id
  BY <1>1, PersistMoves DEF AddSub, Core, Nexts
<1>3. Backed' /\ Charge' \subseteq Charge \cup {act[t].id}
  BY <1>1 DEF Charge, Backed, Sup
<1>4. Hand(act'[t], act[t].id) /\ \A id : Hand(act[t], id) => id = act[t].id
  BY <1>2 DEF Hand
<1>5. \A id \in Charge' : Hand(act'[t], id) \/ (id \in Charge /\ ~Hand(act[t], id))
  BY <1>3, <1>4
<1> QED
  BY <1>1, <1>2, <1>3, <1>5, MovesOthers, SupMove

LEMMA StartTimerSup ==
  ASSUME Core, Sup, NEW t \in Tasks, StartTimer(t)
  PROVE  Sup'
<1>1. /\ t \in Actors /\ act[t].pc = "startTimer" /\ timers' = timers \cup {act[t].id}
      /\ UNCHANGED <<instances, profiles, subs, queue, disk, rest, hist>>
  BY DEF Actors, StartTimer, At
<1>2. Moves(t) /\ act'[t].pc = "idle"
  BY <1>1, DoneMoves DEF StartTimer, Core
<1>3. Backed' /\ Charge' = Charge
  BY <1>1 DEF Charge, Backed, Sup
<1>4. \A id \in Charge' : id \in timers' \/ (id \in Charge /\ ~Hand(act[t], id))
  BY <1>1, <1>3 DEF Hand
<1> QED
  BY <1>1, <1>2, <1>3, <1>4, MovesOthers, SupMove

LEMMA RemoveSubSup ==
  ASSUME Core, Sup, NEW a \in Actors, RemoveSub(a)
  PROVE  Sup'
<1>1. /\ act[a].pc = "removeSub" /\ subs' = subs \ {act[a].id}
      /\ UNCHANGED <<instances, profiles, timers, queue, disk, rest, hist>>
  BY DEF RemoveSub, At
<1>2. Moves(a) /\ act'[a].pc # "insert"
  <2>1. CASE Done(a)
    BY <2>1, DoneMoves DEF Core
  <2>2. CASE Persist(a, "idle")
    BY <1>1, <2>2, PersistMoves DEF Core, Nexts
  <2> QED
    BY <2>1, <2>2 DEF RemoveSub
<1>3. act[a].id \in Subs
  <2>1. Carries(a, act[a], unused)
    BY <1>1, BusyFacts DEF Core
  <2> QED
    BY <1>1, <2>1 DEF Carries, AboutSub
<1>4. act[a].id \notin DOMAIN profiles
  BY <1>3, NrfAssumption, RegistryFacts DEF Core, MemoryOK
<1>5. Backed' /\ \A id \in Charge' : id \in Charge /\ id # act[a].id
  BY <1>1, <1>4 DEF Charge, Backed, Sup
<1>6. \A id \in Charge' : id \in Charge /\ ~Hand(act[a], id)
  BY <1>5 DEF Hand
<1> QED
  BY <1>1, <1>2, <1>5, <1>6, MovesOthers, SupMove

LEMMA TickSup ==
  ASSUME Core, Sup, Tick
  PROVE  Sup'
<1>1. PICK E \in SUBSET timers :
        /\ queue' = E /\ timers' = timers \ E
        /\ hist' = [hist EXCEPT !.was = [n \in Nfs |->
                      IF n \notin E THEN "none"
                      ELSE IF n \in DOMAIN profiles THEN profiles[n] ELSE "gone"]]
  BY DEF Tick
<1>2. UNCHANGED <<instances, profiles, subs, act>> /\ queue = {}
  BY DEF Tick
<1>3. hist'.restored = hist.restored /\ hist'.overlap = hist.overlap
  BY <1>1 DEF Core, HistOK
<1>4. Charge' = Charge /\ Backed' /\ Inserting'
  BY <1>2, <1>3 DEF Charge, Sup, Backed, Inserting
<1>5. timers' \cup queue' = timers \cup queue
  BY <1>1, <1>2
<1>6. Watched'
  BY <1>2, <1>4, <1>5 DEF Sup, Watched
<1> QED
  BY <1>4, <1>6 DEF Sup

LEMMA NextEventSup ==
  ASSUME Core, Sup, NextEvent
  PROVE  Sup'
<1>1. PICK e \in queue :
           /\ queue' = queue \ {e} /\ Moves(Loop)
           /\ act'[Loop].pc = (IF e \in Subs THEN "removeSub" ELSE "check")
           /\ act'[Loop].id = e
  BY NextEventMove
<1>2. /\ act[Loop].pc = "idle" /\ Loop \in Actors
      /\ UNCHANGED <<instances, profiles, subs, timers, disk, rest, hist>>
  BY DEF NextEvent, At, Actors
<1>3. Charge' = Charge /\ Backed'
  BY <1>2 DEF Charge, Sup, Backed
<1>4. Hand(act'[Loop], e) /\ \A id : ~Hand(act[Loop], id)
  BY <1>1, <1>2 DEF Hand
<1>5. \A id \in Charge' : \/ Hand(act'[Loop], id)
                          \/ /\ id \in Charge /\ ~Hand(act[Loop], id)
                             /\ id \in timers \cup queue => id \in timers' \cup queue'
  BY <1>1, <1>2, <1>3, <1>4
<1>6. act'[Loop].pc # "insert"
  BY <1>1
<1> QED
  BY <1>1, <1>2, <1>3, <1>5, <1>6, MovesOthers, SupMove

LEMMA CheckMove ==
  ASSUME Core, Check
  PROVE  /\ act[Loop].pc = "check" /\ Loop \in Actors /\ UNCHANGED <<memory, disk, rest, hist>>
         /\ Moves(Loop) /\ act'[Loop].id = act[Loop].id /\ act[Loop].id \in Nfs
         /\ act'[Loop].pc = IF act[Loop].id \in DOMAIN profiles
                                 /\ profiles[act[Loop].id] = "SUSPENDED"
                            THEN "remove" ELSE "suspend"
<1>1. act[Loop].pc = "check" /\ Loop \in Actors
  BY DEF Check, At, Actors
<1>2. Carries(Loop, act[Loop], unused)
  BY <1>1, BusyFacts DEF Core
<1>3. act[Loop].id \in Nfs
  BY <1>1, <1>2 DEF Carries, AboutNf
<1>4. PICK pc \in {"remove", "suspend"} :
         /\ Goto(Loop, pc)
         /\ pc = IF act[Loop].id \in DOMAIN profiles /\ profiles[act[Loop].id] = "SUSPENDED"
                 THEN "remove" ELSE "suspend"
  BY DEF Check
<1>5. pc \in Pcs \ {"idle"}
  BY DEF Pcs
<1>6. Moves(Loop) /\ act'[Loop].pc = pc /\ act'[Loop].id = act[Loop].id
  BY <1>1, <1>4, <1>5, GotoMoves DEF Core
<1> QED
  BY <1>1, <1>3, <1>4, <1>6 DEF Check

LEMMA CheckSup ==
  ASSUME Core, Sup, Check
  PROVE  Sup'
<1>1. /\ act[Loop].pc = "check" /\ Loop \in Actors /\ UNCHANGED <<memory, hist>>
      /\ Moves(Loop) /\ act'[Loop].id = act[Loop].id
      /\ act'[Loop].pc \in {"remove", "suspend"}
  BY CheckMove
<1>2. \A id : Hand(act[Loop], id) => Hand(act'[Loop], id)
  BY <1>1 DEF Hand
<1> QED
  BY <1>1, <1>2, MovesOthers, SupQuiet

LEMMA SuspendMove ==
  ASSUME Core, Suspend
  PROVE  /\ act[Loop].pc = "suspend" /\ Loop \in Actors
         /\ UNCHANGED <<instances, subs, timers, queue, disk, rest, hist>>
         /\ Moves(Loop) /\ act'[Loop].id = act[Loop].id /\ DOMAIN profiles' = DOMAIN profiles
         /\ \A m \in DOMAIN profiles \ {act[Loop].id} : profiles'[m] = profiles[m]
         /\ \/ act'[Loop].pc = "snapProfiles" /\ act'[Loop].next = "grace"
            \/ act'[Loop].pc = "grace" /\ UNCHANGED profiles
<1>1. /\ act[Loop].pc = "suspend" /\ Loop \in Actors
      /\ UNCHANGED <<instances, subs, timers, queue, disk, rest, hist>>
  BY DEF Suspend, At, Actors
<1>2. CASE /\ act[Loop].id \in DOMAIN profiles
           /\ profiles' = [profiles EXCEPT ![act[Loop].id] = "SUSPENDED"] /\ Persist(Loop, "grace")
  <2>1. /\ Moves(Loop) /\ act'[Loop].pc = "snapProfiles" /\ act'[Loop].next = "grace"
        /\ act'[Loop].id = act[Loop].id
    BY <1>1, <1>2, PersistMoves DEF Core, Nexts
  <2>2. /\ DOMAIN profiles' = DOMAIN profiles
        /\ \A m \in DOMAIN profiles \ {act[Loop].id} : profiles'[m] = profiles[m]
    BY <1>2
  <2> QED
    BY <1>1, <2>1, <2>2
<1>3. CASE Goto(Loop, "grace") /\ UNCHANGED profiles
  <2>1. "grace" \in Pcs \ {"idle"}
    BY DEF Pcs
  <2>2. Moves(Loop) /\ act'[Loop].pc = "grace" /\ act'[Loop].id = act[Loop].id
    BY <1>1, <1>3, <2>1, GotoMoves DEF Core
  <2> QED
    BY <1>1, <1>3, <2>2
<1> QED
  BY <1>2, <1>3 DEF Suspend

LEMMA SuspendSup ==
  ASSUME Core, Sup, Suspend
  PROVE  Sup'
<1>1. /\ act[Loop].pc = "suspend" /\ Loop \in Actors
      /\ UNCHANGED <<instances, subs, timers, queue, hist>>
      /\ Moves(Loop) /\ act'[Loop].id = act[Loop].id /\ DOMAIN profiles' = DOMAIN profiles
      /\ \/ act'[Loop].pc = "snapProfiles" /\ act'[Loop].next = "grace"
         \/ act'[Loop].pc = "grace"
  BY SuspendMove
<1>2. \A id : Hand(act[Loop], id) => Hand(act'[Loop], id)
  BY <1>1 DEF Hand
<1>3. Charge' = Charge /\ Backed' /\ act'[Loop].pc # "insert"
  BY <1>1 DEF Charge, Sup, Backed
<1>4. \A id \in Charge' : Hand(act'[Loop], id) \/ (id \in Charge /\ ~Hand(act[Loop], id))
  BY <1>2, <1>3
<1> QED
  BY <1>1, <1>3, <1>4, MovesOthers, SupMove

LEMMA GraceMove ==
  ASSUME Core, Grace
  PROVE  /\ act[Loop].pc = "grace" /\ Loop \in Actors /\ UNCHANGED <<memory, disk, rest, hist>>
         /\ Moves(Loop) /\ act[Loop].id \in Nfs
         /\ \/ act'[Loop].pc = "idle" /\ act[Loop].id \notin DOMAIN profiles
            \/ act'[Loop].pc = "arm" /\ act'[Loop].id = act[Loop].id
<1>1. act[Loop].pc = "grace" /\ Loop \in Actors
  BY DEF Grace, At, Actors
<1>2. Carries(Loop, act[Loop], unused)
  BY <1>1, BusyFacts DEF Core
<1>3. act[Loop].id \in Nfs
  BY <1>1, <1>2 DEF Carries, AboutNf
<1>4. CASE Done(Loop) /\ act[Loop].id \notin DOMAIN profiles
  BY <1>1, <1>3, <1>4, DoneMoves DEF Core, Grace
<1>5. CASE Goto(Loop, "arm")
  <2>1. "arm" \in Pcs \ {"idle"}
    BY DEF Pcs
  <2>2. Moves(Loop) /\ act'[Loop].pc = "arm" /\ act'[Loop].id = act[Loop].id
    BY <1>1, <1>5, <2>1, GotoMoves DEF Core
  <2> QED
    BY <1>1, <1>3, <2>2 DEF Grace
<1> QED
  BY <1>4, <1>5 DEF Grace

LEMMA GraceSup ==
  ASSUME Core, Sup, Grace
  PROVE  Sup'
<1>1. /\ act[Loop].pc = "grace" /\ Loop \in Actors /\ UNCHANGED <<memory, disk, rest, hist>>
      /\ Moves(Loop) /\ act[Loop].id \in Nfs
      /\ \/ act'[Loop].pc = "idle" /\ act[Loop].id \notin DOMAIN profiles
         \/ act'[Loop].pc = "arm" /\ act'[Loop].id = act[Loop].id
  BY GraceMove
<1>2. act[Loop].id \notin subs
  BY <1>1, NrfAssumption DEF Core, MemoryOK
<1>3. \A id \in Charge : Hand(act[Loop], id) => Hand(act'[Loop], id)
  BY <1>1, <1>2 DEF Hand, Charge
<1> QED
  BY <1>1, <1>3, MovesOthers, SupQuiet

LEMMA WriteSup ==
  ASSUME Core, Sup, NEW a \in Actors, Write(a)
  PROVE  Sup'
<1>1. CASE SnapProfiles(a) \/ SnapSubs(a) \/ Open(a) \/ Fill(a)
  <2>1. /\ Others(a) /\ act[a].pc \in Writing /\ act'[a].pc \in Writing
        /\ act'[a].id = act[a].id /\ act'[a].next = act[a].next
    BY <1>1, SnapProfilesMove, SnapSubsMove, OpenMove, FillMove, MovesOthers
    DEF SnapProfiles, SnapSubs, Open, Fill, At, Writing
  <2>2. UNCHANGED <<memory, hist>>
    BY <1>1 DEF SnapProfiles, SnapSubs, Open, Fill
  <2>3. \A id : Hand(act[a], id) => Hand(act'[a], id)
    BY <2>1 DEF Hand, Writing
  <2>4. act'[a].pc # "insert"
    BY <2>1 DEF Writing
  <2> QED
    BY <2>1, <2>2, <2>3, <2>4, SupQuiet
<1>2. CASE Rename(a) \/ WriteFails(a)
  <2>1. Others(a) /\ act'[a] = Resume(a) /\ act[a].pc \in Writing /\ UNCHANGED memory
    BY <1>2, RenameMove, WriteFailsMove, MovesOthers DEF Rename, At, Writing
  <2>2. hist'.restored = hist.restored /\ hist'.overlap = hist.overlap
    BY <1>2, WriteFailsMove DEF Rename, Core, HistOK
  <2>3. PICK r : /\ r = act'[a]
                 /\ act[a].next = "idle" => r = Idle
                 /\ act[a].next # "idle" => r.pc = act[a].next /\ r.id = act[a].id
    BY <2>1, ResumeFacts DEF Core, Writing
  <2>4. act[a].next \in Nexts
    BY <2>1, BusyFacts DEF Core, Busy, Writing
  <2>5. \A id : Hand(act[a], id) => Hand(r, id)
    BY <2>1, <2>3 DEF Hand, Writing
  <2>6. r.pc # "insert"
    BY <2>3, <2>4 DEF Nexts, Idle
  <2> QED
    BY <2>1, <2>2, <2>3, <2>5, <2>6, SupQuiet
<1> QED
  BY <1>1, <1>2 DEF Write

LEMMA RestartSup ==
  ASSUME Core, Restart
  PROVE  Sup'
<1>1. PICK d \in Loads(file) :
        /\ profiles' = d.p /\ instances' = DOMAIN d.p /\ subs' = d.s
        /\ hist'.restored = DOMAIN d.p \cup d.s
  BY DEF Restart
<1>2. act' = [a \in Actors |-> Idle]
  BY DEF Restart
<1>3. Charge' = {}
  BY <1>1 DEF Charge
<1>4. Watched' /\ Backed'
  BY <1>1, <1>3 DEF Watched, Backed
<1>5. Inserting'
  BY <1>2 DEF Inserting, Idle
<1> QED
  BY <1>4, <1>5 DEF Sup

LEMMA InitSup == Init => Sup
<1> SUFFICES ASSUME Init PROVE Sup
  OBVIOUS
<1>1. /\ instances = DOMAIN profiles /\ hist.restored = DOMAIN profiles \cup subs
      /\ act = [a \in Actors |-> Idle]
  BY DEF Init
<1>2. Charge = {}
  BY <1>1 DEF Charge
<1>3. Inserting
  BY <1>1 DEF Inserting, Idle
<1> QED
  BY <1>1, <1>2, <1>3 DEF Sup, Watched, Backed

LEMMA NextSup ==
  ASSUME Core, Core', Sup, [Next]_vars
  PROVE  Sup'
<1>1. Loop \in Actors /\ Tasks \subseteq Actors
  BY DEF Actors
<1>2. ASSUME NEW t \in Tasks, Step(t) PROVE Sup'
  BY <1>1, <1>2, AddInstanceSup, InsertSup, ArmSup, ReactivateSup, RemoveSup, DisarmSup,
     AddSubSup, StartTimerSup, RemoveSubSup, WriteSup
  DEF Step
<1>3. CASE LoopStep
  BY <1>1, <1>3, TickSup, NextEventSup, CheckSup, SuspendSup, GraceSup, ArmSup, RemoveSup,
     DisarmSup, RemoveSubSup, WriteSup
  DEF LoopStep
<1>4. CASE UNCHANGED vars
  BY <1>4 DEF vars, Sup, Watched, Backed, Inserting, Charge
<1> QED
  BY <1>2, <1>3, <1>4, RequestSup, RestartSup DEF Next

(***************************************************************************)
(* Nothing stays in the registry by itself: a profile or subscription has  *)
(* a timer, an event that waits, or an actor that is going to start one,   *)
(* and a profile has its instance.  The exceptions are what a restart      *)
(* restored and NFs whose removal overlapped a store of the same NF.       *)
(***************************************************************************)
THEOREM AllSupervised == Spec => []Supervised
<1>1. Sup => Supervised
  BY DEF Sup, Watched, Backed, Charge, Hand, Supervised, InHand
<1>2. Core /\ Core' /\ Sup /\ [Next]_vars => Sup'
  BY NextSup
<1> QED
  BY <1>1, <1>2, InitSup, CoreInvariance, PTL DEF Spec

-----------------------------------------------------------------------------
(* Events of the timers.                                                   *)

\* The status of n is still the one with which its timer ran out, unless n
\* itself stored something since.
Foreseen(n) ==
  /\ hist.was[n] # "none"
  /\ hist.was[n] # "touched" /\ n \in DOMAIN profiles => profiles[n] = hist.was[n]

Events ==
  /\ act[Loop].pc # "idle" => act[Loop].id \notin queue
  /\ \A n \in queue \cap Nfs : Foreseen(n)
  /\ act[Loop].pc = "check" => Foreseen(act[Loop].id)
  /\ act[Loop].pc = "remove" => hist.was[act[Loop].id] \in {"SUSPENDED", "touched"}

\* A step does not change the status of n without leaving a trace.
Traced(n) ==
  \/ hist'.was[n] = "touched"
  \/ /\ hist'.was[n] = hist.was[n]
     /\ n \in DOMAIN profiles' => n \in DOMAIN profiles /\ profiles'[n] = profiles[n]

LEMMA TracedForeseen ==
  ASSUME NEW n, Foreseen(n), Traced(n)
  PROVE  Foreseen(n)'
BY DEF Foreseen, Traced

\* Where the event loop stands.
LEMMA LoopAt ==
  ASSUME Core, act[Loop].pc \in {"check", "remove", "suspend"}
  PROVE  Loop \in Actors /\ act[Loop] \in Busy /\ act[Loop].id \in Nfs
<1>1. Loop \in Actors /\ act[Loop].pc # "idle" /\ act[Loop].pc \in AboutNf
  BY DEF Actors, AboutNf
<1> QED
  BY <1>1, BusyFacts DEF Core, Carries

LEMMA TaskEvents ==
  ASSUME Core, Events, NEW a \in Actors, a # Loop, Others(a), UNCHANGED queue,
         \A n \in Nfs : hist.was[n] # "none" => Traced(n)
  PROVE  Events'
<1>1. /\ act'[Loop].pc = act[Loop].pc
      /\ act[Loop].pc # "idle" => act'[Loop].id = act[Loop].id
  <2>1. Loop \in Actors /\ Loop \in Actors \ {a}
    BY DEF Actors
  <2>2. Like(act'[Loop], act[Loop]) /\ (act[Loop].pc # "idle" => act[Loop] \in Busy)
    BY <2>1, BusyFacts DEF Others, Core
  <2> QED
    BY <2>2 DEF Like
<1>2. \A n \in Nfs : Foreseen(n) => Foreseen(n)'
  BY TracedForeseen DEF Foreseen
<1>3. PICK e : e = act[Loop].id
  OBVIOUS
<1>4. act'[Loop].pc = "check" => Foreseen(act[Loop].id)'
  <2>1. act'[Loop].pc = "check" => Foreseen(e)' /\ act'[Loop].id = e
    BY <1>1, <1>2, <1>3, LoopAt DEF Events
  <2> QED
    BY <2>1 DEF Foreseen
<1>5. act'[Loop].pc = "remove" => hist'.was[act'[Loop].id] \in {"SUSPENDED", "touched"}
  BY <1>1, LoopAt DEF Events, Traced
<1>6. \A n \in queue' \cap Nfs : Foreseen(n)'
  BY <1>2 DEF Events
<1>7. act'[Loop].pc # "idle" => act'[Loop].id \notin queue'
  BY <1>1 DEF Events
<1> QED
  BY <1>4, <1>5, <1>6, <1>7 DEF Events

LEMMA LoopEvents ==
  ASSUME Core, Events, UNCHANGED queue, act'[Loop].pc \notin {"check", "remove"},
         act'[Loop].pc # "idle" => act[Loop].pc # "idle" /\ act'[Loop].id = act[Loop].id,
         \A n \in queue \cap Nfs : Traced(n)
  PROVE  Events'
<1>1. \A n \in queue' \cap Nfs : Foreseen(n)'
  BY TracedForeseen DEF Events
<1> QED
  BY <1>1 DEF Events

LEMMA RequestEvents ==
  ASSUME Core, Core', Events, NEW t \in Tasks, Request(t)
  PROVE  Events'
<1>1. Moves(t) /\ t \in Actors /\ t # Loop /\ UNCHANGED <<memory, hist>>
  BY RequestMove, NrfAssumption
<1>2. \A n \in Nfs : Traced(n)
  BY <1>1 DEF Traced, memory
<1> QED
  BY <1>1, <1>2, MovesOthers, TaskEvents DEF memory

LEMMA AddInstanceEvents ==
  ASSUME Core, Events, NEW t \in Tasks, AddInstance(t)
  PROVE  Events'
<1>1. Moves(t) /\ t \in Actors /\ t # Loop /\ UNCHANGED <<profiles, queue, hist>>
  BY AddInstanceMove, NrfAssumption
<1>2. \A n \in Nfs : Traced(n)
  BY <1>1 DEF Traced
<1> QED
  BY <1>1, <1>2, MovesOthers, TaskEvents

LEMMA InsertEvents ==
  ASSUME Core, Events, NEW t \in Tasks, Insert(t)
  PROVE  Events'
<1>1. /\ Moves(t) /\ t \in Actors /\ t # Loop /\ UNCHANGED queue /\ act[t].id \in Nfs
      /\ DOMAIN profiles' = DOMAIN profiles \cup {act[t].id}
      /\ \A m \in DOMAIN profiles \ {act[t].id} : profiles'[m] = profiles[m]
      /\ hist' = Touched(act[t].id)
  BY InsertMove, NrfAssumption
<1>2. PICK k \in Nfs : k = act[t].id
  BY <1>1
<1>3. \A m \in Nfs : hist'.was[m] = IF m = k /\ hist.was[m] # "none" THEN "touched" ELSE hist.was[m]
  BY <1>1, <1>2, TouchedOK DEF Core
<1>4. \A n \in Nfs : hist.was[n] # "none" => Traced(n)
  BY <1>1, <1>2, <1>3 DEF Traced
<1> QED
  BY <1>1, <1>4, MovesOthers, TaskEvents

LEMMA ReactivateEvents ==
  ASSUME Core, Events, NEW t \in Tasks, Reactivate(t)
  PROVE  Events'
<1>1. /\ Moves(t) /\ t \in Actors /\ t # Loop /\ UNCHANGED queue /\ act[t].id \in Nfs
      /\ DOMAIN profiles' = DOMAIN profiles
      /\ \/ UNCHANGED <<profiles, hist>>
         \/ /\ hist' = Touched(act[t].id)
            /\ \A m \in DOMAIN profiles \ {act[t].id} : profiles'[m] = profiles[m]
  BY ReactivateMove, NrfAssumption
<1>2. CASE UNCHANGED <<profiles, hist>>
  <2>1. \A n \in Nfs : Traced(n)
    BY <1>2 DEF Traced
  <2> QED
    BY <1>1, <2>1, MovesOthers, TaskEvents
<1>3. CASE /\ hist' = Touched(act[t].id)
           /\ \A m \in DOMAIN profiles \ {act[t].id} : profiles'[m] = profiles[m]
  <2>1. PICK k \in Nfs : k = act[t].id
    BY <1>1
  <2>2. \A m \in Nfs : hist'.was[m] = IF m = k /\ hist.was[m] # "none" THEN "touched" ELSE hist.was[m]
    BY <1>3, <2>1, TouchedOK DEF Core
  <2>3. \A n \in Nfs : hist.was[n] # "none" => Traced(n)
    BY <1>1, <1>3, <2>1, <2>2 DEF Traced
  <2> QED
    BY <1>1, <2>3, MovesOthers, TaskEvents
<1> QED
  BY <1>1, <1>2, <1>3

\* The steps that requests and the event loop share.
LEMMA SharedMove ==
  ASSUME Core, NEW a \in Actors, Arm(a) \/ Remove(a) \/ Disarm(a) \/ RemoveSub(a) \/ Write(a)
  PROVE  /\ Others(a) /\ UNCHANGED queue /\ act[a].pc # "idle"
         /\ act'[a].pc \notin {"check", "remove"}
         /\ act'[a].pc # "idle" => act'[a].id = act[a].id
         /\ \A n \in Nfs : Traced(n)
<1>1. ASSUME NEW pc \in Pcs \ {"idle"}, act[a].pc # "idle", Goto(a, pc)
      PROVE  Others(a) /\ act'[a].pc = pc /\ act'[a].id = act[a].id
  BY <1>1, GotoMoves, MovesOthers DEF Core
<1>2. ASSUME NEW next \in Nexts, act[a].pc # "idle", Persist(a, next)
      PROVE  Others(a) /\ act'[a].pc = "snapProfiles" /\ act'[a].id = act[a].id
  BY <1>2, PersistMoves, MovesOthers DEF Core
<1>3. ASSUME Done(a) PROVE Others(a) /\ act'[a].pc = "idle"
  BY <1>3, DoneMoves, MovesOthers DEF Core
<1>4. {"idle", "disarm"} \subseteq Nexts /\ {"reactivate", "disarm"} \subseteq Pcs \ {"idle"}
  BY DEF Nexts, Pcs
<1>5. CASE Arm(a)
  <2>1. act[a].pc # "idle" /\ UNCHANGED <<queue, profiles>> /\ (Done(a) \/ Goto(a, "reactivate"))
    BY <1>5 DEF Arm, At
  <2>2. hist'.was = hist.was
    BY <1>5 DEF Arm, Core, HistOK
  <2>3. \A n \in Nfs : Traced(n)
    BY <2>1, <2>2 DEF Traced
  <2> QED
    BY <1>1, <1>3, <1>4, <2>1, <2>3
<1>6. CASE Remove(a)
  <2>1. act[a].pc # "idle" /\ UNCHANGED queue /\ (Done(a) \/ Goto(a, "disarm") \/ Persist(a, "disarm"))
    BY <1>6 DEF Remove, At
  <2>2. /\ hist'.was = hist.was /\ DOMAIN profiles' \subseteq DOMAIN profiles
        /\ \A m \in DOMAIN profiles' : profiles'[m] = profiles[m]
    BY <1>6, RemoveMove
  <2>3. \A n \in Nfs : Traced(n)
    BY <2>2 DEF Traced
  <2> QED
    BY <1>1, <1>2, <1>3, <1>4, <2>1, <2>3
<1>7. CASE Disarm(a)
  <2>1. act[a].pc # "idle" /\ UNCHANGED <<queue, profiles>> /\ Done(a)
    BY <1>7 DEF Disarm, At
  <2>2. hist'.was = hist.was
    BY <1>7 DEF Disarm, Core, HistOK
  <2>3. \A n \in Nfs : Traced(n)
    BY <2>1, <2>2 DEF Traced
  <2> QED
    BY <1>3, <2>1, <2>3
<1>8. CASE RemoveSub(a)
  <2>1. act[a].pc # "idle" /\ UNCHANGED <<queue, profiles, hist>> /\ (Done(a) \/ Persist(a, "idle"))
    BY <1>8 DEF RemoveSub, At
  <2>2. \A n \in Nfs : Traced(n)
    BY <2>1 DEF Traced
  <2> QED
    BY <1>2, <1>3, <1>4, <2>1, <2>2
<1>9. CASE SnapProfiles(a) \/ SnapSubs(a) \/ Open(a) \/ Fill(a)
  <2>1. /\ Others(a) /\ act[a].pc \in Writing /\ act'[a].pc \in Writing
        /\ act'[a].id = act[a].id
    BY <1>9, SnapProfilesMove, SnapSubsMove, OpenMove, FillMove, MovesOthers
    DEF SnapProfiles, SnapSubs, Open, Fill, At, Writing
  <2>2. UNCHANGED <<queue, profiles, hist>>
    BY <1>9 DEF SnapProfiles, SnapSubs, Open, Fill, memory
  <2>3. \A n \in Nfs : Traced(n)
    BY <2>2 DEF Traced
  <2> QED
    BY <2>1, <2>2, <2>3 DEF Writing
<1>10. CASE Rename(a) \/ WriteFails(a)
  <2>1. Others(a) /\ act'[a] = Resume(a) /\ act[a].pc \in Writing /\ UNCHANGED <<queue, profiles>>
    BY <1>10, RenameMove, WriteFailsMove, MovesOthers DEF Rename, At, memory, Writing
  <2>2. hist'.was = hist.was
    BY <1>10, WriteFailsMove DEF Rename, Core, HistOK
  <2>3. PICK r : /\ r = act'[a]
                 /\ act[a].next = "idle" => r = Idle
                 /\ act[a].next # "idle" => r.pc = act[a].next /\ r.id = act[a].id
    BY <2>1, ResumeFacts DEF Core, Writing
  <2>4. act[a].next \in Nexts
    BY <2>1, BusyFacts DEF Core, Busy, Writing
  <2>5. r.pc \notin {"check", "remove"} /\ (r.pc # "idle" => r.id = act[a].id)
    BY <2>3, <2>4 DEF Nexts, Idle
  <2>6. \A n \in Nfs : Traced(n)
    BY <2>1, <2>2 DEF Traced
  <2> QED
    BY <2>1, <2>3, <2>5, <2>6 DEF Writing
<1> QED
  BY <1>5, <1>6, <1>7, <1>8, <1>9, <1>10 DEF Write

LEMMA SharedEvents ==
  ASSUME Core, Events, NEW a \in Actors,
         Arm(a) \/ Remove(a) \/ Disarm(a) \/ RemoveSub(a) \/ Write(a)
  PROVE  Events'
<1>1. /\ Others(a) /\ UNCHANGED queue /\ act[a].pc # "idle"
      /\ act'[a].pc \notin {"check", "remove"}
      /\ act'[a].pc # "idle" => act'[a].id = act[a].id
      /\ \A n \in Nfs : Traced(n)
  BY SharedMove
<1>2. CASE a = Loop
  BY <1>1, <1>2, LoopEvents
<1>3. CASE a # Loop
  BY <1>1, <1>3, TaskEvents
<1> QED
  BY <1>2, <1>3

LEMMA SubscribeEvents ==
  ASSUME Core, Events, NEW t \in Tasks, AddSub(t) \/ StartTimer(t)
  PROVE  Events'
<1>1. /\ t \in Actors /\ t # Loop /\ act[t].pc # "idle" /\ UNCHANGED <<profiles, queue, hist>>
      /\ Done(t) \/ Persist(t, "startTimer")
  BY NrfAssumption DEF Actors, AddSub, StartTimer, At
<1>2. Others(t)
  BY <1>1, DoneMoves, PersistMoves, MovesOthers DEF Core, Nexts
<1>3. \A n \in Nfs : Traced(n)
  BY <1>1 DEF Traced
<1> QED
  BY <1>1, <1>2, <1>3, TaskEvents

LEMMA TickEvents ==
  ASSUME Core, Events, Tick
  PROVE  Events'
<1>1. PICK E \in SUBSET timers :
        /\ queue' = E
        /\ hist' = [hist EXCEPT !.was = [n \in Nfs |->
                      IF n \notin E THEN "none"
                      ELSE IF n \in DOMAIN profiles THEN profiles[n] ELSE "gone"]]
  BY DEF Tick
<1>2. UNCHANGED <<profiles, act>> /\ act[Loop].pc = "idle"
  BY DEF Tick, At
<1>3. \A n \in queue' \cap Nfs :
         hist'.was[n] = IF n \in DOMAIN profiles THEN profiles[n] ELSE "gone"
  BY <1>1 DEF Core, HistOK
<1>4. \A n \in DOMAIN profiles : profiles[n] \in State
  BY RegistryFacts DEF Core, MemoryOK
<1>5. \A n \in queue' \cap Nfs : Foreseen(n)'
  BY <1>2, <1>3, <1>4 DEF Foreseen, State
<1> QED
  BY <1>2, <1>5 DEF Events

LEMMA NextEventEvents ==
  ASSUME Core, Events, NextEvent
  PROVE  Events'
<1>1. PICK e \in queue :
           /\ queue' = queue \ {e}
           /\ act'[Loop].pc = (IF e \in Subs THEN "removeSub" ELSE "check")
           /\ act'[Loop].id = e
  BY NextEventMove
<1>2. UNCHANGED <<profiles, hist>>
  BY DEF NextEvent
<1>3. \A n : Foreseen(n) => Foreseen(n)'
  BY <1>2 DEF Foreseen
<1>4. act'[Loop].pc = "check" => Foreseen(e)'
  <2>1. e \in Ids
    BY DEF Core, MemoryOK
  <2> QED
    BY <1>1, <1>3, <2>1 DEF Events, Ids
<1>5. act'[Loop].pc = "check" => Foreseen(act[Loop].id)'
  BY <1>1, <1>4 DEF Foreseen
<1>6. \A n \in queue' \cap Nfs : Foreseen(n)'
  BY <1>1, <1>3 DEF Events
<1> QED
  BY <1>1, <1>5, <1>6 DEF Events

LEMMA CheckEvents ==
  ASSUME Core, Events, Check
  PROVE  Events'
<1>1. /\ act[Loop].pc = "check" /\ UNCHANGED <<memory, hist>>
      /\ act'[Loop].id = act[Loop].id /\ act[Loop].id \in Nfs
      /\ act'[Loop].pc = IF act[Loop].id \in DOMAIN profiles
                              /\ profiles[act[Loop].id] = "SUSPENDED"
                         THEN "remove" ELSE "suspend"
  BY CheckMove
<1>2. \A n \in queue' \cap Nfs : Foreseen(n)'
  BY <1>1 DEF Events, Foreseen, memory
<1>3. act'[Loop].pc = "remove" => hist'.was[act'[Loop].id] \in {"SUSPENDED", "touched"}
  BY <1>1 DEF Events, Foreseen
<1>4. act'[Loop].id \notin queue' /\ act'[Loop].pc # "check"
  BY <1>1 DEF Events, memory
<1> QED
  BY <1>2, <1>3, <1>4 DEF Events

LEMMA SuspendEvents ==
  ASSUME Core, Events, Suspend
  PROVE  Events'
<1>1. /\ act[Loop].pc = "suspend" /\ UNCHANGED <<queue, hist>>
      /\ act'[Loop].id = act[Loop].id /\ DOMAIN profiles' = DOMAIN profiles
      /\ \A m \in DOMAIN profiles \ {act[Loop].id} : profiles'[m] = profiles[m]
      /\ act'[Loop].pc \in {"snapProfiles", "grace"}
  BY SuspendMove
<1>2. \A n \in queue \cap Nfs : n # act[Loop].id
  BY <1>1 DEF Events
<1>3. \A n \in queue \cap Nfs : Traced(n)
  BY <1>1, <1>2 DEF Traced
<1> QED
  BY <1>1, <1>3, LoopEvents

LEMMA GraceEvents ==
  ASSUME Core, Events, Grace
  PROVE  Events'
<1>1. /\ act[Loop].pc = "grace" /\ UNCHANGED <<memory, hist>>
      /\ \/ act'[Loop].pc = "idle"
         \/ act'[Loop].pc = "arm" /\ act'[Loop].id = act[Loop].id
  BY GraceMove
<1>2. \A n \in queue \cap Nfs : Traced(n)
  BY <1>1 DEF Traced, memory
<1> QED
  BY <1>1, <1>2, LoopEvents DEF memory

LEMMA NextEvents ==
  ASSUME Core, Core', Events, [Next]_vars
  PROVE  Events'
<1>1. Loop \in Actors /\ Tasks \subseteq Actors
  BY DEF Actors
<1>2. ASSUME NEW t \in Tasks, Step(t) PROVE Events'
  BY <1>1, <1>2, AddInstanceEvents, InsertEvents, ReactivateEvents, SharedEvents, SubscribeEvents
  DEF Step
<1>3. CASE LoopStep
  BY <1>1, <1>3, TickEvents, NextEventEvents, CheckEvents, SuspendEvents, GraceEvents, SharedEvents
  DEF LoopStep
<1>4. CASE UNCHANGED vars
  <2>1. \A n : Foreseen(n) => Foreseen(n)'
    BY <1>4 DEF vars, Foreseen
  <2>2. Foreseen(act[Loop].id) => Foreseen(act[Loop].id)'
    BY <1>4 DEF vars, Foreseen
  <2> QED
    BY <1>4, <2>1, <2>2 DEF vars, Events
<1>5. CASE Restart
  <2>1. queue' = {} /\ act'[Loop] = Idle
    BY <1>1, <1>5 DEF Restart
  <2> QED
    BY <2>1 DEF Events, Idle
<1> QED
  BY <1>2, <1>3, <1>4, <1>5, RequestEvents DEF Next

\* Only Remove takes an instance away, but for a restart.
LEMMA WhoRemoves ==
  ASSUME Core, Core', [Next]_vars, NEW n \in Nfs, n \in instances, n \notin instances',
         act'[Loop].pc = "snapProfiles"
  PROVE  \E a \in Actors : Remove(a)
<1>1. Loop \in Actors /\ Tasks \subseteq Actors
  BY DEF Actors
<1>2. ASSUME NEW t \in Tasks, Request(t) PROVE FALSE
  BY <1>2, RequestMove DEF memory
<1>3. ASSUME NEW a \in Actors, Write(a) PROVE FALSE
  BY <1>3 DEF Write, SnapProfiles, SnapSubs, Open, Fill, Rename, WriteFails, memory
<1>4. ASSUME NEW t \in Tasks, Step(t) PROVE \E a \in Actors : Remove(a)
  BY <1>1, <1>3, <1>4
  DEF Step, AddInstance, Insert, Arm, Reactivate, Disarm, AddSub, StartTimer, RemoveSub
<1>5. ASSUME LoopStep PROVE \E a \in Actors : Remove(a)
  BY <1>1, <1>3, <1>5
  DEF LoopStep, Tick, NextEvent, Check, Suspend, Grace, Arm, Disarm, RemoveSub, memory
<1>6. ~Restart
  BY <1>1 DEF Restart, Idle
<1> QED
  BY <1>2, <1>4, <1>5, <1>6 DEF Next, vars

(***************************************************************************)
(* A timer event deregisters only an NF that was SUSPENDED already when    *)
(* that timer ran out, or that stored a profile itself since: between the  *)
(* two checks of the event loop no request can make a first miss a last.   *)
(***************************************************************************)
THEOREM GraceKept == Spec => GraceGiven
<1>1. Init => Events
  <2> SUFFICES ASSUME Init PROVE Events
    OBVIOUS
  <2>1. queue = {} /\ act[Loop] = Idle
    BY DEF Init, Actors
  <2> QED
    BY <2>1 DEF Events, Idle
<1>2. Core /\ Core' /\ Events /\ [Next]_vars => Events'
  BY NextEvents
<1>3. Core /\ Core' /\ Events /\ [Next]_vars =>
        [\A n \in Nfs :
           n \in instances /\ n \notin instances' /\ At(Loop, "remove")
             /\ act'[Loop].pc = "snapProfiles"
           => hist.was[n] \in {"SUSPENDED", "touched"}]_vars
  <2> SUFFICES ASSUME Core, Core', Events, [Next]_vars, NEW n \in Nfs, n \in instances,
                      n \notin instances', At(Loop, "remove"), act'[Loop].pc = "snapProfiles"
               PROVE  hist.was[n] \in {"SUSPENDED", "touched"}
    OBVIOUS
  <2>1. PICK a \in Actors : Remove(a)
    BY WhoRemoves
  <2>2. Moves(a) /\ (n = act[a].id)
    BY <2>1, RemoveMove
  <2>3. a = Loop
    <3>1. Loop \in Actors /\ act[Loop].pc = "remove"
      BY DEF Actors, At
    <3> QED
      BY <2>2, <3>1 DEF Moves
  <2> QED
    BY <2>2, <2>3 DEF Events, At
<1> QED
  BY <1>1, <1>2, <1>3, CoreInvariance, PTL DEF Spec, GraceGiven

-----------------------------------------------------------------------------
(* The state file.                                                         *)

\* A write has taken its snapshot, and no other one has overlapped it.
Underway == Writing \ {"snapProfiles"}
Sole(r)  == r.pc \in Underway /\ r.alone = TRUE

\* What the write r brings to the file is the registry as it is now.
Fresh(r, p, s, t) ==
  /\ r.pc = "snapSubs" => r.doc.p = p
  /\ r.pc \in {"open", "fill"} => r.doc = Doc(p, s)
  /\ r.pc = "fill" => r.fd = "tmp" /\ t = Blank
  /\ r.pc = "rename" => t = Doc(p, s)

Waiting == \E b \in Actors : act[b].pc = "snapProfiles"

Alone   == \A a, b \in Actors : a # b /\ Sole(act[a]) => act[b].pc \notin Underway
Current == \A a \in Actors : Sole(act[a]) => Waiting \/ Fresh(act[a], profiles, subs, tmp)
Saved   == hist.raced = FALSE /\ hist.failed = FALSE =>
             \/ Loaded(file) = Doc(profiles, subs)
             \/ \E a \in Actors : act[a].pc \in Writing

Filed == Alone /\ Current /\ Saved

\* The files themselves: a write that is alone has the temporary file to itself,
\* and one whose file was renamed under it has been overlapped.
Neat(r, t) == /\ r.pc = "fill" => r.fd = "tmp" /\ t = Blank
              /\ r.pc = "rename" => t.kind = "doc"

Tidy  == \A a \in Actors : Sole(act[a]) => Neat(act[a], tmp)
Stray == \A a \in Actors : act[a].pc = "fill" /\ act[a].fd # "tmp" => hist.raced = TRUE
Whole == hist.raced = FALSE => file.kind \in {"none", "doc"}

Intact == Tidy /\ Stray /\ Whole

\* A step that is not part of a write: whoever changes the registry is going
\* to take a snapshot of it.
Aside(a) ==
  /\ Moves(a) /\ act[a].pc \notin Writing /\ act'[a].pc \notin Underway
  /\ UNCHANGED disk /\ hist'.raced = hist.raced /\ hist'.failed = hist.failed
  /\ act'[a].pc = "snapProfiles" \/ UNCHANGED <<profiles, subs>>

LEMMA AsideFiled ==
  ASSUME Filed, NEW a \in Actors, Aside(a)
  PROVE  Filed'
<1>1. \A b \in Actors : act'[b].pc \in Underway => b # a /\ act'[b] = act[b]
  BY DEF Aside, Moves
<1>2. \A b \in Actors : act[b].pc \in Writing => act'[b] = act[b]
  BY DEF Aside, Moves
<1>3. Waiting => Waiting'
  BY <1>2 DEF Waiting, Writing
<1>4. act'[a].pc = "snapProfiles" => Waiting'
  BY DEF Waiting
<1>5. Alone'
  BY <1>1 DEF Filed, Alone, Sole
<1>6. Current'
  <2> SUFFICES ASSUME NEW b \in Actors, Sole(act[b])', ~Waiting'
               PROVE  Fresh(act'[b], profiles', subs', tmp')
    BY DEF Current
  <2>1. act'[b] = act[b] /\ Sole(act[b])
    BY <1>1 DEF Sole
  <2>2. UNCHANGED <<profiles, subs, tmp>> /\ ~Waiting
    BY <1>3, <1>4 DEF Aside, disk
  <2> QED
    BY <2>1, <2>2 DEF Filed, Current
<1>7. Saved'
  <2>1. CASE act'[a].pc = "snapProfiles"
    BY <2>1 DEF Saved, Writing
  <2>2. CASE UNCHANGED <<profiles, subs>>
    BY <1>2, <2>2 DEF Filed, Saved, Aside, disk
  <2> QED
    BY <2>1, <2>2 DEF Aside
<1> QED
  BY <1>5, <1>6, <1>7 DEF Filed

LEMMA AsideIntact ==
  ASSUME Intact, NEW a \in Actors, Aside(a)
  PROVE  Intact'
<1>1. \A b \in Actors : act'[b].pc \in Underway => act'[b] = act[b]
  BY DEF Aside, Moves
<1>2. UNCHANGED <<tmp, file>> /\ hist'.raced = hist.raced
  BY DEF Aside, disk
<1>3. Tidy'
  BY <1>1, <1>2 DEF Intact, Tidy, Sole
<1>4. Stray'
  BY <1>1, <1>2 DEF Intact, Stray, Underway, Writing
<1> QED
  BY <1>2, <1>3, <1>4 DEF Intact, Whole

LEMMA SnapProfilesFiled ==
  ASSUME Core, Filed, NEW a \in Actors, SnapProfiles(a)
  PROVE  Filed'
<1>1. /\ Others(a) /\ act'[a].pc = "snapSubs" /\ act'[a].doc = Doc(profiles, {})
      /\ act'[a].alone = TRUE => \A b \in Actors \ {a} : act[b].pc \notin Underway
      /\ \A b \in Actors \ {a} :
           /\ act[b].pc \in Underway => act'[b].alone = FALSE
           /\ act[b].pc \notin Underway => act'[b] = act[b]
  BY SnapProfilesMove DEF Underway
<1>2. UNCHANGED <<profiles, subs, tmp, file, hist>>
  BY DEF SnapProfiles, memory, disk
<1>3. \A b \in Actors \ {a} : act'[b].pc = act[b].pc
  BY <1>1 DEF Others, Like
<1>4. \A b \in Actors : Sole(act'[b]) => b = a
  BY <1>1, <1>3 DEF Sole
<1>5. Alone'
  BY <1>1, <1>3, <1>4 DEF Alone, Sole
<1>6. Current'
  <2>1. Doc(profiles, {}).p = profiles
    BY DEF Doc
  <2>2. Fresh(act'[a], profiles', subs', tmp')
    BY <1>1, <1>2, <2>1 DEF Fresh
  <2> QED
    BY <1>4, <2>2 DEF Current
<1>7. Saved'
  BY <1>1 DEF Saved, Writing
<1> QED
  BY <1>5, <1>6, <1>7 DEF Filed

LEMMA SnapProfilesIntact ==
  ASSUME Core, Intact, NEW a \in Actors, SnapProfiles(a)
  PROVE  Intact'
<1>1. /\ Others(a) /\ act'[a].pc = "snapSubs"
      /\ \A b \in Actors \ {a} :
           /\ act[b].pc \in Underway => act'[b].alone = FALSE
           /\ act[b].pc \notin Underway => act'[b] = act[b]
           /\ act'[b].fd = act[b].fd
  BY SnapProfilesMove DEF Underway
<1>2. UNCHANGED <<tmp, file, hist>>
  BY DEF SnapProfiles, disk
<1>3. \A b \in Actors \ {a} : act'[b].pc = act[b].pc
  BY <1>1 DEF Others, Like
<1>4. \A b \in Actors : Sole(act'[b]) => b = a
  BY <1>1, <1>3 DEF Sole
<1>5. Tidy'
  BY <1>1, <1>4 DEF Tidy, Neat
<1>6. Stray'
  BY <1>1, <1>2, <1>3 DEF Intact, Stray
<1> QED
  BY <1>2, <1>5, <1>6 DEF Intact, Whole

\* A step of a write after its first keeps it alone if it was.
LEMMA UnderwayFiled ==
  ASSUME Core, Filed, NEW a \in Actors, Moves(a), UNCHANGED <<profiles, subs, hist>>,
         act[a].pc \in Underway, act'[a].pc \in Underway, act'[a].alone = act[a].alone,
         Sole(act[a]) /\ Fresh(act[a], profiles, subs, tmp)
           => Fresh(act'[a], profiles, subs, tmp')
  PROVE  Filed'
<1>1. \A b \in Actors \ {a} : act'[b] = act[b]
  BY DEF Moves
<1>2. Waiting => Waiting'
  BY <1>1 DEF Waiting, Underway
<1>3. Sole(act'[a]) => Sole(act[a])
  BY DEF Sole
<1>4. Alone'
  BY <1>1, <1>3 DEF Filed, Alone, Sole
<1>5. Current'
  <2> SUFFICES ASSUME NEW b \in Actors, Sole(act'[b]), ~Waiting'
               PROVE  Fresh(act'[b], profiles', subs', tmp')
    BY DEF Current
  <2>1. b = a
    BY <1>1 DEF Filed, Alone, Sole
  <2> QED
    BY <1>2, <1>3, <2>1 DEF Filed, Current
<1>6. Saved'
  BY DEF Saved, Underway
<1> QED
  BY <1>4, <1>5, <1>6 DEF Filed

LEMMA UnderwayIntact ==
  ASSUME Alone, Intact, NEW a \in Actors, Moves(a), UNCHANGED hist,
         act[a].pc \in Underway, act'[a].pc \in Underway, act'[a].alone = act[a].alone,
         act'[a].pc = "fill" => act'[a].fd = "tmp",
         Sole(act[a]) /\ Neat(act[a], tmp) => Neat(act'[a], tmp'),
         hist.raced = FALSE => file' = file
  PROVE  Intact'
<1>1. \A b \in Actors \ {a} : act'[b] = act[b]
  BY DEF Moves
<1>2. Tidy'
  <2> SUFFICES ASSUME NEW b \in Actors, Sole(act'[b]) PROVE Neat(act'[b], tmp')
    BY DEF Tidy
  <2>1. b = a
    BY <1>1 DEF Alone, Sole
  <2>2. Sole(act[a])
    BY <2>1 DEF Sole
  <2> QED
    BY <2>1, <2>2 DEF Intact, Tidy
<1>3. Stray'
  BY <1>1 DEF Intact, Stray
<1> QED
  BY <1>2, <1>3 DEF Intact, Whole

LEMMA SnapSubsFiled ==
  ASSUME Core, Filed, Intact, NEW a \in Actors, SnapSubs(a)
  PROVE  Filed' /\ Intact'
<1>1. /\ Moves(a) /\ act'[a].pc = "open" /\ act'[a].doc = Doc(act[a].doc.p, subs)
      /\ act'[a].alone = act[a].alone
  BY SnapSubsMove
<1>2. act[a].pc = "snapSubs" /\ UNCHANGED <<profiles, subs, tmp, file, hist>>
  BY DEF SnapSubs, At, memory, disk
<1>3. Fresh(act[a], profiles, subs, tmp) => Fresh(act'[a], profiles, subs, tmp')
  BY <1>1, <1>2 DEF Fresh
<1>4. "snapSubs" \in Underway /\ "open" \in Underway
  BY DEF Underway, Writing
<1>5. Neat(act'[a], tmp') /\ Alone
  BY <1>1 DEF Neat, Filed
<1> QED
  BY <1>1, <1>2, <1>3, <1>4, <1>5, UnderwayFiled, UnderwayIntact

LEMMA OpenFiled ==
  ASSUME Core, Filed, Intact, NEW a \in Actors, Open(a)
  PROVE  Filed' /\ Intact'
<1>1. /\ Moves(a) /\ act'[a].pc = "fill" /\ act'[a].fd = "tmp" /\ act'[a].doc = act[a].doc
      /\ act'[a].alone = act[a].alone
  BY OpenMove
<1>2. act[a].pc = "open" /\ tmp' = Blank /\ UNCHANGED <<profiles, subs, file, hist>>
  BY DEF Open, At, memory
<1>3. Fresh(act[a], profiles, subs, tmp) => Fresh(act'[a], profiles, subs, tmp')
  BY <1>1, <1>2 DEF Fresh
<1>4. "open" \in Underway /\ "fill" \in Underway
  BY DEF Underway, Writing
<1>5. Neat(act'[a], tmp') /\ Alone
  BY <1>1, <1>2 DEF Neat, Filed
<1> QED
  BY <1>1, <1>2, <1>3, <1>4, <1>5, UnderwayFiled, UnderwayIntact

LEMMA FillFiled ==
  ASSUME Core, Filed, Intact, NEW a \in Actors, Fill(a)
  PROVE  Filed' /\ Intact'
<1>1. /\ Moves(a) /\ act'[a].pc = "rename" /\ act'[a].alone = act[a].alone
  BY FillMove
<1>2. act[a].pc = "fill" /\ UNCHANGED <<profiles, subs, hist>>
  BY DEF Fill, At, memory
<1>3. Fresh(act[a], profiles, subs, tmp) => Fresh(act'[a], profiles, subs, tmp')
  BY <1>1, <1>2 DEF Fresh, Fill, Overlay
<1>4. "rename" \in Underway /\ "fill" \in Underway
  BY DEF Underway, Writing
<1>5. Neat(act[a], tmp) => Neat(act'[a], tmp')
  <2>1. act[a].doc.kind = "doc"
    BY <1>2, BusyFacts, SnapFacts DEF Core, Carries
  <2>2. Neat(act[a], tmp) => tmp' = act[a].doc
    BY <1>2 DEF Neat, Fill, Overlay
  <2> QED
    BY <1>1, <2>1, <2>2 DEF Neat
<1>6. hist.raced = FALSE => file' = file
  BY <1>2 DEF Intact, Stray, Fill, disk
<1>7. Alone
  BY DEF Filed
<1> QED
  BY <1>1, <1>2, <1>3, <1>4, <1>5, <1>6, <1>7, UnderwayFiled, UnderwayIntact

\* A write ends, and leaves none behind it that is alone.
LEMMA LastOfWrite ==
  ASSUME Core, Filed, NEW a \in Actors, Others(a), act'[a] = Resume(a),
         act[a].pc \in Underway,
         \A b \in Actors \ {a} : act'[b].alone = act[b].alone
  PROVE  /\ act'[a].pc \notin Writing
         /\ \A b \in Actors \ {a} : act'[b].pc = act[b].pc
         /\ \A b \in Actors : ~Sole(act'[b])
         /\ act[a].alone = TRUE => \A b \in Actors : act'[b].pc \notin Underway
<1>1. act'[a].pc \notin Writing
  <2>1. PICK r : r = Resume(a)
    OBVIOUS
  <2>2. act[a] \in Busy
    BY BusyFacts DEF Core, Underway, Writing
  <2>3. r = Idle \/ r.pc \in Nexts
    BY <2>1, <2>2, ResumeFacts DEF Core, Underway, Busy
  <2> QED
    BY <2>1, <2>3 DEF Idle, Nexts, Writing
<1>2. \A b \in Actors \ {a} : act'[b].pc = act[b].pc
  BY DEF Others, Like
<1>3. \A b \in Actors : Sole(act'[b]) => b # a /\ Sole(act[b])
  BY <1>1, <1>2 DEF Sole, Underway
<1>4. \A b \in Actors : ~Sole(act'[b])
  BY <1>3 DEF Filed, Alone
<1>5. act[a].alone = TRUE => \A b \in Actors : act'[b].pc \notin Underway
  BY <1>1, <1>2 DEF Filed, Alone, Sole, Underway
<1> QED
  BY <1>1, <1>2, <1>4, <1>5

LEMMA RenameFiled ==
  ASSUME Core, Filed, Intact, NEW a \in Actors, Rename(a)
  PROVE  Filed' /\ Intact'
<1>1. /\ Others(a) /\ act'[a] = Resume(a)
      /\ \A b \in Actors \ {a} : act'[b].alone = act[b].alone
  BY RenameMove
<1>2. act[a].pc = "rename" /\ act[a] \in Busy /\ UNCHANGED <<profiles, subs>>
  BY BusyFacts DEF Rename, At, memory, Core
<1>3. /\ \A b \in Actors \ {a} : act'[b].pc = act[b].pc
      /\ \A b \in Actors : ~Sole(act'[b])
      /\ act[a].alone = TRUE => \A b \in Actors : act'[b].pc \notin Underway
  BY <1>1, <1>2, LastOfWrite DEF Underway, Writing
<1>4. Alone' /\ Current' /\ Tidy'
  BY <1>3 DEF Alone, Current, Tidy
<1>5. /\ file' = tmp /\ hist'.raced = ~act[a].alone /\ act[a].alone \in BOOLEAN
  BY <1>2 DEF Rename, Core, HistOK, Busy
<1>6. CASE act[a].alone = FALSE
  BY <1>4, <1>5, <1>6 DEF Filed, Saved, Intact, Stray, Whole
<1>7. CASE act[a].alone = TRUE
  <2>1. Sole(act[a])
    BY <1>2, <1>7 DEF Sole, Underway, Writing
  <2>2. Saved'
    <3>1. CASE Waiting
      BY <1>2, <1>3, <3>1 DEF Saved, Waiting, Writing
    <3>2. CASE ~Waiting
      <4>1. tmp = Doc(profiles, subs)
        BY <1>2, <2>1, <3>2 DEF Filed, Current, Fresh
      <4> QED
        BY <1>2, <1>5, <4>1 DEF Saved, Loaded, Doc
    <3> QED
      BY <3>1, <3>2
  <2>3. Stray'
    BY <1>3, <1>7 DEF Stray, Underway, Writing
  <2>4. Whole'
    BY <1>2, <1>5, <2>1 DEF Intact, Tidy, Neat, Whole
  <2> QED
    BY <1>4, <2>2, <2>3, <2>4 DEF Filed, Intact
<1> QED
  BY <1>5, <1>6, <1>7

LEMMA WriteFailsFiled ==
  ASSUME Core, Filed, Intact, NEW a \in Actors, WriteFails(a)
  PROVE  Filed' /\ Intact'
<1>1. /\ Moves(a) /\ act'[a] = Resume(a) /\ act[a].pc \in {"open", "fill", "rename"}
      /\ hist'.raced = hist.raced /\ hist'.failed = TRUE
  BY WriteFailsMove
<1>2. Others(a) /\ act[a].pc \in Underway /\ \A b \in Actors \ {a} : act'[b] = act[b]
  BY <1>1, MovesOthers DEF Moves, Underway, Writing
<1>3. act'[a].pc \notin Writing /\ \A b \in Actors : ~Sole(act'[b])
  BY <1>1, <1>2, LastOfWrite
<1>4. Filed' /\ Tidy'
  BY <1>1, <1>3 DEF Filed, Alone, Current, Saved, Tidy
<1>5. Stray'
  BY <1>1, <1>2, <1>3 DEF Intact, Stray, Writing
<1>6. Whole'
  <2>1. hist.raced = FALSE => file' = file
    BY DEF WriteFails, disk, Intact, Stray, At
  <2> QED
    BY <1>1, <2>1 DEF Intact, Whole
<1> QED
  BY <1>4, <1>5, <1>6 DEF Intact

LEMMA TouchedRaced ==
  ASSUME HistOK, NEW n \in Nfs
  PROVE  Touched(n).raced = hist.raced /\ Touched(n).failed = hist.failed
BY DEF Touched, HistOK

\* The steps by which an actor leaves the operation or goes on with it.
LEMMA StayAside ==
  ASSUME Core, NEW a \in Actors, act[a].pc # "idle",
         \/ Done(a)
         \/ \E pc \in Pcs \ (Underway \cup {"idle"}) : Goto(a, pc)
         \/ \E next \in Nexts : Persist(a, next)
  PROVE  Moves(a) /\ act'[a].pc \notin Underway
<1>1. CASE Done(a)
  BY <1>1, DoneMoves DEF Core, Underway, Writing
<1>2. ASSUME NEW pc \in Pcs \ (Underway \cup {"idle"}), Goto(a, pc)
      PROVE  Moves(a) /\ act'[a].pc \notin Underway
  BY <1>2, GotoMoves DEF Core
<1>3. ASSUME NEW next \in Nexts, Persist(a, next)
      PROVE  Moves(a) /\ act'[a].pc \notin Underway
  BY <1>3, PersistMoves DEF Core, Underway
<1> QED
  BY <1>1, <1>2, <1>3

LEMMA RegistryAside ==
  ASSUME Core, NEW t \in Tasks, AddInstance(t) \/ Insert(t) \/ Reactivate(t)
  PROVE  t \in Actors /\ Aside(t)
<1>1. CASE AddInstance(t)
  BY <1>1, AddInstanceMove DEF Aside, Underway, Writing
<1>2. CASE Insert(t)
  <2>1. /\ t \in Actors /\ act[t].pc = "insert" /\ Moves(t) /\ act'[t].pc = "snapProfiles"
        /\ UNCHANGED disk /\ hist' = Touched(act[t].id) /\ act[t].id \in Nfs
    BY <1>2, InsertMove
  <2>2. hist'.raced = hist.raced /\ hist'.failed = hist.failed
    BY <2>1, TouchedRaced DEF Core
  <2> QED
    BY <2>1, <2>2 DEF Aside, Underway, Writing
<1>3. CASE Reactivate(t)
  <2>1. /\ t \in Actors /\ act[t].pc = "reactivate" /\ Moves(t) /\ act[t].id \in Nfs
        /\ UNCHANGED <<subs, disk>>
        /\ \/ act'[t].pc = "idle" /\ UNCHANGED <<profiles, hist>>
           \/ act'[t].pc = "snapProfiles" /\ hist' = Touched(act[t].id)
    BY <1>3, ReactivateMove
  <2>2. hist'.raced = hist.raced /\ hist'.failed = hist.failed
    BY <2>1, TouchedRaced DEF Core
  <2> QED
    BY <2>1, <2>2 DEF Aside, Underway, Writing
<1> QED
  BY <1>1, <1>2, <1>3

LEMMA SharedAside ==
  ASSUME Core, NEW a \in Actors, Arm(a) \/ Remove(a) \/ Disarm(a) \/ RemoveSub(a)
  PROVE  Aside(a)
<1>1. CASE Arm(a)
  <2>1. act[a].pc = "arm" /\ UNCHANGED <<profiles, subs, disk>>
    BY <1>1 DEF Arm, At
  <2>2. Done(a) \/ Goto(a, "reactivate")
    BY <1>1 DEF Arm
  <2>3. Moves(a) /\ act'[a].pc \notin Underway
    BY <2>1, <2>2, StayAside DEF Pcs, Underway, Writing
  <2>4. hist'.raced = hist.raced /\ hist'.failed = hist.failed
    BY <1>1 DEF Arm, Core, HistOK
  <2> QED
    BY <2>1, <2>3, <2>4 DEF Aside, Writing
<1>2. CASE Remove(a)
  <2>1. act[a].pc = "remove" /\ Moves(a) /\ UNCHANGED <<subs, disk>>
    BY <1>2, RemoveMove
  <2>2. \/ act'[a].pc = "snapProfiles" /\ hist'.raced = hist.raced /\ hist'.failed = hist.failed
        \/ act'[a].pc \in {"disarm", "idle"} /\ UNCHANGED <<profiles, hist>>
    BY <1>2, RemoveMove
  <2> QED
    BY <2>1, <2>2 DEF Aside, Underway, Writing
<1>3. CASE Disarm(a)
  <2>1. act[a].pc = "disarm" /\ UNCHANGED <<profiles, subs, disk>> /\ Done(a)
    BY <1>3 DEF Disarm, At
  <2>2. Moves(a) /\ act'[a].pc \notin Underway
    BY <2>1, StayAside
  <2>3. hist'.raced = hist.raced /\ hist'.failed = hist.failed
    BY <1>3 DEF Disarm, Core, HistOK
  <2> QED
    BY <2>1, <2>2, <2>3 DEF Aside, Writing
<1>4. CASE RemoveSub(a)
  <2>1. act[a].pc = "removeSub" /\ UNCHANGED <<profiles, disk, hist>>
    BY <1>4 DEF RemoveSub, At
  <2>2. (Done(a) /\ UNCHANGED subs) \/ Persist(a, "idle")
    BY <1>4 DEF RemoveSub
  <2>3. Moves(a) /\ act'[a].pc \notin Underway
    BY <2>1, <2>2, StayAside DEF Nexts
  <2>4. UNCHANGED subs \/ act'[a].pc = "snapProfiles"
    BY <2>1, <2>2, PersistMoves DEF Core, Nexts
  <2> QED
    BY <2>1, <2>3, <2>4 DEF Aside, Writing
<1> QED
  BY <1>1, <1>2, <1>3, <1>4

LEMMA SubscribeAside ==
  ASSUME Core, NEW t \in Tasks, AddSub(t) \/ StartTimer(t)
  PROVE  t \in Actors /\ Aside(t)
<1>0. t \in Actors
  BY DEF Actors
<1>1. CASE AddSub(t)
  <2>1. /\ act[t].pc = "addSub" /\ UNCHANGED <<profiles, disk, hist>> /\ Persist(t, "startTimer")
    BY <1>1 DEF AddSub, At
  <2>2. Moves(t) /\ act'[t].pc = "snapProfiles"
    BY <1>0, <2>1, PersistMoves DEF Core, Nexts
  <2> QED
    BY <1>0, <2>1, <2>2 DEF Aside, Underway, Writing
<1>2. CASE StartTimer(t)
  <2>1. act[t].pc = "startTimer" /\ UNCHANGED <<profiles, subs, disk, hist>> /\ Done(t)
    BY <1>2 DEF StartTimer, At
  <2>2. Moves(t) /\ act'[t].pc \notin Underway
    BY <1>0, <2>1, StayAside
  <2> QED
    BY <1>0, <2>1, <2>2 DEF Aside, Writing
<1> QED
  BY <1>1, <1>2

LEMMA EventAside ==
  ASSUME Core, Tick \/ NextEvent \/ Check \/ Suspend \/ Grace
  PROVE  Loop \in Actors /\ Aside(Loop)
<1>0. Loop \in Actors
  BY DEF Actors
<1>1. CASE Tick
  <2>1. act[Loop].pc = "idle" /\ UNCHANGED <<profiles, subs, act, disk>>
    BY <1>1 DEF Tick, At
  <2>2. hist'.raced = hist.raced /\ hist'.failed = hist.failed
    BY <1>1 DEF Tick, Core, HistOK
  <2> QED
    BY <1>0, <2>1, <2>2 DEF Aside, Moves, Core, ActsOK, Underway, Writing
<1>2. CASE NextEvent
  <2>1. act[Loop].pc = "idle" /\ UNCHANGED <<profiles, subs, disk, hist>>
    BY <1>2 DEF NextEvent, At
  <2>2. Moves(Loop) /\ act'[Loop].pc \in {"removeSub", "check"}
    BY <1>2, NextEventMove
  <2> QED
    BY <1>0, <2>1, <2>2 DEF Aside, Underway, Writing
<1>3. CASE Check
  BY <1>3, CheckMove DEF Aside, Underway, Writing, memory
<1>4. CASE Suspend
  BY <1>4, SuspendMove DEF Aside, Underway, Writing
<1>5. CASE Grace
  BY <1>5, GraceMove DEF Aside, Underway, Writing, memory
<1> QED
  BY <1>1, <1>2, <1>3, <1>4, <1>5

\* A process starts, with what the file holds or noting that it could not read it.
LEMMA RestartFiled ==
  ASSUME Core, Restart
  PROVE  Filed' /\ Intact'
<1>1. PICK d \in Loads(file) :
        /\ profiles' = d.p /\ subs' = d.s
        /\ hist'.raced = (file.kind \in {"blank", "mixed"}) /\ hist'.failed = (d # Loaded(file))
  BY DEF Restart
<1>2. /\ file' = file /\ file \in Files /\ d = Doc(d.p, d.s)
      /\ \A a \in Actors : act'[a].pc = "idle"
  BY LoadsFacts DEF Restart, disk, Core, DiskOK, Idle
<1>3. hist'.failed = FALSE => Loaded(file') = Doc(profiles', subs')
  BY <1>1, <1>2
<1>4. hist'.raced = FALSE => file'.kind \in {"none", "doc"}
  BY <1>1, <1>2, KindFacts, SnapFacts DEF Files
<1> QED
  BY <1>2, <1>3, <1>4
  DEF Filed, Alone, Current, Saved, Sole, Intact, Tidy, Stray, Whole, Underway, Writing

LEMMA InitFiled == Init => Filed /\ Intact
<1> SUFFICES ASSUME Init PROVE Filed /\ Intact
  OBVIOUS
<1>1. file \in Files /\ Earlier(file, unused)
  BY InitCore DEF Core, DiskOK
<1>2. Loaded(file) = Doc(profiles, subs)
  BY <1>1, LoadedFacts DEF Init
<1>3. \A a \in Actors : act[a].pc = "idle"
  BY DEF Init, Idle
<1>4. file.kind \in {"none", "doc"}
  BY LeftAssumption, KindFacts, DocFacts DEF Init
<1> QED
  BY <1>2, <1>3, <1>4
  DEF Filed, Alone, Current, Saved, Sole, Intact, Tidy, Stray, Whole, Underway, Writing

LEMMA NextFiled ==
  ASSUME Core, Core', Filed, Intact, [Next]_vars
  PROVE  Filed' /\ Intact'
<1>1. Loop \in Actors /\ Tasks \subseteq Actors
  BY DEF Actors
<1>2. ASSUME NEW a \in Actors, Write(a) PROVE Filed' /\ Intact'
  BY <1>2, SnapProfilesFiled, SnapProfilesIntact, SnapSubsFiled, OpenFiled, FillFiled, RenameFiled,
     WriteFailsFiled
  DEF Write
<1>3. ASSUME NEW a \in Actors, Aside(a) PROVE Filed' /\ Intact'
  BY <1>3, AsideFiled, AsideIntact
<1>4. ASSUME NEW t \in Tasks, Request(t) PROVE Filed' /\ Intact'
  <2>1. t \in Actors /\ Aside(t)
    BY <1>4, RequestMove DEF Aside, Underway, Writing, memory
  <2> QED
    BY <1>3, <2>1
<1>5. ASSUME NEW t \in Tasks, Step(t) PROVE Filed' /\ Intact'
  BY <1>1, <1>2, <1>3, <1>5, RegistryAside, SharedAside, SubscribeAside DEF Step
<1>6. CASE LoopStep
  BY <1>1, <1>2, <1>3, <1>6, EventAside, SharedAside DEF LoopStep
<1>7. CASE UNCHANGED vars
  <2>1. Filed'
    BY <1>7 DEF vars, Filed, Alone, Current, Saved, Waiting
  <2>2. Intact'
    BY <1>7 DEF vars, Intact, Tidy, Stray, Whole
  <2> QED
    BY <2>1, <2>2
<1> QED
  BY <1>4, <1>5, <1>6, <1>7, RestartFiled DEF Next

(***************************************************************************)
(* Whatever call of a write fails and whenever the process ends, the state *)
(* file is a whole snapshot or none, and when no request is being served   *)
(* it holds the registry: every change of profiles or subscriptions is     *)
(* followed by a snapshot that contains it, and a write that is alone      *)
(* moves that snapshot, whole, to the file.  Excepted are a file whose     *)
(* last write overlapped another one and, for the second part, a last      *)
(* write that failed or a file that the process could not read.            *)
(***************************************************************************)
THEOREM FileKeepsUp == Spec => []SavedWhenQuiet
<1>1. Core /\ Core' /\ (Filed /\ Intact) /\ [Next]_vars => (Filed /\ Intact)'
  BY NextFiled
<1>2. Core /\ (Filed /\ Intact) => SavedWhenQuiet
  <2> SUFFICES ASSUME Core, Filed, Intact, ~hist.raced
               PROVE  /\ file.kind \in {"none", "doc"}
                      /\ Quiet /\ ~hist.failed => Loaded(file) = Doc(profiles, subs)
    BY DEF SavedWhenQuiet
  <2>1. hist.raced = FALSE /\ hist.failed \in BOOLEAN
    BY DEF Core, HistOK
  <2>2. Quiet => \A a \in Actors : act[a].pc \notin Writing
    BY DEF Quiet, At, Writing
  <2> QED
    BY <2>1, <2>2 DEF Filed, Saved, Intact, Whole
<1> QED
  BY <1>1, <1>2, InitFiled, CoreInvariance, PTL DEF Spec

=============================================================================
