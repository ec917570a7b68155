---------------------------- MODULE NsacfProofs ----------------------------
(***************************************************************************)
(* Proofs about Nsacf, for every set of slices, members and ceilings and   *)
(* every number of requests served at a time: identities are fresh over    *)
(* restarts, a quota without a rival is found, the state file keeps up,    *)
(* and no count passes its ceilings but by an UPDATE.                      *)
(***************************************************************************)
EXTENDS Nsacf, FiniteSetTheorems, TLAPS

\* Who is counted, and from where: a function on some of the members.
Accesses == UNION {[S -> Access] : S \in SUBSET (Ues \cup Pdus)}

Ceiling == [max : [Kinds -> Nat], per : [Kinds -> [Access -> Nat \cup {NoLimit}]]]

Quota == [slice : Slices, lim : Limits, eac : BOOLEAN,
          mem : [Kinds -> SUBSET (Ues \cup Pdus)], acc : [Kinds -> Accesses],
          top : Ceiling, moved : [Kinds -> SUBSET (Ues \cup Pdus)]]

\* Members M with access types f, of whom V have been moved, keep to ceilings l.
Fits(l, k, M, f, V) ==
  /\ Cardinality(M) <= l.max[k]
  /\ \A a \in Access : l.per[k][a] # NoLimit =>
       Cardinality({x \in M \ V : f[x] = a}) <= l.per[k][a]

\* Ceilings l are no higher than ceilings h.
Below(l, h, k) ==
  /\ l.max[k] <= h.max[k]
  /\ \A a \in Access : h.per[k][a] # NoLimit =>
       l.per[k][a] # NoLimit /\ l.per[k][a] <= h.per[k][a]

\* The members are of the kind counted, finitely many, each with its access type,
\* and their count keeps to what it is allowed.
Sound(q) ==
  \A k \in Kinds : /\ q.mem[k] \subseteq Members(k)
                   /\ IsFiniteSet(q.mem[k])
                   /\ q.acc[k] \in [q.mem[k] -> Access]
                   /\ q.moved[k] \subseteq q.mem[k]
                   /\ Fits(q.top, k, q.mem[k], q.acc[k], q.moved[k])
                   /\ Below(q.lim, q.top, k)

\* A list of quotas, in memory or in a snapshot, all older than identity n.
ListOK(qs, n) ==
  /\ qs \in [DOMAIN qs -> Quota]
  /\ DOMAIN qs \subseteq Ids
  /\ \A id \in DOMAIN qs : id < n /\ Sound(qs[id])

SnapshotOK(w) == w.next \in 1..MaxId + 1 /\ ListOK(w.quotas, w.next)

\* The locals of a request, by where it is; the list is qs, the next identity n.
TaskOK(r, qs, n) ==
  /\ r.pc \in Pcs
  /\ r.pc = "apply" => /\ r.flag \in {"INCREASE", "DECREASE", "UPDATE"}
                       /\ r.k \in Kinds /\ r.m \in Members(r.k) /\ r.a \in Access
  /\ r.pc \in {"addList", "addIndex", "dropIndex"} => r.s \in Slices
  /\ r.pc \in {"addList", "retune"} => r.lim \in Limits
  /\ r.pc = "addIndex" => /\ r.id \in Ids /\ r.id < n
                          /\ r.id \in DOMAIN qs => qs[r.id].slice = r.s
  /\ r.pc = "spawn" => ListOK(r.snap, n)

TasksOK == DOMAIN task = Tasks /\ \A t \in Tasks : TaskOK(task[t], quotas, nextId)

\* The index names only identities already given out.
IndexOK ==
  /\ index \in [DOMAIN index -> Ids]
  /\ DOMAIN index \subseteq Slices
  /\ \A s \in DOMAIN index :
       index[s] < nextId /\ (index[s] \in DOMAIN quotas => quotas[index[s]].slice = s)

FilesOK == SnapshotOK(file) /\ IsABag(writes) /\ \A w \in DOMAIN writes : SnapshotOK(w)

DownOK == status = "down" => DOMAIN writes = {} /\ \A t \in Tasks : At(t, "idle")

BookOK ==
  /\ nextId \in 1..MaxId + 1
  /\ boot \subseteq Configured /\ status \in {"down", "up", "stopping"}
  /\ crashes \in 0..MaxCrashes /\ asked \in 0..MaxRequests

HistOK ==
  /\ hist = [behind |-> hist.behind, shared |-> hist.shared, loaded |-> hist.loaded]
  /\ hist.behind \in BOOLEAN

Core == ListOK(quotas, nextId) /\ TasksOK /\ IndexOK /\ FilesOK /\ DownOK /\ BookOK /\ HistOK

\* A quota whose slice has no second one, and no request under way that could
\* take the entry of the index from it.
Alone(id) ==
  LET s == quotas[id].slice IN
  /\ \A j \in DOMAIN quotas : quotas[j].slice = s => j = id
  /\ \A t \in Tasks : At(t, "dropIndex") => task[t].s # s
  /\ \A t \in Tasks : At(t, "addIndex") /\ task[t].s = s => task[t].id = id
  /\ \/ s \in DOMAIN index /\ index[s] = id
     \/ \E t \in Tasks : At(t, "addIndex") /\ task[t].id = id

Reachable == \A id \in DOMAIN quotas : quotas[id].slice \in hist.shared \/ Alone(id)

\* The list has changed and the snapshot is still to be taken.
Dirty == \E t \in Tasks : task[t].pc \in {"addIndex", "dropIndex", "save"}

\* One snapshot at most is on its way; the last of them, or else the file, is the list.
Saved ==
  status # "down" /\ ~hist.behind =>
    /\ \A w \in DOMAIN writes : writes[w] = 1 /\ \A v \in DOMAIN writes : v = w
    /\ \A t \in Tasks : At(t, "spawn") => DOMAIN writes = {}
    /\ \A t, u \in Tasks : At(t, "spawn") /\ At(u, "spawn") => t = u
    /\ ~Dirty =>
         /\ \A w \in DOMAIN writes : w.quotas = quotas
         /\ \A t \in Tasks : At(t, "spawn") => task[t].snap = quotas
         /\ DOMAIN writes = {} /\ (\A t \in Tasks : ~At(t, "spawn")) => file.quotas = quotas

-----------------------------------------------------------------------------
(* The counters.                                                           *)

LEMMA KindsMembers ==
  ASSUME NEW k \in Kinds
  PROVE  Members(k) \subseteq Ues \cup Pdus
BY DEF Kinds, Members

LEMMA AccessesOf ==
  ASSUME NEW S \in SUBSET (Ues \cup Pdus), NEW f \in [S -> Access]
  PROVE  f \in Accesses
BY DEF Accesses

\* Fewer members, or more of them moved, fit as well.
LEMMA FitsLess ==
  ASSUME NEW l \in Ceiling, NEW k \in Kinds,
         NEW M, NEW f, NEW V, Fits(l, k, M, f, V), IsFiniteSet(M),
         NEW N \in SUBSET M, NEW g, NEW W, N \ W \subseteq M \ V,
         \A x \in N \ W : g[x] = f[x]
  PROVE  Fits(l, k, N, g, W)
<1>1. Cardinality(M) \in Nat /\ Cardinality(N) \in Nat /\ Cardinality(N) <= Cardinality(M)
  BY FS_Subset, FS_CardinalityType
<1>2. l.max[k] \in Nat
  BY DEF Ceiling
<1>3. Cardinality(N) <= l.max[k]
  BY <1>1, <1>2 DEF Fits
<1>4. ASSUME NEW a \in Access, l.per[k][a] # NoLimit
      PROVE  Cardinality({x \in N \ W : g[x] = a}) <= l.per[k][a]
  <2> DEFINE A == {x \in M \ V : f[x] = a}
             B == {x \in N \ W : g[x] = a}
  <2>1. IsFiniteSet(A) /\ B \subseteq A
    BY FS_Subset
  <2>2. Cardinality(A) \in Nat /\ Cardinality(B) \in Nat /\ Cardinality(B) <= Cardinality(A)
    BY <2>1, FS_Subset, FS_CardinalityType
  <2>3. Cardinality(A) <= l.per[k][a]
    BY <1>4 DEF Fits
  <2>4. l.per[k][a] \in Nat
    BY <1>4 DEF Ceiling
  <2> HIDE DEF A, B
  <2>5. Cardinality(B) <= l.per[k][a]
    BY <2>2, <2>3, <2>4
  <2> QED
    BY <2>5 DEF B
<1> QED
  BY <1>3, <1>4 DEF Fits

\* Quota q with other members of one kind, their access types, and those moved.
With(q, k, M, f, V) == [q EXCEPT !.mem[k] = M, !.acc[k] = f, !.moved[k] = V]

\* A quota stays sound when the members of one kind change and fit.
LEMMA SoundUpdate ==
  ASSUME NEW q \in Quota, Sound(q), NEW k \in Kinds,
         NEW M \in SUBSET Members(k), IsFiniteSet(M), NEW f \in [M -> Access],
         NEW V \in SUBSET M, Fits(q.top, k, M, f, V),
         NEW p, p = With(q, k, M, f, V)
  PROVE  p \in Quota /\ Sound(p) /\ p.slice = q.slice
<1>1. M \in SUBSET (Ues \cup Pdus) /\ V \in SUBSET (Ues \cup Pdus)
  BY KindsMembers
<1>2. f \in Accesses
  BY <1>1, AccessesOf
<1>3. /\ p.slice = q.slice /\ p.lim = q.lim /\ p.eac = q.eac /\ p.top = q.top
      /\ p.mem = [q.mem EXCEPT ![k] = M]
      /\ p.acc = [q.acc EXCEPT ![k] = f]
      /\ p.moved = [q.moved EXCEPT ![k] = V]
  BY DEF Quota, With
<1>4. p \in Quota
  BY <1>1, <1>2 DEF Quota, With
<1>5. /\ p.mem[k] = M /\ p.acc[k] = f /\ p.moved[k] = V
      /\ \A j \in Kinds \ {k} : /\ p.mem[j] = q.mem[j] /\ p.acc[j] = q.acc[j]
                               /\ p.moved[j] = q.moved[j]
  BY <1>3 DEF Quota
<1>6. Sound(p)
  BY <1>3, <1>5 DEF Sound
<1> QED
  BY <1>3, <1>4, <1>6

\* update_eac changes the flag alone.
LEMMA CountedSound ==
  ASSUME NEW q \in Quota, Sound(q), NEW k \in Kinds, NEW p, p = Counted(q, k)
  PROVE  p \in Quota /\ Sound(p) /\ p.slice = q.slice
<1>1. p = q \/ \E b \in BOOLEAN : p = [q EXCEPT !.eac = b]
  <2> DEFINE b == Cardinality(q.mem["ue"]) * 100 >= q.lim.max["ue"] * Threshold
  <2>1. b \in BOOLEAN
    OBVIOUS
  <2>2. p = q \/ p = [q EXCEPT !.eac = b]
    BY DEF Counted, update_eac
  <2> QED
    BY <2>1, <2>2, Zenon
<1>2. /\ p \in Quota /\ p.slice = q.slice /\ p.lim = q.lim /\ p.top = q.top
      /\ p.mem = q.mem /\ p.acc = q.acc /\ p.moved = q.moved
  BY <1>1 DEF Quota
<1> QED
  BY <1>2 DEF Sound

\* What an operation on quota q may answer: a sound quota of the slice, and what
\* is not saved has not changed.
ResultOK(q, r) ==
  /\ r.q \in Quota /\ Sound(r.q) /\ r.q.slice = q.slice
  /\ r.save \in BOOLEAN /\ (~r.save => r.q = q)

\* One more member, where there is room, fits.
LEMMA RoomForOne ==
  ASSUME NEW q \in Quota, Sound(q), NEW k \in Kinds, NEW m \in Members(k),
         m \notin q.mem[k], NEW a \in Access, HasRoom(q, k, a),
         NEW M, M = q.mem[k] \cup {m},
         NEW f, f = [x \in M |-> IF x = m THEN a ELSE q.acc[k][x]]
  PROVE  Fits(q.top, k, M, f, q.moved[k])
<1> DEFINE V == q.moved[k]
           On(b) == {x \in q.mem[k] : q.acc[k][x] = b}
           Old(b) == {x \in q.mem[k] \ V : q.acc[k][x] = b}
           New(b) == {x \in M \ V : f[x] = b}
<1>1. IsFiniteSet(q.mem[k]) /\ Cardinality(q.mem[k]) \in Nat
  BY FS_CardinalityType DEF Sound
<1>2. Cardinality(M) = Cardinality(q.mem[k]) + 1
  BY <1>1, FS_AddElement
<1>3. /\ q.lim.max[k] \in Nat /\ q.top.max[k] \in Nat /\ q.lim.max[k] <= q.top.max[k]
      /\ \A b \in Access : /\ q.lim.per[k][b] \in Nat \cup {NoLimit}
                          /\ q.top.per[k][b] \in Nat \cup {NoLimit}
  BY NsacfAssumption DEF Quota, Ceiling, Sound, Below
<1>4. Cardinality(M) <= q.top.max[k]
  BY <1>1, <1>2, <1>3 DEF HasRoom
<1>5. ASSUME NEW b \in Access, q.top.per[k][b] # NoLimit
      PROVE  Cardinality(New(b)) <= q.top.per[k][b]
  <2>1. CASE b # a
    <3>1. New(b) = Old(b)
      BY <2>1
    <3> QED
      BY <1>5, <3>1 DEF Sound, Fits
  <2>2. CASE b = a
    <3>1. IsFiniteSet(On(a)) /\ Cardinality(On(a)) \in Nat /\ m \notin On(a)
      BY <1>1, FS_Subset, FS_CardinalityType
    <3>2. IsFiniteSet(On(a) \cup {m}) /\ Cardinality(On(a) \cup {m}) = Cardinality(On(a)) + 1
      BY <3>1, FS_AddElement
    <3>3. New(a) \subseteq On(a) \cup {m}
      OBVIOUS
    <3>4. Cardinality(New(a)) \in Nat /\ Cardinality(New(a)) <= Cardinality(On(a)) + 1
      <4>1. IsFiniteSet(New(a)) /\ Cardinality(New(a)) <= Cardinality(On(a) \cup {m})
        BY <3>2, <3>3, FS_Subset
      <4> QED
        BY <3>2, <4>1, FS_CardinalityType
    <3>5. q.lim.per[k][a] # NoLimit /\ q.lim.per[k][a] <= q.top.per[k][a]
      BY <1>5, <2>2 DEF Sound, Below
    <3>6. Cardinality(On(a)) < q.lim.per[k][a]
      BY <3>5 DEF HasRoom, CountOn
    <3>7. q.lim.per[k][a] \in Nat /\ q.top.per[k][a] \in Nat
      BY <1>3, <1>5, <2>2, <3>5
    <3> HIDE DEF On, New
    <3> QED
      BY <2>2, <3>1, <3>4, <3>5, <3>6, <3>7
  <2> QED
    BY <2>1, <2>2
<1> QED
  BY <1>4, <1>5 DEF Fits

LEMMA SameResult ==
  ASSUME NEW q \in Quota, Sound(q), NEW r, r.q = q, r.save \in BOOLEAN
  PROVE  ResultOK(q, r)
BY DEF ResultOK

\* Other members of kind k who fit, and the flag of early admission control.
LEMMA CountedResult ==
  ASSUME NEW q \in Quota, Sound(q), NEW k \in Kinds,
         NEW M \in SUBSET Members(k), IsFiniteSet(M), NEW f \in [M -> Access],
         NEW V \in SUBSET M, Fits(q.top, k, M, f, V),
         NEW r, r = [q |-> Counted(With(q, k, M, f, V), k), save |-> TRUE]
  PROVE  ResultOK(q, r)
<1> DEFINE e == With(q, k, M, f, V)
           p == Counted(e, k)
<1>1. e \in Quota /\ Sound(e) /\ e.slice = q.slice
  <2>1. e = With(q, k, M, f, V)
    OBVIOUS
  <2> HIDE DEF e
  <2> QED BY <2>1, SoundUpdate
<1>2. p \in Quota /\ Sound(p) /\ p.slice = q.slice
  <2>1. p = Counted(e, k)
    OBVIOUS
  <2> HIDE DEF e, p
  <2> QED BY <1>1, <2>1, CountedSound
<1>3. r = [q |-> p, save |-> TRUE]
  OBVIOUS
<1> HIDE DEF p
<1> QED
  BY <1>2, <1>3 DEF ResultOK

LEMMA AdmitOK ==
  ASSUME NEW q \in Quota, Sound(q), NEW k \in Kinds, NEW m \in Members(k), NEW a \in Access
  PROVE  ResultOK(q, Admit(q, k, m, a))
<1>1. CASE m \in q.mem[k] \/ ~HasRoom(q, k, a)
  <2> DEFINE r == Admit(q, k, m, a)
  <2>1. r.q = q /\ r.save \in BOOLEAN
    BY <1>1 DEF Admit
  <2>2. ResultOK(q, r)
    <3> HIDE DEF r
    <3> QED BY <2>1, SameResult
  <2> QED BY <2>2
<1>2. CASE m \notin q.mem[k] /\ HasRoom(q, k, a)
  <2> DEFINE M == q.mem[k] \cup {m}
             f == [x \in M |-> IF x = m THEN a ELSE q.acc[k][x]]
             V == q.moved[k]
             r == Admit(q, k, m, a)
  <2>1. /\ M \in SUBSET Members(k) /\ IsFiniteSet(M) /\ f \in [M -> Access]
        /\ V \in SUBSET M
    BY FS_AddElement DEF Sound
  <2>2. Fits(q.top, k, M, f, V)
    BY <1>2, RoomForOne
  <2>3. [q EXCEPT !.mem[k] = M, !.acc[k] = f] = With(q, k, M, f, V)
    <3>1. [q.moved EXCEPT ![k] = V] = q.moved
      BY DEF Quota
    <3> HIDE DEF M, f
    <3> QED BY <3>1 DEF With, Quota
  <2>4. r = [q |-> Counted(With(q, k, M, f, V), k), save |-> TRUE]
    BY <1>2, <2>3 DEF Admit
  <2>5. ResultOK(q, r)
    <3> HIDE DEF M, f, V, r
    <3> QED BY <2>1, <2>2, <2>4, CountedResult
  <2> QED BY <2>5
<1> QED
  BY <1>1, <1>2

LEMMA DischargeOK ==
  ASSUME NEW q \in Quota, Sound(q), NEW k \in Kinds, NEW m \in Members(k)
  PROVE  ResultOK(q, Discharge(q, k, m))
<1>1. CASE m \notin q.mem[k]
  <2> DEFINE r == Discharge(q, k, m)
  <2>1. r.q = q /\ r.save \in BOOLEAN
    BY <1>1 DEF Discharge
  <2>2. ResultOK(q, r)
    <3> HIDE DEF r
    <3> QED BY <2>1, SameResult
  <2> QED BY <2>2
<1>2. CASE m \in q.mem[k]
  <2> DEFINE M == q.mem[k] \ {m}
             f == [x \in M |-> q.acc[k][x]]
             V == q.moved[k] \ {m}
             r == Discharge(q, k, m)
  <2>1. /\ M \in SUBSET Members(k) /\ IsFiniteSet(M) /\ f \in [M -> Access]
        /\ V \in SUBSET M
    BY FS_RemoveElement DEF Sound
  <2>2. Fits(q.top, k, M, f, V)
    <3>1. /\ Fits(q.top, k, q.mem[k], q.acc[k], q.moved[k]) /\ IsFiniteSet(q.mem[k])
          /\ q.top \in Ceiling
      BY DEF Sound, Quota
    <3>2. /\ M \in SUBSET q.mem[k] /\ M \ V \subseteq q.mem[k] \ q.moved[k]
          /\ \A x \in M \ V : f[x] = q.acc[k][x]
      OBVIOUS
    <3> HIDE DEF M, f, V
    <3> QED BY <3>1, <3>2, FitsLess
  <2>3. r = [q |-> Counted(With(q, k, M, f, V), k), save |-> TRUE]
    BY <1>2 DEF Discharge, Restrict, With
  <2>4. ResultOK(q, r)
    <3> HIDE DEF M, f, V, r
    <3> QED BY <2>1, <2>2, <2>3, CountedResult
  <2> QED BY <2>4
<1> QED
  BY <1>1, <1>2

LEMMA MoveOK ==
  ASSUME NEW q \in Quota, Sound(q), NEW k \in Kinds, NEW m \in Members(k), NEW a \in Access
  PROVE  ResultOK(q, Move(q, k, m, a))
<1>1. CASE m \notin q.mem[k]
  <2> DEFINE r == Move(q, k, m, a)
  <2>1. r.q = q /\ r.save \in BOOLEAN
    BY <1>1 DEF Move
  <2>2. ResultOK(q, r)
    <3> HIDE DEF r
    <3> QED BY <2>1, SameResult
  <2> QED BY <2>2
<1>2. CASE m \in q.mem[k]
  <2> DEFINE M == q.mem[k]
             f == [q.acc[k] EXCEPT ![m] = a]
             V == IF q.acc[k][m] = a THEN q.moved[k] ELSE q.moved[k] \cup {m}
             e == With(q, k, M, f, V)
             r == Move(q, k, m, a)
  <2>1. /\ M \in SUBSET Members(k) /\ IsFiniteSet(M) /\ f \in [M -> Access]
        /\ V \in SUBSET M
    BY <1>2 DEF Sound
  <2>2. Fits(q.top, k, M, f, V)
    <3>1. /\ Fits(q.top, k, M, q.acc[k], q.moved[k]) /\ q.top \in Ceiling
      BY DEF Sound, Quota
    <3>2. M \ V \subseteq M \ q.moved[k] /\ \A x \in M \ V : f[x] = q.acc[k][x]
      BY DEF Sound
    <3> HIDE DEF M, f, V
    <3> QED BY <2>1, <3>1, <3>2, FitsLess
  <2>3. e \in Quota /\ Sound(e) /\ e.slice = q.slice
    <3>1. e = With(q, k, M, f, V)
      OBVIOUS
    <3> HIDE DEF M, f, V, e
    <3> QED BY <2>1, <2>2, <3>1, SoundUpdate
  <2>4. e = WithAccess(q, k, m, a)
    <3>1. [q.mem EXCEPT ![k] = M] = q.mem
      BY DEF Quota
    <3>2. e = [q EXCEPT !.acc[k] = f, !.moved[k] = V]
      <4> HIDE DEF f, V
      <4> QED BY <3>1 DEF With, Quota
    <3> QED
      BY <3>2 DEF WithAccess, Quota
  <2>5. q.acc[k][m] = a => e = q
    <3> SUFFICES ASSUME q.acc[k][m] = a PROVE e = q
      OBVIOUS
    <3>1. f = q.acc[k] /\ V = q.moved[k]
      BY DEF Sound
    <3>2. /\ [q.mem EXCEPT ![k] = M] = q.mem /\ [q.acc EXCEPT ![k] = f] = q.acc
          /\ [q.moved EXCEPT ![k] = V] = q.moved
      BY <3>1 DEF Quota
    <3> HIDE DEF M, f, V
    <3> QED
      BY <3>2 DEF Quota, With
  <2>6. r = [q |-> e, save |-> q.acc[k][m] # a]
    <3> HIDE DEF e
    <3> QED BY <1>2, <2>4 DEF Move
  <2>7. r.q = e /\ r.save \in BOOLEAN /\ (~r.save => e = q)
    <3> HIDE DEF e, r
    <3> QED BY <2>5, <2>6
  <2>8. ResultOK(q, r)
    <3> HIDE DEF e, r
    <3> QED BY <2>3, <2>7 DEF ResultOK
  <2> QED BY <2>8
<1> QED
  BY <1>1, <1>2

\* New ceilings allow at least what is counted already.
LEMMA RetuneOK ==
  ASSUME NEW q \in Quota, Sound(q), NEW l \in Limits,
         NEW p, p = [q EXCEPT !.lim = l, !.top = Allowed(q, l)]
  PROVE  p \in Quota /\ Sound(p) /\ p.slice = q.slice
<1> DEFINE h == Allowed(q, l)
<1>1. l \in Ceiling
  BY NsacfAssumption DEF Ceiling
<1>2. ASSUME NEW k \in Kinds
      PROVE  /\ Cardinality(q.mem[k]) \in Nat
             /\ \A a \in Access : Cardinality(Admitted(q, k, a)) \in Nat
  <2>1. IsFiniteSet(q.mem[k])
    BY DEF Sound
  <2>2. \A a \in Access : Admitted(q, k, a) \subseteq q.mem[k]
    BY DEF Admitted
  <2> QED
    BY <2>1, <2>2, FS_Subset, FS_CardinalityType
<1>3. h \in Ceiling
  <2>1. [k \in Kinds |-> AtLeast(l.max[k], Cardinality(q.mem[k]))] \in [Kinds -> Nat]
    BY <1>1, <1>2 DEF Ceiling, AtLeast
  <2>2. \A k \in Kinds, a \in Access :
           (IF l.per[k][a] = NoLimit
            THEN NoLimit
            ELSE AtLeast(l.per[k][a], Cardinality(Admitted(q, k, a)))) \in Nat \cup {NoLimit}
    BY <1>1, <1>2 DEF Ceiling, AtLeast
  <2> QED
    BY <2>1, <2>2 DEF Allowed, Ceiling
<1>4. ASSUME NEW k \in Kinds
      PROVE  Fits(h, k, q.mem[k], q.acc[k], q.moved[k]) /\ Below(l, h, k)
  <2>1. h.max[k] = AtLeast(l.max[k], Cardinality(q.mem[k]))
    BY DEF Allowed
  <2>2. ASSUME NEW a \in Access, h.per[k][a] # NoLimit
        PROVE  /\ l.per[k][a] \in Nat /\ l.per[k][a] # NoLimit
               /\ h.per[k][a] = AtLeast(l.per[k][a], Cardinality(Admitted(q, k, a)))
    BY <1>1, <2>2 DEF Allowed, Ceiling
  <2>3. l.max[k] \in Nat
    BY <1>1 DEF Ceiling
  <2>4. Cardinality(q.mem[k]) <= h.max[k] /\ l.max[k] <= h.max[k]
    BY <1>2, <2>1, <2>3 DEF AtLeast
  <2>5. ASSUME NEW a \in Access, h.per[k][a] # NoLimit
        PROVE  /\ Cardinality(Admitted(q, k, a)) <= h.per[k][a]
               /\ l.per[k][a] # NoLimit /\ l.per[k][a] <= h.per[k][a]
    BY <1>2, <2>2, <2>5 DEF AtLeast
  <2> HIDE DEF h
  <2> QED
    BY <2>4, <2>5 DEF Fits, Below, Admitted
<1>5. p = [q EXCEPT !.lim = l, !.top = h]
  OBVIOUS
<1> HIDE DEF h
<1>6. /\ p \in Quota /\ p.slice = q.slice /\ p.lim = l /\ p.top = h
      /\ p.mem = q.mem /\ p.acc = q.acc /\ p.moved = q.moved
  BY <1>3, <1>5 DEF Quota
<1>7. Sound(p)
  BY <1>4, <1>6 DEF Sound
<1> QED
  BY <1>6, <1>7

-----------------------------------------------------------------------------
(* Lists of quotas.                                                        *)

LEMMA EmptyList ==
  ASSUME NEW n
  PROVE  ListOK(<<>>, n)
BY DEF ListOK

LEMMA LaterList ==
  ASSUME NEW qs, NEW m \in Nat, NEW n \in Nat, m <= n, ListOK(qs, m)
  PROVE  ListOK(qs, n)
BY NsacfAssumption DEF ListOK, Ids

LEMMA UpdatedList ==
  ASSUME NEW qs, NEW n, ListOK(qs, n), NEW id \in DOMAIN qs, NEW q \in Quota, Sound(q)
  PROVE  ListOK([qs EXCEPT ![id] = q], n)
BY DEF ListOK

LEMMA RestrictedList ==
  ASSUME NEW qs, NEW n, ListOK(qs, n), NEW S \in SUBSET DOMAIN qs
  PROVE  ListOK(Restrict(qs, S), n)
BY DEF ListOK, Restrict

LEMMA ExtendedList ==
  ASSUME NEW qs, NEW n \in Ids, ListOK(qs, n), NEW q \in Quota, Sound(q)
  PROVE  ListOK(Extended(qs, n, q), n + 1)
<1> DEFINE e == Extended(qs, n, q)
<1>1. DOMAIN e = DOMAIN qs \cup {n}
  BY DEF Extended
<1>2. \A id \in DOMAIN e : e[id] = IF id = n THEN q ELSE qs[id]
  BY DEF Extended
<1>3. e \in [DOMAIN e -> Quota]
  BY DEF Extended, ListOK
<1>4. \A id \in DOMAIN e : id < n + 1 /\ Sound(e[id])
  BY <1>1, <1>2, NsacfAssumption DEF ListOK, Ids
<1> HIDE DEF e
<1>5. ListOK(e, n + 1)
  BY <1>1, <1>3, <1>4 DEF ListOK
<1> QED
  BY <1>5 DEF e

LEMMA NewQuotaSound ==
  ASSUME NEW s \in Slices, NEW l \in Limits
  PROVE  NewQuota(s, l) \in Quota /\ Sound(NewQuota(s, l)) /\ NewQuota(s, l).slice = s
<1>1. <<>> \in [{} -> Access]
  OBVIOUS
<1>2. <<>> \in Accesses
  BY <1>1, AccessesOf
<1>3. l \in Ceiling
  BY NsacfAssumption DEF Ceiling
<1>4. NewQuota(s, l) \in Quota
  BY <1>2, <1>3 DEF NewQuota, Quota
<1>5. ASSUME NEW k \in Kinds
      PROVE  Fits(l, k, {}, <<>>, {}) /\ Below(l, l, k)
  <2>1. \A a \in Access : {x \in {} \ {} : <<>>[x] = a} = {}
    OBVIOUS
  <2>2. /\ l.max[k] \in Nat
        /\ \A a \in Access : l.per[k][a] # NoLimit => l.per[k][a] \in Nat
    BY <1>3 DEF Ceiling
  <2>3. Cardinality({}) = 0
    BY FS_EmptySet
  <2> QED
    BY <2>1, <2>2, <2>3 DEF Fits, Below
<1>6. Sound(NewQuota(s, l))
  BY <1>1, <1>5, FS_EmptySet DEF NewQuota, Sound
<1> QED
  BY <1>4, <1>6 DEF NewQuota

-----------------------------------------------------------------------------
(* Steps of a running process.                                             *)

\* No identity is given out twice: a quota that was not there is a new one.
Successor ==
  /\ nextId' >= nextId
  /\ \A id \in DOMAIN quotas' :
       id < nextId => id \in DOMAIN quotas /\ quotas'[id].slice = quotas[id].slice

LEMMA TaskKeeps ==
  ASSUME NEW r, nextId \in Nat, nextId' \in Nat, Successor, TaskOK(r, quotas, nextId)
  PROVE  TaskOK(r, quotas', nextId')
<1>1. r.pc = "spawn" => ListOK(r.snap, nextId')
  BY LaterList DEF TaskOK, Successor
<1>2. r.pc = "addIndex" => /\ r.id \in Ids /\ r.id < nextId'
                           /\ r.id \in DOMAIN quotas' => quotas'[r.id].slice = r.s
  BY NsacfAssumption DEF TaskOK, Successor, Ids
<1> QED
  BY <1>1, <1>2 DEF TaskOK

LEMMA IndexKeeps ==
  ASSUME Core, nextId' \in Nat, Successor, index' = index
  PROVE  IndexOK'
BY NsacfAssumption DEF Core, IndexOK, BookOK, Successor, Ids

LEMMA RequestStep ==
  ASSUME Core, NEW t \in Tasks, NEW r, Set(t, r),
         Successor, ListOK(quotas', nextId'), nextId' \in 1..MaxId + 1,
         TaskOK(r, quotas', nextId'), IndexOK', FilesOK', HistOK',
         status # "down", UNCHANGED <<status, boot, crashes>>, asked' \in 0..MaxRequests
  PROVE  Core'
<1>1. nextId \in Nat /\ nextId' \in Nat
  BY NsacfAssumption DEF Core, BookOK
<1>2. \A u \in Tasks : task'[u] = IF u = t THEN r ELSE task[u]
  BY DEF Core, TasksOK, Set
<1>3. DOMAIN task' = Tasks
  BY DEF Core, TasksOK, Set
<1>4. \A u \in Tasks : TaskOK(task'[u], quotas', nextId')
  BY <1>1, <1>2, TaskKeeps DEF Core, TasksOK
<1>5. DownOK' /\ BookOK'
  BY DEF Core, DownOK, BookOK
<1> QED
  BY <1>3, <1>4, <1>5 DEF Core, TasksOK

LEMMA BagPlus ==
  ASSUME IsABag(writes), NEW w, writes' = writes (+) SetToBag({w})
  PROVE  /\ IsABag(writes') /\ DOMAIN writes' = DOMAIN writes \cup {w}
         /\ DOMAIN writes = {} => writes'[w] = 1
BY DEF IsABag, SetToBag, (+)

LEMMA BagMinus ==
  ASSUME IsABag(writes), NEW w \in DOMAIN writes, writes' = writes (-) SetToBag({w})
  PROVE  /\ IsABag(writes') /\ DOMAIN writes' \subseteq DOMAIN writes
         /\ writes[w] = 1 => w \notin DOMAIN writes'
BY DEF IsABag, SetToBag, (-)

LEMMA FilesPlus ==
  ASSUME FilesOK, NEW w, SnapshotOK(w), writes' = writes (+) SetToBag({w}), file' = file
  PROVE  FilesOK'
<1>1. IsABag(writes') /\ DOMAIN writes' = DOMAIN writes \cup {w}
  BY BagPlus DEF FilesOK
<1> QED
  BY <1>1 DEF FilesOK, SnapshotOK

LEMMA AddQuotaKeeps ==
  ASSUME Core, NEW s \in Slices, NEW l \in Limits, AddQuota(s, l)
  PROVE  /\ ListOK(quotas', nextId') /\ nextId' \in 1..MaxId + 1 /\ Successor
         /\ nextId \in Ids /\ nextId' = nextId + 1
         /\ DOMAIN quotas' = DOMAIN quotas \cup {nextId} /\ quotas'[nextId].slice = s
         /\ \A id \in DOMAIN quotas : id # nextId /\ quotas'[id] = quotas[id]
<1> DEFINE q == NewQuota(s, l)
<1>1. q \in Quota /\ Sound(q) /\ q.slice = s
  BY NewQuotaSound
<1>2. nextId \in Ids /\ nextId' = nextId + 1 /\ quotas' = Extended(quotas, nextId, q)
  BY DEF AddQuota
<1> HIDE DEF q
<1>3. ListOK(quotas', nextId')
  BY <1>1, <1>2, ExtendedList DEF Core
<1>4. nextId' \in 1..MaxId + 1 /\ nextId \in Nat
  BY <1>2, NsacfAssumption DEF Ids
<1>5. DOMAIN quotas' = DOMAIN quotas \cup {nextId} /\ quotas'[nextId].slice = s
  BY <1>1, <1>2 DEF Extended
<1>6. \A id \in DOMAIN quotas : id # nextId
  BY <1>4, NsacfAssumption DEF Core, ListOK, Ids
<1>7. \A id \in DOMAIN quotas : quotas'[id] = quotas[id]
  BY <1>2, <1>6 DEF Extended
<1>8. Successor
  BY <1>2, <1>4, <1>5, <1>7 DEF Successor
<1> QED
  BY <1>2, <1>3, <1>4, <1>5, <1>6, <1>7, <1>8

LEMMA SameList ==
  ASSUME Core, UNCHANGED <<quotas, nextId>>
  PROVE  Successor /\ ListOK(quotas', nextId') /\ nextId' \in 1..MaxId + 1 /\ nextId' \in Nat
BY NsacfAssumption DEF Core, BookOK, Successor

LEMMA SameFiles ==
  ASSUME Core, UNCHANGED <<file, writes>>
  PROVE  FilesOK'
BY DEF Core, FilesOK, SnapshotOK

LEMMA Running ==
  ASSUME Core, NEW t \in Tasks, ~At(t, "idle")
  PROVE  status # "down"
BY DEF Core, DownOK

\* A request that has only to note where it is.
LEMMA NoteStep ==
  ASSUME Core, NEW t \in Tasks, NEW r, Set(t, r), TaskOK(r, quotas, nextId),
         status # "down", UNCHANGED <<quotas, index, nextId, file, writes, boot, status, crashes>>,
         HistOK', asked' \in 0..MaxRequests
  PROVE  Core'
<1>1. Successor /\ ListOK(quotas', nextId') /\ nextId' \in 1..MaxId + 1 /\ nextId' \in Nat
  BY SameList
<1>2. FilesOK' /\ IndexOK'
  BY <1>1, SameFiles, IndexKeeps
<1>3. TaskOK(r, quotas', nextId')
  OBVIOUS
<1> QED
  BY <1>1, <1>2, <1>3, RequestStep

LEMMA StartsOK ==
  ASSUME Core, NEW t \in Tasks, Starts(t)
  PROVE  status # "down" /\ asked' \in 0..MaxRequests /\ boot = {}
BY NsacfAssumption DEF Core, BookOK, Starts

LEMMA SaveOK ==
  ASSUME NEW qs, NEW n
  PROVE  TaskOK(Idle, qs, n) /\ TaskOK([pc |-> "save"], qs, n)
BY DEF TaskOK, Idle, Pcs

LEMMA AcUpdateCore ==
  ASSUME Core, NEW t \in Tasks, NEW flag \in Updates, NEW k \in Kinds, NEW m \in Members(k),
         NEW s \in Slices, NEW a \in Access, AcUpdate(t, flag, k, m, s, a)
  PROVE  Core'
<1>1. PICK id \in quota_id_for(s) :
         Set(t, [pc |-> "apply", flag |-> flag, k |-> k, m |-> m,
                 a |-> IF flag = "DECREASE" THEN "3gpp" ELSE a, id |-> id])
  BY DEF AcUpdate
<1>2. PICK r : r = [pc |-> "apply", flag |-> flag, k |-> k, m |-> m,
                    a |-> IF flag = "DECREASE" THEN "3gpp" ELSE a, id |-> id]
  OBVIOUS
<1>3. TaskOK(r, quotas, nextId)
  BY <1>2, NsacfAssumption DEF TaskOK, Pcs, Access
<1>4. HistOK'
  BY DEF AcUpdate, Core, HistOK
<1>5. status # "down" /\ asked' \in 0..MaxRequests
  BY StartsOK DEF AcUpdate
<1> QED
  BY <1>1, <1>2, <1>3, <1>4, <1>5, NoteStep DEF AcUpdate

\* What Apply does to a quota it finds.
LEMMA ApplyEffect ==
  ASSUME Core, NEW t \in Tasks, Apply(t), task[t].id \in DOMAIN quotas
  PROVE  \E r : /\ ResultOK(quotas[task[t].id], r)
               /\ quotas' = [quotas EXCEPT ![task[t].id] = r.q]
               /\ Set(t, IF r.save THEN [pc |-> "save"] ELSE Idle)
<1> DEFINE q == quotas[task[t].id]
           k == task[t].k
           m == task[t].m
           a == task[t].a
<1>1. q \in Quota /\ Sound(q)
  BY DEF Core, ListOK
<1>2. /\ task[t].flag \in {"INCREASE", "DECREASE", "UPDATE"}
      /\ k \in Kinds /\ m \in Members(k) /\ a \in Access
  BY DEF Apply, At, Core, TasksOK, TaskOK
<1>3. /\ ResultOK(q, Admit(q, k, m, a))
      /\ ResultOK(q, Discharge(q, k, m))
      /\ ResultOK(q, Move(q, k, m, a))
  <2> HIDE DEF q, k, m, a
  <2> QED BY <1>1, <1>2, AdmitOK, DischargeOK, MoveOK
<1>4. CASE task[t].flag = "INCREASE"
  BY <1>3, <1>4 DEF Apply
<1>5. CASE task[t].flag = "DECREASE"
  BY <1>3, <1>5 DEF Apply
<1>6. CASE task[t].flag = "UPDATE"
  BY <1>3, <1>6 DEF Apply
<1> QED
  BY <1>2, <1>4, <1>5, <1>6

LEMMA ApplyCore ==
  ASSUME Core, NEW t \in Tasks, Apply(t)
  PROVE  Core'
<1>1. HistOK' /\ UNCHANGED <<index, nextId, file, writes, boot, status, crashes, asked>>
  BY DEF Apply, Core, HistOK
<1>2. status # "down" /\ asked' \in 0..MaxRequests
  BY <1>1, Running DEF Apply, At, Core, BookOK
<1>3. FilesOK' /\ nextId \in 1..MaxId + 1 /\ nextId \in Nat /\ ListOK(quotas, nextId)
  BY <1>1, SameFiles, NsacfAssumption DEF Core, BookOK
<1>4. CASE task[t].id \in DOMAIN quotas
  <2>1. PICK r : /\ ResultOK(quotas[task[t].id], r)
                 /\ quotas' = [quotas EXCEPT ![task[t].id] = r.q]
                 /\ Set(t, IF r.save THEN [pc |-> "save"] ELSE Idle)
    BY <1>4, ApplyEffect
  <2>2. ListOK(quotas', nextId')
    BY <1>1, <1>3, <1>4, <2>1, UpdatedList DEF ResultOK
  <2>3. Successor
    BY <1>1, <1>3, <1>4, <2>1 DEF Successor, ResultOK
  <2>4. IndexOK'
    BY <1>1, <1>3, <2>3, IndexKeeps
  <2>5. PICK x : /\ x = IF r.save THEN [pc |-> "save"] ELSE Idle
                 /\ TaskOK(x, quotas', nextId')
    BY SaveOK
  <2> QED
    BY <1>1, <1>2, <1>3, <2>1, <2>2, <2>3, <2>4, <2>5, RequestStep
<1>5. CASE task[t].id \notin DOMAIN quotas
  BY <1>1, <1>2, <1>5, SaveOK, NoteStep DEF Apply
<1> QED
  BY <1>4, <1>5

LEMMA InsertQuotaCore ==
  ASSUME Core, NEW t \in Tasks, NEW s \in Slices, NEW l \in Limits, InsertQuota(t, s, l),
         status # "down", asked' \in 0..MaxRequests,
         UNCHANGED <<index, file, writes, boot, status, crashes>>
  PROVE  Core'
<1>1. HistOK'
  BY DEF InsertQuota, Core, HistOK
<1>2. CASE AddQuota(s, l) /\ Set(t, [pc |-> "addIndex", s |-> s, id |-> nextId])
  <2>1. /\ ListOK(quotas', nextId') /\ nextId' \in 1..MaxId + 1 /\ Successor
        /\ nextId \in Ids /\ nextId' = nextId + 1 /\ quotas'[nextId].slice = s
    BY <1>2, AddQuotaKeeps
  <2>2. PICK r : r = [pc |-> "addIndex", s |-> s, id |-> nextId]
    OBVIOUS
  <2>3. TaskOK(r, quotas', nextId')
    BY <2>1, <2>2, NsacfAssumption DEF TaskOK, Pcs, Ids
  <2>4. nextId' \in Nat
    BY <2>1, NsacfAssumption
  <2>5. IndexOK' /\ FilesOK'
    BY <2>1, <2>4, IndexKeeps, SameFiles
  <2> QED
    BY <1>1, <1>2, <2>1, <2>2, <2>3, <2>5, RequestStep
<1>3. CASE Set(t, Idle) /\ UNCHANGED <<quotas, nextId>>
  BY <1>1, <1>3, SaveOK, NoteStep
<1> QED
  BY <1>2, <1>3 DEF InsertQuota

LEMMA SliceQuotaCreateCore ==
  ASSUME Core, NEW t \in Tasks, NEW s \in Slices, NEW l \in Limits, SliceQuotaCreate(t, s, l)
  PROVE  Core'
BY StartsOK, InsertQuotaCore DEF SliceQuotaCreate

LEMMA AddListCore ==
  ASSUME Core, NEW t \in Tasks, AddList(t)
  PROVE  Core'
<1>1. task[t].s \in Slices /\ task[t].lim \in Limits
  BY DEF AddList, At, Core, TasksOK, TaskOK
<1>2. status # "down" /\ asked' \in 0..MaxRequests
  BY Running DEF AddList, At, Core, BookOK
<1> QED
  BY <1>1, <1>2, InsertQuotaCore DEF AddList

LEMMA AddIndexCore ==
  ASSUME Core, NEW t \in Tasks, AddIndex(t)
  PROVE  Core'
<1>1. HistOK' /\ UNCHANGED <<quotas, nextId, file, writes, boot, status, crashes, asked>>
  BY DEF AddIndex, Core, HistOK
<1>2. status # "down" /\ asked' \in 0..MaxRequests
  BY <1>1, Running DEF AddIndex, At, Core, BookOK
<1>3. Successor /\ ListOK(quotas', nextId') /\ nextId' \in 1..MaxId + 1 /\ FilesOK'
  BY <1>1, SameList, SameFiles
<1>4. /\ task[t].s \in Slices /\ task[t].id \in Ids /\ task[t].id < nextId
      /\ task[t].id \in DOMAIN quotas => quotas[task[t].id].slice = task[t].s
  BY DEF AddIndex, At, Core, TasksOK, TaskOK
<1>5. IndexOK'
  <2>1. /\ DOMAIN index' = DOMAIN index \cup {task[t].s}
        /\ \A s \in DOMAIN index' : index'[s] = IF s = task[t].s THEN task[t].id ELSE index[s]
        /\ index' \in [DOMAIN index' -> Ids]
    BY <1>4 DEF AddIndex, Extended, Core, IndexOK
  <2> QED
    BY <1>1, <1>4, <2>1 DEF Core, IndexOK
<1>6. PICK r : r = [pc |-> "save"] /\ TaskOK(r, quotas', nextId')
  BY SaveOK
<1> QED
  BY <1>1, <1>2, <1>3, <1>5, <1>6, RequestStep DEF AddIndex

LEMMA LocalConfigsUpdateCore ==
  ASSUME Core, NEW t \in Tasks, NEW s \in Slices, NEW l \in Limits, LocalConfigsUpdate(t, s, l)
  PROVE  Core'
<1>1. HistOK' /\ UNCHANGED <<quotas, index, nextId, file, writes, boot, status, crashes>>
  BY DEF LocalConfigsUpdate, Core, HistOK
<1>2. status # "down" /\ asked' \in 0..MaxRequests
  BY StartsOK DEF LocalConfigsUpdate
<1>3. PICK r : Set(t, r) /\ (\/ r = [pc |-> "addList", s |-> s, lim |-> l]
                             \/ \E id : r = [pc |-> "retune", id |-> id, lim |-> l])
  BY DEF LocalConfigsUpdate
<1>4. TaskOK(r, quotas, nextId)
  BY <1>3 DEF TaskOK, Pcs
<1> QED
  BY <1>1, <1>2, <1>3, <1>4, NoteStep

LEMMA RetuneCore ==
  ASSUME Core, NEW t \in Tasks, Retune(t)
  PROVE  Core'
<1>1. HistOK' /\ UNCHANGED <<index, nextId, file, writes, boot, status, crashes, asked>>
  BY DEF Retune, Core, HistOK
<1>2. status # "down" /\ asked' \in 0..MaxRequests
  BY <1>1, Running DEF Retune, At, Core, BookOK
<1>3. FilesOK' /\ nextId \in 1..MaxId + 1 /\ nextId \in Nat /\ ListOK(quotas, nextId)
  BY <1>1, SameFiles, NsacfAssumption DEF Core, BookOK
<1>4. CASE task[t].id \in DOMAIN quotas
  <2> DEFINE q == quotas[task[t].id]
             p == [q EXCEPT !.lim = task[t].lim, !.top = Allowed(q, task[t].lim)]
  <2>1. task[t].lim \in Limits /\ q \in Quota /\ Sound(q)
    BY <1>3, <1>4 DEF Retune, At, Core, TasksOK, TaskOK, ListOK
  <2>2. p \in Quota /\ Sound(p) /\ p.slice = q.slice
    <3>1. p = [q EXCEPT !.lim = task[t].lim, !.top = Allowed(q, task[t].lim)]
      OBVIOUS
    <3> HIDE DEF q, p
    <3> QED BY <2>1, <3>1, RetuneOK
  <2>4. quotas' = [quotas EXCEPT ![task[t].id] = p] /\ Set(t, [pc |-> "save"])
    BY <1>4 DEF Retune
  <2>5. ListOK(quotas', nextId')
    <3> HIDE DEF p, q
    <3> QED BY <1>1, <1>3, <1>4, <2>2, <2>4, UpdatedList
  <2>6. Successor
    <3> HIDE DEF p
    <3> QED BY <1>1, <1>3, <1>4, <2>2, <2>4 DEF Successor
  <2>7. IndexOK'
    BY <1>1, <1>3, <2>6, IndexKeeps
  <2>8. PICK r : r = [pc |-> "save"] /\ TaskOK(r, quotas', nextId')
    BY SaveOK
  <2> HIDE DEF p, q
  <2> QED
    BY <1>1, <1>2, <1>3, <2>4, <2>5, <2>6, <2>7, <2>8, RequestStep
<1>5. CASE task[t].id \notin DOMAIN quotas
  BY <1>1, <1>2, <1>5, SaveOK, NoteStep DEF Retune
<1> QED
  BY <1>4, <1>5

LEMMA SliceQuotaDeleteCore ==
  ASSUME Core, NEW t \in Tasks, NEW id \in Ids, SliceQuotaDelete(t, id)
  PROVE  Core'
<1>1. HistOK' /\ UNCHANGED <<index, nextId, file, writes, boot, status, crashes>>
  BY DEF SliceQuotaDelete, Core, HistOK
<1>2. status # "down" /\ asked' \in 0..MaxRequests
  BY StartsOK DEF SliceQuotaDelete
<1>3. FilesOK' /\ nextId \in 1..MaxId + 1 /\ nextId \in Nat /\ ListOK(quotas, nextId)
  BY <1>1, SameFiles, NsacfAssumption DEF Core, BookOK
<1>4. ListOK(quotas', nextId')
  BY <1>1, <1>3, RestrictedList DEF SliceQuotaDelete
<1>5. Successor
  BY <1>1, <1>3 DEF SliceQuotaDelete, Restrict, Successor
<1>6. IndexOK'
  BY <1>1, <1>3, <1>5, IndexKeeps
<1>7. PICK r : r = [pc |-> "dropIndex", s |-> quotas[id].slice]
  OBVIOUS
<1>8. TaskOK(r, quotas', nextId')
  <2>1. quotas[id].slice \in Slices
    BY <1>3 DEF SliceQuotaDelete, ListOK, Quota
  <2> QED
    BY <1>7, <2>1 DEF TaskOK, Pcs
<1> QED
  BY <1>1, <1>2, <1>3, <1>4, <1>5, <1>6, <1>7, <1>8, RequestStep DEF SliceQuotaDelete

LEMMA DropIndexCore ==
  ASSUME Core, NEW t \in Tasks, DropIndex(t)
  PROVE  Core'
<1>1. HistOK' /\ UNCHANGED <<quotas, nextId, file, writes, boot, status, crashes, asked>>
  BY DEF DropIndex, Core, HistOK
<1>2. status # "down" /\ asked' \in 0..MaxRequests
  BY <1>1, Running DEF DropIndex, At, Core, BookOK
<1>3. Successor /\ ListOK(quotas', nextId') /\ nextId' \in 1..MaxId + 1 /\ FilesOK'
  BY <1>1, SameList, SameFiles
<1>4. IndexOK'
  BY <1>1 DEF DropIndex, Restrict, Core, IndexOK
<1>5. PICK r : r = [pc |-> "save"] /\ TaskOK(r, quotas', nextId')
  BY SaveOK
<1> QED
  BY <1>1, <1>2, <1>3, <1>4, <1>5, RequestStep DEF DropIndex

\* Whether a snapshot overlaps another goes into the history.
LEMMA Noted ==
  ASSUME Core, \/ hist' = [hist EXCEPT !.behind = Overlaps]
               \/ \E S : hist' = [hist EXCEPT !.shared = S, !.behind = Overlaps]
  PROVE  HistOK'
<1>1. Overlaps \in BOOLEAN
  BY Zenon DEF Overlaps
<1>2. PICK b \in BOOLEAN : b = Overlaps
  BY <1>1
<1> QED
  BY <1>2 DEF Core, HistOK

LEMMA SaveCore ==
  ASSUME Core, NEW t \in Tasks, Save(t)
  PROVE  Core'
<1>1. HistOK' /\ UNCHANGED <<quotas, index, nextId, file, writes, boot, status, crashes, asked>>
  BY Noted DEF Save
<1>2. status # "down" /\ asked' \in 0..MaxRequests
  BY <1>1, Running DEF Save, At, Core, BookOK
<1>3. PICK r : r = [pc |-> "spawn", snap |-> quotas]
  OBVIOUS
<1>4. TaskOK(r, quotas, nextId)
  BY <1>3 DEF TaskOK, Pcs, Core
<1> QED
  BY <1>1, <1>2, <1>3, <1>4, NoteStep DEF Save

LEMMA SpawnCore ==
  ASSUME Core, NEW t \in Tasks, Spawn(t)
  PROVE  Core'
<1>1. HistOK' /\ UNCHANGED <<quotas, index, nextId, file, boot, status, crashes, asked>>
  BY DEF Spawn, Core, HistOK
<1>2. status # "down" /\ asked' \in 0..MaxRequests
  BY <1>1, Running DEF Spawn, At, Core, BookOK
<1>3. /\ Successor /\ ListOK(quotas', nextId') /\ nextId' \in 1..MaxId + 1 /\ nextId' \in Nat
  BY <1>1, SameList
<1>4. IndexOK'
  BY <1>1, <1>3, IndexKeeps
<1>5. PICK w : w = [quotas |-> task[t].snap, next |-> nextId]
  OBVIOUS
<1>6. SnapshotOK(w)
  BY <1>1, <1>3, <1>5 DEF Spawn, At, Core, TasksOK, TaskOK, SnapshotOK
<1>7. FilesOK'
  BY <1>1, <1>5, <1>6, FilesPlus DEF Spawn, Core
<1> QED
  BY <1>1, <1>2, <1>3, <1>4, <1>7, SaveOK, RequestStep DEF Spawn

LEMMA StepCore ==
  ASSUME Core, NEW t \in Tasks, Step(t)
  PROVE  Core'
BY ApplyCore, AddListCore, AddIndexCore, RetuneCore, DropIndexCore, SaveCore, SpawnCore DEF Step

\* Where no request moves.
LEMMA QuietStep ==
  ASSUME Core, task' = task, Successor, ListOK(quotas', nextId'), nextId' \in 1..MaxId + 1,
         IndexOK', FilesOK', DownOK', HistOK', crashes' = crashes, asked' = asked,
         boot' \subseteq Configured, status' \in {"down", "up", "stopping"}
  PROVE  Core'
<1>1. nextId \in Nat /\ nextId' \in Nat
  BY NsacfAssumption DEF Core, BookOK
<1>2. TasksOK'
  BY <1>1, TaskKeeps DEF Core, TasksOK
<1> QED
  BY <1>2 DEF Core, BookOK

-----------------------------------------------------------------------------
(* The state file and the process.                                         *)

LEMMA FinishWriteCore ==
  ASSUME Core, NEW w \in BagToSet(writes), NEW ok \in BOOLEAN, FinishWrite(w, ok)
  PROVE  Core'
<1>1. /\ UNCHANGED <<quotas, index, nextId, task, boot, status, crashes, asked>>
      /\ HistOK'
  BY DEF FinishWrite, Core, HistOK
<1>2. w \in DOMAIN writes
  BY DEF BagToSet
<1>3. IsABag(writes') /\ DOMAIN writes' \subseteq DOMAIN writes
  BY <1>2, BagMinus DEF FinishWrite, Core, FilesOK
<1>4. FilesOK'
  <2>1. file' = w \/ file' = file
    BY DEF FinishWrite
  <2> QED
    BY <1>2, <1>3, <2>1 DEF Core, FilesOK, SnapshotOK
<1>5. DownOK'
  BY <1>1, <1>3 DEF Core, DownOK, At
<1>6. Successor /\ ListOK(quotas', nextId') /\ nextId' \in 1..MaxId + 1 /\ nextId' \in Nat
  BY <1>1, SameList
<1>7. IndexOK'
  BY <1>1, <1>6, IndexKeeps
<1> QED
  BY <1>1, <1>4, <1>5, <1>6, <1>7, QuietStep DEF Core, BookOK

LEMMA ShutdownCore ==
  ASSUME Core, Shutdown
  PROVE  Core'
<1>1. /\ UNCHANGED <<quotas, index, nextId, task, file, boot, crashes, asked>>
      /\ status' = "stopping" /\ HistOK'
  BY Noted DEF Shutdown
<1>2. PICK w : w = [quotas |-> quotas, next |-> nextId]
  OBVIOUS
<1>3. SnapshotOK(w)
  BY <1>2 DEF Core, BookOK, SnapshotOK
<1>4. FilesOK'
  BY <1>1, <1>2, <1>3, FilesPlus DEF Shutdown, Core
<1>5. Successor /\ ListOK(quotas', nextId') /\ nextId' \in 1..MaxId + 1 /\ nextId' \in Nat
  BY <1>1, SameList
<1>6. IndexOK' /\ DownOK'
  BY <1>1, <1>5, IndexKeeps DEF DownOK
<1> QED
  BY <1>1, <1>4, <1>5, <1>6, QuietStep DEF Core, BookOK

LEMMA NoWrites == DOMAIN EmptyBag = {} /\ IsABag(EmptyBag)
BY DEF EmptyBag, SetToBag, IsABag

LEMMA ProcessEndsCore ==
  ASSUME Core, ProcessEnds
  PROVE  Core'
<1>1. ListOK(quotas', nextId')
  BY EmptyList DEF ProcessEnds
<1>2. TasksOK'
  BY SaveOK DEF ProcessEnds, TasksOK
<1>3. IndexOK'
  BY DEF ProcessEnds, IndexOK
<1>4. DOMAIN writes' = {} /\ IsABag(writes')
  BY NoWrites DEF ProcessEnds
<1>5. FilesOK'
  BY <1>4 DEF ProcessEnds, Core, FilesOK, SnapshotOK
<1>6. DownOK'
  BY <1>4 DEF ProcessEnds, DownOK, At, Idle
<1>7. BookOK' /\ HistOK'
  BY NsacfAssumption DEF ProcessEnds, Core, BookOK, HistOK
<1> QED
  BY <1>1, <1>2, <1>3, <1>5, <1>6, <1>7 DEF Core

\* What a start finds: the state file, or nothing.
LEMMA LoadedOK ==
  ASSUME Core, LoadState
  PROVE  \E d : /\ d \in {file, Empty} /\ SnapshotOK(d)
               /\ quotas' = d.quotas /\ index' \in Indexes(d.quotas) /\ nextId' = d.next
               /\ hist' = [behind |-> d # file, shared |-> Doubled(d.quotas), loaded |-> d]
<1>1. SnapshotOK(Empty)
  BY EmptyList, NsacfAssumption DEF Empty, SnapshotOK
<1>2. SnapshotOK(file)
  BY DEF Core, FilesOK
<1> QED
  BY <1>1, <1>2 DEF LoadState

LEMMA LoadStateCore ==
  ASSUME Core, LoadState
  PROVE  Core'
<1>1. \A t \in Tasks : task[t].pc = "idle"
  BY DEF LoadState, Core, DownOK, At
<1>2. PICK d : /\ SnapshotOK(d)
               /\ quotas' = d.quotas /\ index' \in Indexes(d.quotas) /\ nextId' = d.next
               /\ hist' = [behind |-> d # file, shared |-> Doubled(d.quotas), loaded |-> d]
  BY LoadedOK
<1>3. ListOK(quotas', nextId')
  BY <1>2 DEF SnapshotOK
<1>4. TasksOK'
  <2>1. DOMAIN task' = Tasks /\ \A t \in Tasks : task'[t].pc = "idle"
    BY <1>1 DEF LoadState, Core, TasksOK
  <2> QED
    BY <2>1 DEF TasksOK, TaskOK, Pcs
<1>5. IndexOK'
  <2>1. index' \in [{d.quotas[id].slice : id \in DOMAIN d.quotas} -> DOMAIN d.quotas]
    BY <1>2 DEF Indexes
  <2>2. \A s \in DOMAIN index' : index'[s] \in DOMAIN d.quotas /\ d.quotas[index'[s]].slice = s
    BY <1>2, <2>1 DEF Indexes
  <2>3. DOMAIN d.quotas \subseteq Ids /\ \A id \in DOMAIN d.quotas : id < d.next
    BY <1>2 DEF SnapshotOK, ListOK
  <2>4. \A id \in DOMAIN d.quotas : d.quotas[id].slice \in Slices
    BY <1>2 DEF SnapshotOK, ListOK, Quota
  <2>5. index' \in [DOMAIN index' -> Ids] /\ DOMAIN index' \subseteq Slices
    BY <2>1, <2>3, <2>4
  <2> QED
    BY <1>2, <2>2, <2>3, <2>5 DEF IndexOK
<1>6. FilesOK' /\ DownOK'
  BY DEF LoadState, Core, FilesOK, SnapshotOK, DownOK
<1>7. BookOK'
  BY <1>2 DEF LoadState, Core, BookOK, SnapshotOK
<1>8. HistOK'
  BY <1>2 DEF HistOK
<1> QED
  BY <1>3, <1>4, <1>5, <1>6, <1>7, <1>8 DEF Core

LEMMA ProvisionCore ==
  ASSUME Core, NEW s \in Slices, Provision(s)
  PROVE  Core'
<1>1. /\ UNCHANGED <<task, file, status, crashes, asked>> /\ HistOK'
      /\ status = "up" /\ boot' \subseteq Configured
  <2>1. HistOK'
    <3>1. UNCHANGED hist => HistOK'
      BY DEF Core, HistOK
    <3> QED
      BY <3>1, Noted DEF Provision
  <2> QED
    BY <2>1 DEF Provision, Core, BookOK
<1>2. DownOK'
  BY <1>1 DEF DownOK
<1>3. CASE /\ AddQuota(s, Ceilings)
           /\ index' = Extended(index, s, nextId)
           /\ writes' = writes (+) SetToBag({[quotas |-> quotas', next |-> nextId']})
  <2>1. /\ ListOK(quotas', nextId') /\ nextId' \in 1..MaxId + 1 /\ Successor
        /\ nextId \in Ids /\ nextId' = nextId + 1 /\ quotas'[nextId].slice = s
    BY <1>3, AddQuotaKeeps, NsacfAssumption
  <2>2. nextId \in Nat
    BY <2>1, NsacfAssumption DEF Ids
  <2>3. /\ DOMAIN index' = DOMAIN index \cup {s}
        /\ \A x \in DOMAIN index' : index'[x] = IF x = s THEN nextId ELSE index[x]
        /\ index' \in [DOMAIN index' -> Ids]
    BY <1>3, <2>1 DEF Extended, Core, IndexOK
  <2>4. \A x \in DOMAIN index :
           index[x] < nextId' /\ (index[x] \in DOMAIN quotas' => quotas'[index[x]].slice = x)
    BY <2>1, <2>2, NsacfAssumption DEF Core, IndexOK, Successor, Ids
  <2>5. IndexOK'
    BY <2>1, <2>2, <2>3, <2>4 DEF Core, IndexOK
  <2>6. PICK w : w = [quotas |-> quotas', next |-> nextId']
    OBVIOUS
  <2>7. SnapshotOK(w)
    BY <2>1, <2>6 DEF SnapshotOK
  <2>8. FilesOK'
    BY <1>1, <1>3, <2>6, <2>7, FilesPlus DEF Core
  <2> QED
    BY <1>1, <1>2, <2>1, <2>5, <2>8, QuietStep
<1>4. CASE UNCHANGED <<quotas, index, nextId, writes>>
  <2>1. Successor /\ ListOK(quotas', nextId') /\ nextId' \in 1..MaxId + 1 /\ nextId' \in Nat
    BY <1>4, SameList
  <2>2. IndexOK' /\ FilesOK'
    BY <1>1, <1>4, <2>1, IndexKeeps, SameFiles
  <2> QED
    BY <1>1, <1>2, <2>1, <2>2, QuietStep
<1> QED
  BY <1>3, <1>4 DEF Provision

LEMMA InitCore == Init => Core
<1> SUFFICES ASSUME Init PROVE Core
  OBVIOUS
<1>1. ListOK(quotas, nextId) /\ SnapshotOK(file)
  BY EmptyList, NsacfAssumption DEF Init, Empty, SnapshotOK
<1>2. TasksOK
  BY SaveOK DEF Init, TasksOK
<1>3. IndexOK
  BY DEF Init, IndexOK
<1>4. FilesOK
  BY <1>1, NoWrites DEF Init, FilesOK
<1>5. DownOK /\ BookOK /\ HistOK
  BY NsacfAssumption DEF Init, DownOK, BookOK, HistOK
<1> QED
  BY <1>1, <1>2, <1>3, <1>4, <1>5 DEF Core

LEMMA NextCore ==
  ASSUME Core, [Next]_vars
  PROVE  Core'
<1>1. ASSUME NEW t \in Tasks, NEW flag \in Updates, NEW k \in Kinds, NEW s \in Slices,
             NEW a \in Access, NEW m \in Members(k), AcUpdate(t, flag, k, m, s, a)
      PROVE  Core'
  BY <1>1, AcUpdateCore
<1>2. ASSUME NEW t \in Tasks, NEW s \in Slices, NEW l \in Limits,
             SliceQuotaCreate(t, s, l) \/ LocalConfigsUpdate(t, s, l)
      PROVE  Core'
  BY <1>2, SliceQuotaCreateCore, LocalConfigsUpdateCore
<1>3. ASSUME NEW t \in Tasks, NEW id \in Ids, SliceQuotaDelete(t, id) PROVE Core'
  BY <1>3, SliceQuotaDeleteCore
<1>4. ASSUME NEW t \in Tasks, Step(t) PROVE Core'
  BY <1>4, StepCore
<1>5. ASSUME NEW w \in BagToSet(writes), NEW ok \in BOOLEAN, FinishWrite(w, ok) PROVE Core'
  BY <1>5, FinishWriteCore
<1>6. ASSUME Shutdown \/ ProcessEnds \/ LoadState PROVE Core'
  BY <1>6, ShutdownCore, ProcessEndsCore, LoadStateCore
<1>7. ASSUME NEW s \in Slices, Provision(s) PROVE Core'
  BY <1>7, ProvisionCore
<1>8. CASE UNCHANGED vars
  <2>1. Successor /\ ListOK(quotas', nextId') /\ nextId' \in 1..MaxId + 1 /\ nextId' \in Nat
    BY <1>8, SameList DEF vars
  <2>2. IndexOK' /\ FilesOK' /\ DownOK' /\ HistOK'
    BY <1>8, <2>1, IndexKeeps, SameFiles DEF vars, Core, DownOK, At, HistOK
  <2> QED
    BY <1>8, <2>1, <2>2, QuietStep DEF vars, Core, BookOK
<1> QED
  BY <1>1, <1>2, <1>3, <1>4, <1>5, <1>6, <1>7, <1>8 DEF Next

LEMMA CoreTypes == Core => TypeOK /\ FreshIdentities /\ AdmissionBound
<1> SUFFICES ASSUME Core PROVE TypeOK /\ FreshIdentities /\ AdmissionBound
  OBVIOUS
<1>1. \A id \in DOMAIN quotas :
         LET q == quotas[id] IN
         /\ q.slice \in Slices /\ q.lim \in Limits /\ q.eac \in BOOLEAN
         /\ \A k \in Kinds : /\ q.mem[k] \subseteq Members(k)
                             /\ q.acc[k] \in [q.mem[k] -> Access]
                             /\ q.moved[k] \subseteq q.mem[k]
  BY DEF Core, ListOK, Quota, Sound
<1>2. TypeOK
  BY <1>1 DEF Core, ListOK, IndexOK, BookOK, TasksOK, TaskOK, FilesOK, TypeOK
<1>3. FreshIdentities
  BY DEF Core, ListOK, IndexOK, FreshIdentities
<1>4. AdmissionBound
  <2>1. ASSUME NEW id \in DOMAIN quotas, NEW k \in Kinds
        PROVE  Fits(quotas[id].top, k, quotas[id].mem[k], quotas[id].acc[k], quotas[id].moved[k])
    BY DEF Core, ListOK, Sound
  <2> QED
    BY <2>1 DEF Fits, AdmissionBound, Admitted
<1> QED
  BY <1>2, <1>3, <1>4

(***************************************************************************)
(* The inductive invariant: lists, snapshots and the locals of requests    *)
(* fit together, also across an end of the process.                        *)
(***************************************************************************)
THEOREM CoreInvariance == Spec => []Core
BY InitCore, NextCore, PTL DEF Spec

(***************************************************************************)
(* Type correctness; each counted member has one access type.              *)
(***************************************************************************)
THEOREM TypeCorrect == Spec => []TypeOK
BY CoreInvariance, CoreTypes, PTL

(***************************************************************************)
(* next_quota_id is ahead of every quota that exists, whichever snapshot a *)
(* restart finds, and an entry of the index never leads to the quota of    *)
(* another slice.                                                          *)
(***************************************************************************)
THEOREM IdentitiesFresh == Spec => []FreshIdentities
BY CoreInvariance, CoreTypes, PTL

(***************************************************************************)
(* No quota counts more than its ceilings allow, or than it counted when   *)
(* they were set: in the slice, and of an access type among those whom no  *)
(* UPDATE has moved.                                                       *)
(***************************************************************************)
THEOREM AdmissionsBounded == Spec => []AdmissionBound
BY CoreInvariance, CoreTypes, PTL

-----------------------------------------------------------------------------
(* A quota without a rival is found.                                       *)

\* The list loses quotas at most, and no slice forgets its past.
ListFrame ==
  /\ hist.shared \subseteq hist'.shared
  /\ \A id \in DOMAIN quotas' : id \in DOMAIN quotas /\ quotas'[id].slice = quotas[id].slice

Middle == {"addIndex", "dropIndex"}

LEMMA AloneKeeps ==
  ASSUME NEW id \in DOMAIN quotas', Alone(id), ListFrame, index' = index,
         \A u \in Tasks : task'[u] = task[u] \/ {task[u].pc, task'[u].pc} \cap Middle = {}
  PROVE  Alone(id)'
BY DEF Alone, ListFrame, Middle, At

LEMMA ReachableNote ==
  ASSUME Core, Reachable, NEW t \in Tasks, NEW r, Set(t, r), index' = index, ListFrame,
         r.pc \notin Middle, task[t].pc \notin Middle
  PROVE  Reachable'
<1>1. \A u \in Tasks : task'[u] = IF u = t THEN r ELSE task[u]
  BY DEF Set, Core, TasksOK
<1>2. \A u \in Tasks : task'[u] = task[u] \/ {task[u].pc, task'[u].pc} \cap Middle = {}
  BY <1>1
<1>3. \A id \in DOMAIN quotas' : Alone(id) => Alone(id)'
  BY <1>2, AloneKeeps
<1> QED
  BY <1>3 DEF Reachable, ListFrame

LEMMA ReachableSame ==
  ASSUME Reachable, UNCHANGED <<task, index, quotas>>, hist'.shared = hist.shared
  PROVE  Reachable'
BY DEF Reachable, Alone, At

LEMMA SameSlices ==
  ASSUME Core, UNCHANGED quotas, hist'.shared = hist.shared
  PROVE  ListFrame
BY DEF ListFrame

LEMMA ApplyReachable ==
  ASSUME Core, Reachable, NEW t \in Tasks, Apply(t)
  PROVE  Reachable'
<1>1. hist'.shared = hist.shared /\ index' = index /\ task[t].pc \notin Middle
  BY DEF Apply, At, Core, HistOK, Middle
<1>2. PICK r : Set(t, r) /\ r.pc \in {"idle", "save"}
  BY DEF Apply, Idle
<1>3. CASE task[t].id \in DOMAIN quotas
  <2>1. PICK x : /\ ResultOK(quotas[task[t].id], x)
                 /\ quotas' = [quotas EXCEPT ![task[t].id] = x.q]
    BY <1>3, ApplyEffect
  <2>2. ListFrame
    BY <1>1, <2>1 DEF ListFrame, ResultOK
  <2> QED
    BY <1>1, <1>2, <2>2, ReachableNote DEF Middle
<1>4. CASE task[t].id \notin DOMAIN quotas
  <2>1. ListFrame
    BY <1>1, <1>4, SameSlices DEF Apply
  <2> QED
    BY <1>1, <1>2, <2>1, ReachableNote DEF Middle
<1> QED
  BY <1>3, <1>4

LEMMA RetuneReachable ==
  ASSUME Core, Reachable, NEW t \in Tasks, Retune(t)
  PROVE  Reachable'
<1>1. hist'.shared = hist.shared /\ index' = index /\ task[t].pc \notin Middle
  BY DEF Retune, At, Middle
<1>2. PICK r : Set(t, r) /\ r.pc \in {"idle", "save"}
  BY DEF Retune, Idle
<1>3. ASSUME NEW id \in DOMAIN quotas'
      PROVE  id \in DOMAIN quotas /\ quotas'[id].slice = quotas[id].slice
  <2>1. DOMAIN quotas' = DOMAIN quotas
    BY DEF Retune
  <2>2. quotas[id] \in Quota
    BY <2>1 DEF Core, ListOK
  <2>3. \/ quotas'[id] = quotas[id]
        \/ quotas'[id] = [quotas[id] EXCEPT !.lim = task[t].lim,
                                           !.top = Allowed(quotas[id], task[t].lim)]
    BY <2>1 DEF Retune
  <2> QED
    BY <2>1, <2>2, <2>3 DEF Quota
<1> QED
  BY <1>1, <1>2, <1>3, ReachableNote DEF ListFrame, Middle

\* A new quota at the end of the list: its slice has a past, or it is alone.
LEMMA AddQuotaShares ==
  ASSUME Core, NEW s \in Slices, NEW l \in Limits, AddQuota(s, l), hist'.shared = Shared(s)
  PROVE  /\ hist.shared \subseteq hist'.shared
         /\ s \notin hist'.shared => /\ \A id \in DOMAIN quotas : quotas[id].slice # s
                                     /\ \A u \in Tasks : task[u].pc \in Middle => task[u].s # s
BY DEF Shared, Has, Halfway, Middle

LEMMA InsertQuotaReachable ==
  ASSUME Core, Reachable, NEW t \in Tasks, NEW s \in Slices, NEW l \in Limits,
         InsertQuota(t, s, l), index' = index, task[t].pc \notin Middle
  PROVE  Reachable'
<1>1. CASE /\ AddQuota(s, l)
           /\ Set(t, [pc |-> "addIndex", s |-> s, id |-> nextId])
           /\ hist' = [hist EXCEPT !.shared = Shared(s), !.loaded = Empty]
  <2>1. hist'.shared = Shared(s)
    BY <1>1 DEF Core, HistOK
  <2>2. /\ DOMAIN quotas' = DOMAIN quotas \cup {nextId} /\ quotas'[nextId].slice = s
        /\ \A id \in DOMAIN quotas : id # nextId /\ quotas'[id] = quotas[id]
    BY <1>1, AddQuotaKeeps
  <2>3. /\ hist.shared \subseteq hist'.shared
        /\ s \notin hist'.shared => /\ \A id \in DOMAIN quotas : quotas[id].slice # s
                                    /\ \A u \in Tasks : task[u].pc \in Middle => task[u].s # s
    BY <1>1, <2>1, AddQuotaShares
  <2>4. PICK r : r = [pc |-> "addIndex", s |-> s, id |-> nextId] /\ Set(t, r)
    BY <1>1
  <2>5. r.pc = "addIndex" /\ r.s = s /\ r.id = nextId
    BY <2>4
  <2>6. \A u \in Tasks : task'[u] = IF u = t THEN r ELSE task[u]
    BY <2>4 DEF Set, Core, TasksOK
  <2>7. ASSUME NEW id \in DOMAIN quotas', quotas'[id].slice \notin hist'.shared
        PROVE  Alone(id)'
    <3>1. CASE id = nextId
      BY <2>2, <2>3, <2>5, <2>6, <2>7, <3>1 DEF Alone, At, Middle
    <3>2. CASE id # nextId
      <4>1. id \in DOMAIN quotas /\ quotas'[id].slice = quotas[id].slice
        BY <2>2, <3>2
      <4>2. Alone(id)
        BY <2>3, <2>7, <4>1 DEF Reachable
      <4>3. quotas[id].slice # s
        BY <2>3, <2>7, <4>1
      <4> QED
        BY <2>2, <2>5, <2>6, <4>1, <4>2, <4>3 DEF Alone, At, Middle
    <3> QED
      BY <3>1, <3>2
  <2> QED
    BY <2>7 DEF Reachable
<1>2. CASE Set(t, Idle) /\ UNCHANGED <<quotas, nextId, hist>>
  BY <1>2, SameSlices, ReachableNote DEF Idle, Middle
<1> QED
  BY <1>1, <1>2 DEF InsertQuota

LEMMA AddIndexReachable ==
  ASSUME Core, Reachable, NEW t \in Tasks, AddIndex(t)
  PROVE  Reachable'
<1>1. /\ UNCHANGED <<quotas, hist>> /\ task[t].pc = "addIndex"
      /\ DOMAIN index' = DOMAIN index \cup {task[t].s}
      /\ \A s \in DOMAIN index' : index'[s] = IF s = task[t].s THEN task[t].id ELSE index[s]
  BY DEF AddIndex, At, Extended
<1>2. \A u \in Tasks : IF u = t THEN task'[u].pc = "save" ELSE task'[u] = task[u]
  BY DEF AddIndex, Set, Core, TasksOK
<1>3. ASSUME NEW id \in DOMAIN quotas, Alone(id)
      PROVE  Alone(id)'
  <2>1. \A u \in Tasks : At(u, "addIndex") /\ task[u].id = id => task[u].s = quotas[id].slice
    BY DEF Core, TasksOK, TaskOK, At
  <2>2. quotas[id].slice = task[t].s => task[t].id = id
    BY <1>1, <1>3 DEF Alone, At
  <2> QED
    BY <1>1, <1>2, <1>3, <2>1, <2>2 DEF Alone, At
<1> QED
  BY <1>1, <1>3 DEF Reachable

LEMMA DropIndexReachable ==
  ASSUME Core, Reachable, NEW t \in Tasks, DropIndex(t)
  PROVE  Reachable'
<1>1. /\ UNCHANGED <<quotas, hist>> /\ task[t].pc = "dropIndex"
      /\ DOMAIN index' = DOMAIN index \ {task[t].s}
      /\ \A s \in DOMAIN index' : index'[s] = index[s]
  BY DEF DropIndex, At, Restrict
<1>2. \A u \in Tasks : IF u = t THEN task'[u].pc = "save" ELSE task'[u] = task[u]
  BY DEF DropIndex, Set, Core, TasksOK
<1>3. ASSUME NEW id \in DOMAIN quotas, Alone(id)
      PROVE  Alone(id)'
  BY <1>1, <1>2, <1>3 DEF Alone, At
<1> QED
  BY <1>1, <1>3 DEF Reachable

LEMMA SliceQuotaDeleteReachable ==
  ASSUME Core, Reachable, NEW t \in Tasks, NEW i \in Ids, SliceQuotaDelete(t, i)
  PROVE  Reachable'
<1>1. /\ index' = index /\ task[t].pc = "idle" /\ i \in DOMAIN quotas
      /\ DOMAIN quotas' = DOMAIN quotas \ {i}
      /\ \A id \in DOMAIN quotas' : quotas'[id] = quotas[id]
      /\ hist'.shared = hist.shared
  BY DEF SliceQuotaDelete, Starts, At, Restrict, Core, HistOK
<1>2. PICK r : r = [pc |-> "dropIndex", s |-> quotas[i].slice] /\ Set(t, r)
  BY DEF SliceQuotaDelete
<1>3. \A u \in Tasks : task'[u] = IF u = t THEN r ELSE task[u]
  BY <1>2 DEF Set, Core, TasksOK
<1>4. r.pc = "dropIndex" /\ r.s = quotas[i].slice
  BY <1>2
<1>5. ASSUME NEW id \in DOMAIN quotas', Alone(id)
      PROVE  Alone(id)'
  <2>1. quotas[id].slice # quotas[i].slice
    BY <1>1, <1>5 DEF Alone
  <2> QED
    BY <1>1, <1>3, <1>4, <1>5, <2>1 DEF Alone, At
<1> QED
  BY <1>1, <1>5 DEF Reachable

LEMMA LoadStateReachable ==
  ASSUME Core, LoadState
  PROVE  Reachable'
<1>1. \A t \in Tasks : task'[t].pc = "idle"
  BY DEF LoadState, Core, DownOK, At
<1>2. PICK d : /\ SnapshotOK(d) /\ quotas' = d.quotas /\ index' \in Indexes(d.quotas)
               /\ hist'.shared = Doubled(d.quotas)
  BY LoadedOK
<1>3. ListOK(d.quotas, d.next)
  BY <1>2 DEF SnapshotOK
<1>4. /\ DOMAIN index' = {d.quotas[id].slice : id \in DOMAIN d.quotas}
      /\ \A s \in DOMAIN index' : index'[s] \in DOMAIN d.quotas /\ d.quotas[index'[s]].slice = s
  BY <1>2 DEF Indexes
<1>5. ASSUME NEW id \in DOMAIN quotas', quotas'[id].slice \notin hist'.shared
      PROVE  Alone(id)'
  <2>1. quotas'[id].slice \in Slices
    BY <1>2, <1>3 DEF ListOK, Quota
  <2>2. \A j \in DOMAIN quotas' : quotas'[j].slice = quotas'[id].slice => j = id
    BY <1>2, <1>5, <2>1 DEF Doubled
  <2>3. quotas'[id].slice \in DOMAIN index' /\ index'[quotas'[id].slice] = id
    BY <1>2, <1>4, <2>2
  <2> QED
    BY <1>1, <2>2, <2>3 DEF Alone, At
<1> QED
  BY <1>5 DEF Reachable

LEMMA ProvisionReachable ==
  ASSUME Core, Reachable, NEW s \in Slices, Provision(s)
  PROVE  Reachable'
<1>1. CASE /\ AddQuota(s, Ceilings)
           /\ index' = Extended(index, s, nextId)
           /\ hist' = [hist EXCEPT !.shared = Shared(s), !.behind = Overlaps]
  <2>1. hist'.shared = Shared(s) /\ task' = task
    BY <1>1 DEF Core, HistOK, Provision
  <2>2. /\ DOMAIN quotas' = DOMAIN quotas \cup {nextId} /\ quotas'[nextId].slice = s
        /\ \A id \in DOMAIN quotas : id # nextId /\ quotas'[id] = quotas[id]
    BY <1>1, AddQuotaKeeps, NsacfAssumption
  <2>3. /\ hist.shared \subseteq hist'.shared
        /\ s \notin hist'.shared => /\ \A id \in DOMAIN quotas : quotas[id].slice # s
                                    /\ \A u \in Tasks : task[u].pc \in Middle => task[u].s # s
    BY <1>1, <2>1, AddQuotaShares, NsacfAssumption
  <2>4. /\ DOMAIN index' = DOMAIN index \cup {s}
        /\ \A x \in DOMAIN index' : index'[x] = IF x = s THEN nextId ELSE index[x]
    BY <1>1 DEF Extended
  <2>5. ASSUME NEW id \in DOMAIN quotas', quotas'[id].slice \notin hist'.shared
        PROVE  Alone(id)'
    <3>1. CASE id = nextId
      BY <2>1, <2>2, <2>3, <2>4, <2>5, <3>1 DEF Alone, At, Middle
    <3>2. CASE id # nextId
      <4>1. id \in DOMAIN quotas /\ quotas'[id].slice = quotas[id].slice
        BY <2>2, <3>2
      <4>2. Alone(id)
        BY <2>3, <2>5, <4>1 DEF Reachable
      <4>3. quotas[id].slice # s
        BY <2>3, <2>5, <4>1
      <4> QED
        BY <2>1, <2>2, <2>4, <4>1, <4>2, <4>3 DEF Alone, At
    <3> QED
      BY <3>1, <3>2
  <2> QED
    BY <2>5 DEF Reachable
<1>2. CASE UNCHANGED <<quotas, index, hist>>
  BY <1>2, ReachableSame DEF Provision
<1> QED
  BY <1>1, <1>2 DEF Provision

LEMMA StepReachable ==
  ASSUME Core, Reachable, NEW t \in Tasks, Step(t)
  PROVE  Reachable'
<1>1. CASE AddList(t)
  <2>1. task[t].s \in Slices /\ task[t].lim \in Limits /\ task[t].pc \notin Middle
    BY <1>1 DEF AddList, At, Core, TasksOK, TaskOK, Middle
  <2> QED
    BY <1>1, <2>1, InsertQuotaReachable DEF AddList
<1>2. CASE Save(t)
  <2>1. PICK r : r = [pc |-> "spawn", snap |-> quotas]
    OBVIOUS
  <2>2. hist'.shared = hist.shared /\ UNCHANGED <<quotas, index>> /\ Set(t, r)
    BY <1>2, <2>1 DEF Save, Core, HistOK
  <2>3. r.pc \notin Middle /\ task[t].pc \notin Middle
    BY <1>2, <2>1 DEF Save, At, Middle
  <2> QED
    BY <2>2, <2>3, SameSlices, ReachableNote
<1>3. CASE Spawn(t)
  <2>1. hist'.shared = hist.shared /\ UNCHANGED <<quotas, index>> /\ Set(t, Idle)
    BY <1>3 DEF Spawn
  <2>2. Idle.pc \notin Middle /\ task[t].pc \notin Middle
    BY <1>3 DEF Spawn, At, Middle, Idle
  <2> QED
    BY <2>1, <2>2, SameSlices, ReachableNote
<1> QED
  BY <1>1, <1>2, <1>3, ApplyReachable, RetuneReachable, AddIndexReachable, DropIndexReachable DEF Step

LEMMA NextReachable ==
  ASSUME Core, Reachable, [Next]_vars
  PROVE  Reachable'
<1>1. ASSUME NEW t \in Tasks, NEW flag \in Updates, NEW k \in Kinds, NEW s \in Slices,
             NEW a \in Access, NEW m \in Members(k), AcUpdate(t, flag, k, m, s, a)
      PROVE  Reachable'
  <2>1. PICK r : Set(t, r) /\ r.pc = "apply"
    BY <1>1 DEF AcUpdate
  <2> QED
    BY <1>1, <2>1, SameSlices, ReachableNote DEF AcUpdate, Starts, At, Middle
<1>2. ASSUME NEW t \in Tasks, NEW s \in Slices, NEW l \in Limits, SliceQuotaCreate(t, s, l)
      PROVE  Reachable'
  BY <1>2, InsertQuotaReachable DEF SliceQuotaCreate, Starts, At, Middle
<1>3. ASSUME NEW t \in Tasks, NEW s \in Slices, NEW l \in Limits, LocalConfigsUpdate(t, s, l)
      PROVE  Reachable'
  <2>1. PICK r : Set(t, r) /\ (\/ r = [pc |-> "addList", s |-> s, lim |-> l]
                               \/ \E id : r = [pc |-> "retune", id |-> id, lim |-> l])
    BY <1>3 DEF LocalConfigsUpdate
  <2>2. r.pc \in {"addList", "retune"}
    BY <2>1
  <2> QED
    BY <1>3, <2>1, <2>2, SameSlices, ReachableNote DEF LocalConfigsUpdate, Starts, At, Middle
<1>4. ASSUME NEW t \in Tasks, NEW id \in Ids, SliceQuotaDelete(t, id) PROVE Reachable'
  BY <1>4, SliceQuotaDeleteReachable
<1>5. ASSUME NEW t \in Tasks, Step(t) PROVE Reachable'
  BY <1>5, StepReachable
<1>6. ASSUME NEW w \in BagToSet(writes), NEW ok \in BOOLEAN, FinishWrite(w, ok) PROVE Reachable'
  <2>1. hist'.shared = hist.shared /\ UNCHANGED <<task, index, quotas>>
    BY <1>6 DEF FinishWrite, Core, HistOK
  <2> QED
    BY <2>1, ReachableSame
<1>7. CASE Shutdown
  BY <1>7, ReachableSame DEF Shutdown, Core, HistOK
<1>8. CASE ProcessEnds
  BY <1>8 DEF ProcessEnds, Reachable
<1>9. CASE LoadState
  BY <1>9, LoadStateReachable
<1>10. ASSUME NEW s \in Slices, Provision(s) PROVE Reachable'
  BY <1>10, ProvisionReachable
<1>11. CASE UNCHANGED vars
  BY <1>11, ReachableSame DEF vars
<1> QED
  BY <1>1, <1>2, <1>3, <1>4, <1>5, <1>6, <1>7, <1>8, <1>9, <1>10, <1>11 DEF Next

(***************************************************************************)
(* The quota of a slice is found, unless the slice got a second one, or an *)
(* older one was still being added or removed when it came: list and index *)
(* have a lock each, and it takes no more than these to pull them apart.   *)
(***************************************************************************)
THEOREM QuotasFound == Spec => []QuotaReachable
<1>1. Init => Reachable
  BY DEF Init, Reachable
<1>2. Core /\ Reachable /\ [Next]_vars => Reachable'
  BY NextReachable
<1>3. Reachable => QuotaReachable
  BY DEF Reachable, Alone, QuotaReachable
<1> QED
  BY <1>1, <1>2, <1>3, CoreInvariance, PTL DEF Spec

-----------------------------------------------------------------------------
(* The state file keeps up.                                                *)

\* The steps of a request before it comes to its snapshot.
LEMMA SavedMarks ==
  ASSUME Core, Saved, NEW t \in Tasks, NEW r, Set(t, r), UNCHANGED <<writes, status>>,
         hist'.behind = hist.behind, ~At(t, "spawn"), r.pc \in {"addIndex", "dropIndex", "save"}
  PROVE  Saved'
<1>1. \A u \in Tasks : task'[u] = IF u = t THEN r ELSE task[u]
  BY DEF Set, Core, TasksOK
<1>2. Dirty'
  BY <1>1 DEF Dirty
<1>3. \A u \in Tasks : At(u, "spawn")' => At(u, "spawn")
  BY <1>1 DEF At
<1> QED
  BY <1>2, <1>3 DEF Saved

LEMMA SavedNotes ==
  ASSUME Core, Saved, NEW t \in Tasks, NEW r, Set(t, r), UNCHANGED <<quotas, writes, status, file>>,
         hist'.behind = hist.behind, task[t].pc \in {"idle", "apply", "addList", "retune"},
         r.pc \in {"idle", "apply", "addList", "retune"}
  PROVE  Saved'
<1>1. \A u \in Tasks : task'[u] = IF u = t THEN r ELSE task[u]
  BY DEF Set, Core, TasksOK
<1>2. Dirty' <=> Dirty
  BY <1>1 DEF Dirty
<1>3. \A u \in Tasks : At(u, "spawn")' <=> At(u, "spawn")
  BY <1>1 DEF At
<1>4. \A u \in Tasks : At(u, "spawn") => task'[u] = task[u]
  BY <1>1 DEF At
<1> QED
  BY <1>2, <1>3, <1>4 DEF Saved

LEMMA SavedSame ==
  ASSUME Saved, UNCHANGED <<quotas, writes, status, file, task>>, hist'.behind = hist.behind
  PROVE  Saved'
BY DEF Saved, Dirty, At

\* One snapshot on its way, and it is the list.
LEMMA SavedOne ==
  ASSUME NEW w, DOMAIN writes' = {w}, writes'[w] = 1, w.quotas = quotas',
         \A u \in Tasks : ~At(u, "spawn")'
  PROVE  Saved'
BY DEF Saved

LEMMA ApplySaved ==
  ASSUME Core, Saved, NEW t \in Tasks, Apply(t)
  PROVE  Saved'
<1>1. /\ hist'.behind = hist.behind /\ UNCHANGED <<writes, status, file>>
      /\ task[t].pc = "apply"
  BY DEF Apply, At, Core, HistOK
<1>2. CASE task[t].id \in DOMAIN quotas
  <2>1. PICK x : /\ ResultOK(quotas[task[t].id], x)
                 /\ quotas' = [quotas EXCEPT ![task[t].id] = x.q]
                 /\ Set(t, IF x.save THEN [pc |-> "save"] ELSE Idle)
    BY <1>2, ApplyEffect
  <2>2. CASE x.save
    <3>1. PICK r : r = [pc |-> "save"] /\ Set(t, r)
      BY <2>1, <2>2
    <3>2. r.pc = "save" /\ ~At(t, "spawn")
      BY <1>1, <3>1 DEF At
    <3> QED
      BY <1>1, <3>1, <3>2, SavedMarks
  <2>3. CASE ~x.save
    <3>1. quotas' = quotas
      <4>1. x.q = quotas[task[t].id]
        BY <2>1, <2>3 DEF ResultOK
      <4>2. quotas \in [DOMAIN quotas -> Quota]
        BY DEF Core, ListOK
      <4> QED
        BY <2>1, <4>1, <4>2
    <3>2. Set(t, Idle) /\ Idle.pc = "idle"
      BY <2>1, <2>3 DEF Idle
    <3> QED
      BY <1>1, <3>1, <3>2, SavedNotes
  <2> QED
    BY <2>2, <2>3
<1>3. CASE task[t].id \notin DOMAIN quotas
  BY <1>1, <1>3, SavedNotes DEF Apply, Idle
<1> QED
  BY <1>2, <1>3

LEMMA InsertQuotaSaved ==
  ASSUME Core, Saved, NEW t \in Tasks, NEW s \in Slices, NEW l \in Limits,
         InsertQuota(t, s, l), UNCHANGED <<writes, status, file>>,
         task[t].pc \in {"idle", "addList"}
  PROVE  Saved'
<1>1. hist'.behind = hist.behind
  BY DEF InsertQuota, Core, HistOK
<1>2. CASE Set(t, [pc |-> "addIndex", s |-> s, id |-> nextId])
  <2>1. PICK r : r = [pc |-> "addIndex", s |-> s, id |-> nextId] /\ Set(t, r)
    BY <1>2
  <2>2. r.pc = "addIndex" /\ ~At(t, "spawn")
    BY <2>1 DEF At
  <2> QED
    BY <1>1, <2>1, <2>2, SavedMarks
<1>3. CASE Set(t, Idle) /\ UNCHANGED <<quotas, nextId, hist>>
  BY <1>1, <1>3, SavedNotes DEF Idle
<1> QED
  BY <1>2, <1>3 DEF InsertQuota

LEMMA RetuneSaved ==
  ASSUME Core, Saved, NEW t \in Tasks, Retune(t)
  PROVE  Saved'
<1>1. hist'.behind = hist.behind /\ UNCHANGED <<writes, status, file>> /\ task[t].pc = "retune"
  BY DEF Retune, At
<1>2. CASE task[t].id \in DOMAIN quotas
  <2>1. PICK r : r = [pc |-> "save"] /\ Set(t, r)
    BY <1>2 DEF Retune
  <2>2. r.pc = "save" /\ ~At(t, "spawn")
    BY <1>1, <2>1 DEF At
  <2> QED
    BY <1>1, <2>1, <2>2, SavedMarks
<1>3. CASE task[t].id \notin DOMAIN quotas
  BY <1>1, <1>3, SavedNotes DEF Retune, Idle
<1> QED
  BY <1>2, <1>3

LEMMA IndexSaved ==
  ASSUME Core, Saved, NEW t \in Tasks, AddIndex(t) \/ DropIndex(t)
  PROVE  Saved'
<1>1. hist'.behind = hist.behind /\ UNCHANGED <<writes, status>> /\ ~At(t, "spawn")
  BY DEF AddIndex, DropIndex, At
<1>2. PICK r : r = [pc |-> "save"] /\ Set(t, r)
  BY DEF AddIndex, DropIndex
<1>3. r.pc = "save"
  BY <1>2
<1> QED
  BY <1>1, <1>2, <1>3, SavedMarks

LEMMA SliceQuotaDeleteSaved ==
  ASSUME Core, Saved, NEW t \in Tasks, NEW id \in Ids, SliceQuotaDelete(t, id)
  PROVE  Saved'
<1>1. hist'.behind = hist.behind /\ UNCHANGED <<writes, status>> /\ ~At(t, "spawn")
  BY DEF SliceQuotaDelete, Starts, At, Core, HistOK
<1>2. PICK r : r = [pc |-> "dropIndex", s |-> quotas[id].slice] /\ Set(t, r)
  BY DEF SliceQuotaDelete
<1>3. r.pc = "dropIndex"
  BY <1>2
<1> QED
  BY <1>1, <1>2, <1>3, SavedMarks

\* A snapshot is taken; nothing else is on its way, or the file may fall behind.
LEMMA SaveSaved ==
  ASSUME Core, Saved, NEW t \in Tasks, Save(t)
  PROVE  Saved'
<1>1. CASE hist'.behind
  BY <1>1 DEF Saved
<1>2. CASE ~hist'.behind
  <2>1. DOMAIN writes = {} /\ \A u \in Tasks : ~At(u, "spawn")
    BY <1>2, NoWrites DEF Save, Core, HistOK, Overlaps
  <2>2. PICK r : r = [pc |-> "spawn", snap |-> quotas] /\ Set(t, r)
    BY DEF Save
  <2>3. r.pc = "spawn" /\ r.snap = quotas
    BY <2>2
  <2>4. \A u \in Tasks : task'[u] = IF u = t THEN r ELSE task[u]
    BY <2>2 DEF Set, Core, TasksOK
  <2>5. UNCHANGED <<writes, quotas>>
    BY DEF Save
  <2>6. \A u \in Tasks : At(u, "spawn")' <=> u = t
    BY <2>1, <2>3, <2>4 DEF At
  <2> QED
    BY <2>1, <2>3, <2>4, <2>5, <2>6 DEF Saved
<1> QED
  BY <1>1, <1>2

LEMMA SpawnSaved ==
  ASSUME Core, Saved, NEW t \in Tasks, Spawn(t)
  PROVE  Saved'
<1>1. CASE hist'.behind
  BY <1>1 DEF Saved
<1>2. CASE ~hist'.behind
  <2>1. /\ UNCHANGED <<quotas, status, file, hist>> /\ At(t, "spawn")
        /\ \A u \in Tasks : task'[u] = IF u = t THEN Idle ELSE task[u]
    BY DEF Spawn, Set, Core, TasksOK
  <2>2. status # "down"
    BY <2>1, Running DEF At
  <2>3. /\ DOMAIN writes = {} /\ \A u \in Tasks : At(u, "spawn") => u = t
        /\ ~Dirty => task[t].snap = quotas
    BY <1>2, <2>1, <2>2 DEF Saved
  <2>4. PICK w : /\ w = [quotas |-> task[t].snap, next |-> nextId]
                 /\ writes' = writes (+) SetToBag({w})
    BY DEF Spawn
  <2>5. DOMAIN writes' = {w} /\ writes'[w] = 1
    BY <2>3, <2>4, BagPlus DEF Core, FilesOK
  <2>6. \A u \in Tasks : ~At(u, "spawn")'
    BY <2>1, <2>3 DEF At, Idle
  <2>7. Dirty => Dirty'
    BY <2>1 DEF Dirty, At
  <2>8. ~Dirty => w.quotas = quotas
    BY <2>3, <2>4
  <2> QED
    BY <2>1, <2>5, <2>6, <2>7, <2>8 DEF Saved
<1> QED
  BY <1>1, <1>2

LEMMA FinishWriteSaved ==
  ASSUME Core, Saved, NEW w \in BagToSet(writes), NEW ok \in BOOLEAN, FinishWrite(w, ok)
  PROVE  Saved'
<1>1. CASE hist'.behind \/ status = "down"
  BY <1>1 DEF Saved, FinishWrite
<1>2. CASE ~hist'.behind /\ status # "down"
  <2>1. ok /\ ~hist.behind /\ file' = w /\ UNCHANGED <<quotas, task>>
    BY <1>2 DEF FinishWrite, Core, HistOK
  <2>2. w \in DOMAIN writes
    BY DEF BagToSet
  <2>3. /\ writes[w] = 1 /\ \A v \in DOMAIN writes : v = w
        /\ \A u \in Tasks : ~At(u, "spawn")
        /\ ~Dirty => w.quotas = quotas
    BY <1>2, <2>1, <2>2 DEF Saved
  <2>4. DOMAIN writes' = {}
    BY <2>2, <2>3, BagMinus DEF FinishWrite, Core, FilesOK
  <2>5. \A u \in Tasks : ~At(u, "spawn")'
    BY <2>1, <2>3 DEF At
  <2>6. Dirty <=> Dirty'
    BY <2>1 DEF Dirty
  <2> QED
    BY <2>1, <2>3, <2>4, <2>5, <2>6 DEF Saved
<1> QED
  BY <1>1, <1>2

LEMMA ShutdownSaved ==
  ASSUME Core, Saved, Shutdown
  PROVE  Saved'
<1>1. CASE hist'.behind
  BY <1>1 DEF Saved
<1>2. CASE ~hist'.behind
  <2>1. DOMAIN writes = {} /\ \A u \in Tasks : ~At(u, "spawn")
    BY <1>2, NoWrites DEF Shutdown, Core, HistOK, Overlaps
  <2>2. PICK w : w = [quotas |-> quotas, next |-> nextId] /\ writes' = writes (+) SetToBag({w})
    BY DEF Shutdown
  <2>3. DOMAIN writes' = {w} /\ writes'[w] = 1
    BY <2>1, <2>2, BagPlus DEF Core, FilesOK
  <2>4. w.quotas = quotas' /\ \A u \in Tasks : ~At(u, "spawn")'
    BY <2>1, <2>2 DEF Shutdown, At
  <2> QED
    BY <2>3, <2>4, SavedOne
<1> QED
  BY <1>1, <1>2

LEMMA ProvisionSaved ==
  ASSUME Core, Saved, NEW s \in Slices, Provision(s)
  PROVE  Saved'
<1>1. CASE hist'.behind
  BY <1>1 DEF Saved
<1>2. CASE /\ ~hist'.behind
           /\ writes' = writes (+) SetToBag({[quotas |-> quotas', next |-> nextId']})
           /\ hist' = [hist EXCEPT !.shared = Shared(s), !.behind = Overlaps]
  <2>1. DOMAIN writes = {} /\ \A u \in Tasks : ~At(u, "spawn")
    BY <1>2, NoWrites DEF Core, HistOK, Overlaps
  <2>2. PICK w : w = [quotas |-> quotas', next |-> nextId'] /\ writes' = writes (+) SetToBag({w})
    BY <1>2
  <2>3. DOMAIN writes' = {w} /\ writes'[w] = 1
    BY <2>1, <2>2, BagPlus DEF Core, FilesOK
  <2>4. w.quotas = quotas' /\ \A u \in Tasks : ~At(u, "spawn")'
    BY <2>1, <2>2 DEF Provision, At
  <2> QED
    BY <2>3, <2>4, SavedOne
<1>3. CASE UNCHANGED <<quotas, index, nextId, writes, hist>>
  BY <1>3, SavedSame DEF Provision
<1> QED
  BY <1>1, <1>2, <1>3 DEF Provision

LEMMA LoadStateSaved ==
  ASSUME Core, LoadState
  PROVE  Saved'
<1>1. DOMAIN writes' = {} /\ \A u \in Tasks : ~At(u, "spawn")'
  BY DEF LoadState, Core, DownOK, At
<1>2. ~hist'.behind => file'.quotas = quotas'
  <2>1. PICK d : /\ quotas' = d.quotas
                 /\ hist' = [behind |-> d # file, shared |-> Doubled(d.quotas), loaded |-> d]
    BY LoadedOK
  <2> QED
    BY <2>1 DEF LoadState
<1> QED
  BY <1>1, <1>2 DEF Saved

LEMMA NextSaved ==
  ASSUME Core, Saved, [Next]_vars
  PROVE  Saved'
<1>1. ASSUME NEW t \in Tasks, NEW flag \in Updates, NEW k \in Kinds, NEW s \in Slices,
             NEW a \in Access, NEW m \in Members(k), AcUpdate(t, flag, k, m, s, a)
      PROVE  Saved'
  <2>1. PICK r : Set(t, r) /\ r.pc = "apply"
    BY <1>1 DEF AcUpdate
  <2> QED
    BY <1>1, <2>1, SavedNotes DEF AcUpdate, Starts, At
<1>2. ASSUME NEW t \in Tasks, NEW s \in Slices, NEW l \in Limits, SliceQuotaCreate(t, s, l)
      PROVE  Saved'
  BY <1>2, InsertQuotaSaved DEF SliceQuotaCreate, Starts, At
<1>3. ASSUME NEW t \in Tasks, NEW s \in Slices, NEW l \in Limits, LocalConfigsUpdate(t, s, l)
      PROVE  Saved'
  <2>1. PICK r : Set(t, r) /\ (\/ r = [pc |-> "addList", s |-> s, lim |-> l]
                               \/ \E id : r = [pc |-> "retune", id |-> id, lim |-> l])
    BY <1>3 DEF LocalConfigsUpdate
  <2>2. r.pc \in {"addList", "retune"}
    BY <2>1
  <2> QED
    BY <1>3, <2>1, <2>2, SavedNotes DEF LocalConfigsUpdate, Starts, At
<1>4. ASSUME NEW t \in Tasks, NEW id \in Ids, SliceQuotaDelete(t, id) PROVE Saved'
  BY <1>4, SliceQuotaDeleteSaved
<1>5. ASSUME NEW t \in Tasks, AddList(t) PROVE Saved'
  <2>1. task[t].s \in Slices /\ task[t].lim \in Limits /\ task[t].pc = "addList"
    BY <1>5 DEF AddList, At, Core, TasksOK, TaskOK
  <2> QED
    BY <1>5, <2>1, InsertQuotaSaved DEF AddList
<1>6. ASSUME NEW t \in Tasks, Step(t) PROVE Saved'
  BY <1>5, <1>6, ApplySaved, RetuneSaved, IndexSaved, SaveSaved, SpawnSaved DEF Step
<1>7. ASSUME NEW w \in BagToSet(writes), NEW ok \in BOOLEAN, FinishWrite(w, ok) PROVE Saved'
  BY <1>7, FinishWriteSaved
<1>8. CASE Shutdown
  BY <1>8, ShutdownSaved
<1>9. CASE ProcessEnds
  BY <1>9 DEF ProcessEnds, Saved
<1>10. CASE LoadState
  BY <1>10, LoadStateSaved
<1>11. ASSUME NEW s \in Slices, Provision(s) PROVE Saved'
  BY <1>11, ProvisionSaved
<1>12. CASE UNCHANGED vars
  BY <1>12, SavedSame DEF vars
<1> QED
  BY <1>1, <1>2, <1>3, <1>4, <1>6, <1>7, <1>8, <1>9, <1>10, <1>11, <1>12 DEF Next

(***************************************************************************)
(* Every change reaches the state file: once nothing is under way the file *)
(* has the quotas of the memory, unless the last snapshot was taken while  *)
(* another was under way, or a write since then failed, or the file was    *)
(* not readable at the start and nothing has been saved since.             *)
(***************************************************************************)
THEOREM FileKeepsUp == Spec => []SavedWhenQuiet
<1>1. Init => Saved
  <2>1. Init => DOMAIN writes = {}
    BY NoWrites DEF Init
  <2> QED
    BY <2>1 DEF Init, Saved, At, Idle, Empty
<1>2. Core /\ Saved /\ [Next]_vars => Saved'
  BY NextSaved
<1>3. Core /\ Saved => SavedWhenQuiet
  <2> SUFFICES ASSUME Core, Saved, Serving, writes = EmptyBag, \A t \in Tasks : At(t, "idle"),
                      ~hist.behind
               PROVE  file.quotas = quotas
    BY DEF SavedWhenQuiet
  <2>1. DOMAIN writes = {} /\ ~Dirty /\ \A t \in Tasks : ~At(t, "spawn")
    BY NoWrites DEF Dirty, At
  <2> QED
    BY <2>1 DEF Saved, Serving
<1> QED
  BY <1>1, <1>2, <1>3, CoreInvariance, PTL DEF Spec
=============================================================================
