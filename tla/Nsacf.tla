------------------------------- MODULE Nsacf -------------------------------
(***************************************************************************)
(* The slice admission control of the NSACF: quotas and their counters,    *)
(* the index from S-NSSAI to quota, the state file and the restart.        *)
(*                                                                         *)
(* Requests run in parallel on a pool of threads.  Index and quota list    *)
(* have a lock each, so that a request is a few steps: look the quota up,  *)
(* change it, take a snapshot, and hand that to a thread which writes the  *)
(* file at some later time.  A request here has one operation; more of     *)
(* them run one after the other.  UEs and PDU sessions are counted alike   *)
(* (Kinds); only UEs drive early admission control.                        *)
(***************************************************************************)
EXTENDS Naturals, FiniteSets, Functions, Bags

CONSTANTS
  Ues, Pdus,   \* SUPIs; PDU sessions, by SUPI and identity
  Slices,      \* S-NSSAIs of one SST
  Wide,        \* the one of them without SD
  Limits,      \* ceilings that a quota may be given
  NoLimit,     \* an access type without a ceiling of its own
  Threshold,   \* eac_threshold, in percent
  MaxQuotas,   \* --max-quotas
  Configured,  \* slices with a quota in the configuration file
  Ceilings,    \* and the ceilings it gives them
  Tasks,       \* requests served at a time
  Updates,     \* AcuFlags asked for
  MaxId,       \* bound: quota identities in use
  MaxWrites,   \* bound: writes of the state file under way
  MaxRequests, \* bound: requests
  MaxCrashes   \* bound: ends of the process

Kinds  == {"ue", "pdu"}
Access == {"3gpp", "n3gpp"}
Members(k) == IF k = "ue" THEN Ues ELSE Pdus

\* AccessLimits::default: no ceiling for an access type
Plain(l) == \A k \in Kinds, a \in Access : l.per[k][a] = NoLimit

ASSUME NsacfAssumption ==
  /\ Wide \in Slices /\ Configured \subseteq Slices
  /\ Ceilings \in Limits /\ Plain(Ceilings)
  /\ Threshold \in 1..100
  /\ \A l \in Limits : l \in [max : [Kinds -> Nat],
                              per : [Kinds -> [Access -> Nat \cup {NoLimit}]]]
  /\ Updates \subseteq {"INCREASE", "DECREASE", "UPDATE"}
  /\ {MaxQuotas, MaxId, MaxWrites, MaxRequests, MaxCrashes} \subseteq Nat

VARIABLES
  quotas,   \* quota_list: a function on some identities
  index,    \* snssai_hash: a function on some slices
  nextId,   \* next_quota_id
  task,     \* [Tasks -> ...]: the requests being served
  file,     \* the state file
  writes,   \* bag of snapshots that are being written
  boot,     \* slices of the configuration not yet provisioned
  status,   \* of the process
  crashes,  \* processes that ended
  asked,    \* requests so far
  hist      \* history, for the properties; loaded is forgotten at the first change

vars == <<quotas, index, nextId, task, file, writes, boot, status, crashes, asked, hist>>

Ids == 1..MaxId

\* SliceQuota::new.  top and moved are history and go where the quota goes: the
\* counts allowed since its ceilings were set, and the members that an UPDATE
\* has given another access type.
NewQuota(s, l) ==
  [slice |-> s, lim |-> l, eac |-> FALSE,
   mem |-> [k \in Kinds |-> {}], acc |-> [k \in Kinds |-> <<>>],
   top |-> l, moved |-> [k \in Kinds |-> {}]]

Idle == [pc |-> "idle"]
Pcs == {"idle", "apply", "addList", "addIndex", "retune", "dropIndex",
        "save", "spawn"}

\* One type invariant: ceilings, members and identities are of their sets,
\* and a member has exactly one access type, as load_state and the comment on
\* ue_access ("Always kept in sync with `ues`") have it.
TypeOK ==
  /\ DOMAIN quotas \subseteq Ids
  /\ \A id \in DOMAIN quotas :
       LET q == quotas[id] IN
       /\ q.slice \in Slices /\ q.lim \in Limits /\ q.eac \in BOOLEAN
       /\ \A k \in Kinds : /\ q.mem[k] \subseteq Members(k)
                           /\ q.acc[k] \in [q.mem[k] -> Access]
                           /\ q.moved[k] \subseteq q.mem[k]
  /\ DOMAIN index \subseteq Slices /\ \A s \in DOMAIN index : index[s] \in Ids
  /\ nextId \in 1..MaxId + 1
  /\ \A t \in Tasks : task[t].pc \in Pcs
  /\ IsABag(writes)
  /\ boot \subseteq Configured /\ status \in {"down", "up", "stopping"}
  /\ crashes \in 0..MaxCrashes /\ asked \in 0..MaxRequests

Empty == [quotas |-> <<>>, next |-> 1]

\* The first start: there is no state file
Init ==
  /\ quotas = <<>> /\ index = <<>> /\ nextId = 1
  /\ task = [t \in Tasks |-> Idle]
  /\ file = Empty /\ writes = EmptyBag
  /\ boot = Configured /\ status = "up" /\ crashes = 0 /\ asked = 0
  /\ hist = [behind |-> FALSE, shared |-> {}, loaded |-> Empty]

Serving == status # "down" /\ boot = {}

-----------------------------------------------------------------------------
(* The counters                                                            *)

CountOn(q, k, a) == Cardinality({m \in q.mem[k] : q.acc[k][m] = a})

\* update_eac; only the UE count is compared
update_eac(q) ==
  IF q.lim.max["ue"] = 0
  THEN q
  ELSE [q EXCEPT !.eac = Cardinality(q.mem["ue"]) * 100 >= q.lim.max["ue"] * Threshold]

Counted(q, k) == IF k = "ue" THEN update_eac(q) ELSE q

\* Mutant: the count may reach the ceiling plus one.
BugOneTooMany(q, k, a) ==
  /\ Cardinality(q.mem[k]) <= q.lim.max[k]
  /\ q.lim.per[k][a] # NoLimit => CountOn(q, k, a) < q.lim.per[k][a]

\* Room for one more, in the slice and in its access type
HasRoom(q, k, a) ==
  /\ Cardinality(q.mem[k]) < q.lim.max[k]
  /\ q.lim.per[k][a] # NoLimit => CountOn(q, k, a) < q.lim.per[k][a]

\* admit_ue, admit_pdu_session: [q, changed]; an admission is saved also when
\* the member was there before
Admit(q, k, m, a) ==
  IF m \in q.mem[k]
  THEN [q |-> q, save |-> TRUE]
  ELSE IF HasRoom(q, k, a)
  THEN [q |-> Counted([q EXCEPT !.mem[k] = @ \cup {m},
                                !.acc[k] = [x \in q.mem[k] \cup {m} |->
                                              IF x = m THEN a ELSE q.acc[k][x]]], k),
        save |-> TRUE]
  ELSE [q |-> q, save |-> FALSE]

\* Mutant: the access type of a member that left stays.
BugKeepsAccess(q, k, m) ==
  IF m \in q.mem[k]
  THEN [q |-> Counted([q EXCEPT !.mem[k] = @ \ {m}, !.moved[k] = @ \ {m}], k),
        save |-> TRUE]
  ELSE [q |-> q, save |-> FALSE]

\* release_ue, release_pdu_session
Discharge(q, k, m) ==
  IF m \in q.mem[k]
  THEN [q |-> Counted([q EXCEPT !.mem[k] = @ \ {m},
                                !.acc[k] = Restrict(@, q.mem[k] \ {m}),
                                !.moved[k] = @ \ {m}], k),
        save |-> TRUE]
  ELSE [q |-> q, save |-> FALSE]

\* Member m comes from a now
WithAccess(q, k, m, a) ==
  [q EXCEPT !.acc[k][m] = a,
            !.moved[k] = IF q.acc[k][m] = a THEN @ ELSE @ \cup {m}]

\* Mutant: a member that only changed its access type is not saved.
BugUnsaved(q, k, m, a) ==
  IF m \in q.mem[k]
  THEN [q |-> WithAccess(q, k, m, a), save |-> FALSE]
  ELSE [q |-> q, save |-> FALSE]

\* update_ue_access, update_pdu_access: no ceiling is asked
Move(q, k, m, a) ==
  IF m \in q.mem[k]
  THEN [q |-> WithAccess(q, k, m, a), save |-> q.acc[k][m] # a]
  ELSE [q |-> q, save |-> FALSE]

\* The members that were admitted from a, or moved there and back
Admitted(q, k, a) == {m \in q.mem[k] \ q.moved[k] : q.acc[k][m] = a}

AtLeast(n, c) == IF c <= n THEN n ELSE c

\* The counts that ceilings l allow to q: theirs, or those it has already
Allowed(q, l) ==
  [max |-> [k \in Kinds |-> AtLeast(l.max[k], Cardinality(q.mem[k]))],
   per |-> [k \in Kinds |-> [a \in Access |->
              IF l.per[k][a] = NoLimit
              THEN NoLimit
              ELSE AtLeast(l.per[k][a], Cardinality(Admitted(q, k, a)))]]]

-----------------------------------------------------------------------------
(* Requests                                                                *)

\* quota_id_for: the quota of the slice, or else the one of the whole SST
quota_id_for(s) ==
  IF s \in DOMAIN index THEN {index[s]}
  ELSE IF Wide \in DOMAIN index THEN {index[Wide]} ELSE {}

At(t, pc) == task[t].pc = pc
Set(t, r) == task' = [task EXCEPT ![t] = r]

\* A request comes to an idle thread
Starts(t) ==
  /\ status = "up" /\ boot = {} /\ At(t, "idle")
  /\ asked < MaxRequests /\ asked' = asked + 1

\* handle_ue_ac_update, handle_pdu_ac_update: an unknown slice is refused
AcUpdate(t, flag, k, m, s, a) ==
  /\ Starts(t)
  /\ \E id \in quota_id_for(s) :
       Set(t, [pc |-> "apply", flag |-> flag, k |-> k, m |-> m,
               a |-> IF flag = "DECREASE" THEN "3gpp" ELSE a, id |-> id])
  /\ UNCHANGED <<quotas, index, nextId, file, writes, boot, status, crashes, hist>>

\* ... under the lock of the list; the quota may be gone by now
Apply(t) ==
  LET r == task[t]
      res == CASE r.flag = "INCREASE" -> Admit(quotas[r.id], r.k, r.m, r.a)
               [] r.flag = "DECREASE" -> Discharge(quotas[r.id], r.k, r.m)
               [] r.flag = "UPDATE"   -> Move(quotas[r.id], r.k, r.m, r.a)
  IN
  /\ At(t, "apply")
  /\ IF r.id \in DOMAIN quotas
     THEN /\ quotas' = [quotas EXCEPT ![r.id] = res.q]
          /\ Set(t, IF res.save THEN [pc |-> "save"] ELSE Idle)
     ELSE Set(t, Idle) /\ UNCHANGED quotas
  /\ hist' = [hist EXCEPT !.loaded = Empty]
  /\ UNCHANGED <<index, nextId, file, writes, boot, status, crashes, asked>>

\* Some request has changed the list and not yet the index, for slice s
Halfway(s) == \E t \in Tasks : task[t].pc \in {"addIndex", "dropIndex"} /\ task[t].s = s

Has(qs, s) == \E id \in DOMAIN qs : qs[id].slice = s

Extended(f, x, y) == [z \in DOMAIN f \cup {x} |-> IF z = x THEN y ELSE f[z]]

\* quota_add_with_limits, under the lock of the list: a second quota for a
\* slice is not refused
AddQuota(s, l) ==
  /\ Cardinality(DOMAIN quotas) < MaxQuotas
  /\ nextId \in Ids /\ nextId' = nextId + 1
  /\ quotas' = Extended(quotas, nextId, NewQuota(s, l))

\* The slices with a past, once s has a new quota
Shared(s) == IF Has(quotas, s) \/ Halfway(s) THEN hist.shared \cup {s} ELSE hist.shared

\* quota_add_with_limits: the list, then the index; or the table is full
InsertQuota(t, s, l) ==
  \/ /\ AddQuota(s, l)
     /\ Set(t, [pc |-> "addIndex", s |-> s, id |-> nextId])
     /\ hist' = [hist EXCEPT !.shared = Shared(s), !.loaded = Empty]
  \/ /\ Cardinality(DOMAIN quotas) >= MaxQuotas
     /\ Set(t, Idle) /\ UNCHANGED <<quotas, nextId, hist>>

\* handle_slice_quota_create, which knows no ceiling of an access type
SliceQuotaCreate(t, s, l) ==
  /\ Starts(t) /\ Plain(l)
  /\ InsertQuota(t, s, l)
  /\ UNCHANGED <<index, file, writes, boot, status, crashes>>

AddIndex(t) ==
  /\ At(t, "addIndex")
  /\ index' = Extended(index, task[t].s, task[t].id)
  /\ Set(t, [pc |-> "save"])
  /\ UNCHANGED <<quotas, nextId, file, writes, boot, status, crashes, hist, asked>>

\* handle_local_configs_update, quota_update_or_add: in place, or a new quota.
\* The quota found may be the one of the whole SST.
LocalConfigsUpdate(t, s, l) ==
  /\ Starts(t)
  /\ IF quota_id_for(s) = {}
     THEN Set(t, [pc |-> "addList", s |-> s, lim |-> l])
     ELSE \E id \in quota_id_for(s) : Set(t, [pc |-> "retune", id |-> id, lim |-> l])
  /\ UNCHANGED <<quotas, index, nextId, file, writes, boot, status, crashes, hist>>

AddList(t) ==
  /\ At(t, "addList")
  /\ InsertQuota(t, task[t].s, task[t].lim)
  /\ UNCHANGED <<index, file, writes, boot, status, crashes, asked>>

\* EAC is not brought up to date
Retune(t) ==
  /\ At(t, "retune")
  /\ IF task[t].id \in DOMAIN quotas
     THEN /\ quotas' = [quotas EXCEPT ![task[t].id].lim = task[t].lim,
                                       ![task[t].id].top = Allowed(quotas[task[t].id], task[t].lim)]
          /\ Set(t, [pc |-> "save"])
     ELSE Set(t, Idle) /\ UNCHANGED quotas
  /\ UNCHANGED <<index, nextId, file, writes, boot, status, crashes, hist, asked>>

\* handle_slice_quota_delete, quota_remove
SliceQuotaDelete(t, id) ==
  /\ Starts(t) /\ id \in DOMAIN quotas
  /\ quotas' = Restrict(quotas, DOMAIN quotas \ {id})
  /\ Set(t, [pc |-> "dropIndex", s |-> quotas[id].slice])
  /\ hist' = [hist EXCEPT !.loaded = Empty]
  /\ UNCHANGED <<index, nextId, file, writes, boot, status, crashes>>

\* The entry of the slice goes, whichever quota it names by now
DropIndex(t) ==
  /\ At(t, "dropIndex")
  /\ index' = Restrict(index, DOMAIN index \ {task[t].s})
  /\ Set(t, [pc |-> "save"])
  /\ UNCHANGED <<quotas, nextId, file, writes, boot, status, crashes, hist, asked>>

-----------------------------------------------------------------------------
(* The state file                                                          *)

\* A snapshot that another one can overtake on its way to the file
Overlaps == writes # EmptyBag \/ \E t \in Tasks : At(t, "spawn")

\* save_state: the list under its lock ...
Save(t) ==
  /\ At(t, "save")
  /\ Set(t, [pc |-> "spawn", snap |-> quotas])
  /\ hist' = [hist EXCEPT !.behind = Overlaps]
  /\ UNCHANGED <<quotas, index, nextId, file, writes, boot, status, crashes, asked>>

\* ... then the next identity, and a thread that writes
Spawn(t) ==
  /\ At(t, "spawn") /\ BagCardinality(writes) < MaxWrites
  /\ writes' = writes (+) SetToBag({[quotas |-> task[t].snap, next |-> nextId]})
  /\ Set(t, Idle)
  /\ UNCHANGED <<quotas, index, nextId, file, boot, status, crashes, hist, asked>>

\* The renames come in any order; a write may fail, which is only logged
FinishWrite(w, ok) ==
  /\ w \in BagToSet(writes)
  /\ writes' = writes (-) SetToBag({w})
  /\ file' = IF ok THEN w ELSE file
  /\ hist' = [hist EXCEPT !.behind = @ \/ ~ok]
  /\ UNCHANGED <<quotas, index, nextId, task, boot, status, crashes, asked>>

\* Shutdown by a signal: one more snapshot, before the server stops
Shutdown ==
  /\ Serving /\ status = "up" /\ status' = "stopping"
  /\ writes' = writes (+) SetToBag({[quotas |-> quotas, next |-> nextId]})
  /\ hist' = [hist EXCEPT !.behind = Overlaps]
  /\ UNCHANGED <<quotas, index, nextId, task, file, boot, crashes, asked>>

\* The end of the process, after a shutdown or without; what is not renamed by
\* then is lost
ProcessEnds ==
  /\ status # "down" /\ status' = "down"
  /\ crashes < MaxCrashes /\ crashes' = crashes + 1
  /\ quotas' = <<>> /\ index' = <<>> /\ nextId' = 1
  /\ task' = [t \in Tasks |-> Idle] /\ writes' = EmptyBag /\ boot' = {}
  /\ UNCHANGED <<file, hist, asked>>

\* Slices of which a list of quotas has two
Doubled(qs) == {s \in Slices : \E i, j \in DOMAIN qs :
                                 i # j /\ qs[i].slice = s /\ qs[j].slice = s}

\* The entries that a list of quotas leaves in the index, in whatever order a
\* hash map gives them
Indexes(qs) == {f \in [{qs[id].slice : id \in DOMAIN qs} -> DOMAIN qs] :
                  \A s \in DOMAIN f : qs[f[s]].slice = s}

\* Mutant: next_quota_id is not restored.
BugIdsAgain ==
  /\ status = "down" /\ status' = "up"
  /\ quotas' = file.quotas /\ index' \in Indexes(file.quotas) /\ nextId' = 1
  /\ boot' = Configured
  /\ hist' = [behind |-> FALSE, shared |-> Doubled(file.quotas), loaded |-> file]
  /\ UNCHANGED <<task, file, writes, crashes, asked>>

\* Mutant: the index is not restored.
BugNoIndex ==
  /\ status = "down" /\ status' = "up"
  /\ quotas' = file.quotas /\ index' = <<>> /\ nextId' = file.next
  /\ boot' = Configured
  /\ hist' = [behind |-> FALSE, shared |-> Doubled(file.quotas), loaded |-> file]
  /\ UNCHANGED <<task, file, writes, crashes, asked>>

\* main, load_state; a file that cannot be read counts as none
LoadState ==
  /\ status = "down" /\ status' = "up"
  /\ \E d \in {file, Empty} :
       /\ quotas' = d.quotas /\ index' \in Indexes(d.quotas) /\ nextId' = d.next
       /\ hist' = [behind |-> d # file, shared |-> Doubled(d.quotas), loaded |-> d]
  /\ boot' = Configured
  /\ UNCHANGED <<task, file, writes, crashes, asked>>

\* main: quota_add for a slice of the configuration, restored or not.  Nobody
\* else is served yet.
Provision(s) ==
  /\ status = "up" /\ s \in boot /\ boot' = boot \ {s}
  /\ \/ /\ AddQuota(s, Ceilings)
        /\ index' = Extended(index, s, nextId)
        /\ writes' = writes (+) SetToBag({[quotas |-> quotas', next |-> nextId']})
        /\ hist' = [hist EXCEPT !.shared = Shared(s), !.behind = Overlaps]
     \/ /\ Cardinality(DOMAIN quotas) >= MaxQuotas
        /\ UNCHANGED <<quotas, index, nextId, writes, hist>>
  /\ UNCHANGED <<task, file, status, crashes, asked>>

-----------------------------------------------------------------------------
Step(t) ==
  \/ Apply(t) \/ AddList(t) \/ AddIndex(t) \/ Retune(t) \/ DropIndex(t)
  \/ Save(t) \/ Spawn(t)

Next ==
  \/ \E t \in Tasks, flag \in Updates, k \in Kinds, s \in Slices, a \in Access :
       \E m \in Members(k) : AcUpdate(t, flag, k, m, s, a)
  \/ \E t \in Tasks, s \in Slices, l \in Limits :
       SliceQuotaCreate(t, s, l) \/ LocalConfigsUpdate(t, s, l)
  \/ \E t \in Tasks, id \in Ids : SliceQuotaDelete(t, id)
  \/ \E t \in Tasks : Step(t)
  \/ \E w \in BagToSet(writes), ok \in BOOLEAN : FinishWrite(w, ok)
  \/ Shutdown \/ ProcessEnds \/ LoadState
  \/ \E s \in Slices : Provision(s)

Spec == Init /\ [][Next]_vars

-----------------------------------------------------------------------------
(* Properties                                                              *)

\* A quota never counts more than its ceilings allow, however requests and new
\* ceilings interleave and whichever snapshot a restart finds: a count is at
\* most the ceiling, or what was counted when the ceiling was set.  UPDATE asks
\* no ceiling, so that of an access type this holds only of the members whom no
\* UPDATE has moved; the others may pass its ceiling, never that of the slice.
AdmissionBound ==
  \A id \in DOMAIN quotas, k \in Kinds :
    LET q == quotas[id] IN
    /\ Cardinality(q.mem[k]) <= q.top.max[k]
    /\ \A a \in Access :
         q.top.per[k][a] # NoLimit => Cardinality(Admitted(q, k, a)) <= q.top.per[k][a]

\* A new quota never takes the identity of one that exists, whichever snapshot
\* a restart finds; so an entry of the index never leads to the quota of another
\* slice.
FreshIdentities ==
  /\ \A id \in DOMAIN quotas : id < nextId
  /\ \A s \in DOMAIN index :
       index[s] \in DOMAIN quotas => quotas[index[s]].slice = s

\* The quota of a slice is found, unless the slice got a second one, or an
\* older one was still being added or removed when it came.
QuotaReachable ==
  \A id \in DOMAIN quotas :
    LET s == quotas[id].slice IN
    \/ s \in DOMAIN index /\ index[s] = id
    \/ s \in hist.shared
    \/ \E t \in Tasks : At(t, "addIndex") /\ task[t].id = id

\* Every change reaches the state file: once nothing is under way the file has
\* the quotas of the memory, unless the last snapshot was taken while another
\* was under way, or a write since then failed, or the file was not readable at
\* the start and nothing has been saved since.
SavedWhenQuiet ==
  Serving /\ writes = EmptyBag /\ (\A t \in Tasks : At(t, "idle")) /\ ~hist.behind =>
    file.quotas = quotas

\* --state-file: "State file for counter persistence across restarts".  A slice
\* that had one quota in the file counts, after the restart, who was counted.
CountersSurvive ==
  Serving =>
    \A id \in DOMAIN hist.loaded.quotas :
      LET q == hist.loaded.quotas[id] IN
      q.slice \notin Doubled(hist.loaded.quotas) =>
        \E j \in quota_id_for(q.slice) :
          j \in DOMAIN quotas /\ quotas[j].mem = q.mem

=============================================================================
