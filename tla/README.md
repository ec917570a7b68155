# A TLA+ verification of the nextgcore 5G core

nextgcore is a 5G (and LTE) core network in Rust: one daemon per network
function under `src/src/bins`, shared protocol libraries under `src/src/libs`.
This directory holds TLA+ models of the parts that decide whether a user gets
service: registration and authentication (AMF, AUSF, UDM, UDR), slice admission
(NSACF), the control of PDU sessions between the SMF and the UPF over N4 (PFCP
on UDP), the UPF data plane the sessions end in, and the registry through which
the functions find each other (NRF). The models are checked with TLC on small
instances, and most of their safety properties are proved with TLAPS for every
size of the system.

## 1. The system

### Components and how they interact

| Component | State it keeps | Operations | Talks to |
|---|---|---|---|
| AMF (`amfd/ngap_path.rs`, `sbi_path.rs`) | one NAS context per AMF-UE-NGAP-ID: identity, keys, one retransmission timer, registration flags | one task with a handler per NAS and NGAP message, a poll of the timers every 10 ms | gNB (SCTP), AUSF, UDM, PCF, NSACF, SMF (HTTP, awaited) |
| AUSF (`ausfd/app.rs`, `context.rs`) | one UE object per SUCI, the KAUSF anchor per SUPI with SoR and UPU counters | authenticate, confirm, protect | AMF, UDM |
| UDM, UDR (`udmd/app.rs`, `udrd/main.rs`) | last RAND; the subscriber's sequence number | generate authentication data, resynchronise; GET and PATCH | AUSF; each other |
| NSACF (`nsacfd/context.rs`, `main.rs`) | quotas, index by S-NSSAI, counters by access type, state file | admit, release and move UEs and sessions, administer quotas, save, restore | AMF, SMF |
| NRF (`nrfd/main.rs`, `nnrf_handler.rs`, `timer.rs`) | NF instances, profiles, subscriptions, timers, state file | register, patch, heartbeat, deregister, subscribe, event loop, restore | every function |
| SMF N4 engine (`smfd/pfcp_path.rs`, `main.rs`) | association flag and peer Recovery Time Stamp, pending table, stored UPF SEIDs | `request` with T1/N1, `on_datagram`, `associate`, `heartbeat_once`, `release_association`, restart detection, maintenance task | UPF (UDP) |
| SMF SM contexts (`smfd/main.rs`, `context.rs`) | contexts, policy bindings, address pool | create, update, release, policy notify and terminate | AMF, PCF, NSACF (HTTP), N4 engine (await) |
| UPF PFCP server (`upfd/pfcp_path.rs`) | one association, session table, SEID and TEID counters, pending reports | one sequential loop with a handler per message, a heartbeat task, report retransmission | SMF (UDP), data plane (bounded channel) |
| UPF data plane (`upfd/data_plane.rs`, `main.rs`) | session objects in three tables (SEID, TEID, UE address), rules, downlink buffer | packet loop, session event task, report channel | gNB (GTP-U), PFCP server |
| PCF, NSSF, BSF, SCP, SEPP, NEF, NWDAF, LMF, ... | per-UE and per-NF contexts | SBI handlers | each other (HTTP/2) |
| MME, HSS, PCRF, SGW-C, SGW-U | LTE contexts | S1AP, Diameter and GTPv2 handlers | each other |
| Libraries (codecs, GTP, Diameter, SBI, crypto, SCTP) | transactions, pools | encoding, retransmission | all daemons |

Every component is listed in `PROJECT.json`, with the reason when it is not
modelled.

### What is hard here

* UDP loses and reorders, requests are retransmitted, and the UPF does not
  remember which requests it has answered.
* Both N4 ends restart: SEIDs start at 1 again, SM context numbers too, and
  each side learns of the other's restart only from a Recovery Time Stamp.
* Handlers await responses; the world changes between what they read before
  and what they do after. AUSF and UDM even write back whole copies.
* Creating a session takes four resources of four parties one after the other;
  any step may fail, with or without effect, and so may its roll back.
* One timer per NAS context guards every procedure with the UE, and messages
  arrive late, twice, or in answer to something else.
* NRF and NSACF serve requests in parallel with one lock per table, and write
  their state files without any.
* PFCP server and data plane are joined by a bounded channel, and the packet
  loop shares session objects with the event task that replaces them, one lock
  per field.

The hazards, each at its line, are in `PROJECT.json`.

### What makes it correct

UE and AMF agree on the key, and a sequence number is used once; a NAS
procedure always has a timer, and every registration settles; a registered UE
has its policy, its slices (counted, or admitted for want of an answer) and its
entry at the UDM. No admission takes a count above its ceiling, a quota is found,
and what is in memory gets to the file. A registered NF is supervised, and a
missed heartbeat deregisters it only if it was SUSPENDED by then. The two
ends of an association agree; an SMF that stays up is associated again and
again; every request ends; a stored SEID never names another context's session;
a response completes the request it answers; sessions nobody owns are bounded;
no two contexts share a UE address, none leaks, and a context that ended holds
nothing; the data plane follows the session table; buffered packets are neither
lost, duplicated nor reordered, and a buffered packet gets its UE paged.

## 2. The modules

| Module | Models |
|---|---|
| `AmfUe` | the life of one NAS context in the AMF: registration, timers, deregistration, loss of the NG association |
| `Aka` | 5G AKA of one subscriber through AMF, AUSF, UDM and UDR, and the AUSF's anchor |
| `Nsacf` (`MCNsacf`) | slice quotas, their index, the state file and the restart |
| `Nrf` (`MCNrf`) | registrations, subscriptions, heartbeat timers, the state file and the restart |
| `SmContext` (`MCSmContext`) | creation and release of SM contexts in the SMF |
| `AddressService` | abstract specification: what the SMF promises of UE addresses |
| `SmContextProofs` | theorems about `SmContext` |
| `N4Net` | datagrams and the UDP network |
| `PfcpClient` | the SMF end of N4 |
| `PfcpServer` | the UPF end of N4 and the data plane's session tables |
| `N4` (`MCN4`) | the composition of the two ends, its properties and its fairness |
| `N4Proofs` | theorems about `N4`: types, SEIDs, correlation |
| `N4SessionProofs` | theorems about `N4`: the data plane behind its channel, and what holds with one SMF |
| `UpfDownlink` | downlink buffering, paging and the object swap of one session |
| `AmfUeProofs`, `AkaProofs`, `NsacfProofs`, `NrfProofs`, `UpfDownlinkProofs` | theorems about the module of that name |

**Names.** Actions carry the name of the handler they model
(`HandleAssociationSetupRequest`, `complete_registration`). A handler that
awaits is split where it awaits, and one that takes several locks where it
gives one up. An operator called `Bug...` is a variant of the definition below
it with a plausible mistake; no specification uses it, it shows that a property
would notice. Variables called `hist`, and the fields named as history in the
modules, are read by properties only.

**AmfUe.** One task runs each handler to its end, so a handler is one action,
with the answers of the functions it calls as a choice. `ctx` is the entry of
`ue_auth_state`; `ctx.ask` is the request that its one retransmission timer
repeats. `broken` is the loss of the SCTP association: from then on every send
fails, and `?` leaves the handler there, before the timer is armed or the
context released. `up` and `down` are messages under way; the UE answers what
it gets, in any of the ways the handlers tell apart, and may lose anything.
`held` is what UDM, PCF, NSACF and SMF keep for the UE. The AMF degrades open:
a slice whose admission the NSACF does not answer, or answers with a status
nobody expects, counts as admitted with nothing held there (`sbi_path.rs:1769`). So
`complete_registration` chooses, of the allowed slices (`Slices`), those counted
and those merely open, and `hist.open` remembers the latter. A network-initiated
deregistration is enabled for any secured context; in the repository it is
queued only for a UE of the older `AmfUe` pool. The UE policy association, on
whose answers nothing depends, is left out.

**Aka.** The same subscriber appears in several contexts of several AMFs. A
`call` is one authentication request from the AMF down to the UDR, and its
number stands for the vector. AUSF and UDM handlers are split at their awaits.
`overlap` and `degraded` remember when the UDM's handlers overlapped or a
refused PATCH was passed over. Cryptography is ideal: an answer matches the
vector it was made for.

**Nsacf.** UEs and PDU sessions are counted by the same operators. A request
looks its quota up, changes it under the lock of the list, and saves: a
snapshot, then a thread that renames its own temporary file at some later time
(`writes`, a bag). A restart loads the file, or nothing if it cannot be read, and
then provisions the configured slices. Ceilings of an access type come by a
configuration update alone, as in the code (`Plain`). Two fields of a quota are
history: `top`, what its ceilings allow since they were set, and `moved`, the
members an UPDATE has given another access type; they go with the quota into
snapshots and file.

**Nrf.** A request is a sequence of steps, one per lock: instance, profile,
snapshot, file, timer. The event loop is one more actor. `tmp` and `file` are
the contents of the one temporary file and of the state file; an opened file
keeps its contents under way through a rename, as in a POSIX file system
(`fd`). `Overlay` says what a write over an older, longer text may leave. Each
call of `write_atomic` may fail, which `persist` only logs (`WriteFails`): the
request goes on, and the file is stale or, where the data went in part to a file
that a rename had already taken, torn. The process starts with a file that an
earlier one left (`Left`), and a file that cannot be read counts as none. A crash
of the machine, which could lose what a rename without `fsync` had not yet
brought to the disk, is not modelled.

**SmContext.** `create[r]` is the create handler of context `r` with its locals,
`rel[r]["amf"]` and `rel[r]["pcf"]` the release handlers that the AMF's request
and the PCF's termination start. `pool`, `bindings` and `seids` are the SMF's
tables; `counted`, `policies` and `upf` are what NSACF, PCF and UPF hold. A
request to one of them is one step: done and answered, refused, or failed with
or without effect (`doubt` remembers that). The N4 exchange is such a step here
and is taken apart in `N4`. `misencoded` remembers contexts whose N2 message had
no encoding. One slice, and one release request of each origin per context.
QoS values, N1 and N2 contents, the status notification to the AMF and the GSM
state machine, whose state these handlers never ask, are left out.

**AddressService** has leases, refusals and returns of numbered requests and
nothing else. `SmContext` implements it: a context's lease is its address while
some handler or binding answers for it (`Holds`). The promise ends with the
first N2 message that cannot be encoded (`Fault`), for the reason that the run
`sm_address` shows.

**N4.** Datagrams are records in the set `net`. `att` (number of the
transmission) tells copies of one request apart; `inc` (the UPF incarnation that
issued a SEID) is history. Both are invisible to the receivers. A datagram is
delivered at most once; duplicates come from retransmission. In `PfcpClient`,
`reqs` is the union of the pending tables, `ctx` and `held` are the SM contexts
and `pfcp_sessions`. `FreshSeq` states the one assumption on `PFCP_SEQ`: the
24-bit number wraps only after its old datagrams have died out. A request ends
with a response, with the exhaustion of N1 (association marked down) or with a
refused send (association untouched). A release at shutdown runs while the
receive loop ends after at most one more datagram (`status` "stop" then "deaf").
In `PfcpServer` a handler runs to its end before the next datagram is read. Where
the socket refuses its response it returns: a heartbeat or a setup has then lost
a response, a release leaves the association, an establishment passes over a
SEID, a modification is not told to the data plane, and neither is a deletion,
whose session is gone (`untold` remembers it, as history).
`events` is the channel to the data plane; one more event than its capacity is
the one the loop is blocked with. `dp` and `ueIp` are `seid_map` and
`ue_ip_map`. Every SMF numbers contexts from the same start and hands out the
lowest free address of the same subnet, so a context reference stands for its
UE address. A new incarnation of either end has a larger Recovery Time Stamp
(the code uses seconds, so a restart within a second would go unnoticed; a
restart is assumed to take longer) and datagrams from before are assumed to be
dead. Requests pending at the other side live on and are retransmitted.

**UpfDownlink.** One session; `objs` are the session objects ever created,
`ip` the one the address lookup finds. Each step is one lock acquisition of
the packet loop (lookup, PDR, FAR, buffer or send) or of the event task
(`update_session_from_pfcp` is split into its moves). `floor`, `due` and
`episode` are history. QER gates and rates are a free choice to drop; uplink
and usage counters do not touch this state.

## 3. What TLC checks

| Run | Instance | Shows |
|---|---|---|
| `amf_ue` | one context, one slice, one repetition of every timer but T3560, two requests of UE or UDM | `WaitGuarded`, `PolicyBound`, `RegisteredIsServed`, `RegistrationSettles` |
| `aka` | two contexts of one SUCI, three calls, one repetition, a USIM ahead of the UDR by less than a step | `KeyAgreement`, `MacKeyKnown`, `RejectedOnlyByRival`, `SqnAdvances` |
| `nsacf` | two UEs, two slices, two ceilings, two requests at a time and three in all, two writes of the file at a time, one restart | `FreshIdentities`, `QuotaReachable`, `SavedWhenQuiet`, `AdmissionBound` |
| `nrf` | one NF, one subscription, no file or a full one left, two requests at a time beside the loop, failing writes, one restart or one earlier process | `SavedWhenQuiet`, `Supervised`, `GraceGiven` |
| `sm_context` | two contexts of one or two UEs, two addresses, room for one session on the slice, every failure | `AddressExclusive`, `AddressOwned`, `AllOrNothing`, and the refinement `LeasesAddresses` |
| `n4_association` | full `Next` without contexts, both sides restarting | `AssocAgreement`, `Reassociates`, `RequestsComplete` |
| `n4_seid` | two contexts against a restarting UPF | `SeidStable`, `ResponseMatchesRequest`, `NoSeidAliasing` |
| `n4_faults` | one context activated, a full event channel, an SMF that crashes, shuts down and starts, or a UPF that restarts | `OrphanBound`, `DataPlaneCaughtUp`, `IpIndexSound` |
| `upf_downlink` | four packets, two activations, a buffer of two | `PacketConserved`, `FlushInOrder`, `FlushComplete`, `EpisodeReported`, `TunnelNotStale` |

Every module has a type invariant besides, checked in its run.

**Bounds.** All are constants named in the modules. One retransmission is enough
for a duplicate request and for an exhausted timer; two or three datagrams in
flight for a response to be overtaken; two incarnations for every stale value to
have a fresh one to be confused with; an event channel of one to fill up with
two events. Two contexts suffice for an address to be released by one while the
other has it, and a third request finds the pool empty. Three AKA calls are two
vectors and the resynchronisation between them; two requests at a time are what
a lost update needs; three requests of the NSACF make, use and delete a quota.
In `amf_ue` T3560 gives up at once: its repetition is in `aka`, and one
repetition here makes more states than a run should have. What a repeated
Security Mode Command and its two answers do to `PolicyBound` and
`RegisteredIsServed` is left to their theorems, which hold for every number of
repetitions of every timer. The NSACF run counts UEs; sessions go through the
same operators, and `nsacf_restart` has one. Its second ceiling admits one UE
and none from outside 3GPP, so that three requests reach a ceiling, set one
below the count and move a member past one. In `nrf` a process that starts with
a file left by an earlier one is not restarted again; one that starts without
is, at any point. Two sequence numbers suffice because a number is taken again
as soon as nothing carries it. Deadlock is not checked: all runs end when the
bounds on requests, incarnations or packets are used up.

**Claims with exceptions.** Where the code does not keep a property in a known
case, the property names the case and is checked everywhere else.
`AssocAgreement`, `NoSeidAliasing` and `OrphanBound` are claims about a UPF with
one SMF. `WaitGuarded` excepts contexts that an unparsable or unexpected answer
left behind (`dropped`) and broken associations. `SqnAdvances` excepts
overlapping requests of one SUPI and refused PATCHes. `RegisteredIsServed`
excepts, for the entry at the UDM, contexts whose UE deregistered through
another context and deregistrations that a broken association stopped.
`SavedWhenQuiet` of the NRF excepts overlapping writes; for a stale file, but
not for a torn one, also a last write that failed and a file that could not be
read. That of the NSACF excepts a last snapshot that overlapped another one, a
write since then that failed, and a file that could not be read.
`AdmissionBound` says nothing of members that an UPDATE moved, as far as access
types go, and lets a count stay where a new ceiling found it. `Supervised`
excepts what a restart restored and has not heard of since, and removals that
overlapped a store. `DataPlaneCaughtUp` excepts sessions whose deletion could
not be acknowledged, and `SeidStable` the SEIDs of an earlier incarnation of the
UPF. `QuotaReachable` excepts slices with a second quota or with one half added
or removed. `MacKeyKnown` allows the key of one anchor with the counter of the
next. `EpisodeReported` excepts a packet that was pushed after the flush of its
episode. Several of these exceptions are exactly the bad case of a hazard: the
behaviour is in the model, the code shows it, and what the property adds is that
nothing else goes wrong. The notes of the hazards in `PROJECT.json` say which.

**Fairness.** `AmfUe`: weak fairness of the timers alone, since the poll loop
comes round every 10 ms and a deadline passes; nothing is owed by the UE or the
gNB. `N4`: weak fairness of each task: tokio schedules the maintenance task, the
receive loops, the T1 timers and the event task, and every datagram is delivered
or dies. Strong fairness of three things: the UPF gets some setup request while
its sender still waits, the SMF gets some setup response in time, and the socket
accepts some retransmission. That is the usual assumption on a lossy network
that is retried for ever, as the maintenance task does every ten seconds. No
fairness is assumed of restarts, contexts or loss.

### Where code and comments disagree

| Run | Statement in the code that does not hold |
|---|---|
| `sm_address` | a set bit "means host address i is allocated": the address of a live context has its bit cleared |
| `amf_dereg` | PDU session release, UDM unsubscription and policy termination "follow on the Deregistration Accept": nothing but the NG context is released |
| `nsacf_restart` | "counters survive restarts": a configured slice starts with a second, empty quota |

Each is a run that TLC ends with a counterexample; `findings` in
`PROJECT.json` quotes the line.

Known disagreements that the exceptions above step around; the models contain
the behaviour, and dropping the exception shows it:

* with two SMFs, the failure of the one that holds the UPF's only association
  slot clears the sessions of both, although cleanup "is scoped to the failed
  peer's sessions" (`upfd/pfcp_path.rs:578`), and an SMF whose slot was taken
  and released stays associated in its own eyes for ever;
* a session whose deletion response the socket refuses is gone from the PFCP
  server and stays in the data plane (`upfd/pfcp_path.rs:1471`), which still
  forwards for it;
* a modification retransmitted across a UPF restart carries a SEID that by then
  may be another context's;
* concurrent persists of the NRF share a temporary file: a crash can leave a
  truncated snapshot, which `write_atomic` (`nrfd/nnrf_handler.rs:833`) excludes;
* a `Some` ceiling "enables per-access enforcement" (`nsacfd/context.rs:106`), but
  an UPDATE moves a member to an access type that is at its ceiling
  (`update_ue_access`, `update_pdu_access`): with a ceiling of one and one UE from
  outside 3GPP, a second one that moves there makes two;
* two requests for one SUPI that overlap in the UDM get vectors with one SQN,
  and so does one after a PATCH refused with a status below 500;
* a packet buffered in the old session object while it is replaced is never
  sent (`PacketConserved` finds it in that object's buffer), and one that is
  pushed just after the flush suppresses the report of the next idle period.

## 4. What is proved

Each theorem holds for every value of the constants that satisfies the named
ASSUMEs of its module (bounds are naturals, sets that are counted are finite,
the null values are not members; what goes beyond that is said below). A
property is proved from an inductive invariant, which is needed because the
property speaks of two ends of an exchange and not of what is between them.

| Module | Theorem | States |
|---|---|---|
| `N4Proofs` | `TypeCorrect`, `SeidsStable`, `ResponsesMatch` | `TypeOK`, `SeidStable`, `ResponseMatchesRequest` |
| `N4SessionProofs` | `DataPlaneCatchesUp`, `IpIndexIsSound` | `DataPlaneCaughtUp`, `IpIndexSound` |
| | `AssociationAgreed`, `SeidsDoNotAlias`, `OrphansBounded` | with one SMF: `AssocAgreement`, `NoSeidAliasing`, `OrphanBound` |
| `SmContextProofs` | `TypeCorrect`, `AddressesExclusive`, `AddressesOwned`, `NothingLeftBehind` | `TypeOK`, `AddressExclusive`, `AddressOwned`, `AllOrNothing` |
| | `Refinement` | `Spec => LeasesAddresses`: `SmContext` implements `AddressService` |
| `NsacfProofs` | `TypeCorrect`, `IdentitiesFresh`, `QuotasFound`, `FileKeepsUp` | `TypeOK`, `FreshIdentities`, `QuotaReachable`, `SavedWhenQuiet` |
| | `AdmissionsBounded` | `AdmissionBound` |
| `AmfUeProofs` | `TypeCorrect`, `WaitsGuarded`, `RegisteredAreServed`, `PoliciesBounded` | `TypeOK`, `WaitGuarded`, `RegisteredIsServed`, `PolicyBound` |
| `NrfProofs` | `TypeCorrect`, `AllSupervised`, `FileKeepsUp` | `TypeOK`, `Supervised`, `SavedWhenQuiet` |
| | `GraceKept` | the action property `GraceGiven` |
| `AkaProofs` | `TypeCorrect`, `KeysAgree`, `MacKeysKnown`, `OnlyRivalsReject` | `TypeOK`, `KeyAgreement`, `MacKeyKnown`, `RejectedOnlyByRival` |
| | `SqnsAdvance` | the action property `SqnAdvances` |
| `UpfDownlinkProofs` | `TypeCorrect`, `PacketsConserved`, `FlushedInOrder`, `FlushesComplete`, `EpisodesReported`, `TunnelsNotStale` | `TypeOK`, `PacketConserved`, `FlushInOrder`, `FlushComplete`, `EpisodeReported`, `TunnelNotStale` |

### The arguments

**N4.** `IInv` is `TypeOK` with three further parts. `PendingAreRequests`: only
requests are pending. `CorrelationInv`: messages with one sequence number of one
SMF belong to one exchange (same context, and a response has the kind its
request calls for), an establishment names a context, heartbeats of the UPF
carry no number; `ResponseMatchesRequest` speaks of a pending request and a
response, and says nothing of the copy in flight that will produce the response.
`SeidInv`: every SEID of the running incarnation, stored or in a message, is
below `nextSeid` and leads to its own context when its session exists; without
the bound the number of a session that is gone could be issued again. Most steps
only pass on, drop or answer messages (`CarriesOn`), so correlation is preserved
by a few lemmas about message sets; only the establishment creates a SEID and
only the SMF's transmissions create an exchange.

**N4, data plane.** `dp` lags behind the session table by the events in the
channel, so neither determines the other. `DataPlaneInv` says what the channel
says: the last event about a SEID says whether it was announced and not taken
back (`Announced`), a SEID without an event has in `dp` what the server has told
(`Shown`), and a SEID is announced as established once in an incarnation of the
UPF (`EstablishedOnce`). The last is what makes `IpIndexSound` inductive: a SEID
that is announced is not in `dp`, so storing its UE address cannot take a session
from under another address. A SEID deleted without a word is not issued again
(`Buried`).

**N4, one SMF.** The hypothesis `OneSmf` says that there are not two; the UPF has
one association slot, and with two SMFs the claims fail (see above). `PairInv`
relates the two ends. `Books`, the SMF's own: what a pending request says about
the state of its sender, and that no two requests about one thing are pending.
`Wire`: every time stamp in flight is that of a running incarnation, and a setup
response in flight means that the UPF already has this incarnation as its peer,
which is why the SMF may believe it when it arrives. `Ties`: agreement, an SMF
that does not know yet that the UPF restarted has no setup request in flight and
the UPF no association, so no session and nothing to alias. For `OrphansBounded`,
`CountInv` counts the sessions of a context and its establishment requests in
flight together: an accepted request turns one of the second kind into one of the
first, a transmission adds at most one, and so the sum stays at or below the
transmissions of the pending request. A context that has asked for nothing has
none of either as soon as the UPF knows the SMF's present incarnation, because
the setup of a new incarnation flushes the sessions of the old.

**SmContext.** `IInv` adds `OneOwner`: the create handler answers for the
address until it has stored the binding, then the binding, then the one release
that took it. Every step is then shown to take an address, to give one back, or
to leave them alone (`Accounted`); exclusivity and ownership follow from that
alone, and so does the simulation of `AddressService`, where each of the three
is a lease, a return or a stutter. `NothingLeftBehind` needs the books of the
other parties: `AllTidy` says of each place in the two kinds of handler which of
binding, stored SEID, policy and N4 session the context may still have, and
`CountedBacked` that whatever the NSACF counts is some context's.

**Nsacf.** `Core` gives the shape of every quota, of every snapshot (in the
hands of a request, under way to the file, in the file) and the freshness of
identities in each of them, since a restart may load any. Index entries of a
slice with one quota lead to it (`Reachable`). The last snapshot taken is the
memory unless a request is about to take another, and the file is the last snapshot
unless a write is under way (`Saved`). `AdmissionBound` is part of what makes a
quota `Sound`, in memory as in every snapshot, since a restart brings old counts
back: the ceiling in force is never above what is allowed (`Below`), so whoever
finds room fits (`Fits`); who leaves or is moved by an UPDATE only makes room, and
a new ceiling allows at least what it finds.

**AmfUe.** `Inv` relates the timer of a context to what it waits for, the flags
to what UDM, PCF and NSACF hold, and the messages under way to the state in
which they could have been sent. `PolicyBound` counts: each Security Mode
Command sent is a credit, each way in which a context can still run
`complete_registration` (the command under way, the answer under way, the
context that waits for the PEI) takes one, and `Credit` says that the credits
cover all of them together.

**Nrf.** `Core` says what an actor at each place of its operation carries.
`Sup` adds who will start the timer of a profile that has none, and that a
profile has an instance unless its actor is about to insert one. `Events`
relates an expired timer to the status its NF had then (`hist.was`).
`Filed`: with no overlap there is at most one actor between the snapshot and the
rename, the temporary file is its snapshot, and the snapshot is the registry; so
a write that fails half way leaves its mark in the temporary file alone
(`Intact`), and the next one starts with a file of its own.

**Aka.** `Core` says to which vector each state of a context, a call and a
handler refers. `Keys`: a key in the anchor, in a confirmation or with an AMF
belongs to a vector whose challenge the UE accepted. `Rivals`: as long as nobody
else asked for the SUCI, the AUSF's object holds the context's own newest vector
or a call of the context is still going to write it. `SqnsAdvance` takes three
parts. `Traced`: what is challenged was issued, and a resynchronisation reports
a number not below the one it refused. `Ascending`: while handlers of the UDM
have not overlapped, the number in the UDR is above every number issued, and the
last vector drawn is not below any of them, which is why the comparison of RANDs
makes a resynchronisation safe. `Rooms`: no number is so large that the requests
still to come could make it wrap. Assumed beyond naturals: the sequence number
has room for one index step (`IndSize < SqnSize`), there is a kind of
protection, and for `Rooms` that the 2^48 numbers do not run out
(`SqnAssumption`: one step and one number for each request).

**UpfDownlink.** `Shape` says where each task stands and what it then has in
hand. `Laid`, `SentOnce` and `Order` are one invariant: every packet that came
is in one place, and each buffer, the flush and what was sent are in order of
arrival; a sequence in order holds no packet twice, which is what conservation
needs. `Flush` follows the packets that an activation found waiting through the
two object swaps to the socket. `Paging`: the DDN flag of the reachable object
is up only if the SMF was asked. `Tunnel`: outside the swap a FAR that forwards
leads to the last tunnel the event task was given.

**Only model-checked.** Liveness under fairness (`Reassociates`,
`RequestsComplete`, `RegistrationSettles`) is outside the prover's reach, and the
three disagreements of the table above are counterexamples and not theorems.
Every invariant and every action property of a passing run has a theorem.

## 5. Not modelled, and the plan

Not modelled, and why:

* message encoding and cryptography: data, out of a model checker's reach;
* AMF: handover, paging, N1N2 transfer and configuration update, which each
  need a second gNB or the SMF's side to say anything; the older UE pool and its
  state machine, which the live path does not fill;
* SMF: QoS derivation, the update handler beyond its N4 step, the choice among
  several UPFs (`smf_n4_seid_for` gives contexts 0x1000 apart one SEID, and a
  restart of one UPF flushes the stored sessions of all), admissions that two
  contexts share under one key, a termination by the PCF that comes before the
  binding is stored;
* UPF: retransmission of session reports, uplink, usage reporting, tunnel values
  in modifications (a delayed retransmission may overwrite a newer tunnel), and
  the default rules a session has before its own are installed beyond what
  `UpfDownlink` shows;
* NRF: discovery, notifications (spawned, in no order) and tokens;
* NSACF: subscriptions and the order of early admission control notifications;
* the other functions and the LTE side, listed in `PROJECT.json`: front ends of
  a table, proxies or numeric code, except the GTPv2 and Diameter transactions.

What would come next: session reports with their retransmission, joined to
`UpfDownlink`, and a second UPF in `PfcpClient`.
