-------------------------------- MODULE Nrf --------------------------------
(***************************************************************************)
(* The NF registry of the NRF: profiles, subscriptions, heartbeat timers,  *)
(* the state file and the restart.                                         *)
(*                                                                         *)
(* Requests run in parallel on a pool of threads, beside the event loop    *)
(* that handles expired timers.  Instances, profiles, subscriptions and    *)
(* timers have a lock each, so that an operation is several steps.  Every  *)
(* change takes a snapshot and writes it to one temporary file, which is   *)
(* then renamed; no lock is held meanwhile.                                *)
(***************************************************************************)
EXTENDS Naturals, FiniteSets, Functions

CONSTANTS
  Nfs,         \* NF instance identities
  Subs,        \* subscription identities, each given out once
  Tasks,       \* requests served at a time
  Loop,        \* the event loop
  Statuses,    \* the nfStatus with which an NF registers itself
  Left,        \* the state files an earlier process may have left
  MaxRequests, \* bound: requests
  MaxRestarts  \* bound: starts of the process after an earlier one

Actors == Tasks \cup {Loop}

ASSUME NrfAssumption ==
  /\ Loop \notin Tasks /\ Nfs \cap Subs = {}
  /\ Statuses \subseteq {"REGISTERED", "SUSPENDED"}
  /\ {MaxRequests, MaxRestarts} \subseteq Nat

VARIABLES
  instances, \* the NFs with a state machine
  profiles,  \* a function on some NFs: their nfStatus
  subs,      \* subscriptions
  timers,    \* NFs and subscriptions with a timer that runs
  queue,     \* events the loop took from the timers and has yet to handle
  act,       \* [Actors -> ...]: where each request and the loop stand
  tmp, file, \* contents of the temporary file and of the state file
  asked,     \* requests so far
  unused,    \* subscription identities not yet given out
  restarts,  \* starts so far of the process after an earlier one
  hist       \* history, for the properties

vars == <<instances, profiles, subs, timers, queue, act, tmp, file, asked, unused,
          restarts, hist>>
memory == <<instances, profiles, subs, timers, queue>>
disk   == <<tmp, file>>
rest   == <<asked, unused, restarts>>

None  == [kind |-> "none"]   \* there is no such file
Blank == [kind |-> "blank"]  \* opened, and nothing written yet
Mixed == [kind |-> "mixed"]  \* a part of a snapshot, or one over the rest of a longer one
Doc(p, s) == [kind |-> "doc", p |-> p, s |-> s]

Idle == [pc |-> "idle"]
Writing == {"snapProfiles", "snapSubs", "open", "fill", "rename"}
Pcs == {"idle", "addInstance", "insert", "arm", "reactivate", "remove", "disarm",
        "addSub", "startTimer", "removeSub", "check", "suspend", "grace"} \cup Writing

Registries == UNION {[N -> {"REGISTERED", "SUSPENDED"}] : N \in SUBSET Nfs}

ASSUME LeftAssumption ==
  /\ Left \subseteq {None} \cup {Doc(p, s) : p \in Registries, s \in SUBSET Subs}
  /\ Left \subseteq {None} \/ MaxRestarts > 0

\* One type invariant.  A timer is of an identity that exists or existed, and
\* an instance without profile is one that a request is about to store.
TypeOK ==
  /\ instances \subseteq Nfs
  /\ profiles \in Registries
  /\ subs \subseteq Subs \ unused /\ unused \subseteq Subs
  /\ timers \subseteq Nfs \cup Subs /\ queue \subseteq Nfs \cup Subs
  /\ \A a \in Actors : act[a].pc \in Pcs
  /\ \A n \in instances \ DOMAIN profiles :
       \E t \in Tasks : act[t].pc = "insert" /\ act[t].id = n
  /\ asked \in 0..MaxRequests /\ restarts \in 0..MaxRestarts

\* What a process loads from the file: one that does not parse is as good as
\* none, and so is one that cannot be read
Loaded(f) == IF f.kind = "doc" THEN f ELSE Doc(<<>>, {})
Loads(f)  == {Loaded(f), Doc(<<>>, {})}

\* The process starts with the file that an earlier one left, if there was one
Init ==
  /\ file \in Left
  /\ profiles = Loaded(file).p /\ instances = DOMAIN profiles /\ subs = Loaded(file).s
  /\ timers = {} /\ queue = {}
  /\ act = [a \in Actors |-> Idle]
  /\ tmp = None
  /\ asked = 0 /\ unused = Subs \ subs
  /\ restarts = IF file = None THEN 0 ELSE 1
  /\ hist = [restored |-> DOMAIN profiles \cup subs, overlap |-> {}, raced |-> FALSE,
             failed |-> FALSE, was |-> [n \in Nfs |-> "none"]]

-----------------------------------------------------------------------------
(* Where an actor goes next                                                *)

At(a, pc) == act[a].pc = pc
Goto(a, pc) == act' = [act EXCEPT ![a].pc = pc]
Done(a) == act' = [act EXCEPT ![a] = Idle]
\* persist(), and after it the rest of the operation
Persist(a, next) == act' = [act EXCEPT ![a].pc = "snapProfiles", ![a].next = next]

\* A request begins.  next, doc, fd and alone are of its writes to the file;
\* alone is history: no other write overlapped this one.
Begin(t, pc, op, id, val) ==
  /\ At(t, "idle") /\ asked < MaxRequests
  /\ asked' = asked + 1
  /\ act' = [act EXCEPT ![t] = [pc |-> pc, op |-> op, id |-> id, val |-> val,
                                next |-> "idle", doc |-> None, fd |-> "gone",
                                alone |-> FALSE]]
  /\ UNCHANGED <<memory, disk, restarts, hist>>

-----------------------------------------------------------------------------
(* Requests                                                                *)

\* handle_nf_register: PUT.  The profile comes with a status of its own.
NfRegister(t, n, v) == Begin(t, "addInstance", "put", n, v) /\ UNCHANGED unused

\* handle_nf_update: PATCH, a heartbeat or the self-suspension of an NF that
\* goes to sleep.  The profile is copied here and stored later, whole.
NfUpdate(t, n, op) ==
  /\ n \in DOMAIN profiles
  /\ Begin(t, "addInstance", op, n, IF op = "sleep" THEN "SUSPENDED" ELSE profiles[n])
  /\ UNCHANGED unused

\* handle_nf_deregister: DELETE
NfDeregister(t, n) == Begin(t, "remove", "delete", n, "") /\ UNCHANGED unused

SubscriptionCreate(t, s) ==
  /\ s \in unused
  /\ Begin(t, "addSub", "subscribe", s, "")
  /\ unused' = unused \ {s}

\* By a subscriber who has had the answer with the identity
SubscriptionDelete(t, s) ==
  /\ s \notin unused
  /\ \A b \in Tasks : act[b].pc # "idle" => act[b].op # "subscribe" \/ act[b].id # s
  /\ Begin(t, "removeSub", "unsubscribe", s, "")
  /\ UNCHANGED unused

\* History: n stored something while an event for it waited
Touched(n) == IF hist.was[n] = "none" THEN hist ELSE [hist EXCEPT !.was[n] = "touched"]

\* add_instance: only if there is none
AddInstance(t) ==
  /\ At(t, "addInstance")
  /\ instances' = instances \cup {act[t].id}
  /\ Goto(t, "insert")
  /\ UNCHANGED <<profiles, subs, timers, queue, disk, rest, hist>>

\* register: the profile is stored, whatever became of the instance
Insert(t) ==
  /\ At(t, "insert")
  /\ LET n == act[t].id IN
     /\ profiles' = [m \in DOMAIN profiles \cup {n} |->
                       IF m = n THEN act[t].val ELSE profiles[m]]
     /\ hist' = Touched(n)
  /\ Persist(t, "arm")
  /\ UNCHANGED <<instances, subs, timers, queue, disk, rest>>

\* arm_heartbeat_timer.  It ends the operation, but for a heartbeat.
Arm(a) ==
  /\ At(a, "arm")
  /\ timers' = timers \cup {act[a].id}
  /\ hist' = IF act[a].id \in instances \cap DOMAIN profiles
             THEN [hist EXCEPT !.restored = @ \ {act[a].id}, !.overlap = @ \ {act[a].id}]
             ELSE hist
  /\ IF act[a].op = "heartbeat" THEN Goto(a, "reactivate") ELSE Done(a)
  /\ UNCHANGED <<instances, profiles, subs, queue, disk, rest>>

\* Mutant: the change is not saved.
BugReactivateUnsaved(t) ==
  /\ At(t, "reactivate")
  /\ LET n == act[t].id IN
     IF n \in DOMAIN profiles
     THEN /\ profiles' = [profiles EXCEPT ![n] = "REGISTERED"]
          /\ hist' = Touched(n)
     ELSE UNCHANGED <<profiles, hist>>
  /\ Done(t)
  /\ UNCHANGED <<instances, subs, timers, queue, disk, rest>>

\* reactivate
Reactivate(t) ==
  /\ At(t, "reactivate")
  /\ LET n == act[t].id IN
     IF n \in DOMAIN profiles /\ profiles[n] = "SUSPENDED"
     THEN /\ profiles' = [profiles EXCEPT ![n] = "REGISTERED"]
          /\ hist' = Touched(n)
          /\ Persist(t, "idle")
     ELSE Done(t) /\ UNCHANGED <<profiles, hist>>
  /\ UNCHANGED <<instances, subs, timers, queue, disk, rest>>

\* Mutant: the instance stays when the profile goes.
BugKeepsInstance(a) ==
  /\ At(a, "remove")
  /\ LET n == act[a].id IN
     IF n \in instances
     THEN /\ UNCHANGED instances
          /\ profiles' = Restrict(profiles, DOMAIN profiles \ {n})
          /\ hist' = [hist EXCEPT !.restored = @ \ {n}, !.overlap =
                        IF \E b \in Actors : At(b, "insert") /\ act[b].id = n
                        THEN @ \cup {n} ELSE @ \ {n}]
          /\ Persist(a, "disarm")
     ELSE /\ IF a = Loop THEN Goto(a, "disarm") ELSE Done(a)
          /\ UNCHANGED <<instances, profiles, hist>>
  /\ UNCHANGED <<subs, timers, queue, disk, rest>>

\* deregister, remove_instance: instance and profile go under the lock of the
\* instances.  The event loop goes on to disarm also when there was nothing
\* to remove, and a request then answers 404.
Remove(a) ==
  /\ At(a, "remove")
  /\ LET n == act[a].id IN
     IF n \in instances
     THEN /\ instances' = instances \ {n}
          /\ profiles' = Restrict(profiles, DOMAIN profiles \ {n})
          /\ hist' = [hist EXCEPT !.restored = @ \ {n}, !.overlap =
                        IF \E b \in Actors : At(b, "insert") /\ act[b].id = n
                        THEN @ \cup {n} ELSE @ \ {n}]
          /\ Persist(a, "disarm")
     ELSE /\ IF a = Loop THEN Goto(a, "disarm") ELSE Done(a)
          /\ UNCHANGED <<instances, profiles, hist>>
  /\ UNCHANGED <<subs, timers, queue, disk, rest>>

\* disarm_heartbeat_timer: whoever armed it
Disarm(a) ==
  /\ At(a, "disarm")
  /\ timers' = timers \ {act[a].id}
  /\ hist' = [hist EXCEPT !.overlap = IF act[a].id \in DOMAIN profiles
                                      THEN @ \cup {act[a].id} ELSE @]
  /\ Done(a)
  /\ UNCHANGED <<instances, profiles, subs, queue, disk, rest>>

AddSub(t) ==
  /\ At(t, "addSub")
  /\ subs' = subs \cup {act[t].id}
  /\ Persist(t, "startTimer")
  /\ UNCHANGED <<instances, profiles, timers, queue, disk, rest, hist>>

\* The validity timer; nothing stops it when the subscription goes
StartTimer(t) ==
  /\ At(t, "startTimer")
  /\ timers' = timers \cup {act[t].id}
  /\ Done(t)
  /\ UNCHANGED <<instances, profiles, subs, queue, disk, rest, hist>>

\* remove_subscription
RemoveSub(a) ==
  /\ At(a, "removeSub")
  /\ IF act[a].id \in subs
     THEN subs' = subs \ {act[a].id} /\ Persist(a, "idle")
     ELSE Done(a) /\ UNCHANGED subs
  /\ UNCHANGED <<instances, profiles, timers, queue, disk, rest, hist>>

-----------------------------------------------------------------------------
(* The event loop                                                          *)

\* get_expired_events: all that have run out, removed under one lock
Tick ==
  /\ At(Loop, "idle") /\ queue = {}
  /\ \E E \in SUBSET timers \ {{}} :
       /\ queue' = E /\ timers' = timers \ E
       /\ hist' = [hist EXCEPT !.was = [n \in Nfs |->
                     IF n \notin E THEN "none"
                     ELSE IF n \in DOMAIN profiles THEN profiles[n] ELSE "gone"]]
  /\ UNCHANGED <<instances, profiles, subs, act, disk, rest>>

\* The next of the events, in the order of a hash map
NextEvent ==
  /\ At(Loop, "idle")
  /\ \E id \in queue :
       /\ queue' = queue \ {id}
       /\ act' = [act EXCEPT ![Loop] =
                    [pc |-> IF id \in Subs THEN "removeSub" ELSE "check", op |-> "event",
                     id |-> id, val |-> "", next |-> "idle", doc |-> None,
                     fd |-> "gone", alone |-> FALSE]]
  /\ UNCHANGED <<instances, profiles, subs, timers, disk, rest, hist>>

\* Mutant: a missed heartbeat deregisters at once.
BugNoGrace ==
  /\ At(Loop, "check")
  /\ Goto(Loop, "remove")
  /\ UNCHANGED <<memory, disk, rest, hist>>

\* is_suspended: the second miss deregisters, the first suspends
Check ==
  /\ At(Loop, "check")
  /\ LET n == act[Loop].id IN
     Goto(Loop, IF n \in DOMAIN profiles /\ profiles[n] = "SUSPENDED"
                THEN "remove" ELSE "suspend")
  /\ UNCHANGED <<memory, disk, rest, hist>>

\* suspend
Suspend ==
  /\ At(Loop, "suspend")
  /\ LET n == act[Loop].id IN
     IF n \in DOMAIN profiles
     THEN profiles' = [profiles EXCEPT ![n] = "SUSPENDED"] /\ Persist(Loop, "grace")
     ELSE Goto(Loop, "grace") /\ UNCHANGED profiles
  /\ UNCHANGED <<instances, subs, timers, queue, disk, rest, hist>>

\* Mutant: no timer for the grace period.
BugForgetsGrace ==
  /\ At(Loop, "grace")
  /\ Done(Loop)
  /\ UNCHANGED <<memory, disk, rest, hist>>

\* The timer of the grace period, if the profile is still there
Grace ==
  /\ At(Loop, "grace")
  /\ IF act[Loop].id \in DOMAIN profiles THEN Goto(Loop, "arm") ELSE Done(Loop)
  /\ UNCHANGED <<memory, disk, rest, hist>>

-----------------------------------------------------------------------------
(* The state file                                                          *)

Resume(a) ==
  IF act[a].next = "idle"
  THEN Idle
  ELSE [act[a] EXCEPT !.pc = act[a].next, !.next = "idle", !.doc = None,
                      !.fd = "gone", !.alone = FALSE]

\* snapshot: the profiles, and then the subscriptions
SnapProfiles(a) ==
  /\ At(a, "snapProfiles")
  /\ LET others == {b \in Actors \ {a} : act[b].pc \in Writing \ {"snapProfiles"}} IN
     act' = [b \in Actors |->
       IF b = a THEN [act[a] EXCEPT !.pc = "snapSubs", !.doc = Doc(profiles, {}),
                                    !.alone = others = {}]
       ELSE IF b \in others THEN [act[b] EXCEPT !.alone = FALSE] ELSE act[b]]
  /\ UNCHANGED <<memory, disk, rest, hist>>

SnapSubs(a) ==
  /\ At(a, "snapSubs")
  /\ act' = [act EXCEPT ![a].pc = "open", ![a].doc.s = subs]
  /\ UNCHANGED <<memory, disk, rest, hist>>

\* fs::write on the one temporary file: open and truncate ...
Open(a) ==
  /\ At(a, "open")
  /\ tmp' = Blank
  /\ act' = [act EXCEPT ![a].pc = "fill", ![a].fd = "tmp"]
  /\ UNCHANGED <<memory, file, rest, hist>>

\* What a write from the start leaves: the length of the two snapshots decides
Overlay(old, new) == IF old = Blank \/ old = new THEN {new} ELSE {new, Mixed}

\* ... and write, to wherever a rename has moved the opened file since
Fill(a) ==
  /\ At(a, "fill")
  /\ \/ /\ act[a].fd = "tmp" /\ tmp' \in Overlay(tmp, act[a].doc) /\ UNCHANGED file
     \/ /\ act[a].fd = "file" /\ file' \in Overlay(file, act[a].doc) /\ UNCHANGED tmp
     \/ /\ act[a].fd = "gone" /\ UNCHANGED disk
  /\ act' = [act EXCEPT ![a].pc = "rename", ![a].doc = None, ![a].fd = "gone"]
  /\ UNCHANGED <<memory, rest, hist>>

\* rename: by name, if no other one has renamed the temporary file
Rename(a) ==
  /\ At(a, "rename") /\ tmp # None
  /\ file' = tmp /\ tmp' = None
  /\ hist' = [hist EXCEPT !.raced = ~act[a].alone, !.failed = FALSE]
  /\ act' = [b \in Actors |->
       IF b = a THEN Resume(a)
       ELSE IF ~At(b, "fill") THEN act[b]
       ELSE [act[b] EXCEPT !.fd = IF @ = "tmp" THEN "file" ELSE "gone"]]
  /\ UNCHANGED <<memory, rest>>

\* Each of these calls may fail, and rename does when the name is gone.  A write
\* that fails may have written a part.  persist logs the error, and the
\* operation goes on.
WriteFails(a) ==
  /\ act[a].pc \in {"open", "fill", "rename"}
  /\ \/ UNCHANGED disk
     \/ At(a, "fill") /\ act[a].fd = "tmp" /\ tmp' = Mixed /\ UNCHANGED file
     \/ At(a, "fill") /\ act[a].fd = "file" /\ file' = Mixed /\ UNCHANGED tmp
  /\ act' = [act EXCEPT ![a] = Resume(a)]
  /\ hist' = [hist EXCEPT !.failed = TRUE]
  /\ UNCHANGED <<memory, rest>>

\* The process ends at any point, and starts with what it can load from the
\* file: load and restore_from.  No timer is started.
Restart ==
  /\ restarts < MaxRestarts
  /\ restarts' = restarts + 1
  /\ \E d \in Loads(file) :
     /\ profiles' = d.p /\ instances' = DOMAIN d.p /\ subs' = d.s
     /\ hist' = [restored |-> DOMAIN d.p \cup d.s, overlap |-> {},
                 raced |-> file.kind \in {"blank", "mixed"},
                 failed |-> d # Loaded(file),
                 was |-> [n \in Nfs |-> "none"]]
  /\ timers' = {} /\ queue' = {} /\ act' = [a \in Actors |-> Idle]
  /\ UNCHANGED <<disk, asked, unused>>

-----------------------------------------------------------------------------
Write(a) == \/ SnapProfiles(a) \/ SnapSubs(a) \/ Open(a) \/ Fill(a) \/ Rename(a)
            \/ WriteFails(a)

Step(t) ==
  \/ AddInstance(t) \/ Insert(t) \/ Arm(t) \/ Reactivate(t) \/ Remove(t) \/ Disarm(t)
  \/ AddSub(t) \/ StartTimer(t) \/ RemoveSub(t) \/ Write(t)

LoopStep ==
  \/ Tick \/ NextEvent \/ Check \/ Suspend \/ Grace
  \/ Arm(Loop) \/ Remove(Loop) \/ Disarm(Loop) \/ RemoveSub(Loop) \/ Write(Loop)

Request(t) ==
  \/ \E n \in Nfs : \/ \E v \in Statuses : NfRegister(t, n, v)
                    \/ \E op \in {"heartbeat", "sleep"} : NfUpdate(t, n, op)
                    \/ NfDeregister(t, n)
  \/ \E s \in Subs : SubscriptionCreate(t, s) \/ SubscriptionDelete(t, s)

Next == \/ \E t \in Tasks : Request(t) \/ Step(t)
        \/ LoopStep
        \/ Restart

Spec == Init /\ [][Next]_vars

-----------------------------------------------------------------------------
(* Properties                                                              *)

Quiet == \A a \in Actors : At(a, "idle")

\* The file is a whole snapshot or none at any moment at which the process may
\* end, whichever call of a write fails, and between requests it holds the
\* registry.  The exceptions: the write that last took the name overlapped
\* another one (persist holds no lock, and has one temporary file), and for the
\* second part the last write or the loading failed (persist and load log it).
SavedWhenQuiet ==
  ~hist.raced =>
    /\ file.kind \in {"none", "doc"}
    /\ Quiet /\ ~hist.failed => Loaded(file) = Doc(profiles, subs)

\* A timer event deregisters only an NF that was SUSPENDED already when that
\* timer ran out: a missed heartbeat alone does not, however the handling of
\* the event is delayed, unless the NF itself stored a profile meanwhile.
GraceGiven ==
  [][\A n \in Nfs :
       n \in instances /\ n \notin instances' /\ At(Loop, "remove")
         /\ act'[Loop].pc = "snapProfiles"
       => hist.was[n] \in {"SUSPENDED", "touched"}]_vars

\* An actor that is going to start or to look after the timer of id
InHand(id) ==
  \E a \in Actors :
    /\ act[a].pc # "idle" /\ act[a].id = id
    /\ \/ act[a].next \in {"arm", "startTimer", "grace"}
       \/ act[a].pc \in {"arm", "startTimer", "check", "suspend", "grace", "remove",
                         "removeSub"}

\* Nothing stays for ever by itself: a profile or subscription has a timer, or
\* an event waits for it, or somebody who starts one has it in hand, and a
\* profile has the instance without which it cannot be deregistered.  The
\* exceptions are what a restart restored and has not heard of since, and NFs
\* whose removal overlapped a store of the same NF.
Supervised ==
  /\ \A id \in (DOMAIN profiles \cup subs) \ (hist.restored \cup hist.overlap) :
       id \in timers \cup queue \/ InHand(id)
  /\ DOMAIN profiles \subseteq instances \cup hist.overlap
=============================================================================
