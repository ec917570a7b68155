-------------------------- MODULE N4SessionProofs --------------------------
(***************************************************************************)
(* More proofs about N4.  First the data plane, for any number of SMFs:    *)
(* its tables follow the PFCP server's session table through the event     *)
(* channel.  Then what holds when the UPF serves one SMF.                  *)
(***************************************************************************)
EXTENDS N4Proofs, FiniteSetTheorems

-----------------------------------------------------------------------------
(* The data plane behind its event channel.                                *)

(***************************************************************************)
(* e decides whether the data plane has a session with SEID k.             *)
(***************************************************************************)
Concerns(e, k) ==
    \/ e.kind = "peerFailure"
    \/ e.kind \in {"established", "deleted"} /\ e.seid = k

LastWord(i, k) ==
    /\ Concerns(events[i], k)
    /\ \A j \in 1 .. Len(events) : i < j => ~Concerns(events[j], k)

(***************************************************************************)
(* The SEIDs that were announced and not taken back: the sessions, and     *)
(* those that were deleted without a word.                                 *)
(***************************************************************************)
Told == DOMAIN sess \cup untold

(***************************************************************************)
(* The last event about a SEID says whether it is in Told and with which   *)
(* UE address; a SEID without an event under way has in the data plane     *)
(* what it has there.                                                      *)
(***************************************************************************)
Announced ==
    \A i \in 1 .. Len(events), k \in Nat :
        LastWord(i, k) =>
            IF events[i].kind = "established"
            THEN k \in Told /\ (k \in DOMAIN sess => sess[k].ref = events[i].ue)
            ELSE k \notin Told

Shown ==
    \A k \in Nat :
        (\A i \in 1 .. Len(events) : ~Concerns(events[i], k)) =>
            /\ k \in DOMAIN dp <=> k \in Told
            /\ k \in DOMAIN sess => dp[k] = sess[k].ref

(***************************************************************************)
(* A SEID that was deleted without a word is not issued again.             *)
(***************************************************************************)
Buried == \A k \in untold : k < nextSeid /\ k \notin DOMAIN sess

(***************************************************************************)
(* A SEID is announced as established once in an incarnation of the UPF.   *)
(***************************************************************************)
EstablishedOnce ==
    /\ \A k \in DOMAIN dp : k < nextSeid
    /\ \A i \in 1 .. Len(events) :
          events[i].kind = "established" =>
              events[i].seid < nextSeid /\ events[i].seid \notin DOMAIN dp
    /\ \A i, j \in 1 .. Len(events) :
          /\ events[i].kind = "established"
          /\ events[j].kind = "established"
          /\ events[i].seid = events[j].seid
          => i = j

DataPlaneInv ==
    Announced /\ Shown /\ Buried /\ EstablishedOnce /\ IpIndexSound

(***************************************************************************)
(* A channel with one more event at its end.                               *)
(***************************************************************************)
LEMMA AppendedChannel ==
    ASSUME events \in Seq(Event), NEW e \in Event, events' = Append(events, e)
    PROVE  /\ Len(events) \in Nat
           /\ Len(events') = Len(events) + 1
           /\ events'[Len(events) + 1] = e
           /\ \A i \in 1 .. Len(events) : events'[i] = events[i]
OBVIOUS

(***************************************************************************)
(* A channel whose first event was taken out.                              *)
(***************************************************************************)
LEMMA TailChannel ==
    ASSUME events \in Seq(Event), events # <<>>, events' = Tail(events)
    PROVE  /\ Len(events) \in Nat \ {0}
           /\ Len(events') = Len(events) - 1
           /\ Head(events) = events[1]
           /\ Head(events) \in Event
           /\ \A i \in 1 .. Len(events') : i + 1 \in 1 .. Len(events) /\ events'[i] = events[i + 1]
OBVIOUS

(***************************************************************************)
(* The event e tells the data plane what the step did to the sessions.     *)
(***************************************************************************)
Tells(e) ==
    \A k \in Nat :
        IF Concerns(e, k)
        THEN IF e.kind = "established"
             THEN k \in DOMAIN sess' /\ sess'[k].ref = e.ue
             ELSE k \notin Told'
        ELSE /\ k \in Told' <=> k \in Told
             /\ k \in DOMAIN sess' => k \in DOMAIN sess /\ sess'[k] = sess[k]

LEMMA ToldChannel ==
    ASSUME events \in Seq(Event), Announced, Shown,
           NEW e \in Event, events' = Append(events, e), Tells(e), dp' = dp
    PROVE  Announced' /\ Shown'
<1> DEFINE n == Len(events)
<1>1. /\ n \in Nat /\ Len(events') = n + 1 /\ events'[n + 1] = e
      /\ \A i \in 1 .. n : events'[i] = events[i]
  BY AppendedChannel
<1> HIDE DEF n
<1>2. n = Len(events)
  BY DEF n
<1>3. Announced'
  <2> SUFFICES ASSUME NEW i \in 1 .. n + 1, NEW k \in Nat, Concerns(events'[i], k),
                      \A j \in 1 .. n + 1 : i < j => ~Concerns(events'[j], k)
               PROVE  IF events'[i].kind = "established"
                      THEN /\ k \in Told'
                           /\ k \in DOMAIN sess' => sess'[k].ref = events'[i].ue
                      ELSE k \notin Told'
    BY <1>1, Zenon DEF Announced, LastWord
  <2>1. CASE i = n + 1
    BY <1>1, <2>1, Zenon DEF Tells, Told
  <2>2. CASE i \in 1 .. n
    <3>1. events'[i] = events[i]
      BY <1>1, <2>2
    <3>2. n + 1 \in 1 .. n + 1 /\ i < n + 1
      BY <1>1, <2>2
    <3>3. ~Concerns(e, k)
      BY <1>1, <3>2
    <3>4. \A j \in 1 .. n : i < j => ~Concerns(events[j], k)
      BY <1>1
    <3>5. LastWord(i, k)
      BY <1>2, <3>1, <3>4 DEF LastWord
    <3>6. IF events[i].kind = "established"
          THEN k \in Told /\ (k \in DOMAIN sess => sess[k].ref = events[i].ue)
          ELSE k \notin Told
      BY <1>2, <2>2, <3>5, Zenon DEF Announced
    <3> QED BY <3>1, <3>3, <3>6 DEF Tells
  <2> QED BY <1>1, <2>1, <2>2
<1>4. Shown'
  <2> SUFFICES ASSUME NEW k \in Nat, \A i \in 1 .. n + 1 : ~Concerns(events'[i], k)
               PROVE  /\ k \in DOMAIN dp <=> k \in Told'
                      /\ k \in DOMAIN sess' => dp[k] = sess'[k].ref
    BY <1>1, Zenon DEF Shown
  <2>1. ~Concerns(e, k)
    BY <1>1
  <2>2. \A i \in 1 .. n : ~Concerns(events[i], k)
    BY <1>1
  <2>3. /\ k \in DOMAIN dp <=> k \in Told
        /\ k \in DOMAIN sess => dp[k] = sess[k].ref
    BY <1>2, <2>2, Zenon DEF Shown
  <2> QED BY <2>1, <2>3 DEF Tells
<1> QED BY <1>3, <1>4

(***************************************************************************)
(* An announcement of a SEID that was not used yet, or no announcement.    *)
(***************************************************************************)
LEMMA OnceChannel ==
    ASSUME events \in Seq(Event), EstablishedOnce, dp' = dp,
           nextSeid \in Nat, DOMAIN dp \subseteq Nat,
           NEW e \in Event, events' = Append(events, e),
           \/ e.kind # "established" /\ nextSeid' = nextSeid
           \/ e.seid = nextSeid /\ nextSeid' = nextSeid + 1
    PROVE  EstablishedOnce'
<1> DEFINE n == Len(events)
<1>1. /\ n \in Nat /\ Len(events') = n + 1 /\ events'[n + 1] = e
      /\ \A i \in 1 .. n : events'[i] = events[i] /\ events[i] \in Event
  BY AppendedChannel
<1> HIDE DEF n
<1>2. n = Len(events)
  BY DEF n
<1>3. \A i \in 1 .. n + 1 : i \in 1 .. n \/ i = n + 1
  BY <1>1
<1>4. \A i \in 1 .. n + 1 : events'[i].seid \in Nat
  BY <1>1, <1>3 DEF Event
<1>5. \A k \in Nat : k < nextSeid => k < nextSeid'
  OBVIOUS
<1>6. \A k \in DOMAIN dp' : k < nextSeid'
  BY <1>5 DEF EstablishedOnce
<1>7. ASSUME NEW i \in 1 .. n + 1, events'[i].kind = "established"
      PROVE  events'[i].seid < nextSeid' /\ events'[i].seid \notin DOMAIN dp
  <2>1. CASE i \in 1 .. n
    BY <1>1, <1>2, <1>4, <1>5, <1>7, <2>1 DEF EstablishedOnce
  <2>2. CASE i = n + 1
    <3>1. e.seid = nextSeid /\ nextSeid' = nextSeid + 1 /\ events'[i] = e
      BY <1>1, <1>7, <2>2
    <3>2. nextSeid \notin DOMAIN dp
      BY DEF EstablishedOnce
    <3> QED BY <3>1, <3>2
  <2> QED BY <1>3, <2>1, <2>2
<1>8. ASSUME NEW i \in 1 .. n + 1, NEW j \in 1 .. n + 1,
             events'[i].kind = "established", events'[j].kind = "established",
             events'[i].seid = events'[j].seid
      PROVE  i = j
  <2>1. ASSUME NEW x \in 1 .. n, events'[x].kind = "established"
        PROVE  events'[x].seid < nextSeid /\ events'[x].seid \in Nat
    BY <1>1, <1>2, <1>4, <2>1 DEF EstablishedOnce
  <2>2. e.kind = "established" => e.seid = nextSeid
    OBVIOUS
  <2>3. CASE i \in 1 .. n /\ j \in 1 .. n
    BY <1>1, <1>2, <1>8, <2>3 DEF EstablishedOnce
  <2>4. CASE i = n + 1 /\ j \in 1 .. n
    BY <1>1, <1>8, <2>1, <2>2, <2>4
  <2>5. CASE i \in 1 .. n /\ j = n + 1
    BY <1>1, <1>8, <2>1, <2>2, <2>5
  <2> QED BY <1>3, <2>3, <2>4, <2>5
<1> QED BY <1>1, <1>6, <1>7, <1>8, Zenon DEF EstablishedOnce

(***************************************************************************)
(* The data plane takes the first event: what is left still says the       *)
(* truth, and a SEID it was the last event about is up to date.            *)
(***************************************************************************)
LEMMA TakenChannel ==
    ASSUME TypeOK, DataPlaneInv, HandleSessionEvent
    PROVE  Announced' /\ Shown'
<1> DEFINE e == Head(events)
           n == Len(events')
<1>1. /\ events \in Seq(Event) /\ events # <<>> /\ events' = Tail(events)
      /\ sess' = sess /\ Told' = Told
  BY DEF TypeOK, PfcpServerTypeOK, HandleSessionEvent, Told
<1>2. /\ n \in Nat /\ Len(events) = n + 1 /\ e = events[1] /\ e \in Event
      /\ \A i \in 1 .. n : i + 1 \in 1 .. n + 1 /\ events'[i] = events[i + 1]
  BY <1>1, TailChannel
<1>3. \A j \in 1 .. n + 1 : j = 1 \/ (j - 1 \in 1 .. n /\ (j - 1) + 1 = j)
  BY <1>2
<1>4. n = Len(events')
  OBVIOUS
<1> HIDE DEF n
<1>5. Announced'
  <2> SUFFICES ASSUME NEW i \in 1 .. n, NEW k \in Nat, Concerns(events'[i], k),
                      \A j \in 1 .. n : i < j => ~Concerns(events'[j], k)
               PROVE  IF events'[i].kind = "established"
                      THEN k \in Told /\ (k \in DOMAIN sess => sess[k].ref = events'[i].ue)
                      ELSE k \notin Told
    BY <1>1, <1>4, Zenon DEF Announced, LastWord
  <2>1. ASSUME NEW j \in 1 .. n + 1, i + 1 < j
        PROVE  ~Concerns(events[j], k)
    <3>1. j - 1 \in 1 .. n /\ i < j - 1 /\ (j - 1) + 1 = j
      BY <1>2, <2>1
    <3>2. events'[j - 1] = events[j]
      BY <1>2, <3>1
    <3>3. ~Concerns(events'[j - 1], k)
      BY <3>1
    <3> QED BY <3>2, <3>3
  <2>2. i + 1 \in 1 .. n + 1 /\ events'[i] = events[i + 1]
    BY <1>2
  <2>3. LastWord(i + 1, k)
    BY <1>2, <2>1, <2>2 DEF LastWord
  <2> QED BY <1>2, <2>2, <2>3 DEF DataPlaneInv, Announced
<1>6. Shown'
  <2> SUFFICES ASSUME NEW k \in Nat, \A i \in 1 .. n : ~Concerns(events'[i], k)
               PROVE  /\ k \in DOMAIN dp' <=> k \in Told
                      /\ k \in DOMAIN sess => dp'[k] = sess[k].ref
    BY <1>1, <1>4, Zenon DEF Shown
  <2>1. \A j \in 1 .. n + 1 : j = 1 \/ ~Concerns(events[j], k)
    BY <1>2, <1>3
  <2>2. CASE Concerns(e, k)
    <3>1. LastWord(1, k)
      BY <1>2, <2>1, <2>2 DEF LastWord
    <3>2. IF e.kind = "established"
          THEN k \in Told /\ (k \in DOMAIN sess => sess[k].ref = e.ue)
          ELSE k \notin Told
      BY <1>2, <3>1 DEF DataPlaneInv, Announced
    <3> k \in DOMAIN sess => k \in Told
      BY DEF Told
    <3>3. CASE e.kind = "established"
      <4>1. dp' = Put(dp, k, e.ue)
        BY <2>2, <3>3 DEF HandleSessionEvent, AddSession, Concerns
      <4> QED BY <3>2, <3>3, <4>1 DEF Put
    <3>4. CASE e.kind = "deleted" /\ k \in DOMAIN dp
      <4>1. dp' = Without(dp, k)
        BY <2>2, <3>4 DEF HandleSessionEvent, RemoveSession, Concerns
      <4> QED BY <3>2, <3>4, <4>1 DEF Without
    <3>5. CASE e.kind = "deleted" /\ k \notin DOMAIN dp
      <4>1. dp' = dp
        BY <2>2, <3>5 DEF HandleSessionEvent, Concerns
      <4> QED BY <3>2, <3>5, <4>1
    <3>6. CASE e.kind = "peerFailure"
      <4>1. dp' = Nothing
        BY <3>6 DEF HandleSessionEvent
      <4> QED BY <3>2, <3>6, <4>1 DEF Nothing
    <3> QED BY <2>2, <3>3, <3>4, <3>5, <3>6 DEF Concerns
  <2>3. CASE ~Concerns(e, k)
    <3> k \in DOMAIN sess => k \in Told
      BY DEF Told
    <3>1. /\ k \in DOMAIN dp <=> k \in Told
          /\ k \in DOMAIN sess => dp[k] = sess[k].ref
      BY <1>2, <2>1, <2>3 DEF DataPlaneInv, Shown
    <3>2. (k \in DOMAIN dp' <=> k \in DOMAIN dp) /\ (k \in DOMAIN dp => dp'[k] = dp[k])
      <4>1. CASE e.kind = "established"
        <5>1. dp' = Put(dp, e.seid, e.ue) /\ e.seid # k
          BY <2>3, <4>1 DEF HandleSessionEvent, AddSession, Concerns
        <5> QED BY <5>1 DEF Put
      <4>2. CASE e.kind = "deleted" /\ e.seid \in DOMAIN dp
        <5>1. dp' = Without(dp, e.seid) /\ e.seid # k
          BY <2>3, <4>2 DEF HandleSessionEvent, RemoveSession, Concerns
        <5> QED BY <5>1 DEF Without
      <4>3. CASE e.kind = "modified" \/ (e.kind = "deleted" /\ e.seid \notin DOMAIN dp)
        BY <4>3 DEF HandleSessionEvent
      <4> QED BY <1>2, <2>3, <4>1, <4>2, <4>3 DEF Concerns, Event
    <3> QED BY <3>1, <3>2
  <2> QED BY <2>2, <2>3
<1> QED BY <1>5, <1>6

LEMMA TakenOnce ==
    ASSUME TypeOK, DataPlaneInv, HandleSessionEvent
    PROVE  EstablishedOnce'
<1> DEFINE e == Head(events)
           n == Len(events')
<1>1. events \in Seq(Event) /\ events # <<>> /\ events' = Tail(events) /\ nextSeid' = nextSeid
  BY DEF TypeOK, PfcpServerTypeOK, HandleSessionEvent
<1>2. /\ n \in Nat /\ Len(events) = n + 1 /\ e = events[1] /\ e \in Event
      /\ \A i \in 1 .. n : i + 1 \in 1 .. n + 1 /\ events'[i] = events[i + 1]
  BY <1>1, TailChannel
<1>3. n = Len(events')
  OBVIOUS
<1> HIDE DEF n
<1>4. 1 \in 1 .. n + 1 /\ \A i \in 1 .. n : i + 1 # 1
  BY <1>2
<1>5. \/ DOMAIN dp' = DOMAIN dp \cup {e.seid} /\ e.kind = "established"
      \/ DOMAIN dp' \subseteq DOMAIN dp
  BY DEF HandleSessionEvent, AddSession, RemoveSession, Put, Without, Nothing
<1>6. EstablishedOnce
  BY DEF DataPlaneInv
<1>7. \A k \in DOMAIN dp' : k < nextSeid'
  BY <1>1, <1>2, <1>4, <1>5, <1>6 DEF EstablishedOnce
<1>8. ASSUME NEW i \in 1 .. n, events'[i].kind = "established"
      PROVE  events'[i].seid < nextSeid' /\ events'[i].seid \notin DOMAIN dp'
  <2>1. i + 1 \in 1 .. n + 1 /\ events'[i] = events[i + 1] /\ i + 1 # 1
    BY <1>2, <1>4
  <2>2. events'[i].seid < nextSeid /\ events'[i].seid \notin DOMAIN dp
    BY <1>2, <1>6, <1>8, <2>1 DEF EstablishedOnce
  <2>3. e.kind = "established" => events'[i].seid # e.seid
    BY <1>2, <1>4, <1>6, <1>8, <2>1 DEF EstablishedOnce
  <2> QED BY <1>1, <1>5, <2>2, <2>3
<1>9. ASSUME NEW i \in 1 .. n, NEW j \in 1 .. n,
             events'[i].kind = "established", events'[j].kind = "established",
             events'[i].seid = events'[j].seid
      PROVE  i = j
  <2>1. /\ i + 1 \in 1 .. n + 1 /\ events'[i] = events[i + 1]
        /\ j + 1 \in 1 .. n + 1 /\ events'[j] = events[j + 1]
    BY <1>2
  <2>2. i + 1 = j + 1
    BY <1>2, <1>6, <1>9, <2>1 DEF EstablishedOnce
  <2> QED BY <2>2
<1> QED BY <1>3, <1>7, <1>8, <1>9, Zenon DEF EstablishedOnce

(***************************************************************************)
(* The UE address index follows: an announced SEID is new, so adding its   *)
(* session takes no SEID from another UE; and when every session goes, so  *)
(* does every address.                                                     *)
(***************************************************************************)
LEMMA TakenIpIndex ==
    ASSUME TypeOK, DataPlaneInv, HandleSessionEvent
    PROVE  IpIndexSound'
<1> DEFINE e == Head(events)
<1>1. events \in Seq(Event) /\ events # <<>> /\ events' = Tail(events)
  BY DEF TypeOK, PfcpServerTypeOK, HandleSessionEvent
<1>2. e = events[1] /\ 1 \in 1 .. Len(events)
  BY <1>1, TailChannel
<1>3. IpIndexSound
  BY DEF DataPlaneInv
<1>4. CASE e.kind = "established"
  <2>1. dp' = Put(dp, e.seid, e.ue) /\ ueIp' = Put(ueIp, e.ue, e.seid)
    BY <1>4 DEF HandleSessionEvent, AddSession
  <2>2. e.seid \notin DOMAIN dp
    BY <1>2, <1>4 DEF DataPlaneInv, EstablishedOnce
  <2> QED BY <1>3, <2>1, <2>2 DEF IpIndexSound, Put
<1>5. CASE e.kind = "modified" /\ e.tun /\ e.seid \in DOMAIN dp
  <2>1. dp' = dp /\ ueIp' = Put(ueIp, dp[e.seid], e.seid)
    BY <1>5 DEF HandleSessionEvent
  <2> QED BY <1>3, <1>5, <2>1 DEF IpIndexSound, Put
<1>6. CASE e.kind = "deleted" /\ e.seid \in DOMAIN dp
  <2>1. dp' = Without(dp, e.seid) /\ ueIp' = Without(ueIp, dp[e.seid])
    BY <1>6 DEF HandleSessionEvent, RemoveSession
  <2> QED BY <1>3, <1>6, <2>1 DEF IpIndexSound, Without
<1>7. CASE e.kind = "peerFailure"
  <2>1. ueIp' = [u \in {v \in DOMAIN ueIp : \A k \in DOMAIN dp : dp[k] # v} |-> ueIp[u]]
    BY <1>7 DEF HandleSessionEvent
  <2>2. DOMAIN ueIp' = {}
    BY <1>3, <2>1 DEF IpIndexSound
  <2> QED BY <2>2 DEF IpIndexSound
<1>8. CASE /\ e.kind # "established"
           /\ ~(e.kind = "modified" /\ e.tun /\ e.seid \in DOMAIN dp)
           /\ ~(e.kind = "deleted" /\ e.seid \in DOMAIN dp)
           /\ e.kind # "peerFailure"
  <2>1. UNCHANGED <<dp, ueIp>>
    BY <1>8 DEF HandleSessionEvent
  <2> QED BY <1>3, <2>1 DEF IpIndexSound
<1> QED BY <1>4, <1>5, <1>6, <1>7, <1>8

(***************************************************************************)
(* The handlers of the server loop tell the data plane what they do.       *)
(***************************************************************************)
AnEvent(kind, k, r, t) == [kind |-> kind, seid |-> k, ue |-> r, tun |-> t]

(***************************************************************************)
(* Nothing that the data plane has been told changes.                      *)
(***************************************************************************)
Quiet ==
    /\ Told' = Told
    /\ \A k \in DOMAIN sess' : k \in DOMAIN sess /\ sess'[k] = sess[k]
    /\ Buried'
    /\ nextSeid' \in {nextSeid, nextSeid + 1}
    /\ UNCHANGED <<events, dp, ueIp>>

Announces(e) ==
    /\ e \in Event
    /\ events' = Append(events, e)
    /\ Tells(e)
    /\ Buried'
    /\ \/ e.kind # "established" /\ nextSeid' = nextSeid
       \/ e.seid = nextSeid /\ nextSeid' = nextSeid + 1
    /\ UNCHANGED <<dp, ueIp>>

LEMMA PeerFailureAnnounces ==
    ASSUME sess' = Nothing, events' = Emit("peerFailure", 0, NoRef, FALSE), untold' = {},
           UNCHANGED <<nextSeid, dp, ueIp>>
    PROVE  \E e : Announces(e)
<1> DEFINE e == AnEvent("peerFailure", 0, NoRef, FALSE)
<1>1. e \in Event /\ events' = Append(events, e) /\ e.kind = "peerFailure"
  BY DEF Event, AnEvent, Emit
<1>2. Tells(e) /\ Buried'
  BY <1>1 DEF Tells, Told, Buried, Concerns, Nothing
<1> QED BY <1>1, <1>2 DEF Announces

LEMMA NothingTold ==
    ASSUME Buried, UNCHANGED <<sess, untold, events, dp, ueIp>>, nextSeid \in Nat,
           untold \subseteq Nat, nextSeid' \in {nextSeid, nextSeid + 1}
    PROVE  Quiet
BY DEF Quiet, Told, Buried

LEMMA CheckPeerRecoveryAnnounces ==
    ASSUME Buried, nextSeid \in Nat, untold \subseteq Nat,
           NEW s, NEW rts, CheckPeerRecovery(s, rts), UNCHANGED <<nextSeid, dp, ueIp>>
    PROVE  Quiet \/ \E e : Announces(e)
BY PeerFailureAnnounces, NothingTold DEF CheckPeerRecovery, PeerFailure

LEMMA ServerAnnounces ==
    ASSUME TypeOK, EstNamesContext, SeidInv, Buried, ServerLoop
    PROVE  Quiet \/ \E e : Announces(e)
<1>1. nextSeid \in Nat /\ untold \subseteq Nat /\ \A m \in net : m \in Datagram
  BY DEF TypeOK, PfcpServerTypeOK
<1>2. CASE HandleHeartbeatRequest \/ HandleHeartbeatResponse
  BY <1>1, <1>2, CheckPeerRecoveryAnnounces DEF HandleHeartbeatRequest, HandleHeartbeatResponse
<1>3. CASE HandleAssociationSetupRequest
  BY <1>1, <1>3, PeerFailureAnnounces, NothingTold DEF HandleAssociationSetupRequest
<1>4. CASE HandleAssociationReleaseRequest
  BY <1>1, <1>4, PeerFailureAnnounces, NothingTold DEF HandleAssociationReleaseRequest, PeerFailure
<1>5. CASE HandleSessionEstablishmentRequest
  <2>1. PICK m \in net :
            /\ m.kind = "EstReq"
            /\ nextSeid' \in {nextSeid, nextSeid + 1}
            /\ \/ UNCHANGED <<sess, events>>
               \/ /\ sess' = Put(sess, nextSeid, [smf |-> m.smf, ref |-> m.ref])
                  /\ nextSeid' = nextSeid + 1
                  /\ events' = Emit("established", nextSeid, m.ref, FALSE)
            /\ UNCHANGED <<dp, ueIp, untold>>
    BY <1>5 DEF HandleSessionEstablishmentRequest, Receive
  <2>2. CASE UNCHANGED <<sess, events>>
    BY <1>1, <2>1, <2>2, NothingTold
  <2>3. CASE /\ sess' = Put(sess, nextSeid, [smf |-> m.smf, ref |-> m.ref])
             /\ nextSeid' = nextSeid + 1
             /\ events' = Emit("established", nextSeid, m.ref, FALSE)
    <3> DEFINE e == AnEvent("established", nextSeid, m.ref, FALSE)
    <3>1. m.ref \in Ref
      BY <2>1 DEF EstNamesContext
    <3>2. /\ e \in Event /\ events' = Append(events, e)
          /\ e.kind = "established" /\ e.seid = nextSeid /\ e.ue = m.ref
      BY <1>1, <2>3, <3>1 DEF Event, AnEvent, Emit
    <3> HIDE DEF e
    <3>3. Tells(e)
      BY <2>1, <2>3, <3>2 DEF Tells, Told, Concerns, Put
    <3>4. Buried'
      BY <1>1, <2>1, <2>3 DEF Buried, Put
    <3> QED BY <2>1, <2>3, <3>2, <3>3, <3>4 DEF Announces
  <2> QED BY <2>1, <2>2, <2>3
<1>6. CASE HandleSessionModificationRequest
  <2>1. PICK m \in net :
            /\ events' = events \/ events' = Emit("modified", m.seid, NoRef, m.tun)
            /\ UNCHANGED <<sess, nextSeid, dp, ueIp, untold>>
    BY <1>6 DEF HandleSessionModificationRequest
  <2>2. CASE events' = events
    BY <1>1, <2>1, <2>2, NothingTold
  <2>3. CASE events' = Emit("modified", m.seid, NoRef, m.tun)
    <3> DEFINE e == AnEvent("modified", m.seid, NoRef, m.tun)
    <3>1. m.seid \in Nat /\ m.tun \in BOOLEAN
      BY <1>1 DEF Datagram
    <3>2. e \in Event /\ events' = Append(events, e) /\ e.kind = "modified"
      BY <2>3, <3>1 DEF Event, AnEvent, Emit
    <3> HIDE DEF e
    <3>3. Tells(e) /\ Buried'
      BY <2>1, <3>2 DEF Tells, Told, Buried, Concerns
    <3> QED BY <2>1, <3>2, <3>3 DEF Announces
  <2> QED BY <2>1, <2>2, <2>3
<1>7. CASE HandleSessionDeletionRequest
  <2>1. PICK m \in net :
            /\ \/ UNCHANGED <<sess, events, untold>>
               \/ /\ m.seid \in DOMAIN sess
                  /\ sess' = Without(sess, m.seid)
                  /\ \/ /\ events' = Emit("deleted", m.seid, NoRef, FALSE)
                        /\ untold' = untold
                     \/ /\ events' = events
                        /\ untold' = untold \cup {m.seid}
            /\ UNCHANGED <<nextSeid, dp, ueIp>>
    BY <1>7 DEF HandleSessionDeletionRequest
  <2>2. CASE UNCHANGED <<sess, events, untold>>
    BY <1>1, <2>1, <2>2, NothingTold
  <2>3. CASE /\ m.seid \in DOMAIN sess
             /\ sess' = Without(sess, m.seid)
             /\ events' = Emit("deleted", m.seid, NoRef, FALSE)
             /\ untold' = untold
    <3> DEFINE e == AnEvent("deleted", m.seid, NoRef, FALSE)
    <3>1. m.seid \in Nat
      BY <1>1 DEF Datagram
    <3>2. e \in Event /\ events' = Append(events, e) /\ e.kind = "deleted" /\ e.seid = m.seid
      BY <2>3, <3>1 DEF Event, AnEvent, Emit
    <3> HIDE DEF e
    <3>3. Tells(e)
      BY <2>3, <3>2 DEF Tells, Told, Buried, Concerns, Without
    <3>4. Buried'
      BY <2>1, <2>3 DEF Buried, Without
    <3> QED BY <2>1, <3>2, <3>3, <3>4 DEF Announces
  <2>4. CASE /\ m.seid \in DOMAIN sess
             /\ sess' = Without(sess, m.seid)
             /\ events' = events
             /\ untold' = untold \cup {m.seid}
    <3>1. m.seid < nextSeid
      BY <2>4 DEF SeidInv
    <3>2. Buried'
      BY <2>1, <2>4, <3>1 DEF Buried, Without
    <3> QED BY <2>1, <2>4, <3>2 DEF Quiet, Told, Without
  <2> QED BY <2>1, <2>2, <2>3, <2>4
<1> QED BY <1>2, <1>3, <1>4, <1>5, <1>6, <1>7 DEF ServerLoop

LEMMA DataPlaneInit == Init => DataPlaneInv
BY DEF Init, PfcpServerInit, DataPlaneInv, Announced, Shown, Told, Buried, EstablishedOnce,
   IpIndexSound, LastWord, Concerns, Nothing

(***************************************************************************)
(* A step that the data plane is rightly not told of.                      *)
(***************************************************************************)
LEMMA QuietStep ==
    ASSUME TypeOK, DataPlaneInv, Quiet
    PROVE  DataPlaneInv'
<1>1. events \in Seq(Event) /\ nextSeid \in Nat /\ DOMAIN dp \subseteq Nat
  BY DEF TypeOK, PfcpServerTypeOK, IsPartialMap
<1>2. \A i \in 1 .. Len(events) : events[i].seid \in Nat
  BY <1>1 DEF Event
<1>3. \A k \in Nat : k < nextSeid => k < nextSeid'
  BY <1>1 DEF Quiet
<1>4. EstablishedOnce'
  BY <1>1, <1>2, <1>3 DEF Quiet, DataPlaneInv, EstablishedOnce
<1>5. Announced' /\ Shown'
  BY DEF Quiet, DataPlaneInv, Announced, Shown, LastWord
<1> QED BY <1>4, <1>5 DEF Quiet, DataPlaneInv, IpIndexSound

LEMMA DataPlaneNext ==
    ASSUME IInv, DataPlaneInv, [Next]_vars
    PROVE  DataPlaneInv'
<1>1. /\ TypeOK /\ EstNamesContext /\ SeidInv /\ Buried /\ events \in Seq(Event)
      /\ nextSeid \in Nat /\ DOMAIN dp \subseteq Nat /\ untold \subseteq Nat
  BY DEF IInv, CorrelationInv, TypeOK, PfcpServerTypeOK, IsPartialMap, DataPlaneInv
<1>2. CASE Quiet
  BY <1>1, <1>2, QuietStep
<1>3. CASE ServerLoop
  <2>1. ASSUME NEW e, Announces(e)
        PROVE  DataPlaneInv'
    <3>1. Announced' /\ Shown'
      BY <1>1, <2>1, ToldChannel DEF Announces, DataPlaneInv
    <3>2. EstablishedOnce'
      BY <1>1, <2>1, OnceChannel DEF Announces, DataPlaneInv
    <3>3. Buried' /\ IpIndexSound'
      BY <2>1 DEF Announces, DataPlaneInv, IpIndexSound
    <3> QED BY <3>1, <3>2, <3>3 DEF DataPlaneInv
  <2> QED BY <1>1, <1>2, <1>3, <2>1, ServerAnnounces
<1>4. CASE HandleSessionEvent
  <2>1. Buried'
    BY <1>1, <1>4 DEF HandleSessionEvent, Buried
  <2> QED BY <1>1, <1>4, <2>1, TakenChannel, TakenOnce, TakenIpIndex DEF DataPlaneInv
<1>5. CASE UpfRestart
  <2>1. events' = <<>> /\ dp' = Nothing /\ ueIp' = Nothing /\ sess' = Nothing /\ untold' = {}
    BY <1>5 DEF UpfRestart
  <2> QED BY <2>1 DEF DataPlaneInv, Announced, Shown, Told, Buried, EstablishedOnce,
          IpIndexSound, LastWord, Concerns, Nothing
<1>6. CASE SendHeartbeatRequest
  BY <1>1, <1>2, <1>6, NothingTold DEF SendHeartbeatRequest, serverVars
<1>7. CASE UNCHANGED serverVars
  BY <1>1, <1>2, <1>7, NothingTold DEF serverVars
<1> QED BY <1>3, <1>4, <1>5, <1>6, <1>7 DEF Next, PfcpServerNext, vars

LEMMA DataPlaneInvariance == Spec => []DataPlaneInv
BY Invariance, DataPlaneInit, DataPlaneNext, PTL DEF Spec

(***************************************************************************)
(* When the event channel has run empty, the data plane has the server's   *)
(* sessions, whatever was established, deleted and lost to peer failures   *)
(* on the way, and besides them exactly those whose deletion the server    *)
(* could not acknowledge (handle_pfcp_session_event,                       *)
(* handle_session_deletion_request).                                       *)
(***************************************************************************)
THEOREM DataPlaneCatchesUp == Spec => []DataPlaneCaughtUp
<1>1. ASSUME IInv, DataPlaneInv, events = <<>>
      PROVE  /\ DOMAIN dp = DOMAIN sess \cup untold
             /\ \A k \in DOMAIN sess : dp[k] = sess[k].ref
  <2>1. DOMAIN dp \subseteq Nat /\ DOMAIN sess \subseteq Nat /\ untold \subseteq Nat
    BY <1>1 DEF IInv, TypeOK, PfcpServerTypeOK, IsPartialMap
  <2>2. ASSUME NEW k \in Nat
        PROVE  /\ k \in DOMAIN dp <=> k \in DOMAIN sess \cup untold
               /\ k \in DOMAIN sess => dp[k] = sess[k].ref
    BY <1>1 DEF DataPlaneInv, Shown, Told
  <2> QED BY <2>1, <2>2
<1>2. IInv /\ DataPlaneInv => DataPlaneCaughtUp
  BY <1>1 DEF DataPlaneCaughtUp
<1> QED BY <1>2, Invariance, DataPlaneInvariance, PTL

(***************************************************************************)
(* A UE address always leads to a session that exists and is that UE's     *)
(* (add_session, remove_session_by_seid, the peer failure's clean-up).     *)
(***************************************************************************)
THEOREM IpIndexIsSound == Spec => []IpIndexSound
<1>1. DataPlaneInv => IpIndexSound
  BY DEF DataPlaneInv
<1> QED BY <1>1, DataPlaneInvariance, PTL

-----------------------------------------------------------------------------
(* One SMF.  With two of them the later setup takes the one association    *)
(* slot, and nothing below holds.                                          *)

OneSmf == \A s, t \in Smf : s = t

(***************************************************************************)
(* The SMF's own books.  What a pending request says about its sender:     *)
(* association requests are sent by a process that is not shutting down,   *)
(* the release by one that is, a setup by one that is not associated, and  *)
(* session requests belong to the right moment in a context's life.        *)
(***************************************************************************)
Booked(r) ==
    /\ status[r.smf] # "down"
    /\ r.kind \in {"SetupReq", "HbReq"} =>
          status[r.smf] = "run" /\ r.rts = smfRts[r.smf]
    /\ r.kind = "RelReq" => status[r.smf] # "run"
    /\ r.kind = "SetupReq" => ~associated[r.smf]
    /\ r.kind = "EstReq" => ctx[r.smf][r.ref] = "est"
    /\ r.kind = "DelReq" => r.ref \in Ref /\ ctx[r.smf][r.ref] \in {"rel", "done"}

Rivals(q, r) ==
    \/ q.kind \in NodeRequests /\ r.kind \in NodeRequests
    \/ q.kind = "EstReq" /\ r.kind = "EstReq" /\ q.ref = r.ref

(***************************************************************************)
(* A process that ever knew its peer's time stamp knows it until it ends,  *)
(* and has no SM context before that.                                      *)
(***************************************************************************)
KnowsPeer(s) ==
    /\ associated[s] => peerRts[s] # 0
    /\ status[s] = "down" => peerRts[s] = 0
    /\ \A r \in Ref :
          /\ ctx[s][r] # "free" => peerRts[s] # 0
          /\ held[s][r].seid # 0 => ctx[s][r] # "free"

Books ==
    /\ \A r \in reqs : Booked(r)
    /\ \A q, r \in reqs : Rivals(q, r) => q = r
    /\ \A s \in Smf : KnowsPeer(s)

(***************************************************************************)
(* What the datagrams in flight say: every time stamp on the wire is that  *)
(* of a running incarnation, an accepted establishment is one of this UPF  *)
(* incarnation, and a setup response means that the UPF has the SMF as its *)
(* peer.                                                                   *)
(***************************************************************************)
Truthful(m) ==
    /\ m.kind \in {"SetupReq", "HbReq", "UHbRsp"} => m.rts = smfRts[m.smf]
    /\ m.kind \in {"SetupRsp", "HbRsp", "UHbReq"} => m.rts = upfRts
    /\ m.kind = "EstRsp" /\ m.ok => m.inc = upfRts
    /\ m.kind = "RelReq" => status[m.smf] # "run"
    /\ m.kind = "EstReq" /\ status[m.smf] # "down" => ctx[m.smf][m.ref] # "free"
    /\ m.kind = "SetupRsp" /\ status[m.smf] = "run" =>
          upfAssoc = {[smf |-> m.smf, rts |-> smfRts[m.smf]]}

Wire == \A m \in net : Truthful(m)

(***************************************************************************)
(* The two ends of the association.                                        *)
(***************************************************************************)
Ends(s) ==
    /\ BelievesAssociated(s) => Agreed(s)
    /\ \A a \in upfAssoc :
          a.rts <= smfRts[s] /\ (peerRts[s] # 0 => a.rts = smfRts[s])
    /\ peerRts[s] <= upfRts
    /\ associated[s] /\ peerRts[s] # upfRts =>
          upfAssoc = {} /\ \A m \in Msgs : m.kind # "SetupReq"
    /\ \A r \in Ref :
          peerRts[s] = upfRts /\ held[s][r].seid # 0 => held[s][r].inc = upfRts

Ties ==
    /\ \A s \in Smf : Ends(s)
    /\ upfAssoc = {} => DOMAIN sess = {}
    /\ 0 \notin DOMAIN sess

PairInv == Books /\ Wire /\ Ties

-----------------------------------------------------------------------------
(* The SMF's books.                                                        *)

(***************************************************************************)
(* The SMF that a datagram or a request is about is the one SMF.           *)
(***************************************************************************)
LEMMA TheSmf ==
    ASSUME OneSmf, TypeOK, NEW s \in Smf
    PROVE  /\ \A m \in net : m.smf = s /\ m \in Datagram
           /\ \A r \in reqs : r.smf = s /\ r \in Datagram
           /\ \A a \in upfAssoc : a.smf = s /\ a.rts \in Nat
           /\ \A t \in Smf : t = s
           /\ smfRts[s] \in Nat /\ upfRts \in Nat /\ upfRts # 0
           /\ peerRts[s] \in Nat
BY MaxSmfRtsAssumption, MaxUpfRtsAssumption
DEF OneSmf, TypeOK, PfcpClientTypeOK, PfcpServerTypeOK, Datagram

(***************************************************************************)
(* A response completes the request it answers.                            *)
(***************************************************************************)
LEMMA CompletedKind ==
    ASSUME IInv, Wire, NEW m \in net, NEW r \in reqs, Completes(m, r)
    PROVE  /\ r.kind \in {"SetupReq", "HbReq"} => m.rts = upfRts
           /\ r.kind = "SetupReq" => m.kind = "SetupRsp"
           /\ r.kind = "EstReq" /\ m.ok => m.inc = upfRts
<1>1. m.kind = RspOf(r.kind)
  BY MatchesRequest DEF ResponseMatchesRequest, Completes
<1> QED BY <1>1 DEF RspOf, Wire, Truthful

(***************************************************************************)
(* After a datagram the process is as much alive as before.                *)
(***************************************************************************)
LEMMA AfterDatagramStatus ==
    ASSUME TypeOK, NEW s \in Smf, status' = AfterDatagram(s)
    PROVE  /\ status'[s] = "run" <=> status[s] = "run"
           /\ status'[s] = "down" <=> status[s] = "down"
BY DEF TypeOK, PfcpClientTypeOK, AfterDatagram

(***************************************************************************)
(* Books are in order when every request is, no two are rivals, and the    *)
(* SMF knows its peer.                                                     *)
(***************************************************************************)
LEMMA BooksFewer ==
    ASSUME Books, OneSmf, NEW s \in Smf, reqs' \subseteq reqs,
           \A r \in reqs' : Booked(r)', KnowsPeer(s)'
    PROVE  Books'
<1>1. \A t \in Smf : t = s
  BY DEF OneSmf
<1>2. \A q, r \in reqs' : Rivals(q, r) => q = r
  BY DEF Books
<1>3. \A t \in Smf : KnowsPeer(t)'
  BY <1>1
<1> QED BY <1>2, <1>3, Zenon DEF Books, Rivals

LEMMA BooksOneMore ==
    ASSUME Books, OneSmf, NEW s \in Smf, NEW f, NEW R, R \subseteq reqs, reqs' = R \cup {f},
           \A r \in R : Booked(r)', Booked(f)',
           \A r \in R : ~Rivals(r, f) /\ ~Rivals(f, r), KnowsPeer(s)'
    PROVE  Books'
<1>1. \A t \in Smf : t = s
  BY DEF OneSmf
<1>2. \A q, r \in reqs' : Rivals(q, r) => q = r
  BY DEF Books
<1>3. \A t \in Smf : KnowsPeer(t)'
  BY <1>1
<1>4. \A r \in reqs' : Booked(r)'
  OBVIOUS
<1> QED BY <1>2, <1>3, <1>4, Zenon DEF Books, Rivals

(***************************************************************************)
(* Nothing that the books speak of has changed, except that requests may   *)
(* have gone and the association may be down.                              *)
(***************************************************************************)
LEMMA BooksQuiet ==
    ASSUME OneSmf, TypeOK, Books, NEW s \in Smf,
           status'[s] = "run" <=> status[s] = "run",
           status'[s] = "down" <=> status[s] = "down",
           associated'[s] => associated[s],
           UNCHANGED <<smfRts, peerRts, ctx, held>>
    PROVE  (\A r \in reqs : Booked(r)') /\ KnowsPeer(s)'
<1>1. \A r \in reqs : r.smf = s
  BY TheSmf
<1>2. \A r \in reqs : Booked(r)'
  BY <1>1 DEF Books, Booked
<1>3. KnowsPeer(s)'
  BY DEF Books, KnowsPeer
<1> QED BY <1>2, <1>3

LEMMA BooksMaintenance ==
    ASSUME OneSmf, TypeOK, Books, NEW s \in Smf, Maintenance(s)
    PROVE  Books'
<1>1. (\A r \in reqs : Booked(r)') /\ KnowsPeer(s)'
  BY BooksQuiet DEF Maintenance, MaintainAssociate, MaintainHeartbeat
<1>2. CASE reqs' = reqs
  BY <1>1, <1>2, BooksFewer
<1>3. ASSUME NEW kind \in {"SetupReq", "HbReq"}, NEW q,
             status[s] = "run", kind = "SetupReq" => ~associated[s],
             ~NodeRequestPending(s), UNCHANGED <<status, smfRts, associated>>,
             Transmit([Request(kind, s, q) EXCEPT !.rts = smfRts[s]])
      PROVE  Books'
  <2> DEFINE f == [Request(kind, s, q) EXCEPT !.rts = smfRts[s]]
  <2>1. f.kind = kind /\ f.smf = s /\ f.rts = smfRts[s]
    BY DEF Request
  <2>2. Booked(f)'
    BY <1>3, <2>1 DEF Booked
  <2>3. \A r \in reqs : ~Rivals(r, f) /\ ~Rivals(f, r)
    BY <1>3, <2>1, TheSmf DEF NodeRequestPending, Rivals, NodeRequests
  <2> QED BY <1>1, <1>3, <2>2, <2>3, BooksOneMore DEF Transmit
<1> QED BY <1>2, <1>3 DEF Maintenance, MaintainAssociate, MaintainHeartbeat

LEMMA BooksRetransmit ==
    ASSUME OneSmf, TypeOK, Books, NEW s \in Smf, T1Retransmit(s)
    PROVE  Books'
<1>1. PICK r \in reqs :
          /\ reqs' = (reqs \ {r}) \cup {[r EXCEPT !.att = @ + 1]}
          /\ UNCHANGED <<status, smfRts, associated, peerRts, ctx, held>>
  BY DEF T1Retransmit
<1> DEFINE f == [r EXCEPT !.att = @ + 1]
<1>2. r \in Datagram
  BY TheSmf
<1>3. f.kind = r.kind /\ f.smf = r.smf /\ f.rts = r.rts /\ f.ref = r.ref
  BY <1>2 DEF Datagram
<1> HIDE DEF f
<1>4. (\A x \in reqs : Booked(x)') /\ KnowsPeer(s)'
  BY <1>1, BooksQuiet
<1>5. Booked(f)'
  BY <1>3, <1>4 DEF Booked
<1>6. \A x \in reqs \ {r} : ~Rivals(x, f) /\ ~Rivals(f, x)
  BY <1>3 DEF Books, Rivals
<1>7. PICK R : R = reqs \ {r}
  OBVIOUS
<1>8. R \subseteq reqs /\ reqs' = R \cup {f}
  BY <1>1, <1>7 DEF f
<1>9. \A x \in R : Booked(x)'
  BY <1>4, <1>8
<1>10. \A x \in R : ~Rivals(x, f) /\ ~Rivals(f, x)
  BY <1>6, <1>7
<1> QED BY <1>4, <1>5, <1>8, <1>9, <1>10, BooksOneMore

(***************************************************************************)
(* A pending request that is taken out leaves no rival behind.             *)
(***************************************************************************)
LEMMA NoRivalLeft ==
    ASSUME Books, NEW r \in reqs, NEW x \in reqs \ {r}
    PROVE  ~Rivals(x, r)
BY DEF Books

LEMMA BooksListener ==
    ASSUME OneSmf, IInv, Books, Wire, NEW s \in Smf, Listener(s)
    PROVE  Books'
<1>1. TypeOK
  BY DEF IInv
<1>2. /\ status \in [Smf -> {"run", "stop", "deaf", "down"}]
      /\ associated \in [Smf -> BOOLEAN]
      /\ peerRts \in [Smf -> Nat]
      /\ ctx \in [Smf -> [Ref -> {"free", "est", "up", "rel", "done"}]]
      /\ held \in [Smf -> [Ref -> [seid : Nat, inc : Nat]]]
  BY <1>1 DEF TypeOK, PfcpClientTypeOK
<1>3. upfRts # 0 /\ \A r \in reqs : r.smf = s /\ r \in Datagram
  BY <1>1, TheSmf
<1>4. ASSUME NEW rts, rts # 0, CheckPeerRestart(s, rts), status' = AfterDatagram(s),
             UNCHANGED <<smfRts, ctx>>, reqs' \subseteq reqs
      PROVE  Books'
  <2>1. /\ associated'[s] => associated[s]
        /\ peerRts'[s] = 0 <=> peerRts[s] = 0
        /\ \A r \in Ref : held'[s][r] = held[s][r] \/ held'[s][r].seid = 0
    BY <1>2, <1>4 DEF CheckPeerRestart, Restarted, NoSessions, NoSeid
  <2>2. \A r \in reqs : Booked(r)'
    BY <1>1, <1>3, <1>4, <2>1, AfterDatagramStatus DEF Books, Booked
  <2>3. KnowsPeer(s)'
    BY <1>1, <1>4, <2>1, AfterDatagramStatus DEF Books, KnowsPeer
  <2> QED BY <1>4, <2>2, <2>3, BooksFewer
<1>5. CASE OnSetupResponse(s)
  <2>1. PICK m \in net, r \in reqs :
            /\ r.kind = "SetupReq"
            /\ m.smf = s
            /\ Completes(m, r)
            /\ associated' = [associated EXCEPT ![s] = TRUE]
            /\ peerRts' = [peerRts EXCEPT ![s] = m.rts]
            /\ held' = [held EXCEPT ![s] = NoSessions] \/ held' = held
            /\ UNCHANGED <<smfRts, ctx>>
    BY <1>5 DEF OnSetupResponse
  <2>2. peerRts'[s] # 0
    BY <1>2, <1>3, <2>1, CompletedKind
  <2>3. reqs' = reqs \ {r} /\ status' = AfterDatagram(s)
    BY <2>1 DEF Completes
  <2>4. \A x \in reqs' : x.kind # "SetupReq"
    BY <2>1, <2>3, NoRivalLeft DEF Rivals, NodeRequests
  <2>5. \A x \in reqs' : Booked(x)'
    BY <1>1, <1>3, <2>1, <2>3, <2>4, AfterDatagramStatus DEF Books, Booked
  <2>6. \A x \in Ref : held'[s][x] = held[s][x] \/ held'[s][x].seid = 0
    BY <1>2, <2>1 DEF NoSessions, NoSeid
  <2>7. status[s] # "down"
    BY <2>1 DEF Completes, Listening
  <2>8. KnowsPeer(s)'
    BY <1>1, <2>1, <2>2, <2>3, <2>6, <2>7, AfterDatagramStatus DEF Books, KnowsPeer
  <2> QED BY <2>3, <2>5, <2>8, BooksFewer
<1>6. CASE OnHeartbeatResponse(s)
  <2>1. PICK m \in net, r \in reqs :
            /\ r.kind = "HbReq"
            /\ m.smf = s
            /\ Completes(m, r)
            /\ CheckPeerRestart(s, m.rts)
            /\ UNCHANGED <<smfRts, ctx>>
    BY <1>6 DEF OnHeartbeatResponse
  <2>2. m.rts # 0
    BY <1>3, <2>1, CompletedKind
  <2> QED BY <1>4, <2>1, <2>2 DEF Completes
<1>7. CASE OnHeartbeatRequest(s)
  <2>1. PICK m \in net :
            /\ m.kind = "UHbReq"
            /\ CheckPeerRestart(s, m.rts)
            /\ status' = AfterDatagram(s)
            /\ UNCHANGED <<smfRts, ctx, reqs>>
    BY <1>7 DEF OnHeartbeatRequest
  <2>2. m.rts # 0
    BY <1>3, <2>1 DEF Wire, Truthful
  <2> QED BY <1>4, <2>1, <2>2
<1>8. CASE OnEstablishmentResponse(s)
  <2>1. PICK m \in net, r \in reqs :
            /\ r.kind = "EstReq"
            /\ m.smf = s
            /\ Completes(m, r)
            /\ \/ /\ held' = [held EXCEPT ![s][r.ref] = [seid |-> m.seid, inc |-> m.inc]]
                  /\ ctx' = [ctx EXCEPT ![s][r.ref] = "up"]
               \/ /\ ctx' = [ctx EXCEPT ![s][r.ref] = "done"]
                  /\ UNCHANGED held
            /\ UNCHANGED <<smfRts, associated, peerRts>>
    BY <1>8 DEF OnEstablishmentResponse
  <2>2. reqs' = reqs \ {r} /\ status' = AfterDatagram(s)
    BY <2>1 DEF Completes
  <2>3. r.ref \in Ref
    BY <2>1 DEF IInv, CorrelationInv, EstNamesContext
  <2>4. ctx[s][r.ref] = "est"
    BY <1>3, <2>1 DEF Books, Booked
  <2>5. \A x \in reqs' : x.kind = "EstReq" => x.ref # r.ref
    BY <2>1, <2>2, NoRivalLeft DEF Rivals
  <2>6. \A x \in Ref : x # r.ref => ctx'[s][x] = ctx[s][x] /\ held'[s][x] = held[s][x]
    BY <1>2, <2>1, <2>3
  <2>7. ctx'[s][r.ref] # "free"
    BY <1>2, <2>1, <2>3
  <2>8. \A x \in reqs' : x.kind = "DelReq" => x.ref # r.ref
    BY <1>3, <2>2, <2>4 DEF Books, Booked
  <2>9. \A x \in reqs' : x.kind \in {"EstReq", "DelReq"} =>
                             x.ref \in Ref /\ ctx'[s][x.ref] = ctx[s][x.ref]
    <3>1. \A x \in reqs' : x.kind \in {"EstReq", "DelReq"} => x.ref \in Ref
      BY <2>2 DEF IInv, CorrelationInv, EstNamesContext, Books, Booked
    <3> QED BY <2>5, <2>6, <2>8, <3>1
  <2>10. \A x \in reqs' : Booked(x)'
    BY <1>1, <1>3, <2>1, <2>2, <2>9, AfterDatagramStatus DEF Books, Booked
  <2>11. KnowsPeer(s)'
    BY <1>1, <2>1, <2>2, <2>3, <2>4, <2>6, <2>7, AfterDatagramStatus DEF Books, KnowsPeer
  <2> QED BY <2>2, <2>10, <2>11, BooksFewer
<1>9. CASE OnDeletionResponse(s)
  <2>1. PICK m \in net, r \in reqs :
            /\ r.kind = "DelReq"
            /\ m.smf = s
            /\ Completes(m, r)
            /\ ctx' = [ctx EXCEPT ![s][r.ref] = "done"]
            /\ held' = [held EXCEPT ![s][r.ref] = NoSeid]
            /\ UNCHANGED <<smfRts, associated, peerRts>>
    BY <1>9 DEF OnDeletionResponse
  <2>2. reqs' = reqs \ {r} /\ status' = AfterDatagram(s)
    BY <2>1 DEF Completes
  <2>3. ctx[s][r.ref] \in {"rel", "done"}
    BY <1>3, <2>1 DEF Books, Booked
  <2>4. \A x \in Ref : ctx'[s][x] = ctx[s][x] \/ (x = r.ref /\ ctx'[s][x] = "done")
    BY <1>2, <2>1
  <2>5. \A x \in reqs' : Booked(x)'
    BY <1>1, <1>3, <2>1, <2>2, <2>3, <2>4, AfterDatagramStatus DEF Books, Booked
  <2>6. \A x \in Ref : \/ ctx'[s][x] = ctx[s][x] /\ held'[s][x] = held[s][x]
                       \/ ctx'[s][x] = "done" /\ ctx[s][x] # "free"
    BY <1>2, <2>1, <2>3
  <2>7. KnowsPeer(s)'
    BY <1>1, <2>1, <2>2, <2>6, AfterDatagramStatus DEF Books, KnowsPeer
  <2> QED BY <2>2, <2>5, <2>7, BooksFewer
<1>10. CASE OnModificationResponse(s) \/ DropLateResponse(s)
  <2>1. /\ status' = AfterDatagram(s) /\ reqs' \subseteq reqs
        /\ UNCHANGED <<smfRts, associated, peerRts, ctx, held>>
    BY <1>10 DEF OnModificationResponse, DropLateResponse, Completes
  <2>2. (\A r \in reqs : Booked(r)') /\ KnowsPeer(s)'
    BY <1>1, <2>1, AfterDatagramStatus, BooksQuiet
  <2> QED BY <2>1, <2>2, BooksFewer
<1>11. CASE ListenerStops(s)
  <2>1. /\ status[s] = "stop" /\ status'[s] = "deaf" /\ reqs' = reqs
        /\ UNCHANGED <<smfRts, associated, peerRts, ctx, held>>
    BY <1>2, <1>11 DEF ListenerStops
  <2>2. (\A r \in reqs : Booked(r)') /\ KnowsPeer(s)'
    BY <1>1, <2>1, BooksQuiet
  <2> QED BY <2>1, <2>2, BooksFewer
<1> QED BY <1>5, <1>6, <1>7, <1>8, <1>9, <1>10, <1>11 DEF Listener

LEMMA BooksFailure ==
    ASSUME OneSmf, IInv, Books, NEW s \in Smf, NodeRequestFails(s) \/ SessionRequestFails(s)
    PROVE  Books'
<1>1. TypeOK
  BY DEF IInv
<1>2. /\ associated \in [Smf -> BOOLEAN]
      /\ ctx \in [Smf -> [Ref -> {"free", "est", "up", "rel", "done"}]]
      /\ held \in [Smf -> [Ref -> [seid : Nat, inc : Nat]]]
  BY <1>1 DEF TypeOK, PfcpClientTypeOK
<1>3. \A r \in reqs : r.smf = s /\ r \in Datagram
  BY <1>1, TheSmf
<1>4. PICK r \in reqs :
          /\ reqs' = reqs \ {r}
          /\ associated' = associated \/ associated' = [associated EXCEPT ![s] = FALSE]
          /\ UNCHANGED <<status, smfRts, peerRts>>
          /\ \/ UNCHANGED <<ctx, held>>
             \/ /\ r.kind \in {"EstReq", "DelReq"}
                /\ ctx' = [ctx EXCEPT ![s][r.ref] = "done"]
                /\ held' = held \/ held' = [held EXCEPT ![s][r.ref] = NoSeid]
  BY DEF NodeRequestFails, SessionRequestFails, RequestFails, SessionRequests
<1>5. associated'[s] => associated[s]
  BY <1>2, <1>4
<1>6. CASE UNCHANGED <<ctx, held>>
  <2>1. (\A x \in reqs : Booked(x)') /\ KnowsPeer(s)'
    BY <1>1, <1>4, <1>5, <1>6, BooksQuiet
  <2> QED BY <1>4, <2>1, BooksFewer
<1>7. CASE /\ r.kind \in {"EstReq", "DelReq"}
           /\ ctx' = [ctx EXCEPT ![s][r.ref] = "done"]
           /\ held' = held \/ held' = [held EXCEPT ![s][r.ref] = NoSeid]
  <2>1. r.ref \in Ref /\ ctx[s][r.ref] \in {"est", "rel", "done"}
    BY <1>3, <1>7 DEF IInv, CorrelationInv, EstNamesContext, Books, Booked
  <2>2. /\ ctx'[s][r.ref] = "done"
        /\ \A x \in Ref : x # r.ref => ctx'[s][x] = ctx[s][x] /\ held'[s][x] = held[s][x]
    BY <1>2, <1>7, <2>1
  <2>3. \A x \in reqs' : x.kind \in {"EstReq", "DelReq"} => x.ref \in Ref
    BY <1>4 DEF IInv, CorrelationInv, EstNamesContext, Books, Booked
  <2>4. \A x \in reqs' : x.kind = "EstReq" => x.ref # r.ref
    <3>1. CASE r.kind = "EstReq"
      BY <1>4, <3>1, NoRivalLeft DEF Rivals
    <3>2. CASE r.kind = "DelReq"
      BY <1>3, <1>4, <3>2 DEF Books, Booked
    <3> QED BY <1>7, <3>1, <3>2
  <2>5. \A x \in reqs' : Booked(x)'
    BY <1>3, <1>4, <1>5, <2>2, <2>3, <2>4 DEF Books, Booked
  <2>6. KnowsPeer(s)'
    BY <1>4, <1>5, <2>1, <2>2 DEF Books, KnowsPeer
  <2> QED BY <1>4, <2>5, <2>6, BooksFewer
<1> QED BY <1>4, <1>6, <1>7

LEMMA BooksHandlers ==
    ASSUME OneSmf, IInv, Books, NEW s \in Smf, SmContextHandlers(s)
    PROVE  Books'
<1>1. TypeOK
  BY DEF IInv
<1>2. /\ ctx \in [Smf -> [Ref -> {"free", "est", "up", "rel", "done"}]]
      /\ held \in [Smf -> [Ref -> [seid : Nat, inc : Nat]]]
  BY <1>1 DEF TypeOK, PfcpClientTypeOK
<1>3. \A r \in reqs : r.smf = s /\ r \in Datagram
  BY <1>1, TheSmf
<1>4. PICK r \in Ref :
          \/ SmContextCreate(s, r)
          \/ \E what \in {"activate", "other"} : SmContextUpdate(s, r, what)
          \/ SmContextRelease(s, r)
  BY DEF SmContextHandlers
<1>5. \A x \in reqs : x.kind \in {"EstReq", "DelReq"} => x.ref \in Ref
  BY DEF IInv, CorrelationInv, EstNamesContext, Books, Booked
<1>6. CASE SmContextCreate(s, r)
  <2>1. PICK q \in SeqNo : Transmit([Request("EstReq", s, q) EXCEPT !.ref = r])
    BY <1>6 DEF SmContextCreate
  <2> DEFINE f == [Request("EstReq", s, q) EXCEPT !.ref = r]
  <2>2. f.kind = "EstReq" /\ f.smf = s /\ f.ref = r
    BY DEF Request
  <2>3. /\ ctx'[s][r] = "est" /\ ctx[s][r] = "free"
        /\ \A x \in Ref : x # r => ctx'[s][x] = ctx[s][x]
        /\ status[s] # "down" /\ associated[s]
        /\ UNCHANGED <<status, smfRts, associated, peerRts, held>>
    BY <1>2, <1>6 DEF SmContextCreate
  <2>4. reqs' = reqs \cup {f}
    BY <2>1 DEF Transmit
  <2> HIDE DEF f
  <2>5. \A x \in reqs : x.kind \in {"EstReq", "DelReq"} => x.ref # r
    BY <1>3, <2>3 DEF Books, Booked
  <2>6. \A x \in reqs : Booked(x)'
    BY <1>3, <1>5, <2>3, <2>5 DEF Books, Booked
  <2>7. Booked(f)'
    BY <2>2, <2>3 DEF Booked
  <2>8. \A x \in reqs : ~Rivals(x, f) /\ ~Rivals(f, x)
    BY <2>2, <2>5 DEF Rivals, NodeRequests
  <2>9. KnowsPeer(s)'
    BY <2>3 DEF Books, KnowsPeer
  <2> QED BY <2>4, <2>6, <2>7, <2>8, <2>9, BooksOneMore
<1>7. CASE \E what \in {"activate", "other"} : SmContextUpdate(s, r, what)
  <2>1. PICK f : f.kind = "ModReq" /\ f.smf = s /\ Transmit(f)
    <3>1. PICK what, q : Transmit([SessionRequest("ModReq", s, q, r) EXCEPT
                                      !.tun = (what = "activate")])
      BY <1>7 DEF SmContextUpdate
    <3> DEFINE g == [SessionRequest("ModReq", s, q, r) EXCEPT !.tun = (what = "activate")]
    <3>2. g.kind = "ModReq" /\ g.smf = s
      BY DEF Request, SessionRequest
    <3> QED BY <3>1, <3>2
  <2>3. status[s] # "down" /\ UNCHANGED <<status, smfRts, associated, peerRts, ctx, held>>
    BY <1>7 DEF SmContextUpdate
  <2>4. reqs' = reqs \cup {f}
    BY <2>1 DEF Transmit
  <2>5. (\A x \in reqs : Booked(x)') /\ KnowsPeer(s)'
    BY <1>1, <2>3, BooksQuiet
  <2>6. Booked(f)' /\ \A x \in reqs : ~Rivals(x, f) /\ ~Rivals(f, x)
    BY <2>1, <2>3 DEF Booked, Rivals, NodeRequests
  <2> QED BY <2>4, <2>5, <2>6, BooksOneMore
<1>8. CASE SmContextRelease(s, r)
  <2>1. /\ ctx[s][r] \in {"up", "rel"} /\ ctx'[s][r] \in {"rel", "done"}
        /\ \A x \in Ref : x # r => ctx'[s][x] = ctx[s][x]
        /\ \A x \in Ref : held'[s][x] = held[s][x] \/ x = r
        /\ status[s] # "down"
        /\ UNCHANGED <<status, smfRts, associated, peerRts>>
    BY <1>2, <1>8 DEF SmContextRelease
  <2>2. \A x \in reqs : Booked(x)'
    BY <1>3, <1>5, <2>1 DEF Books, Booked
  <2>3. KnowsPeer(s)'
    BY <2>1 DEF Books, KnowsPeer
  <2>4. CASE reqs' = reqs
    BY <2>2, <2>3, <2>4, BooksFewer
  <2>5. CASE \E q \in SeqNo : Transmit(SessionRequest("DelReq", s, q, r)) /\ held' = held
    <3>1. PICK q \in SeqNo : Transmit(SessionRequest("DelReq", s, q, r))
      BY <2>5
    <3>2. PICK f : f = SessionRequest("DelReq", s, q, r)
      OBVIOUS
    <3>3. reqs' = reqs \cup {f} /\ f.kind = "DelReq" /\ f.smf = s /\ f.ref = r
      BY <3>1, <3>2 DEF Transmit, Request, SessionRequest
    <3>4. Booked(f)' /\ \A x \in reqs : ~Rivals(x, f) /\ ~Rivals(f, x)
      BY <2>1, <3>3 DEF Booked, Rivals, NodeRequests
    <3> QED BY <2>2, <2>3, <3>3, <3>4, BooksOneMore
  <2> QED BY <1>8, <2>4, <2>5 DEF SmContextRelease
<1> QED BY <1>4, <1>6, <1>7, <1>8

(***************************************************************************)
(* A process that is gone leaves nothing in the books.                     *)
(***************************************************************************)
LEMMA GoneState ==
    ASSUME OneSmf, TypeOK, NEW s \in Smf, ProcessGone(s)
    PROVE  /\ reqs' = {} /\ status'[s] = "down" /\ ~associated'[s] /\ peerRts'[s] = 0
           /\ smfRts' = smfRts
           /\ \A r \in Ref : ctx'[s][r] = "free" /\ held'[s][r].seid = 0
<1>1. \A r \in reqs : r.smf = s
  BY TheSmf
<1> QED BY <1>1 DEF ProcessGone, TypeOK, PfcpClientTypeOK, NoSessions, NoSeid

LEMMA BooksProcess ==
    ASSUME OneSmf, TypeOK, Books, NEW s \in Smf, Process(s)
    PROVE  Books'
<1>1. CASE ProcessGone(s)
  <2>1. reqs' = {} /\ KnowsPeer(s)'
    BY <1>1, GoneState DEF KnowsPeer
  <2> QED BY <2>1, BooksFewer
<1>2. CASE Shutdown(s) /\ associated[s]
  <2>1. PICK q \in SeqNo :
            reqs' = {r \in reqs : r.smf = s => r.kind \notin NodeRequests}
                       \cup {Request("RelReq", s, q)}
    BY <1>2 DEF Shutdown
  <2> DEFINE f == Request("RelReq", s, q)
             R == {r \in reqs : r.smf = s => r.kind \notin NodeRequests}
  <2>2. f.kind = "RelReq" /\ f.smf = s
    BY DEF Request
  <2>3. /\ status'[s] = "stop" /\ status[s] = "run"
        /\ UNCHANGED <<smfRts, associated, peerRts, ctx, held>>
    BY <1>2 DEF Shutdown, TypeOK, PfcpClientTypeOK
  <2>4. reqs' = R \cup {f} /\ R \subseteq reqs
    BY <2>1
  <2>5. \A x \in R : x \in reqs /\ x.smf = s /\ x.kind \notin NodeRequests
    BY TheSmf
  <2> HIDE DEF f, R
  <2>6. \A x \in R : Booked(x)'
    BY <2>3, <2>5 DEF Books, Booked, NodeRequests
  <2>7. Booked(f)' /\ \A x \in R : ~Rivals(x, f) /\ ~Rivals(f, x)
    BY <2>2, <2>3, <2>5 DEF Booked, Rivals
  <2>8. KnowsPeer(s)'
    BY <2>3 DEF Books, KnowsPeer
  <2> QED BY <2>4, <2>6, <2>7, <2>8, BooksOneMore
<1>3. CASE Start(s)
  <2>1. /\ status[s] = "down" /\ reqs' = reqs
        /\ UNCHANGED <<associated, peerRts, ctx, held>>
        /\ status'[s] = "run"
    BY <1>3 DEF Start, TypeOK, PfcpClientTypeOK
  <2>2. reqs = {}
    BY <2>1, TheSmf DEF Books, Booked
  <2>3. KnowsPeer(s)'
    BY <2>1 DEF Books, KnowsPeer
  <2> QED BY <2>1, <2>2, <2>3, BooksFewer
<1> QED BY <1>1, <1>2, <1>3 DEF Process, Shutdown, ReleaseDone, Crash

LEMMA BooksNext ==
    ASSUME OneSmf, IInv, Books, Wire, [Next]_vars
    PROVE  Books'
<1>1. ASSUME NEW s \in Smf, PfcpClientNext(s)
      PROVE  Books'
  BY <1>1, BooksMaintenance, BooksListener, BooksRetransmit, BooksFailure, BooksHandlers,
     BooksProcess DEF PfcpClientNext, T1Expiry, IInv
<1>2. CASE UNCHANGED clientVars
  BY <1>2 DEF clientVars, Books, Booked, KnowsPeer
<1> QED BY <1>1, <1>2 DEF Next, vars

-----------------------------------------------------------------------------
(* The wire and the two ends, through the steps of the SMF.                *)

(***************************************************************************)
(* What an SMF puts on the wire is a request it has pending, or an answer  *)
(* to a heartbeat of the UPF.                                              *)
(***************************************************************************)
LEMMA ClientNet ==
    ASSUME OneSmf, TypeOK, NEW s \in Smf, PfcpClientNext(s), NEW m \in net'
    PROVE  m \in net \/ m \in reqs' \/ (m.kind = "UHbRsp" /\ m.rts = smfRts[s])
<1>1. CASE net' \subseteq net
  BY <1>1
<1>2. ASSUME NEW f, Transmit(f)
      PROVE  m \in net \/ m \in reqs'
  BY <1>2, SentSubset DEF Transmit
<1>3. CASE Maintenance(s)
  BY <1>1, <1>2, <1>3 DEF Maintenance, MaintainAssociate, MaintainHeartbeat
<1>4. CASE OnHeartbeatRequest(s)
  <2>1. PICK x \in net :
            net' = Sent(net \ {x}, [x EXCEPT !.kind = "UHbRsp", !.rts = smfRts[s]])
    BY <1>4 DEF OnHeartbeatRequest
  <2>2. x \in Datagram
    BY TheSmf
  <2>3. m \in net \/ m = [x EXCEPT !.kind = "UHbRsp", !.rts = smfRts[s]]
    BY <2>1, SentSubset
  <2> QED BY <2>2, <2>3 DEF Datagram
<1>5. CASE Listener(s) /\ ~OnHeartbeatRequest(s)
  BY <1>1, <1>5 DEF Listener, OnSetupResponse, OnHeartbeatResponse, OnEstablishmentResponse,
     OnModificationResponse, OnDeletionResponse, DropLateResponse, ListenerStops, Completes
<1>6. CASE T1Retransmit(s)
  <2>1. PICK f : net' = Sent(net, f) /\ f \in reqs'
    BY <1>6 DEF T1Retransmit
  <2> QED BY <2>1, SentSubset
<1>7. CASE NodeRequestFails(s) \/ SessionRequestFails(s)
  BY <1>1, <1>7 DEF NodeRequestFails, SessionRequestFails
<1>8. CASE SmContextHandlers(s)
  BY <1>1, <1>2, <1>8 DEF SmContextHandlers, SmContextCreate, SmContextUpdate, SmContextRelease
<1>9. CASE Shutdown(s)
  <2>1. net' = net \/ \E f : net' = Sent(net, f) /\ f \in reqs'
    BY <1>9 DEF Shutdown
  <2> QED BY <2>1, SentSubset
<1>10. CASE ReleaseDone(s) \/ Crash(s) \/ Start(s)
  BY <1>1, <1>10 DEF ReleaseDone, Crash, Start
<1> QED
  BY <1>3, <1>4, <1>5, <1>6, <1>7, <1>8, <1>9, <1>10 DEF PfcpClientNext, T1Expiry, Process

(***************************************************************************)
(* Only a start brings a process back to life, and only the end of a       *)
(* process makes its contexts free again.                                  *)
(***************************************************************************)
Steady(s) ==
    /\ UNCHANGED smfRts
    /\ status'[s] = "run" => status[s] = "run"
    /\ status'[s] # "down" =>
          /\ status[s] # "down"
          /\ \A r \in Ref : ctx'[s][r] = "free" => ctx[s][r] = "free"

LEMMA ClientSteady ==
    ASSUME OneSmf, TypeOK, NEW s \in Smf, PfcpClientNext(s)
    PROVE  Steady(s) \/ Start(s)
<1>1. /\ status \in [Smf -> {"run", "stop", "deaf", "down"}]
      /\ ctx \in [Smf -> [Ref -> {"free", "est", "up", "rel", "done"}]]
  BY DEF TypeOK, PfcpClientTypeOK
<1>2. CASE UNCHANGED <<status, smfRts, ctx>>
  BY <1>2 DEF Steady
<1>3. CASE ProcessGone(s)
  BY <1>3, GoneState DEF Steady
<1>4. ASSUME UNCHANGED smfRts, status' = status \/ status' = AfterDatagram(s),
             \/ ctx' = ctx
             \/ \E r, c : c # "free" /\ ctx' = [ctx EXCEPT ![s][r] = c]
      PROVE  Steady(s)
  <2>1. (status'[s] = "run" <=> status[s] = "run") /\ (status'[s] = "down" <=> status[s] = "down")
    BY <1>4, AfterDatagramStatus
  <2>2. \A r \in Ref : ctx'[s][r] = "free" => ctx[s][r] = "free"
    BY <1>1, <1>4
  <2> QED BY <1>4, <2>1, <2>2 DEF Steady
<1>5. CASE Maintenance(s)
  BY <1>2, <1>5 DEF Maintenance, MaintainAssociate, MaintainHeartbeat
<1>6. CASE Listener(s)
  <2>1. CASE ListenerStops(s)
    <3>1. UNCHANGED <<smfRts, ctx>> /\ status[s] = "stop" /\ status'[s] = "deaf"
      BY <1>1, <2>1 DEF ListenerStops
    <3> QED BY <3>1 DEF Steady
  <2>2. CASE OnSetupResponse(s) \/ OnHeartbeatResponse(s) \/ OnModificationResponse(s)
    <3>1. UNCHANGED <<smfRts, ctx>> /\ status' = AfterDatagram(s)
      BY <2>2 DEF OnSetupResponse, OnHeartbeatResponse, OnModificationResponse, Completes
    <3> QED BY <1>4, <3>1
  <2>3. CASE OnHeartbeatRequest(s) \/ DropLateResponse(s)
    <3>1. UNCHANGED <<smfRts, ctx>> /\ status' = AfterDatagram(s)
      BY <2>3 DEF OnHeartbeatRequest, DropLateResponse
    <3> QED BY <1>4, <3>1
  <2>4. CASE OnEstablishmentResponse(s) \/ OnDeletionResponse(s)
    <3>1. UNCHANGED smfRts /\ status' = AfterDatagram(s)
      BY <2>4 DEF OnEstablishmentResponse, OnDeletionResponse, Completes
    <3>2. CASE OnEstablishmentResponse(s)
      <4>1. PICK r \in reqs : \/ ctx' = [ctx EXCEPT ![s][r.ref] = "up"]
                              \/ ctx' = [ctx EXCEPT ![s][r.ref] = "done"]
        BY <3>2 DEF OnEstablishmentResponse
      <4>2. \E c : c # "free" /\ ctx' = [ctx EXCEPT ![s][r.ref] = c]
        BY <4>1
      <4> QED BY <1>4, <3>1, <4>2
    <3>3. CASE OnDeletionResponse(s)
      <4>1. PICK r \in reqs : ctx' = [ctx EXCEPT ![s][r.ref] = "done"]
        BY <3>3 DEF OnDeletionResponse
      <4>2. \E c : c # "free" /\ ctx' = [ctx EXCEPT ![s][r.ref] = c]
        BY <4>1
      <4> QED BY <1>4, <3>1, <4>2
    <3> QED BY <2>4, <3>2, <3>3
  <2> QED BY <1>6, <2>1, <2>2, <2>3, <2>4 DEF Listener
<1>7. CASE T1Expiry(s)
  BY <1>2, <1>4, <1>7 DEF T1Expiry, T1Retransmit, NodeRequestFails, SessionRequestFails
<1>8. CASE SmContextHandlers(s)
  BY <1>2, <1>4, <1>8 DEF SmContextHandlers, SmContextCreate, SmContextUpdate, SmContextRelease
<1>9. CASE Shutdown(s) /\ associated[s]
  BY <1>1, <1>9 DEF Shutdown, Steady
<1>10. CASE Process(s) /\ ~(Shutdown(s) /\ associated[s])
  BY <1>3, <1>10 DEF Process, Shutdown, ReleaseDone, Crash
<1> QED
  BY <1>5, <1>6, <1>7, <1>8, <1>9, <1>10 DEF PfcpClientNext

(***************************************************************************)
(* A start finds nothing of the incarnation before.                        *)
(***************************************************************************)
LEMMA StartState ==
    ASSUME OneSmf, TypeOK, Books, NEW s \in Smf, Start(s)
    PROVE  /\ net' = {} /\ reqs = {} /\ reqs' = {}
           /\ status[s] = "down" /\ smfRts'[s] = smfRts[s] + 1
           /\ peerRts'[s] = 0 /\ peerRts[s] = 0 /\ ~associated[s] /\ ~associated'[s]
           /\ UNCHANGED <<ctx, held>>
           /\ \A r \in Ref : ctx[s][r] = "free" /\ held[s][r].seid = 0
<1>1. \A m \in net : m.smf = s
  BY TheSmf
<1>2. \A r \in reqs : r.smf = s
  BY TheSmf
<1>3. smfRts'[s] = smfRts[s] + 1
  BY DEF Start, TypeOK, PfcpClientTypeOK
<1>4. status[s] = "down" /\ net' = {} /\ reqs' = reqs /\ UNCHANGED <<associated, peerRts, ctx, held>>
  BY <1>1 DEF Start
<1>5. reqs = {}
  BY <1>2, <1>4 DEF Books, Booked
<1>6. KnowsPeer(s)
  BY DEF Books
<1> QED BY <1>3, <1>4, <1>5, <1>6 DEF KnowsPeer

LEMMA WireClient ==
    ASSUME OneSmf, IInv, IInv', Books, Books', Wire, NEW s \in Smf, PfcpClientNext(s),
           UNCHANGED serverVars
    PROVE  Wire'
<1>1. TypeOK /\ TypeOK'
  BY DEF IInv
<1>2. CASE Start(s)
  BY <1>1, <1>2, StartState DEF Wire
<1>3. CASE Steady(s)
  <2> SUFFICES ASSUME NEW m \in net'
               PROVE  Truthful(m)'
    BY DEF Wire
  <2>1. m.smf = s
    BY <1>1, TheSmf DEF TypeOK, Datagram, OneSmf
  <2>2. CASE m \in net
    <3>1. m.kind = "EstReq" => m.ref \in Ref
      BY <2>2 DEF IInv, CorrelationInv, EstNamesContext
    <3> QED BY <1>3, <2>1, <2>2, <3>1 DEF Wire, Truthful, Steady, serverVars
  <2>3. CASE m \in reqs'
    <3>1. m.kind \in SmfRequests
      BY <2>3 DEF IInv, PendingAreRequests
    <3>2. Booked(m)'
      BY <2>3 DEF Books
    <3> QED BY <3>1, <3>2 DEF Truthful, Booked, SmfRequests, SessionRequests, NodeRequests
  <2>4. CASE m.kind = "UHbRsp" /\ m.rts = smfRts[s]
    BY <1>3, <2>1, <2>4 DEF Truthful, Steady
  <2> QED BY <1>1, <2>2, <2>3, <2>4, ClientNet
<1> QED BY <1>1, <1>2, <1>3, ClientSteady

(***************************************************************************)
(* What a step does to an SMF's picture of its peer and to the SEIDs it    *)
(* has stored: nothing new but a SEID of this UPF incarnation; a restart   *)
(* of the peer detected; the association set up; the process gone.         *)
(***************************************************************************)
SamePeer(s) ==
    /\ associated'[s] => associated[s]
    /\ peerRts'[s] = peerRts[s]
    /\ \A r \in Ref :
          \/ held'[s][r] = held[s][r]
          \/ held'[s][r].seid = 0
          \/ held'[s][r].inc = upfRts

PeerRestartSeen(s) ==
    /\ peerRts[s] # 0
    /\ peerRts'[s] = upfRts
    /\ ~associated'[s]
    /\ \A r \in Ref : held'[s][r].seid = 0

PeerSetUp(s) ==
    /\ upfAssoc = {[smf |-> s, rts |-> smfRts[s]]}
    /\ peerRts'[s] = upfRts
    /\ \A r \in Ref :
          \/ held'[s][r].seid = 0
          \/ peerRts[s] = upfRts /\ held'[s][r] = held[s][r]

PeerForgotten(s) ==
    /\ peerRts'[s] = 0
    /\ ~associated'[s]
    /\ \A r \in Ref : held'[s][r].seid = 0

LEMMA ClientPeer ==
    ASSUME OneSmf, IInv, Books, Wire, NEW s \in Smf, PfcpClientNext(s)
    PROVE  SamePeer(s) \/ PeerRestartSeen(s) \/ PeerSetUp(s) \/ PeerForgotten(s)
<1>1. TypeOK
  BY DEF IInv
<1>2. /\ associated \in [Smf -> BOOLEAN]
      /\ peerRts \in [Smf -> Nat]
      /\ held \in [Smf -> [Ref -> [seid : Nat, inc : Nat]]]
  BY <1>1 DEF TypeOK, PfcpClientTypeOK
<1>3. CASE UNCHANGED <<associated, peerRts, held>>
  BY <1>3 DEF SamePeer
<1>4. ASSUME CheckPeerRestart(s, upfRts)
      PROVE  SamePeer(s) \/ PeerRestartSeen(s)
  <2>1. CASE Restarted(s, upfRts)
    BY <1>2, <1>4, <2>1
    DEF CheckPeerRestart, Restarted, PeerRestartSeen, NoSessions, NoSeid
  <2>2. CASE ~Restarted(s, upfRts)
    BY <1>4, <2>2 DEF CheckPeerRestart, SamePeer
  <2> QED BY <2>1, <2>2
<1>5. CASE ProcessGone(s)
  BY <1>1, <1>5, GoneState DEF PeerForgotten
<1>6. ASSUME UNCHANGED peerRts,
             associated' = associated \/ associated' = [associated EXCEPT ![s] = FALSE],
             held' = held \/ \E r : held' = [held EXCEPT ![s][r] = NoSeid]
      PROVE  SamePeer(s)
  <2>1. associated'[s] => associated[s]
    BY <1>2, <1>6
  <2>2. \A x \in Ref : held'[s][x] = held[s][x] \/ held'[s][x] = NoSeid
    BY <1>2, <1>6
  <2> QED BY <1>6, <2>1, <2>2 DEF SamePeer, NoSeid
<1>7. CASE OnSetupResponse(s)
  <2>1. PICK m \in net, r \in reqs :
            /\ m.smf = s
            /\ r.kind = "SetupReq"
            /\ Completes(m, r)
            /\ peerRts' = [peerRts EXCEPT ![s] = m.rts]
            /\ held' = IF Restarted(s, m.rts)
                       THEN [held EXCEPT ![s] = NoSessions]
                       ELSE held
    BY <1>7 DEF OnSetupResponse
  <2>2. m.kind = "SetupRsp" /\ m.rts = upfRts
    BY <2>1, CompletedKind
  <2>3. status[s] = "run"
    BY <1>1, <2>1, TheSmf DEF Books, Booked
  <2>4. upfAssoc = {[smf |-> s, rts |-> smfRts[s]]}
    BY <2>1, <2>2, <2>3 DEF Wire, Truthful
  <2>5. peerRts'[s] = upfRts
    BY <1>2, <2>1, <2>2
  <2>6. ASSUME NEW x \in Ref
        PROVE  held'[s][x].seid = 0 \/ (peerRts[s] = upfRts /\ held'[s][x] = held[s][x])
    <3>1. CASE Restarted(s, m.rts)
      BY <1>2, <2>1, <3>1 DEF NoSessions, NoSeid
    <3>2. CASE ~Restarted(s, m.rts)
      BY <2>1, <2>2, <3>2 DEF Restarted, Books, KnowsPeer
    <3> QED BY <3>1, <3>2
  <2> QED BY <2>4, <2>5, <2>6 DEF PeerSetUp
<1>8. CASE OnHeartbeatResponse(s)
  BY <1>4, <1>8, CompletedKind DEF OnHeartbeatResponse
<1>9. CASE OnHeartbeatRequest(s)
  BY <1>4, <1>9 DEF OnHeartbeatRequest, Wire, Truthful
<1>10. CASE OnEstablishmentResponse(s)
  <2>1. PICK m \in net, r \in reqs :
            /\ r.kind = "EstReq"
            /\ Completes(m, r)
            /\ \/ /\ m.ok
                  /\ held' = [held EXCEPT ![s][r.ref] = [seid |-> m.seid, inc |-> m.inc]]
               \/ UNCHANGED held
            /\ UNCHANGED <<associated, peerRts>>
    BY <1>10 DEF OnEstablishmentResponse
  <2>2. m.ok => m.inc = upfRts
    BY <2>1, CompletedKind
  <2>3. \A x \in Ref : held'[s][x] = held[s][x] \/ held'[s][x].inc = upfRts
    BY <1>2, <2>1, <2>2
  <2> QED BY <2>1, <2>3 DEF SamePeer
<1>11. CASE OnDeletionResponse(s)
  BY <1>6, <1>11 DEF OnDeletionResponse
<1>12. CASE OnModificationResponse(s) \/ DropLateResponse(s) \/ ListenerStops(s)
  BY <1>3, <1>12 DEF OnModificationResponse, DropLateResponse, ListenerStops
<1>13. CASE Maintenance(s) \/ T1Retransmit(s)
  BY <1>3, <1>13 DEF Maintenance, MaintainAssociate, MaintainHeartbeat, T1Retransmit
<1>14. CASE NodeRequestFails(s) \/ SessionRequestFails(s)
  BY <1>6, <1>14 DEF NodeRequestFails, SessionRequestFails, RequestFails
<1>15. CASE SmContextHandlers(s)
  BY <1>3, <1>6, <1>15 DEF SmContextHandlers, SmContextCreate, SmContextUpdate, SmContextRelease
<1>16. CASE Process(s)
  BY <1>3, <1>5, <1>16 DEF Process, Shutdown, ReleaseDone, Crash, Start
<1> QED
  BY <1>7, <1>8, <1>9, <1>10, <1>11, <1>12, <1>13, <1>14, <1>15, <1>16
  DEF PfcpClientNext, Listener, T1Expiry

LEMMA TiesClient ==
    ASSUME OneSmf, IInv, IInv', Books, Books', Wire, Ties, NEW s \in Smf, PfcpClientNext(s),
           UNCHANGED serverVars
    PROVE  Ties'
<1>1. TypeOK /\ TypeOK'
  BY DEF IInv
<1>2. UNCHANGED <<upfRts, upfAssoc, sess>>
  BY DEF serverVars
<1>3. Ends(s)
  BY DEF Ties
<1>4. /\ \A a \in upfAssoc : a.smf = s /\ a.rts \in Nat
      /\ smfRts[s] \in Nat /\ peerRts[s] \in Nat /\ upfRts \in Nat /\ upfRts # 0
  BY <1>1, TheSmf
<1>5. CASE Start(s)
  <2>1. Ends(s)'
    BY <1>1, <1>2, <1>3, <1>4, <1>5, StartState DEF Ends, BelievesAssociated, Msgs
  <2> QED BY <1>2, <2>1 DEF Ties, OneSmf
<1>6. CASE Steady(s)
  <2>1. smfRts' = smfRts /\ (status'[s] = "run" => status[s] = "run")
    BY <1>6 DEF Steady
  <2>2. associated'[s] => \A m \in reqs' : m.kind # "SetupReq"
    BY <1>1, TheSmf DEF Books, Booked, TypeOK, PfcpClientTypeOK, Datagram, OneSmf
  <2>3. \A m \in net' : m.kind = "SetupReq" => m \in net \/ m \in reqs'
    BY <1>1, ClientNet
  <2>4. (associated'[s] /\ \A m \in Msgs : m.kind # "SetupReq") =>
            \A m \in Msgs' : m.kind # "SetupReq"
    BY <2>2, <2>3 DEF Msgs
  <2>5. Ends(s)'
    <3>1. CASE SamePeer(s)
      BY <1>2, <1>3, <1>4, <2>1, <2>4, <3>1 DEF Ends, SamePeer, BelievesAssociated, Agreed
    <3>2. CASE PeerRestartSeen(s)
      BY <1>2, <1>3, <1>4, <2>1, <3>2 DEF Ends, PeerRestartSeen, BelievesAssociated
    <3>3. CASE PeerSetUp(s)
      BY <1>2, <1>3, <1>4, <2>1, <3>3 DEF Ends, PeerSetUp, BelievesAssociated, Agreed
    <3>4. CASE PeerForgotten(s)
      BY <1>2, <1>3, <1>4, <2>1, <3>4 DEF Ends, PeerForgotten, BelievesAssociated
    <3> QED BY <3>1, <3>2, <3>3, <3>4, ClientPeer
  <2> QED BY <1>2, <2>5 DEF Ties, OneSmf
<1> QED BY <1>1, <1>5, <1>6, ClientSteady

-----------------------------------------------------------------------------
(* The wire and the two ends, through the steps of the UPF.                *)

(***************************************************************************)
(* What the server loop does to the association slot and to the sessions:  *)
(* neither an association of the running SMF incarnation nor its sessions  *)
(* go before that incarnation is about to end.                             *)
(***************************************************************************)
SlotKept ==
    /\ upfAssoc' = upfAssoc
    /\ DOMAIN sess' \subseteq DOMAIN sess \cup {k \in {nextSeid} : upfAssoc # {}}

SlotTaken(s) ==
    /\ \E m \in net : m.kind = "SetupReq"
    /\ upfAssoc' = {[smf |-> s, rts |-> smfRts[s]]}
    /\ DOMAIN sess' \subseteq DOMAIN sess
    /\ DOMAIN sess' = {} \/ \A a \in upfAssoc : a.rts = smfRts[s]

SlotCleared(s) ==
    /\ upfAssoc' = {}
    /\ DOMAIN sess' = {}
    /\ status[s] # "run" \/ \E a \in upfAssoc : a.rts # smfRts[s]

(***************************************************************************)
(* A response as the server loop sends it.                                 *)
(***************************************************************************)
TruthfulAnswer(s, a) ==
    /\ a.kind \in SmfResponses
    /\ a.kind \in {"SetupRsp", "HbRsp"} => a.rts = upfRts
    /\ a.kind = "EstRsp" /\ a.ok => a.inc = upfRts
    /\ a.kind = "SetupRsp" => upfAssoc' = {[smf |-> s, rts |-> smfRts[s]]}

LEMMA ServerSlot ==
    ASSUME OneSmf, IInv, Wire, NEW s \in Smf, ServerLoop
    PROVE  /\ SlotKept \/ SlotTaken(s) \/ SlotCleared(s)
           /\ \A a \in net' : a \in net \/ TruthfulAnswer(s, a)
           /\ upfRts' = upfRts
<1>1. TypeOK
  BY DEF IInv
<1>2. \A m \in net : m.smf = s /\ m \in Datagram
  BY <1>1, TheSmf
<1>3. \A a \in upfAssoc : a.smf = s
  BY <1>1, TheSmf
<1>4. ASSUME NEW m \in net, CheckPeerRecovery(m.smf, m.rts), m.rts = smfRts[s]
      PROVE  SlotKept \/ SlotCleared(s)
  BY <1>2, <1>4 DEF CheckPeerRecovery, PeerRestarted, PeerFailure, Nothing, SlotKept, SlotCleared
<1>5. ASSUME NEW m \in net, NEW rsp, Replies(m, rsp), TruthfulAnswer(s, rsp)
      PROVE  \A a \in net' : a \in net \/ TruthfulAnswer(s, a)
  BY <1>5, SentSubset DEF Replies, Respond, Refused
<1>6. CASE HandleHeartbeatRequest
  <2>1. PICK m \in net :
            /\ m.kind = "HbReq"
            /\ CheckPeerRecovery(m.smf, m.rts)
            /\ Respond(m, [Answer(m, TRUE) EXCEPT !.rts = upfRts])
            /\ upfRts' = upfRts
    BY <1>6 DEF HandleHeartbeatRequest, Receive
  <2>2. m.rts = smfRts[s]
    BY <1>2, <2>1 DEF Wire, Truthful
  <2>3. m.kind \in SmfRequests /\ RspOf(m.kind) = "HbRsp"
    BY <2>1 DEF SmfRequests, NodeRequests, RspOf
  <2>4. PICK a : a = [Answer(m, TRUE) EXCEPT !.rts = upfRts]
    OBVIOUS
  <2>5. a.kind = "HbRsp" /\ a.rts = upfRts
    BY <1>2, <2>3, <2>4 DEF Answer, Datagram
  <2>6. TruthfulAnswer(s, a)
    BY <2>5 DEF TruthfulAnswer, SmfResponses
  <2> QED BY <1>4, <1>5, <2>1, <2>2, <2>4, <2>6 DEF Replies
<1>7. CASE HandleHeartbeatResponse
  <2>1. PICK m \in net :
            /\ m.kind = "UHbRsp"
            /\ CheckPeerRecovery(m.smf, m.rts)
            /\ net' = net \ {m}
            /\ upfRts' = upfRts
    BY <1>7 DEF HandleHeartbeatResponse, Receive
  <2>2. m.rts = smfRts[s]
    BY <1>2, <2>1 DEF Wire, Truthful
  <2> QED BY <1>4, <2>1, <2>2
<1>8. CASE HandleAssociationSetupRequest
  <2>1. PICK m \in net :
            /\ m.kind = "SetupReq"
            /\ upfAssoc' = {[smf |-> m.smf, rts |-> m.rts]}
            /\ sess' = IF PeerRestarted(m.smf, m.rts) THEN Nothing ELSE sess
            /\ Respond(m, [Answer(m, TRUE) EXCEPT !.rts = upfRts])
            /\ upfRts' = upfRts
    BY <1>8 DEF HandleAssociationSetupRequest, Receive
  <2>2. m.rts = smfRts[s] /\ m.smf = s
    BY <1>2, <2>1 DEF Wire, Truthful
  <2>3. m.kind \in SmfRequests /\ RspOf(m.kind) = "SetupRsp"
    BY <2>1 DEF SmfRequests, NodeRequests, RspOf
  <2>4. PICK a : a = [Answer(m, TRUE) EXCEPT !.rts = upfRts]
    OBVIOUS
  <2>5. a.kind = "SetupRsp" /\ a.rts = upfRts
    BY <1>2, <2>3, <2>4 DEF Answer, Datagram
  <2>6. TruthfulAnswer(s, a)
    BY <2>1, <2>2, <2>5 DEF TruthfulAnswer, SmfResponses
  <2>7. SlotTaken(s)
    BY <1>3, <2>1, <2>2 DEF SlotTaken, PeerRestarted, Nothing
  <2> QED BY <1>5, <2>1, <2>4, <2>6, <2>7 DEF Replies
<1>9. CASE HandleAssociationReleaseRequest
  <2>1. PICK m \in net :
            /\ m.kind = "RelReq"
            /\ Replies(m, Answer(m, TRUE))
            /\ PeerFailure \/ UNCHANGED <<upfAssoc, sess>>
            /\ upfRts' = upfRts
    BY <1>9 DEF HandleAssociationReleaseRequest, Receive, Replies
  <2>2. status[s] # "run"
    BY <1>2, <2>1 DEF Wire, Truthful
  <2>3. m.kind \in SmfRequests /\ RspOf(m.kind) = "RelRsp"
    BY <2>1 DEF SmfRequests, NodeRequests, RspOf
  <2>4. TruthfulAnswer(s, Answer(m, TRUE))
    BY <1>2, <2>3 DEF TruthfulAnswer, SmfResponses, Answer, Datagram
  <2>5. SlotKept \/ SlotCleared(s)
    BY <2>1, <2>2 DEF PeerFailure, Nothing, SlotKept, SlotCleared
  <2> QED BY <1>5, <2>1, <2>4, <2>5
<1>10. CASE HandleSessionEstablishmentRequest
  <2>1. PICK m \in net :
            /\ m.kind = "EstReq"
            /\ \/ /\ Replies(m, Answer(m, FALSE))
                  /\ sess' = sess
               \/ /\ upfAssoc # {}
                  /\ Replies(m, [Answer(m, TRUE) EXCEPT !.seid = nextSeid, !.inc = upfRts])
                  /\ sess' = Put(sess, nextSeid, [smf |-> m.smf, ref |-> m.ref])
            /\ UNCHANGED <<upfRts, upfAssoc>>
    BY <1>10 DEF HandleSessionEstablishmentRequest, Receive, Replies
  <2>2. m.kind \in SmfRequests /\ RspOf(m.kind) = "EstRsp"
    BY <2>1 DEF SmfRequests, SessionRequests, RspOf
  <2>3. PICK a : /\ a = Answer(m, FALSE) \/ a = [Answer(m, TRUE) EXCEPT !.seid = nextSeid,
                                                                        !.inc = upfRts]
                 /\ Replies(m, a)
    BY <2>1
  <2>4. a.kind = "EstRsp" /\ (a.ok = FALSE \/ a.inc = upfRts)
    BY <1>2, <2>2, <2>3 DEF Answer, Datagram
  <2>5. TruthfulAnswer(s, a)
    BY <2>4 DEF TruthfulAnswer, SmfResponses
  <2>6. SlotKept
    BY <2>1 DEF SlotKept, Put
  <2> QED BY <1>5, <2>1, <2>3, <2>5, <2>6
<1>11. CASE HandleSessionModificationRequest \/ HandleSessionDeletionRequest
  <2>1. PICK m \in net :
            /\ m.kind \in {"ModReq", "DelReq"}
            /\ \E b : Replies(m, Answer(m, b))
            /\ sess' = sess \/ sess' = Without(sess, m.seid)
            /\ UNCHANGED <<upfRts, upfAssoc>>
    <3>1. CASE HandleSessionModificationRequest
      BY <3>1 DEF HandleSessionModificationRequest, Receive, Replies
    <3>2. CASE HandleSessionDeletionRequest
      BY <3>2 DEF HandleSessionDeletionRequest, Receive, Replies
    <3> QED BY <1>11, <3>1, <3>2
  <2>2. m.kind \in SmfRequests /\ RspOf(m.kind) \in {"ModRsp", "DelRsp"}
    BY <2>1 DEF SmfRequests, SessionRequests, RspOf
  <2>3. PICK a : Replies(m, a) /\ \E b : a = Answer(m, b)
    BY <2>1
  <2>4. a.kind = RspOf(m.kind)
    BY <1>2, <2>3 DEF Answer, Datagram
  <2>5. TruthfulAnswer(s, a)
    BY <2>2, <2>4 DEF TruthfulAnswer, SmfResponses
  <2>6. SlotKept
    BY <2>1 DEF SlotKept, Without
  <2> QED BY <1>5, <2>1, <2>3, <2>5, <2>6, Zenon
<1> QED
  BY <1>6, <1>7, <1>8, <1>9, <1>10, <1>11 DEF ServerLoop

LEMMA PairServerLoop ==
    ASSUME OneSmf, IInv, IInv', Wire, Ties, ServerLoop, UNCHANGED clientVars
    PROVE  Wire' /\ Ties'
<1>1. TypeOK /\ TypeOK'
  BY DEF IInv
<1>2. UNCHANGED <<status, smfRts, associated, peerRts, reqs, ctx, held>>
  BY DEF clientVars
<1>3. ASSUME NEW s \in Smf
      PROVE  (\A m \in net' : Truthful(m)') /\ Ends(s)' /\ Ties'
  <2>1. /\ SlotKept \/ SlotTaken(s) \/ SlotCleared(s)
        /\ \A a \in net' : a \in net \/ TruthfulAnswer(s, a)
        /\ upfRts' = upfRts
    BY ServerSlot
  <2>2. \A m \in net' : m.smf = s
    BY <1>1, TheSmf DEF TypeOK, Datagram, OneSmf
  <2>3. ASSUME NEW m \in net'
        PROVE  Truthful(m)'
    <3>1. CASE m \in net
      BY <1>2, <2>1, <2>2, <3>1
      DEF Wire, Truthful, SlotKept, SlotTaken, SlotCleared
    <3>2. CASE TruthfulAnswer(s, m)
      BY <1>2, <2>1, <2>2, <3>2 DEF Truthful, TruthfulAnswer, SmfResponses
    <3> QED BY <2>1, <3>1, <3>2
  <2>4. Ends(s)'
    <3>1. Ends(s) /\ smfRts[s] \in Nat
      BY <1>1, TheSmf DEF Ties
    <3>2. (\A m \in Msgs : m.kind # "SetupReq") => \A m \in Msgs' : m.kind # "SetupReq"
      BY <1>2, <2>1 DEF Msgs, TruthfulAnswer, SmfResponses
    <3>3. CASE SlotKept
      BY <1>2, <2>1, <3>1, <3>2, <3>3 DEF Ends, SlotKept, BelievesAssociated, Agreed
    <3>4. CASE SlotTaken(s)
      <4>1. ~(\A m \in Msgs : m.kind # "SetupReq")
        BY <3>4 DEF SlotTaken, Msgs
      <4> QED BY <1>2, <2>1, <3>1, <3>4, <4>1 DEF Ends, SlotTaken, BelievesAssociated, Agreed
    <3>5. CASE SlotCleared(s)
      BY <1>2, <2>1, <3>1, <3>2, <3>5 DEF Ends, SlotCleared, BelievesAssociated, Agreed
    <3> QED BY <2>1, <3>3, <3>4, <3>5
  <2>5. Ties'
    <3>1. nextSeid # 0
      BY <1>1 DEF TypeOK, PfcpServerTypeOK
    <3>2. \A t \in Smf : Ends(t)'
      BY <2>4 DEF OneSmf
    <3>3. (upfAssoc' = {} => DOMAIN sess' = {}) /\ 0 \notin DOMAIN sess'
      BY <2>1, <3>1 DEF Ties, SlotKept, SlotTaken, SlotCleared
    <3> QED BY <3>2, <3>3 DEF Ties
  <2> QED BY <2>3, <2>4, <2>5
<1> QED BY <1>3, SmfAssumption DEF Wire

(***************************************************************************)
(* The UPF's heartbeat task, its restart, and steps that only take         *)
(* datagrams out of flight.                                                *)
(***************************************************************************)
LEMMA PairHeartbeat ==
    ASSUME OneSmf, IInv, Wire, Ties, SendHeartbeatRequest, UNCHANGED clientVars
    PROVE  Wire' /\ Ties'
<1>1. PICK f : net' = Sent(net, f) /\ f.kind = "UHbReq" /\ f.rts = upfRts
  <2>1. PICK a \in upfAssoc :
            net' = Sent(net, [Request("UHbReq", a.smf, NoSeq) EXCEPT !.att = 0, !.rts = upfRts])
    BY DEF SendHeartbeatRequest
  <2>2. PICK f : f = [Request("UHbReq", a.smf, NoSeq) EXCEPT !.att = 0, !.rts = upfRts]
    OBVIOUS
  <2>3. f.kind = "UHbReq" /\ f.rts = upfRts
    BY <2>2 DEF Request
  <2> QED BY <2>1, <2>2, <2>3
<1>2. \A m \in net' : m \in net \/ m = f
  BY <1>1, SentSubset
<1>3. UNCHANGED <<upfRts, upfAssoc, sess, status, smfRts, associated, peerRts, reqs, ctx, held>>
  BY DEF SendHeartbeatRequest, serverVars, clientVars
<1>4. Wire'
  BY <1>1, <1>2, <1>3 DEF Wire, Truthful
<1>5. (\A m \in Msgs : m.kind # "SetupReq") => \A m \in Msgs' : m.kind # "SetupReq"
  BY <1>1, <1>2, <1>3 DEF Msgs
<1>6. Ties'
  BY <1>3, <1>5 DEF Ties, Ends, BelievesAssociated, Agreed
<1> QED BY <1>4, <1>6

LEMMA PairUpfRestart ==
    ASSUME OneSmf, IInv, Wire, Ties, Books, UpfRestart, UNCHANGED clientVars
    PROVE  Wire' /\ Ties'
<1>1. TypeOK
  BY DEF IInv
<1>2. /\ net' = {} /\ upfAssoc' = {} /\ DOMAIN sess' = {} /\ upfRts' = upfRts + 1
      /\ UNCHANGED <<status, smfRts, associated, peerRts, reqs, ctx, held>>
  BY DEF UpfRestart, clientVars, Nothing
<1>3. ASSUME NEW s \in Smf
      PROVE  Ends(s)'
  <2>1. peerRts[s] \in Nat /\ upfRts \in Nat /\ peerRts[s] <= upfRts
    BY <1>1, TheSmf DEF Ties, Ends
  <2>2. peerRts[s] # upfRts' /\ peerRts[s] <= upfRts'
    BY <1>2, <2>1
  <2>3. associated[s] => \A m \in reqs : m.kind # "SetupReq"
    BY <1>1, TheSmf DEF Books, Booked
  <2> QED BY <1>2, <2>2, <2>3 DEF Ends, BelievesAssociated, Msgs
<1> QED BY <1>2, <1>3 DEF Wire, Ties

LEMMA PairFewer ==
    ASSUME Wire, Ties, net' \subseteq net, UNCHANGED clientVars,
           UNCHANGED <<upfRts, upfAssoc, sess>>
    PROVE  Wire' /\ Ties'
<1>1. UNCHANGED <<status, smfRts, associated, peerRts, reqs, ctx, held>>
  BY DEF clientVars
<1>2. Wire'
  BY <1>1 DEF Wire, Truthful
<1>3. Msgs' \subseteq Msgs
  BY <1>1 DEF Msgs
<1>4. Ties'
  BY <1>1, <1>3 DEF Ties, Ends, BelievesAssociated, Agreed
<1> QED BY <1>2, <1>4

LEMMA PairInit == Init => PairInv
<1> SUFFICES ASSUME Init PROVE PairInv
  OBVIOUS
<1>1. /\ net = {} /\ reqs = {} /\ upfAssoc = {} /\ DOMAIN sess = {} /\ upfRts = 1
      /\ \A s \in Smf : /\ status[s] = "run" /\ ~associated[s] /\ peerRts[s] = 0
                        /\ \A r \in Ref : ctx[s][r] = "free" /\ held[s][r].seid = 0
  BY DEF Init, PfcpClientInit, PfcpServerInit, Nothing, NoSessions, NoSeid
<1> QED BY <1>1 DEF PairInv, Books, KnowsPeer, Wire, Ties, Ends, BelievesAssociated

LEMMA PairNext ==
    ASSUME OneSmf, IInv, IInv', PairInv, [Next]_vars
    PROVE  PairInv'
<1>1. Books /\ Wire /\ Ties
  BY DEF PairInv
<1>2. Books'
  BY <1>1, BooksNext
<1>3. ASSUME NEW s \in Smf, PfcpClientNext(s), UNCHANGED serverVars
      PROVE  Wire' /\ Ties'
  BY <1>1, <1>2, <1>3, WireClient, TiesClient
<1>4. ASSUME PfcpServerNext, UNCHANGED clientVars
      PROVE  Wire' /\ Ties'
  <2>1. CASE HandleSessionEvent
    BY <1>1, <1>4, <2>1, PairFewer DEF HandleSessionEvent
  <2> QED BY <1>1, <1>4, <2>1, PairServerLoop, PairHeartbeat, PairUpfRestart DEF PfcpServerNext
<1>5. ASSUME Lose \/ net' = net, UNCHANGED <<clientVars, serverVars>>
      PROVE  Wire' /\ Ties'
  BY <1>1, <1>5, PairFewer DEF Lose, serverVars
<1>6. Wire' /\ Ties'
  BY <1>3, <1>4, <1>5 DEF Next, vars
<1> QED BY <1>2, <1>6 DEF PairInv

LEMMA PairInvariance ==
    ASSUME OneSmf
    PROVE  Spec => []PairInv
<1>1. PairInv /\ IInv /\ IInv' /\ [Next]_vars => PairInv'
  BY PairNext
<1> QED BY <1>1, PairInit, Invariance, PTL DEF Spec

(***************************************************************************)
(* With one SMF the two ends agree on the association: an SMF that         *)
(* believes in one with the running UPF incarnation is the peer that the   *)
(* UPF has stored, in its present incarnation (associate,                  *)
(* check_peer_restart, handle_association_setup_request,                   *)
(* declare_peer_failure).                                                  *)
(***************************************************************************)
THEOREM AssociationAgreed ==
    ASSUME OneSmf
    PROVE  Spec => []AssocAgreement
<1>1. PairInv => AssocAgreement
  BY DEF PairInv, Ties, Ends, AssocAgreement
<1> QED BY <1>1, PairInvariance, PTL

(***************************************************************************)
(* With one SMF, while it is associated no SEID it has stored leads to     *)
(* another context's session, although the UPF numbers its sessions from 1 *)
(* again when it restarts: until the SMF has seen the restart, the UPF has *)
(* no association and so no session (lookup_upf_seid, alloc_seid).         *)
(***************************************************************************)
THEOREM SeidsDoNotAlias ==
    ASSUME OneSmf
    PROVE  Spec => []NoSeidAliasing
<1>1. IInv /\ PairInv => NoSeidAliasing
  <2> SUFFICES ASSUME IInv, PairInv, NEW s \in Smf, NEW r \in Ref,
                      associated[s], held[s][r].seid \in DOMAIN sess
               PROVE  sess[held[s][r].seid] = [smf |-> s, ref |-> r]
    BY DEF NoSeidAliasing
  <2>1. Ends(s) /\ held[s][r].seid # 0 /\ upfAssoc # {}
    BY DEF PairInv, Ties
  <2>2. held[s][r].inc = upfRts
    BY <2>1 DEF Ends
  <2> QED BY <2>2 DEF IInv, SeidInv, Sound
<1> QED BY <1>1, Invariance, PairInvariance, PTL

-----------------------------------------------------------------------------
(* Orphans: how many sessions one SM context can leave in the UPF.         *)

(***************************************************************************)
(* The sessions of a context, and its establishment requests in flight,    *)
(* each of which may still become one.                                     *)
(***************************************************************************)
SessOf(s, r) == {k \in DOMAIN sess : sess[k] = [smf |-> s, ref |-> r]}
EstOf(s, r) == {m \in net : m.kind = "EstReq" /\ m.smf = s /\ m.ref = r}
Load(s, r) == Cardinality(SessOf(s, r)) + Cardinality(EstOf(s, r))

(***************************************************************************)
(* The association slot is free or names the present incarnation of s.     *)
(***************************************************************************)
SlotCurrent(s) == \A a \in upfAssoc : a.rts = smfRts[s]

(***************************************************************************)
(* A context that has asked for nothing has nothing in the UPF, as soon as *)
(* the UPF knows the present incarnation; and while its establishment      *)
(* request is pending, no more than the request's transmissions.           *)
(***************************************************************************)
Counted(s, r) ==
    /\ IsFiniteSet(SessOf(s, r)) /\ IsFiniteSet(EstOf(s, r))
    /\ Load(s, r) <= N1 + 1
    /\ status[s] # "down" /\ ctx[s][r] = "free" /\ SlotCurrent(s) => Load(s, r) = 0
    /\ \A x \in reqs : x.kind = "EstReq" /\ x.ref = r => Load(s, r) <= x.att

CountInv == \A s \in Smf, r \in Ref : Counted(s, r)

(***************************************************************************)
(* Cardinalities: a sum of fewer, one element more, one fewer.             *)
(***************************************************************************)
LEMMA SumFewer ==
    ASSUME NEW A, NEW B, NEW A2, NEW B2, IsFiniteSet(A), IsFiniteSet(B),
           A2 \subseteq A, B2 \subseteq B
    PROVE  /\ IsFiniteSet(A2) /\ IsFiniteSet(B2)
           /\ Cardinality(A2) + Cardinality(B2) <= Cardinality(A) + Cardinality(B)
           /\ Cardinality(A2) + Cardinality(B2) \in Nat
           /\ Cardinality(A) + Cardinality(B) \in Nat
<1>1. /\ IsFiniteSet(A2) /\ Cardinality(A2) <= Cardinality(A)
      /\ IsFiniteSet(B2) /\ Cardinality(B2) <= Cardinality(B)
  BY FS_Subset
<1>2. /\ Cardinality(A) \in Nat /\ Cardinality(A2) \in Nat
      /\ Cardinality(B) \in Nat /\ Cardinality(B2) \in Nat
  BY <1>1, FS_CardinalityType
<1> QED BY <1>1, <1>2

LEMMA OneElementMore ==
    ASSUME NEW A, NEW A2, NEW x, IsFiniteSet(A), A2 \subseteq A \cup {x}
    PROVE  /\ IsFiniteSet(A2)
           /\ Cardinality(A2) \in Nat /\ Cardinality(A) \in Nat
           /\ Cardinality(A2) <= Cardinality(A) + 1
<1>1. /\ IsFiniteSet(A \cup {x}) /\ Cardinality(A) \in Nat
      /\ Cardinality(A \cup {x}) = Cardinality(A) \/ Cardinality(A \cup {x}) = Cardinality(A) + 1
  BY FS_AddElement, FS_CardinalityType
<1>2. IsFiniteSet(A2) /\ Cardinality(A2) <= Cardinality(A \cup {x})
  BY <1>1, FS_Subset
<1>3. Cardinality(A2) \in Nat
  BY <1>2, FS_CardinalityType
<1> QED BY <1>1, <1>2, <1>3

LEMMA SumOneMore ==
    ASSUME NEW A, NEW B, NEW A2, NEW B2, NEW x, IsFiniteSet(A), IsFiniteSet(B),
           A2 \subseteq A, B2 \subseteq B \cup {x}
    PROVE  /\ IsFiniteSet(A2) /\ IsFiniteSet(B2)
           /\ Cardinality(A2) + Cardinality(B2) <= Cardinality(A) + Cardinality(B) + 1
           /\ Cardinality(A2) + Cardinality(B2) \in Nat
           /\ Cardinality(A) + Cardinality(B) \in Nat
<1>1. /\ IsFiniteSet(B2) /\ Cardinality(B2) \in Nat /\ Cardinality(B) \in Nat
      /\ Cardinality(B2) <= Cardinality(B) + 1
  BY OneElementMore
<1>2. IsFiniteSet(A2) /\ Cardinality(A2) <= Cardinality(A)
  BY FS_Subset
<1>3. Cardinality(A) \in Nat /\ Cardinality(A2) \in Nat
  BY <1>2, FS_CardinalityType
<1> QED BY <1>1, <1>2, <1>3

LEMMA OneElementFewer ==
    ASSUME NEW B, NEW B2, NEW y, IsFiniteSet(B), y \in B, B2 \subseteq B \ {y}
    PROVE  /\ IsFiniteSet(B2)
           /\ Cardinality(B2) \in Nat /\ Cardinality(B) \in Nat
           /\ Cardinality(B2) + 1 <= Cardinality(B)
<1>1. IsFiniteSet(B \ {y}) /\ Cardinality(B \ {y}) = Cardinality(B) - 1
  BY FS_RemoveElement
<1>2. IsFiniteSet(B2) /\ Cardinality(B2) <= Cardinality(B \ {y})
  BY <1>1, FS_Subset
<1>3. Cardinality(B) \in Nat /\ Cardinality(B2) \in Nat
  BY <1>2, FS_CardinalityType
<1> QED BY <1>1, <1>2, <1>3

LEMMA NoLoad ==
    ASSUME NEW s, NEW r, SessOf(s, r) = {}, EstOf(s, r) = {}
    PROVE  /\ IsFiniteSet(SessOf(s, r)) /\ IsFiniteSet(EstOf(s, r))
           /\ Load(s, r) = 0
<1>1. IsFiniteSet({}) /\ Cardinality({}) = 0
  BY FS_EmptySet
<1> QED BY <1>1 DEF Load

(***************************************************************************)
(* Who sends establishment requests: the creation of a context, and T1.    *)
(***************************************************************************)
NoEstSent ==
    /\ \A m \in net' : m.kind = "EstReq" => m \in net
    /\ \A x \in reqs' : x.kind = "EstReq" => x \in reqs

LEMMA ClientEst ==
    ASSUME OneSmf, TypeOK, NEW s \in Smf, PfcpClientNext(s)
    PROVE  NoEstSent \/ (\E r \in Ref : SmContextCreate(s, r)) \/ T1Retransmit(s)
<1>1. CASE net' \subseteq net /\ reqs' \subseteq reqs
  BY <1>1 DEF NoEstSent
<1>2. ASSUME NEW f, f.kind # "EstReq", net' = Sent(net, f), reqs' \subseteq reqs \cup {f}
      PROVE  NoEstSent
  BY <1>2, SentSubset DEF NoEstSent
<1>3. CASE Maintenance(s)
  <2>1. CASE net' = net /\ reqs' = reqs
    BY <1>1, <2>1
  <2>2. CASE \E kind \in {"SetupReq", "HbReq"}, q \in SeqNo :
                Transmit([Request(kind, s, q) EXCEPT !.rts = smfRts[s]])
    <3>1. PICK kind \in {"SetupReq", "HbReq"}, q \in SeqNo :
              Transmit([Request(kind, s, q) EXCEPT !.rts = smfRts[s]])
      BY <2>2
    <3>2. PICK f : f = [Request(kind, s, q) EXCEPT !.rts = smfRts[s]]
      OBVIOUS
    <3>3. f.kind # "EstReq"
      BY <3>2 DEF Request
    <3> QED BY <1>2, <3>1, <3>2, <3>3 DEF Transmit
  <2> QED BY <1>3, <2>1, <2>2 DEF Maintenance, MaintainAssociate, MaintainHeartbeat
<1>4. CASE OnHeartbeatRequest(s)
  <2>1. PICK x \in net :
            /\ net' = Sent(net \ {x}, [x EXCEPT !.kind = "UHbRsp", !.rts = smfRts[s]])
            /\ reqs' = reqs
    BY <1>4 DEF OnHeartbeatRequest
  <2>2. PICK f : f = [x EXCEPT !.kind = "UHbRsp", !.rts = smfRts[s]]
    OBVIOUS
  <2>3. x \in Datagram
    BY TheSmf
  <2>4. f.kind = "UHbRsp"
    BY <2>2, <2>3 DEF Datagram
  <2>5. \A m \in net' : m \in net \/ m = f
    BY <2>1, <2>2, SentSubset
  <2> QED BY <2>1, <2>4, <2>5 DEF NoEstSent
<1>5. CASE Listener(s) /\ ~OnHeartbeatRequest(s)
  BY <1>1, <1>5 DEF Listener, OnSetupResponse, OnHeartbeatResponse, OnEstablishmentResponse,
     OnModificationResponse, OnDeletionResponse, DropLateResponse, ListenerStops, Completes
<1>6. CASE NodeRequestFails(s) \/ SessionRequestFails(s)
  BY <1>1, <1>6 DEF NodeRequestFails, SessionRequestFails, RequestFails
<1>7. CASE SmContextHandlers(s)
  <2>1. PICK r \in Ref :
            \/ SmContextCreate(s, r)
            \/ \E what \in {"activate", "other"} : SmContextUpdate(s, r, what)
            \/ SmContextRelease(s, r)
    BY <1>7 DEF SmContextHandlers
  <2>2. CASE \E what \in {"activate", "other"} : SmContextUpdate(s, r, what)
    <3>1. PICK what, q : Transmit([SessionRequest("ModReq", s, q, r) EXCEPT
                                      !.tun = (what = "activate")])
      BY <2>2 DEF SmContextUpdate
    <3>2. PICK f : f = [SessionRequest("ModReq", s, q, r) EXCEPT !.tun = (what = "activate")]
      OBVIOUS
    <3>3. f.kind # "EstReq"
      BY <3>2 DEF Request, SessionRequest
    <3>4. Transmit(f)
      BY <3>1, <3>2, Zenon
    <3> QED BY <1>2, <3>3, <3>4 DEF Transmit
  <2>3. CASE SmContextRelease(s, r)
    <3>1. CASE net' = net /\ reqs' = reqs
      BY <1>1, <3>1
    <3>2. CASE \E q \in SeqNo : Transmit(SessionRequest("DelReq", s, q, r))
      <4>1. PICK q \in SeqNo : Transmit(SessionRequest("DelReq", s, q, r))
        BY <3>2
      <4>2. SessionRequest("DelReq", s, q, r).kind # "EstReq"
        BY DEF Request, SessionRequest
      <4> QED BY <1>2, <4>1, <4>2 DEF Transmit
    <3> QED BY <2>3, <3>1, <3>2 DEF SmContextRelease
  <2> QED BY <2>1, <2>2, <2>3
<1>8. CASE Shutdown(s)
  <2>1. CASE ~associated[s]
    BY <1>1, <1>8, <2>1 DEF Shutdown, ProcessGone
  <2>2. CASE associated[s]
    <3>1. PICK q \in SeqNo :
              /\ reqs' \subseteq reqs \cup {Request("RelReq", s, q)}
              /\ net' = Sent(net, Request("RelReq", s, q))
      BY <1>8, <2>2 DEF Shutdown
    <3>2. Request("RelReq", s, q).kind # "EstReq"
      BY DEF Request
    <3> QED BY <1>2, <3>1, <3>2
  <2> QED BY <2>1, <2>2
<1>9. CASE ReleaseDone(s) \/ Crash(s) \/ Start(s)
  BY <1>1, <1>9 DEF ReleaseDone, Crash, Start, ProcessGone
<1> QED
  BY <1>3, <1>4, <1>5, <1>6, <1>7, <1>8, <1>9 DEF PfcpClientNext, T1Expiry, Process

(***************************************************************************)
(* While no establishment request is sent, no load is added.               *)
(***************************************************************************)
LEMMA CountQuiet ==
    ASSUME TypeOK, NEW s \in Smf, NEW r \in Ref, Counted(s, r), NoEstSent, sess' = sess
    PROVE  /\ IsFiniteSet(SessOf(s, r))' /\ IsFiniteSet(EstOf(s, r))'
           /\ Load(s, r)' <= Load(s, r)
           /\ Load(s, r) \in Nat /\ Load(s, r)' \in Nat
<1>1. SessOf(s, r)' \subseteq SessOf(s, r) /\ EstOf(s, r)' \subseteq EstOf(s, r)
  BY DEF NoEstSent, SessOf, EstOf
<1> QED BY <1>1, SumFewer DEF Counted, Load

LEMMA CountClient ==
    ASSUME OneSmf, IInv, IInv', PairInv, PairInv', CountInv,
           NEW s \in Smf, PfcpClientNext(s), UNCHANGED serverVars
    PROVE  CountInv'
<1>1. TypeOK /\ TypeOK' /\ Books /\ Books' /\ Wire /\ Ends(s) /\ KnowsPeer(s)
  BY DEF IInv, PairInv, Ties, Books
<1>2. UNCHANGED <<upfRts, upfAssoc, sess>>
  BY DEF serverVars
<1>3. /\ \A x \in reqs : x.smf = s /\ x \in Datagram
      /\ \A a \in upfAssoc : a.rts \in Nat
      /\ smfRts[s] \in Nat
  BY <1>1, TheSmf
<1>4. SUFFICES ASSUME NEW r \in Ref
               PROVE  Counted(s, r)'
  BY DEF CountInv, OneSmf
<1>5. Counted(s, r)
  BY DEF CountInv
<1>6. CASE Start(s)
  <2>1. /\ net' = {} /\ reqs' = {} /\ status[s] = "down" /\ smfRts'[s] = smfRts[s] + 1
    BY <1>1, <1>6, StartState
  <2>2. NoEstSent
    BY <2>1 DEF NoEstSent
  <2>3. /\ IsFiniteSet(SessOf(s, r))' /\ IsFiniteSet(EstOf(s, r))'
        /\ Load(s, r)' <= Load(s, r)
        /\ Load(s, r) \in Nat /\ Load(s, r)' \in Nat
    BY <1>1, <1>2, <1>5, <2>2, CountQuiet
  <2>4. ASSUME SlotCurrent(s)'
        PROVE  Load(s, r)' = 0
    <3>1. \A a \in upfAssoc : a.rts = smfRts[s] + 1 /\ a.rts <= smfRts[s]
      BY <1>1, <1>2, <2>1, <2>4 DEF SlotCurrent, Ends
    <3>2. upfAssoc = {}
      BY <1>3, <3>1
    <3>3. DOMAIN sess = {}
      BY <3>2 DEF PairInv, Ties
    <3>4. SessOf(s, r)' = {} /\ EstOf(s, r)' = {}
      BY <1>2, <2>1, <3>3 DEF SessOf, EstOf
    <3>5. Cardinality({}) = 0
      BY FS_EmptySet
    <3> QED BY <3>4, <3>5 DEF Load
  <2> QED BY <1>5, <2>1, <2>3, <2>4, N1Assumption DEF Counted
<1>7. CASE Steady(s) /\ NoEstSent
  <2>1. /\ IsFiniteSet(SessOf(s, r))' /\ IsFiniteSet(EstOf(s, r))'
        /\ Load(s, r)' <= Load(s, r)
        /\ Load(s, r) \in Nat /\ Load(s, r)' \in Nat
    BY <1>1, <1>2, <1>5, <1>7, CountQuiet
  <2>2. (status[s] # "down" /\ ctx[s][r] = "free" /\ SlotCurrent(s))' =>
            status[s] # "down" /\ ctx[s][r] = "free" /\ SlotCurrent(s)
    BY <1>2, <1>7 DEF Steady, SlotCurrent
  <2>3. Load(s, r)' <= N1 + 1
    BY <1>5, <2>1, N1Assumption DEF Counted
  <2>4. (status[s] # "down" /\ ctx[s][r] = "free" /\ SlotCurrent(s))' => Load(s, r)' = 0
    BY <1>5, <2>1, <2>2 DEF Counted
  <2>5. ASSUME NEW x \in reqs', x.kind = "EstReq", x.ref = r
        PROVE  Load(s, r)' <= x.att
    <3>1. x \in reqs /\ x.att \in Nat
      BY <1>3, <1>7, <2>5, N1Assumption DEF NoEstSent, Datagram
    <3> QED BY <1>5, <2>1, <2>5, <3>1 DEF Counted
  <2> QED BY <2>1, <2>3, <2>4, <2>5 DEF Counted
<1>8. CASE \E y \in Ref : SmContextCreate(s, y)
  <2>1. PICK y \in Ref : SmContextCreate(s, y)
    BY <1>8
  <2>2. PICK q \in SeqNo : Transmit([Request("EstReq", s, q) EXCEPT !.ref = y])
    BY <2>1 DEF SmContextCreate
  <2>3. PICK f : f = [Request("EstReq", s, q) EXCEPT !.ref = y]
    OBVIOUS
  <2>4. f.kind = "EstReq" /\ f.smf = s /\ f.ref = y /\ f.att = 1
    BY <2>3 DEF Request
  <2>5. reqs' = reqs \cup {f} /\ \A m \in net' : m \in net \/ m = f
    BY <2>2, <2>3, SentSubset DEF Transmit
  <2>6. /\ status[s] # "down" /\ ctx[s][y] = "free" /\ associated[s]
        /\ ctx' = [ctx EXCEPT ![s][y] = "est"]
        /\ UNCHANGED <<status, smfRts>>
    BY <2>1 DEF SmContextCreate
  <2>7. /\ ctx'[s][y] = "est"
        /\ \A x \in Ref : x # y => ctx'[s][x] = ctx[s][x]
    BY <1>1, <2>6 DEF TypeOK, PfcpClientTypeOK
  <2>8. CASE r = y
    <3>1. SlotCurrent(s)
      BY <1>1, <2>6 DEF KnowsPeer, Ends, SlotCurrent
    <3>2. Load(s, r) = 0
      BY <1>5, <2>6, <2>8, <3>1 DEF Counted
    <3>3. SessOf(s, r)' \subseteq SessOf(s, r) /\ EstOf(s, r)' \subseteq EstOf(s, r) \cup {f}
      BY <1>2, <2>5 DEF SessOf, EstOf
    <3>4. /\ IsFiniteSet(SessOf(s, r))' /\ IsFiniteSet(EstOf(s, r))'
          /\ Load(s, r)' <= Load(s, r) + 1 /\ Load(s, r)' \in Nat
      BY <1>5, <3>3, SumOneMore DEF Counted, Load
    <3>5. Load(s, r)' <= 1
      BY <3>2, <3>4
    <3>6. \A x \in reqs' : x.kind = "EstReq" /\ x.ref = r => x = f
      BY <1>1, <1>3, <2>5, <2>6, <2>8 DEF Books, Booked
    <3>7. Load(s, r)' <= N1 + 1
      BY <3>4, <3>5, N1Assumption
    <3> QED BY <2>4, <2>7, <2>8, <3>4, <3>5, <3>6, <3>7 DEF Counted
  <2>9. CASE r # y
    <3>1. SessOf(s, r)' \subseteq SessOf(s, r) /\ EstOf(s, r)' \subseteq EstOf(s, r)
      BY <1>2, <2>4, <2>5, <2>9 DEF SessOf, EstOf
    <3>2. /\ IsFiniteSet(SessOf(s, r))' /\ IsFiniteSet(EstOf(s, r))'
          /\ Load(s, r)' <= Load(s, r)
          /\ Load(s, r) \in Nat /\ Load(s, r)' \in Nat
      BY <1>5, <3>1, SumFewer DEF Counted, Load
    <3>3. Load(s, r)' <= N1 + 1
      BY <1>5, <3>2, N1Assumption DEF Counted
    <3>4. (status[s] # "down" /\ ctx[s][r] = "free" /\ SlotCurrent(s))' => Load(s, r)' = 0
      BY <1>2, <1>5, <2>6, <2>7, <2>9, <3>2 DEF Counted, SlotCurrent
    <3>5. ASSUME NEW x \in reqs', x.kind = "EstReq", x.ref = r
          PROVE  Load(s, r)' <= x.att
      <4>1. x \in reqs /\ x.att \in Nat
        BY <1>3, <2>4, <2>5, <2>9, <3>5, N1Assumption DEF Datagram
      <4> QED BY <1>5, <3>2, <3>5, <4>1 DEF Counted
    <3> QED BY <3>2, <3>3, <3>4, <3>5 DEF Counted
  <2> QED BY <2>8, <2>9
<1>9. CASE T1Retransmit(s)
  <2>1. PICK z \in reqs :
            /\ z.att <= N1
            /\ reqs' = (reqs \ {z}) \cup {[z EXCEPT !.att = @ + 1]}
            /\ net' = Sent(net, [z EXCEPT !.att = @ + 1])
            /\ UNCHANGED <<status, smfRts, ctx>>
    BY <1>9 DEF T1Retransmit
  <2>2. PICK f : f = [z EXCEPT !.att = @ + 1]
    OBVIOUS
  <2>3. /\ f.kind = z.kind /\ f.smf = z.smf /\ f.ref = z.ref /\ f.att = z.att + 1
        /\ z.att \in Nat
    BY <1>3, <2>2, N1Assumption DEF Datagram
  <2>4. /\ \A x \in reqs' : (x \in reqs /\ x # z) \/ x = f
        /\ \A m \in net' : m \in net \/ m = f
    BY <2>1, <2>2, SentSubset
  <2>5. \A x \in reqs : x.att \in Nat
    BY <1>3, N1Assumption DEF Datagram
  <2>6. (status[s] # "down" /\ ctx[s][r] = "free" /\ SlotCurrent(s))' =>
            status[s] # "down" /\ ctx[s][r] = "free" /\ SlotCurrent(s)
    BY <1>2, <2>1 DEF SlotCurrent
  <2>7. CASE z.kind = "EstReq" /\ z.ref = r
    <3>1. SessOf(s, r)' \subseteq SessOf(s, r) /\ EstOf(s, r)' \subseteq EstOf(s, r) \cup {f}
      BY <1>2, <2>4 DEF SessOf, EstOf
    <3>2. /\ IsFiniteSet(SessOf(s, r))' /\ IsFiniteSet(EstOf(s, r))'
          /\ Load(s, r)' <= Load(s, r) + 1
          /\ Load(s, r) \in Nat /\ Load(s, r)' \in Nat
      BY <1>5, <3>1, SumOneMore DEF Counted, Load
    <3>3. Load(s, r) <= z.att
      BY <1>5, <2>7 DEF Counted
    <3>4. Load(s, r)' <= f.att /\ Load(s, r)' <= N1 + 1
      BY <2>1, <2>3, <3>2, <3>3, N1Assumption
    <3>5. \A x \in reqs' : x.kind = "EstReq" /\ x.ref = r => x = f
      BY <1>1, <2>4, <2>7, NoRivalLeft DEF Rivals
    <3>6. ctx[s][r] = "est"
      BY <1>1, <1>3, <2>7 DEF Books, Booked
    <3> QED BY <2>6, <3>2, <3>4, <3>5, <3>6 DEF Counted
  <2>8. CASE ~(z.kind = "EstReq" /\ z.ref = r)
    <3>1. SessOf(s, r)' \subseteq SessOf(s, r) /\ EstOf(s, r)' \subseteq EstOf(s, r)
      BY <1>2, <2>3, <2>4, <2>8 DEF SessOf, EstOf
    <3>2. /\ IsFiniteSet(SessOf(s, r))' /\ IsFiniteSet(EstOf(s, r))'
          /\ Load(s, r)' <= Load(s, r)
          /\ Load(s, r) \in Nat /\ Load(s, r)' \in Nat
      BY <1>5, <3>1, SumFewer DEF Counted, Load
    <3>3. Load(s, r)' <= N1 + 1
      BY <1>5, <3>2, N1Assumption DEF Counted
    <3>4. (status[s] # "down" /\ ctx[s][r] = "free" /\ SlotCurrent(s))' => Load(s, r)' = 0
      BY <1>5, <2>6, <3>2 DEF Counted
    <3>5. ASSUME NEW x \in reqs', x.kind = "EstReq", x.ref = r
          PROVE  Load(s, r)' <= x.att
      <4>1. x \in reqs
        BY <2>3, <2>4, <2>8, <3>5
      <4> QED BY <1>5, <2>5, <3>2, <3>5, <4>1 DEF Counted
    <3> QED BY <3>2, <3>3, <3>4, <3>5 DEF Counted
  <2> QED BY <2>7, <2>8
<1>10. ~Steady(s) => Start(s)
  BY <1>1, ClientSteady
<1> QED BY <1>1, <1>6, <1>7, <1>8, <1>9, <1>10, ClientEst

(***************************************************************************)
(* An accepted establishment turns one request in flight into one session; *)
(* no other step of the server loop adds a session.                        *)
(***************************************************************************)
LEMMA LoadServerLoop ==
    ASSUME OneSmf, IInv, PairInv, NEW s \in Smf, NEW r \in Ref, Counted(s, r), ServerLoop
    PROVE  /\ IsFiniteSet(SessOf(s, r))' /\ IsFiniteSet(EstOf(s, r))'
           /\ Load(s, r)' <= Load(s, r)
           /\ Load(s, r) \in Nat /\ Load(s, r)' \in Nat
<1>1. TypeOK /\ Wire
  BY DEF IInv, PairInv
<1>2. \A m \in net' : m.kind = "EstReq" => m \in net
  BY <1>1, ServerSlot DEF TruthfulAnswer, SmfResponses
<1>3. EstOf(s, r)' \subseteq EstOf(s, r)
  BY <1>2 DEF EstOf
<1>4. CASE \A k \in DOMAIN sess' : k \in DOMAIN sess /\ sess'[k] = sess[k]
  <2>1. SessOf(s, r)' \subseteq SessOf(s, r)
    BY <1>4 DEF SessOf
  <2> QED BY <1>3, <2>1, SumFewer DEF Counted, Load
<1>5. CASE HandleSessionEstablishmentRequest /\ sess' # sess
  <2>1. PICK m \in net :
            /\ m.kind = "EstReq"
            /\ Respond(m, [Answer(m, TRUE) EXCEPT !.seid = nextSeid, !.inc = upfRts])
            /\ sess' = Put(sess, nextSeid, [smf |-> m.smf, ref |-> m.ref])
    BY <1>5 DEF HandleSessionEstablishmentRequest, Receive
  <2>2. m \in Datagram /\ m.smf = s
    BY <1>1, TheSmf
  <2>3. PICK a : a = [Answer(m, TRUE) EXCEPT !.seid = nextSeid, !.inc = upfRts]
    OBVIOUS
  <2>4. a.kind = "EstRsp"
    BY <2>1, <2>2, <2>3 DEF Answer, Datagram, RspOf
  <2>5. \A x \in net' : (x \in net /\ x # m) \/ x = a
    BY <2>1, <2>3, SentSubset DEF Respond
  <2>6. CASE m.ref = r
    <3>1. SessOf(s, r)' \subseteq SessOf(s, r) \cup {nextSeid}
      BY <2>1 DEF SessOf, Put
    <3>2. m \in EstOf(s, r) /\ EstOf(s, r)' \subseteq EstOf(s, r) \ {m}
      BY <2>1, <2>2, <2>4, <2>5, <2>6 DEF EstOf
    <3>3. IsFiniteSet(SessOf(s, r)) /\ IsFiniteSet(EstOf(s, r))
      BY DEF Counted
    <3>4. /\ IsFiniteSet(SessOf(s, r)')
          /\ Cardinality(SessOf(s, r)') \in Nat /\ Cardinality(SessOf(s, r)) \in Nat
          /\ Cardinality(SessOf(s, r)') <= Cardinality(SessOf(s, r)) + 1
      BY <3>1, <3>3, OneElementMore
    <3>5. /\ IsFiniteSet(EstOf(s, r)')
          /\ Cardinality(EstOf(s, r)') \in Nat /\ Cardinality(EstOf(s, r)) \in Nat
          /\ Cardinality(EstOf(s, r)') + 1 <= Cardinality(EstOf(s, r))
      BY <3>2, <3>3, OneElementFewer
    <3> QED BY <3>4, <3>5 DEF Load
  <2>7. CASE m.ref # r
    <3>1. [smf |-> m.smf, ref |-> m.ref] # [smf |-> s, ref |-> r]
      BY <2>7
    <3>2. SessOf(s, r)' \subseteq SessOf(s, r)
      BY <2>1, <3>1 DEF SessOf, Put
    <3> QED BY <1>3, <3>2, SumFewer DEF Counted, Load
  <2> QED BY <2>6, <2>7
<1>6. CASE sess' = sess \/ sess' = Nothing \/ \E k : sess' = Without(sess, k)
  BY <1>4, <1>6 DEF Nothing, Without
<1> QED
  BY <1>5, <1>6 DEF ServerLoop, HandleHeartbeatRequest, HandleHeartbeatResponse,
     HandleAssociationSetupRequest, HandleAssociationReleaseRequest,
     HandleSessionEstablishmentRequest, HandleSessionModificationRequest,
     HandleSessionDeletionRequest, CheckPeerRecovery, PeerFailure

(***************************************************************************)
(* When the association slot becomes current, the sessions of earlier      *)
(* incarnations go with it.                                                *)
(***************************************************************************)
LEMMA CountServerLoop ==
    ASSUME OneSmf, IInv, PairInv, CountInv, ServerLoop, UNCHANGED clientVars
    PROVE  CountInv'
<1>1. ASSUME NEW s \in Smf, NEW r \in Ref
      PROVE  Counted(s, r)'
  <2>1. Counted(s, r) /\ Wire /\ TypeOK
    BY DEF CountInv, PairInv, IInv
  <2>2. /\ IsFiniteSet(SessOf(s, r))' /\ IsFiniteSet(EstOf(s, r))'
        /\ Load(s, r)' <= Load(s, r)
        /\ Load(s, r) \in Nat /\ Load(s, r)' \in Nat
    BY <2>1, LoadServerLoop
  <2>3. UNCHANGED <<status, smfRts, reqs, ctx>>
    BY DEF clientVars
  <2>4. \A x \in reqs : x.att \in Nat
    BY <2>1, TheSmf, N1Assumption DEF Datagram
  <2>5. Load(s, r)' <= N1 + 1
    BY <2>1, <2>2, N1Assumption DEF Counted
  <2>6. ASSUME status[s] # "down", ctx[s][r] = "free", SlotCurrent(s)'
        PROVE  Load(s, r)' = 0
    <3>1. CASE SlotCurrent(s)
      BY <2>1, <2>2, <2>6, <3>1 DEF Counted
    <3>2. CASE ~SlotCurrent(s)
      <4>1. \/ SlotKept \/ SlotTaken(s) \/ SlotCleared(s)
        BY <2>1, ServerSlot
      <4>2. DOMAIN sess' = {}
        BY <2>3, <2>6, <3>2, <4>1 DEF SlotKept, SlotTaken, SlotCleared, SlotCurrent
      <4>3. \A m \in net' : m.kind = "EstReq" => m \in net
        BY <2>1, ServerSlot DEF TruthfulAnswer, SmfResponses
      <4>4. EstOf(s, r)' = {}
        BY <2>1, <2>6, <4>3 DEF EstOf, Wire, Truthful
      <4>5. SessOf(s, r)' = {}
        BY <4>2 DEF SessOf
      <4>6. Cardinality({}) = 0
        BY FS_EmptySet
      <4> QED BY <4>4, <4>5, <4>6 DEF Load
    <3> QED BY <3>1, <3>2
  <2> QED BY <2>1, <2>2, <2>3, <2>4, <2>5, <2>6 DEF Counted
<1> QED BY <1>1 DEF CountInv

LEMMA CountFewer ==
    ASSUME TypeOK, CountInv, OneSmf, \A m \in net' : m.kind = "EstReq" => m \in net,
           UNCHANGED clientVars, UNCHANGED <<upfAssoc, sess>>
    PROVE  CountInv'
<1>1. ASSUME NEW s \in Smf, NEW r \in Ref
      PROVE  Counted(s, r)'
  <2>1. UNCHANGED <<status, smfRts, reqs, ctx>>
    BY DEF clientVars
  <2>2. Counted(s, r)
    BY DEF CountInv
  <2>3. /\ IsFiniteSet(SessOf(s, r))' /\ IsFiniteSet(EstOf(s, r))'
        /\ Load(s, r)' <= Load(s, r)
        /\ Load(s, r) \in Nat /\ Load(s, r)' \in Nat
    BY <2>1, <2>2, CountQuiet DEF NoEstSent
  <2>4. \A x \in reqs : x.att \in Nat
    BY TheSmf, N1Assumption DEF Datagram
  <2>5. SlotCurrent(s)' = SlotCurrent(s)
    BY <2>1 DEF SlotCurrent
  <2> QED BY <2>1, <2>2, <2>3, <2>4, <2>5, N1Assumption DEF Counted
<1> QED BY <1>1 DEF CountInv

LEMMA CountUpfRestart ==
    ASSUME TypeOK, OneSmf, UpfRestart, UNCHANGED clientVars
    PROVE  CountInv'
<1>1. net' = {} /\ DOMAIN sess' = {} /\ reqs' = reqs
  BY DEF UpfRestart, Nothing, clientVars
<1>2. IsFiniteSet({}) /\ Cardinality({}) = 0
  BY FS_EmptySet
<1>3. ASSUME NEW s \in Smf, NEW r \in Ref
      PROVE  Counted(s, r)'
  <2>1. SessOf(s, r)' = {} /\ EstOf(s, r)' = {}
    BY <1>1 DEF SessOf, EstOf
  <2>2. Load(s, r)' = 0
    BY <1>2, <2>1 DEF Load
  <2>3. \A x \in reqs' : 0 <= x.att
    BY <1>1, TheSmf, N1Assumption DEF Datagram
  <2> QED BY <1>2, <2>1, <2>2, <2>3, N1Assumption DEF Counted
<1> QED BY <1>3 DEF CountInv

LEMMA CountInit == Init => CountInv
<1> SUFFICES ASSUME Init, NEW s \in Smf, NEW r \in Ref
             PROVE  Counted(s, r)
  BY DEF CountInv
<1>1. net = {} /\ DOMAIN sess = {} /\ reqs = {}
  BY DEF Init, PfcpClientInit, PfcpServerInit, Nothing
<1>2. SessOf(s, r) = {} /\ EstOf(s, r) = {}
  BY <1>1 DEF SessOf, EstOf
<1>3. IsFiniteSet(SessOf(s, r)) /\ IsFiniteSet(EstOf(s, r)) /\ Load(s, r) = 0
  BY <1>2, NoLoad
<1>4. 0 <= N1 + 1
  BY N1Assumption
<1> QED BY <1>1, <1>3, <1>4 DEF Counted

LEMMA CountNext ==
    ASSUME OneSmf, IInv, IInv', PairInv, PairInv', CountInv, [Next]_vars
    PROVE  CountInv'
<1>1. TypeOK
  BY DEF IInv
<1>2. ASSUME NEW s \in Smf, PfcpClientNext(s), UNCHANGED serverVars
      PROVE  CountInv'
  BY <1>2, CountClient
<1>3. ASSUME SendHeartbeatRequest, UNCHANGED clientVars
      PROVE  CountInv'
  <2>1. PICK a \in upfAssoc :
            net' = Sent(net, [Request("UHbReq", a.smf, NoSeq) EXCEPT !.att = 0, !.rts = upfRts])
    BY <1>3 DEF SendHeartbeatRequest
  <2>2. PICK f : f = [Request("UHbReq", a.smf, NoSeq) EXCEPT !.att = 0, !.rts = upfRts]
    OBVIOUS
  <2>3. f.kind = "UHbReq" /\ \A m \in net' : m \in net \/ m = f
    BY <2>1, <2>2, SentSubset DEF Request
  <2> QED BY <1>1, <1>3, <2>3, CountFewer DEF SendHeartbeatRequest, serverVars
<1>4. ASSUME PfcpServerNext, UNCHANGED clientVars
      PROVE  CountInv'
  <2>1. HandleSessionEvent => CountInv'
    BY <1>1, <1>4, CountFewer DEF HandleSessionEvent
  <2> QED BY <1>1, <1>3, <1>4, <2>1, CountServerLoop, CountUpfRestart DEF PfcpServerNext
<1>5. ASSUME Lose \/ net' = net, UNCHANGED <<clientVars, serverVars>>
      PROVE  CountInv'
  BY <1>1, <1>5, CountFewer DEF Lose, serverVars
<1> QED BY <1>2, <1>4, <1>5 DEF Next, vars

(***************************************************************************)
(* With one SMF, however responses are lost, creations time out and either *)
(* side restarts, one SM context never has more sessions in the UPF than   *)
(* its establishment request was transmitted: N1 + 1 (PfcpClient::request, *)
(* handle_session_establishment_request, declare_peer_failure).            *)
(***************************************************************************)
THEOREM OrphansBounded ==
    ASSUME OneSmf
    PROVE  Spec => []OrphanBound
<1>1. PairInv /\ PairInv' /\ IInv /\ IInv' /\ CountInv /\ [Next]_vars => CountInv'
  BY CountNext
<1>2. CountInv => OrphanBound
  <2> SUFFICES ASSUME CountInv, NEW s \in Smf, NEW r \in Ref
               PROVE  Cardinality(SessOf(s, r)) <= N1 + 1
    BY DEF OrphanBound, SessOf
  <2>1. /\ IsFiniteSet(SessOf(s, r)) /\ IsFiniteSet(EstOf(s, r))
        /\ Cardinality(SessOf(s, r)) + Cardinality(EstOf(s, r)) <= N1 + 1
    BY DEF CountInv, Counted, Load
  <2>2. Cardinality(SessOf(s, r)) \in Nat /\ Cardinality(EstOf(s, r)) \in Nat
    BY <2>1, FS_CardinalityType
  <2> QED BY <2>1, <2>2, N1Assumption
<1> QED BY <1>1, <1>2, CountInit, Invariance, PairInvariance, PTL DEF Spec

=============================================================================
