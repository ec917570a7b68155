------------------------- MODULE UpfDownlinkProofs -------------------------
(***************************************************************************)
(* Proofs about UpfDownlink, for any number of packets and modifications   *)
(* and any capacity of the buffer and the report channel.                  *)
(*                                                                         *)
(*   Shape    where each task stands and what it then has in hand;         *)
(*   Layout   every packet that came is in exactly one place;              *)
(*   Order    a buffer is filled at the end and flushed from the front;    *)
(*   Flush    what an activation found waiting stays on its way out;       *)
(*   Paging   the DDN flag is up only when the SMF was asked to page;      *)
(*   Tunnel   a FAR that forwards leads to the last tunnel known.          *)
(*                                                                         *)
(* Shape holds by itself; Layout needs Order (a sequence in order has no   *)
(* packet twice), and both are needed for Flush.                           *)
(***************************************************************************)
EXTENDS UpfDownlink, FiniteSetTheorems, TLAPS

Rising(s) == \A k, l \in DOMAIN s : k < l => s[k] < s[l]

(***************************************************************************)
(* Where the tasks stand.                                                  *)
(***************************************************************************)
Swapping == {"pdrs", "fars", "buffer", "remove"}

LoopShape ==
    /\ dl.pc = "idle" => dl.pkt = 0
    /\ dl.pc # "idle" => dl.obj # 0 /\ dl.pkt = arrived /\ arrived # 0

EventShape ==
    /\ ev.pc \in Swapping => ev.obj = ip
    /\ ev.pc \notin {"idle", "add"} => ip # 0
    /\ ev.pc = "add" => ev.obj # 0 /\ ip = 0
    /\ ev.pc \in Swapping \cup {"add", "drain", "send"} => ev.far.act = "forw"
    /\ ev.pc = "install" => ev.far.act \in {"forw", "nocp"}
    /\ ev.pc \notin {"remove", "add", "send"} => ev.buf = <<>>
    /\ ev.pc \in {"remove", "add"} => Len(ev.buf) <= BufCap
    /\ ev.pc \in {"buffer", "remove", "add"} => objs[ev.obj].far.act = "none"

Shape == TypeOK /\ LoopShape /\ EventShape

(***************************************************************************)
(* The packets in each place.                                              *)
(***************************************************************************)
Held    == {dl.pkt} \ {0}
Bufs    == [i \in 1 .. Len(objs) |-> ToSet(objs[i].buf)]
Leaving == ToSet(ev.buf)
Gone    == {sent[k].pkt : k \in DOMAIN sent}

\* Nothing is in two places, nothing is nowhere.
Layout(n, B, H, E, S, D, a) ==
    /\ \A i \in 1 .. n : B[i] \subseteq 1 .. a
    /\ H \subseteq 1 .. a /\ E \subseteq 1 .. a /\ S \subseteq 1 .. a /\ D \subseteq 1 .. a
    /\ \A p \in 1 .. a : p \in H \/ p \in E \/ p \in S \/ p \in D \/ \E i \in 1 .. n : p \in B[i]
    /\ \A i, j \in 1 .. n : \A p \in B[i] : p \in B[j] => i = j
    /\ \A i \in 1 .. n : \A p \in B[i] : p \notin H /\ p \notin E /\ p \notin S /\ p \notin D
    /\ \A p \in H : p \notin E /\ p \notin S /\ p \notin D
    /\ \A p \in E : p \notin S /\ p \notin D
    /\ \A p \in S : p \notin D

Laid == Layout(Len(objs), Bufs, Held, Leaving, Gone, dropped, arrived)

SentOnce == \A k, l \in DOMAIN sent : sent[k].pkt = sent[l].pkt => k = l

(***************************************************************************)
(* A packet that was flushed is older than those about to be flushed, and  *)
(* these are older than the ones in the buffer.                            *)
(***************************************************************************)
Before(X) == \A k \in DOMAIN sent : sent[k].flushed => \A p \in X : sent[k].pkt < p

Order ==
    /\ FlushInOrder
    /\ Rising(ev.buf)
    /\ \A i \in 1 .. Len(objs) : Rising(objs[i].buf)
    /\ Before(Leaving)
    /\ ip # 0 => Before(Bufs[ip])
    /\ ev.pc = "send" => \A p \in Leaving, q \in Bufs[ip] : p < q

(***************************************************************************)
(* Where the packets are that waited when the activation began.            *)
(***************************************************************************)
Flush ==
    /\ ev.pc \in {"idle", "default"} \/ ev.far.act = "nocp" => due \subseteq Gone \cup dropped
    /\ ev.pc \in {"pdrs", "fars", "buffer", "install", "drain"} /\ ev.far.act = "forw" =>
         due \subseteq Bufs[ip]
    /\ ev.pc \in {"remove", "add"} => due \subseteq Leaving
    /\ ev.pc = "send" => due \subseteq Leaving \cup Gone \cup dropped

(***************************************************************************)
(* Under a FAR that forwards the flag is up only because of a late packet, *)
(* under BUFF|NOCP also because the SMF was asked to page.                 *)
(***************************************************************************)
Flagged(act) == (act = "forw" => episode.late) /\ (act = "nocp" => episode.asked \/ episode.late)

Paging ==
    /\ EpisodeReported
    /\ ev.pc = "drain" => objs[ip].far.act = "forw"
    /\ ip # 0 /\ ev.pc # "drain" /\ objs[ip].ddn => Flagged(objs[ip].far.act)
    /\ ev.pc \in {"buffer", "remove", "add"} /\ objs[ev.obj].ddn => Flagged(ev.old.act)

(***************************************************************************)
(* The tunnels.                                                            *)
(***************************************************************************)
Tunnel ==
    /\ TunnelNotStale
    /\ objs = <<>> => mods = 0
    /\ dl.floor <= mods
    /\ ev.pc \notin {"idle", "default"} /\ ev.far.act = "forw" => ev.far.tun = mods
    /\ ev.pc \in {"idle", "drain", "send"} /\ ip # 0 /\ objs[ip].far.act = "forw" =>
         objs[ip].far.tun = mods
    /\ dl.pc \in {"found", "matched"} /\ objs[dl.obj].far.act = "forw" =>
         objs[dl.obj].far.tun >= dl.floor
    /\ dl.pc = "decided" /\ dl.far.act = "forw" => dl.far.tun >= dl.floor

-----------------------------------------------------------------------------
(* Sequences.                                                              *)

\* The packets of a sequence that grew by one at the end.
LEMMA SetOfAppend ==
  ASSUME NEW s \in Seq(Nat), NEW x \in Nat
  PROVE  ToSet(Append(s, x)) = ToSet(s) \cup {x}
  <1>1. /\ DOMAIN s = 1 .. Len(s) /\ Len(s) \in Nat
        /\ DOMAIN Append(s, x) = 1 .. (Len(s) + 1)
        /\ Append(s, x)[Len(s) + 1] = x
        /\ \A k \in 1 .. Len(s) : Append(s, x)[k] = s[k]
    OBVIOUS
  <1>2. ToSet(Append(s, x)) \subseteq ToSet(s) \cup {x}
    BY <1>1 DEF ToSet
  <1>3. \A k \in 1 .. Len(s) : k \in 1 .. (Len(s) + 1)
    BY <1>1
  <1>4. x \in ToSet(Append(s, x))
    BY <1>1 DEF ToSet
  <1>5. ToSet(s) \subseteq ToSet(Append(s, x))
    BY <1>1, <1>3 DEF ToSet
  <1> QED
    BY <1>2, <1>4, <1>5

\* An empty sequence holds no packet.
LEMMA SetOfEmpty == ToSet(<<>>) = {}
  BY DEF ToSet

\* A sequence in order stays in order when a newer packet is put at its end.
LEMMA RisingAppend ==
  ASSUME NEW s \in Seq(Nat), NEW x \in Nat, Rising(s), \A y \in ToSet(s) : y < x
  PROVE  Rising(Append(s, x))
  BY DEF Rising, ToSet

\* Taking the first packet out of a sequence in order: the others are newer.
LEMMA SetOfTail ==
  ASSUME NEW s \in Seq(Nat), Rising(s), s # <<>>
  PROVE  /\ Head(s) \in ToSet(s)
         /\ ToSet(Tail(s)) = ToSet(s) \ {Head(s)}
         /\ \A y \in ToSet(Tail(s)) : Head(s) < y
         /\ Rising(Tail(s))
  <1>1. Len(s) \in Nat \ {0} /\ Head(s) = s[1] /\ DOMAIN s = 1 .. Len(s)
    OBVIOUS
  <1>2. Tail(s) \in Seq(Nat) /\ Len(Tail(s)) = Len(s) - 1
    OBVIOUS
  <1>3. \A k \in 1 .. Len(Tail(s)) : Tail(s)[k] = s[k + 1]
    BY <1>1
  <1>4. Head(s) \in ToSet(s)
    BY <1>1 DEF ToSet
  <1>5. \A k \in 1 .. Len(s) : k # 1 => s[1] < s[k]
    BY <1>1 DEF Rising
  <1>6. ToSet(Tail(s)) \subseteq ToSet(s) \ {Head(s)}
    <2>1. SUFFICES ASSUME NEW k \in 1 .. Len(Tail(s))
                   PROVE  Tail(s)[k] \in ToSet(s) /\ Tail(s)[k] # Head(s)
      BY <1>2 DEF ToSet
    <2>2. k + 1 \in 1 .. Len(s) /\ k + 1 # 1
      BY <1>1, <1>2
    <2>3. s[k + 1] \in Nat /\ s[1] \in Nat
      BY <1>1, <2>2
    <2>4. Tail(s)[k] = s[k + 1] /\ s[1] < s[k + 1]
      BY <1>3, <1>5, <2>2
    <2> QED
      BY <1>1, <2>2, <2>3, <2>4 DEF ToSet
  <1>7. ToSet(s) \ {Head(s)} \subseteq ToSet(Tail(s))
    <2>1. SUFFICES ASSUME NEW x \in ToSet(s), x # Head(s)
                   PROVE  x \in ToSet(Tail(s))
      OBVIOUS
    <2>2. PICK k \in 1 .. Len(s) : s[k] = x
      BY <1>1 DEF ToSet
    <2>3. k - 1 \in 1 .. Len(Tail(s)) /\ Tail(s)[k - 1] = s[k]
      BY <1>1, <1>2, <1>3, <2>1, <2>2
    <2>4. DOMAIN Tail(s) = 1 .. Len(Tail(s))
      BY <1>2
    <2> QED
      BY <2>2, <2>3, <2>4 DEF ToSet
  <1>8. \A y \in ToSet(Tail(s)) : Head(s) < y
    BY <1>1, <1>2, <1>3, <1>5 DEF ToSet
  <1>9. Rising(Tail(s))
    BY <1>1, <1>2, <1>3 DEF Rising
  <1> QED
    BY <1>4, <1>6, <1>7, <1>8, <1>9

\* A sequence over a set is one over a larger set.
LEMMA SeqGrows ==
  ASSUME NEW S, NEW T, NEW s \in Seq(S), S \subseteq T
  PROVE  s \in Seq(T)
  OBVIOUS

\* Packets are numbers.
LEMMA PktSeq ==
  /\ \A s \in Seq(Pkt) : s \in Seq(Nat)
  /\ Pkt \subseteq Nat
  <1>1. Pkt \subseteq Nat
    BY DEF Pkt
  <1>2. ASSUME NEW s \in Seq(Pkt) PROVE s \in Seq(Nat)
    BY <1>1, SeqGrows
  <1> QED
    BY <1>1, <1>2

\* One session object replaced by another.
LEMMA Replaced ==
  ASSUME NEW s \in Seq(Session), NEW i \in 1 .. Len(s), NEW x \in Session
  PROVE  /\ [s EXCEPT ![i] = x] \in Seq(Session)
         /\ Len([s EXCEPT ![i] = x]) = Len(s)
         /\ [s EXCEPT ![i] = x][i] = x
         /\ \A j \in 1 .. Len(s) : j # i => [s EXCEPT ![i] = x][j] = s[j]
  OBVIOUS

\* One session object added.
LEMMA Added ==
  ASSUME NEW s \in Seq(Session), NEW x \in Session
  PROVE  /\ Append(s, x) \in Seq(Session)
         /\ Len(Append(s, x)) = Len(s) + 1
         /\ Append(s, x)[Len(s) + 1] = x
         /\ \A j \in 1 .. Len(s) : Append(s, x)[j] = s[j]
  OBVIOUS

-----------------------------------------------------------------------------
(* What the actions do to the session objects.                             *)

\* Object i, and only it, becomes x.
Becomes(i, x) ==
    /\ objs' \in Seq(Session) /\ Len(objs') = Len(objs)
    /\ objs'[i] = x
    /\ \A j \in 1 .. Len(objs) : j # i => objs'[j] = objs[j]

\* An object of the session keeps its type when it is looked at.
LEMMA ObjectTypes ==
  ASSUME TypeOK, NEW i \in 1 .. Len(objs)
  PROVE  /\ objs[i] \in Session
         /\ objs[i].buf \in Seq(Pkt) /\ objs[i].far \in Far
         /\ objs[i].pdrs \in BOOLEAN /\ objs[i].ddn \in BOOLEAN
         /\ Len(objs[i].buf) <= BufCap
  <1>1. PICK o : o = objs[i]
    OBVIOUS
  <1>2. o \in Session
    BY <1>1 DEF TypeOK
  <1>3. o.buf \in Seq(Pkt) /\ o.far \in Far /\ o.pdrs \in BOOLEAN /\ o.ddn \in BOOLEAN
    BY <1>2 DEF Session
  <1>4. Len(objs[i].buf) <= BufCap
    BY DEF TypeOK
  <1> QED
    BY <1>1, <1>2, <1>3, <1>4

\* A step that writes one object.
LEMMA Written ==
  ASSUME TypeOK, NEW i \in 1 .. Len(objs), NEW x \in Session,
         objs' = [objs EXCEPT ![i] = x]
  PROVE  Becomes(i, x)
  <1>1. objs \in Seq(Session)
    BY DEF TypeOK
  <1>2. PICK t : t = [objs EXCEPT ![i] = x]
    OBVIOUS
  <1>3. t \in Seq(Session) /\ Len(t) = Len(objs) /\ t[i] = x
    BY <1>1, <1>2, Replaced
  <1>4. \A j \in 1 .. Len(objs) : j # i => t[j] = objs[j]
    BY <1>1, <1>2, Replaced
  <1> QED
    BY <1>2, <1>3, <1>4 DEF Becomes

\* The object that the packet loop or the event task works on exists.
LEMMA ObjectsExist ==
  ASSUME Shape
  PROVE  /\ dl.pc # "idle" => dl.obj \in 1 .. Len(objs)
         /\ ip # 0 => ip \in 1 .. Len(objs)
         /\ ev.pc \in Swapping \cup {"add"} => ev.obj \in 1 .. Len(objs)
         /\ Len(objs) \in Nat
  BY DEF Shape, TypeOK, LoopShape, EventShape, Swapping

\* Writing fields of a session object.
LEMMA FieldsWritten ==
  ASSUME NEW o \in Session, NEW b, NEW t
  PROVE  /\ [o EXCEPT !.pdrs = b] =
              [pdrs |-> b, far |-> o.far, buf |-> o.buf, ddn |-> o.ddn]
         /\ [o EXCEPT !.buf = t, !.ddn = b] =
              [pdrs |-> o.pdrs, far |-> o.far, buf |-> t, ddn |-> b]
  <1>1. PICK A : A = BOOLEAN
    OBVIOUS
  <1>2. PICK C : C = Seq(Pkt)
    OBVIOUS
  <1>3. o \in [pdrs : A, far : Far, buf : C, ddn : A]
    BY <1>1, <1>2, Zenon DEF Session
  <1>4. [o EXCEPT !.pdrs = b] = [pdrs |-> b, far |-> o.far, buf |-> o.buf, ddn |-> o.ddn]
    BY <1>3
  <1>5. PICK x : x = [o EXCEPT !.buf = t, !.ddn = b]
    OBVIOUS
  <1>6. DOMAIN x = {"pdrs", "far", "buf", "ddn"}
    BY <1>3, <1>5
  <1>7. x.pdrs = o.pdrs /\ x.far = o.far /\ x.buf = t /\ x.ddn = b
    BY <1>3, <1>5
  <1>8. x = [f \in {"pdrs", "far", "buf", "ddn"} |-> x[f]]
    BY <1>5, <1>6
  <1>9. x = [pdrs |-> o.pdrs, far |-> o.far, buf |-> t, ddn |-> b]
    BY <1>6, <1>7, <1>8
  <1> QED
    BY <1>4, <1>5, <1>9

\* buffer_dl_packet with room in the buffer: the packet at its end, the flag up.
LEMMA BufferMove ==
  ASSUME Shape, Buffer, ~BufferFull(objs[dl.obj])
  PROVE  \E x \in Session :
           /\ Becomes(dl.obj, x)
           /\ x.pdrs = objs[dl.obj].pdrs /\ x.far = objs[dl.obj].far
           /\ x.buf = Append(objs[dl.obj].buf, dl.pkt) /\ x.ddn = TRUE
  <1>1. dl.obj \in 1 .. Len(objs) /\ dl.pkt \in Pkt
    BY ObjectsExist DEF Shape, TypeOK, LoopShape, Buffer, Pkt
  <1>2. PICK o \in Session : o = objs[dl.obj]
    BY <1>1, ObjectTypes DEF Shape
  <1>3. PICK x : x = [pdrs |-> o.pdrs, far |-> o.far, buf |-> Append(o.buf, dl.pkt), ddn |-> TRUE]
    OBVIOUS
  <1>4. x \in Session
    BY <1>1, <1>2, <1>3 DEF Session
  <1>5. objs' = [objs EXCEPT ![dl.obj] = x]
    <2>1. [o EXCEPT !.buf = Append(o.buf, dl.pkt), !.ddn = TRUE] = x
      BY <1>3, FieldsWritten, Zenon
    <2>2. objs' = [objs EXCEPT ![dl.obj] = [o EXCEPT !.buf = Append(o.buf, dl.pkt), !.ddn = TRUE]]
      BY <1>2 DEF Buffer
    <2> QED
      BY <2>1, <2>2
  <1>6. Becomes(dl.obj, x)
    BY <1>1, <1>4, <1>5, Written DEF Shape
  <1> QED
    BY <1>2, <1>3, <1>4, <1>6

\* The rules of the SMF replace the default ones.
LEMMA InstallRulesMove ==
  ASSUME Shape, InstallRules
  PROVE  \E x \in Session :
           /\ Becomes(ip, x)
           /\ x.pdrs = objs[ip].pdrs
           /\ x.far = [act |-> "buff", tun |-> 0]
           /\ x.buf = objs[ip].buf /\ x.ddn = objs[ip].ddn
  <1>1. ip \in 1 .. Len(objs)
    BY ObjectsExist DEF Shape, EventShape, Swapping, InstallRules, EvStep
  <1>2. PICK o \in Session : o = objs[ip]
    BY <1>1, ObjectTypes DEF Shape
  <1>3. [act |-> "buff", tun |-> 0] \in Far
    BY <1>2, MaxModAssumption DEF Session, Far, NoFar, Tun, Shape, TypeOK
  <1>4. PICK x : x = [pdrs |-> o.pdrs, far |-> [act |-> "buff", tun |-> 0],
                      buf |-> o.buf, ddn |-> o.ddn]
    OBVIOUS
  <1>5. x \in Session
    BY <1>2, <1>3, <1>4 DEF Session
  <1>6. objs' = [objs EXCEPT ![ip] = x]
    <2>1. [o EXCEPT !.far = [act |-> "buff", tun |-> 0]] = x
      BY <1>2, <1>4 DEF Session, Far
    <2>2. objs' = [objs EXCEPT ![ip] = [o EXCEPT !.far = [act |-> "buff", tun |-> 0]]]
      BY <1>2 DEF InstallRules, EvStep
    <2> QED
      BY <2>1, <2>2
  <1>7. Becomes(ip, x)
    BY <1>1, <1>5, <1>6, Written DEF Shape
  <1> QED
    BY <1>2, <1>4, <1>5, <1>7

\* The FAR that leads to the access side gets the new tunnel.
LEMMA ActivateMove ==
  ASSUME Shape, Activate
  PROVE  \E x \in Session :
           /\ Becomes(ip, x)
           /\ x.pdrs = objs[ip].pdrs
           /\ x.far = [act |-> objs[ip].far.act, tun |-> IF objs[ip].far.act = "nocp" THEN objs[ip].far.tun ELSE mods + 1]
           /\ x.buf = objs[ip].buf /\ x.ddn = objs[ip].ddn
  <1>1. ip \in 1 .. Len(objs)
    BY ObjectsExist DEF Shape, EventShape, Swapping, Activate
  <1>2. PICK o \in Session : o = objs[ip]
    BY <1>1, ObjectTypes DEF Shape
  <1>3. [act |-> o.far.act, tun |-> IF o.far.act = "nocp" THEN o.far.tun ELSE mods + 1] \in Far
    <2>1. o.far.act \in {"none", "buff", "nocp", "forw"} /\ o.far.tun \in Tun
      BY <1>2 DEF Session, Far
    <2>2. mods + 1 \in Tun
      BY MaxModAssumption DEF Tun, Shape, TypeOK, Activate
    <2> QED
      BY <2>1, <2>2 DEF Far
  <1>4. PICK x : x = [pdrs |-> o.pdrs, far |-> [act |-> o.far.act, tun |-> IF o.far.act = "nocp" THEN o.far.tun ELSE mods + 1],
                      buf |-> o.buf, ddn |-> o.ddn]
    OBVIOUS
  <1>5. x \in Session
    BY <1>2, <1>3, <1>4 DEF Session
  <1>6. objs' = [objs EXCEPT ![ip] = x]
    <2>1. [o EXCEPT !.far = [o.far EXCEPT !.tun = IF o.far.act = "nocp" THEN @ ELSE mods + 1]] = x
      BY <1>2, <1>4 DEF Session, Far
    <2>2. objs' = [objs EXCEPT ![ip] = [o EXCEPT !.far = [o.far EXCEPT !.tun = IF o.far.act = "nocp" THEN @ ELSE mods + 1]]]
      BY <1>2 DEF Activate
    <2> QED
      BY <2>1, <2>2
  <1>7. Becomes(ip, x)
    BY <1>1, <1>5, <1>6, Written DEF Shape
  <1> QED
    BY <1>2, <1>4, <1>5, <1>7

\* The PDRs are taken out of the object.
LEMMA TakePdrsMove ==
  ASSUME Shape, TakePdrs
  PROVE  \E x \in Session :
           /\ Becomes(ev.obj, x)
           /\ x.pdrs = FALSE
           /\ x.far = objs[ev.obj].far
           /\ x.buf = objs[ev.obj].buf /\ x.ddn = objs[ev.obj].ddn
  <1>1. ev.obj \in 1 .. Len(objs)
    BY ObjectsExist DEF Shape, EventShape, Swapping, TakePdrs, EvStep
  <1>2. PICK o \in Session : o = objs[ev.obj]
    BY <1>1, ObjectTypes DEF Shape
  <1>3. o.far \in Far
    BY <1>2, MaxModAssumption DEF Session, Far, NoFar, Tun, Shape, TypeOK
  <1>4. PICK x : x = [pdrs |-> FALSE, far |-> o.far,
                      buf |-> o.buf, ddn |-> o.ddn]
    OBVIOUS
  <1>5. x \in Session
    BY <1>2, <1>3, <1>4 DEF Session
  <1>6. objs' = [objs EXCEPT ![ev.obj] = x]
    <2>1. [o EXCEPT !.pdrs = FALSE] = x
      BY <1>2, <1>4, FieldsWritten
    <2>2. objs' = [objs EXCEPT ![ev.obj] = [o EXCEPT !.pdrs = FALSE]]
      BY <1>2 DEF TakePdrs, EvStep
    <2> QED
      BY <2>1, <2>2
  <1>7. Becomes(ev.obj, x)
    BY <1>1, <1>5, <1>6, Written DEF Shape
  <1> QED
    BY <1>2, <1>4, <1>5, <1>7

\* The FARs are taken out of the object.
LEMMA TakeFarsMove ==
  ASSUME Shape, TakeFars
  PROVE  \E x \in Session :
           /\ Becomes(ev.obj, x)
           /\ x.pdrs = objs[ev.obj].pdrs
           /\ x.far = NoFar
           /\ x.buf = objs[ev.obj].buf /\ x.ddn = objs[ev.obj].ddn
  <1>1. ev.obj \in 1 .. Len(objs)
    BY ObjectsExist DEF Shape, EventShape, Swapping, TakeFars
  <1>2. PICK o \in Session : o = objs[ev.obj]
    BY <1>1, ObjectTypes DEF Shape
  <1>3. NoFar \in Far
    BY <1>2, MaxModAssumption DEF Session, Far, NoFar, Tun, Shape, TypeOK
  <1>4. PICK x : x = [pdrs |-> o.pdrs, far |-> NoFar,
                      buf |-> o.buf, ddn |-> o.ddn]
    OBVIOUS
  <1>5. x \in Session
    BY <1>2, <1>3, <1>4 DEF Session
  <1>6. objs' = [objs EXCEPT ![ev.obj] = x]
    <2>1. [o EXCEPT !.far = NoFar] = x
      BY <1>2, <1>4 DEF Session, Far
    <2>2. objs' = [objs EXCEPT ![ev.obj] = [o EXCEPT !.far = NoFar]]
      BY <1>2 DEF TakeFars
    <2> QED
      BY <2>1, <2>2
  <1>7. Becomes(ev.obj, x)
    BY <1>1, <1>5, <1>6, Written DEF Shape
  <1> QED
    BY <1>2, <1>4, <1>5, <1>7

\* The buffer is taken out of the object.
LEMMA TakeBufferMove ==
  ASSUME Shape, TakeBuffer
  PROVE  \E x \in Session :
           /\ Becomes(ev.obj, x)
           /\ x.pdrs = objs[ev.obj].pdrs
           /\ x.far = objs[ev.obj].far
           /\ x.buf = <<>> /\ x.ddn = objs[ev.obj].ddn
  <1>1. ev.obj \in 1 .. Len(objs)
    BY ObjectsExist DEF Shape, EventShape, Swapping, TakeBuffer
  <1>2. PICK o \in Session : o = objs[ev.obj]
    BY <1>1, ObjectTypes DEF Shape
  <1>3. o.far \in Far
    BY <1>2, MaxModAssumption DEF Session, Far, NoFar, Tun, Shape, TypeOK
  <1>4. PICK x : x = [pdrs |-> o.pdrs, far |-> o.far,
                      buf |-> <<>>, ddn |-> o.ddn]
    OBVIOUS
  <1>5. x \in Session
    BY <1>2, <1>3, <1>4 DEF Session
  <1>6. objs' = [objs EXCEPT ![ev.obj] = x]
    <2>1. [o EXCEPT !.buf = <<>>] = x
      BY <1>2, <1>4 DEF Session, Far
    <2>2. objs' = [objs EXCEPT ![ev.obj] = [o EXCEPT !.buf = <<>>]]
      BY <1>2 DEF TakeBuffer
    <2> QED
      BY <2>1, <2>2
  <1>7. Becomes(ev.obj, x)
    BY <1>1, <1>5, <1>6, Written DEF Shape
  <1> QED
    BY <1>2, <1>4, <1>5, <1>7

\* The FAR of the modification replaces the one of the object.
LEMMA InstallFarMove ==
  ASSUME Shape, InstallFar
  PROVE  \E x \in Session :
           /\ Becomes(ip, x)
           /\ x.pdrs = objs[ip].pdrs
           /\ x.far = ev.far
           /\ x.buf = objs[ip].buf /\ x.ddn = objs[ip].ddn
  <1>1. ip \in 1 .. Len(objs)
    BY ObjectsExist DEF Shape, EventShape, Swapping, InstallFar, EvStep
  <1>2. PICK o \in Session : o = objs[ip]
    BY <1>1, ObjectTypes DEF Shape
  <1>3. ev.far \in Far
    BY <1>2, MaxModAssumption DEF Session, Far, NoFar, Tun, Shape, TypeOK
  <1>4. PICK x : x = [pdrs |-> o.pdrs, far |-> ev.far,
                      buf |-> o.buf, ddn |-> o.ddn]
    OBVIOUS
  <1>5. x \in Session
    BY <1>2, <1>3, <1>4 DEF Session
  <1>6. objs' = [objs EXCEPT ![ip] = x]
    <2>1. [o EXCEPT !.far = ev.far] = x
      BY <1>2, <1>4 DEF Session, Far
    <2>2. objs' = [objs EXCEPT ![ip] = [o EXCEPT !.far = ev.far]]
      BY <1>2 DEF InstallFar, EvStep
    <2> QED
      BY <2>1, <2>2
  <1>7. Becomes(ip, x)
    BY <1>1, <1>5, <1>6, Written DEF Shape
  <1> QED
    BY <1>2, <1>4, <1>5, <1>7

\* The buffer is emptied and the flag taken down.
LEMMA DrainedMove ==
  ASSUME Shape, objs' = Drained, ip # 0
  PROVE  \E x \in Session :
           /\ Becomes(ip, x)
           /\ x.pdrs = objs[ip].pdrs
           /\ x.far = objs[ip].far
           /\ x.buf = <<>> /\ x.ddn = FALSE
  <1>1. ip \in 1 .. Len(objs)
    BY ObjectsExist DEF Shape, EventShape, Swapping, Drained
  <1>2. PICK o \in Session : o = objs[ip]
    BY <1>1, ObjectTypes DEF Shape
  <1>3. o.far \in Far
    BY <1>2, MaxModAssumption DEF Session, Far, NoFar, Tun, Shape, TypeOK
  <1>4. PICK x : x = [pdrs |-> o.pdrs, far |-> o.far,
                      buf |-> <<>>, ddn |-> FALSE]
    OBVIOUS
  <1>5. x \in Session
    BY <1>2, <1>3, <1>4 DEF Session
  <1>6. objs' = [objs EXCEPT ![ip] = x]
    <2>1. [o EXCEPT !.buf = <<>>, !.ddn = FALSE] = x
      BY <1>4, FieldsWritten, Zenon
    <2>2. objs' = [objs EXCEPT ![ip] = [o EXCEPT !.buf = <<>>, !.ddn = FALSE]]
      BY <1>2 DEF Drained
    <2> QED
      BY <2>1, <2>2
  <1>7. Becomes(ip, x)
    BY <1>1, <1>5, <1>6, Written DEF Shape
  <1> QED
    BY <1>2, <1>4, <1>5, <1>7

-----------------------------------------------------------------------------
(* Shape.                                                                  *)

\* The records of the two tasks when there are n objects.
DlType(n) == [pc : {"idle", "found", "matched", "decided"},
              pkt : 0 .. MaxPkt, obj : 0 .. n, far : Far, floor : Tun]
EvType(n) == [pc : {"idle", "default", "pdrs", "fars", "buffer", "remove", "add",
                    "install", "drain", "send"},
              obj : 0 .. n, far : Far, old : Far, buf : Seq(Pkt)]

\* The part of Shape that is about the session objects.
ObjectsOK ==
    /\ objs \in Seq(Session)
    /\ \A i \in 1 .. Len(objs) : Len(objs[i].buf) <= BufCap

\* The rest of TypeOK.
TasksOK ==
    /\ ip \in 0 .. Len(objs)
    /\ dl \in DlType(Len(objs))
    /\ ev \in EvType(Len(objs))
    /\ reports \in 0 .. ReportCap
    /\ arrived \in 0 .. MaxPkt
    /\ mods \in 0 .. MaxMod
    /\ sent \in Seq([pkt : Pkt, tun : Tun, floor : Tun, flushed : BOOLEAN])
    /\ dropped \subseteq Pkt
    /\ due \subseteq Pkt
    /\ episode \in [waiting : BOOLEAN, asked : BOOLEAN, late : BOOLEAN]

\* TypeOK in two parts, in a state and in the next one.
LEMMA TypeParts ==
  /\ TypeOK <=> ObjectsOK /\ TasksOK
  /\ TypeOK' <=> ObjectsOK' /\ TasksOK'
  BY DEF TypeOK, ObjectsOK, TasksOK, DlType, EvType

\* An object that is written with a buffer in bounds.
LEMMA ObjectsStayOK ==
  ASSUME TypeOK, NEW i \in 1 .. Len(objs), NEW x \in Session, Becomes(i, x),
         Len(x.buf) <= BufCap
  PROVE  ObjectsOK'
  BY DEF TypeOK, Becomes, ObjectsOK

\* A packet of the loop is a packet, and the loop is idle again.
LEMMA LoopTypes ==
  ASSUME Shape, dl.pc # "idle"
  PROVE  dl.pkt \in Pkt
  BY DEF Shape, TypeOK, LoopShape, Pkt

\* A task that starts afresh.
LEMMA IdleTypes ==
  /\ IdleDl.pc = "idle" /\ IdleDl.pkt = 0 /\ IdleDl.obj = 0 /\ IdleDl.far = NoFar
  /\ IdleDl.floor = 0
  /\ IdleEv.pc = "idle" /\ IdleEv.obj = 0 /\ IdleEv.buf = <<>> /\ IdleEv.far = NoFar
  /\ IdleEv.old = NoFar
  /\ NoFar \in Far /\ NoFar.act = "none"
  /\ \A n \in Nat :
       /\ IdleDl \in DlType(n)
       /\ IdleEv \in EvType(n)
  <1>1. NoFar \in Far /\ NoFar.act = "none"
    BY MaxModAssumption DEF NoFar, Far, Tun
  <1>2. 0 \in Tun /\ 0 \in 0 .. MaxPkt /\ \A n \in Nat : 0 \in 0 .. n
    BY MaxModAssumption, MaxPktAssumption DEF Tun
  <1>3. <<>> \in Seq(Pkt)
    OBVIOUS
  <1> QED
    BY <1>1, <1>2, <1>3 DEF IdleDl, IdleEv, DlType, EvType

\* Initially nothing is established.
LEMMA ShapeInit == Init => Shape
  <1> SUFFICES ASSUME Init PROVE Shape
    OBVIOUS
  <1>1. Len(objs) = 0 /\ ObjectsOK
    BY DEF Init, ObjectsOK
  <1>2. TasksOK
    BY <1>1, IdleTypes, MaxPktAssumption, MaxModAssumption, ReportCapAssumption DEF Init, TasksOK
  <1>3. LoopShape /\ EventShape
    BY IdleTypes DEF Init, LoopShape, EventShape, Swapping
  <1> QED
    BY <1>1, <1>2, <1>3, TypeParts DEF Shape

\* The packet loop, except for the step that buffers.
LEMMA ShapeLoop ==
  ASSUME Shape, Arrive \/ MatchPdr \/ ApplyFar \/ Forward
  PROVE  Shape'
  <1>1. objs' = objs /\ ip' = ip /\ ev' = ev /\ mods' = mods
    BY DEF Arrive, MatchPdr, ApplyFar, Forward
  <1>2. ObjectsOK' /\ EventShape'
    BY <1>1, TypeParts DEF Shape, EventShape, ObjectsOK
  <1>3. Len(objs) \in Nat /\ MaxPkt \in Nat /\ MaxMod \in Nat
    BY ObjectsExist, MaxPktAssumption, MaxModAssumption
  <1>4. CASE Arrive
    <2>1. arrived' \in 1 .. MaxPkt /\ dl.pkt = 0
      BY <1>3, <1>4 DEF Arrive, Shape, TypeOK, LoopShape
    <2>2. CASE ip = 0
      <3>1. dropped' \subseteq Pkt /\ dl' = dl
        BY <1>4, <2>1, <2>2 DEF Arrive, Drop, Pkt, Shape, TypeOK
      <3>2. TasksOK'
        BY <1>1, <1>3, <1>4, <2>1, <3>1, TypeParts DEF Arrive, Shape, TasksOK
      <3>3. dl.pc = "idle"
        BY <1>4 DEF Arrive
      <3> QED
        BY <1>2, <3>1, <3>2, <3>3, TypeParts DEF Shape, LoopShape
    <2>3. CASE ip # 0
      <3>1. PICK f \in Tun : f = IF ev.pc = "idle" THEN mods ELSE 0
        BY <1>3, TypeParts DEF Shape, TasksOK, Tun
      <3>2. /\ dl' = [pc |-> "found", pkt |-> arrived', obj |-> ip, far |-> NoFar, floor |-> f]
            /\ dropped' = dropped
        BY <1>4, <2>3, <3>1 DEF Arrive
      <3>3. /\ dl' \in DlType(Len(objs))
            /\ dl'.pc = "found" /\ dl'.obj = ip /\ dl'.pkt = arrived'
        BY <1>3, <2>1, <3>1, <3>2, IdleTypes DEF Shape, TypeOK, DlType
      <3>4. TasksOK'
        BY <1>1, <1>4, <2>1, <3>2, <3>3, TypeParts DEF Arrive, Shape, TasksOK
      <3> QED
        BY <1>2, <2>1, <2>3, <3>3, <3>4, TypeParts DEF Shape, LoopShape
    <2> QED
      BY <2>2, <2>3
  <1>5. CASE MatchPdr \/ ApplyFar \/ Forward
    <2>1. dl.pkt \in Pkt /\ dl.pc # "idle"
      BY <1>5, LoopTypes DEF MatchPdr, ApplyFar, Forward
    <2>2. dropped' \subseteq Pkt
      BY <1>5, <2>1 DEF MatchPdr, ApplyFar, Forward, Send, Drop, Shape, TypeOK
    <2>3. objs[dl.obj].far \in Far
      BY <2>1, ObjectsExist, ObjectTypes DEF Shape
    <2>4. \/ dl' = IdleDl
          \/ dl' = [dl EXCEPT !.pc = "matched"]
          \/ dl' = [dl EXCEPT !.pc = "decided", !.far = objs[dl.obj].far]
      BY <1>5 DEF MatchPdr, ApplyFar, Forward
    <2>5. /\ dl' \in DlType(Len(objs))
          /\ dl'.pc = "idle" => dl'.pkt = 0
          /\ dl'.pc # "idle" => dl'.obj = dl.obj /\ dl'.pkt = dl.pkt
      BY <1>3, <2>1, <2>3, <2>4, IdleTypes DEF Shape, TypeOK, DlType
    <2>6. sent' \in Seq([pkt : Pkt, tun : Tun, floor : Tun, flushed : BOOLEAN])
      <3>1. CASE sent' = sent
        BY <3>1 DEF Shape, TypeOK
      <3>2. CASE Forward /\ sent' # sent
        <4>1. PICK r : r = [pkt |-> dl.pkt, tun |-> dl.far.tun, floor |-> dl.floor, flushed |-> FALSE]
          OBVIOUS
        <4>2. r \in [pkt : Pkt, tun : Tun, floor : Tun, flushed : BOOLEAN]
          BY <2>1, <4>1 DEF Shape, TypeOK, Far
        <4>3. sent' = Append(sent, r)
          BY <3>2, <4>1 DEF Forward, Send
        <4> QED
          BY <4>2, <4>3 DEF Shape, TypeOK
      <3> QED
        BY <1>5, <3>1, <3>2 DEF MatchPdr, ApplyFar
    <2>7. reports' = reports /\ arrived' = arrived /\ due' = due /\ episode' = episode
      BY <1>5 DEF MatchPdr, ApplyFar, Forward
    <2>8. TasksOK'
      BY <1>1, <2>2, <2>5, <2>6, <2>7, TypeParts DEF Shape, TasksOK
    <2> QED
      BY <1>2, <2>1, <2>5, <2>7, <2>8, TypeParts DEF Shape, LoopShape
  <1> QED
    BY <1>4, <1>5

\* The fields of the event task.
LEMMA EvFields ==
  ASSUME Shape
  PROVE  /\ ev \in EvType(Len(objs))
         /\ ev.obj \in 0 .. Len(objs) /\ ev.far \in Far /\ ev.old \in Far
         /\ ev.buf \in Seq(Pkt)
  BY DEF Shape, TypeOK, EvType

\* The event task at another place, with the same things in hand.
LEMMA EvMoved ==
  ASSUME Shape, NEW q \in {"idle", "default", "pdrs", "fars", "buffer", "remove", "add",
                           "install", "drain", "send"},
         NEW n \in Nat, Len(objs) <= n, ev' = [ev EXCEPT !.pc = q]
  PROVE  /\ ev' \in EvType(n)
         /\ ev'.pc = q /\ ev'.obj = ev.obj /\ ev'.far = ev.far /\ ev'.old = ev.old
         /\ ev'.buf = ev.buf
  <1>1. ev \in EvType(Len(objs)) /\ Len(objs) \in Nat
    BY EvFields, ObjectsExist
  <1> QED
    BY <1>1 DEF EvType

\* What is left of Shape for a step of the event task that only writes the
\* objects and its own record.
LEMMA ShapeOfEvent ==
  ASSUME Shape, ObjectsOK', EventShape', Len(objs') >= Len(objs),
         ip' \in 0 .. Len(objs'), ev' \in EvType(Len(objs')),
         dl' = dl, reports' = reports, arrived' = arrived,
         mods' \in 0 .. MaxMod,
         sent' \in Seq([pkt : Pkt, tun : Tun, floor : Tun, flushed : BOOLEAN]),
         dropped' \subseteq Pkt, due' \subseteq Pkt,
         episode' \in [waiting : BOOLEAN, asked : BOOLEAN, late : BOOLEAN]
  PROVE  Shape'
  <1>1. Len(objs) \in Nat /\ Len(objs') \in Nat
    BY ObjectsExist DEF ObjectsOK
  <1>2. dl' \in DlType(Len(objs'))
    BY <1>1, TypeParts DEF Shape, TasksOK, DlType
  <1>3. TasksOK'
    BY <1>2, TypeParts DEF Shape, TasksOK
  <1>4. LoopShape'
    BY DEF Shape, LoopShape
  <1> QED
    BY <1>3, <1>4, TypeParts DEF Shape

\* buffer_dl_packet.
LEMMA ShapeBuffer ==
  ASSUME Shape, Buffer
  PROVE  Shape'
  <1>1. /\ dl' = IdleDl /\ dl.pc = "decided" /\ dl.obj \in 1 .. Len(objs) /\ dl.pkt \in Pkt
        /\ ip' = ip /\ ev' = ev /\ arrived' = arrived /\ mods' = mods /\ sent' = sent /\ due' = due
    BY ObjectsExist, LoopTypes DEF Buffer
  <1>2. objs[dl.obj].ddn \in BOOLEAN /\ objs[dl.obj].buf \in Seq(Pkt)
    BY <1>1, ObjectTypes DEF Shape
  <1>3. reports' \in 0 .. ReportCap /\ dropped' \subseteq Pkt
    BY <1>1, ReportCapAssumption DEF Buffer, Drop, Shape, TypeOK
  <1>4. episode' \in [waiting : BOOLEAN, asked : BOOLEAN, late : BOOLEAN]
    <2>1. CASE episode' = episode
      BY <2>1 DEF Shape, TypeOK
    <2>2. CASE episode' # episode
      <3>1. PICK w, k, l \in BOOLEAN :
              /\ w = (episode.waiting \/ (dl.far.act = "nocp" /\ dl.obj = ip))
              /\ k = (episode.asked \/ (dl.far.act = "nocp" /\ ~objs[dl.obj].ddn))
              /\ l = (episode.late \/ dl.far.act # objs[dl.obj].far.act)
        OBVIOUS
      <3>2. episode' = [waiting |-> w, asked |-> k, late |-> l]
        BY <2>2, <3>1 DEF Buffer
      <3> QED
        BY <3>2
    <2> QED
      BY <2>1, <2>2
  <1>5. ObjectsOK' /\ Len(objs') = Len(objs) /\
        \A i \in 1 .. Len(objs) : objs'[i].far = objs[i].far
    <2>1. CASE BufferFull(objs[dl.obj])
      BY <2>1, TypeParts DEF Buffer, Shape, ObjectsOK
    <2>2. CASE ~BufferFull(objs[dl.obj])
      <3>1. PICK x \in Session : Becomes(dl.obj, x) /\ x.far = objs[dl.obj].far
                                 /\ x.buf = Append(objs[dl.obj].buf, dl.pkt)
        BY <2>2, BufferMove
      <3>2. Len(x.buf) <= BufCap
        BY <1>1, <1>2, <2>2, <3>1, BufCapAssumption DEF BufferFull
      <3> QED
        BY <1>1, <3>1, <3>2, ObjectsStayOK DEF Shape, Becomes
    <2> QED
      BY <2>1, <2>2
  <1>6. Len(objs) \in Nat
    BY ObjectsExist
  <1>7. TasksOK'
    BY <1>1, <1>3, <1>4, <1>5, <1>6, IdleTypes, TypeParts DEF Shape, TasksOK
  <1>8. LoopShape'
    BY <1>1, IdleTypes DEF LoopShape
  <1>9. EventShape'
    <2>1. ev.pc \in {"buffer", "remove", "add"} => ev.obj \in 1 .. Len(objs)
      BY ObjectsExist DEF Swapping
    <2> QED
      BY <1>1, <1>5, <2>1 DEF Shape, EventShape
  <1> QED
    BY <1>5, <1>7, <1>8, <1>9, TypeParts DEF Shape

\* The report task.
LEMMA ShapeReport ==
  ASSUME Shape, SendReport
  PROVE  Shape'
  <1>1. reports' \in 0 .. ReportCap
    BY ReportCapAssumption DEF SendReport, Shape, TypeOK
  <1> QED
    BY <1>1 DEF SendReport, Shape, TypeOK, LoopShape, EventShape

\* SessionEstablished: the first object.
LEMMA EstablishMove ==
  ASSUME Shape, Establish
  PROVE  /\ Len(objs) = 0 /\ Len(objs') = 1 /\ objs' \in Seq(Session) /\ ip' = 1 /\ ip = 0
         /\ objs'[1].far = [act |-> "forw", tun |-> 0] /\ objs'[1].buf = <<>> /\ objs'[1].ddn = FALSE
  <1>1. [act |-> "forw", tun |-> 0] \in Far
    BY MaxModAssumption DEF Far, Tun
  <1>2. PICK x :
          x = [pdrs |-> TRUE, far |-> [act |-> "forw", tun |-> 0], buf |-> <<>>, ddn |-> FALSE]
    OBVIOUS
  <1>3. x \in Session
    BY <1>1, <1>2 DEF Session
  <1>4. objs' = <<x>> /\ objs = <<>> /\ ip' = 1
    BY <1>2 DEF Establish
  <1>5. ip = 0
    BY <1>4 DEF Shape, TypeOK
  <1>6. Len(objs) = 0 /\ Len(objs') = 1 /\ objs' \in Seq(Session) /\ objs'[1] = x
    BY <1>3, <1>4
  <1>7. x.far = [act |-> "forw", tun |-> 0] /\ x.buf = <<>> /\ x.ddn = FALSE
    BY <1>2
  <1> QED
    BY <1>4, <1>5, <1>6, <1>7

\* Establishment and deletion.
LEMMA ShapeSession ==
  ASSUME Shape, Establish \/ InstallRules \/ Delete
  PROVE  Shape'
  <1>1. /\ dl' = dl /\ reports' = reports /\ arrived' = arrived /\ mods' = mods /\ sent' = sent
        /\ dropped' = dropped /\ due' = due /\ episode' = episode
    BY DEF Establish, InstallRules, Delete
  <1>2. /\ mods' \in 0 .. MaxMod
        /\ sent' \in Seq([pkt : Pkt, tun : Tun, floor : Tun, flushed : BOOLEAN])
        /\ dropped' \subseteq Pkt /\ due' \subseteq Pkt
        /\ episode' \in [waiting : BOOLEAN, asked : BOOLEAN, late : BOOLEAN]
    BY <1>1 DEF Shape, TypeOK
  <1>3. Len(objs) \in Nat
    BY ObjectsExist
  <1>4. CASE Establish
    <2>1. /\ Len(objs) = 0 /\ Len(objs') = 1 /\ objs' \in Seq(Session) /\ ip' = 1
          /\ objs'[1].buf = <<>>
      BY <1>4, EstablishMove
    <2>2. ObjectsOK'
      BY <2>1, BufCapAssumption DEF ObjectsOK
    <2>3. ev' = [ev EXCEPT !.pc = "default"] /\ ev.pc = "idle"
      BY <1>4 DEF Establish, EvStep
    <2>4. /\ ev' \in EvType(Len(objs')) /\ ev'.pc = "default" /\ ev'.buf = ev.buf
      BY <2>1, <2>3, EvMoved
    <2>5. EventShape'
      BY <2>1, <2>3, <2>4 DEF EventShape, Shape, Swapping
    <2> QED
      BY <1>1, <1>2, <2>1, <2>2, <2>4, <2>5, ShapeOfEvent
  <1>5. CASE InstallRules
    <2>1. PICK x \in Session : Becomes(ip, x) /\ x.buf = objs[ip].buf
      BY <1>5, InstallRulesMove
    <2>2. ip \in 1 .. Len(objs) /\ ip' = ip
      BY <1>5, ObjectsExist DEF InstallRules, EvStep, Shape, EventShape
    <2>3. ObjectsOK' /\ Len(objs') = Len(objs)
      BY <2>1, <2>2, ObjectTypes, ObjectsStayOK DEF Shape, Becomes
    <2>4. ev' = [ev EXCEPT !.pc = "idle"] /\ ev.pc = "default"
      BY <1>5 DEF InstallRules, EvStep
    <2>5. /\ ev' \in EvType(Len(objs')) /\ ev'.pc = "idle" /\ ev'.buf = ev.buf
      BY <1>3, <2>3, <2>4, EvMoved
    <2>6. EventShape'
      BY <2>4, <2>5 DEF EventShape, Shape, Swapping
    <2> QED
      BY <1>1, <1>2, <1>3, <2>2, <2>3, <2>5, <2>6, ShapeOfEvent
  <1>6. CASE Delete
    <2>1. objs' = objs /\ ev' = ev /\ ip' = 0 /\ ev.pc = "idle"
      BY <1>6 DEF Delete
    <2>2. ObjectsOK'
      BY <2>1, TypeParts DEF Shape, ObjectsOK
    <2>3. EventShape'
      BY <2>1 DEF EventShape, Shape, Swapping
    <2> QED
      BY <1>1, <1>2, <1>3, <2>1, <2>2, <2>3, EvFields, ShapeOfEvent
  <1> QED
    BY <1>4, <1>5, <1>6

\* The beginning of a modification.
LEMMA ShapeBegin ==
  ASSUME Shape, Activate \/ Deactivate \/ DropBuffered
  PROVE  Shape'
  <1>1. /\ dl' = dl /\ reports' = reports /\ arrived' = arrived /\ sent' = sent
        /\ episode' = episode /\ ip' = ip /\ ev.pc = "idle" /\ ip \in 1 .. Len(objs)
    BY ObjectsExist DEF Activate, Deactivate, DropBuffered
  <1>2. /\ sent' \in Seq([pkt : Pkt, tun : Tun, floor : Tun, flushed : BOOLEAN])
        /\ episode' \in [waiting : BOOLEAN, asked : BOOLEAN, late : BOOLEAN]
        /\ mods \in 0 .. MaxMod /\ dropped \subseteq Pkt /\ due \subseteq Pkt
    BY <1>1 DEF Shape, TypeOK
  <1>3. Len(objs) \in Nat /\ MaxMod \in Nat
    BY ObjectsExist, MaxModAssumption
  <1>4. objs[ip].buf \in Seq(Pkt) /\ Len(objs[ip].buf) <= BufCap
    BY <1>1, ObjectTypes DEF Shape
  <1>5. ToSet(objs[ip].buf) \subseteq Pkt
    BY <1>4 DEF ToSet
  <1>6. CASE Activate
    <2>1. PICK x \in Session : Becomes(ip, x) /\ x.buf = objs[ip].buf
      BY <1>6, ActivateMove
    <2>2. ObjectsOK' /\ Len(objs') = Len(objs)
      BY <1>1, <1>4, <2>1, ObjectsStayOK DEF Shape, Becomes
    <2>3. mods' \in 0 .. MaxMod /\ mods' = mods + 1
      BY <1>2, <1>3, <1>6 DEF Activate
    <2>4. PICK f \in Far : f = [act |-> "forw", tun |-> mods']
      BY <2>3 DEF Far, Tun
    <2>5. ev' = [IdleEv EXCEPT !.pc = "pdrs", !.obj = ip, !.far = f]
      BY <1>6, <2>4 DEF Activate
    <2>6. ev' = [pc |-> "pdrs", obj |-> ip, far |-> f, old |-> NoFar, buf |-> <<>>]
      BY <2>5 DEF IdleEv
    <2>7. ev' \in EvType(Len(objs'))
      BY <1>1, <1>3, <2>2, <2>6, IdleTypes DEF EvType
    <2>8. EventShape'
      BY <1>1, <1>3, <2>4, <2>6 DEF EventShape, Swapping
    <2>9. due' \subseteq Pkt /\ dropped' = dropped
      BY <1>5, <1>6 DEF Activate
    <2> QED
      BY <1>1, <1>2, <1>3, <2>2, <2>3, <2>7, <2>8, <2>9, ShapeOfEvent
  <1>7. CASE Deactivate
    <2>1. objs' = objs /\ mods' = mods /\ dropped' = dropped /\ due' = due
      BY <1>7 DEF Deactivate
    <2>2. ObjectsOK'
      BY <2>1, TypeParts DEF Shape, ObjectsOK
    <2>3. PICK f \in Far : f = [act |-> "nocp", tun |-> 0]
      <3>1. [act |-> "nocp", tun |-> 0] \in Far
        BY <1>3 DEF Far, Tun
      <3> QED
        BY <3>1
    <2>4. ev' = [IdleEv EXCEPT !.pc = "install", !.far = f]
      BY <1>7, <2>3 DEF Deactivate
    <2>5. ev' = [pc |-> "install", obj |-> 0, far |-> f, old |-> NoFar, buf |-> <<>>]
      BY <2>4 DEF IdleEv
    <2>6. ev' \in EvType(Len(objs'))
      BY <1>3, <2>1, <2>5, IdleTypes DEF EvType
    <2>7. EventShape'
      BY <1>1, <2>3, <2>5 DEF EventShape, Swapping
    <2> QED
      BY <1>1, <1>2, <1>3, <2>1, <2>2, <2>6, <2>7, ShapeOfEvent
  <1>8. CASE DropBuffered
    <2>1. PICK x \in Session : Becomes(ip, x) /\ x.buf = <<>>
      BY <1>1, <1>8, DrainedMove DEF DropBuffered
    <2>2. ObjectsOK' /\ Len(objs') = Len(objs)
      <3>1. Len(x.buf) <= BufCap
        BY <2>1, BufCapAssumption
      <3> QED
        BY <1>1, <2>1, <3>1, ObjectsStayOK DEF Shape, Becomes
    <2>3. ev' = ev /\ mods' = mods /\ dropped' \subseteq Pkt /\ due' \subseteq Pkt
      BY <1>2, <1>5, <1>8 DEF DropBuffered
    <2>4. EventShape'
      BY <1>1, <2>3 DEF EventShape, Shape, Swapping
    <2> QED
      BY <1>1, <1>2, <1>3, <2>2, <2>3, <2>4, EvFields, ShapeOfEvent
  <1> QED
    BY <1>6, <1>7, <1>8

\* The session object that takes over.
LEMMA AddNewMove ==
  ASSUME Shape, AddNew
  PROVE  /\ objs' \in Seq(Session) /\ Len(objs') = Len(objs) + 1 /\ ip' = Len(objs) + 1
         /\ \A j \in 1 .. Len(objs) : objs'[j] = objs[j]
         /\ objs'[Len(objs) + 1].far = ev.old
         /\ objs'[Len(objs) + 1].buf = ev.buf
         /\ objs'[Len(objs) + 1].ddn = objs[ev.obj].ddn
         /\ ev' \in EvType(Len(objs'))
         /\ ev'.pc = "install" /\ ev'.buf = <<>> /\ ev'.obj = ev.obj /\ ev'.far = ev.far
         /\ ev'.old = ev.old
         /\ ev.pc = "add" /\ ev.obj \in 1 .. Len(objs) /\ ip = 0
  <1>1. ev.pc = "add" /\ ev.obj \in 1 .. Len(objs) /\ ip = 0 /\ Len(objs) \in Nat
    BY ObjectsExist DEF AddNew, AddSession, Shape, EventShape
  <1>2. objs[ev.obj].ddn \in BOOLEAN /\ ev.old \in Far /\ ev.buf \in Seq(Pkt) /\ ev \in EvType(Len(objs))
    BY <1>1, ObjectTypes, EvFields DEF Shape
  <1>3. PICK x : x = [pdrs |-> TRUE, far |-> ev.old, buf |-> ev.buf, ddn |-> objs[ev.obj].ddn]
    OBVIOUS
  <1>4. x \in Session
    BY <1>2, <1>3 DEF Session
  <1>5. objs' = Append(objs, x)
    BY <1>3 DEF AddNew, AddSession
  <1>6. objs \in Seq(Session)
    BY DEF Shape, TypeOK
  <1>7. /\ objs' \in Seq(Session) /\ Len(objs') = Len(objs) + 1
        /\ objs'[Len(objs) + 1] = x
        /\ \A j \in 1 .. Len(objs) : objs'[j] = objs[j]
    BY <1>4, <1>5, <1>6, Added
  <1>8. ip' = Len(objs) + 1
    BY <1>7 DEF AddNew, AddSession
  <1>9. ev' = [ev EXCEPT !.pc = "install", !.buf = <<>>]
    BY DEF AddNew, AddSession
  <1>10. /\ ev' \in EvType(Len(objs'))
         /\ ev'.pc = "install" /\ ev'.buf = <<>> /\ ev'.obj = ev.obj /\ ev'.far = ev.far
         /\ ev'.old = ev.old
    <2>1. PICK b \in Seq(Pkt) : b = <<>>
      <3>1. <<>> \in Seq(Pkt)
        OBVIOUS
      <3> QED
        BY <3>1, Zenon
    <2>2. ev' = [ev EXCEPT !.pc = "install", !.buf = b]
      BY <1>9, <2>1, Zenon
    <2>3. ev' \in EvType(Len(objs))
      BY <1>2, <2>2 DEF EvType
    <2>4. /\ ev'.pc = "install" /\ ev'.buf = <<>> /\ ev'.obj = ev.obj /\ ev'.far = ev.far
          /\ ev'.old = ev.old
      BY <1>2, <2>1, <2>2 DEF EvType
    <2>5. ev' \in EvType(Len(objs) + 1)
      BY <1>1, <2>3 DEF EvType
    <2> QED
      BY <1>7, <2>4, <2>5
  <1>11. x.far = ev.old /\ x.buf = ev.buf /\ x.ddn = objs[ev.obj].ddn
    BY <1>3
  <1> QED
    BY <1>1, <1>7, <1>8, <1>10, <1>11

\* The FARs, and then the buffer, in the hands of the event task.
LEMMA TakenEv ==
  ASSUME Shape, TakeFars \/ TakeBuffer
  PROVE  /\ ev' \in EvType(Len(objs))
         /\ ev'.obj = ev.obj /\ ev'.far = ev.far
         /\ TakeFars => ev.pc = "fars" /\ ev'.pc = "buffer" /\ ev'.old = objs[ev.obj].far
                        /\ ev'.buf = ev.buf
         /\ TakeBuffer => ev.pc = "buffer" /\ ev'.pc = "remove" /\ ev'.old = ev.old
                          /\ ev'.buf = objs[ev.obj].buf
  <1>1. ev.obj \in 1 .. Len(objs)
    BY ObjectsExist DEF TakeFars, TakeBuffer, Swapping
  <1>2. objs[ev.obj].far \in Far /\ objs[ev.obj].buf \in Seq(Pkt) /\ ev \in EvType(Len(objs))
    BY <1>1, ObjectTypes, EvFields DEF Shape
  <1>3. CASE TakeFars
    <2>1. ev' = [ev EXCEPT !.pc = "buffer", !.old = objs[ev.obj].far] /\ ev.pc = "fars"
      BY <1>3 DEF TakeFars
    <2> QED
      BY <1>2, <2>1, <1>3 DEF EvType, TakeBuffer
  <1>4. CASE TakeBuffer
    <2>1. ev' = [ev EXCEPT !.pc = "remove", !.buf = objs[ev.obj].buf] /\ ev.pc = "buffer"
      BY <1>4 DEF TakeBuffer
    <2> QED
      BY <1>2, <2>1, <1>4 DEF EvType, TakeFars
  <1> QED
    BY <1>3, <1>4

\* The swap of the session object.
LEMMA ShapeSwap ==
  ASSUME Shape, TakePdrs \/ TakeFars \/ TakeBuffer \/ RemoveOld \/ AddNew
  PROVE  Shape'
  <1>1. /\ dl' = dl /\ reports' = reports /\ arrived' = arrived /\ mods' = mods /\ sent' = sent
        /\ dropped' = dropped /\ due' = due /\ episode' = episode
    BY DEF TakePdrs, TakeFars, TakeBuffer, RemoveOld, AddNew, AddSession
  <1>2. /\ mods' \in 0 .. MaxMod
        /\ sent' \in Seq([pkt : Pkt, tun : Tun, floor : Tun, flushed : BOOLEAN])
        /\ dropped' \subseteq Pkt /\ due' \subseteq Pkt
        /\ episode' \in [waiting : BOOLEAN, asked : BOOLEAN, late : BOOLEAN]
    BY <1>1 DEF Shape, TypeOK
  <1>3. Len(objs) \in Nat /\ ip \in 0 .. Len(objs)
    BY ObjectsExist DEF Shape, TypeOK
  <1>4. ev.obj \in 1 .. Len(objs)
    BY ObjectsExist
    DEF TakePdrs, TakeFars, TakeBuffer, RemoveOld, AddNew, AddSession, EvStep, Swapping
  <1>5. objs[ev.obj].buf \in Seq(Pkt) /\ Len(objs[ev.obj].buf) <= BufCap
    BY <1>4, ObjectTypes DEF Shape
  <1>6. CASE TakePdrs
    <2>1. PICK x \in Session : Becomes(ev.obj, x) /\ x.buf = objs[ev.obj].buf
      BY <1>6, TakePdrsMove
    <2>2. ObjectsOK' /\ Len(objs') = Len(objs)
      BY <1>4, <1>5, <2>1, ObjectsStayOK DEF Shape, Becomes
    <2>3. ev' = [ev EXCEPT !.pc = "fars"] /\ ev.pc = "pdrs" /\ ip' = ip
      BY <1>6 DEF TakePdrs, EvStep
    <2>4. /\ ev' \in EvType(Len(objs')) /\ ev'.pc = "fars" /\ ev'.buf = ev.buf
          /\ ev'.obj = ev.obj /\ ev'.far = ev.far
      BY <1>3, <2>2, <2>3, EvMoved
    <2>5. EventShape'
      BY <2>3, <2>4 DEF EventShape, Shape, Swapping
    <2> QED
      BY <1>1, <1>2, <1>3, <2>2, <2>3, <2>4, <2>5, ShapeOfEvent
  <1>7. CASE TakeFars
    <2>1. PICK x \in Session : Becomes(ev.obj, x) /\ x.buf = objs[ev.obj].buf /\ x.far = NoFar
      BY <1>7, TakeFarsMove
    <2>2. ObjectsOK' /\ Len(objs') = Len(objs) /\ objs'[ev.obj].far.act = "none"
      BY <1>4, <1>5, <2>1, ObjectsStayOK, IdleTypes DEF Shape, Becomes
    <2>3. ip' = ip
      BY <1>7 DEF TakeFars
    <2>4. /\ ev' \in EvType(Len(objs')) /\ ev.pc = "fars" /\ ev'.pc = "buffer" /\ ev'.buf = ev.buf
          /\ ev'.obj = ev.obj /\ ev'.far = ev.far
      BY <1>7, <2>2, TakenEv
    <2>5. EventShape'
      BY <2>2, <2>3, <2>4 DEF EventShape, Shape, Swapping
    <2> QED
      BY <1>1, <1>2, <1>3, <2>2, <2>3, <2>4, <2>5, ShapeOfEvent
  <1>8. CASE TakeBuffer
    <2>1. PICK x \in Session : Becomes(ev.obj, x) /\ x.buf = <<>> /\ x.far = objs[ev.obj].far
      BY <1>8, TakeBufferMove
    <2>2. Len(x.buf) <= BufCap
      BY <2>1, BufCapAssumption
    <2>3. ObjectsOK' /\ Len(objs') = Len(objs) /\ objs'[ev.obj].far = objs[ev.obj].far
      BY <1>4, <2>1, <2>2, ObjectsStayOK DEF Shape, Becomes
    <2>4. ip' = ip
      BY <1>8 DEF TakeBuffer
    <2>5. /\ ev' \in EvType(Len(objs')) /\ ev.pc = "buffer" /\ ev'.pc = "remove"
          /\ ev'.obj = ev.obj /\ ev'.far = ev.far /\ ev'.buf = objs[ev.obj].buf
      BY <1>8, <2>3, TakenEv
    <2>6. EventShape'
      BY <1>5, <2>3, <2>4, <2>5 DEF EventShape, Shape, Swapping
    <2> QED
      BY <1>1, <1>2, <1>3, <2>3, <2>4, <2>5, <2>6, ShapeOfEvent
  <1>9. CASE RemoveOld
    <2>1. ev' = [ev EXCEPT !.pc = "add"] /\ ev.pc = "remove" /\ ip' = 0 /\ objs' = objs
      BY <1>9 DEF RemoveOld, EvStep
    <2>2. /\ ev' \in EvType(Len(objs')) /\ ev'.pc = "add" /\ ev'.buf = ev.buf
          /\ ev'.obj = ev.obj /\ ev'.far = ev.far
      BY <1>3, <2>1, EvMoved
    <2>3. EventShape'
      BY <1>3, <1>4, <2>1, <2>2 DEF EventShape, Shape, Swapping
    <2>4. ObjectsOK'
      BY <2>1, TypeParts DEF Shape, ObjectsOK
    <2> QED
      BY <1>1, <1>2, <1>3, <2>1, <2>2, <2>3, <2>4, ShapeOfEvent
  <1>10. CASE AddNew
    <2>1. /\ objs' \in Seq(Session) /\ Len(objs') = Len(objs) + 1 /\ ip' = Len(objs) + 1
          /\ \A j \in 1 .. Len(objs) : objs'[j] = objs[j]
          /\ objs'[Len(objs) + 1].buf = ev.buf
          /\ ev' \in EvType(Len(objs'))
          /\ ev'.pc = "install" /\ ev'.buf = <<>> /\ ev'.obj = ev.obj /\ ev'.far = ev.far
          /\ ev.pc = "add"
      BY <1>10, AddNewMove
    <2>2. Len(ev.buf) <= BufCap
      BY <2>1 DEF Shape, EventShape
    <2>3. ObjectsOK'
      <3>1. \A i \in 1 .. Len(objs) : Len(objs[i].buf) <= BufCap
        BY TypeParts DEF Shape, ObjectsOK
      <3>2. ASSUME NEW i \in 1 .. Len(objs')
            PROVE  Len(objs'[i].buf) <= BufCap
        <4>1. i \in 1 .. Len(objs) \/ i = Len(objs) + 1
          BY <1>3, <2>1
        <4> QED
          BY <2>1, <2>2, <3>1, <4>1
      <3> QED
        BY <2>1, <3>2 DEF ObjectsOK
    <2>4. EventShape'
      BY <1>3, <2>1 DEF EventShape, Shape, Swapping
    <2> QED
      BY <1>1, <1>2, <1>3, <2>1, <2>3, <2>4, ShapeOfEvent
  <1> QED
    BY <1>6, <1>7, <1>8, <1>9, <1>10

\* The new FAR and the flush.
LEMMA ShapeFlush ==
  ASSUME Shape, InstallFar \/ DrainBuffer \/ FlushSend \/ FlushDone
  PROVE  Shape'
  <1>1. /\ dl' = dl /\ reports' = reports /\ arrived' = arrived /\ mods' = mods
        /\ due' = due /\ ip' = ip /\ ip \in 1 .. Len(objs)
    BY ObjectsExist DEF InstallFar, DrainBuffer, FlushSend, FlushDone, EvStep, Shape, EventShape
  <1>2. /\ mods' \in 0 .. MaxMod /\ due' \subseteq Pkt
        /\ sent \in Seq([pkt : Pkt, tun : Tun, floor : Tun, flushed : BOOLEAN])
        /\ dropped \subseteq Pkt
        /\ episode \in [waiting : BOOLEAN, asked : BOOLEAN, late : BOOLEAN]
    BY <1>1 DEF Shape, TypeOK
  <1>3. Len(objs) \in Nat /\ ip' \in 0 .. Len(objs)
    BY <1>1, ObjectsExist
  <1>4. objs[ip].buf \in Seq(Pkt) /\ Len(objs[ip].buf) <= BufCap
    BY <1>1, ObjectTypes DEF Shape
  <1>5. ev \in EvType(Len(objs)) /\ ev.far \in Far /\ ev.buf \in Seq(Pkt)
    BY EvFields
  <1>6. CASE InstallFar
    <2>1. PICK x \in Session : Becomes(ip, x) /\ x.buf = objs[ip].buf
      BY <1>6, InstallFarMove
    <2>2. ObjectsOK' /\ Len(objs') = Len(objs)
      BY <1>1, <1>4, <2>1, ObjectsStayOK DEF Shape, Becomes
    <2>3. PICK q \in {"drain", "idle"} :
            /\ q = IF ev.far.act = "forw" THEN "drain" ELSE "idle"
            /\ ev' = [ev EXCEPT !.pc = q]
      BY <1>6 DEF InstallFar, EvStep
    <2>4. /\ ev' \in EvType(Len(objs')) /\ ev'.pc = q /\ ev'.buf = ev.buf
          /\ ev'.obj = ev.obj /\ ev'.far = ev.far
      <3>1. CASE q = "drain"
        BY <1>3, <2>2, <2>3, <3>1, EvMoved
      <3>2. CASE q = "idle"
        BY <1>3, <2>2, <2>3, <3>2, EvMoved
      <3> QED
        BY <3>1, <3>2
    <2>5. EventShape'
      BY <1>1, <1>6, <2>3, <2>4 DEF EventShape, Shape, Swapping, InstallFar, EvStep
    <2>6. sent' = sent /\ dropped' = dropped
      BY <1>6 DEF InstallFar
    <2>7. episode' \in [waiting : BOOLEAN, asked : BOOLEAN, late : BOOLEAN]
      <3>1. PICK b \in BOOLEAN : b = (objs[ip].far.act # "forw")
        OBVIOUS
      <3>2. episode' = episode \/ episode' = [episode EXCEPT !.waiting = FALSE, !.asked = b]
        BY <1>6, <3>1 DEF InstallFar
      <3> QED
        BY <1>2, <3>2
    <2> QED
      BY <1>1, <1>2, <1>3, <2>2, <2>4, <2>5, <2>6, <2>7, ShapeOfEvent
  <1>7. CASE DrainBuffer
    <2>1. PICK x \in Session : Becomes(ip, x) /\ x.buf = <<>>
      <3>1. objs' = Drained /\ ip # 0
        BY <1>1, <1>7 DEF DrainBuffer
      <3> QED
        BY <3>1, DrainedMove
    <2>2. Len(x.buf) <= BufCap
      BY <2>1, BufCapAssumption
    <2>3. ObjectsOK' /\ Len(objs') = Len(objs)
      BY <1>1, <2>1, <2>2, ObjectsStayOK DEF Shape, Becomes
    <2>4. ev' = [ev EXCEPT !.pc = "send", !.buf = objs[ip].buf] /\ ev.pc = "drain"
      BY <1>7 DEF DrainBuffer
    <2>5. ev' \in EvType(Len(objs')) /\ ev'.pc = "send" /\ ev'.far = ev.far
      BY <1>4, <1>5, <2>3, <2>4 DEF EvType
    <2>6. EventShape'
      BY <1>1, <2>4, <2>5 DEF EventShape, Shape, Swapping
    <2>7. sent' = sent /\ dropped' = dropped
          /\ episode' \in [waiting : BOOLEAN, asked : BOOLEAN, late : BOOLEAN]
      BY <1>7 DEF DrainBuffer
    <2> QED
      BY <1>1, <1>2, <1>3, <2>3, <2>5, <2>6, <2>7, ShapeOfEvent
  <1>8. CASE FlushSend
    <2>1. objs' = objs /\ episode' = episode /\ ev.pc = "send" /\ ev.buf # <<>>
          /\ ev' = [ev EXCEPT !.buf = Tail(ev.buf)]
      BY <1>8 DEF FlushSend
    <2>2. Head(ev.buf) \in Pkt /\ Tail(ev.buf) \in Seq(Pkt)
      BY <1>5, <2>1
    <2>3. ev' \in EvType(Len(objs')) /\ ev'.pc = "send" /\ ev'.far = ev.far
      BY <1>5, <2>1, <2>2 DEF EvType
    <2>4. EventShape'
      BY <1>1, <2>1, <2>3 DEF EventShape, Shape, Swapping
    <2>5. sent' \in Seq([pkt : Pkt, tun : Tun, floor : Tun, flushed : BOOLEAN])
      <3>1. PICK r : r = [pkt |-> Head(ev.buf), tun |-> ev.far.tun, floor |-> 0, flushed |-> TRUE]
        OBVIOUS
      <3>2. r \in [pkt : Pkt, tun : Tun, floor : Tun, flushed : BOOLEAN]
        BY <1>5, <2>2, <3>1, MaxModAssumption DEF Far, Tun
      <3>3. sent' = sent \/ sent' = Append(sent, r)
        BY <1>8, <3>1 DEF FlushSend, Send
      <3>4. CASE sent' = Append(sent, r)
        BY <1>2, <3>2, <3>4
      <3> QED
        BY <1>2, <3>3, <3>4
    <2>6. dropped' \subseteq Pkt
      BY <1>2, <1>8, <2>2 DEF FlushSend, Send, Drop
    <2>7. ObjectsOK'
      BY <2>1, TypeParts DEF Shape, ObjectsOK
    <2> QED
      BY <1>1, <1>2, <1>3, <2>1, <2>3, <2>4, <2>5, <2>6, <2>7, ShapeOfEvent
  <1>9. CASE FlushDone
    <2>1. objs' = objs /\ episode' = episode /\ sent' = sent /\ dropped' = dropped /\ ev' = IdleEv
      BY <1>9 DEF FlushDone
    <2>2. ev' \in EvType(Len(objs')) /\ EventShape' /\ ObjectsOK'
      BY <1>3, <2>1, IdleTypes, TypeParts DEF EventShape, Swapping, Shape, ObjectsOK
    <2> QED
      BY <1>1, <1>2, <1>3, <2>1, <2>2, ShapeOfEvent
  <1> QED
    BY <1>6, <1>7, <1>8, <1>9

\* Shape is inductive.
LEMMA ShapeStep ==
  ASSUME Shape, [Next]_vars
  PROVE  Shape'
  <1>1. CASE UNCHANGED vars
    BY <1>1 DEF vars, Shape, TypeOK, LoopShape, EventShape
  <1>2. CASE PacketLoop \/ SendReport
    BY <1>2, ShapeLoop, ShapeBuffer, ShapeReport DEF PacketLoop
  <1>3. CASE EventTask
    BY <1>3, ShapeSession, ShapeBegin, ShapeSwap, ShapeFlush DEF EventTask, Modification
  <1> QED
    BY <1>1, <1>2, <1>3 DEF Next

\* Every state has the shape described.
LEMMA ShapeInvariance == Spec => []Shape
  <1> QED
    BY ShapeInit, ShapeStep, PTL DEF Spec

(***************************************************************************)
(* Type correctness: in particular no buffer exceeds its capacity, though  *)
(* a whole buffer is moved from object to object (update_session_from_pfcp)*)
(* while the packet loop may still push into the old one.                  *)
(***************************************************************************)
THEOREM TypeCorrect == Spec => []TypeOK
  <1>1. Shape => TypeOK
    BY DEF Shape
  <1> QED
    BY <1>1, ShapeInvariance, PTL

-----------------------------------------------------------------------------
(* Moving packets between places.                                          *)

\* A packet comes: it is in the hands of the loop, or discarded at once.
LEMMA LayoutArrive ==
  ASSUME NEW n \in Nat, NEW B, NEW E, NEW S, NEW D, NEW a \in Nat, Layout(n, B, {}, E, S, D, a)
  PROVE  /\ Layout(n, B, {a + 1}, E, S, D, a + 1)
         /\ Layout(n, B, {}, E, S, D \cup {a + 1}, a + 1)
  <1>1. Layout(n, B, {a + 1}, E, S, D, a + 1)
    BY DEF Layout
  <1>2. Layout(n, B, {}, E, S, D \cup {a + 1}, a + 1)
    BY DEF Layout
  <1> QED
    BY <1>1, <1>2

\* The loop discards its packet, or sends it.
LEMMA LayoutLoop ==
  ASSUME NEW n \in Nat, NEW B, NEW E, NEW S, NEW D, NEW a \in Nat, NEW p,
         Layout(n, B, {p}, E, S, D, a)
  PROVE  /\ Layout(n, B, {}, E, S, D \cup {p}, a)
         /\ Layout(n, B, {}, E, S \cup {p}, D, a)
  <1>1. Layout(n, B, {}, E, S, D \cup {p}, a)
    BY DEF Layout
  <1>2. Layout(n, B, {}, E, S \cup {p}, D, a)
    BY DEF Layout
  <1> QED
    BY <1>1, <1>2

\* The loop puts its packet into a buffer.
LEMMA LayoutBuffer ==
  ASSUME NEW n \in Nat, NEW B, NEW C, NEW E, NEW S, NEW D, NEW a \in Nat, NEW p,
         NEW i \in 1 .. n, Layout(n, B, {p}, E, S, D, a),
         C[i] = B[i] \cup {p}, \A j \in 1 .. n : j # i => C[j] = B[j]
  PROVE  Layout(n, C, {}, E, S, D, a)
  BY DEF Layout

\* A buffer is taken out of its object.
LEMMA LayoutTake ==
  ASSUME NEW n \in Nat, NEW B, NEW C, NEW H, NEW S, NEW D, NEW a \in Nat,
         NEW i \in 1 .. n, Layout(n, B, H, {}, S, D, a),
         C[i] = {}, \A j \in 1 .. n : j # i => C[j] = B[j]
  PROVE  Layout(n, C, H, B[i], S, D, a)
  BY DEF Layout

\* A buffer is put into a new object.
LEMMA LayoutAdd ==
  ASSUME NEW n \in Nat, NEW B, NEW C, NEW H, NEW E, NEW S, NEW D, NEW a \in Nat,
         Layout(n, B, H, E, S, D, a),
         C[n + 1] = E, \A j \in 1 .. n : C[j] = B[j]
  PROVE  Layout(n + 1, C, H, {}, S, D, a)
  <1>1. \A i \in 1 .. (n + 1) : i \in 1 .. n \/ i = n + 1
    OBVIOUS
  <1>2. n + 1 \in 1 .. (n + 1) /\ n + 1 \notin 1 .. n /\ \A i \in 1 .. n : i \in 1 .. (n + 1)
    OBVIOUS
  <1> QED
    BY <1>1, <1>2 DEF Layout

\* A packet leaves the flush: it is sent or discarded.
LEMMA LayoutFlush ==
  ASSUME NEW n \in Nat, NEW B, NEW H, NEW E, NEW S, NEW D, NEW a \in Nat, NEW p \in E,
         Layout(n, B, H, E, S, D, a)
  PROVE  /\ Layout(n, B, H, E \ {p}, S \cup {p}, D, a)
         /\ Layout(n, B, H, E \ {p}, S, D \cup {p}, a)
  <1>1. Layout(n, B, H, E \ {p}, S \cup {p}, D, a)
    BY DEF Layout
  <1>2. Layout(n, B, H, E \ {p}, S, D \cup {p}, a)
    BY DEF Layout
  <1> QED
    BY <1>1, <1>2

\* A buffer is discarded.
LEMMA LayoutDrop ==
  ASSUME NEW n \in Nat, NEW B, NEW C, NEW H, NEW E, NEW S, NEW D, NEW a \in Nat,
         NEW i \in 1 .. n, Layout(n, B, H, E, S, D, a),
         C[i] = {}, \A j \in 1 .. n : j # i => C[j] = B[j]
  PROVE  Layout(n, C, H, E, S, D \cup B[i], a)
  BY DEF Layout

\* Nothing is moved.
LEMMA LayoutSame ==
  ASSUME NEW n \in Nat, NEW B, NEW C, NEW H, NEW E, NEW S, NEW D, NEW a \in Nat,
         Layout(n, B, H, E, S, D, a), \A j \in 1 .. n : C[j] = B[j]
  PROVE  Layout(n, C, H, E, S, D, a)
  BY DEF Layout

-----------------------------------------------------------------------------
(* Every packet is in one place.                                           *)

Transmission == [pkt : Pkt, tun : Tun, floor : Tun, flushed : BOOLEAN]

\* The buffers after one object was written.
LEMMA BufsWritten ==
  ASSUME Shape, NEW i \in 1 .. Len(objs), NEW x, Becomes(i, x)
  PROVE  /\ Bufs'[i] = ToSet(x.buf) /\ Bufs[i] = ToSet(objs[i].buf)
         /\ \A j \in 1 .. Len(objs) : j # i => Bufs'[j] = Bufs[j]
  BY DEF Bufs, Becomes

\* The packets sent after one more was.
LEMMA SentMore ==
  ASSUME Shape, SentOnce, NEW r \in Transmission, sent' = Append(sent, r), r.pkt \notin Gone
  PROVE  Gone' = Gone \cup {r.pkt} /\ SentOnce'
  <1>1. sent \in Seq(Transmission)
    BY DEF Shape, TypeOK, Transmission
  <1>2. /\ DOMAIN sent = 1 .. Len(sent) /\ Len(sent) \in Nat
        /\ DOMAIN sent' = 1 .. (Len(sent) + 1)
        /\ sent'[Len(sent) + 1] = r
        /\ \A k \in 1 .. Len(sent) : sent'[k] = sent[k]
    BY <1>1
  <1>3. \A k \in 1 .. (Len(sent) + 1) : k \in 1 .. Len(sent) \/ k = Len(sent) + 1
    BY <1>2
  <1>4. \A k \in 1 .. Len(sent) : k \in 1 .. (Len(sent) + 1)
    BY <1>2
  <1>5. Gone' \subseteq Gone \cup {r.pkt}
    BY <1>2, <1>3 DEF Gone
  <1>6. Len(sent) + 1 \in 1 .. (Len(sent) + 1)
    BY <1>2
  <1>7. Gone \cup {r.pkt} \subseteq Gone'
    BY <1>2, <1>4, <1>6 DEF Gone
  <1>8. \A k \in 1 .. Len(sent) : sent[k].pkt # r.pkt
    BY <1>2 DEF Gone
  <1>9. SentOnce'
    <2>1. SUFFICES ASSUME NEW k \in 1 .. (Len(sent) + 1), NEW l \in 1 .. (Len(sent) + 1),
                          sent'[k].pkt = sent'[l].pkt
                   PROVE  k = l
      BY <1>2 DEF SentOnce
    <2>2. CASE k \in 1 .. Len(sent) /\ l \in 1 .. Len(sent)
      BY <1>2, <2>1, <2>2 DEF SentOnce
    <2> QED
      BY <1>2, <1>3, <1>8, <2>1, <2>2
  <1> QED
    BY <1>5, <1>7, <1>9

\* What the loop holds.
LEMMA HeldPacket ==
  ASSUME Shape
  PROVE  /\ dl.pc = "idle" => Held = {}
         /\ dl.pc # "idle" => Held = {dl.pkt} /\ dl.pkt = arrived
         /\ arrived \in Nat /\ Len(objs) \in Nat
  BY ObjectsExist, MaxPktAssumption DEF Shape, TypeOK, LoopShape, Held

\* Nothing has come yet.
LEMMA LaidInit == Init => Laid /\ SentOnce
  <1> SUFFICES ASSUME Init PROVE Laid /\ SentOnce
    OBVIOUS
  <1>1. Len(objs) = 0 /\ Held = {} /\ Leaving = {} /\ Gone = {} /\ dropped = {} /\ arrived = 0
    BY IdleTypes, SetOfEmpty DEF Init, Held, Leaving, Gone
  <1>2. Laid
    BY <1>1 DEF Laid, Layout
  <1>3. SentOnce
    BY DEF Init, SentOnce
  <1> QED
    BY <1>2, <1>3

\* The packet loop, without its last step.
LEMMA LaidLoop ==
  ASSUME Shape, Shape', Laid, SentOnce, Arrive \/ MatchPdr \/ ApplyFar
  PROVE  Laid' /\ SentOnce'
  <1>1. Bufs' = Bufs /\ Len(objs') = Len(objs) /\ Leaving' = Leaving /\ Gone' = Gone /\ SentOnce'
    BY DEF Arrive, MatchPdr, ApplyFar, Bufs, Leaving, Gone, SentOnce
  <1>2. Len(objs) \in Nat /\ arrived \in Nat
    BY HeldPacket
  <1>3. CASE Arrive
    <2>1. Held = {} /\ arrived' = arrived + 1
      BY <1>3, HeldPacket DEF Arrive
    <2>2. \/ Held' = {arrived + 1} /\ dropped' = dropped
          \/ Held' = {} /\ dropped' = dropped \cup {arrived + 1}
      <3>1. CASE ip = 0
        BY <1>3, <2>1, <3>1 DEF Arrive, Drop, Held
      <3>2. CASE ip # 0
        BY <1>2, <1>3, <2>1, <3>2 DEF Arrive, Held
      <3> QED
        BY <3>1, <3>2
    <2>3. Layout(Len(objs), Bufs, {}, Leaving, Gone, dropped, arrived)
      BY <2>1 DEF Laid
    <2>4. /\ Layout(Len(objs), Bufs, {arrived + 1}, Leaving, Gone, dropped, arrived + 1)
          /\ Layout(Len(objs), Bufs, {}, Leaving, Gone, dropped \cup {arrived + 1}, arrived + 1)
      BY <1>2, <2>3, LayoutArrive
    <2>5. Laid'
      BY <1>1, <2>1, <2>2, <2>4 DEF Laid
    <2> QED
      BY <1>1, <2>5
  <1>4. CASE MatchPdr \/ ApplyFar
    <2>1. Held = {dl.pkt} /\ arrived' = arrived
      BY <1>4, HeldPacket DEF MatchPdr, ApplyFar
    <2>2. \/ Held' = Held /\ dropped' = dropped
          \/ Held' = {} /\ dropped' = dropped \cup {dl.pkt}
      <3>1. CASE dl' = IdleDl /\ dropped' = dropped \cup {dl.pkt}
        BY <3>1, IdleTypes DEF Held
      <3>2. CASE dl'.pkt = dl.pkt /\ dropped' = dropped
        BY <3>2 DEF Held
      <3>3. dl \in DlType(Len(objs))
        BY TypeParts DEF Shape, TasksOK
      <3>4. CASE dl' = [dl EXCEPT !.pc = "matched"]
        BY <1>4, <3>1, <3>2, <3>3, <3>4 DEF MatchPdr, ApplyFar, Drop, DlType
      <3>5. CASE dl' = [dl EXCEPT !.pc = "decided", !.far = objs[dl.obj].far]
        BY <1>4, <3>1, <3>2, <3>3, <3>5 DEF MatchPdr, ApplyFar, Drop, DlType
      <3> QED
        BY <1>4, <3>1, <3>4, <3>5 DEF MatchPdr, ApplyFar, Drop
    <2>3. Layout(Len(objs), Bufs, {dl.pkt}, Leaving, Gone, dropped, arrived)
      BY <2>1 DEF Laid
    <2>4. Layout(Len(objs), Bufs, {}, Leaving, Gone, dropped \cup {dl.pkt}, arrived)
      BY <1>2, <2>3, LayoutLoop
    <2>5. Laid'
      BY <1>1, <2>1, <2>2, <2>3, <2>4 DEF Laid
    <2> QED
      BY <1>1, <2>5
  <1> QED
    BY <1>3, <1>4

\* The last step of the loop: the packet is sent, buffered or discarded.
LEMMA LaidEnd ==
  ASSUME Shape, Shape', Laid, SentOnce, Forward \/ Buffer
  PROVE  Laid' /\ SentOnce'
  <1>1. /\ Held = {dl.pkt} /\ Held' = {} /\ arrived' = arrived /\ ev' = ev /\ Leaving' = Leaving
        /\ dl.pkt \in Pkt
    BY HeldPacket, IdleTypes, LoopTypes DEF Forward, Buffer, Held, Leaving
  <1>2. Len(objs) \in Nat /\ arrived \in Nat
    BY HeldPacket
  <1>3. Layout(Len(objs), Bufs, {dl.pkt}, Leaving, Gone, dropped, arrived)
    BY <1>1 DEF Laid
  <1>4. /\ Layout(Len(objs), Bufs, {}, Leaving, Gone, dropped \cup {dl.pkt}, arrived)
        /\ Layout(Len(objs), Bufs, {}, Leaving, Gone \cup {dl.pkt}, dropped, arrived)
    BY <1>2, <1>3, LayoutLoop
  <1>5. CASE objs' = objs /\ sent' = sent /\ dropped' = dropped \cup {dl.pkt}
    <2>1. Bufs' = Bufs /\ Gone' = Gone /\ SentOnce'
      BY <1>5 DEF Bufs, Gone, SentOnce
    <2> QED
      BY <1>1, <1>4, <1>5, <2>1 DEF Laid
  <1>6. CASE Forward /\ dropped' = dropped
    <2>1. PICK r : r = [pkt |-> dl.pkt, tun |-> dl.far.tun, floor |-> dl.floor, flushed |-> FALSE]
      OBVIOUS
    <2>2. r \in Transmission /\ r.pkt = dl.pkt
      BY <1>1, <2>1 DEF Shape, TypeOK, Far, Transmission
    <2>3. CASE sent' = Append(sent, r)
      <3>1. dl.pkt \notin Gone
        BY <1>3 DEF Layout
      <3>2. Gone' = Gone \cup {dl.pkt} /\ SentOnce'
        BY <2>2, <2>3, <3>1, SentMore
      <3>3. Bufs' = Bufs /\ objs' = objs
        BY <1>6 DEF Forward, Bufs
      <3> QED
        BY <1>1, <1>4, <1>6, <3>2, <3>3 DEF Laid
    <2> QED
      BY <1>5, <1>6, <2>1, <2>3 DEF Forward, Send, Drop
  <1>7. CASE Buffer /\ ~BufferFull(objs[dl.obj])
    <2>1. PICK x \in Session : Becomes(dl.obj, x) /\ x.buf = Append(objs[dl.obj].buf, dl.pkt)
      BY <1>7, BufferMove
    <2>2. dl.obj \in 1 .. Len(objs)
      BY <1>7, ObjectsExist DEF Buffer
    <2>3. PICK o \in 1 .. Len(objs) : o = dl.obj
      BY <2>2
    <2>4. objs[o].buf \in Seq(Nat) /\ dl.pkt \in Nat
      <3>1. objs[o].buf \in Seq(Pkt)
        BY ObjectTypes DEF Shape
      <3> QED
        BY <1>1, <3>1, PktSeq
    <2>5. ToSet(x.buf) = ToSet(objs[o].buf) \cup {dl.pkt}
      BY <2>1, <2>3, <2>4, SetOfAppend
    <2>6. /\ Bufs'[o] = Bufs[o] \cup {dl.pkt}
          /\ \A j \in 1 .. Len(objs) : j # o => Bufs'[j] = Bufs[j]
      BY <2>1, <2>3, <2>5, BufsWritten
    <2>7. Layout(Len(objs), Bufs', {}, Leaving, Gone, dropped, arrived)
      BY <1>2, <1>3, <2>6, LayoutBuffer
    <2>8. Len(objs') = Len(objs) /\ dropped' = dropped /\ Gone' = Gone /\ SentOnce'
      BY <1>7, <2>1 DEF Becomes, Buffer, Gone, SentOnce
    <2> QED
      BY <1>1, <2>7, <2>8 DEF Laid
  <1>8. CASE Buffer /\ BufferFull(objs[dl.obj])
    BY <1>5, <1>8 DEF Buffer, Drop
  <1> QED
    BY <1>5, <1>6, <1>7, <1>8 DEF Forward, Send, Drop

\* The steps that move no packet.
Still == \/ InstallRules \/ Activate \/ TakePdrs \/ TakeFars \/ RemoveOld \/ InstallFar
         \/ FlushDone \/ Deactivate \/ Delete \/ SendReport

LEMMA StillMove ==
  ASSUME Shape, Still
  PROVE  /\ Len(objs') = Len(objs) /\ \A j \in 1 .. Len(objs) : objs'[j].buf = objs[j].buf
         /\ ev'.buf = ev.buf /\ dl' = dl /\ sent' = sent /\ dropped' = dropped /\ arrived' = arrived
         /\ Bufs' = Bufs /\ Leaving' = Leaving /\ Gone' = Gone /\ Held' = Held
  <1>1. dl' = dl /\ sent' = sent /\ dropped' = dropped /\ arrived' = arrived
    BY DEF Still, InstallRules, Activate, TakePdrs, TakeFars, RemoveOld, InstallFar,
           FlushDone, Deactivate, Delete, SendReport
  <1>2. Len(objs') = Len(objs) /\ \A j \in 1 .. Len(objs) : objs'[j].buf = objs[j].buf
    <2>1. CASE InstallRules
      BY <2>1, InstallRulesMove DEF Becomes
    <2>2. CASE Activate
      BY <2>2, ActivateMove DEF Becomes
    <2>3. CASE TakePdrs
      BY <2>3, TakePdrsMove DEF Becomes
    <2>4. CASE TakeFars
      BY <2>4, TakeFarsMove DEF Becomes
    <2>5. CASE InstallFar
      BY <2>5, InstallFarMove DEF Becomes
    <2>6. CASE objs' = objs
      BY <2>6
    <2> QED
      BY <2>1, <2>2, <2>3, <2>4, <2>5, <2>6
      DEF Still, RemoveOld, FlushDone, Deactivate, Delete, SendReport
  <1>3. ev'.buf = ev.buf
    <2>1. ev \in EvType(Len(objs)) /\ Len(objs) \in Nat
      BY EvFields, ObjectsExist
    <2>2. CASE InstallRules \/ TakePdrs \/ RemoveOld \/ InstallFar
      BY <2>1, <2>2 DEF InstallRules, TakePdrs, RemoveOld, InstallFar, EvStep, EvType
    <2>3. CASE TakeFars
      BY <2>3, TakenEv
    <2>4. CASE FlushDone
      BY <2>4, IdleTypes DEF FlushDone
    <2>5. CASE Activate
      BY <2>5, IdleTypes DEF Activate, IdleEv, Shape, EventShape
    <2>6. CASE Deactivate
      BY <2>6, IdleTypes DEF Deactivate, IdleEv, Shape, EventShape
    <2> QED
      BY <2>2, <2>3, <2>4, <2>5, <2>6 DEF Still, Delete, SendReport
  <1>4. Bufs' = Bufs /\ Leaving' = Leaving /\ Gone' = Gone /\ Held' = Held
    BY <1>1, <1>2, <1>3 DEF Bufs, Leaving, Gone, Held
  <1> QED
    BY <1>1, <1>2, <1>3, <1>4

\* A buffer in the hands of the event task: the swap and the flush.
LEMMA TakenMove ==
  ASSUME Shape, TakeBuffer \/ DrainBuffer
  PROVE  \E i \in 1 .. Len(objs) :
           /\ i = ip /\ ip' = ip /\ (TakeBuffer => i = ev.obj)
           /\ Len(objs') = Len(objs)
           /\ objs'[i].buf = <<>> /\ \A j \in 1 .. Len(objs) : j # i => objs'[j] = objs[j]
           /\ Bufs'[i] = {} /\ \A j \in 1 .. Len(objs) : j # i => Bufs'[j] = Bufs[j]
           /\ ev.buf = <<>> /\ ev'.buf = objs[i].buf
           /\ Leaving = {} /\ Leaving' = Bufs[i]
           /\ dl' = dl /\ sent' = sent /\ dropped' = dropped /\ arrived' = arrived
           /\ Gone' = Gone /\ Held' = Held
  <1>1. PICK i \in 1 .. Len(objs) : i = ip /\ (TakeBuffer => i = ev.obj)
    BY ObjectsExist DEF TakeBuffer, DrainBuffer, Shape, EventShape, Swapping
  <1>2. PICK x \in Session : Becomes(i, x) /\ x.buf = <<>>
    <2>1. CASE TakeBuffer
      BY <1>1, <2>1, TakeBufferMove
    <2>2. CASE DrainBuffer
      <3>1. objs' = Drained /\ ip # 0
        BY <1>1, <2>2 DEF DrainBuffer
      <3> QED
        BY <1>1, <3>1, DrainedMove
    <2> QED
      BY <2>1, <2>2
  <1>3. ev.buf = <<>>
    BY DEF TakeBuffer, DrainBuffer, Shape, EventShape
  <1>4. ev'.buf = objs[i].buf
    <2>1. CASE TakeBuffer
      BY <1>1, <2>1, TakenEv
    <2>2. CASE DrainBuffer
      BY <1>1, <2>2, EvFields DEF DrainBuffer, EvType
    <2> QED
      BY <2>1, <2>2
  <1>5. /\ Bufs'[i] = {} /\ \A j \in 1 .. Len(objs) : j # i => Bufs'[j] = Bufs[j]
        /\ Bufs[i] = ToSet(objs[i].buf)
    BY <1>2, BufsWritten, SetOfEmpty
  <1>6. Leaving = {} /\ Leaving' = Bufs[i]
    BY <1>3, <1>4, <1>5, SetOfEmpty DEF Leaving
  <1>7. /\ dl' = dl /\ sent' = sent /\ dropped' = dropped /\ arrived' = arrived /\ ip' = ip
        /\ Gone' = Gone /\ Held' = Held
    BY DEF TakeBuffer, DrainBuffer, Gone, Held
  <1>8. /\ Len(objs') = Len(objs) /\ objs'[i].buf = <<>>
        /\ \A j \in 1 .. Len(objs) : j # i => objs'[j] = objs[j]
    BY <1>2 DEF Becomes
  <1> QED
    BY <1>1, <1>3, <1>4, <1>5, <1>6, <1>7, <1>8

\* One packet of the flush.
LEMMA FlushMove ==
  ASSUME Shape, Rising(ev.buf), FlushSend
  PROVE  \E p \in Pkt :
           /\ p = Head(ev.buf) /\ p \in Leaving /\ Leaving' = Leaving \ {p}
           /\ \A q \in Leaving' : p < q
           /\ Rising(ev.buf)'
           /\ ev'.pc = "send" /\ ev.pc = "send"
           /\ objs' = objs /\ ip' = ip /\ dl' = dl /\ arrived' = arrived
           /\ \/ sent' = sent /\ dropped' = dropped \cup {p}
              \/ dropped' = dropped /\ \E r \in Transmission :
                    /\ sent' = Append(sent, r) /\ r.pkt = p /\ r.flushed = TRUE /\ r.floor = 0
  <1>1. /\ ev.pc = "send" /\ ev.buf # <<>> /\ objs' = objs /\ ip' = ip /\ dl' = dl
        /\ arrived' = arrived /\ ev' = [ev EXCEPT !.buf = Tail(ev.buf)]
    BY DEF FlushSend
  <1>2. ev \in EvType(Len(objs)) /\ ev.buf \in Seq(Pkt) /\ ev.far \in Far
    BY EvFields
  <1>3. ev'.pc = "send" /\ ev'.buf = Tail(ev.buf)
    BY <1>1, <1>2 DEF EvType
  <1>4. PICK p \in Pkt : p = Head(ev.buf)
    BY <1>1, <1>2
  <1>5. PICK s \in Seq(Nat) : s = ev.buf
    BY <1>2, PktSeq
  <1>6. /\ p \in ToSet(s) /\ ToSet(Tail(s)) = ToSet(s) \ {p} /\ \A y \in ToSet(Tail(s)) : p < y
        /\ Rising(Tail(s))
    BY <1>1, <1>4, <1>5, SetOfTail
  <1>7. /\ p \in Leaving /\ Leaving' = Leaving \ {p} /\ \A q \in Leaving' : p < q
        /\ Rising(ev.buf)'
    BY <1>3, <1>5, <1>6 DEF Leaving, Rising
  <1>8. PICK r : r = [pkt |-> p, tun |-> ev.far.tun, floor |-> 0, flushed |-> TRUE]
    OBVIOUS
  <1>9. r \in Transmission /\ r.pkt = p /\ r.flushed = TRUE /\ r.floor = 0
    BY <1>2, <1>8, MaxModAssumption DEF Far, Tun, Transmission
  <1>10. \/ sent' = sent /\ dropped' = dropped \cup {p}
         \/ dropped' = dropped /\ sent' = Append(sent, r)
    BY <1>4, <1>8 DEF FlushSend, Send, Drop
  <1> QED
    BY <1>1, <1>3, <1>4, <1>7, <1>9, <1>10

\* The event task and the report task.
LEMMA LaidEvent ==
  ASSUME Shape, Shape', Laid, SentOnce, Rising(ev.buf), EventTask \/ SendReport
  PROVE  Laid' /\ SentOnce'
  <1>1. Len(objs) \in Nat /\ arrived \in Nat
    BY HeldPacket
  <1>2. CASE Still
    <2>1. /\ Len(objs') = Len(objs) /\ sent' = sent /\ dropped' = dropped /\ arrived' = arrived
          /\ Bufs' = Bufs /\ Leaving' = Leaving /\ Gone' = Gone /\ Held' = Held
      BY <1>2, StillMove
    <2> QED
      BY <2>1 DEF Laid, SentOnce
  <1>3. CASE TakeBuffer \/ DrainBuffer
    <2>1. PICK i \in 1 .. Len(objs) :
            /\ Len(objs') = Len(objs)
            /\ Bufs'[i] = {} /\ \A j \in 1 .. Len(objs) : j # i => Bufs'[j] = Bufs[j]
            /\ Leaving = {} /\ Leaving' = Bufs[i]
            /\ sent' = sent /\ dropped' = dropped /\ arrived' = arrived
            /\ Gone' = Gone /\ Held' = Held
      BY <1>3, TakenMove
    <2>2. Layout(Len(objs), Bufs, Held, {}, Gone, dropped, arrived)
      BY <2>1 DEF Laid
    <2>3. Layout(Len(objs), Bufs', Held, Bufs[i], Gone, dropped, arrived)
      BY <1>1, <2>1, <2>2, LayoutTake
    <2> QED
      BY <2>1, <2>3 DEF Laid, SentOnce
  <1>4. CASE AddNew
    <2>1. /\ Len(objs') = Len(objs) + 1 /\ \A j \in 1 .. Len(objs) : objs'[j] = objs[j]
          /\ objs'[Len(objs) + 1].buf = ev.buf /\ ev'.buf = <<>>
      BY <1>4, AddNewMove
    <2>2. Bufs'[Len(objs) + 1] = Leaving /\ \A j \in 1 .. Len(objs) : Bufs'[j] = Bufs[j]
      BY <1>1, <2>1 DEF Bufs, Leaving
    <2>3. Leaving' = {}
      BY <2>1, SetOfEmpty DEF Leaving
    <2>4. /\ sent' = sent /\ dropped' = dropped /\ arrived' = arrived
          /\ Gone' = Gone /\ Held' = Held
      BY <1>4 DEF AddNew, AddSession, Gone, Held
    <2>5. Layout(Len(objs), Bufs, Held, Leaving, Gone, dropped, arrived)
      BY DEF Laid
    <2>6. Layout(Len(objs) + 1, Bufs', Held, {}, Gone, dropped, arrived)
      BY <1>1, <2>2, <2>5, LayoutAdd
    <2> QED
      BY <2>1, <2>3, <2>4, <2>6 DEF Laid, SentOnce
  <1>5. CASE FlushSend
    <2>1. PICK p \in Pkt :
            /\ p \in Leaving /\ Leaving' = Leaving \ {p}
            /\ objs' = objs /\ dl' = dl /\ arrived' = arrived
            /\ \/ sent' = sent /\ dropped' = dropped \cup {p}
               \/ dropped' = dropped /\ \E r \in Transmission : sent' = Append(sent, r) /\ r.pkt = p
      BY <1>5, FlushMove
    <2>2. Bufs' = Bufs /\ Held' = Held
      BY <2>1 DEF Bufs, Held
    <2>3. /\ Layout(Len(objs), Bufs, Held, Leaving \ {p}, Gone \cup {p}, dropped, arrived)
          /\ Layout(Len(objs), Bufs, Held, Leaving \ {p}, Gone, dropped \cup {p}, arrived)
      BY <1>1, <2>1, LayoutFlush DEF Laid
    <2>4. CASE sent' = sent /\ dropped' = dropped \cup {p}
      <3>1. Gone' = Gone /\ SentOnce'
        BY <2>4 DEF Gone, SentOnce
      <3> QED
        BY <2>1, <2>2, <2>3, <2>4, <3>1 DEF Laid
    <2>5. ASSUME NEW r \in Transmission, sent' = Append(sent, r), r.pkt = p, dropped' = dropped
          PROVE  Laid' /\ SentOnce'
      <3>1. p \notin Gone
        BY <2>1 DEF Laid, Layout
      <3>2. Gone' = Gone \cup {p} /\ SentOnce'
        BY <2>5, <3>1, SentMore
      <3> QED
        BY <2>1, <2>2, <2>3, <2>5, <3>2 DEF Laid
    <2> QED
      BY <2>1, <2>4, <2>5
  <1>6. CASE DropBuffered
    <2>1. PICK i \in 1 .. Len(objs) : i = ip
      BY <1>6, ObjectsExist DEF DropBuffered
    <2>2. PICK x \in Session : Becomes(i, x) /\ x.buf = <<>>
      BY <1>6, <2>1, DrainedMove DEF DropBuffered
    <2>3. /\ Bufs'[i] = {} /\ \A j \in 1 .. Len(objs) : j # i => Bufs'[j] = Bufs[j]
          /\ Bufs[i] = ToSet(objs[i].buf) /\ Len(objs') = Len(objs)
      BY <2>2, BufsWritten, SetOfEmpty DEF Becomes
    <2>4. /\ dropped' = dropped \cup Bufs[i] /\ Held' = Held /\ Leaving' = Leaving /\ Gone' = Gone
          /\ arrived' = arrived /\ sent' = sent
      BY <1>6, <2>1, <2>3 DEF DropBuffered, Held, Leaving, Gone
    <2>5. Layout(Len(objs), Bufs', Held, Leaving, Gone, dropped \cup Bufs[i], arrived)
      BY <1>1, <2>3, LayoutDrop DEF Laid
    <2> QED
      BY <2>3, <2>4, <2>5 DEF Laid, SentOnce
  <1>7. CASE Establish
    <2>1. Len(objs) = 0 /\ Len(objs') = 1 /\ objs'[1].buf = <<>> /\ ev.buf = <<>> /\ ev'.buf = <<>>
      BY <1>7, EstablishMove, EvFields DEF Shape, EventShape, Establish, EvStep, EvType
    <2>2. Leaving = {} /\ Leaving' = {} /\ Bufs'[1] = {}
      BY <2>1, SetOfEmpty DEF Leaving, Bufs
    <2>3. /\ sent' = sent /\ dropped' = dropped /\ arrived' = arrived
          /\ Gone' = Gone /\ Held' = Held
      BY <1>7 DEF Establish, Gone, Held
    <2>4. Layout(Len(objs), Bufs, Held, {}, Gone, dropped, arrived)
      BY <2>2 DEF Laid
    <2>5. Bufs'[Len(objs) + 1] = {} /\ \A j \in 1 .. Len(objs) : Bufs'[j] = Bufs[j]
      BY <2>1, <2>2
    <2>6. Layout(Len(objs) + 1, Bufs', Held, {}, Gone, dropped, arrived)
      BY <1>1, <2>4, <2>5, LayoutAdd
    <2>7. Len(objs') = Len(objs) + 1
      BY <2>1
    <2> QED
      BY <2>2, <2>3, <2>6, <2>7 DEF Laid, SentOnce
  <1> QED
    BY <1>2, <1>3, <1>4, <1>5, <1>6, <1>7 DEF EventTask, Modification, Still

-----------------------------------------------------------------------------
(* The order of the packets.                                               *)

\* The packet in the hands of the loop is newer than any other.
LEMMA NewestHeld ==
  ASSUME Shape, Laid, dl.pc # "idle"
  PROVE  /\ \A p \in Leaving \cup Gone \cup dropped : p \in Nat /\ p < dl.pkt
         /\ \A i \in 1 .. Len(objs) : \A p \in Bufs[i] : p \in Nat /\ p < dl.pkt
  <1>1. Held = {dl.pkt} /\ dl.pkt = arrived /\ arrived \in Nat
    BY HeldPacket
  <1>2. /\ \A p \in Leaving \cup Gone \cup dropped : p \in 1 .. arrived /\ p # dl.pkt
        /\ \A i \in 1 .. Len(objs) : \A p \in Bufs[i] : p \in 1 .. arrived /\ p # dl.pkt
    BY <1>1 DEF Laid, Layout
  <1> QED
    BY <1>1, <1>2

\* One more packet sent, newer than those sent in the same way.
LEMMA OrderSent ==
  ASSUME Shape, FlushInOrder, NEW r \in Transmission, sent' = Append(sent, r),
         \A k \in DOMAIN sent : sent[k].flushed = r.flushed => sent[k].pkt < r.pkt
  PROVE  FlushInOrder'
  <1>1. sent \in Seq(Transmission)
    BY DEF Shape, TypeOK, Transmission
  <1>2. /\ DOMAIN sent = 1 .. Len(sent) /\ Len(sent) \in Nat
        /\ DOMAIN sent' = 1 .. (Len(sent) + 1)
        /\ sent'[Len(sent) + 1] = r
        /\ \A k \in 1 .. Len(sent) : sent'[k] = sent[k]
    BY <1>1
  <1>3. SUFFICES ASSUME NEW k \in 1 .. (Len(sent) + 1), NEW l \in 1 .. (Len(sent) + 1), k < l,
                        sent'[k].flushed = sent'[l].flushed
                 PROVE  sent'[k].pkt < sent'[l].pkt
    BY <1>2 DEF FlushInOrder
  <1>4. k \in 1 .. Len(sent)
    BY <1>2, <1>3
  <1>5. CASE l \in 1 .. Len(sent)
    BY <1>2, <1>3, <1>4, <1>5 DEF FlushInOrder
  <1>6. CASE l = Len(sent) + 1
    BY <1>2, <1>3, <1>4, <1>6
  <1> QED
    BY <1>2, <1>5, <1>6

\* What was flushed before is older than these packets, and so is one more.
LEMMA BeforeSent ==
  ASSUME Shape, NEW X, Before(X), NEW r \in Transmission, sent' = Append(sent, r),
         r.flushed = FALSE \/ \A p \in X : r.pkt < p
  PROVE  \A k \in DOMAIN sent' : sent'[k].flushed => \A p \in X : sent'[k].pkt < p
  <1>1. sent \in Seq(Transmission)
    BY DEF Shape, TypeOK, Transmission
  <1>2. /\ DOMAIN sent = 1 .. Len(sent) /\ Len(sent) \in Nat
        /\ DOMAIN sent' = 1 .. (Len(sent) + 1)
        /\ sent'[Len(sent) + 1] = r
        /\ \A k \in 1 .. Len(sent) : sent'[k] = sent[k]
    BY <1>1
  <1>3. SUFFICES ASSUME NEW k \in 1 .. (Len(sent) + 1), sent'[k].flushed, NEW p \in X
                 PROVE  sent'[k].pkt < p
    BY <1>2
  <1>4. CASE k \in 1 .. Len(sent)
    BY <1>2, <1>3, <1>4 DEF Before
  <1>5. CASE k = Len(sent) + 1
    BY <1>2, <1>3, <1>5
  <1> QED
    BY <1>2, <1>4, <1>5

\* Initially there is nothing to order.
LEMMA OrderInit == Init => Order
  <1> SUFFICES ASSUME Init PROVE Order
    OBVIOUS
  <1>1. sent = <<>> /\ ev.buf = <<>> /\ Len(objs) = 0 /\ ip = 0 /\ ev.pc = "idle"
    BY IdleTypes DEF Init
  <1> QED
    BY <1>1 DEF Order, FlushInOrder, Rising, Before

\* The steps that leave the buffers alone.
LEMMA OrderStill ==
  ASSUME Shape, Order, Still \/ Arrive \/ MatchPdr \/ ApplyFar
  PROVE  Order'
  <1>1. /\ Len(objs') = Len(objs) /\ \A j \in 1 .. Len(objs) : objs'[j].buf = objs[j].buf
        /\ ev'.buf = ev.buf /\ sent' = sent /\ Bufs' = Bufs /\ Leaving' = Leaving
    BY StillMove DEF Arrive, MatchPdr, ApplyFar, Bufs, Leaving
  <1>2. ip' = ip \/ ip' = 0
    BY DEF Still, InstallRules, Activate, TakePdrs, TakeFars, RemoveOld, InstallFar,
           FlushDone, Deactivate, Delete, SendReport, Arrive, MatchPdr, ApplyFar
  <1>3. ev'.pc = "send" => ev.pc = "send" /\ ip' = ip
    <2>1. ev \in EvType(Len(objs))
      BY EvFields
    <2>2. CASE ev' = ev /\ ip' = ip
      BY <2>2
    <2>3. CASE InstallRules \/ TakePdrs \/ RemoveOld \/ InstallFar
      BY <2>1, <2>3 DEF InstallRules, TakePdrs, RemoveOld, InstallFar, EvStep, EvType
    <2>4. CASE TakeFars
      BY <2>4, TakenEv
    <2>5. CASE FlushDone \/ Activate \/ Deactivate
      BY <2>5, IdleTypes DEF FlushDone, Activate, Deactivate, IdleEv
    <2>6. CASE Delete
      BY <2>6 DEF Delete
    <2> QED
      BY <2>2, <2>3, <2>4, <2>5, <2>6 DEF Still, SendReport, Arrive, MatchPdr, ApplyFar
  <1>4. FlushInOrder' /\ Rising(ev.buf)' /\ Before(Leaving)'
    BY <1>1 DEF Order, FlushInOrder, Rising, Before
  <1>5. ip' # 0 => Before(Bufs[ip])'
    BY <1>1, <1>2 DEF Order, Before
  <1>6. \A i \in 1 .. Len(objs') : Rising(objs[i].buf)'
    BY <1>1 DEF Order, Rising
  <1>7. ev'.pc = "send" => \A p \in Leaving', q \in Bufs'[ip'] : p < q
    BY <1>1, <1>3 DEF Order
  <1> QED
    BY <1>4, <1>5, <1>6, <1>7 DEF Order

\* The end of the loop.
LEMMA OrderEnd ==
  ASSUME Shape, Laid, Order, Forward \/ Buffer
  PROVE  Order'
  <1>1. /\ dl.pc # "idle" /\ dl.pkt \in Pkt /\ dl.pkt \in Nat /\ ip' = ip /\ ev' = ev
        /\ Leaving' = Leaving /\ dl.obj \in 1 .. Len(objs)
    BY LoopTypes, ObjectsExist, PktSeq DEF Forward, Buffer, Leaving
  <1>2. /\ \A p \in Leaving \cup Gone \cup dropped : p \in Nat /\ p < dl.pkt
        /\ \A i \in 1 .. Len(objs) : \A p \in Bufs[i] : p \in Nat /\ p < dl.pkt
    BY <1>1, NewestHeld
  <1>3. \A k \in DOMAIN sent : sent[k].pkt < dl.pkt
    BY <1>2 DEF Gone
  <1>4. Rising(ev.buf)'
    BY <1>1 DEF Order, Rising
  <1>5. ip # 0 => ip \in 1 .. Len(objs)
    BY ObjectsExist
  <1>6. CASE objs' = objs /\ sent' = sent
    <2>1. Bufs' = Bufs
      BY <1>6 DEF Bufs
    <2> QED
      BY <1>1, <1>6, <2>1 DEF Order, FlushInOrder, Rising, Before
  <1>7. CASE Forward /\ sent' # sent
    <2>1. PICK r : r = [pkt |-> dl.pkt, tun |-> dl.far.tun, floor |-> dl.floor, flushed |-> FALSE]
      OBVIOUS
    <2>2. r \in Transmission /\ r.pkt = dl.pkt /\ r.flushed = FALSE
      BY <1>1, <2>1 DEF Shape, TypeOK, Far, Transmission
    <2>3. sent' = Append(sent, r) /\ objs' = objs
      BY <1>7, <2>1 DEF Forward, Send
    <2>4. FlushInOrder'
      BY <1>3, <2>2, <2>3, OrderSent DEF Order
    <2>5. Before(Leaving)'
      BY <1>1, <2>2, <2>3, BeforeSent DEF Order, Before
    <2>6. Bufs' = Bufs
      BY <2>3 DEF Bufs
    <2>7. ip' # 0 => Before(Bufs[ip])'
      BY <1>1, <2>2, <2>3, <2>6, BeforeSent DEF Order, Before
    <2> QED
      BY <1>1, <1>4, <2>3, <2>4, <2>5, <2>6, <2>7 DEF Order, Rising
  <1>8. CASE Buffer /\ ~BufferFull(objs[dl.obj])
    <2>1. PICK o \in 1 .. Len(objs) : o = dl.obj
      BY <1>1
    <2>2. PICK x \in Session : Becomes(o, x) /\ x.buf = Append(objs[o].buf, dl.pkt)
      BY <1>8, <2>1, BufferMove
    <2>3. objs[o].buf \in Seq(Nat)
      BY ObjectTypes, PktSeq DEF Shape
    <2>4. ToSet(x.buf) = ToSet(objs[o].buf) \cup {dl.pkt}
      BY <1>1, <2>2, <2>3, SetOfAppend
    <2>5. /\ Bufs'[o] = Bufs[o] \cup {dl.pkt} /\ Bufs[o] = ToSet(objs[o].buf)
          /\ \A j \in 1 .. Len(objs) : j # o => Bufs'[j] = Bufs[j]
      BY <2>2, <2>4, BufsWritten
    <2>6. Rising(x.buf)
      BY <1>1, <1>2, <2>2, <2>3, <2>5, RisingAppend DEF Order
    <2>7. \A i \in 1 .. Len(objs') : Rising(objs[i].buf)'
      BY <2>2, <2>6 DEF Becomes, Order, Rising
    <2>8. sent' = sent
      BY <1>8 DEF Buffer
    <2>9. FlushInOrder' /\ Before(Leaving)'
      BY <1>1, <2>8 DEF Order, FlushInOrder, Before
    <2>10. ip' # 0 => Before(Bufs[ip])'
      <3>1. SUFFICES ASSUME ip # 0, NEW k \in DOMAIN sent, sent[k].flushed, NEW p \in Bufs'[ip]
                     PROVE  sent[k].pkt < p
        BY <1>1, <2>8 DEF Before
      <3>2. CASE p \in Bufs[ip]
        BY <3>1, <3>2 DEF Order, Before
      <3>3. CASE p = dl.pkt
        BY <1>3, <3>3
      <3> QED
        BY <1>5, <2>5, <3>1, <3>2, <3>3
    <2>11. ev'.pc = "send" => \A p \in Leaving', q \in Bufs'[ip'] : p < q
      <3>1. SUFFICES ASSUME ev.pc = "send", NEW p \in Leaving, NEW q \in Bufs'[ip]
                     PROVE  p < q
        BY <1>1
      <3>2. ip \in 1 .. Len(objs)
        BY <1>5, <3>1 DEF Shape, EventShape
      <3>3. CASE q \in Bufs[ip]
        BY <3>1, <3>3 DEF Order
      <3>4. CASE q = dl.pkt
        BY <1>2, <3>4
      <3> QED
        BY <2>5, <3>1, <3>2, <3>3, <3>4
    <2> QED
      BY <1>4, <2>7, <2>9, <2>10, <2>11 DEF Order
  <1>9. CASE Buffer /\ BufferFull(objs[dl.obj])
    BY <1>6, <1>9 DEF Buffer
  <1> QED
    BY <1>6, <1>7, <1>8, <1>9 DEF Forward

\* The steps of the event task that move packets.
LEMMA OrderEvent ==
  ASSUME Shape, Laid, Order,
         TakeBuffer \/ DrainBuffer \/ AddNew \/ FlushSend \/ DropBuffered \/ Establish
  PROVE  Order'
  <1>1. Len(objs) \in Nat
    BY HeldPacket
  <1>2. CASE TakeBuffer \/ DrainBuffer
    <2>1. PICK i \in 1 .. Len(objs) :
            /\ i = ip /\ ip' = ip /\ Len(objs') = Len(objs)
            /\ objs'[i].buf = <<>> /\ \A j \in 1 .. Len(objs) : j # i => objs'[j] = objs[j]
            /\ Bufs'[i] = {} /\ ev'.buf = objs[i].buf /\ Leaving' = Bufs[i] /\ sent' = sent
      BY <1>2, TakenMove
    <2>2. FlushInOrder' /\ Rising(ev.buf)'
      BY <2>1 DEF Order, FlushInOrder, Rising
    <2>3. Before(Leaving)' /\ (ip' # 0 => Before(Bufs[ip])')
      BY <2>1 DEF Order, Before
    <2>4. \A j \in 1 .. Len(objs') : Rising(objs[j].buf)'
      BY <2>1 DEF Order, Rising
    <2>5. \A p \in Leaving', q \in Bufs'[ip'] : p < q
      BY <2>1
    <2> QED
      BY <2>2, <2>3, <2>4, <2>5 DEF Order
  <1>3. CASE AddNew
    <2>1. /\ Len(objs') = Len(objs) + 1 /\ \A j \in 1 .. Len(objs) : objs'[j] = objs[j]
          /\ objs'[Len(objs) + 1].buf = ev.buf /\ ev'.buf = <<>> /\ ev'.pc = "install"
          /\ ip' = Len(objs) + 1
      BY <1>3, AddNewMove
    <2>2. sent' = sent
      BY <1>3 DEF AddNew, AddSession
    <2>3. Bufs'[Len(objs) + 1] = Leaving /\ Leaving' = {}
      BY <1>1, <2>1, SetOfEmpty DEF Bufs, Leaving
    <2>4. FlushInOrder' /\ Rising(ev.buf)' /\ Before(Leaving)'
      BY <2>1, <2>2, <2>3 DEF Order, FlushInOrder, Rising, Before
    <2>5. Before(Bufs[ip])'
      BY <2>1, <2>2, <2>3 DEF Order, Before
    <2>6. \A j \in 1 .. Len(objs') : Rising(objs[j].buf)'
      BY <1>1, <2>1 DEF Order, Rising
    <2> QED
      BY <2>1, <2>4, <2>5, <2>6 DEF Order
  <1>4. CASE FlushSend
    <2>1. PICK p \in Pkt :
            /\ p \in Leaving /\ Leaving' = Leaving \ {p}
            /\ \A q \in Leaving' : p < q
            /\ Rising(ev.buf)' /\ ev'.pc = "send" /\ ev.pc = "send"
            /\ objs' = objs /\ ip' = ip
            /\ \/ sent' = sent
               \/ \E r \in Transmission : sent' = Append(sent, r) /\ r.pkt = p /\ r.flushed = TRUE
      BY <1>4, FlushMove DEF Order
    <2>2. Bufs' = Bufs /\ \A j \in 1 .. Len(objs') : Rising(objs[j].buf)'
      BY <2>1 DEF Bufs, Order, Rising
    <2>3. \A q \in Leaving', m \in Bufs'[ip'] : q < m
      BY <2>1, <2>2 DEF Order
    <2>4. CASE sent' = sent
      <3>1. FlushInOrder' /\ Before(Leaving)' /\ (ip' # 0 => Before(Bufs[ip])')
        BY <2>1, <2>2, <2>4 DEF Order, FlushInOrder, Before
      <3> QED
        BY <2>1, <2>2, <2>3, <3>1 DEF Order
    <2>5. ASSUME NEW r \in Transmission, sent' = Append(sent, r), r.pkt = p, r.flushed = TRUE
          PROVE  Order'
      <3>1. \A k \in DOMAIN sent : sent[k].flushed => sent[k].pkt < p
        BY <2>1 DEF Order, Before
      <3>2. FlushInOrder'
        BY <2>5, <3>1, OrderSent DEF Order
      <3>3. Before(Leaving \ {p})
        BY DEF Order, Before
      <3>4. Before(Leaving)'
        BY <2>1, <2>5, <3>3, BeforeSent DEF Before
      <3>5. ip # 0 => \A q \in Bufs[ip] : p < q
        BY <2>1 DEF Order
      <3>6. ip' # 0 => Before(Bufs[ip])'
        BY <2>1, <2>2, <2>5, <3>5, BeforeSent DEF Order, Before
      <3> QED
        BY <2>1, <2>2, <2>3, <3>2, <3>4, <3>6 DEF Order
    <2> QED
      BY <2>1, <2>4, <2>5
  <1>5. CASE DropBuffered
    <2>1. PICK i \in 1 .. Len(objs) : i = ip
      BY <1>5, ObjectsExist DEF DropBuffered
    <2>2. PICK x \in Session : Becomes(i, x) /\ x.buf = <<>>
      BY <1>5, <2>1, DrainedMove DEF DropBuffered
    <2>3. /\ Bufs'[i] = {} /\ Leaving' = Leaving /\ sent' = sent /\ ev' = ev /\ ip' = ip
      BY <1>5, <2>2, BufsWritten, SetOfEmpty DEF DropBuffered, Leaving
    <2>4. FlushInOrder' /\ Rising(ev.buf)' /\ Before(Leaving)'
      BY <2>3 DEF Order, FlushInOrder, Rising, Before
    <2>5. Before(Bufs[ip])' /\ \A p \in Leaving', q \in Bufs'[ip'] : p < q
      BY <2>1, <2>3 DEF Before
    <2>6. \A j \in 1 .. Len(objs') : Rising(objs[j].buf)'
      BY <2>2 DEF Order, Rising, Becomes
    <2> QED
      BY <2>4, <2>5, <2>6 DEF Order
  <1>6. CASE Establish
    <2>1. /\ Len(objs) = 0 /\ Len(objs') = 1 /\ objs'[1].buf = <<>> /\ ev'.buf = ev.buf
          /\ ev'.pc = "default" /\ ip' = 1
      BY <1>6, EstablishMove, EvFields DEF Establish, EvStep, EvType
    <2>2. sent' = sent /\ Leaving' = Leaving /\ Bufs'[1] = {}
      BY <1>6, <2>1, SetOfEmpty DEF Establish, Leaving, Bufs
    <2>3. FlushInOrder' /\ Rising(ev.buf)' /\ Before(Leaving)'
      BY <2>1, <2>2 DEF Order, FlushInOrder, Rising, Before
    <2>4. Before(Bufs[ip])'
      BY <2>1, <2>2 DEF Before
    <2>5. \A j \in 1 .. Len(objs') : Rising(objs[j].buf)'
      BY <2>1 DEF Rising
    <2> QED
      BY <2>1, <2>3, <2>4, <2>5 DEF Order
  <1> QED
    BY <1>2, <1>3, <1>4, <1>5, <1>6

-----------------------------------------------------------------------------
(* Where the packets are, in which order.                                  *)

Packets == Shape /\ Laid /\ SentOnce /\ Order

\* Packets is inductive.
LEMMA PacketsStep ==
  ASSUME Packets, [Next]_vars
  PROVE  Packets'
  <1>1. Shape'
    BY ShapeStep DEF Packets
  <1>2. CASE UNCHANGED vars
    <2>1. Laid' /\ SentOnce' /\ Order'
      BY <1>2 DEF vars, Packets, Laid, SentOnce, Order, Bufs, Held, Leaving, Gone, FlushInOrder,
                  Rising, Before
    <2> QED
      BY <1>1, <2>1 DEF Packets
  <1>3. CASE Arrive \/ MatchPdr \/ ApplyFar
    BY <1>1, <1>3, LaidLoop, OrderStill DEF Packets
  <1>4. CASE Forward \/ Buffer
    BY <1>1, <1>4, LaidEnd, OrderEnd DEF Packets
  <1>5. CASE EventTask \/ SendReport
    <2>1. Laid' /\ SentOnce'
      BY <1>1, <1>5, LaidEvent DEF Packets, Order
    <2>2. Order'
      BY <1>5, OrderStill, OrderEvent DEF Packets, EventTask, Modification, Still
    <2> QED
      BY <1>1, <2>1, <2>2 DEF Packets
  <1> QED
    BY <1>2, <1>3, <1>4, <1>5 DEF Next, PacketLoop

\* Every state lays the packets out this way.
LEMMA PacketsInvariance == Spec => []Packets
  <1>1. Init => Packets
    BY ShapeInit, LaidInit, OrderInit DEF Packets
  <1> QED
    BY <1>1, PacketsStep, PTL DEF Spec

\* A packet is at one position of a sequence in order.
LEMMA OnePosition ==
  ASSUME NEW s \in Seq(Nat), Rising(s), NEW p \in ToSet(s)
  PROVE  \E k : Positions(p, s) = {k}
  <1>1. PICK k \in DOMAIN s : s[k] = p
    BY DEF ToSet
  <1>2. \A l \in DOMAIN s : l # k => s[l] # p
    <2>1. SUFFICES ASSUME NEW l \in DOMAIN s, l # k
                   PROVE  s[l] # s[k]
      BY <1>1
    <2>2. l \in Nat /\ k \in Nat /\ s[l] \in Nat /\ s[k] \in Nat
      OBVIOUS
    <2>3. l < k \/ k < l
      BY <2>1, <2>2
    <2>4. s[l] < s[k] \/ s[k] < s[l]
      BY <2>3 DEF Rising
    <2> QED
      BY <2>2, <2>4
  <1>3. Positions(p, s) = {k}
    BY <1>1, <1>2 DEF Positions
  <1> QED
    BY <1>3

\* and at none of a sequence that it is not in.
LEMMA NoPosition ==
  ASSUME NEW s, NEW p, p \notin ToSet(s)
  PROVE  Positions(p, s) = {}
  BY DEF Positions, ToSet

\* A packet that was sent was sent once.
LEMMA OneTransmission ==
  ASSUME SentOnce, NEW p \in Gone
  PROVE  \E k : Transmissions(p) = {k}
  <1>1. PICK k \in DOMAIN sent : sent[k].pkt = p
    BY DEF Gone
  <1>2. Transmissions(p) = {k}
    BY <1>1 DEF SentOnce, Transmissions
  <1> QED
    BY <1>2

\* The places of a packet, told from the sets it is in.
LEMMA OnePlace ==
  ASSUME Packets, NEW p \in 1 .. arrived
  PROVE  Cardinality(Places(p)) = 1
  <1> DEFINE buffered == UNION {{<<"buffer", i, k>> : k \in Positions(p, objs[i].buf)} : i \in DOMAIN objs}
             flushing == {<<"flush", 0, k>> : k \in Positions(p, ev.buf)}
             done     == {<<"sent", 0, k>> : k \in Transmissions(p)}
             hand     == {x \in {<<"loop", 0, 0>>} : dl.pkt = p}
             gone     == {x \in {<<"discarded", 0, 0>>} : p \in dropped}
  <1>1. Places(p) = hand \cup buffered \cup flushing \cup done \cup gone
    BY DEF Places
  <1>2. DOMAIN objs = 1 .. Len(objs) /\ Len(objs) \in Nat
    BY ObjectsExist DEF Packets, Shape, TypeOK
  <1>3. Layout(Len(objs), Bufs, Held, Leaving, Gone, dropped, arrived)
    BY DEF Packets, Laid
  <1>4. p \notin Held => hand = {}
    <2>1. dl.pkt = p => p \in Held
      BY DEF Held
    <2> QED
      BY <2>1
  <1>5. p \in Held => hand = {<<"loop", 0, 0>>}
    BY DEF Held
  <1>6. (\A i \in 1 .. Len(objs) : p \notin Bufs[i]) => buffered = {}
    <2>1. SUFFICES ASSUME \A i \in 1 .. Len(objs) : p \notin Bufs[i]
                   PROVE  buffered = {}
      OBVIOUS
    <2>2. \A i \in DOMAIN objs : Positions(p, objs[i].buf) = {}
      BY <1>2, <2>1, NoPosition DEF Bufs
    <2> QED
      BY <2>2
  <1>7. ASSUME NEW i \in 1 .. Len(objs), p \in Bufs[i]
        PROVE  \E x : buffered = {x}
    <2>1. objs[i].buf \in Seq(Nat) /\ Rising(objs[i].buf)
      BY ObjectTypes, PktSeq DEF Packets, Shape, Order
    <2>2. p \in ToSet(objs[i].buf)
      BY <1>7 DEF Bufs
    <2>3. PICK k : Positions(p, objs[i].buf) = {k}
      BY <2>1, <2>2, OnePosition
    <2>4. \A j \in DOMAIN objs : j # i => Positions(p, objs[j].buf) = {}
      <3>1. SUFFICES ASSUME NEW j \in 1 .. Len(objs), j # i
                     PROVE  Positions(p, objs[j].buf) = {}
        BY <1>2
      <3>2. p \notin Bufs[j]
        BY <1>3, <1>7, <3>1 DEF Layout
      <3> QED
        BY <3>2, NoPosition DEF Bufs
    <2>5. buffered = {<<"buffer", i, k>>}
      <3>1. ASSUME NEW x \in buffered PROVE x = <<"buffer", i, k>>
        <4>1. PICK j \in DOMAIN objs : x \in {<<"buffer", j, l>> : l \in Positions(p, objs[j].buf)}
          OBVIOUS
        <4>2. PICK l \in Positions(p, objs[j].buf) : x = <<"buffer", j, l>>
          BY <4>1
        <4> QED
          BY <2>3, <2>4, <4>2
      <3>2. <<"buffer", i, k>> \in {<<"buffer", i, l>> : l \in Positions(p, objs[i].buf)}
        BY <2>3
      <3>3. <<"buffer", i, k>> \in buffered
        BY <1>2, <3>2
      <3> QED
        BY <3>1, <3>3, Zenon
    <2> QED
      BY <2>5
  <1>8. p \notin Leaving => flushing = {}
    BY NoPosition DEF Leaving
  <1>9. p \in Leaving => \E x : flushing = {x}
    <2>1. SUFFICES ASSUME p \in ToSet(ev.buf)
                   PROVE  \E x : flushing = {x}
      BY DEF Leaving
    <2>2. ev.buf \in Seq(Nat) /\ Rising(ev.buf)
      BY EvFields, PktSeq DEF Packets, Order
    <2>3. PICK k : Positions(p, ev.buf) = {k}
      BY <2>1, <2>2, OnePosition
    <2>4. flushing = {<<"flush", 0, k>>}
      BY <2>3
    <2> QED
      BY <2>4
  <1>10. p \notin Gone => done = {}
    BY DEF Gone, Transmissions
  <1>11. p \in Gone => \E x : done = {x}
    <2>1. SUFFICES ASSUME p \in Gone
                   PROVE  \E x : done = {x}
      OBVIOUS
    <2>2. PICK k : Transmissions(p) = {k}
      BY <2>1, OneTransmission DEF Packets
    <2>3. done = {<<"sent", 0, k>>}
      BY <2>2
    <2> QED
      BY <2>3
  <1>12. /\ p \notin dropped => gone = {}
         /\ p \in dropped => gone = {<<"discarded", 0, 0>>}
    OBVIOUS
  <1> HIDE DEF buffered, flushing, done, hand, gone
  <1>13. \E x : Places(p) = {x}
    <2>1. CASE p \in Held
      BY <1>1, <1>3, <1>5, <1>6, <1>8, <1>10, <1>12, <2>1 DEF Layout
    <2>2. CASE p \in Leaving
      <3>1. p \notin Held /\ p \notin Gone /\ p \notin dropped
            /\ \A i \in 1 .. Len(objs) : p \notin Bufs[i]
        BY <1>3, <2>2 DEF Layout
      <3> QED
        BY <1>1, <1>4, <1>6, <1>9, <1>10, <1>12, <2>2, <3>1
    <2>3. CASE p \in Gone
      <3>1. p \notin Held /\ p \notin Leaving /\ p \notin dropped
            /\ \A i \in 1 .. Len(objs) : p \notin Bufs[i]
        BY <1>3, <2>3 DEF Layout
      <3> QED
        BY <1>1, <1>4, <1>6, <1>8, <1>11, <1>12, <2>3, <3>1
    <2>4. CASE p \in dropped
      <3>1. p \notin Held /\ p \notin Leaving /\ p \notin Gone
            /\ \A i \in 1 .. Len(objs) : p \notin Bufs[i]
        BY <1>3, <2>4 DEF Layout
      <3> QED
        BY <1>1, <1>4, <1>6, <1>8, <1>10, <1>12, <2>4, <3>1
    <2>5. ASSUME NEW i \in 1 .. Len(objs), p \in Bufs[i]
          PROVE  \E x : Places(p) = {x}
      <3>1. p \notin Held /\ p \notin Leaving /\ p \notin Gone /\ p \notin dropped
        BY <1>3, <2>5 DEF Layout
      <3>2. \E x : buffered = {x}
        BY <1>7, <2>5
      <3> QED
        BY <1>1, <1>4, <1>8, <1>10, <1>12, <3>1, <3>2
    <2> QED
      BY <1>3, <2>1, <2>2, <2>3, <2>4, <2>5 DEF Layout
  <1> QED
    BY <1>13, FS_Singleton

(***************************************************************************)
(* Every packet read from the TUN is in exactly one place, however the     *)
(* packet loop interleaves with the object swap of                         *)
(* update_session_from_pfcp, with DROBU and with the flush.                *)
(***************************************************************************)
THEOREM PacketsConserved == Spec => []PacketConserved
  <1>1. Packets => PacketConserved
    BY OnePlace DEF PacketConserved
  <1> QED
    BY <1>1, PacketsInvariance, PTL

(***************************************************************************)
(* Buffered packets leave in the order in which they came, and so do the   *)
(* packets that are forwarded at once (flush_buffered_dl, drain_dl_buffer).*)
(***************************************************************************)
THEOREM FlushedInOrder == Spec => []FlushInOrder
  <1>1. Packets => FlushInOrder
    BY DEF Packets, Order
  <1> QED
    BY <1>1, PacketsInvariance, PTL

-----------------------------------------------------------------------------
(* What an activation finds waiting.                                       *)

\* The places of the event task.
LEMMA EvSteps ==
  ASSUME Shape
  PROVE  /\ Establish    => ev.pc = "idle" /\ ev'.pc = "default" /\ ev'.far = ev.far
         /\ InstallRules => ev.pc = "default" /\ ev'.pc = "idle" /\ ev'.far = ev.far
         /\ TakePdrs     => ev.pc = "pdrs" /\ ev'.pc = "fars" /\ ev'.far = ev.far
         /\ RemoveOld    => ev.pc = "remove" /\ ev'.pc = "add" /\ ev'.far = ev.far
                            /\ ev'.old = ev.old /\ ev'.obj = ev.obj
         /\ InstallFar   => ev.pc = "install" /\ ev'.far = ev.far
                            /\ ev'.pc = IF ev.far.act = "forw" THEN "drain" ELSE "idle"
         /\ DrainBuffer  => ev.pc = "drain" /\ ev'.pc = "send" /\ ev'.far = ev.far
         /\ FlushSend    => ev.pc = "send" /\ ev'.pc = "send" /\ ev'.far = ev.far
         /\ FlushDone    => ev.pc = "send" /\ ev'.pc = "idle" /\ ev'.far.act = "none" /\ ev.buf = <<>>
         /\ Deactivate   => ev.pc = "idle" /\ ev'.pc = "install" /\ ev'.far.act = "nocp"
         /\ Activate     => ev.pc = "idle" /\ ev'.pc = "pdrs" /\ ev'.far.act = "forw"
                            /\ ev'.far.tun = mods + 1
  <1>1. ev \in EvType(Len(objs))
    BY EvFields
  <1>2. /\ Establish    => ev.pc = "idle" /\ ev'.pc = "default" /\ ev'.far = ev.far
        /\ InstallRules => ev.pc = "default" /\ ev'.pc = "idle" /\ ev'.far = ev.far
        /\ TakePdrs     => ev.pc = "pdrs" /\ ev'.pc = "fars" /\ ev'.far = ev.far
        /\ RemoveOld    => ev.pc = "remove" /\ ev'.pc = "add" /\ ev'.far = ev.far
                           /\ ev'.old = ev.old /\ ev'.obj = ev.obj
    BY <1>1 DEF Establish, InstallRules, TakePdrs, RemoveOld, EvStep, EvType
  <1>3. InstallFar => ev.pc = "install" /\ ev'.far = ev.far
                      /\ ev'.pc = IF ev.far.act = "forw" THEN "drain" ELSE "idle"
    BY <1>1 DEF InstallFar, EvStep, EvType
  <1>4. DrainBuffer => ev.pc = "drain" /\ ev'.pc = "send" /\ ev'.far = ev.far
    BY <1>1 DEF DrainBuffer, EvType
  <1>5. FlushSend => ev.pc = "send" /\ ev'.pc = "send" /\ ev'.far = ev.far
    BY <1>1 DEF FlushSend, EvType
  <1>6. FlushDone => ev.pc = "send" /\ ev'.pc = "idle" /\ ev'.far.act = "none" /\ ev.buf = <<>>
    BY IdleTypes DEF FlushDone
  <1>7. Deactivate => ev.pc = "idle" /\ ev'.pc = "install" /\ ev'.far.act = "nocp"
    BY DEF Deactivate, IdleEv
  <1>8. Activate => ev.pc = "idle" /\ ev'.pc = "pdrs" /\ ev'.far.act = "forw"
                    /\ ev'.far.tun = mods + 1
    <2>1. SUFFICES ASSUME Activate
                   PROVE  ev.pc = "idle" /\ ev'.pc = "pdrs" /\ ev'.far.act = "forw"
                          /\ ev'.far.tun = mods + 1
      OBVIOUS
    <2>2. PICK f : f = [act |-> "forw", tun |-> mods']
      OBVIOUS
    <2>3. ev' = [IdleEv EXCEPT !.pc = "pdrs", !.obj = ip, !.far = f] /\ ev.pc = "idle"
      BY <2>1, <2>2 DEF Activate
    <2>4. ev'.pc = "pdrs" /\ ev'.far = f
      BY <2>3 DEF IdleEv
    <2> QED
      BY <2>1, <2>2, <2>3, <2>4 DEF Activate
  <1> QED
    BY <1>2, <1>3, <1>4, <1>5, <1>6, <1>7, <1>8

\* The packet loop only adds to the buffers.
LEMMA LoopGrows ==
  ASSUME Packets, PacketLoop
  PROVE  /\ ev' = ev /\ ip' = ip /\ due' = due /\ Leaving' = Leaving
         /\ Gone \subseteq Gone' /\ dropped \subseteq dropped'
         /\ \A i \in 1 .. Len(objs) : Bufs[i] \subseteq Bufs'[i]
  <1>1. /\ ev' = ev /\ ip' = ip /\ due' = due /\ Leaving' = Leaving
        /\ dropped \subseteq dropped'
    BY DEF PacketLoop, Arrive, MatchPdr, ApplyFar, Forward, Buffer, Send, Drop, Leaving
  <1>2. \A i \in 1 .. Len(objs) : Bufs[i] \subseteq Bufs'[i]
    <2>1. CASE objs' = objs
      BY <2>1 DEF Bufs
    <2>2. CASE Buffer /\ ~BufferFull(objs[dl.obj])
      <3>1. PICK o \in 1 .. Len(objs) : o = dl.obj
        BY <2>2, ObjectsExist DEF Buffer, Packets
      <3>2. PICK x \in Session : Becomes(o, x) /\ x.buf = Append(objs[o].buf, dl.pkt)
        BY <2>2, <3>1, BufferMove DEF Packets
      <3>3. objs[o].buf \in Seq(Nat) /\ dl.pkt \in Nat
        BY <2>2, ObjectTypes, PktSeq, LoopTypes DEF Packets, Shape, Buffer
      <3>4. ToSet(x.buf) = ToSet(objs[o].buf) \cup {dl.pkt}
        BY <3>2, <3>3, SetOfAppend
      <3>5. /\ Bufs'[o] = ToSet(x.buf) /\ Bufs[o] = ToSet(objs[o].buf)
            /\ \A j \in 1 .. Len(objs) : j # o => Bufs'[j] = Bufs[j]
        BY <3>2, BufsWritten DEF Packets
      <3> QED
        BY <3>4, <3>5
    <2> QED
      BY <2>1, <2>2 DEF PacketLoop, Arrive, MatchPdr, ApplyFar, Forward, Buffer
  <1>3. Gone \subseteq Gone'
    <2>1. CASE sent' = sent
      BY <2>1 DEF Gone
    <2>2. CASE Forward /\ sent' # sent
      <3>1. PICK r : r = [pkt |-> dl.pkt, tun |-> dl.far.tun, floor |-> dl.floor, flushed |-> FALSE]
        OBVIOUS
      <3>2. r \in Transmission /\ r.pkt = dl.pkt
        BY <2>2, <3>1, LoopTypes DEF Packets, Shape, TypeOK, Far, Transmission, Forward
      <3>3. sent' = Append(sent, r)
        BY <2>2, <3>1 DEF Forward, Send
      <3>4. dl.pkt \notin Gone
        BY <2>2, NewestHeld DEF Packets, Forward
      <3> QED
        BY <3>2, <3>3, <3>4, SentMore DEF Packets
    <2> QED
      BY <2>1, <2>2 DEF PacketLoop, Arrive, MatchPdr, ApplyFar, Buffer
  <1> QED
    BY <1>1, <1>2, <1>3

\* Flush is inductive.
LEMMA FlushStep ==
  ASSUME Packets, Flush, [Next]_vars
  PROVE  Flush'
  <1>1. CASE UNCHANGED vars
    BY <1>1 DEF vars, Flush, Gone, Bufs, Leaving
  <1>2. CASE PacketLoop
    <2>1. /\ ev' = ev /\ ip' = ip /\ due' = due /\ Leaving' = Leaving
          /\ Gone \subseteq Gone' /\ dropped \subseteq dropped'
          /\ \A i \in 1 .. Len(objs) : Bufs[i] \subseteq Bufs'[i]
      BY <1>2, LoopGrows
    <2>2. ev.pc \notin {"idle", "add"} => ip \in 1 .. Len(objs)
      BY ObjectsExist DEF Packets, Shape, EventShape
    <2> QED
      BY <2>1, <2>2 DEF Flush
  <1>3. CASE Still
    <2>1. Bufs' = Bufs /\ Leaving' = Leaving /\ Gone' = Gone /\ dropped' = dropped
      BY <1>3, StillMove DEF Packets
    <2>2. CASE SendReport
      BY <2>1, <2>2 DEF SendReport, Flush
    <2>3. CASE InstallRules
      BY <2>1, <2>3, EvSteps DEF InstallRules, Flush, Packets
    <2>4. CASE Activate
      <3>1. due' = Bufs[ip] /\ ip' = ip
        BY <2>4, ObjectsExist DEF Activate, Bufs, Packets
      <3> QED
        BY <2>1, <2>4, <3>1, EvSteps DEF Flush, Packets
    <2>5. CASE TakePdrs
      BY <2>1, <2>5, EvSteps DEF TakePdrs, Flush, Packets
    <2>6. CASE TakeFars
      <3>1. ev.pc = "fars" /\ ev'.pc = "buffer" /\ ev'.far = ev.far
        BY <2>6, TakenEv DEF Packets
      <3> QED
        BY <2>1, <2>6, <3>1 DEF TakeFars, Flush
    <2>7. CASE RemoveOld
      <3>1. ev.far.act = "forw"
        BY <2>7, EvSteps DEF Packets, Shape, EventShape, Swapping
      <3> QED
        BY <2>1, <2>7, <3>1, EvSteps DEF RemoveOld, Flush, Packets
    <2>8. CASE InstallFar
      <3>1. ev.far.act \in {"forw", "nocp"}
        BY <2>8, EvSteps DEF Packets, Shape, EventShape
      <3> QED
        BY <2>1, <2>8, <3>1, EvSteps DEF InstallFar, Flush, Packets
    <2>9. CASE FlushDone
      <3>1. Leaving = {}
        BY <2>9, EvSteps, SetOfEmpty DEF Leaving, Packets
      <3> QED
        BY <2>1, <2>9, <3>1, EvSteps DEF FlushDone, Flush, Packets
    <2>10. CASE Deactivate
      BY <2>1, <2>10, EvSteps DEF Deactivate, Flush, Packets
    <2>11. CASE Delete
      BY <2>1, <2>11 DEF Delete, Flush
    <2> QED
      BY <1>3, <2>2, <2>3, <2>4, <2>5, <2>6, <2>7, <2>8, <2>9, <2>10, <2>11 DEF Still
  <1>4. CASE TakeBuffer \/ DrainBuffer
    <2>1. PICK i \in 1 .. Len(objs) :
            /\ i = ip /\ Leaving' = Bufs[i] /\ Gone' = Gone /\ dropped' = dropped
      BY <1>4, TakenMove DEF Packets
    <2>2. due' = due
      BY <1>4 DEF TakeBuffer, DrainBuffer
    <2>3. CASE TakeBuffer
      <3>1. ev.pc = "buffer" /\ ev'.pc = "remove" /\ ev'.far = ev.far /\ ev.far.act = "forw"
        BY <2>3, TakenEv DEF Packets, Shape, EventShape, Swapping
      <3> QED
        BY <2>1, <2>2, <3>1 DEF Flush
    <2>4. CASE DrainBuffer
      <3>1. ev.pc = "drain" /\ ev'.pc = "send" /\ ev'.far = ev.far /\ ev.far.act = "forw"
        BY <2>4, EvSteps DEF Packets, Shape, EventShape
      <3> QED
        BY <2>1, <2>2, <3>1 DEF Flush
    <2> QED
      BY <1>4, <2>3, <2>4
  <1>5. CASE AddNew
    <2>1. /\ Len(objs') = Len(objs) + 1 /\ objs'[Len(objs) + 1].buf = ev.buf
          /\ ev.pc = "add" /\ ev'.pc = "install" /\ ev'.far = ev.far /\ ip' = Len(objs) + 1
      BY <1>5, AddNewMove DEF Packets
    <2>2. Len(objs) \in Nat /\ ev.far.act = "forw"
      BY <2>1, ObjectsExist DEF Packets, Shape, EventShape
    <2>3. Bufs'[ip'] = Leaving
      BY <2>1, <2>2 DEF Bufs, Leaving
    <2>4. due' = due
      BY <1>5 DEF AddNew, AddSession
    <2> QED
      BY <2>1, <2>2, <2>3, <2>4 DEF Flush
  <1>6. CASE FlushSend
    <2>1. PICK p \in Pkt :
            /\ Leaving' = Leaving \ {p}
            /\ \/ sent' = sent /\ dropped' = dropped \cup {p}
               \/ dropped' = dropped /\ \E r \in Transmission : sent' = Append(sent, r) /\ r.pkt = p
            /\ p \in Leaving
      BY <1>6, FlushMove DEF Packets, Order
    <2>2. p \notin Gone
      BY <2>1 DEF Packets, Laid, Layout
    <2>3. Gone \cup dropped \cup {p} \subseteq Gone' \cup dropped'
      <3>1. CASE sent' = sent /\ dropped' = dropped \cup {p}
        BY <3>1 DEF Gone
      <3>2. ASSUME NEW r \in Transmission, sent' = Append(sent, r), r.pkt = p, dropped' = dropped
            PROVE  Gone' = Gone \cup {p}
        BY <2>2, <3>2, SentMore DEF Packets
      <3> QED
        BY <2>1, <3>1, <3>2
    <2>4. due' = due /\ ev'.pc = "send" /\ ev.pc = "send" /\ ev'.far = ev.far /\ ev.far.act = "forw"
      BY <1>6, EvSteps DEF FlushSend, Packets, Shape, EventShape
    <2> QED
      BY <2>1, <2>3, <2>4 DEF Flush
  <1>7. CASE DropBuffered
    <2>1. due' \subseteq due /\ dropped \subseteq dropped' /\ ev' = ev /\ Gone' = Gone /\ ev.pc = "idle"
      BY <1>7 DEF DropBuffered, Gone
    <2> QED
      BY <2>1 DEF Flush
  <1>8. CASE Establish
    <2>1. due' = due /\ dropped' = dropped /\ Gone' = Gone
      BY <1>8 DEF Establish, Gone
    <2> QED
      BY <1>8, <2>1, EvSteps DEF Flush, Packets
  <1> QED
    BY <1>1, <1>2, <1>3, <1>4, <1>5, <1>6, <1>7, <1>8 DEF Next, EventTask, Modification, Still

(***************************************************************************)
(* What was buffered when an activation began has been sent once or given  *)
(* up by the socket or DROBU when it is over: the swap of the object       *)
(* between drain and re-creation (update_session_from_pfcp) loses nothing. *)
(***************************************************************************)
THEOREM FlushesComplete == Spec => []FlushComplete
  <1>1. Init => Flush
    BY IdleTypes DEF Init, Flush
  <1>2. Packets /\ Flush => FlushComplete
    <2>1. SUFFICES ASSUME Packets, Flush, ev.pc = "idle", NEW p \in due, p \notin dropped
                   PROVE  Cardinality(Transmissions(p)) = 1
      BY DEF FlushComplete
    <2>2. p \in Gone
      BY <2>1 DEF Flush
    <2>3. \E k : Transmissions(p) = {k}
      BY <2>1, <2>2, OneTransmission DEF Packets
    <2> QED
      BY <2>3, FS_Singleton
  <1>3. Packets /\ Flush /\ [Next]_vars => Flush'
    BY FlushStep
  <1> QED
    BY <1>1, <1>2, <1>3, PacketsInvariance, PTL DEF Spec

-----------------------------------------------------------------------------
(* Paging.                                                                 *)

\* A packet is put into a buffer.
LEMMA PagingBuffer ==
  ASSUME Shape, Paging, Buffer
  PROVE  Paging'
  <1>1. ip' = ip /\ ev' = ev
    BY DEF Buffer
  <1>2. CASE BufferFull(objs[dl.obj])
    <2>1. objs' = objs /\ episode' = episode
      BY <1>2 DEF Buffer
    <2> QED
      BY <1>1, <2>1 DEF Paging, EpisodeReported, Flagged
  <1>3. CASE ~BufferFull(objs[dl.obj])
    <2>1. PICK o \in 1 .. Len(objs) : o = dl.obj
      BY ObjectsExist DEF Buffer
    <2>2. PICK x \in Session : Becomes(o, x) /\ x.far = objs[o].far /\ x.ddn = TRUE
      BY <1>3, <2>1, BufferMove
    <2>3. /\ \A i \in 1 .. Len(objs) : objs'[i].far = objs[i].far
          /\ \A i \in 1 .. Len(objs) : i # o => objs'[i].ddn = objs[i].ddn
      BY <2>2 DEF Becomes
    <2>4. PICK w, k, l \in BOOLEAN :
            /\ w = (episode.waiting \/ (dl.far.act = "nocp" /\ dl.obj = ip))
            /\ k = (episode.asked \/ (dl.far.act = "nocp" /\ ~objs[o].ddn))
            /\ l = (episode.late \/ dl.far.act # objs[o].far.act)
      OBVIOUS
    <2>5. episode' = [waiting |-> w, asked |-> k, late |-> l]
      BY <1>3, <2>1, <2>4 DEF Buffer
    <2>6. episode'.waiting = w /\ episode'.asked = k /\ episode'.late = l
      BY <2>5
    <2>7. /\ episode'.waiting => episode.waiting \/ (dl.far.act = "nocp" /\ o = ip)
          /\ episode.asked => episode'.asked
          /\ episode.late => episode'.late
          /\ dl.far.act = "nocp" /\ ~objs[o].ddn => episode'.asked
          /\ dl.far.act # objs[o].far.act => episode'.late
      BY <2>1, <2>4, <2>6
    <2>8. dl.far.act \in {"buff", "nocp"}
      BY DEF Buffer
    <2>9. ip # 0 => ip \in 1 .. Len(objs)
      BY ObjectsExist
    <2>10. EpisodeReported'
      <3>1. SUFFICES ASSUME episode'.waiting PROVE episode'.asked \/ episode'.late
        BY DEF EpisodeReported
      <3>2. CASE episode.waiting
        BY <2>7, <3>2 DEF Paging, EpisodeReported
      <3>3. CASE o = ip /\ dl.far.act = "nocp" /\ objs[o].ddn /\ objs[o].far.act = "nocp"
        <4>1. ip # 0 /\ ev.pc # "drain"
          BY <3>3 DEF Paging
        <4> QED
          BY <2>7, <3>3, <4>1 DEF Paging, Flagged
      <3> QED
        BY <2>7, <3>1, <3>2, <3>3
    <2>11. ip' # 0 /\ ev'.pc # "drain" /\ objs'[ip'].ddn =>
             (objs'[ip'].far.act = "forw" => episode'.late)
             /\ (objs'[ip'].far.act = "nocp" => episode'.asked \/ episode'.late)
      <3>1. SUFFICES ASSUME ip # 0, ev.pc # "drain", objs'[ip].ddn
                     PROVE  (objs[ip].far.act = "forw" => episode'.late)
                            /\ (objs[ip].far.act = "nocp" => episode'.asked \/ episode'.late)
        BY <1>1, <2>3, <2>9
      <3>2. CASE objs[ip].ddn
        BY <2>7, <3>1, <3>2 DEF Paging, Flagged
      <3>3. CASE ip = o /\ ~objs[ip].ddn
        BY <2>7, <2>8, <3>3
      <3> QED
        BY <2>3, <2>9, <3>1, <3>2, <3>3
    <2>12. ev'.pc \in {"buffer", "remove", "add"} /\ objs'[ev'.obj].ddn =>
             (ev'.old.act = "forw" => episode'.late)
             /\ (ev'.old.act = "nocp" => episode'.asked \/ episode'.late)
      <3>1. SUFFICES ASSUME ev.pc \in {"buffer", "remove", "add"}, objs'[ev.obj].ddn
                     PROVE  (ev.old.act = "forw" => episode'.late)
                            /\ (ev.old.act = "nocp" => episode'.asked \/ episode'.late)
        BY <1>1
      <3>2. CASE ev.obj = o
        BY <2>7, <2>8, <3>1, <3>2 DEF Shape, EventShape
      <3>3. CASE ev.obj # o
        <4>1. ev.obj \in 1 .. Len(objs)
          BY <3>1, ObjectsExist DEF Swapping
        <4>2. objs[ev.obj].ddn
          BY <2>3, <3>1, <3>3, <4>1
        <4> QED
          BY <2>7, <3>1, <4>2 DEF Paging, Flagged
      <3> QED
        BY <3>2, <3>3
    <2>13. ev'.pc = "drain" => objs'[ip'].far.act = "forw"
      <3>1. ev.pc = "drain" => ip # 0
        BY DEF Shape, EventShape
      <3> QED
        BY <1>1, <2>3, <2>9, <3>1 DEF Paging
    <2> QED
      BY <2>10, <2>11, <2>12, <2>13 DEF Paging, Flagged
  <1> QED
    BY <1>2, <1>3

\* Paging is inductive.
LEMMA PagingStep ==
  ASSUME Shape, Paging, [Next]_vars
  PROVE  Paging'
  <1>1. ip # 0 => ip \in 1 .. Len(objs)
    BY ObjectsExist
  <1>2. CASE /\ objs' = objs /\ ip' = ip /\ ev' = ev /\ episode' = episode
    BY <1>2 DEF Paging, EpisodeReported, Flagged
  <1>3. CASE Buffer
    BY <1>3, PagingBuffer
  <1>4. CASE Establish
    <2>1. ip' = 1 /\ objs'[1].ddn = FALSE /\ ev'.pc = "default" /\ episode' = episode
      BY <1>4, EstablishMove, EvSteps DEF Establish
    <2> QED
      BY <2>1 DEF Paging, EpisodeReported
  <1>5. CASE InstallRules
    <2>1. PICK x \in Session : Becomes(ip, x) /\ x.far = [act |-> "buff", tun |-> 0]
      BY <1>5, InstallRulesMove
    <2>2. ip' = ip /\ objs'[ip].far.act = "buff" /\ ev'.pc = "idle" /\ episode' = episode
      BY <1>5, <2>1, EvSteps DEF InstallRules, Becomes
    <2> QED
      BY <2>2 DEF Paging, EpisodeReported, Flagged
  <1>6. CASE Activate
    <2>1. PICK x \in Session :
            /\ Becomes(ip, x) /\ x.ddn = objs[ip].ddn
            /\ x.far = [act |-> objs[ip].far.act,
                        tun |-> IF objs[ip].far.act = "nocp" THEN objs[ip].far.tun ELSE mods + 1]
      BY <1>6, ActivateMove
    <2>2. objs'[ip].far.act = objs[ip].far.act /\ objs'[ip].ddn = objs[ip].ddn
      BY <2>1 DEF Becomes
    <2>3. ip' = ip /\ ev.pc = "idle" /\ ev'.pc = "pdrs" /\ episode' = episode
      BY <1>6, EvSteps DEF Activate
    <2> QED
      BY <2>2, <2>3 DEF Paging, EpisodeReported, Flagged
  <1>7. CASE TakePdrs
    <2>1. PICK x \in Session : Becomes(ev.obj, x) /\ x.ddn = objs[ev.obj].ddn /\ x.far = objs[ev.obj].far
      BY <1>7, TakePdrsMove
    <2>2. /\ ip' = ip /\ ev.pc = "pdrs" /\ ev'.pc = "fars" /\ episode' = episode /\ ip = ev.obj
          /\ objs'[ip].far = objs[ip].far /\ objs'[ip].ddn = objs[ip].ddn
      BY <1>7, <2>1, EvSteps DEF TakePdrs, Shape, EventShape, Swapping, Becomes
    <2> QED
      BY <2>2 DEF Paging, EpisodeReported, Flagged
  <1>8. CASE TakeFars
    <2>1. PICK x \in Session : Becomes(ev.obj, x) /\ x.ddn = objs[ev.obj].ddn /\ x.far = NoFar
      BY <1>8, TakeFarsMove
    <2>2. /\ ev.pc = "fars" /\ ev'.pc = "buffer" /\ ev'.old = objs[ev.obj].far /\ ev'.obj = ev.obj
      BY <1>8, TakenEv
    <2>3. /\ ip' = ip /\ ip # 0 /\ episode' = episode /\ ip = ev.obj
          /\ objs'[ip].far.act = "none" /\ objs'[ip].ddn = objs[ip].ddn
      BY <1>8, <2>1, <2>2, IdleTypes DEF TakeFars, Shape, EventShape, Swapping, Becomes
    <2> QED
      BY <2>2, <2>3 DEF Paging, EpisodeReported, Flagged
  <1>9. CASE TakeBuffer
    <2>1. PICK x \in Session : Becomes(ev.obj, x) /\ x.ddn = objs[ev.obj].ddn /\ x.far = objs[ev.obj].far
      BY <1>9, TakeBufferMove
    <2>2. /\ ev.pc = "buffer" /\ ev'.pc = "remove" /\ ev'.old = ev.old /\ ev'.obj = ev.obj
      BY <1>9, TakenEv
    <2>3. /\ ip' = ip /\ episode' = episode /\ ip = ev.obj
          /\ objs'[ip].far = objs[ip].far /\ objs'[ip].ddn = objs[ip].ddn
      BY <1>9, <2>1, <2>2 DEF TakeBuffer, Shape, EventShape, Swapping, Becomes
    <2> QED
      BY <2>2, <2>3 DEF Paging, EpisodeReported, Flagged
  <1>10. CASE RemoveOld
    <2>1. ip' = 0 /\ objs' = objs /\ episode' = episode
      BY <1>10 DEF RemoveOld
    <2> QED
      BY <1>10, <2>1, EvSteps DEF Paging, EpisodeReported, Flagged
  <1>11. CASE AddNew
    <2>1. /\ ip' = Len(objs) + 1 /\ objs'[ip'].far = ev.old /\ objs'[ip'].ddn = objs[ev.obj].ddn
          /\ ev.pc = "add" /\ ev'.pc = "install"
      BY <1>11, AddNewMove
    <2>2. episode' = episode
      BY <1>11 DEF AddNew, AddSession
    <2> QED
      BY <2>1, <2>2 DEF Paging, EpisodeReported, Flagged
  <1>12. CASE InstallFar
    <2>1. PICK x \in Session : Becomes(ip, x) /\ x.ddn = objs[ip].ddn /\ x.far = ev.far
      BY <1>12, InstallFarMove
    <2>2. /\ ip' = ip /\ objs'[ip].far = ev.far /\ objs'[ip].ddn = objs[ip].ddn
      BY <1>12, <2>1 DEF InstallFar, Becomes
    <2>3. /\ ev.pc = "install" /\ ip # 0 /\ ev.far.act \in {"forw", "nocp"}
          /\ ev'.pc = IF ev.far.act = "forw" THEN "drain" ELSE "idle"
      BY <1>12, EvSteps DEF Shape, EventShape
    <2>4. CASE ev.far.act = "forw"
      <3>1. episode' = episode
        BY <1>12, <2>4 DEF InstallFar
      <3> QED
        BY <2>2, <2>3, <2>4, <3>1 DEF Paging, EpisodeReported
    <2>5. CASE ev.far.act = "nocp"
      <3>1. PICK b \in BOOLEAN : b = (objs[ip].far.act # "forw")
        OBVIOUS
      <3>2. episode' = [episode EXCEPT !.waiting = FALSE, !.asked = b]
        BY <1>12, <2>5, <3>1 DEF InstallFar
      <3>3. episode \in [waiting : BOOLEAN, asked : BOOLEAN, late : BOOLEAN]
        BY DEF Shape, TypeOK
      <3>4. episode'.waiting = FALSE /\ episode'.asked = b /\ episode'.late = episode.late
        BY <3>2, <3>3
      <3>5. objs[ip].ddn => episode'.asked \/ episode'.late
        BY <2>3, <3>1, <3>4 DEF Paging, Flagged
      <3> QED
        BY <2>2, <2>3, <2>5, <3>4, <3>5 DEF Paging, EpisodeReported, Flagged
    <2> QED
      BY <2>3, <2>4, <2>5
  <1>13. CASE DrainBuffer
    <2>1. ip # 0 /\ ev'.pc = "send"
      BY <1>13, EvSteps DEF Shape, EventShape
    <2>2. PICK x \in Session : Becomes(ip, x) /\ x.ddn = FALSE
      BY <1>13, <2>1, DrainedMove DEF DrainBuffer
    <2>3. objs'[ip'].ddn = FALSE /\ episode'.waiting = FALSE
      BY <1>13, <2>2 DEF DrainBuffer, Becomes
    <2> QED
      BY <2>1, <2>3 DEF Paging, EpisodeReported
  <1>14. CASE FlushSend \/ FlushDone \/ Deactivate
    <2>1. objs' = objs /\ ip' = ip /\ episode' = episode
      BY <1>14 DEF FlushSend, FlushDone, Deactivate
    <2>2. ev.pc \in {"send", "idle"} /\ ev'.pc \in {"send", "idle", "install"}
      BY <1>14, EvSteps
    <2> QED
      BY <2>1, <2>2 DEF Paging, EpisodeReported, Flagged
  <1>15. CASE DropBuffered
    <2>1. PICK x \in Session : Becomes(ip, x) /\ x.ddn = FALSE
      BY <1>15, DrainedMove DEF DropBuffered
    <2>2. objs'[ip'].ddn = FALSE /\ episode' = episode /\ ev' = ev /\ ev.pc = "idle"
      BY <1>15, <2>1 DEF DropBuffered, Becomes
    <2> QED
      BY <2>2 DEF Paging, EpisodeReported
  <1>16. CASE Delete
    BY <1>16 DEF Delete, Paging, EpisodeReported
  <1> QED
    BY <1>2, <1>3, <1>4, <1>5, <1>6, <1>7, <1>8, <1>9, <1>10, <1>11, <1>12, <1>13, <1>14, <1>15,
       <1>16
    DEF Next, PacketLoop, EventTask, Modification, Arrive, MatchPdr, ApplyFar, Forward, SendReport,
        vars

(***************************************************************************)
(* A packet that waits after the FAR went from FORW to BUFF|NOCP has asked *)
(* the SMF to page, unless a packet came late (buffer_dl_packet): no       *)
(* earlier episode leaves the DDN flag up, through any number of swaps.    *)
(***************************************************************************)
THEOREM EpisodesReported == Spec => []EpisodeReported
  <1>1. Init => Paging
    <2>1. SUFFICES ASSUME Init PROVE Paging
      OBVIOUS
    <2>2. ip = 0 /\ ev.pc = "idle" /\ episode.waiting = FALSE
      BY <2>1, IdleTypes DEF Init
    <2> QED
      BY <2>2 DEF Paging, EpisodeReported
  <1>2. Paging => EpisodeReported
    BY DEF Paging
  <1>3. Shape /\ Paging /\ [Next]_vars => Paging'
    BY PagingStep
  <1> QED
    BY <1>1, <1>2, <1>3, ShapeInvariance, PTL DEF Spec

-----------------------------------------------------------------------------
(* Tunnels.                                                                *)

\* The numbers of tunnels are numbers.
LEMMA TunNumbers ==
  ASSUME Shape
  PROVE  /\ mods \in Nat /\ dl.floor \in Nat /\ dl.far.tun \in Nat /\ ev.far.tun \in Nat
         /\ \A i \in 1 .. Len(objs) : objs[i].far.tun \in Nat
  <1>1. \A t \in Tun : t \in Nat
    BY DEF Tun
  <1>2. mods \in Nat
    BY MaxModAssumption DEF Shape, TypeOK
  <1>3. dl.floor \in Tun /\ dl.far.tun \in Tun /\ ev.far.tun \in Tun
    BY DEF Shape, TypeOK, Far
  <1>4. \A i \in 1 .. Len(objs) : objs[i].far.tun \in Tun
    BY ObjectTypes DEF Shape, Far
  <1> QED
    BY <1>1, <1>2, <1>3, <1>4

\* The FAR of the packet loop: a step that rewrites one object.
LEMMA TunnelWrite ==
  ASSUME Shape, Tunnel, NEW i \in 1 .. Len(objs), NEW x \in Session, Becomes(i, x),
         dl' = dl, x.far.act = "forw" => x.far = objs[i].far \/ x.far.tun >= dl.floor
  PROVE  dl'.pc \in {"found", "matched"} /\ objs'[dl'.obj].far.act = "forw" =>
           objs'[dl'.obj].far.tun >= dl'.floor
  <1>1. SUFFICES ASSUME dl.pc \in {"found", "matched"}, objs'[dl.obj].far.act = "forw"
                 PROVE  objs'[dl.obj].far.tun >= dl.floor
    OBVIOUS
  <1>2. dl.obj \in 1 .. Len(objs)
    BY <1>1, ObjectsExist
  <1>3. CASE dl.obj = i
    <2>1. objs'[dl.obj] = x /\ x.far.act = "forw"
      BY <1>1, <1>3 DEF Becomes
    <2>2. CASE x.far = objs[i].far
      BY <1>1, <1>3, <2>1, <2>2 DEF Tunnel
    <2> QED
      BY <2>1, <2>2
  <1>4. CASE dl.obj # i
    BY <1>1, <1>2, <1>4 DEF Becomes, Tunnel
  <1> QED
    BY <1>3, <1>4

\* The packet loop.
LEMMA TunnelLoop ==
  ASSUME Shape, Tunnel, PacketLoop
  PROVE  Tunnel'
  <1>1. /\ ip' = ip /\ ev' = ev /\ mods' = mods
    BY DEF PacketLoop, Arrive, MatchPdr, ApplyFar, Forward, Buffer
  <1>2. /\ Len(objs') = Len(objs) /\ \A i \in 1 .. Len(objs) : objs'[i].far = objs[i].far
        /\ objs \in Seq(Session) /\ objs' \in Seq(Session)
    <2>1. CASE objs' = objs
      BY <2>1 DEF Shape, TypeOK
    <2>2. CASE Buffer /\ ~BufferFull(objs[dl.obj])
      BY <2>2, BufferMove DEF Becomes, Shape, TypeOK
    <2> QED
      BY <2>1, <2>2 DEF PacketLoop, Arrive, MatchPdr, ApplyFar, Forward, Buffer
  <1>3. ip # 0 => ip \in 1 .. Len(objs)
    BY ObjectsExist
  <1>4. objs' = <<>> => mods' = 0
    BY <1>1, <1>2 DEF Tunnel
  <1>5. /\ ev'.pc \notin {"idle", "default"} /\ ev'.far.act = "forw" => ev'.far.tun = mods'
        /\ ev'.pc \in {"idle", "drain", "send"} /\ ip' # 0 /\ objs'[ip'].far.act = "forw" =>
             objs'[ip'].far.tun = mods'
    BY <1>1, <1>2, <1>3 DEF Tunnel
  <1>6. dl \in DlType(Len(objs)) /\ dl.floor \in Nat /\ mods \in Nat
    BY TypeParts, TunNumbers DEF Shape, TasksOK
  <1>7. CASE Arrive
    <2>1. sent' = sent /\ objs' = objs
      BY <1>7 DEF Arrive
    <2>2. TunnelNotStale'
      BY <2>1 DEF Tunnel, TunnelNotStale
    <2>3. CASE ip = 0
      <3>1. dl' = dl
        BY <1>7, <2>3 DEF Arrive
      <3> QED
        BY <1>1, <1>4, <1>5, <2>1, <2>2, <3>1 DEF Tunnel
    <2>4. CASE ip # 0
      <3>1. PICK f : f = IF ev.pc = "idle" THEN mods ELSE 0
        OBVIOUS
      <3>2. dl' = [pc |-> "found", pkt |-> arrived', obj |-> ip, far |-> NoFar, floor |-> f]
        BY <1>7, <2>4, <3>1 DEF Arrive
      <3>3. dl'.pc = "found" /\ dl'.obj = ip /\ dl'.floor = f
        BY <3>2
      <3>4. f <= mods
        BY <1>6, <3>1
      <3>5. objs[ip].far.act = "forw" => objs[ip].far.tun >= f
        <4>1. objs[ip].far.tun \in Nat
          BY <1>3, <2>4, TunNumbers
        <4> QED
          BY <1>6, <2>4, <3>1, <4>1 DEF Tunnel
      <3> QED
        BY <1>1, <1>4, <1>5, <2>1, <2>2, <3>3, <3>4, <3>5 DEF Tunnel
    <2> QED
      BY <2>3, <2>4
  <1>8. CASE dl' = IdleDl
    <2>1. dl'.floor <= mods' /\ dl'.pc = "idle"
      BY <1>1, <1>6, <1>8, IdleTypes
    <2>2. TunnelNotStale'
      <3>1. CASE sent' = sent
        BY <3>1 DEF Tunnel, TunnelNotStale
      <3>2. CASE Forward /\ sent' # sent
        <4>1. PICK r : r = [pkt |-> dl.pkt, tun |-> dl.far.tun, floor |-> dl.floor, flushed |-> FALSE]
          OBVIOUS
        <4>2. r \in Transmission
          BY <3>2, <4>1, LoopTypes DEF Shape, TypeOK, Far, Transmission, Forward
        <4>3. sent' = Append(sent, r) /\ dl.pc = "decided" /\ dl.far.act = "forw"
          BY <3>2, <4>1 DEF Forward, Send
        <4>4. r.tun >= r.floor
          BY <4>1, <4>3 DEF Tunnel
        <4>5. sent \in Seq(Transmission)
          BY DEF Shape, TypeOK, Transmission
        <4> QED
          BY <4>2, <4>3, <4>4, <4>5 DEF Tunnel, TunnelNotStale
      <3> QED
        BY <3>1, <3>2 DEF PacketLoop, Arrive, MatchPdr, ApplyFar, Buffer
    <2> QED
      BY <1>4, <1>5, <2>1, <2>2 DEF Tunnel
  <1>9. CASE (MatchPdr \/ ApplyFar) /\ dl' # IdleDl
    <2>1. sent' = sent /\ objs' = objs
      BY <1>9 DEF MatchPdr, ApplyFar
    <2>2. TunnelNotStale'
      BY <2>1 DEF Tunnel, TunnelNotStale
    <2>3. CASE MatchPdr
      <3>1. dl' = [dl EXCEPT !.pc = "matched"] /\ dl.pc = "found"
        BY <1>9, <2>3 DEF MatchPdr
      <3>2. dl'.pc = "matched" /\ dl'.obj = dl.obj /\ dl'.floor = dl.floor
        BY <1>6, <3>1 DEF DlType
      <3> QED
        BY <1>1, <1>4, <1>5, <2>1, <2>2, <3>1, <3>2 DEF Tunnel
    <2>4. CASE ApplyFar
      <3>1. dl' = [dl EXCEPT !.pc = "decided", !.far = objs[dl.obj].far] /\ dl.pc = "matched"
        BY <1>9, <2>4 DEF ApplyFar
      <3>2. dl'.pc = "decided" /\ dl'.far = objs[dl.obj].far /\ dl'.floor = dl.floor
        BY <1>6, <3>1 DEF DlType
      <3> QED
        BY <1>1, <1>4, <1>5, <2>1, <2>2, <3>1, <3>2 DEF Tunnel
    <2> QED
      BY <1>9, <2>3, <2>4
  <1> QED
    BY <1>7, <1>8, <1>9 DEF PacketLoop, Forward, Buffer

\* The session events.
LEMMA TunnelEvent ==
  ASSUME Shape, Tunnel, EventTask
  PROVE  Tunnel'
  <1>1. dl' = dl /\ mods \in Nat /\ dl.floor \in Nat /\ Len(objs) \in Nat /\ objs \in Seq(Session)
    BY TunNumbers, ObjectsExist
    DEF EventTask, Modification, Establish, InstallRules, Delete, Activate, TakePdrs, TakeFars,
        TakeBuffer, RemoveOld, AddNew, AddSession, Deactivate, DropBuffered, InstallFar,
        DrainBuffer, FlushSend, FlushDone, Shape, TypeOK
  <1>2. dl'.pc = "decided" /\ dl'.far.act = "forw" => dl'.far.tun >= dl'.floor
    BY <1>1 DEF Tunnel
  <1>3. ~FlushSend => TunnelNotStale'
    <2>1. ~FlushSend => sent' = sent
      BY DEF EventTask, Modification, Establish, InstallRules, Delete, Activate, TakePdrs,
             TakeFars, TakeBuffer, RemoveOld, AddNew, AddSession, Deactivate, DropBuffered,
             InstallFar, DrainBuffer, FlushDone
    <2> QED
      BY <2>1 DEF Tunnel, TunnelNotStale
  <1>4. ip # 0 => ip \in 1 .. Len(objs) /\ objs[ip].far.tun \in Nat
    BY ObjectsExist, TunNumbers
  <1>5. \A i \in 1 .. Len(objs) : \A x \in Session :
          Becomes(i, x) => objs' # <<>> /\ objs # <<>>
    BY <1>1 DEF Becomes
  <1>6. CASE Establish
    <2>1. /\ Len(objs) = 0 /\ Len(objs') = 1 /\ objs' \in Seq(Session) /\ ip' = 1
          /\ ev'.pc = "default" /\ mods' = mods
      BY <1>6, EstablishMove, EvSteps DEF Establish
    <2>2. dl.pc = "idle"
      BY <2>1, ObjectsExist
    <2>3. objs' # <<>>
      <3>1. Len(<<>>) = 0
        OBVIOUS
      <3>2. Len(objs') # 0
        BY <2>1
      <3> QED
        BY <3>1, <3>2, Zenon
    <2> QED
      BY <1>1, <1>2, <1>3, <1>6, <2>1, <2>2, <2>3, EvSteps DEF Tunnel, FlushSend
  <1>7. CASE InstallRules
    <2>1. PICK x \in Session : Becomes(ip, x) /\ x.far = [act |-> "buff", tun |-> 0]
      BY <1>7, InstallRulesMove
    <2>2. ip' = ip /\ mods' = mods /\ ev'.pc = "idle" /\ ev.pc = "default" /\ x.far.act = "buff"
          /\ ip # 0
      BY <1>7, <2>1, EvSteps DEF InstallRules, Shape, EventShape
    <2>3. objs'[ip].far.act = "buff" /\ objs' # <<>>
      BY <1>4, <1>5, <2>1, <2>2 DEF Becomes
    <2>4. dl'.pc \in {"found", "matched"} /\ objs'[dl'.obj].far.act = "forw" =>
            objs'[dl'.obj].far.tun >= dl'.floor
      BY <1>1, <1>4, <2>1, <2>2, TunnelWrite
    <2> QED
      BY <1>1, <1>2, <1>3, <2>2, <2>3, <2>4 DEF Tunnel, FlushSend
  <1>8. CASE Activate
    <2>1. PICK x \in Session :
            /\ Becomes(ip, x)
            /\ x.far = [act |-> objs[ip].far.act,
                        tun |-> IF objs[ip].far.act = "nocp" THEN objs[ip].far.tun ELSE mods + 1]
      BY <1>8, ActivateMove
    <2>2. /\ ip' = ip /\ mods' = mods + 1 /\ ev'.pc = "pdrs" /\ ev.pc = "idle" /\ ip # 0
          /\ ev'.far.tun = mods + 1
      BY <1>8, EvSteps DEF Activate
    <2>3. x.far.act = "forw" => x.far.tun = mods + 1
      BY <2>1
    <2>4. dl.floor <= mods
      BY DEF Tunnel
    <2>5. dl'.pc \in {"found", "matched"} /\ objs'[dl'.obj].far.act = "forw" =>
            objs'[dl'.obj].far.tun >= dl'.floor
      <3>1. x.far.act = "forw" => x.far.tun >= dl.floor
        BY <1>1, <2>3, <2>4
      <3> QED
        BY <1>1, <1>4, <2>1, <2>2, <3>1, TunnelWrite
    <2>6. objs' # <<>>
      BY <1>4, <1>5, <2>1, <2>2
    <2>7. dl'.floor <= mods'
      BY <1>1, <2>2, <2>4
    <2> QED
      BY <1>2, <1>3, <2>2, <2>5, <2>6, <2>7 DEF Tunnel, FlushSend
  <1>9. CASE TakePdrs \/ TakeBuffer
    <2>1. PICK x \in Session : Becomes(ev.obj, x) /\ x.far = objs[ev.obj].far
      BY <1>9, TakePdrsMove, TakeBufferMove
    <2>2. ev.obj \in 1 .. Len(objs)
      BY <1>9, ObjectsExist DEF TakePdrs, TakeBuffer, EvStep, Swapping
    <2>3. /\ mods' = mods /\ ev'.pc \in {"fars", "remove"} /\ ev'.far = ev.far
          /\ ev.pc \in {"pdrs", "buffer"}
      BY <1>9, EvSteps, TakenEv DEF TakePdrs, TakeBuffer
    <2>4. dl'.pc \in {"found", "matched"} /\ objs'[dl'.obj].far.act = "forw" =>
            objs'[dl'.obj].far.tun >= dl'.floor
      BY <1>1, <2>1, <2>2, TunnelWrite
    <2>5. objs' # <<>>
      BY <1>5, <2>1, <2>2
    <2> QED
      BY <1>1, <1>2, <1>3, <2>3, <2>4, <2>5 DEF Tunnel, FlushSend
  <1>10. CASE TakeFars
    <2>1. PICK x \in Session : Becomes(ev.obj, x) /\ x.far = NoFar
      BY <1>10, TakeFarsMove
    <2>2. ev.obj \in 1 .. Len(objs)
      BY <1>10, ObjectsExist DEF TakeFars, Swapping
    <2>3. mods' = mods /\ ev'.pc = "buffer" /\ ev'.far = ev.far /\ ev.pc = "fars"
      BY <1>10, TakenEv DEF TakeFars
    <2>4. dl'.pc \in {"found", "matched"} /\ objs'[dl'.obj].far.act = "forw" =>
            objs'[dl'.obj].far.tun >= dl'.floor
      BY <1>1, <2>1, <2>2, TunnelWrite, IdleTypes
    <2>5. objs' # <<>>
      BY <1>5, <2>1, <2>2
    <2> QED
      BY <1>1, <1>2, <1>3, <2>3, <2>4, <2>5 DEF Tunnel, FlushSend
  <1>11. CASE RemoveOld
    <2>1. objs' = objs /\ ip' = 0 /\ mods' = mods
      BY <1>11 DEF RemoveOld
    <2> QED
      BY <1>1, <1>2, <1>3, <1>11, <2>1, EvSteps DEF Tunnel, FlushSend
  <1>12. CASE AddNew
    <2>1. /\ objs' \in Seq(Session) /\ Len(objs') = Len(objs) + 1
          /\ \A j \in 1 .. Len(objs) : objs'[j] = objs[j]
          /\ ev'.pc = "install" /\ ev.pc = "add" /\ ev'.far = ev.far
      BY <1>12, AddNewMove
    <2>2. dl.pc # "idle" => objs'[dl.obj] = objs[dl.obj]
      BY <2>1, ObjectsExist
    <2>3. objs' # <<>> /\ mods' = mods
      BY <1>1, <1>12, <2>1 DEF AddNew, AddSession
    <2> QED
      BY <1>1, <1>2, <1>3, <2>1, <2>2, <2>3 DEF Tunnel, FlushSend
  <1>13. CASE InstallFar
    <2>1. PICK x \in Session : Becomes(ip, x) /\ x.far = ev.far
      BY <1>13, InstallFarMove
    <2>2. /\ ip' = ip /\ mods' = mods /\ ev.pc = "install" /\ ev'.far = ev.far /\ ip # 0
          /\ ev.far.act \in {"forw", "nocp"}
          /\ ev'.pc = IF ev.far.act = "forw" THEN "drain" ELSE "idle"
      BY <1>13, EvSteps DEF InstallFar, Shape, EventShape
    <2>3. ev.far.act = "forw" => ev.far.tun = mods
      BY <2>2 DEF Tunnel
    <2>4. dl.floor <= mods
      BY DEF Tunnel
    <2>5. dl'.pc \in {"found", "matched"} /\ objs'[dl'.obj].far.act = "forw" =>
            objs'[dl'.obj].far.tun >= dl'.floor
      <3>1. x.far.act = "forw" => x.far.tun >= dl.floor
        BY <1>1, <2>1, <2>3, <2>4
      <3> QED
        BY <1>1, <1>4, <2>1, <2>2, <3>1, TunnelWrite
    <2>6. objs' # <<>> /\ objs'[ip].far = ev.far
      BY <1>4, <1>5, <2>1, <2>2 DEF Becomes
    <2> QED
      BY <1>1, <1>2, <1>3, <2>2, <2>3, <2>4, <2>5, <2>6 DEF Tunnel, FlushSend
  <1>14. CASE DrainBuffer \/ DropBuffered
    <2>1. /\ ip # 0 /\ ip' = ip /\ mods' = mods /\ objs' = Drained
          /\ ev.pc \in {"idle", "drain"} /\ ev'.pc \in {"idle", "send"} /\ ev'.far = ev.far
          /\ (ev'.pc = "send" => ev.pc = "drain")
      BY <1>14, EvSteps DEF DrainBuffer, DropBuffered, Shape, EventShape
    <2>2. PICK x \in Session : Becomes(ip, x) /\ x.far = objs[ip].far
      BY <2>1, DrainedMove
    <2>3. dl'.pc \in {"found", "matched"} /\ objs'[dl'.obj].far.act = "forw" =>
            objs'[dl'.obj].far.tun >= dl'.floor
      BY <1>1, <1>4, <2>1, <2>2, TunnelWrite
    <2>4. objs' # <<>> /\ objs'[ip].far = objs[ip].far
      BY <1>4, <1>5, <2>1, <2>2 DEF Becomes
    <2> QED
      BY <1>1, <1>2, <1>3, <1>14, <2>1, <2>3, <2>4
      DEF Tunnel, FlushSend, DropBuffered, DrainBuffer
  <1>15. CASE FlushSend
    <2>1. PICK p \in Pkt :
            /\ objs' = objs /\ ip' = ip
            /\ \/ sent' = sent
               \/ \E r \in Transmission : sent' = Append(sent, r) /\ r.floor = 0
      <3>1. CASE sent' = sent
        BY <1>15, <3>1, EvFields DEF FlushSend
      <3>2. CASE sent' # sent
        <4>1. PICK p \in Pkt : p = Head(ev.buf)
          BY <1>15, EvFields DEF FlushSend
        <4>2. PICK r : r = [pkt |-> p, tun |-> ev.far.tun, floor |-> 0, flushed |-> TRUE]
          OBVIOUS
        <4>3. r \in Transmission /\ r.floor = 0
          BY <4>1, <4>2, EvFields, MaxModAssumption DEF Far, Tun, Transmission
        <4>4. sent' = Append(sent, r) /\ objs' = objs /\ ip' = ip
          BY <1>15, <3>2, <4>1, <4>2 DEF FlushSend, Send
        <4> QED
          BY <4>1, <4>3, <4>4
      <3> QED
        BY <3>1, <3>2
    <2>2. TunnelNotStale'
      <3>1. CASE sent' = sent
        BY <3>1 DEF Tunnel, TunnelNotStale
      <3>2. ASSUME NEW r \in Transmission, sent' = Append(sent, r), r.floor = 0
            PROVE  TunnelNotStale'
        <4>1. r.tun >= r.floor
          BY <3>2, MaxModAssumption DEF Transmission, Tun
        <4>2. sent \in Seq(Transmission)
          BY DEF Shape, TypeOK, Transmission
        <4> QED
          BY <3>2, <4>1, <4>2 DEF Tunnel, TunnelNotStale
      <3> QED
        BY <2>1, <3>1, <3>2
    <2>3. mods' = mods
      BY <1>15 DEF FlushSend
    <2> QED
      BY <1>1, <1>2, <1>15, <2>1, <2>2, <2>3, EvSteps DEF Tunnel
  <1>16. CASE FlushDone \/ Deactivate \/ Delete
    <2>1. /\ objs' = objs /\ mods' = mods /\ (ip' = ip \/ ip' = 0)
      BY <1>16 DEF FlushDone, Deactivate, Delete
    <2>2. /\ ev.pc \in {"send", "idle"} /\ ev'.pc \in {"idle", "install"}
          /\ (ev'.pc = "install" => ev'.far.act = "nocp")
      BY <1>16, EvSteps DEF Delete
    <2> QED
      BY <1>1, <1>2, <1>3, <1>16, <2>1, <2>2 DEF Tunnel, FlushSend, FlushDone, Deactivate, Delete
  <1> QED
    BY <1>6, <1>7, <1>8, <1>9, <1>10, <1>11, <1>12, <1>13, <1>14, <1>15, <1>16
    DEF EventTask, Modification

(***************************************************************************)
(* A packet that comes after a path switch is complete never goes to an    *)
(* earlier gNB tunnel, though the FAR is read (apply_far), replaced        *)
(* (update_session_from_pfcp) and used by tasks that do not wait for each  *)
(* other.                                                                  *)
(***************************************************************************)
THEOREM TunnelsNotStale == Spec => []TunnelNotStale
  <1>1. Init => Tunnel
    <2>1. SUFFICES ASSUME Init PROVE Tunnel
      OBVIOUS
    <2>2. /\ sent = <<>> /\ mods = 0 /\ dl.floor = 0 /\ dl.pc = "idle" /\ ev.pc = "idle" /\ ip = 0
      BY <2>1, IdleTypes DEF Init
    <2> QED
      BY <2>2 DEF Tunnel, TunnelNotStale
  <1>2. Tunnel => TunnelNotStale
    BY DEF Tunnel
  <1>3. Shape /\ Tunnel /\ [Next]_vars => Tunnel'
    <2>1. SUFFICES ASSUME Shape, Tunnel, [Next]_vars PROVE Tunnel'
      OBVIOUS
    <2>2. CASE SendReport \/ UNCHANGED vars
      BY <2>1, <2>2 DEF SendReport, vars, Tunnel, TunnelNotStale
    <2> QED
      BY <2>1, <2>2, TunnelLoop, TunnelEvent DEF Next
  <1> QED
    BY <1>1, <1>2, <1>3, ShapeInvariance, PTL DEF Spec

=============================================================================
