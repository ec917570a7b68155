---------------------------- MODULE UpfDownlink ----------------------------
(***************************************************************************)
(* Downlink buffering and paging of one PDU session in the UPF data plane. *)
(*                                                                         *)
(* Two tasks share the session object: the packet loop, which carries one  *)
(* downlink packet at a time through lookup, PDR match, FAR and action,    *)
(* and the session event task, which installs, re-creates and removes the  *)
(* session as PFCP events arrive.  Each field of the object has a lock of  *)
(* its own that is held for one access, so a step is one access.           *)
(*                                                                         *)
(* update_session_from_pfcp replaces the session object: it empties the    *)
(* old one and adds a new one.  A task that looked the old one up goes on  *)
(* using it.  objs holds all of them; ip is the one the lookup finds.      *)
(***************************************************************************)
EXTENDS Naturals, Sequences, FiniteSets, SequencesExt

CONSTANTS
    MaxPkt,         \* bound: downlink packets, numbered in order of arrival
    MaxMod,         \* bound: session modifications
    BufCap,         \* capacity of the downlink buffer (BAR or default)
    ReportCap       \* capacity of the report channel
ASSUME MaxPktAssumption == MaxPkt \in Nat
ASSUME MaxModAssumption == MaxMod \in Nat
ASSUME BufCapAssumption == BufCap \in Nat
ASSUME ReportCapAssumption == ReportCap \in Nat \ {0}

VARIABLES
    objs,           \* the session objects, by creation
    ip,             \* ue_ip_map: index of the session object, 0 for none
    dl,             \* the packet loop
    ev,             \* the session event task
    reports,        \* Downlink Data Reports in the report channel
    arrived,        \* packets read from the TUN so far
    mods,           \* modifications so far; also numbers the gNB tunnels
    sent,           \* packets sent to a gNB, in the order sent
    dropped,        \* packets discarded
    due,            \* history: buffered when the last activation began
    episode         \* history since the FAR last went from FORW to BUFF|NOCP:
                    \* is a packet waiting, was the SMF asked to page; late: a
                    \* packet was buffered after its FAR had been replaced

vars == <<objs, ip, dl, ev, reports, arrived, mods, sent, dropped, due, episode>>

Pkt == 1 .. MaxPkt
Tun == 0 .. MaxMod          \* 0: no tunnel to a gNB known yet
Far == [act : {"none", "buff", "nocp", "forw"}, tun : Tun]
NoFar == [act |-> "none", tun |-> 0]

Session == [pdrs : BOOLEAN, far : Far, buf : Seq(Pkt), ddn : BOOLEAN]

(***************************************************************************)
(* What the packet loop has in hand: the packet, the object it found, the  *)
(* FAR it read; floor (history) is the tunnel that was in place when the   *)
(* packet came.  The event task: the object, the FAR to install, the FAR   *)
(* taken out of the old object and the packets taken or to be flushed.     *)
(***************************************************************************)
IdleDl == [pc |-> "idle", pkt |-> 0, obj |-> 0, far |-> NoFar, floor |-> 0]
IdleEv == [pc |-> "idle", obj |-> 0, far |-> NoFar, old |-> NoFar, buf |-> <<>>]

(***************************************************************************)
(* The range of every variable; a buffer never exceeds its capacity.       *)
(***************************************************************************)
TypeOK ==
    /\ objs \in Seq(Session)
    /\ ip \in 0 .. Len(objs)
    /\ dl \in [pc : {"idle", "found", "matched", "decided"},
               pkt : 0 .. MaxPkt, obj : 0 .. Len(objs), far : Far, floor : Tun]
    /\ ev \in [pc : {"idle", "default", "pdrs", "fars", "buffer", "remove", "add",
                     "install", "drain", "send"},
               obj : 0 .. Len(objs), far : Far, old : Far, buf : Seq(Pkt)]
    /\ reports \in 0 .. ReportCap
    /\ arrived \in 0 .. MaxPkt
    /\ mods \in 0 .. MaxMod
    /\ sent \in Seq([pkt : Pkt, tun : Tun, floor : Tun, flushed : BOOLEAN])
    /\ dropped \subseteq Pkt
    /\ due \subseteq Pkt
    /\ episode \in [waiting : BOOLEAN, asked : BOOLEAN, late : BOOLEAN]
    /\ \A i \in 1 .. Len(objs) : Len(objs[i].buf) <= BufCap

Init ==
    /\ objs = <<>>
    /\ ip = 0
    /\ dl = IdleDl
    /\ ev = IdleEv
    /\ reports = 0
    /\ arrived = 0
    /\ mods = 0
    /\ sent = <<>>
    /\ dropped = {}
    /\ due = {}
    /\ episode = [waiting |-> FALSE, asked |-> FALSE, late |-> FALSE]

-----------------------------------------------------------------------------
(* handle_downlink_packet.                                                 *)

Drop(p) == dropped' = dropped \cup {p}

(***************************************************************************)
(* A packet from the TUN, and the session that its address leads to.       *)
(***************************************************************************)
Arrive ==
    /\ dl.pc = "idle"
    /\ arrived < MaxPkt
    /\ arrived' = arrived + 1
    /\ IF ip = 0
       THEN Drop(arrived') /\ UNCHANGED dl
       ELSE /\ dl' = [pc |-> "found", pkt |-> arrived', obj |-> ip, far |-> NoFar,
                      floor |-> IF ev.pc = "idle" THEN mods ELSE 0]
            /\ UNCHANGED dropped
    /\ UNCHANGED <<objs, ip, ev, reports, mods, sent, due, episode>>

(***************************************************************************)
(* PDR match, then the QER gate and rate, which may refuse the packet.     *)
(***************************************************************************)
MatchPdr ==
    /\ dl.pc = "found"
    /\ \/ /\ objs[dl.obj].pdrs
          /\ dl' = [dl EXCEPT !.pc = "matched"]
          /\ UNCHANGED dropped
       \/ /\ dl' = IdleDl
          /\ Drop(dl.pkt)
    /\ UNCHANGED <<objs, ip, ev, reports, arrived, mods, sent, due, episode>>

(***************************************************************************)
(* apply_far: the decision is taken here and acted on later.  A FAR that   *)
(* is not there drops the packet.                                          *)
(***************************************************************************)
ApplyFar ==
    /\ dl.pc = "matched"
    /\ IF objs[dl.obj].far.act = "none"
       THEN dl' = IdleDl /\ Drop(dl.pkt)
       ELSE /\ dl' = [dl EXCEPT !.pc = "decided", !.far = objs[dl.obj].far]
            /\ UNCHANGED dropped
    /\ UNCHANGED <<objs, ip, ev, reports, arrived, mods, sent, due, episode>>

(***************************************************************************)
(* The socket takes the packet or the packet is gone.                      *)
(***************************************************************************)
Send(p, tun, floor, flushed) ==
    \/ /\ sent' = Append(sent, [pkt |-> p, tun |-> tun, floor |-> floor,
                                flushed |-> flushed])
       /\ UNCHANGED dropped
    \/ Drop(p) /\ UNCHANGED sent

Forward ==
    /\ dl.pc = "decided"
    /\ dl.far.act = "forw"
    /\ Send(dl.pkt, dl.far.tun, dl.floor, FALSE)
    /\ dl' = IdleDl
    /\ UNCHANGED <<objs, ip, ev, reports, arrived, mods, due, episode>>

BugOffByOne(o) == Len(o.buf) > BufCap

(***************************************************************************)
(* buffer_dl_packet: a full buffer discards the packet.                    *)
(***************************************************************************)
BufferFull(o) == Len(o.buf) >= BufCap

(***************************************************************************)
(* The first packet of an episode raises a report when NOCP is set; the    *)
(* report channel takes it or not.                                         *)
(***************************************************************************)
Buffer ==
    LET o == objs[dl.obj]
        raises == dl.far.act = "nocp" /\ ~o.ddn
    IN
    /\ dl.pc = "decided"
    /\ dl.far.act \in {"buff", "nocp"}
    /\ IF BufferFull(o)
       THEN /\ Drop(dl.pkt)
            /\ UNCHANGED <<objs, reports, episode>>
       ELSE /\ objs' = [objs EXCEPT ![dl.obj].buf = Append(@, dl.pkt),
                                    ![dl.obj].ddn = TRUE]
            /\ reports' = IF raises /\ reports < ReportCap THEN reports + 1 ELSE reports
            /\ episode' = [waiting |-> episode.waiting \/ (dl.far.act = "nocp" /\ dl.obj = ip),
                           asked   |-> episode.asked \/ raises,
                           late    |-> episode.late \/ dl.far.act # o.far.act]
            /\ UNCHANGED dropped
    /\ dl' = IdleDl
    /\ UNCHANGED <<ip, ev, arrived, mods, sent, due>>

(***************************************************************************)
(* The report task takes a report out of the channel and sends it.         *)
(***************************************************************************)
SendReport ==
    /\ reports > 0
    /\ reports' = reports - 1
    /\ UNCHANGED <<objs, ip, dl, ev, arrived, mods, sent, dropped, due, episode>>

-----------------------------------------------------------------------------
(* handle_pfcp_session_event.                                              *)

EvStep(pc, next) ==
    /\ ev.pc = pc
    /\ ev' = [ev EXCEPT !.pc = next]

(***************************************************************************)
(* SessionEstablished: the session is added with default rules that        *)
(* forward, then the rules of the SMF replace them: buffer, no NOCP.       *)
(***************************************************************************)
Establish ==
    /\ EvStep("idle", "default")
    /\ objs = <<>>
    /\ objs' = <<[pdrs |-> TRUE, far |-> [act |-> "forw", tun |-> 0],
                  buf |-> <<>>, ddn |-> FALSE]>>
    /\ ip' = 1
    /\ UNCHANGED <<dl, reports, arrived, mods, sent, dropped, due, episode>>

InstallRules ==
    /\ EvStep("default", "idle")
    /\ objs' = [objs EXCEPT ![ip].far = [act |-> "buff", tun |-> 0]]
    /\ UNCHANGED <<ip, dl, reports, arrived, mods, sent, dropped, due, episode>>

(***************************************************************************)
(* SessionModified with a new tunnel, update_session_from_pfcp: the        *)
(* FAR of the present object that leads to the access side gets it (a      *)
(* deactivated FAR leads nowhere), then the rules and the buffer are taken *)
(* out of the object one by one.                                           *)
(***************************************************************************)
Activate ==
    /\ ev.pc = "idle"
    /\ ip # 0
    /\ mods < MaxMod
    /\ mods' = mods + 1
    /\ ev' = [IdleEv EXCEPT !.pc = "pdrs", !.obj = ip,
                            !.far = [act |-> "forw", tun |-> mods']]
    /\ objs' = [objs EXCEPT ![ip].far.tun = IF objs[ip].far.act = "nocp" THEN @ ELSE mods']
    /\ due' = ToSet(objs[ip].buf)
    /\ UNCHANGED <<ip, dl, reports, arrived, sent, dropped, episode>>

TakePdrs ==
    /\ EvStep("pdrs", "fars")
    /\ objs' = [objs EXCEPT ![ev.obj].pdrs = FALSE]
    /\ UNCHANGED <<ip, dl, reports, arrived, mods, sent, dropped, due, episode>>

TakeFars ==
    /\ ev.pc = "fars"
    /\ ev' = [ev EXCEPT !.pc = "buffer", !.old = objs[ev.obj].far]
    /\ objs' = [objs EXCEPT ![ev.obj].far = NoFar]
    /\ UNCHANGED <<ip, dl, reports, arrived, mods, sent, dropped, due, episode>>

BugCopyBuffer ==
    /\ ev.pc = "buffer"
    /\ ev' = [ev EXCEPT !.pc = "remove", !.buf = objs[ev.obj].buf]
    /\ UNCHANGED <<objs, ip, dl, reports, arrived, mods, sent, dropped, due, episode>>

TakeBuffer ==
    /\ ev.pc = "buffer"
    /\ ev' = [ev EXCEPT !.pc = "remove", !.buf = objs[ev.obj].buf]
    /\ objs' = [objs EXCEPT ![ev.obj].buf = <<>>]
    /\ UNCHANGED <<ip, dl, reports, arrived, mods, sent, dropped, due, episode>>

RemoveOld ==
    /\ EvStep("remove", "add")
    /\ ip' = 0
    /\ UNCHANGED <<objs, dl, reports, arrived, mods, sent, dropped, due, episode>>

(***************************************************************************)
(* The object that takes over: the rules, buffer b and DDN flag d.         *)
(***************************************************************************)
AddSession(b, d) ==
    /\ ev.pc = "add"
    /\ ev' = [ev EXCEPT !.pc = "install", !.buf = <<>>]
    /\ objs' = Append(objs, [pdrs |-> TRUE, far |-> ev.old, buf |-> b, ddn |-> d])
    /\ ip' = Len(objs')
    /\ UNCHANGED <<dl, reports, arrived, mods, sent, dropped, due, episode>>

BugForgetBuffer == AddSession(<<>>, objs[ev.obj].ddn)

AddNew == AddSession(ev.buf, objs[ev.obj].ddn)

BugInstallAction ==
    /\ EvStep("install", IF ev.far.act = "forw" THEN "drain" ELSE "idle")
    /\ objs' = [objs EXCEPT ![ip].far.act = ev.far.act]
    /\ UNCHANGED <<ip, dl, reports, arrived, mods, sent, dropped, due, episode>>

(***************************************************************************)
(* The FAR of the modification replaces the one in the session's present   *)
(* object.                                                                 *)
(***************************************************************************)
InstallFar ==
    /\ EvStep("install", IF ev.far.act = "forw" THEN "drain" ELSE "idle")
    /\ objs' = [objs EXCEPT ![ip].far = ev.far]
    /\ episode' = IF ev.far.act = "forw" THEN episode
                  ELSE [episode EXCEPT !.waiting = FALSE,
                                       !.asked = objs[ip].far.act # "forw"]
    /\ UNCHANGED <<ip, dl, reports, arrived, mods, sent, dropped, due>>

(***************************************************************************)
(* flush_buffered_dl: drain_dl_buffer, then one packet at a time.          *)
(***************************************************************************)
BugKeepsFlag == [objs EXCEPT ![ip].buf = <<>>]

Drained == [objs EXCEPT ![ip].buf = <<>>, ![ip].ddn = FALSE]

DrainBuffer ==
    /\ ev.pc = "drain"
    /\ ev' = [ev EXCEPT !.pc = "send", !.buf = objs[ip].buf]
    /\ objs' = Drained
    /\ episode' = [waiting |-> FALSE, asked |-> FALSE, late |-> FALSE]
    /\ UNCHANGED <<ip, dl, reports, arrived, mods, sent, dropped, due>>

BugLastFirst ==
    /\ ev.pc = "send"
    /\ ev.buf # <<>>
    /\ Send(Last(ev.buf), ev.far.tun, 0, TRUE)
    /\ ev' = [ev EXCEPT !.buf = Front(@)]
    /\ UNCHANGED <<objs, ip, dl, reports, arrived, mods, due, episode>>

FlushSend ==
    /\ ev.pc = "send"
    /\ ev.buf # <<>>
    /\ Send(Head(ev.buf), ev.far.tun, 0, TRUE)
    /\ ev' = [ev EXCEPT !.buf = Tail(@)]
    /\ UNCHANGED <<objs, ip, dl, reports, arrived, mods, due, episode>>

FlushDone ==
    /\ ev.pc = "send"
    /\ ev.buf = <<>>
    /\ ev' = IdleEv
    /\ UNCHANGED <<objs, ip, dl, reports, arrived, mods, sent, dropped, due, episode>>

(***************************************************************************)
(* SessionModified with the deactivated FAR: BUFF|NOCP and no tunnel, so   *)
(* the object stays.                                                       *)
(***************************************************************************)
Deactivate ==
    /\ ev.pc = "idle"
    /\ ip # 0
    /\ ev' = [IdleEv EXCEPT !.pc = "install", !.far = [act |-> "nocp", tun |-> 0]]
    /\ UNCHANGED <<objs, ip, dl, reports, arrived, mods, sent, dropped, due, episode>>

(***************************************************************************)
(* SessionModified with DROBU: the buffered packets are discarded.         *)
(***************************************************************************)
DropBuffered ==
    /\ ev.pc = "idle"
    /\ ip # 0
    /\ objs' = Drained
    /\ dropped' = dropped \cup ToSet(objs[ip].buf)
    /\ due' = due \ ToSet(objs[ip].buf)
    /\ UNCHANGED <<ip, dl, ev, reports, arrived, mods, sent, episode>>

(***************************************************************************)
(* SessionDeleted: the object is no longer found.                          *)
(***************************************************************************)
Delete ==
    /\ ev.pc = "idle"
    /\ ip # 0
    /\ ip' = 0
    /\ UNCHANGED <<objs, dl, ev, reports, arrived, mods, sent, dropped, due, episode>>

-----------------------------------------------------------------------------
PacketLoop == Arrive \/ MatchPdr \/ ApplyFar \/ Forward \/ Buffer

Modification ==
    \/ Activate \/ TakePdrs \/ TakeFars \/ TakeBuffer \/ RemoveOld \/ AddNew
    \/ Deactivate \/ DropBuffered
    \/ InstallFar \/ DrainBuffer \/ FlushSend \/ FlushDone

EventTask == Establish \/ InstallRules \/ Modification \/ Delete

Next == PacketLoop \/ SendReport \/ EventTask

Spec == Init /\ [][Next]_vars

-----------------------------------------------------------------------------
(* Safety.                                                                 *)

(***************************************************************************)
(* The places in which a packet is.                                        *)
(***************************************************************************)
Positions(p, seq) == {k \in DOMAIN seq : seq[k] = p}
Transmissions(p) == {k \in DOMAIN sent : sent[k].pkt = p}
Places(p) ==
    {x \in {<<"loop", 0, 0>>} : dl.pkt = p}
    \cup (UNION {{<<"buffer", i, k>> : k \in Positions(p, objs[i].buf)} : i \in DOMAIN objs})
    \cup {<<"flush", 0, k>> : k \in Positions(p, ev.buf)}
    \cup {<<"sent", 0, k>> : k \in Transmissions(p)}
    \cup {x \in {<<"discarded", 0, 0>>} : p \in dropped}

(***************************************************************************)
(* A packet is always in one place: with the packet loop, in one buffer,   *)
(* on its way out of one, sent once, or discarded and counted.  The object *)
(* swap of update_session_from_pfcp and the flush neither duplicate a      *)
(* packet nor lose it without a trace.                                     *)
(***************************************************************************)
PacketConserved ==
    \A p \in 1 .. arrived : Cardinality(Places(p)) = 1

(***************************************************************************)
(* Buffered packets leave in the order they came (flush_buffered_dl after  *)
(* any number of object swaps), and so do the ones forwarded at once.      *)
(***************************************************************************)
FlushInOrder ==
    \A i, j \in DOMAIN sent :
        i < j /\ sent[i].flushed = sent[j].flushed => sent[i].pkt < sent[j].pkt

(***************************************************************************)
(* What was buffered when an activation began has been given to the socket *)
(* when the activation is over.                                            *)
(***************************************************************************)
FlushComplete ==
    ev.pc = "idle" =>
        \A p \in due : Cardinality(Transmissions(p)) = 1 \/ p \in dropped

(***************************************************************************)
(* A packet that waits after the FAR went from FORW to BUFF|NOCP has asked *)
(* the SMF to page (buffer_dl_packet: "the caller should emit a Downlink   *)
(* Data Report"), however often objects were swapped and buffers flushed   *)
(* before.  The exception: a packet for which an older FAR was read is     *)
(* pushed only after the flush, and the flag it leaves up is never cleared.*)
(***************************************************************************)
EpisodeReported ==
    episode.waiting => episode.asked \/ episode.late

(***************************************************************************)
(* A packet that comes after a path switch is complete never goes to an    *)
(* earlier gNB tunnel, though FAR and session are replaced separately.     *)
(***************************************************************************)
TunnelNotStale ==
    \A i \in DOMAIN sent : sent[i].tun >= sent[i].floor

=============================================================================
