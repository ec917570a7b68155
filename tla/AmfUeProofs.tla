---------------------------- MODULE AmfUeProofs ----------------------------
(***************************************************************************)
(* Proofs about AmfUe, for every timer configuration and every bound on    *)
(* the messages under way: a context that waits has a timer, a registered  *)
(* one is served, and the AM policy associations are no more than the      *)
(* Security Mode Commands.                                                 *)
(***************************************************************************)
EXTENDS AmfUe, FiniteSetTheorems, FunctionTheorems, TLAPS

Context == [live : BOOLEAN, ask : Asks, retries : Nat, vec : Nat, fails : 0..2, sec : BOOLEAN,
            pei : BOOLEAN, peiReq : BOOLEAN, registered : BOOLEAN, icsResp : BOOLEAN]

\* A message of one of the types is under way.
Has(q, T) == \E i \in 1..Len(q) : q[i].t \in T

Completes == {"smcComplete", "smcCompletePei"}

CtxOK(c) ==
  /\ c \in Context
  /\ c.ask # "none" => c.retries <= MaxRetx(c.ask)
  /\ c.ask = "pei" => c.peiReq

\* Whatever leads on from a Security Mode Command finds NAS security.
Secured(c, u, d) ==
  c.peiReq \/ c.ask = "smc" \/ Has(d, {"smc"}) \/ Has(u, Completes) => c.sec

HasService(c, h, k, b) ==
  /\ c.sec /\ h.policy /\ Slices \subseteq h.slices \cup k.open
  /\ h.uecm \/ k.crossed \/ b

\* Whatever leads to a registered context, or is one, finds a served one.
Served(c, u, d, h, k, b) ==
  c.registered \/ c.ask = "ics" \/ Has(d, {"ics"}) \/ Has(u, {"regComplete"}) =>
    HasService(c, h, k, b)

Waiting(c, k, b) == c.ask = "none" => c.registered \/ c.icsResp \/ k.dropped \/ b

\* Before the Initial UE Message there is nothing.
Fresh == ue = "off" => ctx = Gone /\ up = <<>> /\ down = <<>> /\ ~broken

UpOK(u)   == u \in Seq([t : UpTypes, vec : Nat]) /\ Len(u) <= MaxUp
DownOK(d) == d \in Seq([t : DownTypes, vec : Nat]) /\ Len(d) <= MaxDown

BookOK ==
  /\ broken \in BOOLEAN /\ asks \in 0..MaxAsks
  /\ ue \in {"off", "connected", "registered", "idle"}
  /\ held \in [uecm : BOOLEAN, sdm : BOOLEAN, policy : BOOLEAN,
               slices : SUBSET Slices, sm : BOOLEAN]
  /\ hist \in [credit : Int, dropped : BOOLEAN, dereg : BOOLEAN, crossed : BOOLEAN,
                open : SUBSET Slices]

\* The inductive invariant.
Inv ==
  /\ CtxOK(ctx) /\ UpOK(up) /\ DownOK(down) /\ BookOK /\ Fresh
  /\ ctx.live => /\ Secured(ctx, up, down)
                 /\ Served(ctx, up, down, held, hist, broken)
                 /\ Waiting(ctx, hist, broken)

-----------------------------------------------------------------------------
(* Messages.                                                               *)

LEMMA HasEnqueue ==
  ASSUME NEW M, NEW q \in Seq(M), NEW m \in M, NEW max, NEW T
  PROVE  /\ Enqueue(q, <<m>>, max) \in Seq(M)
         /\ Has(Enqueue(q, <<m>>, max), T) => Has(q, T) \/ m.t \in T
BY DEF Enqueue, Has

LEMMA DownEnqueue ==
  ASSUME NEW d, DownOK(d), NEW t \in DownTypes, NEW v \in Nat,
         NEW e, e = Enqueue(d, <<Msg(t, v)>>, MaxDown)
  PROVE  DownOK(e) /\ \A T : Has(e, T) => Has(d, T) \/ t \in T
<1>1. PICK m \in [t : DownTypes, vec : Nat] : m = Msg(t, v) /\ m.t = t
  BY DEF Msg
<1>2. e = Enqueue(d, <<m>>, MaxDown) /\ d \in Seq([t : DownTypes, vec : Nat])
  BY <1>1 DEF DownOK
<1>3. e \in Seq([t : DownTypes, vec : Nat]) /\ \A T : Has(e, T) => Has(d, T) \/ t \in T
  BY <1>1, <1>2, HasEnqueue
<1>4. Len(e) <= MaxDown
  BY <1>2 DEF Enqueue, DownOK
<1> QED
  BY <1>3, <1>4 DEF DownOK

LEMMA HasTail ==
  ASSUME NEW M, NEW q \in Seq(M), q # <<>>
  PROVE  /\ Tail(q) \in Seq(M) /\ Len(Tail(q)) <= Len(q) /\ Head(q) \in M
         /\ \A T : Has(Tail(q), T) => Has(q, T)
         /\ \A T : Head(q).t \in T => Has(q, T)
<1>1. Len(q) \in Nat /\ Len(q) >= 1 /\ Head(q) = q[1] /\ Len(Tail(q)) = Len(q) - 1
  OBVIOUS
<1>2. \A i \in 1..Len(q) - 1 : Tail(q)[i] = q[i + 1]
  OBVIOUS
<1>3. ASSUME NEW T, Has(Tail(q), T) PROVE Has(q, T)
  <2>1. PICK i \in 1..Len(q) - 1 : Tail(q)[i].t \in T
    BY <1>1, <1>3 DEF Has
  <2>2. i + 1 \in 1..Len(q) /\ q[i + 1].t \in T
    BY <1>1, <1>2, <2>1
  <2> QED
    BY <2>2 DEF Has
<1>4. ASSUME NEW T, Head(q).t \in T PROVE Has(q, T)
  BY <1>1, <1>4 DEF Has
<1> QED
  BY <1>1, <1>3, <1>4

LEMMA EmptyHasNone == \A T : ~Has(<<>>, T)
BY DEF Has

-----------------------------------------------------------------------------
(* How a handler ends.                                                     *)

\* The context c that a handler has come to, before it is stored.
Mid(c) ==
  /\ c.live /\ CtxOK(c)
  /\ Secured(c, up', down)
  /\ Served(c, up', down, held', hist', broken)

Frame == UpOK(up') /\ BookOK' /\ ue' # "off" /\ broken' = broken

LEMMA KeepInv ==
  ASSUME Inv, NEW c, Frame, Mid(c), Keep(c), Waiting(c, hist', broken)
  PROVE  Inv'
<1>1. ctx' = c /\ down' = down
  BY DEF Keep
<1>2. Fresh'
  BY DEF Frame, Fresh
<1> QED
  BY <1>1, <1>2 DEF Inv, Frame, Mid

LEMMA AskInv ==
  ASSUME Inv, NEW c, Frame, Mid(c), NEW t \in Asks \ {"none"}, AskUe(c, t),
         t = "pei" => c.peiReq, t = "smc" => c.sec,
         t = "ics" => HasService(c, held', hist', broken)
  PROVE  Inv'
<1>1. CASE broken
  <2>1. Waiting(c, hist', broken) /\ Keep(c)
    BY <1>1 DEF Waiting, AskUe
  <2> QED
    BY <2>1, KeepInv
<1>2. CASE ~broken
  <2>1. PICK d : d = Enqueue(down, <<Msg(t, c.vec)>>, MaxDown) /\ down' = d
    BY <1>2 DEF AskUe, Send
  <2>2. c.vec \in Nat /\ t \in DownTypes
    BY DEF Mid, CtxOK, Context, DownTypes
  <2>3. DownOK(d) /\ \A T : Has(d, T) => Has(down, T) \/ t \in T
    BY <2>1, <2>2, DownEnqueue DEF Inv
  <2>4. PICK x : x = [c EXCEPT !.ask = t, !.retries = 0] /\ ctx' = x
    BY <1>2 DEF AskUe
  <2>5. /\ x \in Context /\ x.ask = t /\ x.retries = 0 /\ x.sec = c.sec /\ x.peiReq = c.peiReq
        /\ x.registered = c.registered
    BY <2>4 DEF Mid, CtxOK, Context
  <2>6. MaxRetx(t) \in Nat
    BY AmfUeAssumption DEF MaxRetx, Asks, T3560Asks, T3570Asks
  <2>7. CtxOK(x)
    BY <2>5, <2>6 DEF CtxOK
  <2>8. Secured(x, up', d)
    BY <2>3, <2>5 DEF Mid, Secured
  <2>9. Served(x, up', d, held', hist', broken)
    <3>1. x.registered \/ x.ask = "ics" \/ Has(d, {"ics"}) \/ Has(up', {"regComplete"}) =>
            HasService(c, held', hist', broken)
      BY <2>3, <2>5 DEF Mid, Served
    <3> QED
      BY <2>5, <3>1 DEF Served, HasService
  <2>10. Waiting(x, hist', broken) /\ Fresh'
    BY <2>5 DEF Waiting, Fresh, Frame
  <2> QED
    BY <2>1, <2>3, <2>4, <2>7, <2>8, <2>9, <2>10 DEF Inv, Frame
<1> QED
  BY <1>1, <1>2 DEF Inv, BookOK

LEMMA GoneOK == CtxOK(Gone) /\ ~Gone.live
BY DEF Gone, CtxOK, Context, Asks

LEMMA ReleaseInv ==
  ASSUME Inv, Frame, release_ue
  PROVE  Inv'
<1>1. ctx' = Gone
  BY DEF release_ue
<1>2. DownOK(down')
  <2>1. CASE broken
    BY <2>1 DEF release_ue, Inv
  <2>2. CASE ~broken
    <3>1. PICK d : d = Enqueue(down, <<Msg("release", 0)>>, MaxDown) /\ down' = d
      BY <2>2 DEF release_ue, Send
    <3> QED
      BY <3>1, DownEnqueue DEF Inv, DownTypes
  <2> QED
    BY <2>1, <2>2
<1>3. Fresh'
  BY DEF Frame, Fresh
<1> QED
  BY <1>1, <1>2, <1>3, GoneOK DEF Inv, Frame

LEMMA RejectInv ==
  ASSUME Inv, NEW c, Frame, Mid(c), RejectAndRelease(c)
  PROVE  Inv'
<1>1. CASE broken
  <2>1. Waiting(c, hist', broken) /\ Keep(c)
    BY <1>1 DEF Waiting, RejectAndRelease
  <2> QED
    BY <2>1, KeepInv
<1>2. CASE ~broken
  BY <1>2, ReleaseInv DEF RejectAndRelease
<1> QED
  BY <1>1, <1>2

LEMMA AuthInv ==
  ASSUME Inv, NEW c, Frame, Mid(c), start_authentication(c)
  PROVE  Inv'
<1>1. CASE release_ue
  BY <1>1, ReleaseInv
<1>2. CASE AskUe([c EXCEPT !.vec = @ + 1], "auth")
  <2>1. PICK x : x = [c EXCEPT !.vec = @ + 1] /\ AskUe(x, "auth")
    BY <1>2
  <2>2. c \in Context /\ c.vec + 1 \in Nat
    BY DEF Mid, CtxOK, Context
  <2>3. /\ x \in Context /\ x.live = c.live /\ x.ask = c.ask /\ x.retries = c.retries
        /\ x.sec = c.sec /\ x.peiReq = c.peiReq /\ x.registered = c.registered
    BY <2>1, <2>2 DEF Context
  <2>4. Mid(x)
    BY <2>3 DEF Mid, CtxOK, Secured, Served, HasService
  <2>5. "auth" \in Asks \ {"none"}
    BY DEF Asks, T3560Asks
  <2> QED
    BY <2>1, <2>4, <2>5, AskInv
<1> QED
  BY <1>1, <1>2 DEF start_authentication

LEMMA AcceptInv ==
  ASSUME Inv, NEW c, Frame, Mid(c), HasService(c, held', hist', broken),
         send_registration_accept(c)
  PROVE  Inv'
<1>1. CASE c.registered /\ c.sec
  BY <1>1, KeepInv DEF send_registration_accept, Waiting
<1>2. CASE ~(c.registered /\ c.sec)
  <2>1. AskUe(c, "ics") /\ "ics" \in Asks \ {"none"}
    BY <1>2 DEF send_registration_accept, Asks
  <2> QED
    BY <2>1, AskInv
<1> QED
  BY <1>1, <1>2

\* Every answer of UDM, PCF and NSACF on the way.
LEMMA CompleteInv ==
  ASSUME Inv, NEW c, c.live, CtxOK(c), c.sec, Served(c, up', down, held, hist, broken),
         UpOK(up'), ue # "off", UNCHANGED <<broken, ue, asks>>, complete_registration(c)
  PROVE  Inv'
<1>1. PICK done \in 0..6, counted \in SUBSET Slices, open \in SUBSET Slices :
         /\ done = 6 => counted \cup open = Slices
         /\ held' = [held EXCEPT !.uecm = @ \/ done >= 1, !.sdm = @ \/ done >= 3,
                                 !.policy = @ \/ done >= 4, !.slices = @ \cup counted]
         /\ hist' = [hist EXCEPT !.credit = IF done >= 4 THEN @ - 1 ELSE @,
                                 !.open = @ \cup open]
         /\ IF done < 6 THEN RejectAndRelease(c) ELSE send_registration_accept(c)
  BY DEF complete_registration
<1>2. /\ held \in [uecm : BOOLEAN, sdm : BOOLEAN, policy : BOOLEAN,
                   slices : SUBSET Slices, sm : BOOLEAN]
      /\ hist \in [credit : Int, dropped : BOOLEAN, dereg : BOOLEAN, crossed : BOOLEAN,
                open : SUBSET Slices]
  BY DEF Inv, BookOK
<1>3. /\ held' \in [uecm : BOOLEAN, sdm : BOOLEAN, policy : BOOLEAN,
                    slices : SUBSET Slices, sm : BOOLEAN]
      /\ held.uecm \/ done >= 1 => held'.uecm
      /\ held.policy \/ done >= 4 => held'.policy
      /\ held'.slices = held.slices \cup counted
  BY <1>1, <1>2
<1>4. /\ hist' \in [credit : Int, dropped : BOOLEAN, dereg : BOOLEAN, crossed : BOOLEAN,
                open : SUBSET Slices]
      /\ hist'.crossed = hist.crossed /\ hist'.open = hist.open \cup open
  <2>1. PICK k \in Int : k = IF done >= 4 THEN hist.credit - 1 ELSE hist.credit
    BY <1>2
  <2>2. PICK o \in SUBSET Slices : o = hist.open \cup open
    BY <1>2
  <2>3. hist' = [hist EXCEPT !.credit = k, !.open = o]
    BY <1>1, <2>1, <2>2
  <2> QED
    BY <1>2, <2>2, <2>3
<1>5. Frame
  BY <1>3, <1>4 DEF Frame, Inv, BookOK
<1>6. Mid(c)
  <2>1. HasService(c, held, hist, broken) => HasService(c, held', hist', broken)
    BY <1>3, <1>4 DEF HasService
  <2>2. Served(c, up', down, held', hist', broken)
    BY <2>1 DEF Served
  <2> QED
    BY <2>2 DEF Mid, Secured
<1>7. CASE done < 6
  BY <1>1, <1>5, <1>6, <1>7, RejectInv
<1>8. CASE done = 6
  <2>1. HasService(c, held', hist', broken)
    BY <1>1, <1>3, <1>8 DEF HasService
  <2>2. send_registration_accept(c)
    BY <1>1, <1>8
  <2> QED
    BY <1>5, <1>6, <2>1, <2>2, AcceptInv
<1> QED
  BY <1>7, <1>8

\* hist with a context left to itself, or not.
Noted == hist' \in {hist, [hist EXCEPT !.dropped = TRUE]}

LEMMA NotedOK ==
  ASSUME Inv, Noted
  PROVE  /\ hist' \in [credit : Int, dropped : BOOLEAN, dereg : BOOLEAN, crossed : BOOLEAN,
                open : SUBSET Slices]
         /\ hist'.crossed = hist.crossed /\ hist'.open = hist.open /\ (hist.dropped => hist'.dropped)
         /\ hist'.credit = hist.credit
BY DEF Inv, BookOK, Noted

LEMMA RegistrationRequestInv ==
  ASSUME Inv, NEW c, NEW kind, c.live, CtxOK(c), Secured(c, up', down),
         Served(c, up', down, held, hist, broken),
         kind = "periodic" => Waiting(c, hist, broken),
         UpOK(up'), ue' \in {"connected", "registered", "idle"},
         UNCHANGED <<broken, asks, held>>, RegistrationRequest(c, kind)
  PROVE  Inv'
<1>1. Noted
  BY DEF RegistrationRequest, Noted
<1>2. /\ hist' \in [credit : Int, dropped : BOOLEAN, dereg : BOOLEAN, crossed : BOOLEAN,
                open : SUBSET Slices]
      /\ hist'.crossed = hist.crossed /\ hist'.open = hist.open
  BY <1>1, NotedOK
<1>3. Frame
  BY <1>2 DEF Frame, Inv, BookOK
<1>4. Mid(c)
  BY <1>2 DEF Mid, Served, HasService
<1>5. CASE kind = "suci" /\ start_authentication(c)
  BY <1>3, <1>4, <1>5, AuthInv
<1>6. CASE kind \in {"guti", "mobility"} /\ AskUe(c, "identity")
  <2>1. "identity" \in Asks \ {"none"}
    BY DEF Asks, T3570Asks
  <2> QED
    BY <1>3, <1>4, <1>6, <2>1, AskInv
<1>7. CASE kind = "nid" /\ RejectAndRelease(c)
  BY <1>3, <1>4, <1>7, RejectInv
<1>8. CASE Keep(c) /\ hist' = [hist EXCEPT !.dropped = TRUE]
  <2>1. hist'.dropped
    BY <1>8 DEF Inv, BookOK
  <2>2. Waiting(c, hist', broken)
    BY <2>1 DEF Waiting
  <2> QED
    BY <1>3, <1>4, <1>8, <2>2, KeepInv
<1>9. CASE /\ kind = "periodic" /\ UNCHANGED hist
           /\ IF c.registered /\ c.sec THEN send_registration_accept(c) ELSE Keep(c)
  <2>1. CASE c.registered /\ c.sec
    BY <1>3, <1>4, <1>9, <2>1, KeepInv DEF send_registration_accept, Waiting
  <2>2. CASE ~(c.registered /\ c.sec)
    BY <1>3, <1>4, <1>9, <2>2, KeepInv
  <2> QED
    BY <2>1, <2>2
<1> QED
  BY <1>5, <1>6, <1>7, <1>8, <1>9 DEF RegistrationRequest

-----------------------------------------------------------------------------
(* Uplink messages.                                                        *)

LEMMA TakeOK ==
  ASSUME Inv, NEW ts, Take(ts)
  PROVE  /\ UpOK(up') /\ Head(up).t \in ts /\ Head(up) \in [t : UpTypes, vec : Nat]
         /\ ue # "off" /\ up # <<>> /\ up' = Tail(up)
         /\ \A T : Has(up', T) => Has(up, T)
         /\ \A T : Head(up).t \in T => Has(up, T)
<1>1. PICK u : u = up /\ u # <<>> /\ u \in Seq([t : UpTypes, vec : Nat]) /\ up' = Tail(u)
               /\ Len(u) <= MaxUp /\ Head(u).t \in ts
  BY DEF Take, Inv, UpOK
<1>2. /\ Tail(u) \in Seq([t : UpTypes, vec : Nat]) /\ Len(Tail(u)) <= Len(u)
      /\ Head(u) \in [t : UpTypes, vec : Nat]
      /\ \A T : Has(Tail(u), T) => Has(u, T)
      /\ \A T : Head(u).t \in T => Has(u, T)
  BY <1>1, HasTail
<1>3. UpOK(up')
  BY <1>1, <1>2, AmfUeAssumption DEF UpOK
<1> QED
  BY <1>1, <1>2, <1>3 DEF Inv, Fresh

LEMMA StopOK ==
  ASSUME NEW c, CtxOK(c), NEW as, NEW x, x = Stop(c, as)
  PROVE  /\ CtxOK(x) /\ x.ask = IF c.ask \in as THEN "none" ELSE c.ask
         /\ x.live = c.live /\ x.vec = c.vec /\ x.fails = c.fails /\ x.sec = c.sec
         /\ x.pei = c.pei /\ x.peiReq = c.peiReq /\ x.registered = c.registered
         /\ x.icsResp = c.icsResp
<1>1. c \in Context /\ "none" \in Asks
  BY DEF CtxOK, Asks
<1>2. /\ x \in Context /\ x.ask = IF c.ask \in as THEN "none" ELSE c.ask
      /\ c.ask \in as \/ x.retries = c.retries
      /\ x.live = c.live /\ x.vec = c.vec /\ x.fails = c.fails /\ x.sec = c.sec
      /\ x.pei = c.pei /\ x.peiReq = c.peiReq /\ x.registered = c.registered
      /\ x.icsResp = c.icsResp
  BY <1>1 DEF Context, Stop
<1> QED
  BY <1>2 DEF CtxOK

\* The context after the timer was stopped: it asks for nothing new.
LEMMA MidFrom ==
  ASSUME Inv, ctx.live, NEW x, x.live, CtxOK(x), ctx.sec => x.sec, x.peiReq => ctx.peiReq,
         x.ask \in {ctx.ask, "none"}, x.registered => ctx.registered,
         \A T : Has(up', T) => Has(up, T), held' = held, hist'.crossed = hist.crossed /\ hist'.open = hist.open
  PROVE  Mid(x)
<1>1. Secured(x, up', down)
  BY DEF Inv, Secured
<1>2. Served(x, up', down, held', hist', broken)
  BY DEF Inv, Served, HasService
<1> QED
  BY <1>1, <1>2 DEF Mid

LEMMA UplinkRegistrationRequestInv ==
  ASSUME Inv, UplinkRegistrationRequest
  PROVE  Inv'
<1>1. PICK c, kind : c = ctx /\ kind = Head(up).t /\ RegistrationRequest(c, kind)
  BY DEF UplinkRegistrationRequest
<1>2. UpOK(up') /\ ue # "off" /\ \A T : Has(up', T) => Has(up, T)
  BY TakeOK DEF UplinkRegistrationRequest
<1>3. c.live /\ CtxOK(c) /\ Waiting(c, hist, broken)
  BY <1>1 DEF UplinkRegistrationRequest, Inv
<1>4. Secured(c, up', down) /\ Served(c, up', down, held, hist, broken)
  BY <1>1, <1>2, <1>3 DEF Inv, Secured, Served
<1>5. ue' \in {"connected", "registered", "idle"} /\ UNCHANGED <<broken, asks, held>>
  BY <1>2 DEF UplinkRegistrationRequest, Inv, BookOK
<1> QED
  BY <1>1, <1>2, <1>3, <1>4, <1>5, RegistrationRequestInv

\* A handler of the uplink that touches neither held nor hist but for the note.
LEMMA HandlerFrame ==
  ASSUME Inv, NEW ts, Take(ts), Noted, UNCHANGED <<broken, ue, asks, held>>
  PROVE  Frame
BY TakeOK, NotedOK DEF Frame, Inv, BookOK

LEMMA IdentityResponseInv ==
  ASSUME Inv, IdentityResponse
  PROVE  Inv'
<1>1. /\ ctx.live /\ Take({"suci", "badSuci", "imei"})
      /\ UNCHANGED <<broken, ue, asks>>
  BY DEF IdentityResponse
<1>2. PICK c : c = Stop(ctx, T3570Asks)
  OBVIOUS
<1>3. /\ CtxOK(c) /\ c.live /\ c.ask = IF ctx.ask \in T3570Asks THEN "none" ELSE ctx.ask
      /\ c.sec = ctx.sec /\ c.peiReq = ctx.peiReq /\ c.registered = ctx.registered
      /\ c.icsResp = ctx.icsResp
  BY <1>1, <1>2, StopOK DEF Inv
<1>4. UpOK(up') /\ ue # "off" /\ \A T : Has(up', T) => Has(up, T)
  BY <1>1, TakeOK
<1>5. Noted /\ held' = held => Frame /\ Mid(c) /\ hist'.crossed = hist.crossed /\ hist'.open = hist.open
  BY <1>1, <1>3, <1>4, HandlerFrame, NotedOK, MidFrom
<1>6. CASE start_authentication(c) /\ UNCHANGED <<held, hist>>
  BY <1>5, <1>6, AuthInv DEF Noted
<1>7. CASE Keep(c) /\ hist' = [hist EXCEPT !.dropped = TRUE] /\ UNCHANGED held
  <2>1. hist'.dropped
    BY <1>7 DEF Inv, BookOK
  <2>2. Waiting(c, hist', broken)
    BY <2>1 DEF Waiting
  <2> QED
    BY <1>5, <1>7, <2>2, KeepInv DEF Noted
<1>8. CASE c.peiReq /\ complete_registration([c EXCEPT !.pei = TRUE, !.peiReq = FALSE])
  <2>1. PICK x : x = [c EXCEPT !.pei = TRUE, !.peiReq = FALSE] /\ complete_registration(x)
    BY <1>8
  <2>2. /\ x \in Context /\ x.live = c.live /\ x.ask = c.ask /\ x.retries = c.retries
        /\ x.sec = c.sec /\ x.registered = c.registered
    BY <1>3, <2>1 DEF CtxOK, Context
  <2>3. c.ask # "pei"
    BY <1>3 DEF T3570Asks
  <2>4. CtxOK(x) /\ x.live
    BY <1>3, <2>2, <2>3 DEF CtxOK
  <2>5. x.sec
    BY <1>1, <1>3, <1>8, <2>2 DEF Inv, Secured
  <2>6. Served(x, up', down, held, hist, broken)
    BY <1>1, <1>3, <1>4, <2>2 DEF Inv, Served, HasService
  <2> QED
    BY <1>1, <1>4, <2>1, <2>4, <2>5, <2>6, CompleteInv
<1>9. CASE /\ ~c.peiReq /\ Keep([c EXCEPT !.pei = TRUE]) /\ UNCHANGED held
           /\ hist' = [hist EXCEPT !.dropped = @ \/ ctx.ask = "identity"]
  <2>1. PICK x : x = [c EXCEPT !.pei = TRUE] /\ Keep(x)
    BY <1>9
  <2>2. /\ x \in Context /\ x.live = c.live /\ x.ask = c.ask /\ x.retries = c.retries
        /\ x.sec = c.sec /\ x.registered = c.registered /\ x.peiReq = c.peiReq
        /\ x.icsResp = c.icsResp
    BY <1>3, <2>1 DEF CtxOK, Context
  <2>3. CtxOK(x) /\ x.live
    BY <1>3, <2>2 DEF CtxOK
  <2>4. Noted
    BY <1>9 DEF Noted, Inv, BookOK
  <2>5. (hist.dropped \/ ctx.ask = "identity") => hist'.dropped
    BY <1>9 DEF Inv, BookOK
  <2>6. Waiting(x, hist', broken)
    <3>1. CASE ctx.ask = "identity"
      BY <2>5, <3>1 DEF Waiting
    <3>2. CASE ctx.ask # "identity"
      <4>1. ctx.ask # "pei"
        BY <1>3, <1>9 DEF Inv, CtxOK
      <4>2. c.ask = ctx.ask
        BY <1>3, <3>2, <4>1 DEF T3570Asks
      <4> QED
        BY <1>1, <1>3, <2>2, <2>5, <4>2 DEF Waiting, Inv
    <3> QED
      BY <3>1, <3>2
  <2>7. Frame /\ hist'.crossed = hist.crossed /\ hist'.open = hist.open
    BY <1>5, <1>9, <2>4
  <2>8. Mid(x)
    BY <1>1, <1>3, <1>4, <1>9, <2>2, <2>3, <2>7, MidFrom
  <2> QED
    BY <2>1, <2>6, <2>7, <2>8, KeepInv
<1> QED
  BY <1>2, <1>6, <1>7, <1>8, <1>9 DEF IdentityResponse

LEMMA AuthenticationResponseInv ==
  ASSUME Inv, AuthenticationResponse
  PROVE  Inv'
<1>1. /\ ctx.live /\ Take({"authRes"}) /\ UNCHANGED <<broken, ue, asks, held>>
  BY DEF AuthenticationResponse
<1>2. PICK c : c = Stop(ctx, T3560Asks)
  OBVIOUS
<1>3. /\ CtxOK(c) /\ c.live /\ c.ask = IF ctx.ask \in T3560Asks THEN "none" ELSE ctx.ask
      /\ c.sec = ctx.sec /\ c.peiReq = ctx.peiReq /\ c.registered = ctx.registered
  BY <1>1, <1>2, StopOK DEF Inv
<1>4. UpOK(up') /\ ue # "off" /\ \A T : Has(up', T) => Has(up, T)
  BY <1>1, TakeOK
<1>5. CASE AskUe([c EXCEPT !.sec = TRUE], "smc") /\ hist' = [hist EXCEPT !.credit = @ + 1]
  <2>1. PICK x : x = [c EXCEPT !.sec = TRUE] /\ AskUe(x, "smc")
    BY <1>5
  <2>2. /\ x \in Context /\ x.live = c.live /\ x.ask = c.ask /\ x.retries = c.retries
        /\ x.sec /\ x.registered = c.registered /\ x.peiReq = c.peiReq
    BY <1>3, <2>1 DEF CtxOK, Context
  <2>3. CtxOK(x) /\ x.live
    BY <1>3, <2>2 DEF CtxOK
  <2>4. /\ hist' \in [credit : Int, dropped : BOOLEAN, dereg : BOOLEAN, crossed : BOOLEAN,
                open : SUBSET Slices]
        /\ hist'.crossed = hist.crossed /\ hist'.open = hist.open
    BY <1>5 DEF Inv, BookOK
  <2>5. Frame
    BY <1>1, <1>4, <2>4 DEF Frame, Inv, BookOK
  <2>6. Mid(x)
    BY <1>1, <1>3, <1>4, <2>2, <2>3, <2>4, MidFrom
  <2>7. "smc" \in Asks \ {"none"}
    BY DEF Asks, T3560Asks
  <2> QED
    BY <2>1, <2>2, <2>5, <2>6, <2>7, AskInv
<1>6. CASE RejectAndRelease(c) /\ UNCHANGED hist
  <2>1. Frame /\ hist'.crossed = hist.crossed /\ hist'.open = hist.open
    BY <1>1, <1>6, HandlerFrame DEF Noted
  <2>2. Mid(c)
    BY <1>1, <1>3, <1>4, <2>1, MidFrom
  <2> QED
    BY <1>6, <2>1, <2>2, RejectInv
<1> QED
  BY <1>2, <1>5, <1>6 DEF AuthenticationResponse

LEMMA AuthenticationFailureInv ==
  ASSUME Inv, AuthenticationFailure
  PROVE  Inv'
<1>1. /\ ctx.live /\ Take({"authRetry", "authOther"}) /\ UNCHANGED <<broken, ue, asks, held, hist>>
  BY DEF AuthenticationFailure
<1>2. PICK y : y = [ctx EXCEPT !.fails = IF @ < 2 THEN @ + 1 ELSE @]
  OBVIOUS
<1>3. /\ y \in Context /\ y.live /\ y.ask = ctx.ask /\ y.retries = ctx.retries
      /\ y.sec = ctx.sec /\ y.registered = ctx.registered /\ y.peiReq = ctx.peiReq
  <2>1. ctx \in Context /\ (IF ctx.fails < 2 THEN ctx.fails + 1 ELSE ctx.fails) \in 0..2
    BY DEF Inv, CtxOK, Context
  <2> QED
    BY <1>1, <1>2, <2>1 DEF Context
<1>4. CtxOK(y)
  BY <1>3 DEF CtxOK, Inv
<1>5. PICK c : c = Stop(y, T3560Asks)
  OBVIOUS
<1>6. /\ CtxOK(c) /\ c.live /\ c.ask = IF ctx.ask \in T3560Asks THEN "none" ELSE ctx.ask
      /\ c.sec = ctx.sec /\ c.peiReq = ctx.peiReq /\ c.registered = ctx.registered
  BY <1>3, <1>4, <1>5, StopOK
<1>7. UpOK(up') /\ ue # "off" /\ \A T : Has(up', T) => Has(up, T)
  BY <1>1, TakeOK
<1>8. Frame /\ hist'.crossed = hist.crossed /\ hist'.open = hist.open
  BY <1>1, HandlerFrame DEF Noted
<1>9. Mid(c)
  BY <1>1, <1>6, <1>7, MidFrom
<1>10. RejectAndRelease(c) \/ start_authentication(c)
  BY <1>2, <1>5 DEF AuthenticationFailure
<1> QED
  BY <1>8, <1>9, <1>10, RejectInv, AuthInv

LEMMA SecurityModeCompleteInv ==
  ASSUME Inv, SecurityModeComplete
  PROVE  Inv'
<1>1. /\ ctx.live /\ Take(Completes) /\ UNCHANGED <<broken, ue, asks>>
  BY DEF SecurityModeComplete, Completes
<1>2. PICK y : y = Stop(ctx, T3560Asks)
  OBVIOUS
<1>3. /\ CtxOK(y) /\ y.live /\ y.ask = IF ctx.ask \in T3560Asks THEN "none" ELSE ctx.ask
      /\ y.sec = ctx.sec /\ y.peiReq = ctx.peiReq /\ y.registered = ctx.registered
  BY <1>1, <1>2, StopOK DEF Inv
<1>4. /\ UpOK(up') /\ ue # "off" /\ \A T : Has(up', T) => Has(up, T)
      /\ Has(up, Completes)
  BY <1>1, TakeOK
<1>5. PICK c : c = [y EXCEPT !.pei = @ \/ Head(up).t = "smcCompletePei"]
  OBVIOUS
<1>6. /\ c \in Context /\ c.live = y.live /\ c.ask = y.ask /\ c.retries = y.retries
      /\ c.sec = y.sec /\ c.registered = y.registered /\ c.peiReq = y.peiReq
  BY <1>3, <1>5 DEF CtxOK, Context
<1>7. CtxOK(c) /\ c.live
  BY <1>3, <1>6 DEF CtxOK
<1>8. c.sec
  BY <1>1, <1>3, <1>4, <1>6 DEF Inv, Secured
<1>9. Served(c, up', down, held, hist, broken)
  BY <1>1, <1>3, <1>4, <1>6 DEF Inv, Served, HasService
<1>10. CASE complete_registration(c)
  BY <1>1, <1>4, <1>7, <1>8, <1>9, <1>10, CompleteInv
<1>11. CASE AskUe([c EXCEPT !.peiReq = TRUE], "pei") /\ UNCHANGED <<held, hist>>
  <2>1. PICK x : x = [c EXCEPT !.peiReq = TRUE] /\ AskUe(x, "pei")
    BY <1>11
  <2>2. /\ x \in Context /\ x.live = c.live /\ x.ask = c.ask /\ x.retries = c.retries
        /\ x.sec = c.sec /\ x.registered = c.registered /\ x.peiReq
    BY <1>6, <2>1 DEF Context
  <2>3. CtxOK(x) /\ x.live
    BY <1>7, <2>2 DEF CtxOK
  <2>4. Frame
    BY <1>1, <1>11, HandlerFrame DEF Noted
  <2>5. Mid(x)
    BY <1>8, <1>9, <1>11, <2>2, <2>3 DEF Mid, Secured, Served, HasService
  <2>6. "pei" \in Asks \ {"none"}
    BY DEF Asks, T3570Asks
  <2> QED
    BY <2>1, <2>2, <2>4, <2>5, <2>6, AskInv
<1> QED
  BY <1>2, <1>5, <1>10, <1>11 DEF SecurityModeComplete

LEMMA LiveKnown ==
  ASSUME Inv, ctx.live
  PROVE  ue # "off"
BY GoneOK DEF Inv, Fresh

\* The context as it is.
LEMMA MidSame ==
  ASSUME Inv, ctx.live, \A T : Has(up', T) => Has(up, T), held' = held, hist'.crossed = hist.crossed /\ hist'.open = hist.open,
         NEW c, c = ctx
  PROVE  Mid(c)
BY MidFrom DEF Inv

LEMMA SecurityModeFailureInv ==
  ASSUME Inv, SecurityModeFailure
  PROVE  Inv'
<1>1. /\ ctx.live /\ Take({"smcReject", "smcMismatch"}) /\ UNCHANGED <<broken, ue, asks, held, hist>>
  BY DEF SecurityModeFailure
<1>2. PICK c : c = ctx
  OBVIOUS
<1>3. Frame /\ Mid(c)
  BY <1>1, <1>2, HandlerFrame, TakeOK, MidSame DEF Noted
<1>4. release_ue \/ RejectAndRelease(c)
  BY <1>2 DEF SecurityModeFailure
<1> QED
  BY <1>3, <1>4, ReleaseInv, RejectInv

LEMMA RegistrationCompleteInv ==
  ASSUME Inv, RegistrationComplete
  PROVE  Inv'
<1>1. /\ ctx.live /\ Take({"regComplete"}) /\ UNCHANGED <<broken, ue, asks, held, hist>>
  BY DEF RegistrationComplete
<1>2. PICK c : c = Stop(ctx, {"ics"})
  OBVIOUS
<1>3. /\ CtxOK(c) /\ c.live /\ c.ask \in {ctx.ask, "none"}
      /\ c.sec = ctx.sec /\ c.peiReq = ctx.peiReq
  BY <1>1, <1>2, StopOK DEF Inv
<1>4. Frame /\ Has(up, {"regComplete"}) /\ \A T : Has(up', T) => Has(up, T)
  BY <1>1, HandlerFrame, TakeOK DEF Noted
<1>5. PICK x : x = [c EXCEPT !.registered = TRUE] /\ Keep(x)
  BY <1>2 DEF RegistrationComplete
<1>6. /\ x \in Context /\ x.live = c.live /\ x.ask = c.ask /\ x.retries = c.retries
      /\ x.sec = c.sec /\ x.registered /\ x.peiReq = c.peiReq
  BY <1>3, <1>5 DEF CtxOK, Context
<1>7. CtxOK(x) /\ x.live
  BY <1>3, <1>6 DEF CtxOK
<1>8. Secured(x, up', down)
  BY <1>1, <1>3, <1>4, <1>6 DEF Inv, Secured
<1>9. Served(x, up', down, held', hist', broken)
  BY <1>1, <1>3, <1>4, <1>6 DEF Inv, Served, HasService
<1>10. Mid(x) /\ Waiting(x, hist', broken)
  BY <1>6, <1>7, <1>8, <1>9 DEF Mid, Waiting
<1> QED
  BY <1>4, <1>5, <1>10, KeepInv

LEMMA InitialContextSetupResponseInv ==
  ASSUME Inv, InitialContextSetupResponse
  PROVE  Inv'
<1>1. /\ ctx.live /\ Take({"icsResp"}) /\ UNCHANGED <<broken, ue, asks, held, hist>>
  BY DEF InitialContextSetupResponse
<1>2. PICK c : c = Stop(ctx, Asks)
  OBVIOUS
<1>3. /\ CtxOK(c) /\ c.live /\ c.ask \in {ctx.ask, "none"}
      /\ c.sec = ctx.sec /\ c.peiReq = ctx.peiReq /\ c.registered = ctx.registered
  BY <1>1, <1>2, StopOK DEF Inv
<1>4. Frame /\ \A T : Has(up', T) => Has(up, T)
  BY <1>1, HandlerFrame, TakeOK DEF Noted
<1>5. PICK x : x = [c EXCEPT !.icsResp = TRUE] /\ Keep(x)
  BY <1>2 DEF InitialContextSetupResponse
<1>6. /\ x \in Context /\ x.live = c.live /\ x.ask = c.ask /\ x.retries = c.retries
      /\ x.sec = c.sec /\ x.registered = c.registered /\ x.peiReq = c.peiReq /\ x.icsResp
  BY <1>3, <1>5 DEF CtxOK, Context
<1>7. CtxOK(x) /\ x.live
  BY <1>3, <1>6 DEF CtxOK
<1>8. Mid(x) /\ Waiting(x, hist', broken)
  BY <1>1, <1>3, <1>4, <1>6, <1>7, MidFrom DEF Waiting
<1> QED
  BY <1>4, <1>5, <1>8, KeepInv

LEMMA InitialContextSetupFailureInv ==
  ASSUME Inv, InitialContextSetupFailure
  PROVE  Inv'
<1>1. Frame
  BY HandlerFrame DEF InitialContextSetupFailure, Noted
<1> QED
  BY <1>1, ReleaseInv DEF InitialContextSetupFailure

\* Nothing happens to the context; messages only go, and held only by a purge
\* on a broken association or on behalf of another context.
LEMMA OutsideInv ==
  ASSUME Inv, ctx' = ctx, UpOK(up'), DownOK(down'), BookOK', ue # "off" => ue' # "off",
         ue = "off" => UNCHANGED <<up, down, broken>>, broken => broken',
         ctx.live => /\ Has(up', Completes) => Has(up, Completes) \/ Has(down, {"smc"})
                     /\ Has(up', {"regComplete"}) => Has(up, {"regComplete"}) \/ Has(down, {"ics"})
                     /\ \A T \in {{"smc"}, {"ics"}} : Has(down', T) => Has(down, T),
         held.policy => held'.policy, held'.slices = held.slices, hist'.open = hist.open,
         held.uecm => held'.uecm \/ hist'.crossed \/ broken', hist.crossed => hist'.crossed,
         hist.dropped => hist'.dropped
  PROVE  Inv'
<1>1. Fresh'
  BY DEF Inv, Fresh
<1>2. ctx.live => Secured(ctx, up', down')
  BY DEF Inv, Secured
<1>3. ctx.live => Served(ctx, up', down', held', hist', broken')
  BY DEF Inv, Served, HasService
<1>4. ctx.live => Waiting(ctx, hist', broken')
  BY DEF Inv, Waiting
<1> QED
  BY <1>1, <1>2, <1>3, <1>4 DEF Inv

LEMMA ServiceRequestInv ==
  ASSUME Inv, ServiceRequest
  PROVE  Inv'
<1>1. UpOK(up') /\ ue # "off" /\ \A T : Has(up', T) => Has(up, T)
  BY TakeOK DEF ServiceRequest
<1> QED
  BY <1>1, OutsideInv DEF ServiceRequest, Inv, BookOK

LEMMA IgnoreUnknownInv ==
  ASSUME Inv, IgnoreUnknown
  PROVE  Inv'
<1>1. UpOK(up') /\ ue # "off" /\ \A T : Has(up', T) => Has(up, T)
  BY TakeOK DEF IgnoreUnknown
<1> QED
  BY <1>1, OutsideInv DEF IgnoreUnknown, Inv, BookOK

LEMMA PduSessionRequestInv ==
  ASSUME Inv, PduSessionRequest
  PROVE  Inv'
<1>1. UpOK(up') /\ ue # "off" /\ \A T : Has(up', T) => Has(up, T)
  BY TakeOK DEF PduSessionRequest
<1>2. \E b \in BOOLEAN : held' = [held EXCEPT !.sm = b]
  <2>1. held = [held EXCEPT !.sm = held.sm] /\ held.sm \in BOOLEAN
    BY DEF Inv, BookOK
  <2> QED
    BY <2>1 DEF PduSessionRequest
<1>3. /\ held' \in [uecm : BOOLEAN, sdm : BOOLEAN, policy : BOOLEAN,
                    slices : SUBSET Slices, sm : BOOLEAN]
      /\ held'.policy = held.policy /\ held'.slices = held.slices /\ held'.uecm = held.uecm
  BY <1>2 DEF Inv, BookOK
<1>4. BookOK' /\ UNCHANGED <<ctx, broken, down, ue, asks, hist>>
  BY <1>3 DEF PduSessionRequest, Inv, BookOK
<1> QED
  BY <1>1, <1>3, <1>4, OutsideInv DEF Inv

LEMMA DeregistrationRequestInv ==
  ASSUME Inv, DeregistrationRequest
  PROVE  Inv'
<1>1. /\ UpOK(up') /\ ue # "off" /\ \A T : Has(up', T) => Has(up, T)
      /\ UNCHANGED <<broken, ue, asks>>
  BY TakeOK DEF DeregistrationRequest
<1>2. PICK b \in BOOLEAN : held' = [held EXCEPT !.uecm = b]
  <2>1. PICK purged \in BOOLEAN : held' = [held EXCEPT !.uecm = @ /\ ~(purged /\ ctx.sec)]
    BY DEF DeregistrationRequest
  <2>2. (held.uecm /\ ~(purged /\ ctx.sec)) \in BOOLEAN
    OBVIOUS
  <2> QED
    BY <2>1, <2>2, Zenon
<1>3. /\ held' \in [uecm : BOOLEAN, sdm : BOOLEAN, policy : BOOLEAN,
                    slices : SUBSET Slices, sm : BOOLEAN]
      /\ held'.policy = held.policy /\ held'.slices = held.slices
  BY <1>2 DEF Inv, BookOK
<1>4. CASE broken /\ UNCHANGED <<ctx, down, hist>>
  <2>1. BookOK'
    BY <1>1, <1>3, <1>4 DEF Inv, BookOK
  <2> QED
    BY <1>1, <1>3, <1>4, <2>1, OutsideInv DEF Inv
<1>5. CASE finish_deregistration
  <2>1. hist' \in [credit : Int, dropped : BOOLEAN, dereg : BOOLEAN, crossed : BOOLEAN,
                open : SUBSET Slices]
    BY <1>5 DEF finish_deregistration, Inv, BookOK
  <2>2. Frame
    BY <1>1, <1>3, <2>1 DEF Frame, Inv, BookOK
  <2> QED
    BY <1>5, <2>2, ReleaseInv DEF finish_deregistration
<1> QED
  BY <1>4, <1>5 DEF DeregistrationRequest

LEMMA DeregistrationAcceptInv ==
  ASSUME Inv, DeregistrationAccept
  PROVE  Inv'
<1>1. UpOK(up') /\ ue # "off" /\ UNCHANGED <<broken, ue, asks, held>>
  BY TakeOK DEF DeregistrationAccept
<1>2. hist' \in [credit : Int, dropped : BOOLEAN, dereg : BOOLEAN, crossed : BOOLEAN,
                open : SUBSET Slices]
  BY DEF DeregistrationAccept, finish_deregistration, Inv, BookOK
<1>3. Frame
  BY <1>1, <1>2 DEF Frame, Inv, BookOK
<1> QED
  BY <1>3, ReleaseInv DEF DeregistrationAccept, finish_deregistration

-----------------------------------------------------------------------------
(* The network, the timers and the NG interface.                           *)

LEMMA InitialUeMessageInv ==
  ASSUME Inv, NEW kind \in {"suci", "guti", "nid", "other", "service"}, InitialUeMessage(kind)
  PROVE  Inv'
<1>1. /\ up = <<>> /\ down = <<>> /\ ~broken /\ ctx = Gone /\ ue = "off" /\ ue' = "connected"
      /\ UNCHANGED <<broken, up, asks, held>>
  BY DEF Inv, Fresh, InitialUeMessage
<1>2. CASE UNCHANGED <<ctx, down, hist>>
  BY <1>1, <1>2, GoneOK DEF Inv, BookOK, Fresh
<1>3. CASE RegistrationRequest([Gone EXCEPT !.live = TRUE], kind)
  <2>1. PICK c : c = [Gone EXCEPT !.live = TRUE] /\ RegistrationRequest(c, kind)
    BY <1>3
  <2>2. c.live = TRUE /\ c.peiReq = FALSE /\ c.registered = FALSE /\ c.ask = "none"
    BY <2>1 DEF Gone
  <2>3. CtxOK(c)
    <3>1. Gone \in Context
      BY GoneOK DEF CtxOK
    <3>2. c \in Context
      BY <2>1, <3>1 DEF Context
    <3> QED
      BY <2>2, <3>2 DEF CtxOK
  <2>4. Secured(c, up', down) /\ Served(c, up', down, held, hist, broken)
    BY <1>1, <2>2, EmptyHasNone DEF Secured, Served
  <2>5. UpOK(up')
    BY <1>1 DEF Inv
  <2> QED
    BY <1>1, <2>1, <2>2, <2>3, <2>4, <2>5, RegistrationRequestInv
<1> QED
  BY <1>2, <1>3 DEF InitialUeMessage

LEMMA NetworkDeregInv ==
  ASSUME Inv, NetworkDereg
  PROVE  Inv'
<1>1. /\ ctx.live /\ UNCHANGED <<broken, up, ue, held, hist>> /\ asks' \in 0..MaxAsks
  BY AmfUeAssumption DEF NetworkDereg, Inv, BookOK
<1>2. PICK c : c = ctx /\ AskUe(c, "dereg")
  BY DEF NetworkDereg
<1>3. Frame
  BY <1>1, LiveKnown DEF Frame, Inv, BookOK
<1>4. Mid(c)
  <2>1. \A T : Has(up', T) => Has(up, T)
    BY <1>1
  <2> QED
    BY <1>1, <1>2, <2>1, MidSame
<1>5. "dereg" \in Asks \ {"none"}
  BY DEF Asks
<1> QED
  BY <1>2, <1>3, <1>4, <1>5, AskInv

LEMMA OtherContextDeregistersInv ==
  ASSUME Inv, OtherContextDeregisters
  PROVE  Inv'
<1>1. /\ UNCHANGED <<ctx, broken, up, down, ue>> /\ asks' \in 0..MaxAsks
  BY AmfUeAssumption DEF OtherContextDeregisters, Inv, BookOK
<1>2. /\ held' \in [uecm : BOOLEAN, sdm : BOOLEAN, policy : BOOLEAN,
                    slices : SUBSET Slices, sm : BOOLEAN]
      /\ held'.policy = held.policy /\ held'.slices = held.slices
      /\ hist' \in [credit : Int, dropped : BOOLEAN, dereg : BOOLEAN, crossed : BOOLEAN,
                open : SUBSET Slices]
      /\ hist'.crossed /\ hist'.dropped = hist.dropped /\ hist'.open = hist.open
  BY DEF OtherContextDeregisters, Inv, BookOK
<1>3. BookOK'
  BY <1>1, <1>2 DEF Inv, BookOK
<1> QED
  BY <1>1, <1>2, <1>3, OutsideInv DEF Inv

LEMMA RetxBound ==
  ASSUME NEW t \in Asks \ {"none"}
  PROVE  MaxRetx(t) \in Nat /\ t \in DownTypes
BY AmfUeAssumption DEF MaxRetx, Asks, T3560Asks, T3570Asks, DownTypes

LEMMA RetransmitInv ==
  ASSUME Inv, Retransmit
  PROVE  Inv'
<1>1. /\ ctx.live /\ ctx.ask # "none" /\ ctx.retries < MaxRetx(ctx.ask)
      /\ UNCHANGED <<broken, up, ue, asks, held>>
  BY DEF Retransmit
<1>2. ctx \in Context /\ ctx.ask \in Asks \ {"none"}
  BY <1>1 DEF Inv, CtxOK, Context
<1>3. PICK x : x = [ctx EXCEPT !.retries = @ + 1] /\ ctx' = x
  BY DEF Retransmit
<1>4. /\ x \in Context /\ x.live /\ x.ask = ctx.ask /\ x.retries = ctx.retries + 1
      /\ x.sec = ctx.sec /\ x.registered = ctx.registered /\ x.peiReq = ctx.peiReq
  BY <1>1, <1>2, <1>3 DEF Context
<1>5. CtxOK(x)
  <2>1. MaxRetx(ctx.ask) \in Nat /\ ctx.retries \in Nat
    BY <1>2, RetxBound DEF Context
  <2> QED
    BY <1>1, <1>4, <2>1 DEF Inv, CtxOK
<1>6. DownOK(down') /\ \A T : Has(down', T) => Has(down, T) \/ ctx.ask \in T
  <2>1. CASE broken
    BY <2>1 DEF Retransmit, Inv
  <2>2. CASE ~broken
    <3>1. PICK d : d = Enqueue(down, <<Msg(ctx.ask, ctx.vec)>>, MaxDown) /\ down' = d
      BY <2>2 DEF Retransmit, Send
    <3>2. ctx.ask \in DownTypes /\ ctx.vec \in Nat
      BY <1>2, RetxBound DEF Context
    <3> QED
      BY <3>1, <3>2, DownEnqueue DEF Inv
  <2> QED
    BY <2>1, <2>2
<1>7. /\ hist' \in [credit : Int, dropped : BOOLEAN, dereg : BOOLEAN, crossed : BOOLEAN,
                open : SUBSET Slices]
      /\ hist'.crossed = hist.crossed /\ hist'.open = hist.open
  BY DEF Retransmit, Inv, BookOK
<1>8. BookOK' /\ Fresh'
  BY <1>1, <1>7, LiveKnown DEF Inv, BookOK, Fresh
<1>9. Secured(x, up', down')
  BY <1>1, <1>4, <1>6 DEF Inv, Secured
<1>10. Served(x, up', down', held', hist', broken')
  BY <1>1, <1>4, <1>6, <1>7 DEF Inv, Served, HasService
<1>11. Waiting(x, hist', broken')
  BY <1>1, <1>4 DEF Waiting
<1>12. UpOK(up')
  BY <1>1 DEF Inv
<1> QED
  BY <1>3, <1>5, <1>6, <1>8, <1>9, <1>10, <1>11, <1>12 DEF Inv

LEMMA ExhaustedInv ==
  ASSUME Inv, Exhausted
  PROVE  Inv'
<1>1. ctx.live /\ ctx.ask # "none" /\ UNCHANGED <<broken, up, ue, asks>> /\ ue # "off"
  BY LiveKnown DEF Exhausted
<1>2. PICK c : c = Stop(ctx, Asks)
  OBVIOUS
<1>3. /\ CtxOK(c) /\ c.live /\ c.ask = "none" /\ ctx.ask \in Asks
      /\ c.sec = ctx.sec /\ c.peiReq = ctx.peiReq /\ c.registered = ctx.registered
  <2>1. ctx.ask \in Asks /\ CtxOK(ctx)
    BY DEF Inv, CtxOK, Context
  <2> QED
    BY <1>1, <1>2, <2>1, StopOK
<1>4. UpOK(up') /\ \A T : Has(up', T) => Has(up, T)
  BY <1>1 DEF Inv
<1>5. CASE ctx.ask = "ics" /\ Keep([c EXCEPT !.registered = TRUE]) /\ UNCHANGED <<held, hist>>
  <2>1. PICK x : x = [c EXCEPT !.registered = TRUE] /\ Keep(x)
    BY <1>5
  <2>2. /\ x \in Context /\ x.live = c.live /\ x.ask = c.ask /\ x.retries = c.retries
        /\ x.sec = c.sec /\ x.registered /\ x.peiReq = c.peiReq
    BY <1>3, <2>1 DEF CtxOK, Context
  <2>3. CtxOK(x) /\ x.live
    BY <1>3, <2>2 DEF CtxOK
  <2>4. Frame
    BY <1>1, <1>4, <1>5 DEF Frame, Inv, BookOK
  <2>5. Secured(x, up', down)
    BY <1>1, <1>3, <1>4, <2>2 DEF Inv, Secured
  <2>6. Served(x, up', down, held', hist', broken)
    BY <1>1, <1>3, <1>5, <2>2 DEF Inv, Served, HasService
  <2>7. Mid(x) /\ Waiting(x, hist', broken)
    BY <2>2, <2>3, <2>5, <2>6 DEF Mid, Waiting
  <2> QED
    BY <2>1, <2>4, <2>7, KeepInv
<1>6. CASE release_ue /\ UNCHANGED <<held, hist>>
  <2>1. Frame
    BY <1>1, <1>4, <1>6 DEF Frame, Inv, BookOK
  <2> QED
    BY <1>6, <2>1, ReleaseInv
<1>7. CASE c.peiReq /\ complete_registration([c EXCEPT !.peiReq = FALSE])
  <2>1. PICK x : x = [c EXCEPT !.peiReq = FALSE] /\ complete_registration(x)
    BY <1>7
  <2>2. /\ x \in Context /\ x.live = c.live /\ x.ask = c.ask /\ x.retries = c.retries
        /\ x.sec = c.sec /\ x.registered = c.registered
    BY <1>3, <2>1 DEF CtxOK, Context
  <2>3. CtxOK(x) /\ x.live
    BY <1>3, <2>2 DEF CtxOK
  <2>4. x.sec
    BY <1>1, <1>3, <1>7, <2>2 DEF Inv, Secured
  <2>5. Served(x, up', down, held, hist, broken)
    BY <1>1, <1>3, <1>4, <2>2 DEF Inv, Served, HasService
  <2> QED
    BY <1>1, <1>4, <2>1, <2>3, <2>4, <2>5, CompleteInv
<1>8. CASE release_ue /\ hist' = [hist EXCEPT !.dereg = TRUE] /\ UNCHANGED held
  <2>1. hist' \in [credit : Int, dropped : BOOLEAN, dereg : BOOLEAN, crossed : BOOLEAN,
                open : SUBSET Slices]
    BY <1>8 DEF Inv, BookOK
  <2>2. Frame
    BY <1>1, <1>4, <1>8, <2>1 DEF Frame, Inv, BookOK
  <2> QED
    BY <1>8, <2>2, ReleaseInv
<1> QED
  BY <1>2, <1>5, <1>6, <1>7, <1>8 DEF Exhausted

LEMMA NgResetInv ==
  ASSUME Inv, NgReset
  PROVE  Inv'
<1>1. DownOK(<<>>)
  BY AmfUeAssumption DEF DownOK
<1> QED
  BY <1>1, GoneOK DEF NgReset, Inv, BookOK, Fresh

LEMMA AssociationClosedInv ==
  ASSUME Inv, AssociationClosed
  PROVE  Inv'
<1>1. DownOK(<<>>)
  BY AmfUeAssumption DEF DownOK
<1>2. /\ UNCHANGED <<ctx, up, asks, held, hist>> /\ broken' = TRUE /\ down' = <<>> /\ ue' = "idle"
      /\ ue # "off"
  BY DEF AssociationClosed
<1>3. BookOK'
  BY <1>2 DEF Inv, BookOK
<1> QED
  BY <1>1, <1>2, <1>3, EmptyHasNone, OutsideInv DEF Inv

LEMMA UeContextReleaseInv ==
  ASSUME Inv, UeContextRelease
  PROVE  Inv'
<1>1. UNCHANGED <<ctx, broken, up, ue, asks, held, hist>> /\ ue # "off"
  BY DEF UeContextRelease
<1>2. PICK d : d = Enqueue(down, <<Msg("release", 0)>>, MaxDown) /\ down' = d
  BY DEF UeContextRelease, Send
<1>3. DownOK(d) /\ \A T : Has(d, T) => Has(down, T) \/ "release" \in T
  BY <1>2, DownEnqueue DEF Inv, DownTypes
<1>4. BookOK'
  BY <1>1 DEF Inv, BookOK
<1> QED
  BY <1>1, <1>2, <1>3, <1>4, OutsideInv DEF Inv

-----------------------------------------------------------------------------
(* The UE and the gNB.                                                     *)

Up == [t : UpTypes, vec : Nat]

LEMMA UpEnqueue ==
  ASSUME NEW u, UpOK(u), NEW s \in Seq(Up), NEW e, e = Enqueue(u, s, MaxUp)
  PROVE  UpOK(e) /\ \A T : Has(e, T) => Has(u, T) \/ Has(s, T)
<1>1. u \in Seq(Up) /\ Len(u) <= MaxUp
  BY DEF UpOK, Up
<1>2. e \in Seq(Up) /\ Len(e) <= MaxUp
  BY <1>1 DEF Enqueue
<1>3. ASSUME NEW T, Has(e, T) PROVE Has(u, T) \/ Has(s, T)
  <2>1. CASE e = u
    BY <1>3, <2>1
  <2>2. CASE e = u \o s
    <3>1. PICK i \in 1..Len(u) + Len(s) : (u \o s)[i].t \in T
      BY <1>1, <1>3, <2>2 DEF Has
    <3>2. CASE i <= Len(u)
      <4>1. i \in 1..Len(u) /\ (u \o s)[i] = u[i]
        BY <1>1, <3>2
      <4> QED
        BY <3>1, <4>1 DEF Has
    <3>3. CASE i > Len(u)
      <4>1. i - Len(u) \in 1..Len(s) /\ (u \o s)[i] = s[i - Len(u)]
        BY <1>1, <3>3
      <4> QED
        BY <3>1, <4>1 DEF Has
    <3> QED
      BY <1>1, <3>2, <3>3
  <2> QED
    BY <2>1, <2>2 DEF Enqueue
<1> QED
  BY <1>2, <1>3 DEF UpOK, Up

\* Only a Security Mode Command is answered by a completion of it, and only an
\* Initial Context Setup Request by a Registration Complete.
LEMMA AnswersOK ==
  ASSUME NEW m \in [t : DownTypes, vec : Nat], NEW s \in Answers(m)
  PROVE  /\ s \in Seq(Up)
         /\ Has(s, Completes) => m.t = "smc"
         /\ Has(s, {"regComplete"}) => m.t = "ics"
<1>1. m.t \in {"identity", "auth", "smc", "pei", "ics", "dereg", "release"} /\ m.vec \in Nat
  BY DEF DownTypes, Asks, T3560Asks, T3570Asks
<1>2. \A t \in UpTypes, v \in Nat : Msg(t, v) \in Up /\ Msg(t, v).t = t
  BY DEF Msg, Up
<1>3. ASSUME NEW t \in UpTypes, NEW v \in Nat, s = <<Msg(t, v)>>
      PROVE  s \in Seq(Up) /\ \A T : Has(s, T) => t \in T
  BY <1>2, <1>3 DEF Has
<1>4. ASSUME NEW t1 \in UpTypes, NEW t2 \in UpTypes, s = <<Msg(t1, 0), Msg(t2, 0)>>
      PROVE  s \in Seq(Up) /\ \A T : Has(s, T) => t1 \in T \/ t2 \in T
  BY <1>2, <1>4 DEF Has
<1>5. {"suci", "badSuci", "imei", "authRes", "authRetry", "authOther",
       "smcComplete", "smcCompletePei", "smcReject", "smcMismatch",
       "icsResp", "icsFail", "regComplete", "deregAccept"} \subseteq UpTypes
  BY DEF UpTypes
<1>6. CASE m.t = "identity"
  <2>1. s = <<Msg("suci", 0)>> \/ s = <<Msg("badSuci", 0)>>
    BY <1>6 DEF Answers
  <2> QED
    BY <1>3, <1>5, <1>6, <2>1 DEF Completes
<1>7. CASE m.t = "auth"
  <2>1. \/ s = <<Msg("authRes", m.vec)>>
        \/ s = <<Msg("authRetry", 0)>> \/ s = <<Msg("authOther", 0)>>
    BY <1>7 DEF Answers
  <2> QED
    BY <1>1, <1>3, <1>5, <2>1 DEF Completes
<1>8. CASE m.t = "smc"
  <2>1. \/ s = <<Msg("smcComplete", 0)>> \/ s = <<Msg("smcCompletePei", 0)>>
        \/ s = <<Msg("smcReject", 0)>> \/ s = <<Msg("smcMismatch", 0)>>
    BY <1>8 DEF Answers
  <2> QED
    BY <1>3, <1>5, <1>8, <2>1 DEF Completes
<1>9. CASE m.t = "pei"
  <2>1. s = <<Msg("imei", 0)>>
    BY <1>9 DEF Answers
  <2> QED
    BY <1>3, <1>5, <2>1 DEF Completes
<1>10. CASE m.t = "ics"
  <2>1. \/ s = <<Msg("icsResp", 0), Msg("regComplete", 0)>>
        \/ s = <<Msg("regComplete", 0), Msg("icsResp", 0)>>
        \/ s = <<Msg("icsResp", 0)>> \/ s = <<Msg("icsFail", 0)>>
    BY <1>10 DEF Answers
  <2> QED
    BY <1>3, <1>4, <1>5, <1>10, <2>1 DEF Completes
<1>11. CASE m.t = "dereg"
  <2>1. s = <<Msg("deregAccept", 0)>>
    BY <1>11 DEF Answers
  <2> QED
    BY <1>3, <1>5, <2>1 DEF Completes
<1>12. CASE m.t = "release"
  <2>1. s = <<>>
    BY <1>12 DEF Answers
  <2> QED
    BY <2>1, EmptyHasNone
<1> QED
  BY <1>1, <1>6, <1>7, <1>8, <1>9, <1>10, <1>11, <1>12

\* The next message to the UE.
LEMMA NextDown ==
  ASSUME Inv, down # <<>>
  PROVE  /\ DownOK(Tail(down)) /\ Head(down) \in [t : DownTypes, vec : Nat]
         /\ \A T : Has(Tail(down), T) => Has(down, T)
         /\ \A T : Head(down).t \in T => Has(down, T)
<1>1. down \in Seq([t : DownTypes, vec : Nat]) /\ Len(down) <= MaxDown
  BY DEF Inv, DownOK
<1>2. /\ Tail(down) \in Seq([t : DownTypes, vec : Nat]) /\ Len(Tail(down)) <= Len(down)
      /\ Head(down) \in [t : DownTypes, vec : Nat]
      /\ \A T : Has(Tail(down), T) => Has(down, T)
      /\ \A T : Head(down).t \in T => Has(down, T)
  BY <1>1, HasTail
<1>3. DownOK(Tail(down))
  BY <1>1, <1>2, AmfUeAssumption DEF DownOK
<1> QED
  BY <1>2, <1>3

LEMMA DeliverInv ==
  ASSUME Inv, Deliver
  PROVE  Inv'
<1>1. /\ down # <<>> /\ down' = Tail(down) /\ ue \in {"connected", "registered"}
      /\ UNCHANGED <<ctx, broken, asks, held, hist>>
  BY DEF Deliver
<1>2. PICK m : m = Head(down)
  OBVIOUS
<1>3. PICK s \in Answers(m) : /\ up' = Enqueue(up, s, MaxUp)
                              /\ ue' \in {"idle", "registered", ue}
  BY <1>2 DEF Deliver
<1>4. /\ DownOK(down') /\ m \in [t : DownTypes, vec : Nat]
      /\ \A T : Has(down', T) => Has(down, T)
      /\ \A T : m.t \in T => Has(down, T)
  BY <1>1, <1>2, NextDown
<1>5. /\ s \in Seq(Up) /\ (Has(s, Completes) => m.t = "smc")
      /\ Has(s, {"regComplete"}) => m.t = "ics"
  BY <1>4, AnswersOK
<1>6. PICK e : e = Enqueue(up, s, MaxUp) /\ up' = e
  BY <1>3
<1>7. UpOK(up') /\ \A T : Has(up', T) => Has(up, T) \/ Has(s, T)
  BY <1>5, <1>6, UpEnqueue DEF Inv
<1>8. BookOK' /\ ue # "off" /\ ue' # "off"
  BY <1>1, <1>3 DEF Inv, BookOK
<1> QED
  BY <1>1, <1>4, <1>5, <1>7, <1>8, OutsideInv

LEMMA LoseInv ==
  ASSUME Inv, Lose
  PROVE  Inv'
<1>1. /\ DownOK(down') /\ \A T : Has(down', T) => Has(down, T)
      /\ UNCHANGED <<ctx, broken, up, ue, asks, held, hist>> /\ ue # "off"
  BY NextDown DEF Lose, Inv, Fresh
<1>2. BookOK' /\ UpOK(up')
  BY <1>1 DEF Inv, BookOK
<1> QED
  BY <1>1, <1>2, OutsideInv

LEMMA UeRequestInv ==
  ASSUME Inv, NEW t \in Requests, UeRequest(t)
  PROVE  Inv'
<1>1. /\ ue = "registered" /\ ue' \in {"connected", "registered"} /\ asks' \in 0..MaxAsks
      /\ UNCHANGED <<ctx, broken, down, held, hist>>
  BY AmfUeAssumption DEF UeRequest, Inv, BookOK
<1>2. PICK m : m = Msg(t, 0) /\ m \in Up /\ m.t = t
  <2>1. t \in UpTypes
    BY DEF UpTypes
  <2>2. Msg(t, 0) \in Up /\ Msg(t, 0).t = t
    BY <2>1 DEF Msg, Up
  <2> QED
    BY <2>2
<1>3. <<m>> \in Seq(Up) /\ \A T : Has(<<m>>, T) => t \in T
  BY <1>2 DEF Has
<1>4. PICK e : e = Enqueue(up, <<m>>, MaxUp) /\ up' = e
  BY <1>2 DEF UeRequest
<1>5. UpOK(up') /\ \A T : Has(up', T) => Has(up, T) \/ t \in T
  BY <1>3, <1>4, UpEnqueue DEF Inv
<1>6. t \notin Completes /\ t # "regComplete"
  BY AmfUeAssumption DEF Completes
<1>7. BookOK' /\ DownOK(down')
  BY <1>1 DEF Inv, BookOK
<1> QED
  BY <1>1, <1>5, <1>6, <1>7, OutsideInv

-----------------------------------------------------------------------------
LEMMA InitInv == Init => Inv
<1> SUFFICES ASSUME Init PROVE Inv
  OBVIOUS
<1>1. UpOK(up) /\ DownOK(down)
  BY AmfUeAssumption DEF Init, UpOK, DownOK
<1>2. BookOK
  <2>1. broken \in BOOLEAN /\ ue \in {"off", "connected", "registered", "idle"}
    BY DEF Init
  <2>2. asks \in 0..MaxAsks
    BY AmfUeAssumption DEF Init
  <2>3. held \in [uecm : BOOLEAN, sdm : BOOLEAN, policy : BOOLEAN,
                  slices : SUBSET Slices, sm : BOOLEAN]
    BY DEF Init
  <2>4. hist \in [credit : Int, dropped : BOOLEAN, dereg : BOOLEAN, crossed : BOOLEAN,
                open : SUBSET Slices]
    BY DEF Init
  <2> QED
    BY <2>1, <2>2, <2>3, <2>4 DEF BookOK
<1>3. Fresh
  BY DEF Init, Fresh
<1> QED
  BY <1>1, <1>2, <1>3, GoneOK DEF Init, Inv

LEMMA NextInv ==
  ASSUME Inv, [Next]_vars
  PROVE  Inv'
<1>1. CASE Uplink
  BY <1>1, IgnoreUnknownInv, UplinkRegistrationRequestInv, IdentityResponseInv,
     AuthenticationResponseInv, AuthenticationFailureInv, SecurityModeCompleteInv,
     SecurityModeFailureInv, RegistrationCompleteInv, InitialContextSetupResponseInv,
     InitialContextSetupFailureInv, ServiceRequestInv, DeregistrationRequestInv,
     DeregistrationAcceptInv, PduSessionRequestInv
  DEF Uplink
<1>2. CASE TimerExpiry
  BY <1>2, RetransmitInv, ExhaustedInv DEF TimerExpiry
<1>3. CASE UNCHANGED vars
  BY <1>3 DEF vars, Inv, BookOK, Fresh
<1> QED
  BY <1>1, <1>2, <1>3, InitialUeMessageInv, NetworkDeregInv, OtherContextDeregistersInv,
     NgResetInv, AssociationClosedInv, UeContextReleaseInv, DeliverInv, LoseInv, UeRequestInv
  DEF Next

(***************************************************************************)
(* The inductive invariant: what a message under way, a timer or a stored  *)
(* flag will lead to is prepared for in the context and at the NFs.        *)
(***************************************************************************)
THEOREM Invariance == Spec => []Inv
BY InitInv, NextInv, PTL DEF Spec

(***************************************************************************)
(* Type correctness; a running timer has repeated its message at most as   *)
(* often as its configuration allows.                                      *)
(***************************************************************************)
THEOREM TypeCorrect == Spec => []TypeOK
<1>1. Inv => TypeOK
  BY DEF Inv, CtxOK, Context, UpOK, DownOK, BookOK, TypeOK
<1> QED
  BY <1>1, Invariance, PTL

(***************************************************************************)
(* A context without a running timer is registered, established at the     *)
(* gNB, left behind by a final answer, or its association broke.           *)
(***************************************************************************)
THEOREM WaitsGuarded == Spec => []WaitGuarded
<1>1. Inv => WaitGuarded
  BY DEF Inv, Waiting, WaitGuarded
<1> QED
  BY <1>1, Invariance, PTL

(***************************************************************************)
(* A registered context has NAS security and an AM policy, the NSACF counts *)
(* it in every slice it was not admitted to open, and the UDM knows of it, *)
(* whatever answer or timer registered it; two ways out of the last remain, *)
(* another context's purge and a broken association.                       *)
(***************************************************************************)
THEOREM RegisteredAreServed == Spec => []RegisteredIsServed
<1>1. Inv => RegisteredIsServed
  BY DEF Inv, Served, HasService, RegisteredIsServed
<1> QED
  BY <1>1, Invariance, PTL

-----------------------------------------------------------------------------
(* Counting messages.                                                      *)

Places(q, T) == {i \in 1..Len(q) : q[i].t \in T}
Count(q, T)  == Cardinality(Places(q, T))

LEMMA PlacesFinite ==
  ASSUME NEW M, NEW q \in Seq(M), NEW T
  PROVE  IsFiniteSet(Places(q, T)) /\ Count(q, T) \in Nat
<1>1. IsFiniteSet(1..Len(q))
  BY FS_Interval
<1>2. Places(q, T) \in SUBSET (1..Len(q))
  BY DEF Places
<1> QED
  BY <1>1, <1>2, FS_Subset, FS_CardinalityType DEF Count

LEMMA CountNone ==
  ASSUME NEW q, NEW T, ~Has(q, T)
  PROVE  Count(q, T) = 0
<1>1. Places(q, T) = {}
  BY DEF Places, Has
<1> QED
  BY <1>1, FS_EmptySet DEF Count

LEMMA CountTail ==
  ASSUME NEW M, NEW q \in Seq(M), q # <<>>, NEW T
  PROVE  Count(q, T) = Count(Tail(q), T) + IF Head(q).t \in T THEN 1 ELSE 0
<1> DEFINE A == Places(Tail(q), T)
           B == Places(q, T) \ {1}
           F == [i \in A |-> i + 1]
<1>1. /\ Len(q) \in Nat /\ Len(q) >= 1 /\ Head(q) = q[1]
      /\ Tail(q) \in Seq(M) /\ Len(Tail(q)) = Len(q) - 1
      /\ \A i \in 1..Len(q) - 1 : Tail(q)[i] = q[i + 1]
  OBVIOUS
<1>2. IsFiniteSet(A) /\ IsFiniteSet(Places(q, T))
  BY <1>1, PlacesFinite
<1>3. F \in [A -> B] /\ \A i, j \in A : F[i] = F[j] => i = j
  <2>1. \A i \in A : i \in Nat /\ i + 1 \in B
    BY <1>1 DEF Places
  <2> QED
    BY <2>1
<1>4. \A k \in B : \E i \in A : F[i] = k
  <2>1. ASSUME NEW k \in B PROVE k - 1 \in A /\ k - 1 + 1 = k
    BY <1>1 DEF Places
  <2> QED
    BY <2>1
<1>5. F \in Bijection(A, B)
  <2> HIDE DEF A, B, F
  <2> QED BY <1>3, <1>4, Fun_IsBij
<1>6. Cardinality(B) = Cardinality(A)
  <2> HIDE DEF A, B, F
  <2> QED BY <1>2, <1>5, FS_Bijection DEF ExistsBijection
<1>7. 1 \in Places(q, T) <=> Head(q).t \in T
  BY <1>1 DEF Places
<1>8. Cardinality(B) = IF 1 \in Places(q, T) THEN Count(q, T) - 1 ELSE Count(q, T)
  BY <1>2, FS_RemoveElement DEF Count
<1>9. Count(q, T) \in Nat /\ Cardinality(A) \in Nat
  BY <1>1, PlacesFinite DEF Count
<1> QED
  BY <1>6, <1>7, <1>8, <1>9 DEF Count

LEMMA CountEnqueue ==
  ASSUME NEW M, NEW q \in Seq(M), NEW m \in M, NEW max, NEW T
  PROVE  Count(Enqueue(q, <<m>>, max), T) <= Count(q, T) + IF m.t \in T THEN 1 ELSE 0
<1> DEFINE e == q \o <<m>>
           n == Len(q) + 1
<1>1. Count(q, T) \in Nat /\ IsFiniteSet(Places(q, T))
  BY PlacesFinite
<1>2. e \in Seq(M) /\ Len(e) = n /\ Len(q) \in Nat /\ e[n] = m /\ \A i \in 1..Len(q) : e[i] = q[i]
  OBVIOUS
<1>3. n \notin Places(q, T)
  BY <1>2 DEF Places
<1>4. m.t \in T => Places(e, T) = Places(q, T) \cup {n}
  <2> HIDE DEF e
  <2> QED BY <1>2 DEF Places
<1>5. m.t \notin T => Places(e, T) = Places(q, T)
  <2> HIDE DEF e
  <2> QED BY <1>2 DEF Places
<1>6. Cardinality(Places(q, T) \cup {n}) = Count(q, T) + 1
  BY <1>1, <1>3, FS_AddElement DEF Count
<1> HIDE DEF e, n
<1>7. Count(e, T) = Count(q, T) + IF m.t \in T THEN 1 ELSE 0
  <2>1. CASE m.t \in T
    BY <1>4, <1>6, <2>1 DEF Count
  <2>2. CASE m.t \notin T
    <3>1. Count(e, T) = Count(q, T)
      BY <1>5, <2>2 DEF Count
    <3> QED
      BY <1>1, <2>2, <3>1
  <2> QED
    BY <2>1, <2>2
<1>8. Enqueue(q, <<m>>, max) \in {q, e}
  BY DEF Enqueue, e
<1>9. Count(q, T) <= Count(q, T) + IF m.t \in T THEN 1 ELSE 0
  BY <1>1
<1> QED
  BY <1>1, <1>7, <1>8, <1>9

\* Messages of none of the types do not count.
LEMMA CountEnqueueNone ==
  ASSUME NEW M, NEW q \in Seq(M), NEW s \in Seq(M), NEW max, NEW T, ~Has(s, T)
  PROVE  Count(Enqueue(q, s, max), T) = Count(q, T)
<1>1. CASE Enqueue(q, s, max) = q
  BY <1>1
<1>2. CASE Enqueue(q, s, max) = q \o s
  <2> DEFINE e == q \o s
  <2>1. /\ Len(q) \in Nat /\ Len(s) \in Nat /\ Len(e) = Len(q) + Len(s)
        /\ \A i \in 1..Len(q) : e[i] = q[i]
        /\ \A i \in 1..Len(e) : i > Len(q) => i - Len(q) \in 1..Len(s) /\ e[i] = s[i - Len(q)]
    OBVIOUS
  <2>2. Places(e, T) = Places(q, T)
    <3> HIDE DEF e
    <3> QED BY <2>1 DEF Places, Has
  <2> QED
    BY <1>2, <2>2 DEF Count
<1> QED
  BY <1>1, <1>2 DEF Enqueue

-----------------------------------------------------------------------------
(* Policy associations.                                                    *)

\* Security Mode Commands that can still lead to an association: each is on its
\* way, or its answer is, or the PEI is asked for because of it.
InDown == Count(down, {"smc"})
InUp   == Count(up, Completes)
InCtx  == IF ctx.peiReq THEN 1 ELSE 0
Credit == hist.credit >= InDown + InUp + InCtx

LEMMA CreditTypes ==
  ASSUME Inv
  PROVE  /\ InDown \in Nat /\ InUp \in Nat /\ InCtx \in {0, 1} /\ hist.credit \in Int
         /\ ctx.peiReq \in BOOLEAN
<1>1. down \in Seq([t : DownTypes, vec : Nat]) /\ up \in Seq(Up)
  BY DEF Inv, DownOK, UpOK, Up
<1>2. hist.credit \in Int /\ ctx.peiReq \in BOOLEAN
  BY DEF Inv, BookOK, CtxOK, Context
<1> QED
  BY <1>1, <1>2, PlacesFinite DEF InDown, InUp, InCtx

LEMMA CreditKeeps ==
  ASSUME Inv, Inv', Credit, InDown' <= InDown, InUp' <= InUp, ctx'.peiReq => ctx.peiReq,
         hist'.credit = hist.credit
  PROVE  Credit'
<1>1. /\ InDown \in Nat /\ InUp \in Nat /\ InCtx \in {0, 1} /\ hist.credit \in Int
      /\ ctx.peiReq \in BOOLEAN
  BY CreditTypes
<1>2. (/\ InDown \in Nat /\ InUp \in Nat /\ InCtx \in {0, 1} /\ hist.credit \in Int
       /\ ctx.peiReq \in BOOLEAN)'
  BY CreditTypes, PTL
<1>3. InCtx' <= InCtx
  BY <1>1, <1>2 DEF InCtx
<1> QED
  BY <1>1, <1>2, <1>3 DEF Credit

\* How a handler that came to context c ends, when it sends no Security Mode Command.
Cheap(c) == InDown' <= InDown /\ (ctx'.peiReq => c.peiReq)

LEMMA SendCheap ==
  ASSUME Inv, NEW t \in DownTypes, NEW v \in Nat, Send(t, v)
  PROVE  /\ InDown' <= InDown + 1
         /\ t # "smc" => InDown' <= InDown
<1>1. PICK m : m = Msg(t, v) /\ m \in [t : DownTypes, vec : Nat] /\ m.t = t
  <2>1. Msg(t, v) \in [t : DownTypes, vec : Nat] /\ Msg(t, v).t = t
    BY DEF Msg
  <2> QED
    BY <2>1
<1>2. PICK d : d = down /\ d \in Seq([t : DownTypes, vec : Nat])
               /\ down' = Enqueue(d, <<m>>, MaxDown)
  BY <1>1 DEF Send, Inv, DownOK
<1>3. Count(Enqueue(d, <<m>>, MaxDown), {"smc"}) <= Count(d, {"smc"}) + IF m.t \in {"smc"} THEN 1 ELSE 0
  BY <1>1, <1>2, CountEnqueue
<1>4. Count(d, {"smc"}) \in Nat
  BY <1>2, PlacesFinite
<1>5. Enqueue(d, <<m>>, MaxDown) \in Seq([t : DownTypes, vec : Nat])
  BY <1>1, <1>2, HasEnqueue
<1>6. Count(Enqueue(d, <<m>>, MaxDown), {"smc"}) \in Nat
  BY <1>5, PlacesFinite
<1> QED
  BY <1>1, <1>2, <1>3, <1>4, <1>6 DEF InDown

LEMMA KeepCheap ==
  ASSUME Inv, NEW c, Keep(c)
  PROVE  Cheap(c)
<1>1. InDown' = InDown /\ ctx' = c
  BY DEF Keep, InDown
<1> QED
  BY <1>1, CreditTypes DEF Cheap

LEMMA AskCheap ==
  ASSUME Inv, NEW c, CtxOK(c), NEW t \in Asks \ {"none"}, AskUe(c, t)
  PROVE  /\ InDown' <= InDown + 1 /\ (ctx'.peiReq => c.peiReq)
         /\ t # "smc" => Cheap(c)
<1>1. CASE broken
  <2>1. Cheap(c)
    BY <1>1, KeepCheap DEF AskUe
  <2>2. InDown' = InDown /\ InDown \in Nat
    BY <1>1, CreditTypes DEF Keep, AskUe, InDown
  <2>3. InDown' <= InDown + 1
    BY <2>2
  <2> QED
    BY <2>1, <2>3 DEF Cheap
<1>2. CASE ~broken
  <2>1. c.vec \in Nat /\ t \in DownTypes /\ Send(t, c.vec)
    BY <1>2, RetxBound DEF CtxOK, Context, AskUe
  <2>2. InDown' <= InDown + 1 /\ (t # "smc" => InDown' <= InDown)
    BY <2>1, SendCheap
  <2>3. ctx'.peiReq = c.peiReq
    BY <1>2 DEF AskUe, CtxOK, Context
  <2> QED
    BY <2>2, <2>3 DEF Cheap
<1> QED
  BY <1>1, <1>2

LEMMA ReleaseCheap ==
  ASSUME Inv, NEW c, release_ue
  PROVE  Cheap(c)
<1>1. ctx'.peiReq = FALSE
  BY DEF release_ue, Gone
<1>2. InDown' <= InDown
  <2>1. CASE broken
    BY <2>1, CreditTypes DEF release_ue, InDown
  <2>2. CASE ~broken
    BY <2>2, SendCheap DEF release_ue, DownTypes
  <2> QED
    BY <2>1, <2>2
<1> QED
  BY <1>1, <1>2 DEF Cheap

LEMMA RejectCheap ==
  ASSUME Inv, NEW c, RejectAndRelease(c)
  PROVE  Cheap(c)
BY KeepCheap, ReleaseCheap DEF RejectAndRelease

LEMMA AuthCheap ==
  ASSUME Inv, NEW c, CtxOK(c), start_authentication(c)
  PROVE  Cheap(c)
<1>1. CASE release_ue
  BY <1>1, ReleaseCheap
<1>2. CASE AskUe([c EXCEPT !.vec = @ + 1], "auth")
  <2>1. PICK x : x = [c EXCEPT !.vec = @ + 1] /\ AskUe(x, "auth")
    BY <1>2
  <2>2. c \in Context /\ c.vec + 1 \in Nat
    BY DEF CtxOK, Context
  <2>3. x \in Context /\ x.ask = c.ask /\ x.retries = c.retries /\ x.peiReq = c.peiReq
    BY <2>1, <2>2 DEF Context
  <2>4. CtxOK(x)
    BY <2>3 DEF CtxOK
  <2>5. "auth" \in Asks \ {"none"}
    BY DEF Asks, T3560Asks
  <2>6. Cheap(x)
    BY <2>1, <2>4, <2>5, AskCheap
  <2> QED
    BY <2>3, <2>6 DEF Cheap
<1> QED
  BY <1>1, <1>2 DEF start_authentication

LEMMA AcceptCheap ==
  ASSUME Inv, NEW c, CtxOK(c), send_registration_accept(c)
  PROVE  Cheap(c)
<1>1. "ics" \in Asks \ {"none"}
  BY DEF Asks
<1> QED
  BY <1>1, KeepCheap, AskCheap DEF send_registration_accept

\* complete_registration spends at most one.
LEMMA CompleteCheap ==
  ASSUME Inv, NEW c, CtxOK(c), complete_registration(c)
  PROVE  Cheap(c) /\ hist'.credit >= hist.credit - 1
<1>1. PICK done \in 0..6, open \in SUBSET Slices :
         /\ hist' = [hist EXCEPT !.credit = IF done >= 4 THEN @ - 1 ELSE @,
                                 !.open = @ \cup open]
         /\ IF done < 6 THEN RejectAndRelease(c) ELSE send_registration_accept(c)
  BY DEF complete_registration
<1>2. Cheap(c)
  BY <1>1, RejectCheap, AcceptCheap
<1>3. hist'.credit >= hist.credit - 1
  BY <1>1 DEF Inv, BookOK
<1> QED
  BY <1>2, <1>3

LEMMA RegistrationRequestCheap ==
  ASSUME Inv, NEW c, NEW kind, CtxOK(c), RegistrationRequest(c, kind)
  PROVE  Cheap(c) /\ hist'.credit = hist.credit
<1>1. hist'.credit = hist.credit
  BY NotedOK DEF RegistrationRequest, Noted
<1>2. "identity" \in Asks \ {"none"}
  BY DEF Asks, T3570Asks
<1> QED
  BY <1>1, <1>2, AuthCheap, AskCheap, RejectCheap, KeepCheap, AcceptCheap DEF RegistrationRequest

\* The message taken no longer counts.
LEMMA TakeCount ==
  ASSUME Inv, NEW ts, Take(ts)
  PROVE  /\ InUp' <= InUp
         /\ Head(up).t \in Completes => InUp' = InUp - 1
<1>1. PICK u : u = up /\ u # <<>> /\ u \in Seq(Up) /\ up' = Tail(u)
  BY DEF Take, Inv, UpOK, Up
<1>2. Count(u, Completes) = Count(Tail(u), Completes) + IF Head(u).t \in Completes THEN 1 ELSE 0
  BY <1>1, CountTail
<1>3. Tail(u) \in Seq(Up)
  BY <1>1
<1>4. Count(Tail(u), Completes) \in Nat
  BY <1>3, PlacesFinite
<1> QED
  BY <1>1, <1>2, <1>4 DEF InUp

\* A handler of an uplink message that leads to no association.
LEMMA HandlerCredit ==
  ASSUME Inv, Inv', Credit, NEW ts, Take(ts), NEW c, c.peiReq => ctx.peiReq, Cheap(c),
         hist'.credit = hist.credit
  PROVE  Credit'
BY TakeCount, CreditKeeps DEF Cheap

LEMMA IdentityResponseCredit ==
  ASSUME Inv, Inv', Credit, IdentityResponse
  PROVE  Credit'
<1>1. Take({"suci", "badSuci", "imei"})
  BY DEF IdentityResponse
<1>2. PICK c : c = Stop(ctx, T3570Asks)
  OBVIOUS
<1>3. CtxOK(c) /\ c.peiReq = ctx.peiReq /\ c.ask # "pei"
  <2>1. CtxOK(c) /\ c.peiReq = ctx.peiReq /\ c.ask = IF ctx.ask \in T3570Asks THEN "none" ELSE ctx.ask
    BY <1>2, StopOK DEF Inv
  <2> QED
    BY <2>1 DEF T3570Asks
<1>4. CASE start_authentication(c) /\ UNCHANGED <<held, hist>>
  BY <1>1, <1>3, <1>4, AuthCheap, HandlerCredit
<1>5. CASE Keep(c) /\ hist' = [hist EXCEPT !.dropped = TRUE]
  BY <1>1, <1>3, <1>5, KeepCheap, HandlerCredit, NotedOK DEF Noted
<1>6. CASE c.peiReq /\ complete_registration([c EXCEPT !.pei = TRUE, !.peiReq = FALSE])
  <2>1. PICK x : x = [c EXCEPT !.pei = TRUE, !.peiReq = FALSE] /\ complete_registration(x)
    BY <1>6
  <2>2. x \in Context /\ x.ask = c.ask /\ x.retries = c.retries /\ x.peiReq = FALSE
    BY <1>3, <2>1 DEF CtxOK, Context
  <2>3. CtxOK(x)
    BY <1>3, <2>2 DEF CtxOK
  <2>4. Cheap(x) /\ hist'.credit >= hist.credit - 1
    BY <2>1, <2>3, CompleteCheap
  <2>5. InCtx = 1 /\ InCtx' = 0
    BY <1>3, <1>6, <2>2, <2>4 DEF InCtx, Cheap
  <2>6. InUp' <= InUp /\ InDown' <= InDown
    BY <1>1, <2>4, TakeCount DEF Cheap
  <2>7. InUp \in Nat /\ InDown \in Nat /\ hist.credit \in Int
    BY CreditTypes
  <2>8. (InUp \in Nat /\ InDown \in Nat /\ hist.credit \in Int)'
    BY CreditTypes, PTL
  <2> QED
    BY <2>4, <2>5, <2>6, <2>7, <2>8 DEF Credit
<1>7. CASE /\ Keep([c EXCEPT !.pei = TRUE])
           /\ hist' = [hist EXCEPT !.dropped = @ \/ ctx.ask = "identity"]
  <2>1. PICK x : x = [c EXCEPT !.pei = TRUE] /\ Keep(x)
    BY <1>7
  <2>2. x.peiReq = c.peiReq
    BY <1>3, <2>1 DEF CtxOK, Context
  <2>3. hist'.credit = hist.credit
    BY <1>7 DEF Inv, BookOK
  <2> QED
    BY <1>1, <1>3, <2>1, <2>2, <2>3, KeepCheap, HandlerCredit
<1> QED
  BY <1>2, <1>4, <1>5, <1>6, <1>7 DEF IdentityResponse

LEMMA AuthenticationResponseCredit ==
  ASSUME Inv, Inv', Credit, AuthenticationResponse
  PROVE  Credit'
<1>1. Take({"authRes"})
  BY DEF AuthenticationResponse
<1>2. PICK c : c = Stop(ctx, T3560Asks)
  OBVIOUS
<1>3. CtxOK(c) /\ c.peiReq = ctx.peiReq
  BY <1>2, StopOK DEF Inv
<1>4. CASE RejectAndRelease(c) /\ UNCHANGED hist
  BY <1>1, <1>3, <1>4, RejectCheap, HandlerCredit
<1>5. CASE AskUe([c EXCEPT !.sec = TRUE], "smc") /\ hist' = [hist EXCEPT !.credit = @ + 1]
  <2>1. PICK x : x = [c EXCEPT !.sec = TRUE] /\ AskUe(x, "smc")
    BY <1>5
  <2>2. x \in Context /\ x.ask = c.ask /\ x.retries = c.retries /\ x.peiReq = c.peiReq
    BY <1>3, <2>1 DEF CtxOK, Context
  <2>3. CtxOK(x) /\ "smc" \in Asks \ {"none"}
    BY <1>3, <2>2 DEF CtxOK, Asks, T3560Asks
  <2>4. InDown' <= InDown + 1 /\ (ctx'.peiReq => ctx.peiReq)
    BY <1>3, <2>1, <2>2, <2>3, AskCheap
  <2>5. hist'.credit = hist.credit + 1
    BY <1>5 DEF Inv, BookOK
  <2>6. InUp \in Nat /\ InDown \in Nat /\ hist.credit \in Int /\ ctx.peiReq \in BOOLEAN
    BY CreditTypes
  <2>7. (InUp \in Nat /\ InDown \in Nat /\ hist.credit \in Int /\ ctx.peiReq \in BOOLEAN)'
    BY CreditTypes, PTL
  <2>8. InUp' <= InUp
    BY <1>1, TakeCount
  <2>9. InCtx' <= InCtx /\ InCtx \in {0, 1} /\ InCtx' \in {0, 1}
    BY <2>4, <2>6, <2>7 DEF InCtx
  <2> QED
    BY <2>4, <2>5, <2>6, <2>7, <2>8, <2>9 DEF Credit
<1> QED
  BY <1>2, <1>4, <1>5 DEF AuthenticationResponse

LEMMA AuthenticationFailureCredit ==
  ASSUME Inv, Inv', Credit, AuthenticationFailure
  PROVE  Credit'
<1>1. Take({"authRetry", "authOther"}) /\ UNCHANGED hist
  BY DEF AuthenticationFailure
<1>2. PICK y : y = [ctx EXCEPT !.fails = IF @ < 2 THEN @ + 1 ELSE @]
  OBVIOUS
<1>3. y \in Context /\ y.ask = ctx.ask /\ y.retries = ctx.retries /\ y.peiReq = ctx.peiReq
  <2>1. ctx \in Context /\ (IF ctx.fails < 2 THEN ctx.fails + 1 ELSE ctx.fails) \in 0..2
    BY DEF Inv, CtxOK, Context
  <2> QED
    BY <1>2, <2>1 DEF Context
<1>4. CtxOK(y)
  BY <1>3 DEF CtxOK, Inv
<1>5. PICK c : c = Stop(y, T3560Asks)
  OBVIOUS
<1>6. CtxOK(c) /\ c.peiReq = ctx.peiReq
  BY <1>3, <1>4, <1>5, StopOK
<1>7. RejectAndRelease(c) \/ start_authentication(c)
  BY <1>2, <1>5 DEF AuthenticationFailure
<1>8. Cheap(c)
  BY <1>6, <1>7, RejectCheap, AuthCheap
<1> QED
  BY <1>1, <1>6, <1>8, HandlerCredit

LEMMA SecurityModeCompleteCredit ==
  ASSUME Inv, Inv', Credit, SecurityModeComplete
  PROVE  Credit'
<1>1. Take(Completes) /\ Head(up).t \in Completes
  BY DEF SecurityModeComplete, Completes, Take
<1>2. PICK y : y = Stop(ctx, T3560Asks)
  OBVIOUS
<1>3. CtxOK(y) /\ y.peiReq = ctx.peiReq
  BY <1>2, StopOK DEF Inv
<1>4. PICK c : c = [y EXCEPT !.pei = @ \/ Head(up).t = "smcCompletePei"]
  OBVIOUS
<1>5. c \in Context /\ c.ask = y.ask /\ c.retries = y.retries /\ c.peiReq = y.peiReq
  BY <1>3, <1>4 DEF CtxOK, Context
<1>6. CtxOK(c)
  BY <1>3, <1>5 DEF CtxOK
<1>7. /\ InUp' = InUp - 1 /\ InUp \in Nat /\ InDown \in Nat /\ hist.credit \in Int
      /\ ctx.peiReq \in BOOLEAN /\ InCtx \in {0, 1}
  BY <1>1, TakeCount, CreditTypes
<1>8. (InUp \in Nat /\ InDown \in Nat /\ hist.credit \in Int /\ ctx.peiReq \in BOOLEAN
       /\ InCtx \in {0, 1})'
  BY CreditTypes, PTL
<1>9. CASE complete_registration(c)
  <2>1. Cheap(c) /\ hist'.credit >= hist.credit - 1
    BY <1>6, <1>9, CompleteCheap
  <2>2. InCtx' <= InCtx
    BY <1>3, <1>5, <1>7, <1>8, <2>1 DEF InCtx, Cheap
  <2> QED
    BY <1>7, <1>8, <2>1, <2>2 DEF Credit, Cheap
<1>10. CASE AskUe([c EXCEPT !.peiReq = TRUE], "pei") /\ UNCHANGED <<held, hist>>
  <2>1. PICK x : x = [c EXCEPT !.peiReq = TRUE] /\ AskUe(x, "pei")
    BY <1>10
  <2>2. x \in Context /\ x.ask = c.ask /\ x.retries = c.retries /\ x.peiReq
    BY <1>5, <2>1 DEF Context
  <2>3. CtxOK(x) /\ "pei" \in Asks \ {"none"}
    BY <1>6, <2>2 DEF CtxOK, Asks, T3570Asks
  <2>4. InDown' <= InDown
    BY <2>1, <2>3, AskCheap DEF Cheap
  <2> QED
    BY <1>7, <1>8, <1>10, <2>4 DEF Credit
<1> QED
  BY <1>2, <1>4, <1>9, <1>10 DEF SecurityModeComplete

LEMMA UplinkRegistrationRequestCredit ==
  ASSUME Inv, Inv', Credit, UplinkRegistrationRequest
  PROVE  Credit'
<1>1. PICK c, kind : c = ctx /\ kind = Head(up).t
  OBVIOUS
<1>2. Take({"periodic", "mobility"}) /\ RegistrationRequest(c, kind) /\ CtxOK(c)
  BY <1>1 DEF UplinkRegistrationRequest, Inv
<1>3. Cheap(c) /\ hist'.credit = hist.credit
  BY <1>2, RegistrationRequestCheap
<1> QED
  BY <1>1, <1>2, <1>3, HandlerCredit

\* The other handlers of uplink messages.
LEMMA OtherHandlersCredit ==
  ASSUME Inv, Inv', Credit,
         \/ SecurityModeFailure \/ RegistrationComplete \/ InitialContextSetupResponse
         \/ InitialContextSetupFailure \/ ServiceRequest \/ DeregistrationRequest
         \/ DeregistrationAccept \/ IgnoreUnknown \/ PduSessionRequest
  PROVE  Credit'
<1>1. PICK ts : Take(ts)
  BY DEF SecurityModeFailure, RegistrationComplete, InitialContextSetupResponse,
         InitialContextSetupFailure, ServiceRequest, DeregistrationRequest,
         DeregistrationAccept, IgnoreUnknown, PduSessionRequest
<1>2. hist'.credit = hist.credit
  BY DEF SecurityModeFailure, RegistrationComplete, InitialContextSetupResponse,
         InitialContextSetupFailure, ServiceRequest, DeregistrationRequest,
         DeregistrationAccept, IgnoreUnknown, PduSessionRequest, finish_deregistration,
         Inv, BookOK
<1>3. PICK c : c = ctx /\ CtxOK(c)
  BY DEF Inv
<1>4. CASE release_ue \/ RejectAndRelease(c)
  BY <1>4, <1>1, <1>2, <1>3, ReleaseCheap, RejectCheap, HandlerCredit
<1>5. CASE UNCHANGED <<ctx, down>>
  BY <1>5, <1>1, <1>2, <1>3, KeepCheap, HandlerCredit DEF Keep
<1>6. ASSUME NEW y, y \in {Stop(c, {"ics"}), Stop(c, Asks)}, NEW x, Keep(x),
             \/ x = [y EXCEPT !.registered = TRUE]
             \/ x = [y EXCEPT !.icsResp = TRUE]
      PROVE  Credit'
  <2>1. CtxOK(y) /\ y.peiReq = c.peiReq
    <3>1. CtxOK(c) /\ (y = Stop(c, {"ics"}) \/ y = Stop(c, Asks))
      BY <1>3, <1>6
    <3> QED
      BY <3>1, StopOK
  <2>2. x.peiReq = y.peiReq
    BY <2>1, <1>6 DEF CtxOK, Context
  <2> QED
    BY <1>1, <1>2, <1>3, <1>6, <2>1, <2>2, KeepCheap, HandlerCredit
<1>7. CASE RegistrationComplete
  BY <1>3, <1>6, <1>7 DEF RegistrationComplete
<1>8. CASE InitialContextSetupResponse
  BY <1>3, <1>6, <1>8 DEF InitialContextSetupResponse
<1> QED
  BY <1>3, <1>4, <1>5, <1>7, <1>8
  DEF SecurityModeFailure, InitialContextSetupFailure, ServiceRequest, DeregistrationRequest,
      DeregistrationAccept, IgnoreUnknown, PduSessionRequest, finish_deregistration

LEMMA InitialUeMessageCredit ==
  ASSUME Inv, Inv', Credit, NEW kind, InitialUeMessage(kind)
  PROVE  Credit'
<1>1. InUp' = InUp /\ InUp \in Nat
  BY CreditTypes DEF InUp, InitialUeMessage
<1>2. CASE UNCHANGED <<ctx, down, hist>>
  <2>1. InDown' = InDown /\ InDown \in Nat
    BY <1>2, CreditTypes DEF InDown
  <2> QED
    BY <1>1, <1>2, <2>1, CreditKeeps
<1>3. CASE RegistrationRequest([Gone EXCEPT !.live = TRUE], kind)
  <2>1. PICK c : c = [Gone EXCEPT !.live = TRUE] /\ RegistrationRequest(c, kind)
    BY <1>3
  <2>2. c.ask = "none" /\ c.peiReq = FALSE
    BY <2>1 DEF Gone
  <2>3. c \in Context
    BY <2>1, GoneOK DEF CtxOK, Context
  <2>4. CtxOK(c)
    BY <2>2, <2>3 DEF CtxOK
  <2>5. Cheap(c) /\ hist'.credit = hist.credit
    BY <2>1, <2>4, RegistrationRequestCheap
  <2> QED
    BY <1>1, <2>2, <2>5, CreditKeeps DEF Cheap
<1> QED
  BY <1>2, <1>3 DEF InitialUeMessage

LEMMA NetworkCredit ==
  ASSUME Inv, Inv', Credit,
         \/ NetworkDereg \/ OtherContextDeregisters \/ NgReset \/ AssociationClosed
         \/ UeContextRelease
  PROVE  Credit'
<1>1. UNCHANGED up /\ hist'.credit = hist.credit
  BY DEF NetworkDereg, OtherContextDeregisters, NgReset, AssociationClosed,
         UeContextRelease, Inv, BookOK
<1>2. InUp' <= InUp /\ InDown \in Nat
  BY <1>1, CreditTypes DEF InUp
<1>3. CASE NetworkDereg
  <2>1. PICK c : c = ctx /\ CtxOK(c) /\ AskUe(c, "dereg")
    BY <1>3 DEF NetworkDereg, Inv
  <2>2. "dereg" \in Asks \ {"none"}
    BY DEF Asks
  <2>3. Cheap(c)
    BY <2>1, <2>2, AskCheap
  <2> QED
    BY <1>1, <1>2, <2>1, <2>3, CreditKeeps DEF Cheap
<1>4. CASE UNCHANGED <<ctx, down>>
  <2>1. InDown' <= InDown
    BY <1>2, <1>4 DEF InDown
  <2> QED
    BY <1>1, <1>2, <1>4, <2>1, CreditKeeps
<1>5. CASE down' = <<>> /\ (ctx' = ctx \/ ctx' = Gone)
  <2>1. Count(<<>>, {"smc"}) = 0
    BY CountNone, EmptyHasNone
  <2>2. InDown' <= InDown
    BY <1>2, <1>5, <2>1 DEF InDown
  <2>3. ctx'.peiReq => ctx.peiReq
    BY <1>5 DEF Gone
  <2> QED
    BY <1>1, <1>2, <2>2, <2>3, CreditKeeps
<1>6. CASE UeContextRelease
  <2>1. Send("release", 0) /\ UNCHANGED ctx /\ "release" \in DownTypes
    BY <1>6 DEF UeContextRelease, DownTypes
  <2>2. InDown' <= InDown
    BY <2>1, SendCheap
  <2> QED
    BY <1>1, <1>2, <2>1, <2>2, CreditKeeps
<1> QED
  BY <1>3, <1>4, <1>5, <1>6 DEF OtherContextDeregisters, NgReset, AssociationClosed

LEMMA RetransmitCredit ==
  ASSUME Inv, Inv', Credit, Retransmit
  PROVE  Credit'
<1>1. UNCHANGED up /\ ctx'.peiReq = ctx.peiReq
  BY DEF Retransmit, Inv, CtxOK, Context
<1>2. PICK t, v : t = ctx.ask /\ v = ctx.vec /\ t \in DownTypes /\ v \in Nat
  <2>1. ctx.ask \in Asks \ {"none"} /\ ctx.vec \in Nat
    BY DEF Retransmit, Inv, CtxOK, Context
  <2> QED
    BY <2>1, RetxBound
<1>3. InDown \in Nat /\ InUp \in Nat /\ InCtx \in {0, 1} /\ hist.credit \in Int
  BY CreditTypes
<1>4. (InDown \in Nat /\ InUp \in Nat /\ InCtx \in {0, 1} /\ hist.credit \in Int)'
  BY CreditTypes, PTL
<1>5. InUp' = InUp /\ InCtx' = InCtx
  BY <1>1 DEF InUp, InCtx
<1>6. InDown' <= InDown + 1 /\ (t # "smc" => InDown' <= InDown)
  <2>1. CASE broken
    <3>1. InDown' = InDown
      BY <2>1 DEF Retransmit, InDown
    <3> QED
      BY <1>3, <3>1
  <2>2. CASE ~broken
    BY <1>2, <2>2, SendCheap DEF Retransmit
  <2> QED
    BY <2>1, <2>2
<1>7. hist'.credit = IF t = "smc" THEN hist.credit + 1 ELSE hist.credit
  BY <1>2 DEF Retransmit, Inv, BookOK
<1> QED
  BY <1>3, <1>4, <1>5, <1>6, <1>7 DEF Credit

LEMMA ExhaustedCredit ==
  ASSUME Inv, Inv', Credit, Exhausted
  PROVE  Credit'
<1>1. UNCHANGED up
  BY DEF Exhausted
<1>2. PICK c : c = Stop(ctx, Asks)
  OBVIOUS
<1>3. CtxOK(c) /\ c.peiReq = ctx.peiReq /\ c.ask = "none"
  <2>1. ctx.ask \in Asks /\ CtxOK(ctx)
    BY DEF Inv, CtxOK, Context
  <2> QED
    BY <1>2, <2>1, StopOK
<1>4. InUp' <= InUp /\ InUp' = InUp
  BY <1>1, CreditTypes DEF InUp
<1>5. CASE Keep([c EXCEPT !.registered = TRUE]) /\ UNCHANGED <<held, hist>>
  <2>1. PICK x : x = [c EXCEPT !.registered = TRUE] /\ Keep(x)
    BY <1>5
  <2>2. x.peiReq = c.peiReq
    BY <1>3, <2>1 DEF CtxOK, Context
  <2>3. Cheap(x)
    BY <2>1, KeepCheap
  <2> QED
    BY <1>3, <1>4, <1>5, <2>2, <2>3, CreditKeeps DEF Cheap
<1>6. CASE release_ue /\ hist' \in {hist, [hist EXCEPT !.dereg = TRUE]}
  <2>1. hist'.credit = hist.credit
    BY <1>6 DEF Inv, BookOK
  <2>2. Cheap(ctx)
    BY <1>6, ReleaseCheap
  <2> QED
    BY <1>4, <2>1, <2>2, CreditKeeps DEF Cheap
<1>7. CASE c.peiReq /\ complete_registration([c EXCEPT !.peiReq = FALSE])
  <2>1. PICK x : x = [c EXCEPT !.peiReq = FALSE] /\ complete_registration(x)
    BY <1>7
  <2>2. x \in Context /\ x.ask = c.ask /\ x.retries = c.retries /\ x.peiReq = FALSE
    BY <1>3, <2>1 DEF CtxOK, Context
  <2>3. CtxOK(x)
    BY <1>3, <2>2 DEF CtxOK
  <2>4. Cheap(x) /\ hist'.credit >= hist.credit - 1
    BY <2>1, <2>3, CompleteCheap
  <2>5. InCtx = 1 /\ InCtx' = 0
    BY <1>3, <1>7, <2>2, <2>4 DEF InCtx, Cheap
  <2>6. InDown' <= InDown
    BY <2>4 DEF Cheap
  <2>7. InUp \in Nat /\ InDown \in Nat /\ hist.credit \in Int
    BY CreditTypes
  <2>8. (InUp \in Nat /\ InDown \in Nat /\ hist.credit \in Int)'
    BY CreditTypes, PTL
  <2> QED
    BY <1>4, <2>4, <2>5, <2>6, <2>7, <2>8 DEF Credit
<1> QED
  BY <1>2, <1>5, <1>6, <1>7 DEF Exhausted

\* Taking a message off the queue to the UE.
LEMMA DownCount ==
  ASSUME Inv, down # <<>>, down' = Tail(down)
  PROVE  /\ InDown' <= InDown
         /\ Head(down).t = "smc" => InDown' = InDown - 1
<1>1. PICK d : d = down /\ d # <<>> /\ d \in Seq([t : DownTypes, vec : Nat]) /\ down' = Tail(d)
  BY DEF Inv, DownOK
<1>2. Count(d, {"smc"}) = Count(Tail(d), {"smc"}) + IF Head(d).t \in {"smc"} THEN 1 ELSE 0
  BY <1>1, CountTail
<1>3. Tail(d) \in Seq([t : DownTypes, vec : Nat])
  BY <1>1
<1>4. Count(Tail(d), {"smc"}) \in Nat
  BY <1>3, PlacesFinite
<1> QED
  BY <1>1, <1>2, <1>4 DEF InDown

LEMMA DeliverCredit ==
  ASSUME Inv, Inv', Credit, Deliver
  PROVE  Credit'
<1>1. down # <<>> /\ down' = Tail(down) /\ UNCHANGED <<ctx, hist>>
  BY DEF Deliver
<1>2. PICK m : m = Head(down) /\ m \in [t : DownTypes, vec : Nat]
  BY <1>1, NextDown
<1>3. PICK s \in Answers(m) : up' = Enqueue(up, s, MaxUp)
  BY <1>2 DEF Deliver
<1>4. s \in Seq(Up) /\ (Has(s, Completes) => m.t = "smc")
  BY <1>2, AnswersOK
<1>5. PICK u : u = up /\ u \in Seq(Up) /\ up' = Enqueue(u, s, MaxUp)
  BY <1>3 DEF Inv, UpOK, Up
<1>6. CASE ~Has(s, Completes)
  <2>1. Count(Enqueue(u, s, MaxUp), Completes) = Count(u, Completes)
    BY <1>4, <1>5, <1>6, CountEnqueueNone
  <2>2. InUp' = InUp /\ InUp \in Nat
    BY <1>5, <2>1, CreditTypes DEF InUp
  <2>3. InUp' <= InUp /\ InDown' <= InDown
    BY <1>1, <2>2, DownCount
  <2> QED
    BY <1>1, <2>3, CreditKeeps
<1>7. CASE Has(s, Completes)
  <2>1. m.t = "smc"
    BY <1>4, <1>7
  <2>2. PICK a \in Up : s = <<a>>
    <3>1. \A t \in UpTypes : Msg(t, 0) \in Up
      BY DEF Msg, Up
    <3> QED
      BY <2>1, <3>1 DEF Answers, UpTypes
  <2>3. PICK k : k = IF a.t \in Completes THEN 1 ELSE 0
    OBVIOUS
  <2>4. Count(Enqueue(u, <<a>>, MaxUp), Completes) <= Count(u, Completes) + k
    BY <1>5, <2>3, CountEnqueue
  <2>5. InUp' <= InUp + k /\ k \in {0, 1}
    BY <1>5, <2>2, <2>3, <2>4 DEF InUp
  <2>6. InDown' = InDown - 1
    BY <1>1, <1>2, <2>1, DownCount
  <2>7. InCtx' = InCtx /\ hist'.credit = hist.credit
    BY <1>1 DEF InCtx
  <2>8. InUp \in Nat /\ InDown \in Nat /\ InCtx \in {0, 1} /\ hist.credit \in Int
    BY CreditTypes
  <2>9. (InUp \in Nat /\ InDown \in Nat /\ InCtx \in {0, 1} /\ hist.credit \in Int)'
    BY CreditTypes, PTL
  <2> QED
    BY <2>5, <2>6, <2>7, <2>8, <2>9 DEF Credit
<1> QED
  BY <1>6, <1>7

LEMMA LoseCredit ==
  ASSUME Inv, Inv', Credit, Lose
  PROVE  Credit'
<1>1. down # <<>> /\ down' = Tail(down) /\ UNCHANGED <<ctx, up, hist>>
  BY DEF Lose
<1>2. InUp' <= InUp /\ InDown' <= InDown
  BY <1>1, DownCount, CreditTypes DEF InUp
<1> QED
  BY <1>1, <1>2, CreditKeeps

LEMMA UeRequestCredit ==
  ASSUME Inv, Inv', Credit, NEW t \in Requests, UeRequest(t)
  PROVE  Credit'
<1>1. UNCHANGED <<ctx, down, hist>> /\ t \in UpTypes /\ t \notin Completes
  BY AmfUeAssumption DEF UeRequest, UpTypes, Completes
<1>2. PICK m \in Up : m.t = t /\ up' = Enqueue(up, <<m>>, MaxUp)
  <2>1. Msg(t, 0) \in Up /\ Msg(t, 0).t = t
    BY <1>1 DEF Msg, Up
  <2> QED
    BY <2>1 DEF UeRequest
<1>3. PICK u : u = up /\ u \in Seq(Up) /\ up' = Enqueue(u, <<m>>, MaxUp)
  BY <1>2 DEF Inv, UpOK, Up
<1>4. <<m>> \in Seq(Up) /\ ~Has(<<m>>, Completes)
  <2>1. <<m>> \in Seq(Up) /\ Len(<<m>>) = 1 /\ <<m>>[1] = m
    BY <1>2
  <2>2. m.t \notin Completes
    BY <1>1, <1>2
  <2> QED
    BY <2>1, <2>2 DEF Has
<1>5. Count(Enqueue(u, <<m>>, MaxUp), Completes) = Count(u, Completes)
  <2>1. ASSUME NEW s \in Seq(Up), ~Has(s, Completes)
        PROVE  Count(Enqueue(u, s, MaxUp), Completes) = Count(u, Completes)
    BY <1>3, <2>1, CountEnqueueNone
  <2> QED
    BY <1>4, <2>1
<1>6. InUp' = InUp /\ InDown' = InDown /\ InUp \in Nat /\ InDown \in Nat
  BY <1>1, <1>3, <1>5, CreditTypes DEF InUp, InDown
<1>7. InUp' <= InUp /\ InDown' <= InDown
  BY <1>6
<1> QED
  BY <1>1, <1>7, CreditKeeps

LEMMA NextCredit ==
  ASSUME Inv, Inv', Credit, [Next]_vars
  PROVE  Credit'
<1>1. CASE Uplink
  BY <1>1, UplinkRegistrationRequestCredit, IdentityResponseCredit,
     AuthenticationResponseCredit, AuthenticationFailureCredit, SecurityModeCompleteCredit,
     OtherHandlersCredit
  DEF Uplink
<1>2. CASE TimerExpiry
  BY <1>2, RetransmitCredit, ExhaustedCredit DEF TimerExpiry
<1>3. CASE UNCHANGED vars
  <2>1. UNCHANGED <<ctx, up, down, hist>>
    BY <1>3 DEF vars
  <2> QED
    BY <2>1 DEF Credit, InDown, InUp, InCtx
<1> QED
  BY <1>1, <1>2, <1>3, InitialUeMessageCredit, NetworkCredit, DeliverCredit, LoseCredit,
     UeRequestCredit
  DEF Next

(***************************************************************************)
(* A context makes no more AM policy associations than Security Mode       *)
(* Commands went out to it, however often the commands, the PEI request    *)
(* and their answers are repeated, lost or crossed: complete_registration  *)
(* spends the command, the completion or the PEI request that led to it.   *)
(***************************************************************************)
THEOREM PoliciesBounded == Spec => []PolicyBound
<1>1. Init => Credit
  <2> SUFFICES ASSUME Init PROVE Credit
    OBVIOUS
  <2>1. Count(<<>>, {"smc"}) = 0 /\ Count(<<>>, Completes) = 0
    BY CountNone, EmptyHasNone
  <2>2. InDown = 0 /\ InUp = 0
    BY <2>1 DEF Init, InDown, InUp
  <2>3. InCtx = 0 /\ hist.credit = 0
    BY DEF Init, InCtx, Gone
  <2> QED
    BY <2>2, <2>3 DEF Credit
<1>2. Inv /\ Inv' /\ Credit /\ [Next]_vars => Credit'
  BY NextCredit
<1>3. Inv /\ Credit => PolicyBound
  <2> SUFFICES ASSUME Inv, Credit PROVE PolicyBound
    OBVIOUS
  <2>1. InDown \in Nat /\ InUp \in Nat /\ InCtx \in {0, 1} /\ hist.credit \in Int
    BY CreditTypes
  <2> QED
    BY <2>1 DEF Credit, PolicyBound
<1> QED
  BY <1>1, <1>2, <1>3, Invariance, PTL DEF Spec

=============================================================================
