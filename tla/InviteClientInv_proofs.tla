----------------------- MODULE InviteClientInv_proofs -----------------------
(***************************************************************************)
(* The rest of the events of the client side of an INVITE, the invariant,  *)
(* and what follows from it.                                               *)
(***************************************************************************)
EXTENDS InviteClient_proofs

(* The ACK, sent by the user agent itself.                                 *)

TxOnly(w, z) ==
  /\ z \in WorldType /\ z.ta = w.ta /\ z.tm = w.tm /\ z.ua = w.ua
  /\ z.ut = w.ut /\ z.st = w.st /\ z.del = w.del /\ z.hist = w.hist
  /\ \A i \in Ta : z.tx[i] = w.tx[i]

LEMMA TxUaIs ==
  ASSUME NEW w \in WorldType, NEW x \in {"idle", "ua"}
  PROVE  LET z == [w EXCEPT !.tx[Ua] = x] IN TxOnly(w, z) /\ z.tx[Ua] = x
<1> DEFINE f == [w.tx EXCEPT ![Ua] = x]
           z == [w EXCEPT !.tx[Ua] = x]
<1>1. w.tx \in [Obj -> {"idle", "ta", "ua"}]
  BY DEF WorldType
<1>2. /\ f \in [Obj -> {"idle", "ta", "ua"}] /\ f[Ua] = x
      /\ \A i \in Ta : f[i] = w.tx[i]
  BY <1>1, Ids
<1>3. z = [w EXCEPT !.tx = f]
  OBVIOUS
<1> HIDE DEF f, z
<1>4. TxOnly(w, z) /\ z.tx[Ua] = x
  BY <1>2, <1>3 DEF WorldType, TxOnly
<1>5. QED
  BY <1>4 DEF z

LEMMA TxUaGood ==
  ASSUME NEW w, Inv(w), w.ua.cur = 0, NEW z, TxOnly(w, z),
         \/ z.tx[Ua] = "idle"
         \/ /\ z.tx[Ua] = "ua" /\ w.ua.msg = "ack"
            /\ w.ua.state = "SendingAck"
  PROVE  Inv(z)
<1>1. /\ Body(w) /\ Steady(w)
      /\ \A i \in Ta : Timed(w.ta, w.tm, w.tx, w.del, i)
  BY DEF Inv, Core, Rest, LetGo
<1>2. /\ z \in WorldType /\ z.ta = w.ta /\ z.tm = w.tm /\ z.ua = w.ua
      /\ z.ut = w.ut /\ z.st = w.st /\ z.del = w.del /\ z.hist = w.hist
      /\ \A i \in Ta : z.tx[i] = w.tx[i]
  BY DEF TxOnly
<1>3. Acks(z.ua, z.tx)
  BY <1>1, <1>2 DEF Body, Acks
<1>4. Made(z.ta, z.tm, z.tx, z.ua, z.st, z.del)
  BY <1>1, <1>2 DEF Body, Made
<1>5. Sending(z.ta, z.tx, z.ua, z.del)
  BY <1>1, <1>2 DEF Body, Sending
<1>6. Body(z)
  BY <1>1, <1>2, <1>3, <1>4, <1>5 DEF Body
<1>7. Steady(z) /\ Alone(z)
  BY <1>1, <1>2 DEF Steady, Alone
<1>8. \A i \in Ta : Timed(z.ta, z.tm, z.tx, z.del, i)
  BY <1>1, <1>2 DEF Timed
<1>9. QED
  BY <1>6, <1>7, <1>8, AloneIsWhole

LEMMA AckMovedGood ==
  ASSUME NEW w, Inv(w), w.ua.state \in {"ResolveAck", "SendingAck"},
         NEW c \in {"ResolveAck", "SendingAck"},
         c = "ResolveAck" => w.tx[Ua] = "idle",
         NEW z, Moved(w, c, z)
  PROVE  Inv(z)
<1>1. Body(w) /\ Core(w) /\ Steady(w)
  BY DEF Inv, Core, Rest
<1>2. /\ UaOnly(w, z) /\ Budget(z.ua)
      /\ z.hist.late => z.ua.secerr
  BY <1>1, MovedOnly
<1>3. /\ z.ta = w.ta /\ z.tm = w.tm /\ z.tx = w.tx
      /\ z.ut = w.ut /\ z.st = w.st /\ z.hist = w.hist
      /\ z.ua.state = c /\ z.ua.stopped = w.ua.stopped
      /\ z.ua.msg = w.ua.msg
      /\ z.ua.cur = w.ua.cur /\ z.ua.held = w.ua.held /\ z.ua.n = w.ua.n
      /\ z.ua.stored = w.ua.stored /\ z.ua.secwait = w.ua.secwait
  BY DEF Moved
<1>4. UaMay(w, z)
  <2>1. Kept(z.ua, z.ut)
    BY <1>1, <1>3 DEF Body, Kept, AckStates
  <2>2. Heard(z.ua, z.hist)
    BY <1>1, <1>3 DEF Body, Heard, AckStates
  <2>3. Acks(z.ua, w.tx)
    BY <1>1, <1>3 DEF Body, Acks, AckStates
  <2>4. Limit(z.ua, w.ta, w.del)
    BY <1>1, <1>3 DEF Body, Limit, Acks
  <2>5. z.ua.secwait /\ w.ua.stopped => w.ua.cur = 0 \/ w.ta[w.ua.cur].over
    BY <1>1, <1>3 DEF Body, Kept
  <2>6. QED
    BY <1>2, <1>3, <2>1, <2>2, <2>3, <2>4, <2>5 DEF UaMay
<1>5. Steady(z)
  BY <1>1, <1>3 DEF Steady, Fresh, Awaits
<1>6. QED
  BY <1>2, <1>4, <1>5, EditGood

(* It is being sent from now on.                                           *)
LEMMA AckSentGood ==
  ASSUME NEW w, Inv(w), w.ua.state \in {"ResolveAck", "SendingAck"},
         w.ua.msg = "ack", NEW v, TxOnly(w, v), v.tx[Ua] = "ua",
         NEW z, Moved(v, "SendingAck", z)
  PROVE  Inv(z)
<1> DEFINE y == [z EXCEPT !.tx = w.tx]
<1>1. /\ z \in WorldType /\ w \in WorldType
      /\ z.ta = w.ta /\ z.tm = w.tm /\ z.tx = v.tx
      /\ z.ut = w.ut /\ z.st = w.st /\ z.del = w.del /\ z.hist = w.hist
  BY DEF Inv, Core, Body, TxOnly, Moved
<1>2. /\ y \in WorldType /\ y.tx = w.tx /\ y.ta = z.ta /\ y.tm = z.tm
      /\ y.ua = z.ua /\ y.ut = z.ut /\ y.st = z.st /\ y.del = z.del
      /\ y.hist = z.hist
  BY <1>1 DEF WorldType
<1> HIDE DEF y
<1>3. Moved(w, "SendingAck", y)
  BY <1>1, <1>2 DEF Moved, TxOnly
<1>4. Inv(y)
  BY <1>3, AckMovedGood
<1>5. TxOnly(y, z) /\ z.tx[Ua] = "ua"
  BY <1>1, <1>2 DEF TxOnly
<1>6. y.ua.cur = 0 /\ y.ua.msg = "ack" /\ y.ua.state = "SendingAck"
  <2>1. w.ua.cur = 0
    BY DEF Inv, Core, Body, Acks, AckStates
  <2>2. QED
    BY <1>3, <2>1 DEF Moved
<1>7. QED
  BY <1>4, <1>5, <1>6, TxUaGood

(* The user agent that runs has, or looks for, an address for the ACK.     *)
AckContext(w) ==
  /\ Inv(w) /\ ~w.ua.stopped
  /\ w.ua.state \in {"ResolveAck", "SendingAck"} /\ w.tx[Ua] = "idle"

LEMMA AckContextIs ==
  ASSUME NEW w, AckContext(w)
  PROVE  /\ w \in WorldType /\ Core(w) /\ Body(w) /\ w.ua.cur = 0
         /\ w.ua.msg \in {"none", "ack"} /\ ~w.ua.secwait
         /\ w.ua.stored = "none" /\ Calm(w)
BY DEF AckContext, Inv, Core, Body, Acks, Kept, AckStates, WorldType, UaType,
       Calm

(* What comes of it.                                                       *)
AckTried(r) ==
  \/ r.left = "no" /\ r.yes /\ Inv(r.w)
  \/ r.left \in {"nomem", "other"} /\ Inv(r.w) /\ ~r.w.ua.secwait

AckOn(w) ==
  Then(SendRequestToNetworkL(w), LAMBDA d :
    Yes([d EXCEPT !.ua.state = "SendingAck"]))

OnAir(w) == [w EXCEPT !.tx[Ua] = "ua"]

LEMMA OnAirIs ==
  ASSUME NEW w \in WorldType
  PROVE  TxOnly(w, OnAir(w)) /\ OnAir(w).tx[Ua] = "ua"
BY TxUaIs DEF OnAir

LEMMA SendAckRequestIs ==
  ASSUME NEW w, AckContext(w), NEW r \in SendRequestToNetworkL(w)
  PROVE  \/ r.left \in {"nomem", "other"} /\ r.w = w
         \/ Done(r) /\ w.ua.msg = "ack" /\ r.w = OnAir(w)
<1>1. w.ua.msg \in {"none", "ack"} /\ w.tx[Ua] = "idle"
  BY AckContextIs DEF AckContext
<1>2. CASE w.ua.msg = "none"
  <2>1. r \in Leave(w, "other")
    BY <1>2 DEF SendRequestToNetworkL
  <2>2. QED
    BY <2>1 DEF Leave
<1>3. CASE w.ua.msg = "ack"
  <2>1. r \in Yes([w EXCEPT !.tx[Ua] = "ua"]) \cup MayLeave("send", w)
    BY <1>1, <1>3 DEF SendRequestToNetworkL, Assert
  <2>2. QED
    BY <1>3, <2>1 DEF Yes, MayLeave, Leave, Done, OnAir
<1>4. QED
  BY <1>1, <1>2, <1>3

LEMMA AckOnGood ==
  ASSUME NEW w, AckContext(w), NEW r \in AckOn(w)
  PROVE  AckTried(r)
<1>1. PICK p \in SendRequestToNetworkL(w) :
        r \in IF p.left = "no" /\ p.yes
              THEN Yes([p.w EXCEPT !.ua.state = "SendingAck"]) ELSE {p}
  BY DEF AckOn, Then
<1>2. CASE p.left \in {"nomem", "other"} /\ p.w = w
  <2>1. r = p
    BY <1>1, <1>2
  <2>2. QED
    BY <1>2, <2>1, AckContextIs DEF AckTried, AckContext
<1>3. CASE Done(p) /\ w.ua.msg = "ack" /\ p.w = OnAir(w)
  <2> DEFINE z == [p.w EXCEPT !.ua.state = "SendingAck"]
  <2>1. r \in Yes(z)
    BY <1>1, <1>3 DEF Done
  <2>2. TxOnly(w, p.w) /\ p.w.tx[Ua] = "ua" /\ p.w \in WorldType
    <3>1. TxOnly(w, OnAir(w)) /\ OnAir(w).tx[Ua] = "ua"
      BY AckContextIs, OnAirIs
    <3>2. QED
      BY <1>3, <3>1 DEF TxOnly
  <2>3. Moved(p.w, "SendingAck", z)
    BY <2>2, MovedIs DEF AckStates
  <2> HIDE DEF z
  <2>4. Inv(z)
    BY <1>3, <2>2, <2>3, AckSentGood DEF AckContext
  <2>5. QED
    BY <2>1, <2>4 DEF Yes, AckTried
<1>4. QED
  BY <1>1, <1>2, <1>3, SendAckRequestIs

-----------------------------------------------------------------------------
(* The ACK is tried again, at the next address or after resolving again.   *)

LEMMA StoreOnlyInv ==
  ASSUME NEW w, Inv(w), NEW z, StoreOnly(w, z)
  PROVE  Inv(z)
<1>1. Core(z) /\ Steady(w) /\ z.ua = w.ua /\ z.ta = w.ta /\ z.tm = w.tm
      /\ z.tx = w.tx /\ z.del = w.del /\ z.hist = w.hist
      /\ z.st.rx = w.ua.cur
  BY DEF StoreOnly, Inv, Rest
<1>2. Steady(z)
  BY <1>1 DEF Steady, Fresh, Awaits
<1>3. ~z.ua.stopped =>
        CurrentEnds(z.ta, z.tm, z.tx, z.ua, z.del, z.hist)
  BY <1>1 DEF Inv, Rest
<1>4. QED
  BY <1>1, <1>2, <1>3 DEF Inv, Rest

AckRenewed(c) == Then(UpdateInfoToStoreL(c, TRUE), AckOn)

LEMMA AckRenewedGood ==
  ASSUME NEW w, AckContext(w), NEW r \in AckRenewed(w)
  PROVE  AckTried(r)
<1>1. PICK p \in UpdateInfoToStoreL(w, TRUE) :
        r \in IF p.left = "no" /\ p.yes THEN AckOn(p.w) ELSE {p}
  BY DEF AckRenewed, Then
<1>2. Core(w) /\ ~w.ua.stopped /\ ~w.ua.secwait
  BY AckContextIs DEF AckContext
<1>3. /\ Done(p) \/ LeftIn(w, p)
      /\ StoreOnly(w, p.w)
  BY <1>2, UpdateInfoToStoreGood
<1>4. Inv(p.w) /\ p.w.ua = w.ua /\ p.w.tx = w.tx
  BY <1>3, StoreOnlyInv DEF AckContext, StoreOnly
<1>5. CASE Done(p)
  <2>1. r \in AckOn(p.w)
    BY <1>1, <1>5 DEF Done
  <2>2. AckContext(p.w)
    BY <1>4 DEF AckContext
  <2>3. QED
    BY <2>1, <2>2, AckOnGood
<1>6. CASE LeftIn(w, p)
  <2>1. p.left \in {"nomem", "other"}
    BY <1>6 DEF LeftIn
  <2>2. r = p
    BY <1>1, <2>1
  <2>3. QED
    BY <1>2, <1>4, <2>1, <2>2 DEF AckTried
<1>7. QED
  BY <1>3, <1>5, <1>6

(* The ACK keeps its branch.                                               *)
LEMMA UpdateViaOfAck ==
  ASSUME NEW w \in WorldType, w.ua.msg = "ack", NEW r \in UpdateViaAndCSeqL(w)
  PROVE  \/ r.left = "nomem" /\ r.w = w
         \/ Done(r) /\ r.w = w
<1> DEFINE n == w.ua.n
           u1 == [w.ua EXCEPT !.n = n]
<1>1. [w EXCEPT !.ua.n = IF w.ua.msg = "invite" THEN @ + 1 ELSE @]
        = [w EXCEPT !.ua = u1]
  OBVIOUS
<1>2. u1 = w.ua
  BY DEF WorldType, UaType
<1>3. [w EXCEPT !.ua = u1] = w
  BY <1>2 DEF WorldType
<1>4. r \in Yes([w EXCEPT !.ua.n =
                   IF w.ua.msg = "invite" THEN @ + 1 ELSE @])
            \cup MayLeave("alloc", w)
  BY DEF UpdateViaAndCSeqL, Assert
<1>5. r \in Yes(w) \cup MayLeave("alloc", w)
  BY <1>1, <1>3, <1>4
<1>6. QED
  BY <1>5 DEF Yes, MayLeave, Leave, Done

LEMMA UpdateAndSendAckGood ==
  ASSUME NEW w, AckContext(w),
         NEW r \in UpdateAndSendRequestL(w, "SendingAck")
  PROVE  AckTried(r)
<1>1. /\ w.ua.msg \in {"none", "ack"} /\ ~w.ua.secwait /\ Inv(w)
      /\ w \in WorldType
  BY AckContextIs DEF AckContext
<1>2. CASE w.ua.msg = "none"
  <2>1. r.left = "other" /\ r.w = w
    BY <1>2, UpdateOfNone
  <2>2. QED
    BY <1>1, <2>1 DEF AckTried
<1>3. CASE w.ua.msg = "ack"
  <2>1. PICK p \in UpdateViaAndCSeqL(w) :
          r \in IF p.left = "no" /\ p.yes
                THEN Then(IF p.w.ua.msg = "ack" THEN Yes(p.w)
                          ELSE Then(DetachCurrentTransactionL(p.w),
                                    CreateTransactionL),
                       LAMBDA b :
                     Then(UpdateInfoToStoreL(b, TRUE), LAMBDA c :
                     Then(SendRequestToNetworkL(c), LAMBDA d :
                       Yes([d EXCEPT !.ua.state = "SendingAck"]))))
                ELSE {p}
    BY DEF UpdateAndSendRequestL, Then
  <2>2. \/ p.left = "nomem" /\ p.w = w
        \/ Done(p) /\ p.w = w
    BY <1>1, <1>3, UpdateViaOfAck
  <2>3. CASE p.left = "nomem" /\ p.w = w
    <3>1. r = p
      BY <2>1, <2>3
    <3>2. QED
      BY <1>1, <2>3, <3>1 DEF AckTried
  <2>4. CASE Done(p) /\ p.w = w
    <3>1. r \in Then(Yes(w), AckRenewed)
      BY <1>3, <2>1, <2>4 DEF Done, AckRenewed, AckOn, Then
    <3>2. r \in AckRenewed(w)
      BY <3>1 DEF Then, Yes
    <3>3. QED
      BY <3>2, AckRenewedGood
  <2>5. QED
    BY <2>2, <2>3, <2>4
<1>4. QED
  BY <1>1, <1>2, <1>3

LEMMA UpdateViaInAck ==
  ASSUME NEW w, AckContext(w), NEW r \in UpdateViaAndCSeqL(w)
  PROVE  \/ r.left \in {"nomem", "other"} /\ r.w = w
         \/ Done(r) /\ r.w = w
<1>1. w.ua.msg \in {"none", "ack"} /\ w \in WorldType
  BY AckContextIs
<1>2. CASE w.ua.msg = "none"
  <2>1. r \in Leave(w, "other")
    BY <1>2 DEF UpdateViaAndCSeqL, Assert
  <2>2. QED
    BY <2>1 DEF Leave
<1>3. CASE w.ua.msg = "ack"
  BY <1>1, <1>3, UpdateViaOfAck
<1>4. QED
  BY <1>1, <1>2, <1>3

(* The state after the resolver was asked again: nothing is kept.          *)
AckResolving(c) ==
  Yes([c EXCEPT !.ua.state = "ResolveAck"]) \cup MayLeave("alloc", c)
Unkept(u) == Yes([u EXCEPT !.ua.stored = "none"])

LEMMA AckResolvingGood ==
  ASSUME NEW w, AckContext(w), NEW p \in AckResolving(w)
  PROVE  AckTried(p) /\ (p.left = "no" => AckContext(p.w))
<1>1. w \in WorldType /\ Inv(w) /\ ~w.ua.secwait
  BY AckContextIs DEF AckContext
<1>2. CASE p \in MayLeave("alloc", w)
  <2>1. p.left = "nomem" /\ p.w = w
    BY <1>2 DEF MayLeave, Leave
  <2>2. QED
    BY <1>1, <2>1 DEF AckTried
<1>3. CASE p \in Yes([w EXCEPT !.ua.state = "ResolveAck"])
  <2> DEFINE z == [w EXCEPT !.ua.state = "ResolveAck"]
  <2>1. p.left = "no" /\ p.yes /\ p.w = z
    BY <1>3 DEF Yes
  <2>2. Moved(w, "ResolveAck", z)
    BY <1>1, MovedIs DEF AckStates
  <2> HIDE DEF z
  <2>3. Inv(z)
    BY <2>2, AckMovedGood DEF AckContext
  <2>4. ~z.ua.stopped /\ z.ua.state = "ResolveAck" /\ z.tx[Ua] = "idle"
    BY <2>2 DEF Moved, AckContext
  <2>5. QED
    BY <2>1, <2>3, <2>4 DEF AckTried, AckContext
<1>4. QED
  BY <1>2, <1>3 DEF AckResolving

LEMMA UnkeptGood ==
  ASSUME NEW w, AckContext(w), NEW r \in Unkept(w)
  PROVE  AckTried(r)
<1> DEFINE z == [w EXCEPT !.ua.stored = "none"]
<1>1. r.left = "no" /\ r.yes /\ r.w = z
  BY DEF Unkept, Yes
<1>2. Stored(w, "none", z)
  BY AckContextIs, StoredIs
<1> HIDE DEF z
<1>3. /\ w \in WorldType /\ Body(w) /\ ~w.ua.secwait /\ Inv(w)
      /\ w.ua.stored = "none"
      /\ w.ua.state \in {"ResolveAck", "SendingAck"}
  BY AckContextIs DEF AckContext
<1>4. w.ut["S"] # "on"
  BY <1>3 DEF Body, Kept
<1>5. Resumes(w, z)
  BY <1>2, <1>3, <1>4 DEF Resumes, Stored, Same
<1>6. QED
  BY <1>1, <1>3, <1>5, ResumesGood DEF AckTried

AckRefound(c) == Then(UpdateInfoToStoreL(c, TRUE), AckResolving)

AckReresolved(v) ==
  Then(UpdateAndResolveL(v, "ResolveAck"), LAMBDA u : Unkept(u))

LEMMA AckResolvedAgainGood ==
  ASSUME NEW w, AckContext(w), NEW r \in UpdateAndResolveL(w, "ResolveAck")
  PROVE  AckTried(r) /\ (r.left = "no" => AckContext(r.w))
<1>1. PICK p \in UpdateViaAndCSeqL(w) :
        r \in IF p.left = "no" /\ p.yes
              THEN Then(DetachCurrentTransactionL(p.w), AckRefound)
              ELSE {p}
  BY DEF UpdateAndResolveL, Then, AckResolving, AckRefound
<1>2. \/ p.left \in {"nomem", "other"} /\ p.w = w
      \/ Done(p) /\ p.w = w
  BY UpdateViaInAck
<1>3. CASE p.left \in {"nomem", "other"} /\ p.w = w
  <2>1. r = p
    BY <1>1, <1>3
  <2>2. QED
    BY <1>3, <2>1, AckContextIs DEF AckTried, AckContext
<1>4. CASE Done(p) /\ p.w = w
  <2>1. r \in Then(Yes(w), AckRefound)
    <3>1. DetachCurrentTransactionL(w) = Yes(w)
      BY AckContextIs DEF DetachCurrentTransactionL
    <3>2. QED
      BY <1>1, <1>4, <3>1 DEF Done
  <2>2. r \in AckRefound(w)
    BY <2>1 DEF Then, Yes
  <2>3. PICK q \in UpdateInfoToStoreL(w, TRUE) :
          r \in IF q.left = "no" /\ q.yes THEN AckResolving(q.w) ELSE {q}
    BY <2>2 DEF Then, AckRefound
  <2>4. Core(w) /\ ~w.ua.stopped /\ ~w.ua.secwait
    BY AckContextIs DEF AckContext
  <2>5. /\ Done(q) \/ LeftIn(w, q)
        /\ StoreOnly(w, q.w)
    BY <2>4, UpdateInfoToStoreGood
  <2>6. Inv(q.w) /\ q.w.ua = w.ua /\ q.w.tx = w.tx
    BY <2>5, StoreOnlyInv DEF AckContext, StoreOnly
  <2>7. CASE Done(q)
    <3>1. r \in AckResolving(q.w)
      BY <2>3, <2>7 DEF Done
    <3>2. AckContext(q.w)
      BY <2>6 DEF AckContext
    <3>3. QED
      BY <3>1, <3>2, AckResolvingGood
  <2>8. CASE LeftIn(w, q)
    <3>1. q.left \in {"nomem", "other"}
      BY <2>8 DEF LeftIn
    <3>2. r = q
      BY <2>3, <3>1
    <3>3. QED
      BY <2>4, <2>6, <3>1, <3>2 DEF AckTried
  <2>9. QED
    BY <2>5, <2>7, <2>8
<1>5. QED
  BY <1>2, <1>3, <1>4

LEMMA AckReresolvedGood ==
  ASSUME NEW w, AckContext(w), NEW r \in AckReresolved(w)
  PROVE  AckTried(r)
<1>1. PICK p \in UpdateAndResolveL(w, "ResolveAck") :
        r \in IF p.left = "no" /\ p.yes THEN Unkept(p.w) ELSE {p}
  BY DEF AckReresolved, Then
<1>2. AckTried(p) /\ (p.left = "no" => AckContext(p.w))
  BY AckResolvedAgainGood
<1>3. CASE p.left = "no" /\ p.yes
  BY <1>1, <1>2, <1>3, UnkeptGood
<1>4. CASE ~(p.left = "no" /\ p.yes)
  BY <1>1, <1>2, <1>4
<1>5. QED
  BY <1>3, <1>4

LEMMA TryNextAddressOfAck ==
  ASSUME NEW w, AckContext(w),
         NEW r \in TryNextAddressL(w, "none", "ResolveAck", "SendingAck")
  PROVE  Declines(w, r) \/ AckTried(r)
<1>1. CASE w.ua.addrs > 0
  <2>1. r \in UpdateAndSendRequestL(Taken(w), "SendingAck")
    BY <1>1 DEF TryNextAddressL, Taken
  <2>2. AckContext(Taken(w))
    <3> DEFINE z == Taken(w)
    <3>1. Core(w)
      BY AckContextIs
    <3>2. /\ Core(z) /\ z.ua.cur = w.ua.cur /\ z.ua.state = w.ua.state
          /\ z.ua.stopped = w.ua.stopped /\ z.tx = w.tx /\ z.st = w.st
      BY <1>1, <3>1, TakenGood
    <3>3. w.ua.cur = 0
      BY AckContextIs
    <3> HIDE DEF z
    <3>4. Steady(z)
      BY <3>2 DEF AckContext, Inv, Rest, Steady, Fresh, Awaits
    <3>5. Rest(z)
      BY <3>2, <3>3, <3>4 DEF Rest, CurrentEnds
    <3>6. Inv(z)
      BY <3>2, <3>5 DEF Inv
    <3>7. QED
      BY <3>2, <3>6 DEF AckContext, z
  <2>3. QED
    BY <2>1, <2>2, UpdateAndSendAckGood
<1>2. CASE ~(w.ua.addrs > 0) /\ w.ua.results
  <2>1. w.ua.stored = "none"
    BY AckContextIs
  <2>2. r \in AckReresolved(w)
    BY <1>2, <2>1 DEF TryNextAddressL, Assert, AckReresolved, Unkept
  <2>3. QED
    BY <2>2, AckReresolvedGood
<1>3. CASE ~(w.ua.addrs > 0) /\ ~w.ua.results
  <2>1. r \in No(w)
    BY <1>3 DEF TryNextAddressL
  <2>2. QED
    BY <2>1 DEF No, Declines
<1>4. QED
  BY <1>1, <1>2, <1>3

(* The address could not be reached.                                       *)
LEMMA UaSendFailedGood ==
  ASSUME NEW w, AckContext(w), w.ua.state = "SendingAck",
         NEW r \in UaSendFailedL(w)
  PROVE  AckTried(r)
<1>1. PICK p \in TryNextAddressL(w, "none", "ResolveAck", "SendingAck") :
        r \in IF p.left = "no" /\ ~p.yes THEN Stop(p.w) ELSE {p}
  BY DEF UaSendFailedL, Otherwise
<1>2. Declines(w, p) \/ AckTried(p)
  BY TryNextAddressOfAck
<1>3. CASE Declines(w, p)
  <2>1. r \in Stop(w)
    BY <1>1, <1>3 DEF Declines
  <2>2. Core(w) /\ ~w.ua.secwait
    BY AckContextIs
  <2>3. Inv(r.w)
    BY <2>1, <2>2, StopIsOver DEF Over
  <2>4. r.left = "no" /\ r.yes
    BY <2>1, <2>2, StopDone
  <2>5. QED
    BY <2>3, <2>4 DEF AckTried
<1>4. CASE AckTried(p) /\ ~(p.left = "no" /\ ~p.yes)
  BY <1>1, <1>4
<1>5. QED
  BY <1>2, <1>3, <1>4 DEF AckTried

LEMMA QuietAck ==
  ASSUME NEW w, Inv(w), w.ua.cur = 0
  PROVE  Inv(Quiet(w)) /\ Quiet(w).ua = w.ua /\ Quiet(w).tx[Ua] = "idle"
<1> DEFINE z == Quiet(w)
<1>1. w \in WorldType
  BY DEF Inv, Core, Body
<1>2. TxOnly(w, z) /\ z.tx[Ua] = "idle" /\ z.ua = w.ua
  BY <1>1, QuietIs DEF TxOnly
<1> HIDE DEF z
<1>3. Inv(z)
  BY <1>2, TxUaGood
<1>4. QED
  BY <1>2, <1>3 DEF z

UaSentRuns(w, ok) ==
  IF w.ua.stopped THEN Yes(Quiet(w))
  ELSE IF ok /\ w.ua.state = "SendingAck" THEN Yes(Quiet(w))
  ELSE IF ok THEN Stop(Quiet(w))
  ELSE Handled(UaSendFailedL(Quiet(w)), LAMBDA v, why : Stop(v))

LEMMA UaSentRunsGood ==
  ASSUME NEW w, Inv(w), w.tx[Ua] = "ua", NEW ok, NEW r \in UaSentRuns(w, ok)
  PROVE  Inv(r.w)
<1> DEFINE z == Quiet(w)
<1>1. w.ua.state = "SendingAck" /\ w.ua.cur = 0
  BY DEF Inv, Core, Body, Acks, AckStates
<1>2. Inv(z) /\ z.ua = w.ua /\ z.tx[Ua] = "idle"
  BY <1>1, QuietAck
<1>3. CASE w.ua.stopped \/ ok
  <2>1. r \in Yes(z)
    BY <1>1, <1>3 DEF UaSentRuns
  <2> HIDE DEF z
  <2>2. QED
    BY <1>2, <2>1 DEF Yes
<1>4. CASE ~(w.ua.stopped \/ ok)
  <2>1. PICK p \in UaSendFailedL(z) :
          r \in IF p.left = "no" THEN {p} ELSE Stop(p.w)
    BY <1>4 DEF UaSentRuns, Handled
  <2>2. AckContext(z) /\ z.ua.state = "SendingAck"
    BY <1>1, <1>2, <1>4 DEF AckContext
  <2> HIDE DEF z
  <2>3. AckTried(p)
    BY <2>1, <2>2, UaSendFailedGood
  <2>4. CASE p.left = "no"
    BY <2>1, <2>3, <2>4 DEF AckTried
  <2>5. CASE p.left # "no"
    <3>1. r \in Stop(p.w) /\ Core(p.w) /\ ~p.w.ua.secwait
      BY <2>1, <2>3, <2>5 DEF AckTried, Inv
    <3>2. QED
      BY <3>1, StopIsOver DEF Over
  <2>6. QED
    BY <2>4, <2>5
<1>5. QED
  BY <1>3, <1>4

LEMMA UaSentStep ==
  ASSUME IInv, NEW ok \in BOOLEAN, UaSent(ok)
  PROVE  IInv'
<1>1. Becomes(UaSentRuns(World, ok)) /\ tx[Ua] = "ua"
  BY WorldIs DEF UaSent, UaSentRuns, Quiet, Handled
<1>2. Inv(World) /\ World.tx[Ua] = "ua"
  BY <1>1, WorldIs DEF IInv
<1>3. \A r \in UaSentRuns(World, ok) : Inv(r.w)
  BY <1>2, UaSentRunsGood
<1>4. QED
  BY <1>1, <1>3, BecomesInv

(* An ICMP error, for a transaction's address or for the ACK's.            *)
LEMMA IgnoredGood ==
  ASSUME NEW S, \A p \in S : Inv(p.w), NEW r \in Handled(S, Ignored)
  PROVE  Inv(r.w)
<1>1. PICK p \in S : r \in IF p.left = "no" THEN {p} ELSE Yes(p.w)
  BY DEF Handled, Ignored
<1>2. QED
  BY <1>1 DEF Yes

IcmpFails(w, b, u) ==
  IF ~u THEN TerminatedL(w, b, "failure") ELSE UaSendFailedL(Quiet(w))

LEMMA IcmpFailsGood ==
  ASSUME NEW w, Inv(w), NEW b \in Ta, Here(w.ta, w.del, b),
         NEW u, u => ~w.ua.stopped /\ w.ua.state = "SendingAck",
         NEW p \in IcmpFails(w, b, u)
  PROVE  Inv(p.w)
<1>1. CASE ~u
  <2>1. p \in TerminatedL(w, b, "failure")
    BY <1>1 DEF IcmpFails
  <2>2. Nearly(w, b)
    BY InvIsNearly
  <2>3. QED
    BY <2>1, <2>2, TerminatedLGood
<1>2. CASE u
  <2> DEFINE z == Quiet(w)
  <2>1. p \in UaSendFailedL(z)
    BY <1>2 DEF IcmpFails
  <2>2. w.ua.cur = 0
    BY <1>2 DEF Inv, Core, Body, Acks, AckStates
  <2>3. Inv(z) /\ z.ua = w.ua /\ z.tx[Ua] = "idle"
    BY <2>2, QuietAck
  <2>4. AckContext(z) /\ z.ua.state = "SendingAck"
    BY <1>2, <2>3 DEF AckContext
  <2> HIDE DEF z
  <2>5. QED
    BY <2>1, <2>4, UaSendFailedGood DEF AckTried
<1>3. QED
  BY <1>1, <1>2

LEMMA IcmpErrorStep ==
  ASSUME IInv, NEW b \in Ta, IcmpError(b)
  PROVE  IInv'
<1> DEFINE S == IcmpFails(World, b, ToUa(b))
<1>1. Becomes(Handled(S, Ignored))
  BY DEF IcmpError, IcmpFails, Quiet, Handled
<1>2. TaLives(b) /\ (ToUa(b) => ~ua.stopped /\ ua.state = "SendingAck")
  BY DEF IcmpError
<1>3. /\ Inv(World) /\ Here(World.ta, World.del, b)
      /\ ToUa(b) => ~World.ua.stopped /\ World.ua.state = "SendingAck"
  BY <1>2, WorldIs DEF IInv, TaLives, Here
<1>4. \A p \in S : Inv(p.w)
  BY <1>3, IcmpFailsGood
<1> HIDE DEF S
<1>5. \A r \in Handled(S, Ignored) : Inv(r.w)
  BY <1>4, IgnoredGood
<1>6. QED
  BY <1>1, <1>5, BecomesInv

(* The resolver has found an address for the ACK.                          *)
AckFilled(v) == Then(FillSecurityParamsL(v), SendRequestToNetworkL)
AckAssigned(v) ==
  Then(Returned(AckFilled(v)), LAMBDA a :
    Yes([a EXCEPT !.ua.state = "SendingAck"]))

(* Where it leaves, or what it is on its way to.                           *)
Filled(v, q) ==
  \/ q.left \in {"nomem", "other"} /\ Inv(q.w) /\ ~q.w.ua.secwait
  \/ Done(q) /\ v.ua.msg = "ack" /\ q.w = OnAir(v)
  \/ q.left = "no" /\ Inv(q.w) /\ q.w.ua.state = v.ua.state

LEMMA AckFilledGood ==
  ASSUME NEW v, AckContext(v), NEW q \in AckFilled(v)
  PROVE  Filled(v, q)
<1>1. PICK p \in FillSecurityParamsL(v) :
        q \in IF p.left = "no" /\ p.yes THEN SendRequestToNetworkL(p.w)
              ELSE {p}
  BY DEF AckFilled, Then
<1>2. Core(v) /\ ~v.ua.secwait /\ Inv(v)
  BY AckContextIs DEF AckContext
<1>3. \/ Done(p) /\ p.w = v
      \/ /\ p.left = "no" /\ ~p.yes /\ Inv(p.w)
         /\ p.w.ua.state = v.ua.state
      \/ p.left = "other" /\ Inv(p.w) /\ ~p.w.ua.secwait
  BY <1>2, FillSecurityParamsGood
<1>4. CASE Done(p) /\ p.w = v
  <2>1. q \in SendRequestToNetworkL(v)
    BY <1>1, <1>4 DEF Done
  <2>2. \/ q.left \in {"nomem", "other"} /\ q.w = v
        \/ Done(q) /\ v.ua.msg = "ack" /\ q.w = OnAir(v)
    BY <2>1, SendAckRequestIs
  <2>3. QED
    BY <1>2, <2>2 DEF Filled
<1>5. CASE ~(p.left = "no" /\ p.yes)
  BY <1>1, <1>3, <1>5 DEF Filled, Done
<1>6. QED
  BY <1>3, <1>4, <1>5 DEF Done

LEMMA AckAssignedGood ==
  ASSUME NEW v, AckContext(v), NEW p \in AckAssigned(v)
  PROVE  Ended(p)
<1>1. PICK a \in Returned(AckFilled(v)) :
        p \in IF a.left = "no" /\ a.yes
              THEN Yes([a.w EXCEPT !.ua.state = "SendingAck"]) ELSE {a}
  BY DEF AckAssigned, Then
<1>2. PICK q \in AckFilled(v) :
        a = [w |-> q.w, left |-> q.left, yes |-> q.left = "no"]
  BY <1>1 DEF Returned
<1>3. Filled(v, q) /\ a.w = q.w /\ a.left = q.left
      /\ (a.left = "no" => a.yes)
  BY <1>2, AckFilledGood
<1>4. CASE q.left \in {"nomem", "other"} /\ Inv(q.w) /\ ~q.w.ua.secwait
  <2>1. p = a
    BY <1>1, <1>3, <1>4
  <2>2. QED
    BY <1>3, <1>4, <2>1 DEF Ended, Inv
<1>5. CASE Done(q) /\ v.ua.msg = "ack" /\ q.w = OnAir(v)
  <2> DEFINE y == OnAir(v)
             z == [y EXCEPT !.ua.state = "SendingAck"]
  <2>1. p \in Yes(z)
    BY <1>1, <1>3, <1>5 DEF Done
  <2>2. TxOnly(v, y) /\ y.tx[Ua] = "ua"
    BY AckContextIs, OnAirIs
  <2> HIDE DEF y
  <2>3. y \in WorldType
    BY <2>2 DEF TxOnly
  <2>4. Moved(y, "SendingAck", z)
    BY <2>3, MovedIs DEF AckStates
  <2> HIDE DEF z
  <2>5. Inv(z)
    BY <1>5, <2>2, <2>4, AckSentGood DEF AckContext
  <2>6. QED
    BY <2>1, <2>5 DEF Yes, Ended
<1>6. CASE q.left = "no" /\ Inv(q.w) /\ q.w.ua.state = v.ua.state
  <2> DEFINE y == q.w
             z == [y EXCEPT !.ua.state = "SendingAck"]
  <2>1. p \in Yes(z)
    BY <1>1, <1>3, <1>6
  <2>2. Inv(y) /\ y.ua.state \in {"ResolveAck", "SendingAck"}
    BY <1>6 DEF AckContext
  <2> HIDE DEF y
  <2>3. y \in WorldType
    BY <2>2 DEF Inv, Core, Body
  <2>4. Moved(y, "SendingAck", z)
    BY <2>3, MovedIs DEF AckStates
  <2> HIDE DEF z
  <2>5. Inv(z)
    BY <2>2, <2>4, AckMovedGood
  <2>6. QED
    BY <2>1, <2>5 DEF Yes, Ended
<1>7. QED
  BY <1>3, <1>4, <1>5, <1>6 DEF Filled

AckResolvedRuns(w, a) == Handled(AckAssigned(FoundIn(w, a)), StopOn)

LEMMA AckResolvedRunsGood ==
  ASSUME NEW w, Inv(w), ~w.ua.stopped, w.ua.state = "ResolveAck",
         NEW a \in Obj, NEW r \in AckResolvedRuns(w, a)
  PROVE  Inv(r.w)
<1> DEFINE v == FoundIn(w, a)
<1>1. Body(w) /\ w.ua.msg # "invite" /\ w.ua.cur = 0 /\ w \in WorldType
  BY DEF Inv, Core, Body, Acks, AckStates
<1>2. w.tx[Ua] = "idle"
  <2>1. w.tx[Ua] \in {"idle", "ta", "ua"}
    BY <1>1, Ids DEF WorldType
  <2>2. w.tx[Ua] # "ua" /\ w.tx[Ua] # "ta"
    BY <1>1 DEF Body, Acks, Sending
  <2>3. QED
    BY <2>1, <2>2
<1>3. /\ Inv(v) /\ ~v.ua.stopped /\ v.ua.state = "ResolveAck"
      /\ v.tx = w.tx
  BY <1>1, FoundIs
<1>4. PICK p \in AckAssigned(v) :
        r \in IF p.left = "no" THEN {p} ELSE StopOn(p.w, p.left)
  BY DEF AckResolvedRuns, Handled
<1> HIDE DEF v
<1>5. AckContext(v)
  BY <1>2, <1>3 DEF AckContext
<1>6. Ended(p)
  BY <1>4, <1>5, AckAssignedGood
<1>7. QED
  BY <1>4, <1>6, StopOnGood

LEMMA AckResolvedStep ==
  ASSUME IInv, NEW a \in 0..1, AckResolved(a)
  PROVE  IInv'
<1>1. /\ Becomes(AckResolvedRuns(World, a)) /\ ~ua.stopped
      /\ ua.state = "ResolveAck"
  BY DEF AckResolved, AckResolvedRuns, AckAssigned, AckFilled, Found, FoundIn,
         Handled, Then
<1>2. /\ Inv(World) /\ ~World.ua.stopped /\ World.ua.state = "ResolveAck"
      /\ a \in Obj
  BY <1>1, WorldIs, InviteClientAssumption DEF IInv, Obj, Ta, Ua
<1>3. \A r \in AckResolvedRuns(World, a) : Inv(r.w)
  BY <1>2, AckResolvedRunsGood
<1>4. QED
  BY <1>1, <1>3, BecomesInv

-----------------------------------------------------------------------------
(* The URI cannot be resolved.                                             *)

(* What the owner hears last, just before the user agent stops.            *)
LastTold(w, z) ==
  /\ z \in WorldType /\ z.ta = w.ta /\ z.tm = w.tm /\ z.tx = w.tx
  /\ z.ua = w.ua /\ z.ut = w.ut /\ z.st = w.st /\ z.del = w.del
  /\ z.hist.ended = w.hist.ended /\ z.hist.cleared = w.hist.cleared
  /\ z.hist.heard \subseteq w.hist.heard \cup {"error"}
  /\ z.hist.late => w.hist.late

LEMMA LastToldStops ==
  ASSUME NEW w, Inv(w), ~w.ua.stopped, w.ua.state = "Resolve",
         NEW z, LastTold(w, z), NEW r \in Stop(z)
  PROVE  Inv(r.w)
<1> DEFINE y == r.w
           h0 == [w.hist EXCEPT !.ended = IF w.ua.owner THEN @ + 1 ELSE @]
           x == [y EXCEPT !.hist = h0]
<1>1. /\ w \in WorldType /\ Core(w) /\ Body(w) /\ w.st.id = "main"
      /\ w.ua.cur = 0 /\ ~w.ua.secwait /\ w.hist \in HistType
  BY DEF Inv, Core, Body, Rest, Steady, Fresh, Ends, Kept, WorldType, UaType
<1>2. z \in WorldType /\ ~z.ua.stopped /\ z.st.id = "main"
      /\ z.hist \in HistType
  BY <1>1 DEF LastTold, WorldType
<1>3. Halted(z, y)
  BY <1>2, StopIs
<1>4. y \in WorldType /\ y.ua = [w.ua EXCEPT !.stopped = TRUE]
  BY <1>3 DEF Halted, LastTold
<1>5. h0 \in HistType
  BY <1>1 DEF HistType
<1>6. y.hist = [z.hist EXCEPT !.ended = IF w.ua.owner THEN @ + 1 ELSE @]
  BY <1>3 DEF Halted, LastTold
<1>7. /\ y.hist.ended = h0.ended /\ y.hist.cleared = h0.cleared
      /\ y.hist.heard \subseteq h0.heard \cup {"error"}
      /\ y.hist.late => h0.late
  BY <1>1, <1>2, <1>6 DEF HistType, LastTold
<1> HIDE DEF h0
<1>8. /\ x \in WorldType /\ x.ta = y.ta /\ x.tm = y.tm /\ x.tx = y.tx
      /\ x.ua = y.ua /\ x.ut = y.ut /\ x.st = y.st /\ x.del = y.del
      /\ x.hist = h0
  BY <1>4, <1>5 DEF WorldType
<1> HIDE DEF x, y
<1>9. Halted(w, x)
  BY <1>3, <1>8 DEF Halted, LastTold, h0
<1>10. Inv(x)
  BY <1>1, <1>9, StoppedGood DEF Halted
<1>11. UaOnly(x, y)
  <2>1. x.ua.n \in Nat
    BY <1>8 DEF WorldType, UaType
  <2>2. QED
    BY <1>4, <1>7, <1>8, <2>1 DEF UaOnly
<1>12. /\ y.ua.stopped /\ y.ua.cur = 0 /\ y.ua.state = "Resolve"
       /\ ~y.ua.secwait
  <2> DEFINE u == w.ua
  <2>1. u \in UaType /\ y.ua = [u EXCEPT !.stopped = TRUE]
        /\ u.cur = 0 /\ u.state = "Resolve" /\ ~u.secwait
    BY <1>1, <1>4 DEF WorldType
  <2> HIDE DEF u
  <2>2. QED
    BY <2>1 DEF UaType
<1>13. UaMay(x, y)
  <2>1. Body(x)
    BY <1>10 DEF Inv, Core
  <2>2. Heard(y.ua, y.hist)
    BY <1>7, <1>8, <1>12, <2>1 DEF Body, Heard
  <2>3. y.hist.late => y.ua.secerr
    BY <1>7, <1>8, <2>1 DEF Body, Ends
  <2>4. QED
    BY <1>8, <1>12, <2>1, <2>2, <2>3 DEF UaMay, Body
<1>14. Core(y)
  BY <1>10, <1>11, <1>13, UaStepGood DEF Inv, Core
<1>15. QED
  BY <1>12, <1>14, StoppedRests DEF y

LEMMA StopWithLastErrorGood ==
  ASSUME NEW w, Inv(w), ~w.ua.stopped,
         w.ua.state \in {"Resolve", "ResolveAck"},
         NEW r \in StopWithLastError(w)
  PROVE  Inv(r.w)
<1>1. /\ w \in WorldType /\ Core(w) /\ Body(w) /\ ~w.ua.secwait
      /\ w.hist.ended = 0 /\ w.hist.ended \in Nat
      /\ w.ua.stored \in Responses \cup {"none"}
      /\ w.ut["S"] # "on"
  BY DEF Inv, Core, Body, Kept, Ends, WorldType, UaType, HistType
<1>2. CASE w.ua.stored = "none"
  <2>1. r \in Stop(w)
    BY <1>2 DEF StopWithLastError, Then, Yes
  <2>2. QED
    BY <1>1, <2>1, StopIsOver DEF Over
<1>3. CASE w.ua.stored # "none"
  <2> DEFINE v == [w EXCEPT !.ua.stored = "none"]
             c == w.ua.stored
  <2>1. r \in Then(Trap(PassMsgToTransactionOwnerL(v, c)), Stop)
    BY <1>3 DEF StopWithLastError, Then
  <2>2. PICK q \in PassMsgToTransactionOwnerL(v, c) : r \in Stop(q.w)
    BY <2>1 DEF Then, Trap, Yes
  <2>3. Stored(w, "none", v)
    BY <1>1, StoredIs
  <2> HIDE DEF v
  <2>4. Resumes(w, v)
    BY <1>1, <2>3 DEF Resumes, Stored, Same
  <2>5. Inv(v)
    BY <2>4, ResumesGood
  <2>6. /\ v \in WorldType /\ Core(v) /\ ~v.ua.secwait /\ ~v.ua.stopped
        /\ v.hist = w.hist /\ v.ua.state = w.ua.state
    BY <1>1, <2>3, <2>5 DEF Stored, Inv
  <2>7. w.ua.state = "Resolve" /\ IsError(c) /\ c \in Responses
    BY <1>1, <1>3 DEF Body, Kept
  <2> HIDE DEF c
  <2>8. \/ q.w = v
        \/ Told(v, c, q.w)
    BY <2>2, <2>6, <2>7, PassMsgToTransactionOwnerGood
  <2>9. CASE q.w = v
    BY <2>2, <2>6, <2>9, StopIsOver DEF Over
  <2>10. CASE Told(v, c, q.w)
    <3>1. Kind(c) = "error"
      BY <2>7 DEF Kind
    <3>2. q.w.hist.late => v.hist.late
      BY <1>1, <2>6, <2>10 DEF Told
    <3>3. LastTold(v, q.w)
      BY <2>10, <3>1, <3>2 DEF Told, LastTold
    <3>4. QED
      BY <2>2, <2>5, <2>6, <2>7, <3>3, LastToldStops
  <2>11. QED
    BY <2>8, <2>9, <2>10
<1>4. QED
  BY <1>2, <1>3

(* The old results go first.                                               *)
NoResults(w) == [w EXCEPT !.ua.results = FALSE, !.ua.addrs = 0]

LEMMA NoResultsGood ==
  ASSUME NEW w, Inv(w)
  PROVE  /\ Inv(NoResults(w)) /\ ~NoResults(w).ua.results
         /\ NoResults(w).ua.addrs = 0
         /\ NoResults(w).ua.stopped = w.ua.stopped
         /\ NoResults(w).ua.state = w.ua.state
<1> DEFINE u == w.ua
           u1 == [u EXCEPT !.results = FALSE, !.addrs = 0]
           z == NoResults(w)
<1>1. w \in WorldType /\ u \in UaType /\ Body(w) /\ Steady(w)
  BY DEF Inv, Core, Body, Rest, WorldType
<1>2. z = [w EXCEPT !.ua = u1]
  BY DEF NoResults
<1> HIDE DEF u
<1>3. /\ u1 \in UaType /\ ~u1.results /\ u1.addrs = 0
      /\ u1.state = u.state /\ u1.stopped = u.stopped
      /\ u1.owner = u.owner /\ u1.msg = u.msg /\ u1.cur = u.cur
      /\ u1.held = u.held /\ u1.n = u.n /\ u1.stored = u.stored
      /\ u1.secwait = u.secwait /\ u1.secerr = u.secerr
  BY <1>1, Ids DEF UaType
<1> HIDE DEF u1, z
<1>4. /\ z \in WorldType /\ z.ua = u1 /\ z.ta = w.ta /\ z.tm = w.tm
      /\ z.tx = w.tx /\ z.ut = w.ut /\ z.st = w.st /\ z.del = w.del
      /\ z.hist = w.hist
  BY <1>1, <1>2, <1>3 DEF WorldType
<1>5. UaOnly(w, z)
  <2>1. u.n \in Nat
    BY <1>1 DEF UaType
  <2>2. QED
    BY <1>3, <1>4, <2>1 DEF UaOnly, u
<1>6. UaMay(w, z)
  <2>1. Budget(z.ua)
    <3> DEFINE n == u.n
               a == u.addrs
    <3>1. n \in Nat /\ a \in Nat
      BY <1>1, Ids DEF UaType
    <3>2. u.msg = "invite" /\ Secure /\ u.stored = "auth" => n + a < MaxTa
      BY <1>1 DEF Body, Budget, u
    <3>3. MaxTa \in Nat
      BY InviteClientAssumption
    <3> HIDE DEF n, a
    <3>4. u.msg = "invite" /\ Secure /\ u.stored = "auth" => n + 0 < MaxTa
      BY <3>1, <3>2, <3>3
    <3>5. QED
      BY <1>3, <1>4, <3>4 DEF Budget, n
  <2>2. Kept(z.ua, z.ut) /\ Heard(z.ua, z.hist)
    BY <1>1, <1>3, <1>4 DEF Body, Kept, Heard, u
  <2>3. Acks(z.ua, w.tx) /\ Limit(z.ua, w.ta, w.del)
    BY <1>1, <1>3, <1>4 DEF Body, Acks, Limit, u
  <2>4. z.hist.late => z.ua.secerr
    BY <1>1, <1>3, <1>4 DEF Body, Ends, u
  <2>5. /\ z.ua.secwait /\ w.ua.stopped =>
              w.ua.cur = 0 \/ w.ta[w.ua.cur].over
        /\ z.ua.state = "WaitEnd" /\ w.ua.cur # 0 => Answered(w.ta[w.ua.cur])
    BY <1>1, <1>3, <1>4 DEF Body, Current, Answered, u
  <2>6. QED
    BY <2>1, <2>2, <2>3, <2>4, <2>5 DEF UaMay
<1>7. Steady(z)
  BY <1>1, <1>3, <1>4 DEF Steady, Fresh, Awaits, u
<1>8. Inv(z)
  BY <1>5, <1>6, <1>7, EditGood
<1>9. QED
  BY <1>3, <1>4, <1>8 DEF z, u

ResolvingRuns(w, resolved) ==
  IF resolved
  THEN Otherwise(Handled(TryNextAddressL(NoResults(w), "none", w.ua.state,
                           IF w.ua.state = "Resolve" THEN "WaitResponse"
                           ELSE "SendingAck"),
                         LAMBDA v, why : No(v)),
                 StopWithLastError)
  ELSE Stop(w)

LEMMA ResolvingRunsGood ==
  ASSUME NEW w, Inv(w), ~w.ua.stopped,
         w.ua.state \in {"Resolve", "ResolveAck"},
         NEW resolved, NEW r \in ResolvingRuns(w, resolved)
  PROVE  Inv(r.w)
<1>1. CASE resolved
  <2> DEFINE z == NoResults(w)
  <2>1. /\ Inv(z) /\ ~z.ua.results /\ z.ua.addrs = 0 /\ ~z.ua.stopped
        /\ z.ua.state \in {"Resolve", "ResolveAck"}
    BY NoResultsGood
  <2> DEFINE T == TryNextAddressL(z, "none", w.ua.state,
                    IF w.ua.state = "Resolve" THEN "WaitResponse"
                    ELSE "SendingAck")
  <2>2. T = No(z)
    BY <2>1 DEF TryNextAddressL
  <2>3. PICK p \in Handled(T, LAMBDA v, why : No(v)) :
          r \in IF p.left = "no" /\ ~p.yes THEN StopWithLastError(p.w)
                ELSE {p}
    BY <1>1 DEF ResolvingRuns, Otherwise
  <2> HIDE DEF T, z
  <2>4. PICK q \in T : p \in IF q.left = "no" THEN {q} ELSE No(q.w)
    BY <2>3 DEF Handled
  <2>5. p.left = "no" /\ ~p.yes /\ p.w = z
    <3>1. q \in No(z)
      BY <2>2
    <3>2. q.left = "no" /\ ~q.yes /\ q.w = z
      BY <3>1 DEF No, Handled
    <3>3. p = q
      BY <2>4, <3>2
    <3>4. QED
      BY <3>2, <3>3
  <2>6. r \in StopWithLastError(z)
    BY <2>3, <2>5
  <2>7. QED
    BY <2>1, <2>6, StopWithLastErrorGood
<1>2. CASE ~resolved
  <2>1. r \in Stop(w)
    BY <1>2 DEF ResolvingRuns
  <2>2. Core(w) /\ ~w.ua.secwait
    BY DEF Inv, Core, Body, Kept
  <2>3. QED
    BY <2>1, <2>2, StopIsOver DEF Over
<1>3. QED
  BY <1>1, <1>2

LEMMA ResolvingFailsStep ==
  ASSUME IInv, NEW resolved \in BOOLEAN, ResolvingFails(resolved)
  PROVE  IInv'
<1>1. /\ Becomes(ResolvingRuns(World, resolved)) /\ ~ua.stopped
      /\ ua.state \in {"Resolve", "ResolveAck"}
  BY WorldIs DEF ResolvingFails, ResolvingRuns, NoResults, Handled, Otherwise
<1>2. /\ Inv(World) /\ ~World.ua.stopped
      /\ World.ua.state \in {"Resolve", "ResolveAck"}
  BY <1>1, WorldIs DEF IInv
<1>3. \A r \in ResolvingRuns(World, resolved) : Inv(r.w)
  BY <1>2, ResolvingRunsGood
<1>4. QED
  BY <1>1, <1>3, BecomesInv

-----------------------------------------------------------------------------
(* The owner sends the ACK.                                                *)

AckMarked(w) == [w EXCEPT !.ua.acked = TRUE, !.ua.owner = TRUE]
AckMade(u) ==
  [u EXCEPT !.ua.msg = "ack", !.ua.results = FALSE, !.ua.addrs = 0,
            !.ua.state = "ResolveAck"]

LEMMA AckMarkedGood ==
  ASSUME NEW w, Inv(w), w.ua.owner
  PROVE  Inv(AckMarked(w)) /\ Unmoved(w, AckMarked(w))
<1> DEFINE u == w.ua
           u1 == [u EXCEPT !.acked = TRUE, !.owner = TRUE]
           z == AckMarked(w)
<1>1. w \in WorldType /\ u \in UaType /\ u.owner = TRUE
  BY DEF Inv, Core, Body, WorldType, UaType
<1>2. z = [w EXCEPT !.ua = u1]
  BY DEF AckMarked
<1> HIDE DEF u
<1>3. /\ u1 \in UaType
      /\ u1.state = u.state /\ u1.stopped = u.stopped
      /\ u1.owner = u.owner /\ u1.msg = u.msg /\ u1.cur = u.cur
      /\ u1.held = u.held /\ u1.n = u.n /\ u1.stored = u.stored
      /\ u1.secwait = u.secwait /\ u1.secerr = u.secerr
      /\ u1.final = u.final /\ u1.addrs = u.addrs
      /\ u1.results = u.results
  BY <1>1 DEF UaType
<1> HIDE DEF u1, z
<1>4. /\ z \in WorldType /\ z.ua = u1 /\ z.ta = w.ta /\ z.tm = w.tm
      /\ z.tx = w.tx /\ z.ut = w.ut /\ z.st = w.st /\ z.del = w.del
      /\ z.hist = w.hist
  BY <1>1, <1>2, <1>3 DEF WorldType
<1>5. Unmoved(w, z)
  BY <1>3, <1>4 DEF Unmoved, Same, u
<1>6. Inv(z)
  BY <1>5, UnmovedInv
<1>7. QED
  BY <1>5, <1>6 DEF z

LEMMA AckMadeGood ==
  ASSUME NEW w, Inv(w), w.ua.state = "WaitAck"
  PROVE  Inv(AckMade(w))
<1> DEFINE u == w.ua
           u1 == [u EXCEPT !.msg = "ack", !.results = FALSE, !.addrs = 0,
                           !.state = "ResolveAck"]
           z == AckMade(w)
<1>1. w \in WorldType /\ u \in UaType /\ Body(w) /\ Steady(w)
      /\ u.state = "WaitAck"
  BY DEF Inv, Core, Body, Rest, WorldType
<1>2. z = [w EXCEPT !.ua = u1]
  BY DEF AckMade
<1> HIDE DEF u
<1>3. /\ u1 \in UaType /\ u1.addrs = 0 /\ u1.msg = "ack"
      /\ u1.state = "ResolveAck" /\ u1.stopped = u.stopped
      /\ u1.owner = u.owner /\ u1.cur = u.cur
      /\ u1.held = u.held /\ u1.n = u.n /\ u1.stored = u.stored
      /\ u1.secwait = u.secwait /\ u1.secerr = u.secerr
  BY <1>1, Ids DEF UaType, AckStates
<1> HIDE DEF u1, z
<1>4. /\ z \in WorldType /\ z.ua = u1 /\ z.ta = w.ta /\ z.tm = w.tm
      /\ z.tx = w.tx /\ z.ut = w.ut /\ z.st = w.st /\ z.del = w.del
      /\ z.hist = w.hist
  BY <1>1, <1>2, <1>3 DEF WorldType
<1>5. UaOnly(w, z)
  <2>1. u.n \in Nat
    BY <1>1 DEF UaType
  <2>2. QED
    BY <1>3, <1>4, <2>1 DEF UaOnly, u
<1>6. UaMay(w, z)
  <2>1. Budget(z.ua)
    BY <1>3, <1>4 DEF Budget
  <2>2. Kept(z.ua, z.ut)
    BY <1>1, <1>3, <1>4 DEF Body, Kept, AckStates, u
  <2>3. Heard(z.ua, z.hist)
    BY <1>1, <1>3, <1>4 DEF Body, Heard, AckStates, u
  <2>4. Acks(z.ua, w.tx)
    BY <1>1, <1>3, <1>4 DEF Body, Acks, AckStates, u
  <2>5. Limit(z.ua, w.ta, w.del)
    BY <1>1, <1>3, <1>4 DEF Body, Limit, u
  <2>6. z.hist.late => z.ua.secerr
    BY <1>1, <1>3, <1>4 DEF Body, Ends, u
  <2>7. /\ ~z.ua.secwait
        /\ z.ua.state # "WaitEnd"
    BY <1>1, <1>3, <1>4 DEF Body, Kept, u
  <2>8. QED
    BY <2>1, <2>2, <2>3, <2>4, <2>5, <2>6, <2>7 DEF UaMay
<1>7. Steady(z)
  BY <1>1, <1>3, <1>4 DEF Steady, Fresh, Awaits, u
<1>8. Inv(z)
  BY <1>5, <1>6, <1>7, EditGood
<1>9. QED
  BY <1>8 DEF z

LEMMA SendFirstAckGood ==
  ASSUME NEW w, Inv(w), w.ua.state = "WaitAck", w.ua.owner,
         NEW p \in SendFirstAckL(w)
  PROVE  Inv(p.w)
<1> DEFINE u == AckMarked(w)
           z == AckMade(u)
<1>1. p \in Leave(w, "other") \cup MayLeave("alloc", u) \cup Yes(z)
  BY DEF SendFirstAckL, AckMarked, AckMade
<1>2. Inv(u) /\ Unmoved(w, u)
  BY AckMarkedGood
<1> HIDE DEF u
<1>3. u.ua.state = "WaitAck"
  BY <1>2 DEF Unmoved
<1>4. Inv(z)
  BY <1>2, <1>3, AckMadeGood
<1> HIDE DEF z
<1>5. QED
  BY <1>1, <1>2, <1>4 DEF Leave, MayLeave, Yes

LEMMA AppSendsAckStep ==
  ASSUME IInv, AppSendsAck
  PROVE  IInv'
<1> DEFINE S == SendFirstAckL(World)
<1>1. Becomes(Handled(S, Ignored)) /\ ua.state = "WaitAck" /\ ua.owner
  BY DEF AppSendsAck, Handled
<1>2. Inv(World) /\ World.ua.state = "WaitAck" /\ World.ua.owner
  BY <1>1, WorldIs DEF IInv
<1>3. \A p \in S : Inv(p.w)
  BY <1>2, SendFirstAckGood
<1> HIDE DEF S
<1>4. \A r \in Handled(S, Ignored) : Inv(r.w)
  BY <1>3, IgnoredGood
<1>5. QED
  BY <1>1, <1>4, BecomesInv

-----------------------------------------------------------------------------
(* The owner withdraws.                                                    *)

OwnerGone(w, z) ==
  /\ z \in WorldType /\ z.tm = w.tm /\ z.ut = w.ut /\ z.st = w.st
  /\ z.del = w.del
  /\ z.hist.cleared = TRUE /\ z.hist.ended = w.hist.ended
  /\ z.hist.heard = w.hist.heard /\ z.hist.late = w.hist.late
  /\ z.ua.owner = FALSE /\ z.ua.stopped = w.ua.stopped
  /\ z.ua.state = w.ua.state /\ z.ua.cur = w.ua.cur
  /\ z.ua.held = w.ua.held /\ z.ua.n = w.ua.n
  /\ z.ua.stored = w.ua.stored /\ z.ua.addrs = w.ua.addrs
  /\ z.ua.secerr = w.ua.secerr
  /\ z.ua.msg \in {w.ua.msg, "none"}
  /\ (z.ua.secwait => w.ua.secwait)
  /\ \A j \in Ta : /\ j # w.ua.cur => z.ta[j] = w.ta[j]
                   /\ z.tx[j] = w.tx[j]
                   /\ z.ta[j].state = w.ta[j].state
                   /\ z.ta[j].indep = w.ta[j].indep
                   /\ w.ta[j].over => z.ta[j].over
                   /\ \/ z.ta[j].over
                      \/ /\ z.ta[j].att = w.ta[j].att
                         /\ z.ta[j].msg = w.ta[j].msg
  /\ \/ z.tx[Ua] = "idle"
     \/ z.tx = w.tx /\ z.ta = w.ta /\ z.ua.msg = w.ua.msg

LEMMA OwnerGoneUa ==
  ASSUME NEW w, Body(w), NEW z, OwnerGone(w, z)
  PROVE  /\ Ends(z.ua, z.st, z.del, z.hist) /\ Kept(z.ua, z.ut)
         /\ Heard(z.ua, z.hist) /\ Acks(z.ua, z.tx) /\ Budget(z.ua)
         /\ Limit(z.ua, z.ta, z.del)
<1>1. Ends(z.ua, z.st, z.del, z.hist)
  BY DEF Body, OwnerGone, Ends
<1>2. Kept(z.ua, z.ut)
  BY DEF Body, OwnerGone, Kept
<1>3. Heard(z.ua, z.hist)
  BY DEF Body, OwnerGone, Heard
<1>4. Acks(z.ua, z.tx)
  BY DEF Body, OwnerGone, Acks
<1>5. Budget(z.ua)
  BY DEF Body, OwnerGone, Budget
<1>6. \A i \in Ta : Runs(z.ta, z.del, i) /\ z.ta[i].att =>
                    Runs(w.ta, w.del, i) /\ w.ta[i].att
  BY DEF OwnerGone, Runs, Here
<1>7. Limit(z.ua, z.ta, z.del)
  BY <1>6 DEF Body, OwnerGone, Limit
<1>8. QED
  BY <1>1, <1>2, <1>3, <1>4, <1>5, <1>7

LEMMA OwnerGoneBody ==
  ASSUME NEW w, Body(w), NEW z, OwnerGone(w, z)
  PROVE  Body(z)
<1>1. Made(z.ta, z.tm, z.tx, z.ua, z.st, z.del)
  BY DEF Body, OwnerGone, Made
<1>2. w.ua.cur \in Obj /\ w.ua.held \in Obj /\ Obj = Ta \cup {0}
  BY Ids DEF Body, WorldType, UaType
<1>3. Current(z.ta, z.ua, z.del)
  BY <1>2 DEF Body, OwnerGone, Current
<1>4. Attached(z.ta, z.ua, z.st, z.del)
  <2>1. ASSUME NEW i \in Ta, Runs(z.ta, z.del, i)
        PROVE  /\ Runs(w.ta, w.del, i) /\ z.ta[i].att = w.ta[i].att
               /\ z.ta[i].state = w.ta[i].state
               /\ z.ta[i].indep = w.ta[i].indep
    BY <2>1 DEF OwnerGone, Runs, Here
  <2>2. z.ua.cur = w.ua.cur /\ z.st = w.st
    BY DEF OwnerGone
  <2>3. QED
    BY <2>1, <2>2 DEF Body, Attached
<1>5. Acked(z.ta)
  BY DEF Body, OwnerGone, Acked
<1>6. Freeing(z.ta, z.del)
  BY DEF Body, OwnerGone, Freeing
<1>7. Sending(z.ta, z.tx, z.ua, z.del)
  <2>1. ASSUME NEW i \in Ta, z.tx[i] # "idle"
        PROVE  z.ta[i] = w.ta[i] /\ z.tx[i] = w.tx[i]
    <3>1. z.tx[i] = w.tx[i] /\ w.ta[i].indep /\ i # 0
      BY <2>1, Ids DEF Body, OwnerGone, Sending
    <3>2. i # w.ua.cur
      BY <3>1 DEF Body, Current
    <3>3. QED
      BY <3>1, <3>2 DEF OwnerGone
  <2>2. z.tx[Ua] = "ta" => w.tx[Ua] = "ta" /\ z.ta = w.ta
    BY DEF OwnerGone
  <2>3. z.ua.cur = w.ua.cur /\ z.del = w.del
    BY DEF OwnerGone
  <2>4. QED
    BY <2>1, <2>2, <2>3 DEF Body, Sending
<1>8. z \in WorldType
  BY DEF OwnerGone
<1>9. QED
  BY <1>1, <1>3, <1>4, <1>5, <1>6, <1>7, <1>8, OwnerGoneUa DEF Body

LEMMA OwnerGoneGood ==
  ASSUME NEW w, Inv(w), NEW z, OwnerGone(w, z)
  PROVE  Inv(z)
<1>1. Body(w) /\ Steady(w) /\ Core(w)
  BY DEF Inv, Core, Rest
<1>2. Body(z)
  BY <1>1, OwnerGoneBody
<1>3. \A i \in Ta : Timed(z.ta, z.tm, z.tx, z.del, i)
  BY <1>1 DEF Core, LetGo, OwnerGone, Timed, Runs, Here
<1>4. Core(z)
  BY <1>2, <1>3 DEF Core, LetGo
<1>5. w.ua.cur \in Obj /\ Obj = Ta \cup {0}
  BY <1>1, Ids DEF Body, WorldType, UaType
<1>6. Steady(z)
  BY <1>1, <1>5 DEF OwnerGone, Steady, Fresh, Awaits
<1>7. ~z.ua.stopped => CurrentEnds(z.ta, z.tm, z.tx, z.ua, z.del, z.hist)
  <2>1. CASE ~z.ua.stopped /\ z.ua.cur # 0 /\ Runs(z.ta, z.del, z.ua.cur)
    <3> DEFINE c == w.ua.cur
    <3>1. /\ c \in Ta /\ c # 0 /\ z.ua.cur = c /\ z.ta[c].state = w.ta[c].state
          /\ z.tm = w.tm /\ Runs(w.ta, w.del, c) /\ z.hist.cleared
          /\ ~w.ua.stopped
      BY <1>5, <2>1 DEF OwnerGone, Runs, Here
    <3>2. /\ w.ta[c].state = "Calling" =>
               w.tm[c]["P"] = "off" /\ w.tm[c]["N"] = "off"
          /\ w.ta[c].state = "Proceeding" => w.tm[c]["P"] = "on"
      BY <3>1 DEF Inv, Rest, CurrentEnds
    <3>3. QED
      BY <3>1, <3>2 DEF CurrentEnds
  <2>2. QED
    BY <2>1 DEF CurrentEnds
<1>8. QED
  BY <1>4, <1>6, <1>7 DEF Inv, Rest

(* One transaction changes, with no timer or transmitter.                  *)
TaNow(v, i, t, z) ==
  /\ z \in WorldType /\ z.ua = v.ua /\ z.ut = v.ut /\ z.st = v.st
  /\ z.del = v.del /\ z.hist = v.hist /\ z.tm = v.tm
  /\ z.ta[i] = t
  /\ \A j \in Ta : j # i => z.ta[j] = v.ta[j]
  /\ \A k \in Obj : z.tx[k] = v.tx[k]

LEMMA TaNowIs ==
  ASSUME NEW v \in WorldType, v.tx[Ua] = "idle", NEW i \in Ta,
         NEW t \in TaType, NEW z,
         z = [v EXCEPT !.ta = [v.ta EXCEPT ![i] = t],
                       !.tx = [v.tx EXCEPT ![Ua] = "idle"]]
  PROVE  TaNow(v, i, t, z)
<1> DEFINE f == [v.ta EXCEPT ![i] = t]
           g == [v.tx EXCEPT ![Ua] = "idle"]
<1>1. /\ f \in [Ta -> TaType] /\ f[i] = t
      /\ \A j \in Ta : j # i => f[j] = v.ta[j]
  BY DEF WorldType
<1>2. /\ g \in [Obj -> {"idle", "ta", "ua"}]
      /\ \A k \in Obj : g[k] = v.tx[k]
  BY Ids DEF WorldType
<1>3. z = [v EXCEPT !.ta = f, !.tx = g]
  OBVIOUS
<1> HIDE DEF f, g
<1>4. /\ z \in WorldType /\ z.ta = f /\ z.tx = g /\ z.ua = v.ua
      /\ z.ut = v.ut /\ z.st = v.st /\ z.del = v.del /\ z.hist = v.hist
      /\ z.tm = v.tm
  BY <1>1, <1>2, <1>3 DEF WorldType
<1>5. QED
  BY <1>1, <1>2, <1>4 DEF TaNow

(* The send buffer is cleared.                                             *)
LEMMA ClearSendBufferIs ==
  ASSUME NEW v \in WorldType, v.tx[Ua] = "idle", NEW i \in Ta,
         ~v.ta[i].indep, v.ta[i].msg # "ack"
  PROVE  TaNow(v, i, [v.ta[i] EXCEPT !.msg = "none"], ClearSendBuffer(v, i))
<1> DEFINE t == v.ta[i]
           t1 == [t EXCEPT !.msg = "none"]
           z == ClearSendBuffer(v, i)
<1>1. t \in TaType
  BY DEF WorldType
<1>2. z = [v EXCEPT !.ta[i].msg = "none", !.tx[Ua] = "idle"]
  BY DEF ClearSendBuffer, TxOf
<1>3. z = [v EXCEPT !.ta = [v.ta EXCEPT ![i] = t1],
                    !.tx = [v.tx EXCEPT ![Ua] = "idle"]]
  BY <1>2
<1>4. t1 \in TaType
  BY <1>1 DEF TaType
<1> HIDE DEF t1, z
<1>5. TaNow(v, i, t1, z)
  BY <1>3, <1>4, TaNowIs
<1>6. QED
  BY <1>5 DEF t1, z

(* The transaction is detached, and ends.                                  *)
LEMMA DetachedEnds ==
  ASSUME NEW v \in WorldType, v.tx[Ua] = "idle", NEW i \in Ta,
         ~v.ta[i].indep, ~v.ta[i].over
  PROVE  TaNow(v, i, [v.ta[i] EXCEPT !.att = FALSE, !.over = TRUE],
               Terminated([v EXCEPT !.ta[i].att = FALSE], i))
<1> DEFINE t == v.ta[i]
           t1 == [t EXCEPT !.att = FALSE]
           t2 == [t EXCEPT !.att = FALSE, !.over = TRUE]
           x == [v EXCEPT !.ta[i].att = FALSE]
           y == Terminated(x, i)
<1>1. t \in TaType /\ ~t.over /\ ~t.indep
  BY DEF WorldType
<1>2. x = [v EXCEPT !.ta = [v.ta EXCEPT ![i] = t1]]
  OBVIOUS
<1> HIDE DEF t
<1>3. /\ t1 \in TaType /\ t2 \in TaType /\ ~t1.over /\ ~t1.indep
      /\ [t1 EXCEPT !.over = TRUE] = t2
  BY <1>1 DEF TaType
<1> DEFINE f == [v.ta EXCEPT ![i] = t1]
<1>4. /\ f \in [Ta -> TaType] /\ f[i] = t1
      /\ [f EXCEPT ![i] = t2] = [v.ta EXCEPT ![i] = t2]
  BY <1>3 DEF WorldType
<1> HIDE DEF t1, t2, x
<1>5. /\ x = [v EXCEPT !.ta = f]
      /\ x \in WorldType /\ x.ta = f /\ x.tx = v.tx
  BY <1>2, <1>4 DEF WorldType
<1> HIDE DEF f
<1>6. y = [x EXCEPT !.ta[i].over = TRUE,
                    !.tx[Ua] = IF @ = "ta" THEN "idle" ELSE @]
  BY <1>3, <1>4, <1>5 DEF Terminated, TxOf
<1>7. y = [x EXCEPT !.ta = [f EXCEPT ![i] = t2],
                    !.tx = [v.tx EXCEPT ![Ua] = "idle"]]
  BY <1>3, <1>4, <1>5, <1>6
<1> HIDE DEF y
<1>8. y = [v EXCEPT !.ta = [v.ta EXCEPT ![i] = t2],
                    !.tx = [v.tx EXCEPT ![Ua] = "idle"]]
  <2> DEFINE h == [v.ta EXCEPT ![i] = t2]
             g == [v.tx EXCEPT ![Ua] = "idle"]
  <2>1. y = [x EXCEPT !.ta = h, !.tx = g]
    BY <1>4, <1>7
  <2> HIDE DEF h, g
  <2>2. y = [v EXCEPT !.ta = h, !.tx = g]
    BY <1>5, <2>1 DEF WorldType
  <2>3. QED
    BY <2>2 DEF h, g
<1>9. TaNow(v, i, t2, y)
  BY <1>3, <1>8, TaNowIs
<1>10. QED
  BY <1>9 DEF t2, y, x, t

OwnerOut(w) == [w EXCEPT !.ua.owner = FALSE, !.hist.cleared = TRUE]
Unsent(w) ==
  [w EXCEPT !.ua.msg = "none", !.ua.secwait = FALSE, !.tx[Ua] = "idle"]

LEMMA OwnerOutIs ==
  ASSUME NEW w \in WorldType
  PROVE  OwnerGone(w, OwnerOut(w)) /\ OwnerOut(w).ta = w.ta
<1> DEFINE u1 == [w.ua EXCEPT !.owner = FALSE]
           h1 == [w.hist EXCEPT !.cleared = TRUE]
           z == OwnerOut(w)
<1>1. z = [w EXCEPT !.ua = u1, !.hist = h1]
  BY DEF OwnerOut
<1>2. w.ua \in UaType /\ w.hist \in HistType
  BY DEF WorldType
<1>3. /\ u1 \in UaType /\ u1.owner = FALSE
      /\ u1.state = w.ua.state /\ u1.stopped = w.ua.stopped
      /\ u1.msg = w.ua.msg /\ u1.cur = w.ua.cur
      /\ u1.held = w.ua.held /\ u1.n = w.ua.n /\ u1.stored = w.ua.stored
      /\ u1.secwait = w.ua.secwait /\ u1.secerr = w.ua.secerr
      /\ u1.addrs = w.ua.addrs
  <2> DEFINE u == w.ua
  <2>1. u \in UaType
    BY <1>2
  <2> HIDE DEF u
  <2>2. LET v == [u EXCEPT !.owner = FALSE] IN
        /\ v \in UaType /\ v.owner = FALSE
        /\ v.state = u.state /\ v.stopped = u.stopped
        /\ v.msg = u.msg /\ v.cur = u.cur
        /\ v.held = u.held /\ v.n = u.n /\ v.stored = u.stored
        /\ v.secwait = u.secwait /\ v.secerr = u.secerr
        /\ v.addrs = u.addrs
    BY <2>1 DEF UaType
  <2>3. QED
    BY <2>2 DEF u
<1>4. /\ h1 \in HistType /\ h1.cleared = TRUE
      /\ h1.ended = w.hist.ended /\ h1.heard = w.hist.heard
      /\ h1.late = w.hist.late
  BY <1>2 DEF HistType
<1> HIDE DEF u1, h1, z
<1>5. /\ z \in WorldType /\ z.ua = u1 /\ z.hist = h1 /\ z.ta = w.ta
      /\ z.tm = w.tm /\ z.tx = w.tx /\ z.ut = w.ut /\ z.st = w.st
      /\ z.del = w.del
  BY <1>1, <1>3, <1>4 DEF WorldType
<1>6. OwnerGone(w, z)
  BY <1>3, <1>4, <1>5 DEF OwnerGone
<1>7. QED
  BY <1>5, <1>6 DEF z

LEMMA UnsentIs ==
  ASSUME NEW w \in WorldType
  PROVE  LET z == Unsent(OwnerOut(w)) IN
         /\ OwnerGone(w, z) /\ z.ta = w.ta /\ z.tx[Ua] = "idle"
         /\ z.ua.secwait = FALSE
<1> DEFINE x == OwnerOut(w)
           u1 == [x.ua EXCEPT !.msg = "none", !.secwait = FALSE]
           g == [x.tx EXCEPT ![Ua] = "idle"]
           z == Unsent(x)
<1>1. z = [x EXCEPT !.ua = u1, !.tx = g]
  BY DEF Unsent
<1>2. OwnerGone(w, x) /\ x.ta = w.ta
  BY OwnerOutIs
<1> HIDE DEF x
<1>3. /\ x \in WorldType /\ x.ua \in UaType
      /\ x.tx \in [Obj -> {"idle", "ta", "ua"}]
  BY <1>2 DEF OwnerGone, WorldType
<1>4. /\ u1 \in UaType /\ u1.owner = x.ua.owner
      /\ u1.state = x.ua.state /\ u1.stopped = x.ua.stopped
      /\ u1.msg = "none" /\ u1.cur = x.ua.cur
      /\ u1.held = x.ua.held /\ u1.n = x.ua.n /\ u1.stored = x.ua.stored
      /\ u1.secwait = FALSE /\ u1.secerr = x.ua.secerr
      /\ u1.addrs = x.ua.addrs
  <2> DEFINE u == x.ua
  <2>1. u \in UaType
    BY <1>3
  <2> HIDE DEF u
  <2>2. LET v == [u EXCEPT !.msg = "none", !.secwait = FALSE] IN
        /\ v \in UaType /\ v.owner = u.owner
        /\ v.state = u.state /\ v.stopped = u.stopped
        /\ v.msg = "none" /\ v.cur = u.cur
        /\ v.held = u.held /\ v.n = u.n /\ v.stored = u.stored
        /\ v.secwait = FALSE /\ v.secerr = u.secerr
        /\ v.addrs = u.addrs
    BY <2>1 DEF UaType
  <2>3. QED
    BY <2>2 DEF u
<1>5. /\ g \in [Obj -> {"idle", "ta", "ua"}] /\ g[Ua] = "idle"
      /\ \A i \in Ta : g[i] = x.tx[i]
  BY <1>3, Ids
<1> HIDE DEF u1, g, z
<1>6. /\ z \in WorldType /\ z.ua = u1 /\ z.hist = x.hist /\ z.ta = x.ta
      /\ z.tm = x.tm /\ z.tx = g /\ z.ut = x.ut /\ z.st = x.st
      /\ z.del = x.del
  BY <1>1, <1>3, <1>4, <1>5 DEF WorldType
<1>7. OwnerGone(w, z)
  BY <1>2, <1>4, <1>5, <1>6 DEF OwnerGone
<1>8. QED
  BY <1>2, <1>4, <1>5, <1>6, <1>7 DEF z, x

(* What becomes of the current transaction then.                           *)
OwnerMay(t, s) ==
  /\ s.state = t.state /\ s.indep = t.indep /\ (t.over => s.over)
  /\ \/ s.over
     \/ s.att = t.att /\ s.msg = t.msg

LEMMA OwnerGoneTa ==
  ASSUME NEW w \in WorldType, NEW v, OwnerGone(w, v), v.ta = w.ta,
         v.tx[Ua] = "idle", w.ua.cur \in Ta,
         NEW s, OwnerMay(w.ta[w.ua.cur], s),
         NEW z, TaNow(v, w.ua.cur, s, z)
  PROVE  OwnerGone(w, z) /\ z.ua = v.ua
<1>1. /\ z \in WorldType /\ z.ua = v.ua /\ z.ut = v.ut /\ z.st = v.st
      /\ z.del = v.del /\ z.hist = v.hist /\ z.tm = v.tm
      /\ z.tx[Ua] = "idle"
  BY Ids DEF TaNow
<1>2. ASSUME NEW j \in Ta
      PROVE  /\ j # w.ua.cur => z.ta[j] = w.ta[j]
             /\ z.tx[j] = w.tx[j]
             /\ z.ta[j].state = w.ta[j].state
             /\ z.ta[j].indep = w.ta[j].indep
             /\ w.ta[j].over => z.ta[j].over
             /\ \/ z.ta[j].over
                \/ /\ z.ta[j].att = w.ta[j].att
                   /\ z.ta[j].msg = w.ta[j].msg
  <2>1. z.tx[j] = w.tx[j]
    BY Ids DEF TaNow, OwnerGone
  <2>2. CASE j # w.ua.cur
    BY <2>1, <2>2 DEF TaNow
  <2>3. CASE j = w.ua.cur
    BY <2>1, <2>3 DEF TaNow, OwnerMay
  <2>4. QED
    BY <2>2, <2>3
<1>3. OwnerGone(w, z)
  BY <1>1, <1>2 DEF OwnerGone
<1>4. QED
  BY <1>1, <1>3

LEMMA TaNowTrans ==
  ASSUME NEW v, NEW i \in Ta, NEW t, NEW y, TaNow(v, i, t, y),
         NEW s, NEW z, TaNow(y, i, s, z)
  PROVE  TaNow(v, i, s, z)
BY DEF TaNow

(* The owner has withdrawn, and the user agent stops or waits on.          *)
LEMMA OwnerGoneEnds ==
  ASSUME NEW w, Inv(w), NEW z, OwnerGone(w, z), z.ua.secwait = FALSE,
         NEW r, r \in Stop(z) \/ r \in Yes(z)
  PROVE  Inv(r.w)
<1>1. Inv(z) /\ Core(z) /\ ~z.ua.secwait
  BY OwnerGoneGood DEF Inv
<1>2. CASE r \in Stop(z)
  BY <1>1, <1>2, StopIsOver DEF Over
<1>3. CASE r \in Yes(z)
  BY <1>1, <1>3 DEF Yes
<1>4. QED
  BY <1>2, <1>3

LEMMA DetachOutgoingMsgGood ==
  ASSUME NEW w, Inv(w), NEW r \in DetachOutgoingMsg(OwnerOut(w))
  PROVE  Inv(r.w)
<1> DEFINE x == OwnerOut(w)
           v == Unsent(x)
           i == w.ua.cur
           u == IF i = 0 THEN v ELSE ClearSendBuffer(v, i)
           e == Terminated([u EXCEPT !.ta[i].att = FALSE], i)
<1>1. w \in WorldType /\ i \in Obj /\ Obj = Ta \cup {0}
  BY Ids DEF Inv, Core, Body, WorldType, UaType
<1>2. OwnerGone(w, v) /\ v.ta = w.ta /\ v.tx[Ua] = "idle"
      /\ v.ua.secwait = FALSE
  BY <1>1, UnsentIs
<1>3. x.ua.cur = i
  BY <1>1, OwnerOutIs DEF OwnerGone
<1>4. r \in IF i # 0 /\ ~CanContinueWithoutOutgoingMsg(u, i) THEN Stop(e)
            ELSE IF u.ua.state = "WaitEnd" THEN Yes(u) ELSE Stop(u)
  BY <1>3 DEF DetachOutgoingMsg, Unsent
<1>5. CASE i = 0
  <2>1. r \in Stop(v) \/ r \in Yes(v)
    BY <1>4, <1>5
  <2> HIDE DEF v
  <2>2. QED
    BY <1>2, <2>1, OwnerGoneEnds
<1>6. CASE i # 0
  <2> DEFINE t == v.ta[i]
             t1 == [t EXCEPT !.msg = "none"]
             t2 == [t1 EXCEPT !.att = FALSE, !.over = TRUE]
  <2>1. /\ i \in Ta /\ v \in WorldType /\ t \in TaType /\ ~t.indep
        /\ t = w.ta[i]
    BY <1>1, <1>2, <1>6 DEF Inv, Core, Body, Current, OwnerGone, WorldType
  <2>2. u = ClearSendBuffer(v, i)
    BY <1>6
  <2>3. r \in IF ~CanContinueWithoutOutgoingMsg(u, i) THEN Stop(e)
              ELSE IF u.ua.state = "WaitEnd" THEN Yes(u) ELSE Stop(u)
    BY <1>4, <1>6
  <2> HIDE DEF v, u, x
  <2>4. CASE t.msg = "ack"
    <3>1. u = v
      BY <2>2, <2>4 DEF ClearSendBuffer
    <3>2. CanContinueWithoutOutgoingMsg(u, i)
      BY <2>4, <3>1 DEF CanContinueWithoutOutgoingMsg
    <3>3. r \in Stop(v) \/ r \in Yes(v)
      BY <2>3, <3>1, <3>2
    <3>4. QED
      BY <1>2, <3>3, OwnerGoneEnds
  <2>5. CASE t.msg # "ack"
    <3>1. TaNow(v, i, t1, u)
      BY <1>2, <2>1, <2>2, <2>5, ClearSendBufferIs
    <3>2. /\ t1 \in TaType /\ t1.msg = "none" /\ t1.over = t.over
          /\ t1.state = t.state /\ t1.indep = t.indep /\ t1.att = t.att
      <4> DEFINE s == t
      <4>1. s \in TaType
        BY <2>1
      <4> HIDE DEF t, s
      <4>2. LET k == [s EXCEPT !.msg = "none"] IN
            /\ k \in TaType /\ k.msg = "none" /\ k.over = s.over
            /\ k.state = s.state /\ k.indep = s.indep /\ k.att = s.att
        BY <4>1 DEF TaType
      <4>3. QED
        BY <4>2 DEF s
    <3> HIDE DEF t1
    <3>3. u \in WorldType /\ u.ta[i] = t1 /\ u.tx[Ua] = "idle"
      BY <1>2, <3>1, Ids DEF TaNow
    <3>4. CASE t.over
      <4>1. CanContinueWithoutOutgoingMsg(u, i)
        BY <3>2, <3>3, <3>4 DEF CanContinueWithoutOutgoingMsg
      <4>2. OwnerMay(w.ta[i], t1)
        BY <2>1, <3>2, <3>4 DEF OwnerMay
      <4>3. OwnerGone(w, u) /\ u.ua = v.ua
        BY <1>1, <1>2, <2>1, <3>1, <4>2, OwnerGoneTa
      <4>4. r \in Stop(u) \/ r \in Yes(u)
        BY <2>3, <4>1
      <4>5. QED
        BY <1>2, <4>3, <4>4, OwnerGoneEnds
    <3>5. CASE ~t.over
      <4>1. ~CanContinueWithoutOutgoingMsg(u, i)
        BY <3>2, <3>3, <3>5 DEF CanContinueWithoutOutgoingMsg
      <4>2. r \in Stop(e)
        BY <2>3, <4>1
      <4>3. TaNow(u, i, [u.ta[i] EXCEPT !.att = FALSE, !.over = TRUE], e)
        BY <2>1, <3>2, <3>3, <3>5, DetachedEnds
      <4>4. TaNow(u, i, t2, e)
        BY <3>3, <4>3
      <4>5. t2.over /\ t2.state = t1.state /\ t2.indep = t1.indep
        BY <3>2 DEF TaType
      <4> HIDE DEF t2, e
      <4>6. TaNow(v, i, t2, e)
        BY <2>1, <3>1, <4>4, TaNowTrans
      <4>7. OwnerMay(w.ta[i], t2)
        BY <2>1, <3>2, <4>5 DEF OwnerMay
      <4>8. OwnerGone(w, e) /\ e.ua = v.ua
        BY <1>1, <1>2, <2>1, <4>6, <4>7, OwnerGoneTa
      <4>9. QED
        BY <1>2, <4>2, <4>8, OwnerGoneEnds
    <3>6. QED
      BY <3>4, <3>5
  <2>6. QED
    BY <2>4, <2>5
<1>7. QED
  BY <1>5, <1>6

OwnerLeaves(w) ==
  IF w.ua.owns THEN Yes(OwnerOut(w)) ELSE DetachOutgoingMsg(OwnerOut(w))

LEMMA OwnerLeavesGood ==
  ASSUME NEW w, Inv(w), NEW r \in OwnerLeaves(w)
  PROVE  Inv(r.w)
<1>1. CASE w.ua.owns
  <2> DEFINE z == OwnerOut(w)
  <2>1. r \in Yes(z)
    BY <1>1 DEF OwnerLeaves
  <2>2. OwnerGone(w, z)
    BY OwnerOutIs DEF Inv, Core, Body
  <2> HIDE DEF z
  <2>3. Inv(z)
    BY <2>2, OwnerGoneGood
  <2>4. QED
    BY <2>1, <2>3 DEF Yes
<1>2. CASE ~w.ua.owns
  BY <1>2, DetachOutgoingMsgGood DEF OwnerLeaves
<1>3. QED
  BY <1>1, <1>2

LEMMA ClearTransactionOwnerStep ==
  ASSUME IInv, ClearTransactionOwner
  PROVE  IInv'
<1>1. Becomes(OwnerLeaves(World))
  BY WorldIs DEF ClearTransactionOwner, OwnerLeaves, OwnerOut
<1>2. Inv(World)
  BY DEF IInv
<1>3. \A r \in OwnerLeaves(World) : Inv(r.w)
  BY <1>2, OwnerLeavesGood
<1>4. QED
  BY <1>1, <1>3, BecomesInv

-----------------------------------------------------------------------------
(* The invariant.                                                          *)

(* Where the user agent starts: nothing sent yet, nothing kept.            *)
LEMMA InitInv ==
  ASSUME Init
  PROVE  IInv
<1>1. /\ ta = [i \in Ta |-> NoTa]
      /\ tm = [i \in Ta |-> [t \in TaTimers |-> "off"]]
      /\ tx = [k \in Obj |-> "idle"]
      /\ ut = [t \in UaTimers |-> "off"]
      /\ st = [id |-> "main", rx |-> Ua, branch |-> 1, ind |-> {}]
      /\ del = [doomed |-> {}, marked |-> {}, gone |-> {}]
      /\ hist = [ended |-> 0, heard |-> {}, late |-> FALSE,
                 cleared |-> FALSE]
  BY DEF Init
<1>2. /\ ua \in UaType
      /\ ua.state = "Resolve" /\ ~ua.stopped /\ ua.owner
      /\ ua.msg = "invite" /\ ua.cur = 0 /\ ua.held = 0 /\ ua.n = 1
      /\ ua.stored = "none" /\ ~ua.secwait /\ ua.addrs = 0
  BY InviteClientAssumption DEF Init, UaType, Obj, Ua, AckStates, Responses
<1>3. NoTa \in TaType
  BY DEF NoTa, TaType
<1>4. World \in WorldType
  <2>1. ta \in [Ta -> TaType] /\ tm \in [Ta -> [TaTimers -> TimerType]]
    BY <1>1, <1>3 DEF TimerType
  <2>2. /\ tx \in [Obj -> {"idle", "ta", "ua"}]
        /\ ut \in [UaTimers -> TimerType]
    BY <1>1 DEF TimerType
  <2>3. st \in StType /\ del \in DelType /\ hist \in HistType
    BY <1>1, BranchIs, InviteClientAssumption
       DEF StType, Branches, DelType, HistType, Obj
  <2>4. QED
    BY <1>2, <2>1, <2>2, <2>3 DEF World, WorldType
<1>5. \A i \in Ta : ta[i] = NoTa /\ ~Runs(ta, del, i)
  BY <1>1 DEF Runs, Here, NoTa
<1>6. Ends(ua, st, del, hist)
  BY <1>1, <1>2 DEF Ends, Dying
<1>7. Kept(ua, ut) /\ Heard(ua, hist)
  BY <1>1, <1>2 DEF Kept, Heard, UaTimers
<1>8. Acks(ua, tx)
  BY <1>1, <1>2 DEF Acks, AckStates, Obj
<1>9. Budget(ua) /\ Limit(ua, ta, del)
  BY <1>2, InviteClientAssumption DEF Budget, Limit
<1>10. Made(ta, tm, tx, ua, st, del)
  <2> SUFFICES ASSUME NEW i \in Ta
               PROVE  /\ ta[i] = NoTa /\ i \notin Dying(del) \cup del.gone
                      /\ i # ua.cur /\ i # ua.held /\ i \notin st.ind
                      /\ tx[i] = "idle"
                      /\ \A k \in TaTimers : tm[i][k] = "off"
    BY <1>5 DEF Made, NoTa
  <2>1. ta[i] = NoTa /\ tx[i] = "idle" /\ i \notin st.ind
    BY <1>1, Ids
  <2>2. \A k \in TaTimers : tm[i][k] = "off"
    BY <1>1
  <2>3. i \notin Dying(del) \cup del.gone
    BY <1>1 DEF Dying
  <2>4. QED
    BY <1>2, <2>1, <2>2, <2>3, Ids
<1>11. Current(ta, ua, del) /\ Attached(ta, ua, st, del)
  BY <1>2, <1>5 DEF Current, Attached
<1>12. Acked(ta)
  BY <1>5 DEF Acked, NoTa
<1>13. Freeing(ta, del)
  BY <1>1 DEF Freeing, Dying
<1>14. Sending(ta, tx, ua, del)
  BY <1>1, Ids DEF Sending
<1>15. LetGo(ta, tm, tx, del)
  BY <1>5 DEF LetGo, Timed
<1>16. Core(World)
  BY <1>4, <1>6, <1>7, <1>8, <1>9, <1>10, <1>11, <1>12, <1>13, <1>14, <1>15,
     WorldIs DEF Core, Body
<1>17. Steady(World)
  <2>1. Fresh(ta, ua) /\ Awaits(ta, ua)
    BY <1>2, <1>5 DEF Fresh, Awaits, NoTa
  <2>2. st.rx = ua.cur
    BY <1>1, <1>2 DEF Ua
  <2>3. QED
    BY <1>2, <2>1, <2>2, WorldIs DEF Steady
<1>18. CurrentEnds(ta, tm, tx, ua, del, hist)
  BY <1>2 DEF CurrentEnds
<1>19. QED
  BY <1>16, <1>17, <1>18, WorldIs DEF IInv, Inv, Rest

(* Every event preserves it, whatever leaves inside its handler.           *)
LEMMA NextInv ==
  ASSUME IInv, [Next]_vars
  PROVE  IInv'
<1>1. CASE \E k \in Obj :
              TaSent(k, TRUE) \/ ("fail" \in Faults /\ TaSent(k, FALSE))
  BY <1>1, TaSentStep
<1>2. CASE UaSent(TRUE) \/ ("fail" \in Faults /\ UaSent(FALSE))
  BY <1>2, UaSentStep
<1>3. CASE \E i \in Ta, t \in TaTimers : TaTimer(i, t)
  BY <1>3, TaTimerStep
<1>4. CASE SIPSecTimer
  BY <1>4, SIPSecTimerStep
<1>5. CASE Wait2xxTimer
  BY <1>5, Wait2xxTimerStep
<1>6. CASE \E b \in Ta, c \in Responses : Respond(b, c)
  BY <1>6, RespondStep
<1>7. CASE \E addrs \in 0..MaxTa : Resolved(addrs)
  BY <1>7, ResolvedStep
<1>8. CASE \E addrs \in 0..1 : AckResolved(addrs)
  BY <1>8, AckResolvedStep
<1>9. CASE \E resolved \in BOOLEAN : ResolvingFails(resolved)
  BY <1>9, ResolvingFailsStep
<1>10. CASE \E ok \in BOOLEAN : SIPSecAnswers(ok)
  BY <1>10, SIPSecAnswersStep
<1>11. CASE \E b \in Ta : IcmpError(b)
  BY <1>11, IcmpErrorStep
<1>12. CASE AppSendsAck
  BY <1>12, AppSendsAckStep
<1>13. CASE AppCancels
  BY <1>13, AppCancelsStep
<1>14. CASE ClearTransactionOwner
  BY <1>14, ClearTransactionOwnerStep
<1>15. CASE DeleteMgrRuns \/ StoreFreesMarked
  BY <1>15, DeletionsStep
<1>16. CASE UNCHANGED vars
  <2>1. World' = World
    BY <1>16 DEF vars, World
  <2>2. QED
    BY <2>1 DEF IInv
<1>17. QED
  BY <1>1, <1>2, <1>3, <1>4, <1>5, <1>6, <1>7, <1>8, <1>9, <1>10, <1>11,
     <1>12, <1>13, <1>14, <1>15, <1>16 DEF Next

(* The state of the client, whichever of its calls left and wherever: what *)
(* is kept, sent, timed, entered in the store and doomed belongs together. *)
THEOREM ClientInvariant == Spec => []IInv
BY InitInv, NextInv, PTL DEF Spec

(* Every variable keeps its type, and no more branches are made for the    *)
(* INVITE than there are addresses to try.                                 *)
THEOREM Types == Spec => []TypeOK
<1>1. ASSUME IInv PROVE TypeOK
  <2>1. World \in WorldType /\ Limit(ua, ta, del)
    BY <1>1, WorldIs DEF IInv, Inv, Core, Body
  <2>2. /\ ta \in [Ta -> TaType] /\ tm \in [Ta -> [TaTimers -> TimerType]]
        /\ tx \in [Obj -> {"idle", "ta", "ua"}] /\ ua \in UaType
        /\ ut \in [UaTimers -> TimerType] /\ st \in StType
        /\ del \in DelType /\ hist \in HistType
    BY <2>1, WorldIs DEF WorldType
  <2>3. ua.n \in 1..(MaxTa + 1)
    BY <2>1, <2>2, InviteClientAssumption DEF Limit, UaType
  <2>4. ua \in [state : {"Resolve", "WaitResponse", "WaitAuth", "WaitEnd"}
                         \cup AckStates,
                stopped : BOOLEAN, owner : BOOLEAN, owns : BOOLEAN,
                msg : {"none", "invite", "ack"}, final : BOOLEAN,
                cur : Obj, held : Obj, n : 1..(MaxTa + 1),
                stored : Responses \cup {"none"}, canceled : BOOLEAN,
                secwait : BOOLEAN, secerr : BOOLEAN, addrs : Obj,
                results : BOOLEAN, acked : BOOLEAN]
    BY <2>2, <2>3 DEF UaType
  <2>5. QED
    BY <2>2, <2>4
       DEF TypeOK, TaType, TimerType, StType, Branches, DelType, HistType
<1>2. QED
  BY <1>1, ClientInvariant, PTL

(* A transaction that has not ended is the current one, or one that was    *)
(* let go with its ACK and that the store still finds.                     *)
THEOREM CurrentIsOne == Spec => []OneCurrent
<1>1. ASSUME IInv PROVE OneCurrent
  <2>1. /\ Attached(ta, ua, st, del) /\ Acked(ta) /\ Current(ta, ua, del)
        /\ ua \in UaType /\ ta \in [Ta -> TaType]
    BY <1>1, WorldIs DEF IInv, Inv, Core, Body, WorldType
  <2>2. SUFFICES ASSUME NEW i \in Ta, Live(i)
                 PROVE  \/ i = ua.cur /\ ta[i].att /\ ~ta[i].indep
                        \/ /\ ta[i].indep /\ ~ta[i].att /\ i \in st.ind
                           /\ ta[i].state = "Completed" /\ ta[i].msg = "ack"
    BY DEF OneCurrent
  <2>3. Runs(ta, del, i) /\ ~ta[i].over
    BY <2>2 DEF Live, TaLives, Runs, Here
  <2>4. CASE ta[i].att
    BY <2>1, <2>3, <2>4, Ids DEF Attached, Current
  <2>5. CASE ~ta[i].att
    BY <2>1, <2>3, <2>5 DEF Attached, Acked
  <2>6. QED
    BY <2>4, <2>5
<1>2. QED
  BY <1>1, ClientInvariant, PTL

(* Whatever left in between, a transaction that has not ended is sending,  *)
(* or a timer runs that will end it.                                       *)
THEOREM LiveTaEnds == Spec => []LiveTaHasDeadline
<1>1. ASSUME IInv PROVE LiveTaHasDeadline
  <2>1. /\ Attached(ta, ua, st, del) /\ Current(ta, ua, del)
        /\ LetGo(ta, tm, tx, del)
        /\ ~ua.stopped => CurrentEnds(ta, tm, tx, ua, del, hist)
        /\ ua \in UaType /\ ta \in [Ta -> TaType]
    BY <1>1, WorldIs DEF IInv, Inv, Core, Rest, Body, WorldType
  <2>2. SUFFICES ASSUME NEW i \in Ta, Live(i),
                        tx[IF ta[i].indep THEN i ELSE Ua] = "idle",
                        ta[i].indep \/ ~(ua.stopped \/ hist.cleared)
                 PROVE  \E t \in {"B", "P", "D"} : tm[i][t] = "on"
    BY DEF LiveTaHasDeadline
  <2>3. Runs(ta, del, i) /\ ta[i] \in TaType /\ ta[i].state # "none"
    BY <2>1, <2>2 DEF Live, TaLives, Runs, Here
  <2>4. CASE ta[i].indep
    BY <2>1, <2>2, <2>3, <2>4 DEF LetGo, Timed
  <2>5. CASE ~ta[i].indep
    <3>1. i = ua.cur /\ ua.cur # 0
      BY <2>1, <2>3, <2>5, Ids DEF Attached
    <3>2. /\ tx[Ua] = "idle" /\ ~hist.cleared
          /\ CurrentEnds(ta, tm, tx, ua, del, hist)
      BY <2>1, <2>2, <2>5
    <3>3. ta[i].state \in {"Calling", "Proceeding", "Completed"}
      BY <2>3 DEF TaType
    <3>4. QED
      BY <2>3, <3>1, <3>2, <3>3 DEF CurrentEnds
  <2>6. QED
    BY <2>4, <2>5
<1>2. QED
  BY <1>1, ClientInvariant, PTL

(* The owner is told of the end once, and nothing follows it, unless       *)
(* SIPSec had failed on an earlier response.                               *)
THEOREM OwnerIsTold == Spec => []OwnerHearsTheEnd
<1>1. IInv => OwnerHearsTheEnd
  BY WorldIs DEF IInv, Inv, Core, Body, Ends, OwnerHearsTheEnd
<1>2. QED
  BY <1>1, ClientInvariant, PTL

(* Not both a 2xx and an error response to one INVITE.                     *)
THEOREM OutcomeIsOne == Spec => []OneOutcome
<1>1. ASSUME IInv PROVE OneOutcome
  <2>1. Heard(ua, hist)
    BY <1>1, WorldIs DEF IInv, Inv, Core, Body
  <2>2. QED
    BY <2>1 DEF Heard, OneOutcome, AckStates
<1>2. QED
  BY <1>1, ClientInvariant, PTL

(* Until it stops, the user agent is found in the store.                   *)
THEOREM RunningIsFound == Spec => []UserAgentIsFound
<1>1. IInv => UserAgentIsFound
  BY WorldIs DEF IInv, Inv, Core, Body, Ends, UserAgentIsFound
<1>2. QED
  BY <1>1, ClientInvariant, PTL

(* Nothing is freed twice, and nothing that the user agent still owns.     *)
THEOREM DeletedOnce == Spec => []FreedOnce
<1>1. ASSUME IInv PROVE FreedOnce
  <2>1. Freeing(ta, del) /\ Current(ta, ua, del)
    BY <1>1, WorldIs DEF IInv, Inv, Core, Body
  <2>2. QED
    BY <2>1 DEF Freeing, Current, Dying, FreedOnce
<1>2. QED
  BY <1>1, ClientInvariant, PTL

(* An error response: nothing leaves with KErrSIPInvalidDialogResponse, as *)
(* the owner is not asked yet, and what leaves where the ACK is sent is    *)
(* trapped.                                                                *)
LEMMA SendAckReturns ==
  ASSUME NEW w, NEW i, NEW r \in SendAck(w, i)
  PROVE  r.left = "no"
BY DEF SendAck, Trap, Yes

LEMMA ErrorIsKept ==
  ASSUME NEW w, NEW i, NEW c \in {"busy", "auth", "reject"}, NEW back, NEW T,
         NEW r \in TaReceiveResponseL(w, i, c, back, T)
  PROVE  r.left \in {"no", "nomem", "other"}
<1> DEFINE v == [w EXCEPT !.ta[i].state = "Completed"]
           P == PassResponseToUserAgentL(v, i, c)
<1>1. IsError(c)
  BY DEF IsError
<1>2. \/ r \in Leave(w, "other") \/ r \in MayLeave("alloc", w)
      \/ \E p \in P : r \in IF p.left = "nomem"
                            THEN Leave(RestoreTa(p.w, i, back, T), "nomem")
                            ELSE SendAck(p.w, i)
  BY <1>1 DEF TaReceiveResponseL, Assert
<1> HIDE DEF P
<1>3. QED
  BY <1>2, SendAckReturns DEF Leave, MayLeave

LEMMA ErrorIsNotRefused ==
  ASSUME NEW w, NEW i, NEW c \in {"busy", "auth", "reject"},
         NEW r \in TaReceiveL(w, i, c)
  PROVE  r.left # "dialog"
<1>1. IsError(c) /\ c # "prov"
  BY DEF IsError
<1>2. CASE w.ta[i].over
  BY <1>2 DEF TaReceiveL, Yes
<1>3. CASE ~w.ta[i].over /\ w.ta[i].state = "Calling"
  <2>1. r \in CallingReceiveL(w, i, c)
    BY <1>3 DEF TaReceiveL
  <2>2. PICK p \in Yes(w) : r \in IF p.left = "no" /\ p.yes
                                  THEN Rings(p.w, i, c, {}) ELSE {p}
    BY <1>1, <2>1, CallingReceiveIs
  <2>3. r \in Rings(w, i, c, {})
    BY <2>2 DEF Yes
  <2>4. PICK q \in TaReceiveResponseL(w, i, c, "Calling", {}) :
          r \in IF q.left = "no" /\ q.yes
                THEN Yes(StopTimers(q.w, i, {"A", "B"})) ELSE {q}
    BY <2>3 DEF Rings, Then
  <2>5. q.left \in {"no", "nomem", "other"}
    BY ErrorIsKept
  <2>6. QED
    BY <2>4, <2>5 DEF Yes
<1>4. CASE ~w.ta[i].over /\ w.ta[i].state = "Proceeding"
  <2>1. r \in ProceedingReceiveL(w, i, c)
    BY <1>4 DEF TaReceiveL
  <2>2. PICK q \in TaReceiveResponseL(w, i, c, "Proceeding", {}) :
          r \in IF q.left = "no" /\ q.yes
                THEN Yes(StopTimers(q.w, i, {"P", "N"})) ELSE {q}
    BY <1>1, <2>1 DEF ProceedingReceiveL, Then
  <2>3. q.left \in {"no", "nomem", "other"}
    BY ErrorIsKept
  <2>4. QED
    BY <2>2, <2>3 DEF Yes
<1>5. CASE ~w.ta[i].over /\ w.ta[i].state = "Completed"
  <2>1. r \in CompletedReceiveL(w, i, c)
    BY <1>5 DEF TaReceiveL
  <2>2. r \in Yes(w) \/ r \in SendToTransmitterL(w, i)
    BY <2>1 DEF CompletedReceiveL
  <2>3. QED
    BY <2>2 DEF SendToTransmitterL, Assert, Yes, Leave, MayLeave
<1>6. CASE /\ ~w.ta[i].over
           /\ w.ta[i].state \notin {"Calling", "Proceeding", "Completed"}
  BY <1>6 DEF TaReceiveL, Leave
<1>7. QED
  BY <1>2, <1>3, <1>4, <1>5, <1>6

(* A response the owner drops leaves no trace.                             *)
THEOREM RefusedLeavesNoTrace == Spec => []RefusedIsUndone
<1>1. ASSUME IInv PROVE RefusedIsUndone
  <2>1. Inv(World) /\ World \in WorldType
    BY <1>1 DEF IInv, Inv, Core, Body
  <2>2. SUFFICES ASSUME NEW b \in Ta, NEW c \in Responses, TaLives(b),
                        NEW r \in Received(b, c), r.left = "dialog"
                 PROVE  r.w = World
    BY DEF RefusedIsUndone
  <2>3. CASE c \in {"prov", "ok"} /\ ToUa(b)
    <3>1. r \in UaReceiveL(World, c)
      BY <2>3 DEF Received
    <3>2. World.st.rx = 0
      BY <2>3, WorldIs DEF ToUa, Ua
    <3>3. QED
      BY <2>1, <2>2, <2>3, <3>1, <3>2, FoundIsAlone, UaReceiveAlone
  <2>4. CASE c \in {"prov", "ok"} /\ ~ToUa(b)
    <3>1. r \in TaReceiveL(World, b, c)
      BY <2>4 DEF Received
    <3>2. Here(World.ta, World.del, b)
      BY <2>2, WorldIs DEF TaLives, Here
    <3>3. Takes(World, b, r)
      BY <2>1, <2>4, <3>1, <3>2, TaReceiveGood
    <3>4. QED
      BY <2>2, <3>3 DEF Takes
  <2>5. CASE c \in {"busy", "auth", "reject"} /\ ToUa(b)
    <3>1. r \in UaReceiveL(World, c)
      BY <2>5 DEF Received
    <3>2. Delays(World, c, r)
      BY <2>1, <2>5, <3>1, UaReceiveLDelays
    <3>3. QED
      BY <2>2, <3>2 DEF Delays, Done
  <2>6. CASE c \in {"busy", "auth", "reject"} /\ ~ToUa(b)
    <3>1. r \in TaReceiveL(World, b, c)
      BY <2>6 DEF Received
    <3>2. QED
      BY <2>2, <2>6, <3>1, ErrorIsNotRefused
  <2>7. QED
    BY <2>3, <2>4, <2>5, <2>6 DEF Responses
<1>2. QED
  BY <1>1, ClientInvariant, PTL

-----------------------------------------------------------------------------
(* What the owner has heard stays heard, whatever is called and leaves.    *)

Knows(h, w) ==
  /\ {"hist", "ua"} \subseteq DOMAIN w
  /\ "heard" \in DOMAIN w.hist /\ h \subseteq w.hist.heard
  /\ "msg" \in DOMAIN w.ua /\ w.ua.msg \in {"none", "invite", "ack"}

LEMMA LeaveKnows ==
  ASSUME NEW h, NEW w, Knows(h, w), NEW f, NEW why,
         NEW r, r \in Yes(w) \/ r \in No(w) \/ r \in Leave(w, why)
                \/ r \in MayLeave(f, w)
  PROVE  Knows(h, r.w)
BY DEF Yes, No, Leave, MayLeave

LEMMA DestroyedKnows ==
  ASSUME NEW h, NEW w, Knows(h, w), NEW S
  PROVE  Knows(h, Destroyed(w, S))
BY DEF Knows, Destroyed

LEMMA StoreKnows ==
  ASSUME NEW h, NEW w, Knows(h, w)
  PROVE  /\ Knows(h, Searched(w)) /\ Knows(h, RemoveFromStore(w))
         /\ Knows(h, ClearTransaction(w))
<1>1. Knows(h, Searched(w))
  BY DestroyedKnows DEF Searched
<1>2. Knows(h, RemoveFromStore(w))
  BY <1>1 DEF RemoveFromStore, Knows
<1>3. Knows(h, ClearTransaction(w))
  BY <1>1 DEF ClearTransaction, Knows
<1>4. QED
  BY <1>1, <1>2, <1>3

LEMMA StopKnows ==
  ASSUME NEW h, NEW w, Knows(h, w),
         NEW r, r \in Stop(w) \/ r \in StopIfFound(w)
  PROVE  Knows(h, r.w)
<1>1. ASSUME NEW v, Knows(h, v), NEW p \in RequestDeletionOfUserAgent(v)
      PROVE  Knows(h, p.w)
  <2>1. Knows(h, RemoveFromStore(v)) /\ Knows(h, Destroyed(v, {Ua}))
    BY <1>1, StoreKnows, DestroyedKnows
  <2>2. Knows(h, [RemoveFromStore(v) EXCEPT !.del.doomed = @ \cup {Ua}])
    BY <2>1 DEF Knows
  <2>3. Knows(h, [v EXCEPT !.st.id = "empty", !.del.marked = @ \cup {Ua}])
    BY <1>1 DEF Knows
  <2>4. QED
    BY <1>1, <2>1, <2>2, <2>3 DEF RequestDeletionOfUserAgent, Yes
<1>2. Knows(h, TransactionEnded(w))
  BY DEF Knows, TransactionEnded
<1>3. ASSUME NEW p \in Stop(w) PROVE Knows(h, p.w)
  BY <1>1, <1>2, <1>3 DEF Stop, Yes
<1>4. QED
  BY <1>3, StoreKnows DEF StopIfFound, Yes

LEMMA StopOnLeaveKnows ==
  ASSUME NEW h, NEW S, \A p \in S : Knows(h, p.w), NEW r \in StopOnLeave(S)
  PROVE  Knows(h, r.w)
<1>1. PICK p \in S :
        r \in IF p.left = "no" THEN {p}
              ELSE {[s EXCEPT !.left = p.left] : s \in StopIfFound(p.w)}
  BY DEF StopOnLeave
<1>2. CASE p.left = "no"
  BY <1>1, <1>2
<1>3. CASE p.left # "no"
  <2>1. PICK s \in StopIfFound(p.w) : r = [s EXCEPT !.left = p.left]
    BY <1>1, <1>3
  <2>2. Knows(h, s.w)
    BY <1>1, StopKnows
  <2>3. QED
    BY <2>1, <2>2
<1>4. QED
  BY <1>2, <1>3

LEMMA RequestDeletionOfTransactionKnows ==
  ASSUME NEW h, NEW w, Knows(h, w), NEW r \in RequestDeletionOfTransactionL(w)
  PROVE  Knows(h, r.w)
<1>1. Knows(h, [w EXCEPT !.del.doomed = @ \cup {w.ua.cur}, !.ua.cur = 0])
  BY DEF Knows
<1>2. QED
  BY <1>1, StoreKnows, LeaveKnows
     DEF RequestDeletionOfTransactionL, Yes, MayLeave, Leave

LEMMA TerminatedKnows ==
  ASSUME NEW h, NEW w, Knows(h, w), NEW i
  PROVE  /\ Knows(h, Terminated(w, i)) /\ Knows(h, ClearSendBuffer(w, i))
         /\ Knows(h, RunIndependently(w, i)) /\ Knows(h, Detached(w, i))
<1>1. /\ Knows(h, Terminated(w, i)) /\ Knows(h, RunIndependently(w, i))
  BY DEF Knows, Terminated, RunIndependently
<1>2. \A v : Knows(h, v) => Knows(h, ClearSendBuffer(v, i))
  BY DEF Knows, ClearSendBuffer
<1>3. Knows(h, [w EXCEPT !.ta[i].att = FALSE, !.ua.cur = 0])
  BY DEF Knows
<1>4. QED
  BY <1>1, <1>2, <1>3 DEF Detached

LEMMA SendToTransmitterKnows ==
  ASSUME NEW h, NEW w, Knows(h, w), NEW i, NEW r \in SendToTransmitterL(w, i)
  PROVE  Knows(h, r.w)
BY DEF Knows, SendToTransmitterL, Assert, Yes, Leave, MayLeave

LEMMA UpdateViaAndCSeqKnows ==
  ASSUME NEW h, NEW w, Knows(h, w), NEW r \in UpdateViaAndCSeqL(w)
  PROVE  Knows(h, r.w)
BY DEF Knows, UpdateViaAndCSeqL, Assert, Yes, Leave, MayLeave

LEMMA DetachKnows ==
  ASSUME NEW h, NEW w, Knows(h, w), NEW r \in DetachCurrentTransactionL(w)
  PROVE  Knows(h, r.w)
<1> DEFINE i == w.ua.cur
           quiet == [w EXCEPT !.tx[Ua] = "idle"]
           E == Then(RequestDeletionOfTransactionL(quiet),
                     LAMBDA v : Yes(RemoveFromStore(v)))
           A == MayLeave("alloc", w) \cup
                Assert(w.st.id = "main", Searched(RunIndependently(w, i)),
                  LAMBDA v :
                    Yes(Detached([v EXCEPT !.st.ind = @ \cup {i}], i)))
<1>1. Knows(h, quiet)
  BY DEF Knows
<1> HIDE DEF quiet
<1>2. ASSUME NEW p \in E PROVE Knows(h, p.w)
  <2>1. PICK q \in RequestDeletionOfTransactionL(quiet) :
          p \in IF q.left = "no" /\ q.yes
                THEN Yes(RemoveFromStore(q.w)) ELSE {q}
    BY <1>2 DEF Then
  <2>2. Knows(h, q.w)
    BY <1>1, RequestDeletionOfTransactionKnows
  <2>3. QED
    BY <2>1, <2>2, StoreKnows, LeaveKnows
<1>3. ASSUME NEW p \in A PROVE Knows(h, p.w)
  <2> DEFINE v == Searched(RunIndependently(w, i))
             u == [v EXCEPT !.st.ind = @ \cup {i}]
  <2>1. Knows(h, v)
    BY TerminatedKnows, StoreKnows
  <2>2. \/ p \in MayLeave("alloc", w) \/ p \in Leave(v, "other")
        \/ p \in Yes(Detached(u, i))
    BY <1>3 DEF Assert
  <2> HIDE DEF v
  <2>3. Knows(h, u)
    BY <2>1 DEF Knows
  <2> HIDE DEF u
  <2>4. QED
    BY <2>1, <2>2, <2>3, TerminatedKnows, LeaveKnows
<1>4. \/ r \in Yes(w)
      \/ \E p \in E \cup A :
           r \in IF p.left = "no" /\ p.yes
                 THEN Yes([p.w EXCEPT !.st = Entry(p.w.ua.n, Ua, @.ind)])
                 ELSE {p}
  BY DEF DetachCurrentTransactionL, Then, quiet
<1> HIDE DEF E, A
<1>5. QED
  BY <1>2, <1>3, <1>4, LeaveKnows DEF Knows, Yes

LEMMA CreateTransactionKnows ==
  ASSUME NEW h, NEW w, Knows(h, w), NEW r \in CreateTransactionL(w)
  PROVE  Knows(h, r.w)
<1>1. \/ r \in Leave(w, "other") \/ r \in MayLeave("alloc", w)
      \/ \E udp \in Transports :
           r \in Yes([w EXCEPT !.ua.cur = w.ua.n,
                       !.ta[w.ua.n] = [NoTa EXCEPT !.state = "Calling",
                                                   !.att = TRUE,
                                                   !.udp = udp]])
  BY DEF CreateTransactionL, Assert
<1>2. \A t : Knows(h, [w EXCEPT !.ua.cur = w.ua.n, !.ta[w.ua.n] = t])
  BY DEF Knows
<1>3. QED
  BY <1>1, <1>2, LeaveKnows

LEMMA UpdateInfoToStoreKnows ==
  ASSUME NEW h, NEW w, Knows(h, w), NEW b, NEW r \in UpdateInfoToStoreL(w, b)
  PROVE  Knows(h, r.w)
<1> DEFINE u == [w EXCEPT !.st.rx = w.ua.cur]
           n == IF w.ua.msg = "invite" THEN w.ua.n ELSE 0
           v == [u EXCEPT !.st.branch = n]
<1>1. Knows(h, Searched(w)) /\ Knows(h, u)
  BY StoreKnows DEF Knows
<1>2. \/ r \in Leave(Searched(w), "other") \/ r \in Yes(u)
      \/ r \in Yes(v) \/ r \in MayLeave("alloc", u)
  BY DEF UpdateInfoToStoreL
<1> HIDE DEF u, n
<1>3. Knows(h, v)
  BY <1>1 DEF Knows
<1>4. QED
  BY <1>1, <1>2, <1>3, LeaveKnows

LEMMA SendRequestToNetworkKnows ==
  ASSUME NEW h, NEW w, Knows(h, w), NEW r \in SendRequestToNetworkL(w)
  PROVE  Knows(h, r.w)
<1> DEFINE v == [w EXCEPT !.ta[w.ua.cur].msg = "invite"]
           u == [w EXCEPT !.tx[Ua] = "ua"]
<1>1. Knows(h, v) /\ Knows(h, u)
  BY DEF Knows
<1>2. CASE w.ua.msg = "none"
  BY <1>2, LeaveKnows DEF SendRequestToNetworkL
<1>3. CASE w.ua.msg = "ack"
  <2>1. r \in Leave(w, "other") \/ r \in Yes(u) \/ r \in MayLeave("send", w)
    BY <1>3 DEF SendRequestToNetworkL, Assert
  <2> HIDE DEF u
  <2>2. QED
    BY <1>1, <2>1, LeaveKnows
<1>4. CASE w.ua.msg = "invite"
  <2>1. r \in Leave(w, "other") \/ r \in SendToTransmitterL(v, w.ua.cur)
    BY <1>4 DEF SendRequestToNetworkL, Assert
  <2> HIDE DEF v
  <2>2. QED
    BY <1>1, <2>1, LeaveKnows, SendToTransmitterKnows
<1>5. QED
  BY <1>2, <1>3, <1>4 DEF Knows

LEMMA WithKnows ==
  ASSUME NEW h, NEW w, Knows(h, w), NEW x, NEW i, NEW t
  PROVE  /\ Knows(h, [w EXCEPT !.ua.state = x])
         /\ Knows(h, [w EXCEPT !.ua.stored = x])
         /\ Knows(h, [w EXCEPT !.ua.addrs = x])
         /\ Knows(h, [w EXCEPT !.ua.final = x])
         /\ Knows(h, [w EXCEPT !.ua.secwait = x])
         /\ Knows(h, [w EXCEPT !.ua.secerr = x])
         /\ Knows(h, [w EXCEPT !.ut[t] = x])
         /\ Knows(h, [w EXCEPT !.tx[t] = x])
         /\ Knows(h, [w EXCEPT !.tm[i][t] = x])
         /\ Knows(h, [w EXCEPT !.tm[i] = x])
         /\ Knows(h, [w EXCEPT !.ta[i].state = x])
BY DEF Knows

(* The request is sent, or stored only; next is the state that follows.    *)
SentAs(w, next) ==
  Then(SendRequestToNetworkL(w), LAMBDA d :
    Yes([d EXCEPT !.ua.state = next]))
StoredAs(w, b, next) ==
  Then(UpdateInfoToStoreL(w, b), LAMBDA c : SentAs(c, next))
RenewedAs(w) == IF w.ua.msg = "ack" THEN Yes(w) ELSE Renewed(w)

LEMMA SentAsKnows ==
  ASSUME NEW h, NEW w, Knows(h, w), NEW next, NEW r \in SentAs(w, next)
  PROVE  Knows(h, r.w)
<1>1. PICK p \in SendRequestToNetworkL(w) :
        r \in IF p.left = "no" /\ p.yes
              THEN Yes([p.w EXCEPT !.ua.state = next]) ELSE {p}
  BY DEF SentAs, Then
<1>2. Knows(h, p.w)
  BY SendRequestToNetworkKnows
<1>3. QED
  BY <1>1, <1>2, WithKnows, LeaveKnows

LEMMA StoredAsKnows ==
  ASSUME NEW h, NEW w, Knows(h, w), NEW b, NEW next,
         NEW r \in StoredAs(w, b, next)
  PROVE  Knows(h, r.w)
<1>1. PICK p \in UpdateInfoToStoreL(w, b) :
        r \in IF p.left = "no" /\ p.yes THEN SentAs(p.w, next) ELSE {p}
  BY DEF StoredAs, Then
<1>2. Knows(h, p.w)
  BY UpdateInfoToStoreKnows
<1>3. QED
  BY <1>1, <1>2, SentAsKnows

LEMMA RenewedAsKnows ==
  ASSUME NEW h, NEW w, Knows(h, w), NEW r \in RenewedAs(w)
  PROVE  Knows(h, r.w)
<1>1. CASE w.ua.msg = "ack"
  BY <1>1, LeaveKnows DEF RenewedAs
<1>2. CASE w.ua.msg # "ack"
  <2>1. PICK p \in DetachCurrentTransactionL(w) :
          r \in IF p.left = "no" /\ p.yes
                THEN CreateTransactionL(p.w) ELSE {p}
    BY <1>2 DEF RenewedAs, Renewed, Then
  <2>2. Knows(h, p.w)
    BY DetachKnows
  <2>3. QED
    BY <2>1, <2>2, CreateTransactionKnows
<1>3. QED
  BY <1>1, <1>2

LEMMA UpdateAndSendKnows ==
  ASSUME NEW h, NEW w, Knows(h, w), NEW next,
         NEW r \in UpdateAndSendRequestL(w, next)
  PROVE  Knows(h, r.w)
<1>1. PICK p \in UpdateViaAndCSeqL(w) :
        r \in IF p.left = "no" /\ p.yes
              THEN Then(RenewedAs(p.w), LAMBDA b : StoredAs(b, TRUE, next))
              ELSE {p}
  BY DEF UpdateAndSendRequestL, RenewedAs, Renewed, StoredAs, SentAs, Then
<1>2. Knows(h, p.w)
  BY UpdateViaAndCSeqKnows
<1>3. ASSUME NEW q \in Then(RenewedAs(p.w), LAMBDA b : StoredAs(b, TRUE, next))
      PROVE  Knows(h, q.w)
  <2>1. PICK b \in RenewedAs(p.w) :
          q \in IF b.left = "no" /\ b.yes THEN StoredAs(b.w, TRUE, next)
                ELSE {b}
    BY <1>3 DEF Then
  <2>2. Knows(h, b.w)
    BY <1>2, RenewedAsKnows
  <2>3. QED
    BY <2>1, <2>2, StoredAsKnows
<1>4. QED
  BY <1>1, <1>2, <1>3

OnlyStored(w, resolve) ==
  Then(UpdateInfoToStoreL(w, TRUE), LAMBDA c :
    Yes([c EXCEPT !.ua.state = resolve]) \cup MayLeave("alloc", c))

LEMMA OnlyStoredKnows ==
  ASSUME NEW h, NEW w, Knows(h, w), NEW resolve,
         NEW r \in OnlyStored(w, resolve)
  PROVE  Knows(h, r.w)
<1>1. PICK p \in UpdateInfoToStoreL(w, TRUE) :
        r \in IF p.left = "no" /\ p.yes
              THEN Yes([p.w EXCEPT !.ua.state = resolve])
                   \cup MayLeave("alloc", p.w)
              ELSE {p}
  BY DEF OnlyStored, Then
<1>2. Knows(h, p.w)
  BY UpdateInfoToStoreKnows
<1>3. QED
  BY <1>1, <1>2, WithKnows, LeaveKnows

LEMMA UpdateAndResolveKnows ==
  ASSUME NEW h, NEW w, Knows(h, w), NEW resolve,
         NEW r \in UpdateAndResolveL(w, resolve)
  PROVE  Knows(h, r.w)
<1>1. PICK p \in UpdateViaAndCSeqL(w) :
        r \in IF p.left = "no" /\ p.yes
              THEN Then(DetachCurrentTransactionL(p.w),
                        LAMBDA b : OnlyStored(b, resolve))
              ELSE {p}
  BY DEF UpdateAndResolveL, OnlyStored, Then
<1>2. Knows(h, p.w)
  BY UpdateViaAndCSeqKnows
<1>3. ASSUME NEW q \in Then(DetachCurrentTransactionL(p.w),
                            LAMBDA b : OnlyStored(b, resolve))
      PROVE  Knows(h, q.w)
  <2>1. PICK b \in DetachCurrentTransactionL(p.w) :
          q \in IF b.left = "no" /\ b.yes THEN OnlyStored(b.w, resolve)
                ELSE {b}
    BY <1>3 DEF Then
  <2>2. Knows(h, b.w)
    BY <1>2, DetachKnows
  <2>3. QED
    BY <2>1, <2>2, OnlyStoredKnows
<1>4. QED
  BY <1>1, <1>2, <1>3

LEMMA TryNextAddressKnows ==
  ASSUME NEW h, NEW w, Knows(h, w), NEW c, NEW resolve, NEW next,
         NEW r \in TryNextAddressL(w, c, resolve, next)
  PROVE  Knows(h, r.w)
<1>1. CASE w.ua.addrs > 0
  <2>1. r \in UpdateAndSendRequestL(Taken(w), next)
    BY <1>1 DEF TryNextAddressL, Taken
  <2>2. Knows(h, Taken(w))
    BY DEF Taken, Knows
  <2>3. QED
    BY <2>1, <2>2, UpdateAndSendKnows
<1>2. CASE ~(w.ua.addrs > 0) /\ w.ua.results
  <2>1. \/ r \in Leave(w, "other")
        \/ \E p \in UpdateAndResolveL(w, resolve) :
             r \in IF p.left = "no" /\ p.yes
                   THEN Yes([p.w EXCEPT !.ua.stored = c]) ELSE {p}
    BY <1>2 DEF TryNextAddressL, Assert, Then
  <2>2. QED
    BY <2>1, UpdateAndResolveKnows, WithKnows, LeaveKnows
<1>3. CASE ~(w.ua.addrs > 0) /\ ~w.ua.results
  BY <1>3, LeaveKnows DEF TryNextAddressL
<1>4. QED
  BY <1>1, <1>2, <1>3

LEMMA FillSecurityParamsKnows ==
  ASSUME NEW h, NEW w, Knows(h, w), NEW r \in FillSecurityParamsL(w)
  PROVE  Knows(h, r.w)
<1>1. \/ r \in Yes(w)
      \/ \E s \in Stop(w) :
           r \in IF s.left = "no" /\ s.yes THEN No(s.w) ELSE {s}
      \/ \E s \in Stop(w) :
           r \in IF s.left = "no" /\ s.yes THEN Leave(s.w, "other") ELSE {s}
  BY DEF FillSecurityParamsL, Then
<1>2. QED
  BY <1>1, StopKnows, LeaveKnows

LEMMA EndsWithoutKnows ==
  ASSUME NEW h, NEW w, Knows(h, w), NEW why,
         NEW r \in TransactionEndsWithoutFinalResponseL(w, why)
  PROVE  Knows(h, r.w)
<1> DEFINE T == IF ~w.ua.canceled /\ why \in {"timeout", "failure"}
                THEN TryNextAddressL(w, "none", "Resolve", "WaitResponse")
                ELSE No(w)
<1>1. PICK p \in StopOnLeave(T) :
        r \in IF p.left = "no" /\ ~p.yes THEN Stop(p.w) ELSE {p}
  BY DEF TransactionEndsWithoutFinalResponseL, Otherwise
<1>2. \A q \in T : Knows(h, q.w)
  BY TryNextAddressKnows, LeaveKnows
<1> HIDE DEF T
<1>3. Knows(h, p.w)
  BY <1>2, StopOnLeaveKnows
<1>4. QED
  BY <1>1, <1>3, StopKnows

LEMMA IgnoreResponseKnows ==
  ASSUME NEW h, NEW w, Knows(h, w), NEW r \in IgnoreResponseRetransmissionsL(w)
  PROVE  Knows(h, r.w)
<1> DEFINE v == RemoveFromStore(w)
           z == [v EXCEPT !.st = Entry(0, Ua, @.ind)]
<1>1. r \in Leave(w, "other") \/ r \in Yes(z)
  BY DEF IgnoreResponseRetransmissionsL, Assert
<1>2. Knows(h, v)
  BY StoreKnows
<1> HIDE DEF v
<1>3. Knows(h, z)
  BY <1>2 DEF Knows
<1>4. QED
  BY <1>1, <1>3, LeaveKnows

LEMMA TransactionEndsKnows ==
  ASSUME NEW h, NEW w, Knows(h, w), NEW why, NEW r \in TransactionEndsL(w, why)
  PROVE  Knows(h, r.w)
<1>1. \/ r \in TransactionEndsWithoutFinalResponseL(w, why)
      \/ \E p \in RequestDeletionOfTransactionL(w) :
           r \in IF p.left = "no" /\ p.yes
                 THEN IgnoreResponseRetransmissionsL(p.w) ELSE {p}
      \/ r \in Stop(w)
      \/ r \in Leave(w, "other")
  <2>1. CASE w.ua.state = "WaitResponse"
    BY <2>1 DEF TransactionEndsL
  <2>2. CASE w.ua.state = "WaitAuth"
    BY <2>2 DEF TransactionEndsL, Then
  <2>3. CASE w.ua.state = "WaitEnd"
    BY <2>3 DEF TransactionEndsL
  <2>4. CASE w.ua.state \notin {"WaitResponse", "WaitAuth", "WaitEnd"}
    BY <2>4 DEF TransactionEndsL
  <2>5. QED
    BY <2>1, <2>2, <2>3, <2>4
<1>2. QED
  BY <1>1, EndsWithoutKnows, RequestDeletionOfTransactionKnows,
     IgnoreResponseKnows, StopKnows, LeaveKnows

LEMMA FreedKnows ==
  ASSUME NEW h, NEW w, Knows(h, w), NEW i, NEW r \in Freed(w, i)
  PROVE  Knows(h, r.w)
<1> DEFINE out == [w EXCEPT !.st.ind = @ \ {i}]
           a == [out EXCEPT !.del.doomed = @ \cup {i}]
           b == [out EXCEPT !.del.marked = @ \cup {i}]
<1>1. r \in Yes(a) \/ r \in Yes(b)
  BY DEF Freed
<1>2. Knows(h, out)
  BY DEF Knows
<1> HIDE DEF out
<1>3. Knows(h, a) /\ Knows(h, b)
  BY <1>2 DEF Knows
<1>4. QED
  BY <1>1, <1>3, LeaveKnows

LEMMA TerminatedLKnows ==
  ASSUME NEW h, NEW w, Knows(h, w), NEW i, NEW why,
         NEW r \in TerminatedL(w, i, why)
  PROVE  Knows(h, r.w)
<1> DEFINE v == Terminated(w, i)
<1>1. \/ r \in Yes(w)
      \/ \E p \in IF v.ta[i].att THEN TransactionEndsL(v, why) ELSE Yes(v) :
           r \in IF p.left = "no" /\ p.yes
                 THEN IF p.w.ta[i].indep THEN Freed(p.w, i) ELSE Yes(p.w)
                 ELSE {p}
  BY DEF TerminatedL, Then
<1>2. Knows(h, v)
  BY TerminatedKnows
<1> HIDE DEF v
<1>3. QED
  BY <1>1, <1>2, TransactionEndsKnows, FreedKnows, LeaveKnows

LEMMA TaLeaveOccurredKnows ==
  ASSUME NEW h, NEW w, Knows(h, w), NEW i, NEW r \in TaLeaveOccurred(w, i)
  PROVE  Knows(h, r.w)
<1>1. PICK q \in TerminatedL(w, i, "other") :
        r \in IF q.w.ta[i].att THEN Stop(q.w) ELSE Yes(q.w)
  BY DEF TaLeaveOccurred, Then, Trap, Yes
<1>2. QED
  BY <1>1, TerminatedLKnows, StopKnows, LeaveKnows

LEMMA PassMsgKnows ==
  ASSUME NEW h, NEW w, Knows(h, w), NEW c,
         NEW r \in PassMsgToTransactionOwnerL(w, c)
  PROVE  Knows(h, r.w)
<1> DEFINE z == [w EXCEPT
             !.hist.heard = @ \cup {IF IsError(c) THEN "error" ELSE c},
             !.hist.late = @ \/ w.hist.ended > 0]
<1>1. \/ r \in Yes(w) \/ r \in Yes(z)
      \/ \E why \in {"other", "nomem", "dialog"} : r \in Leave(w, why)
  BY DEF PassMsgToTransactionOwnerL
<1>2. Knows(h, z)
  <2> DEFINE k == w.hist.heard \cup {IF IsError(c) THEN "error" ELSE c}
             l == w.hist.late \/ w.hist.ended > 0
  <2>1. z = [w EXCEPT !.hist.heard = k, !.hist.late = l]
    OBVIOUS
  <2>2. h \subseteq k
    BY DEF Knows
  <2> HIDE DEF k, l
  <2>3. Knows(h, [w EXCEPT !.hist.heard = k, !.hist.late = l])
    BY <2>2 DEF Knows
  <2>4. QED
    BY <2>1, <2>3
<1> HIDE DEF z
<1>3. QED
  BY <1>1, <1>2, LeaveKnows

LEMMA PassRespKnows ==
  ASSUME NEW h, NEW w, Knows(h, w), NEW c,
         NEW r \in PassRespToTransactionOwnerL(w, c)
  PROVE  Knows(h, r.w)
<1> DEFINE v == [w EXCEPT !.ua.final = c # "prov"]
<1>1. \/ r \in Leave(w, "other")
      \/ \E p \in PassMsgToTransactionOwnerL(v, c) :
           r \in IF p.left = "no" THEN {p} ELSE Leave(RestoreUa(p.w), p.left)
  BY DEF PassRespToTransactionOwnerL, Assert, OnLeave
<1>2. Knows(h, v)
  BY WithKnows
<1> HIDE DEF v
<1>3. \A u : Knows(h, u) => Knows(h, RestoreUa(u))
  BY DEF RestoreUa, Knows
<1>4. QED
  BY <1>1, <1>2, <1>3, PassMsgKnows, LeaveKnows

LEMMA StopTransactionKnows ==
  ASSUME NEW h, NEW w, Knows(h, w), NEW r \in StopTransaction(w)
  PROVE  Knows(h, r.w)
<1> DEFINE i == w.ua.cur
           u == [w EXCEPT !.ta[i].att = FALSE]
           t == Terminated(u, i)
           v == [t EXCEPT !.ua.cur = 0]
           a == [v EXCEPT !.del.doomed = @ \cup {i}]
           b == [v EXCEPT !.ua.held = i]
<1>1. \/ r \in Yes(w) \/ r \in Yes(ClearTransaction(a))
      \/ r \in Yes(ClearTransaction(b))
  BY DEF StopTransaction
<1>2. Knows(h, u)
  BY DEF Knows
<1> HIDE DEF u
<1>3. Knows(h, t)
  BY <1>2, TerminatedKnows
<1> HIDE DEF t
<1>4. Knows(h, v)
  BY <1>3 DEF Knows
<1> HIDE DEF v
<1>5. Knows(h, a) /\ Knows(h, b)
  BY <1>4 DEF Knows
<1> HIDE DEF a, b
<1>6. QED
  BY <1>1, <1>5, StoreKnows, LeaveKnows

LEMMA ShouldUaTryAgainKnows ==
  ASSUME NEW h, NEW w, Knows(h, w), NEW c, NEW r \in ShouldUaTryAgainL(w, c)
  PROVE  Knows(h, r.w)
<1>1. r \in No(w) \/ r \in StopOnLeave(Retries(w, c))
  BY DEF ShouldUaTryAgainL, Retries, Answers, Then
<1>2. ASSUME NEW p \in Answers(w) PROVE Knows(h, p.w)
  <2>1. PICK q \in FillSecurityParamsL(w) :
          p \in IF q.left = "no" /\ q.yes
                THEN UpdateAndSendRequestL(q.w, "WaitResponse") ELSE {q}
    BY <1>2 DEF Answers, Then
  <2>2. QED
    BY <2>1, FillSecurityParamsKnows, UpdateAndSendKnows
<1>3. ASSUME NEW p \in Retries(w, c) PROVE Knows(h, p.w)
  BY <1>2, <1>3, TryNextAddressKnows, LeaveKnows DEF Retries
<1>4. QED
  BY <1>1, <1>3, StopOnLeaveKnows, LeaveKnows

TransactionStopped(w) ==
  Then(StopTransaction(w), LAMBDA c : Yes([c EXCEPT !.ua.state = "WaitAck"]))
Accepted(w) ==
  Then(PassRespToTransactionOwnerL(w, "ok"), LAMBDA b : TransactionStopped(b))

LEMMA AcceptedKnows ==
  ASSUME NEW h, NEW w, Knows(h, w), NEW r \in Accepted(w)
  PROVE  Knows(h, r.w)
<1>1. PICK p \in PassRespToTransactionOwnerL(w, "ok") :
        r \in IF p.left = "no" /\ p.yes THEN TransactionStopped(p.w) ELSE {p}
  BY DEF Accepted, Then
<1>2. Knows(h, p.w)
  BY PassRespKnows
<1>3. ASSUME NEW q \in TransactionStopped(p.w) PROVE Knows(h, q.w)
  <2>1. PICK s \in StopTransaction(p.w) :
          q \in IF s.left = "no" /\ s.yes
                THEN Yes([s.w EXCEPT !.ua.state = "WaitAck"]) ELSE {s}
    BY <1>3 DEF TransactionStopped, Then
  <2>2. Knows(h, s.w)
    BY <1>2, StopTransactionKnows
  <2>3. QED
    BY <2>1, <2>2, WithKnows, LeaveKnows
<1>4. QED
  BY <1>1, <1>2, <1>3

LEMMA AcceptKnows ==
  ASSUME NEW h, NEW w, Knows(h, w), NEW r \in AcceptL(w)
  PROVE  Knows(h, r.w)
<1> DEFINE v == [w EXCEPT !.ut["W"] = "on"]
<1>1. PICK p \in Yes(v) \cup MayLeave("timer", w) :
        r \in IF p.left = "no" /\ p.yes THEN Accepted(p.w) ELSE {p}
  BY DEF AcceptL, Accepted, TransactionStopped, Then
<1>2. Knows(h, v)
  BY WithKnows
<1> HIDE DEF v
<1>3. Knows(h, p.w)
  BY <1>1, <1>2, LeaveKnows
<1>4. QED
  BY <1>1, <1>3, AcceptedKnows

RespPassed(w, c) ==
  Then(PassRespToTransactionOwnerL(w, c), LAMBDA x :
    Yes(IF c = "prov" THEN x ELSE [x EXCEPT !.ua.state = "WaitEnd"]))

LEMMA ReceiveResponseKnows ==
  ASSUME NEW h, NEW w, Knows(h, w), NEW c, NEW r \in ReceiveResponseL(w, c)
  PROVE  Knows(h, r.w)
<1>1. \/ r \in Leave(w, "other")
      \/ \E p \in ShouldUaTryAgainL(w, c) :
           r \in IF p.left = "no" /\ ~p.yes
                 THEN IF c = "ok" THEN AcceptL(p.w) ELSE RespPassed(p.w, c)
                 ELSE {p}
  BY DEF ReceiveResponseL, Assert, Otherwise, RespPassed, Then
<1>2. ASSUME NEW v, Knows(h, v), NEW q \in RespPassed(v, c)
      PROVE  Knows(h, q.w)
  <2>1. PICK p \in PassRespToTransactionOwnerL(v, c) :
          q \in IF p.left = "no" /\ p.yes
                THEN Yes(IF c = "prov" THEN p.w
                         ELSE [p.w EXCEPT !.ua.state = "WaitEnd"])
                ELSE {p}
    BY <1>2 DEF RespPassed, Then
  <2>2. Knows(h, p.w)
    BY <1>2, PassRespKnows
  <2>3. QED
    BY <2>1, <2>2, WithKnows, LeaveKnows
<1>3. QED
  BY <1>1, <1>2, ShouldUaTryAgainKnows, AcceptKnows, LeaveKnows

LEMMA SIPSecKnows ==
  ASSUME NEW h, NEW w, Knows(h, w), NEW c,
         NEW r, r \in PassResponseToSIPSecL(w, c) \/ r \in StartTimerSIPSecL(w)
  PROVE  Knows(h, r.w)
<1> DEFINE a == [w EXCEPT !.ua.secwait = TRUE]
           b == [w EXCEPT !.ut["S"] = "on"]
<1>1. \/ r \in Leave(w, "other") \/ r \in No(w) \/ r \in Yes(a) \/ r \in Yes(b)
      \/ r \in MayLeave("timer", w)
  BY DEF PassResponseToSIPSecL, StartTimerSIPSecL, Assert
<1>2. Knows(h, a) /\ Knows(h, b)
  BY WithKnows
<1> HIDE DEF a, b
<1>3. QED
  BY <1>1, <1>2, LeaveKnows

LEMMA KeepRespKnows ==
  ASSUME NEW h, NEW w, Knows(h, w), NEW c,
         NEW r, r \in KeepResp(w, c) \/ r \in Later(w, c)
  PROVE  Knows(h, r.w)
<1>1. ASSUME NEW v, Knows(h, v), NEW q \in KeepResp(v, c)
      PROVE  Knows(h, q.w)
  <2> DEFINE s == IF v.ua.stored = "none" THEN c ELSE v.ua.stored
             z == [v EXCEPT !.ua.state = "WaitAuth", !.ua.stored = s]
  <2>1. q \in Yes(z)
    BY <1>1 DEF KeepResp
  <2> HIDE DEF s
  <2>2. Knows(h, z)
    BY <1>1 DEF Knows
  <2>3. QED
    BY <2>1, <2>2, LeaveKnows
<1>2. ASSUME NEW q \in Later(w, c) PROVE Knows(h, q.w)
  <2>1. PICK p \in StartTimerSIPSecL(w) :
          q \in IF p.left = "no" /\ p.yes THEN KeepResp(p.w, c) ELSE {p}
    BY <1>2 DEF Later, Then
  <2>2. QED
    BY <1>1, <2>1, SIPSecKnows
<1>3. QED
  BY <1>1, <1>2

LEMMA UaReceiveKnows ==
  ASSUME NEW h, NEW w, Knows(h, w), NEW c, NEW r \in UaReceiveL(w, c)
  PROVE  Knows(h, r.w)
<1>1. ASSUME NEW q \in WaitResponseReceiveL(w, c) PROVE Knows(h, q.w)
  <2>1. \/ q \in Leave(w, "other")
        \/ \E p \in PassResponseToSIPSecL(w, c) :
             \/ q = p
             \/ q \in Later([p.w EXCEPT !.ua.secerr = TRUE], c)
             \/ q \in KeepResp(p.w, c)
             \/ q \in Later(p.w, c)
             \/ q \in ReceiveResponseL(p.w, c)
    BY <1>1 DEF WaitResponseReceiveL, Assert, Later, KeepResp
  <2>2. QED
    BY <2>1, SIPSecKnows, KeepRespKnows, ReceiveResponseKnows, WithKnows,
       LeaveKnows
<1>2. ASSUME NEW q \in HandleAdditional2xxL(w, c) PROVE Knows(h, q.w)
  <2>1. \/ q \in Yes(w)
        \/ \E p \in PassResponseToSIPSecL(w, c) :
             q \in IF p.left = "no" /\ ~p.yes
                   THEN PassMsgToTransactionOwnerL(p.w, c) ELSE {p}
    BY <1>2 DEF HandleAdditional2xxL, Otherwise
  <2>2. QED
    BY <2>1, SIPSecKnows, PassMsgKnows, LeaveKnows
<1>3. \/ r \in Yes(w) \/ r \in WaitResponseReceiveL(w, c)
      \/ r \in HandleAdditional2xxL(w, c) \/ r \in Leave(w, "other")
  <2>1. CASE w.ua.stopped
    BY <2>1 DEF UaReceiveL
  <2>2. CASE ~w.ua.stopped /\ w.ua.state = "WaitResponse"
    BY <2>2 DEF UaReceiveL, AckStates
  <2>3. CASE ~w.ua.stopped /\ w.ua.state \in AckStates
    BY <2>3 DEF UaReceiveL, AckStates
  <2>4. CASE ~w.ua.stopped /\ w.ua.state \notin {"WaitResponse"} \cup AckStates
    BY <2>4 DEF UaReceiveL
  <2>5. QED
    BY <2>1, <2>2, <2>3, <2>4
<1>4. QED
  BY <1>1, <1>2, <1>3, LeaveKnows

LEMMA SendAckKnows ==
  ASSUME NEW h, NEW w, Knows(h, w), NEW i, NEW r \in SendAck(w, i)
  PROVE  Knows(h, r.w)
<1> DEFINE v == [w EXCEPT !.ta[i].msg = "ack", !.tx[TxOf(w, i)] = "idle"]
<1>1. PICK p \in SendToTransmitterL(v, i) :
        r = p \/ \E q \in TerminatedL(p.w, i, "other") : r \in Yes(q.w)
  BY DEF SendAck, Trap
<1>2. Knows(h, v)
  BY DEF Knows
<1> HIDE DEF v
<1>3. Knows(h, p.w)
  BY <1>2, SendToTransmitterKnows
<1>4. QED
  BY <1>1, <1>3, TerminatedLKnows, LeaveKnows

LEMMA StopTimersKnows ==
  ASSUME NEW h, NEW w, Knows(h, w), NEW i, NEW T, NEW c
  PROVE  Knows(h, StopTimers(w, i, T)) /\ Knows(h, RestoreTa(w, i, c, T))
<1>1. \A v : Knows(h, v) => Knows(h, StopTimers(v, i, T))
  BY DEF StopTimers, Knows
<1>2. QED
  BY <1>1, WithKnows DEF RestoreTa

LEMMA TaReceiveResponseKnows ==
  ASSUME NEW h, NEW w, Knows(h, w), NEW i, NEW c, NEW back, NEW T,
         NEW r \in TaReceiveResponseL(w, i, c, back, T)
  PROVE  Knows(h, r.w)
<1> DEFINE v == [w EXCEPT !.ta[i].state = "Completed"]
<1>1. ASSUME NEW z, Knows(h, z), NEW p \in PassResponseToUserAgentL(z, i, c)
      PROVE  Knows(h, p.w)
  BY <1>1, UaReceiveKnows, LeaveKnows DEF PassResponseToUserAgentL, Assert
<1>2. CASE ~IsError(c)
  <2>1. PICK p \in PassResponseToUserAgentL(w, i, c) :
          r \in IF p.left = "no" THEN {p}
                ELSE Leave(RestoreTa(p.w, i, back, T), p.left)
    BY <1>2 DEF TaReceiveResponseL, OnLeave
  <2>2. QED
    BY <1>1, <2>1, StopTimersKnows, LeaveKnows
<1>3. CASE IsError(c)
  <2>1. \/ r \in Leave(w, "other") \/ r \in MayLeave("alloc", w)
        \/ \E p \in PassResponseToUserAgentL(v, i, c) :
             r \in IF p.left = "nomem"
                   THEN Leave(RestoreTa(p.w, i, back, T), "nomem")
                   ELSE SendAck(p.w, i)
    BY <1>3 DEF TaReceiveResponseL, Assert
  <2>2. Knows(h, v)
    BY WithKnows
  <2> HIDE DEF v
  <2>3. QED
    BY <1>1, <2>1, <2>2, StopTimersKnows, SendAckKnows, LeaveKnows
<1>4. QED
  BY <1>2, <1>3

LEMMA StartKnows ==
  ASSUME NEW h, NEW w, Knows(h, w), NEW i, NEW t,
         NEW r, r \in Start(w, i, t) \/ r \in StartTimerNATL(w, i)
  PROVE  Knows(h, r.w)
<1>1. ASSUME NEW k, NEW q \in Start(w, i, k) PROVE Knows(h, q.w)
  <2> DEFINE z == [w EXCEPT !.tm[i][k] = "on"]
  <2>1. q \in Yes(z) \/ q \in MayLeave("timer", w)
    BY <1>1 DEF Start
  <2>2. Knows(h, z)
    BY DEF Knows
  <2> HIDE DEF z
  <2>3. QED
    BY <2>1, <2>2, LeaveKnows
<1>2. QED
  BY <1>1, LeaveKnows DEF StartTimerNATL

(* The first provisional response, after timer P was started.              *)
NatStarted(w, i) ==
  Then(StartTimerNATL(w, i), LAMBDA y :
    Yes([y EXCEPT !.ta[i].state = "Proceeding"]))

LEMMA FirstKnows ==
  ASSUME NEW h, NEW w, Knows(h, w), NEW i, NEW r \in First(w, i)
  PROVE  Knows(h, r.w)
<1>1. \/ r \in Leave(w, "other")
      \/ \E p \in Start(w, i, "P") :
           r \in IF p.left = "no" /\ p.yes THEN NatStarted(p.w, i) ELSE {p}
  BY DEF First, Assert, NatStarted, Then
<1>2. ASSUME NEW v, Knows(h, v), NEW q \in NatStarted(v, i)
      PROVE  Knows(h, q.w)
  <2>1. PICK p \in StartTimerNATL(v, i) :
          q \in IF p.left = "no" /\ p.yes
                THEN Yes([p.w EXCEPT !.ta[i].state = "Proceeding"]) ELSE {p}
    BY <1>2 DEF NatStarted, Then
  <2>2. Knows(h, p.w)
    BY <1>2, <2>1, StartKnows
  <2>3. QED
    BY <2>1, <2>2, WithKnows, LeaveKnows
<1>3. QED
  BY <1>1, <1>2, StartKnows, LeaveKnows

LEMMA CallingReceiveKnows ==
  ASSUME NEW h, NEW w, Knows(h, w), NEW i, NEW c,
         NEW r \in CallingReceiveL(w, i, c)
  PROVE  Knows(h, r.w)
<1> DEFINE T == IF c = "prov" THEN {"P", "N"} ELSE {}
<1>1. PICK p \in IF c = "prov" THEN First(w, i) ELSE Yes(w) :
        r \in IF p.left = "no" /\ p.yes THEN Rings(p.w, i, c, T) ELSE {p}
  BY CallingReceiveIs
<1>2. Knows(h, p.w)
  BY <1>1, FirstKnows, LeaveKnows
<1>3. ASSUME NEW q \in Rings(p.w, i, c, T) PROVE Knows(h, q.w)
  <2>1. PICK s \in TaReceiveResponseL(p.w, i, c, "Calling", T) :
          q \in IF s.left = "no" /\ s.yes
                THEN Yes(StopTimers(s.w, i, {"A", "B"})) ELSE {s}
    BY <1>3 DEF Rings, Then
  <2>2. Knows(h, s.w)
    BY <1>2, TaReceiveResponseKnows
  <2>3. QED
    BY <2>1, <2>2, StopTimersKnows, LeaveKnows
<1>4. QED
  BY <1>1, <1>2, <1>3

LEMMA ProceedingReceiveKnows ==
  ASSUME NEW h, NEW w, Knows(h, w), NEW i, NEW c,
         NEW r \in ProceedingReceiveL(w, i, c)
  PROVE  Knows(h, r.w)
<1>1. PICK s \in TaReceiveResponseL(w, i, c, "Proceeding", {}) :
        r \in IF s.left = "no" /\ s.yes
              THEN Yes(IF IsError(c) THEN StopTimers(s.w, i, {"P", "N"})
                       ELSE s.w)
              ELSE {s}
  BY DEF ProceedingReceiveL, Then
<1>2. Knows(h, s.w)
  BY TaReceiveResponseKnows
<1>3. QED
  BY <1>1, <1>2, StopTimersKnows, LeaveKnows

LEMMA TaReceiveKnows ==
  ASSUME NEW h, NEW w, Knows(h, w), NEW i, NEW c, NEW r \in TaReceiveL(w, i, c)
  PROVE  Knows(h, r.w)
<1>1. CASE w.ta[i].over
  BY <1>1, LeaveKnows DEF TaReceiveL
<1>2. CASE ~w.ta[i].over /\ w.ta[i].state = "Calling"
  BY <1>2, CallingReceiveKnows DEF TaReceiveL
<1>3. CASE ~w.ta[i].over /\ w.ta[i].state = "Proceeding"
  BY <1>3, ProceedingReceiveKnows DEF TaReceiveL
<1>4. CASE ~w.ta[i].over /\ w.ta[i].state = "Completed"
  <2>1. r \in CompletedReceiveL(w, i, c)
    BY <1>4 DEF TaReceiveL
  <2>2. QED
    BY <2>1, SendToTransmitterKnows, LeaveKnows DEF CompletedReceiveL
<1>5. CASE /\ ~w.ta[i].over
           /\ w.ta[i].state \notin {"Calling", "Proceeding", "Completed"}
  BY <1>5, LeaveKnows DEF TaReceiveL
<1>6. QED
  BY <1>1, <1>2, <1>3, <1>4, <1>5

LEMMA StopWithLastErrorKnows ==
  ASSUME NEW h, NEW w, Knows(h, w), NEW r \in StopWithLastError(w)
  PROVE  Knows(h, r.w)
<1> DEFINE v == [w EXCEPT !.ua.stored = "none"]
           c == w.ua.stored
<1>1. \/ r \in Stop(w)
      \/ \E p \in PassMsgToTransactionOwnerL(v, c) : r \in Stop(p.w)
  BY DEF StopWithLastError, Then, Trap, Yes
<1>2. Knows(h, v)
  BY WithKnows
<1> HIDE DEF v
<1>3. QED
  BY <1>1, <1>2, PassMsgKnows, StopKnows

LEMMA SIPSecReadyKnows ==
  ASSUME NEW h, NEW w, Knows(h, w), NEW ok, NEW r \in SIPSecReady(w, ok)
  PROVE  Knows(h, r.w)
<1>1. ASSUME NEW p \in SIPSecCacheUpdatedL(w, ok) PROVE Knows(h, p.w)
  <2> DEFINE v == [w EXCEPT !.ua.stored = "none"]
             c == w.ua.stored
  <2>1. \/ p \in Yes(w) \/ p \in Leave(w, "other") \/ p \in Stop(w)
        \/ p \in ReceiveResponseL(v, c)
    BY <1>1 DEF SIPSecCacheUpdatedL, Assert
  <2>2. Knows(h, v)
    BY WithKnows
  <2> HIDE DEF v
  <2>3. QED
    BY <2>1, <2>2, ReceiveResponseKnows, StopKnows, LeaveKnows
<1>2. QED
  BY <1>1, StopOnLeaveKnows DEF SIPSecReady

LEMMA SendCompleteKnows ==
  ASSUME NEW h, NEW w, Knows(h, w), NEW i, NEW r \in SendCompleteL(w, i)
  PROVE  Knows(h, r.w)
<1>1. CASE w.ta[i].over
  BY <1>1, LeaveKnows DEF SendCompleteL
<1>2. CASE ~w.ta[i].over /\ w.ta[i].state = "Calling"
  <2>1. PICK p \in IF w.tm[i]["B"] = "off" THEN Start(w, i, "B") ELSE Yes(w) :
          \/ r = p \/ r \in Yes(p.w) \/ r \in Start(p.w, i, "A")
          \/ r \in Leave(p.w, "other")
    BY <1>2 DEF SendCompleteL, Then, Assert
  <2>2. Knows(h, p.w)
    BY <2>1, StartKnows, LeaveKnows
  <2>3. QED
    BY <2>1, <2>2, StartKnows, LeaveKnows
<1>3. CASE ~w.ta[i].over /\ w.ta[i].state = "Proceeding"
  BY <1>3, StartKnows DEF SendCompleteL
<1>4. CASE ~w.ta[i].over /\ w.ta[i].state \notin {"Calling", "Proceeding"}
  <2>1. r \in Start(w, i, "D") \/ r \in Yes(w)
    BY <1>4 DEF SendCompleteL
  <2>2. QED
    BY <2>1, StartKnows, LeaveKnows
<1>5. QED
  BY <1>1, <1>2, <1>3, <1>4

LEMMA UaSendFailedKnows ==
  ASSUME NEW h, NEW w, Knows(h, w), NEW r \in UaSendFailedL(w)
  PROVE  Knows(h, r.w)
<1>1. \/ r \in Leave(w, "other")
      \/ \E p \in TryNextAddressL(w, "none", "ResolveAck", "SendingAck") :
           r \in IF p.left = "no" /\ ~p.yes THEN Stop(p.w) ELSE {p}
  BY DEF UaSendFailedL, Otherwise
<1>2. QED
  BY <1>1, TryNextAddressKnows, StopKnows, LeaveKnows

(* Whoever handles a leave.                                                *)
LEMMA HandledKnows ==
  ASSUME NEW h, NEW S, \A p \in S : Knows(h, p.w),
         NEW r, r \in Handled(S, Ignored) \/ r \in Handled(S, StopOn)
  PROVE  Knows(h, r.w)
<1>1. \E p \in S : r = p \/ r \in Ignored(p.w, p.left)
      \/ r \in StopOn(p.w, p.left)
  BY DEF Handled
<1>2. QED
  BY <1>1, StopKnows, LeaveKnows DEF Ignored, StopOn

LEMMA SentRunsKnows ==
  ASSUME NEW h, NEW w, Knows(h, w), NEW k, NEW ok, NEW r \in SentRuns(w, k, ok)
  PROVE  Knows(h, r.w)
<1> DEFINE i == IF k = Ua THEN w.ua.cur ELSE k
           z == [w EXCEPT !.tx[k] = "idle"]
           S == IF ok THEN SendCompleteL(z, i)
                ELSE TerminatedL(z, i, "failure")
                     \cup TerminatedL(z, i, "other")
<1>1. Knows(h, z)
  BY WithKnows
<1> HIDE DEF z, i
<1>2. \A p \in S : Knows(h, p.w)
  BY <1>1, SendCompleteKnows, TerminatedLKnows
<1>3. \E p \in S : r = p \/ r \in TaLeaveOccurred(p.w, i)
  BY DEF SentRuns, Handled, z, i
<1> HIDE DEF S
<1>4. QED
  BY <1>2, <1>3, TaLeaveOccurredKnows

LEMMA UaSentRunsKnows ==
  ASSUME NEW h, NEW w, Knows(h, w), NEW ok, NEW r \in UaSentRuns(w, ok)
  PROVE  Knows(h, r.w)
<1>1. \/ r \in Yes(Quiet(w)) \/ r \in Stop(Quiet(w))
      \/ \E p \in UaSendFailedL(Quiet(w)) : r = p \/ r \in Stop(p.w)
  BY DEF UaSentRuns, Handled
<1>2. Knows(h, Quiet(w))
  BY WithKnows DEF Quiet
<1>3. QED
  BY <1>1, <1>2, UaSendFailedKnows, StopKnows, LeaveKnows

LEMMA TimerRunsKnows ==
  ASSUME NEW h, NEW w, Knows(h, w), NEW i, NEW t, NEW r \in TimerRuns(w, i, t)
  PROVE  Knows(h, r.w)
<1> DEFINE z == [w EXCEPT !.tm[i][t] = "stale"]
           S == Then(Expired(i, t, z), LAMBDA v : Yes(Ran(v, i, t)))
<1>1. Knows(h, z)
  BY WithKnows
<1>2. r \in Yes(z) \/ r \in Handled(S, Ignored)
  BY DEF TimerRuns
<1> HIDE DEF z
<1>3. ASSUME NEW p \in Expired(i, t, z) PROVE Knows(h, p.w)
  BY <1>1, <1>3, SendToTransmitterKnows, TerminatedLKnows, LeaveKnows
     DEF Expired
<1>4. ASSUME NEW q \in S PROVE Knows(h, q.w)
  <2>1. PICK p \in Expired(i, t, z) :
          q \in IF p.left = "no" /\ p.yes THEN Yes(Ran(p.w, i, t)) ELSE {p}
    BY <1>4 DEF Then
  <2>2. Knows(h, Ran(p.w, i, t))
    BY <1>3, <2>1, StopTimersKnows DEF Ran
  <2>3. QED
    BY <1>3, <2>1, <2>2, LeaveKnows
<1> HIDE DEF S
<1>5. QED
  BY <1>1, <1>2, <1>4, HandledKnows, LeaveKnows

LEMMA SIPSecRunsKnow ==
  ASSUME NEW h, NEW w, Knows(h, w), NEW ok,
         NEW r, r \in SIPSecRuns(w, ok) \/ r \in SIPSecTimerRuns(w)
  PROVE  Knows(h, r.w)
<1> DEFINE y == [w EXCEPT !.ua.secwait = FALSE]
           z == [w EXCEPT !.ut["S"] = "stale"]
           S == SIPSecReady(y, ok)
           T == Then(SIPSecReady(z, TRUE), LAMBDA v :
                  Yes([v EXCEPT !.ut["S"] = "off"]))
<1>1. Knows(h, y) /\ Knows(h, z)
  BY WithKnows
<1>2. \/ r \in Handled(S, Ignored) \/ r \in Yes(z) \/ r \in Handled(T, Ignored)
  BY DEF SIPSecRuns, SIPSecTimerRuns
<1> HIDE DEF y, z
<1>3. \A p \in S : Knows(h, p.w)
  BY <1>1, SIPSecReadyKnows
<1>4. ASSUME NEW q \in T PROVE Knows(h, q.w)
  <2>1. PICK p \in SIPSecReady(z, TRUE) :
          q \in IF p.left = "no" /\ p.yes
                THEN Yes([p.w EXCEPT !.ut["S"] = "off"]) ELSE {p}
    BY <1>4 DEF Then
  <2>2. Knows(h, p.w)
    BY <1>1, SIPSecReadyKnows
  <2>3. QED
    BY <2>1, <2>2, WithKnows, LeaveKnows
<1> HIDE DEF S, T
<1>5. QED
  BY <1>1, <1>2, <1>3, <1>4, HandledKnows, LeaveKnows

LEMMA Wait2xxRunsKnows ==
  ASSUME NEW h, NEW w, Knows(h, w), NEW r \in Wait2xxRuns(w)
  PROVE  Knows(h, r.w)
<1> DEFINE z == [w EXCEPT !.ut["W"] = "stale"]
<1>1. Knows(h, z)
  BY WithKnows
<1>2. \/ r \in Yes(z)
      \/ \E p \in Stop(z) :
           r \in IF p.left = "no" /\ p.yes
                 THEN Yes([p.w EXCEPT !.ut["W"] = "off"]) ELSE {p}
  BY DEF Wait2xxRuns, Then
<1> HIDE DEF z
<1>3. QED
  BY <1>1, <1>2, StopKnows, WithKnows, LeaveKnows

LEMMA RouteRunsKnows ==
  ASSUME NEW h, NEW w, Knows(h, w), NEW b, NEW c, NEW u,
         NEW r \in RouteRuns(w, b, c, u)
  PROVE  Knows(h, r.w)
<1>1. PICK p \in IF u THEN UaReceiveL(w, c) ELSE TaReceiveL(w, b, c) :
        \/ r = p \/ r \in Yes(p.w) \/ r \in Stop(p.w)
        \/ r \in TaLeaveOccurred(p.w, b)
  BY DEF RouteRuns, Handled
<1>2. Knows(h, p.w)
  BY <1>1, UaReceiveKnows, TaReceiveKnows
<1>3. QED
  BY <1>1, <1>2, StopKnows, TaLeaveOccurredKnows, LeaveKnows

CreatedAs(w) == Then(CreateTransactionL(w), LAMBDA b : GivenOn(b, FALSE))

LEMMA ResolvedRunsKnows ==
  ASSUME NEW h, NEW w, Knows(h, w), NEW a,
         NEW r, r \in ResolvedRuns(w, a) \/ r \in AckResolvedRuns(w, a)
  PROVE  Knows(h, r.w)
<1> DEFINE v == FoundIn(w, a)
<1>1. Knows(h, v)
  BY DEF FoundIn, Knows
<1>2. r \in Handled(Assigned(v), StopOn)
      \/ r \in Handled(AckAssigned(v), StopOn)
  BY DEF ResolvedRuns, AckResolvedRuns
<1> HIDE DEF v
<1>3. ASSUME NEW q \in Assigned(v) PROVE Knows(h, q.w)
  <2>1. PICK p \in FillSecurityParamsL(v) :
          q \in IF p.left = "no" /\ p.yes THEN CreatedAs(p.w) ELSE {p}
    BY <1>3 DEF Assigned, CreatedAs, Then
  <2>2. Knows(h, p.w)
    BY <1>1, FillSecurityParamsKnows
  <2>3. ASSUME NEW s \in CreatedAs(p.w) PROVE Knows(h, s.w)
    <3>1. PICK b \in CreateTransactionL(p.w) :
            s \in IF b.left = "no" /\ b.yes
                  THEN StoredAs(b.w, FALSE, "WaitResponse") ELSE {b}
      BY <2>3 DEF CreatedAs, GivenOn, StoredAs, SentAs, Then
    <3>2. Knows(h, b.w)
      BY <2>2, CreateTransactionKnows
    <3>3. QED
      BY <3>1, <3>2, StoredAsKnows
  <2>4. QED
    BY <2>1, <2>2, <2>3
<1>4. ASSUME NEW q \in AckAssigned(v) PROVE Knows(h, q.w)
  <2>1. PICK t \in Returned(AckFilled(v)) :
          q \in IF t.left = "no" /\ t.yes
                THEN Yes([t.w EXCEPT !.ua.state = "SendingAck"]) ELSE {t}
    BY <1>4 DEF AckAssigned, Then
  <2>2. PICK s \in AckFilled(v) : t.w = s.w
    BY DEF Returned
  <2>3. PICK p \in FillSecurityParamsL(v) :
          s \in IF p.left = "no" /\ p.yes THEN SendRequestToNetworkL(p.w)
                ELSE {p}
    BY DEF AckFilled, Then
  <2>4. Knows(h, p.w)
    BY <1>1, FillSecurityParamsKnows
  <2>5. Knows(h, t.w)
    BY <2>2, <2>3, <2>4, SendRequestToNetworkKnows
  <2>6. QED
    BY <2>1, <2>5, WithKnows, LeaveKnows
<1>5. QED
  BY <1>2, <1>3, <1>4, HandledKnows

LEMMA ResolvingRunsKnows ==
  ASSUME NEW h, NEW w, Knows(h, w), NEW resolved,
         NEW r \in ResolvingRuns(w, resolved)
  PROVE  Knows(h, r.w)
<1> DEFINE v == NoResults(w)
           next == IF w.ua.state = "Resolve" THEN "WaitResponse"
                   ELSE "SendingAck"
           S == TryNextAddressL(v, "none", w.ua.state, next)
<1>1. Knows(h, v)
  BY DEF NoResults, Knows
<1>2. \/ r \in Stop(w)
      \/ \E p \in Handled(S, LAMBDA z, why : No(z)) :
           r = p \/ r \in StopWithLastError(p.w)
  BY DEF ResolvingRuns, Otherwise
<1>3. \A p \in S : Knows(h, p.w)
  BY <1>1, TryNextAddressKnows
<1> HIDE DEF S
<1>4. \A p \in Handled(S, LAMBDA z, why : No(z)) : Knows(h, p.w)
  BY <1>3, LeaveKnows DEF Handled
<1>5. QED
  BY <1>2, <1>4, StopKnows, StopWithLastErrorKnows

LEMMA IcmpFailsKnows ==
  ASSUME NEW h, NEW w, Knows(h, w), NEW b, NEW u, NEW r \in IcmpFails(w, b, u)
  PROVE  Knows(h, r.w)
<1>1. Knows(h, Quiet(w))
  BY WithKnows DEF Quiet
<1>2. QED
  BY <1>1, TerminatedLKnows, UaSendFailedKnows DEF IcmpFails

LEMMA SendFirstAckKnows ==
  ASSUME NEW h, NEW w, Knows(h, w), NEW r \in SendFirstAckL(w)
  PROVE  Knows(h, r.w)
<1> DEFINE u == [w EXCEPT !.ua.acked = TRUE, !.ua.owner = TRUE]
           v == [u EXCEPT !.ua.msg = "ack", !.ua.results = FALSE,
                          !.ua.addrs = 0, !.ua.state = "ResolveAck"]
<1>1. r \in Leave(w, "other") \/ r \in MayLeave("alloc", u) \/ r \in Yes(v)
  BY DEF SendFirstAckL
<1>2. Knows(h, u)
  BY DEF Knows
<1> HIDE DEF u
<1>3. Knows(h, v)
  BY <1>2 DEF Knows
<1> HIDE DEF v
<1>4. QED
  BY <1>1, <1>2, <1>3, LeaveKnows

LEMMA OwnerLeavesKnows ==
  ASSUME NEW h, NEW w, Knows(h, w), NEW r \in OwnerLeaves(w)
  PROVE  Knows(h, r.w)
<1> DEFINE v == OwnerOut(w)
           x == Unsent(v)
           i == v.ua.cur
           u == IF i = 0 THEN x ELSE ClearSendBuffer(x, i)
           d == [u EXCEPT !.ta[i].att = FALSE]
<1>1. Knows(h, v)
  BY DEF OwnerOut, Knows
<1>2. \/ r \in Yes(v) \/ r \in Yes(u) \/ r \in Stop(u)
      \/ r \in Stop(Terminated(d, i))
  BY DEF OwnerLeaves, DetachOutgoingMsg, Unsent
<1> HIDE DEF v
<1>3. Knows(h, x)
  BY <1>1 DEF Unsent, Knows
<1> HIDE DEF x
<1>4. Knows(h, u)
  BY <1>3, TerminatedKnows
<1> HIDE DEF u
<1>5. Knows(h, d)
  BY <1>4 DEF Knows
<1> HIDE DEF d
<1>6. QED
  BY <1>1, <1>2, <1>4, <1>5, TerminatedKnows, StopKnows, LeaveKnows

(* Every event leaves the owner with what it has heard.                    *)
LEMMA BecomesKnows ==
  ASSUME NEW STATE S, Becomes(S), NEW h, \A r \in S : Knows(h, r.w)
  PROVE  h \subseteq hist'.heard
BY DEF Becomes, Knows

LEMMA CancelRunsKnows ==
  ASSUME NEW h, NEW w, Knows(h, w), NEW r \in CancelRuns(w)
  PROVE  Knows(h, r.w)
<1> DEFINE v == [w EXCEPT !.ua.canceled = TRUE]
<1>1. Knows(h, v)
  BY DEF Knows
<1>2. r \in Yes(v)
  BY DEF CancelRuns
<1> HIDE DEF v
<1>3. QED
  BY <1>1, <1>2, LeaveKnows

LEMMA HeardGrows ==
  ASSUME IInv, [Next]_vars
  PROVE  hist.heard \subseteq hist'.heard
<1> DEFINE h == hist.heard
<1>1. World \in WorldType
  BY DEF IInv, Inv, Core, Body
<1>2. Knows(h, World)
  BY <1>1, WorldIs DEF Knows, WorldType, UaType, HistType
<1> HIDE DEF h
<1>3. ASSUME NEW k \in Obj, NEW ok \in BOOLEAN, TaSent(k, ok)
      PROVE  h \subseteq hist'.heard
  <2>1. Becomes(SentRuns(World, k, ok))
    BY <1>3, WorldIs DEF TaSent, SentRuns, Handled
  <2>2. QED
    BY <1>2, <2>1, SentRunsKnows, BecomesKnows
<1>4. ASSUME NEW ok \in BOOLEAN, UaSent(ok) PROVE h \subseteq hist'.heard
  <2>1. Becomes(UaSentRuns(World, ok))
    BY <1>4, WorldIs DEF UaSent, UaSentRuns, Quiet, Handled
  <2>2. QED
    BY <1>2, <2>1, UaSentRunsKnows, BecomesKnows
<1>5. ASSUME NEW i \in Ta, NEW t \in TaTimers, TaTimer(i, t)
      PROVE  h \subseteq hist'.heard
  <2>1. Becomes(TimerRuns(World, i, t))
    BY <1>5, WorldIs DEF TaTimer, TimerRuns, Handled, Then, Ran
  <2>2. QED
    BY <1>2, <2>1, TimerRunsKnows, BecomesKnows
<1>6. ASSUME SIPSecTimer PROVE h \subseteq hist'.heard
  <2>1. Becomes(SIPSecTimerRuns(World))
    BY <1>6, WorldIs DEF SIPSecTimer, SIPSecTimerRuns, Handled, Then, Ignored
  <2>2. QED
    BY <1>2, <2>1, SIPSecRunsKnow, BecomesKnows
<1>7. ASSUME Wait2xxTimer PROVE h \subseteq hist'.heard
  <2>1. Becomes(Wait2xxRuns(World))
    BY <1>7, WorldIs DEF Wait2xxTimer, Wait2xxRuns, Then
  <2>2. QED
    BY <1>2, <2>1, Wait2xxRunsKnows, BecomesKnows
<1>8. ASSUME NEW b \in Ta, NEW c \in Responses, Respond(b, c)
      PROVE  h \subseteq hist'.heard
  <2> DEFINE u == ToUa(b)
  <2>1. Becomes(RouteRuns(World, b, c, u))
    BY <1>8 DEF Respond, Received, RouteRuns, Handled
  <2> HIDE DEF u
  <2>2. QED
    BY <1>2, <2>1, RouteRunsKnows, BecomesKnows
<1>9. ASSUME NEW a, Resolved(a) PROVE h \subseteq hist'.heard
  <2>1. Becomes(ResolvedRuns(World, a))
    BY <1>9 DEF Resolved, ResolvedRuns, Assigned, GivenOn, Found, FoundIn,
                Handled, Then
  <2>2. QED
    BY <1>2, <2>1, ResolvedRunsKnows, BecomesKnows
<1>10. ASSUME NEW a, AckResolved(a) PROVE h \subseteq hist'.heard
  <2>1. Becomes(AckResolvedRuns(World, a))
    BY <1>10 DEF AckResolved, AckResolvedRuns, AckAssigned, AckFilled, Found,
                 FoundIn, Handled, Then
  <2>2. QED
    BY <1>2, <2>1, ResolvedRunsKnows, BecomesKnows
<1>11. ASSUME NEW resolved, ResolvingFails(resolved)
       PROVE  h \subseteq hist'.heard
  <2>1. Becomes(ResolvingRuns(World, resolved))
    BY <1>11, WorldIs DEF ResolvingFails, ResolvingRuns, NoResults, Handled,
                          Otherwise
  <2>2. QED
    BY <1>2, <2>1, ResolvingRunsKnows, BecomesKnows
<1>12. ASSUME NEW ok, SIPSecAnswers(ok) PROVE h \subseteq hist'.heard
  <2>1. Becomes(SIPSecRuns(World, ok))
    BY <1>12 DEF SIPSecAnswers, SIPSecRuns, Handled, Ignored
  <2>2. QED
    BY <1>2, <2>1, SIPSecRunsKnow, BecomesKnows
<1>13. ASSUME NEW b \in Ta, IcmpError(b) PROVE h \subseteq hist'.heard
  <2> DEFINE S == IcmpFails(World, b, ToUa(b))
  <2>1. Becomes(Handled(S, Ignored))
    BY <1>13 DEF IcmpError, IcmpFails, Quiet, Handled
  <2>2. \A p \in S : Knows(h, p.w)
    BY <1>2, IcmpFailsKnows
  <2> HIDE DEF S
  <2>3. QED
    BY <2>1, <2>2, HandledKnows, BecomesKnows
<1>14. ASSUME AppSendsAck PROVE h \subseteq hist'.heard
  <2> DEFINE S == SendFirstAckL(World)
  <2>1. Becomes(Handled(S, Ignored))
    BY <1>14 DEF AppSendsAck, Handled
  <2>2. \A p \in S : Knows(h, p.w)
    BY <1>2, SendFirstAckKnows
  <2> HIDE DEF S
  <2>3. QED
    BY <2>1, <2>2, HandledKnows, BecomesKnows
<1>15. ASSUME AppCancels PROVE h \subseteq hist'.heard
  <2>1. Becomes(CancelRuns(World))
    BY <1>15 DEF AppCancels, CancelRuns
  <2>2. QED
    BY <1>2, <2>1, CancelRunsKnows, BecomesKnows
<1>16. ASSUME ClearTransactionOwner PROVE h \subseteq hist'.heard
  <2>1. Becomes(OwnerLeaves(World))
    BY <1>16, WorldIs DEF ClearTransactionOwner, OwnerLeaves, OwnerOut
  <2>2. QED
    BY <1>2, <2>1, OwnerLeavesKnows, BecomesKnows
<1>17. ASSUME DeleteMgrRuns \/ StoreFreesMarked PROVE h \subseteq hist'.heard
  <2>1. PICK S \in {del.doomed, del.marked} :
          Becomes(Yes(Destroyed(World, S)))
    BY <1>17 DEF DeleteMgrRuns, StoreFreesMarked
  <2>2. \A r \in Yes(Destroyed(World, S)) : Knows(h, r.w)
    BY <1>2, DestroyedKnows, LeaveKnows
  <2>3. QED
    BY <2>1, <2>2, BecomesKnows
<1>18. ASSUME UNCHANGED vars PROVE h \subseteq hist'.heard
  BY <1>18 DEF vars, h
<1>19. h \subseteq hist'.heard
  <2>1. CASE \/ \E k \in Obj :
                  TaSent(k, TRUE) \/ ("fail" \in Faults /\ TaSent(k, FALSE))
             \/ UaSent(TRUE) \/ ("fail" \in Faults /\ UaSent(FALSE))
    BY <2>1, <1>3, <1>4
  <2>2. CASE \E i \in Ta, t \in TaTimers : TaTimer(i, t)
    BY <2>2, <1>5
  <2>3. CASE \E b \in Ta, c \in Responses : Respond(b, c)
    BY <2>3, <1>8
  <2>4. CASE \E addrs \in 0..MaxTa : Resolved(addrs)
    BY <2>4, <1>9
  <2>5. CASE \E addrs \in 0..1 : AckResolved(addrs)
    BY <2>5, <1>10
  <2>6. CASE \E resolved \in BOOLEAN : ResolvingFails(resolved)
    BY <2>6, <1>11
  <2>7. CASE \E ok \in BOOLEAN : SIPSecAnswers(ok)
    BY <2>7, <1>12
  <2>8. CASE \E b \in Ta : IcmpError(b)
    BY <2>8, <1>13
  <2>9. QED
    BY <2>1, <2>2, <2>3, <2>4, <2>5, <2>6, <2>7, <2>8, <1>6, <1>7, <1>14,
       <1>15, <1>16, <1>17, <1>18 DEF Next
<1>20. QED
  BY <1>19 DEF h

(* Once the owner has a final response no INVITE is sent: a transaction    *)
(* that starts to send has an ACK to send.  It heard of the 2xx where only *)
(* ACKs are left to the user agent, and of the error where the transaction *)
(* of the user agent has completed.                                        *)
THEOREM OutcomeEndsInvites == Spec => NoInviteAfterFinal
<1>1. ASSUME IInv, IInv', [Next]_vars,
             hist.heard \cap {"ok", "error"} # {},
             NEW k \in Obj, tx'[k] = "ta"
      PROVE  \E i \in Ta : /\ i = IF k = Ua THEN ua'.cur ELSE k
                           /\ ta'[i].msg = "ack"
  <2>1. "ok" \in hist'.heard \/ "error" \in hist'.heard
    BY <1>1, HeardGrows
  <2>2. Body(World')
    BY <1>1 DEF IInv, Inv, Core
  <2>3. /\ World' \in WorldType
        /\ ta' \in [Ta -> TaType] /\ ua' \in UaType
        /\ Heard(ua', hist') /\ Acks(ua', tx') /\ Acked(ta')
        /\ Made(ta', tm', tx', ua', st', del')
        /\ Current(ta', ua', del') /\ Attached(ta', ua', st', del')
        /\ Sending(ta', tx', ua', del')
    BY <2>2, WorldIs DEF Body, World, WorldType
  <2>4. CASE k = Ua
    <3>1. ua'.cur # 0 /\ ~ta'[ua'.cur].over
      BY <1>1, <2>3, <2>4 DEF Sending
    <3>2. ua'.cur \in Ta
      BY <2>3, <3>1, Ids DEF UaType, Obj, Ua
    <3>3. ua'.state = "WaitEnd"
      BY <2>1, <2>3, <3>1 DEF Heard, Acks
    <3>4. ta'[ua'.cur].msg = "ack"
      BY <2>3, <3>1, <3>2, <3>3 DEF Current, Acked
    <3>5. QED
      BY <2>4, <3>2, <3>4
  <2>5. CASE k # Ua
    <3>1. k \in Ta
      BY <2>5 DEF Obj
    <3>2. ta'[k].indep /\ ~ta'[k].over /\ k \notin del'.gone
      BY <1>1, <2>3, <3>1 DEF Sending
    <3>3. ta'[k].state # "none"
      BY <1>1, <2>3, <3>1 DEF Made
    <3>4. Runs(ta', del', k)
      BY <3>2, <3>3 DEF Runs, Here
    <3>5. ~ta'[k].att
      BY <2>3, <3>1, <3>2, <3>4, Ids DEF Attached, Current, Ua
    <3>6. ta'[k].state = "Completed"
      BY <2>3, <3>1, <3>4, <3>5 DEF Attached
    <3>7. QED
      BY <2>3, <2>5, <3>1, <3>2, <3>6 DEF Acked
  <2>6. QED
    BY <2>4, <2>5
<1>2. IInv /\ IInv' /\ [Next]_vars =>
        (hist.heard \cap {"ok", "error"} # {} =>
           \A k \in Obj : tx'[k] = "ta" /\ tx[k] = "idle" =>
             \E i \in Ta : /\ i = IF k = Ua THEN ua'.cur ELSE k
                           /\ ta'[i].msg = "ack")
  BY <1>1
<1>3. QED
  BY <1>2, ClientInvariant, PTL DEF Spec, NoInviteAfterFinal

=============================================================================
