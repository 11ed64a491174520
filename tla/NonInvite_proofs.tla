-------------------------- MODULE NonInvite_proofs --------------------------
(***************************************************************************)
(* Theorems about NonInvite, for both transports, every number of          *)
(* provisional responses and every set of faults.                          *)
(***************************************************************************)
EXTENDS NonInvite, TLAPS

(* Timer F starts with the first completed send, or a provisional response *)
(* came before it; timers that end the transaction never stay as objects.  *)
ClientInv ==
  /\ ct.F # "stale"
  /\ ~c.over /\ ~cu.gone /\ c.state = "Proceeding" => ct.F = "on" \/ hist.early
  /\ ClientIsBounded

(* Before the first request nothing runs and nothing is sent.              *)
ServerInv ==
  /\ su.state = "Start" =>
       /\ s.state = "Trying" /\ sx.phase = "idle"
       /\ s.over \/ st.Send100 = "off"
  /\ st.J # "stale"
  /\ ServerIsBounded

(* What the transaction keeps or queues is no newer than r.                *)
NoneAfter(t, r) ==
  t.msg <= r /\ \A i \in 1..Len(t.queue) : t.queue[i] <= r

(* The queue is in order and follows the response that is kept.            *)
Sorted(t) ==
  /\ \A i \in 1..Len(t.queue) : t.msg <= t.queue[i]
  /\ \A i, j \in 1..Len(t.queue) : i < j => t.queue[i] <= t.queue[j]

(* Nothing older than what is on the wire can still be sent.               *)
Ordered(t, x) ==
  /\ x.msg \in {NoMsg, t.msg} /\ hist.wire <= t.msg
  /\ t.state = "Trying" => t.msg = NoMsg /\ t.queue = << >>
  /\ Sorted(t)

(* Responses wait only behind one that is being sent, and what may still   *)
(* be answered is newer than all of them.                                  *)
OrderInv ==
  /\ Ordered(s, sx)
  /\ ~s.over /\ st.Send100 = "on" => s.state = "Trying"
  /\ su.gone => su.stopped
  /\ s.queue # << >> /\ s.state = "Proceeding" =>
       s.over \/ su.gone \/ sx.phase # "idle"
  /\ su.state # "FinalRespSent" => NoneAfter(s, Trying + hist.provs)

(* Who was told what: a final response once, in Completed; the end once,   *)
(* by a user agent that has stopped.                                       *)
HeardInv ==
  /\ hist.finals > 0 => cu.final /\ c.state = "Completed"
  /\ hist.cEnded > 0 => cu.stopped
  /\ hist.sEnded > 0 => su.stopped
  /\ OneAnswer

IInv == TypeOK /\ ClientInv /\ ServerInv /\ OrderInv /\ HeardInv

-----------------------------------------------------------------------------
(* The status codes: a 100, what is newer than it, and the final one.      *)
LEMMA Codes ==
  /\ Code \subseteq Nat /\ NoMsg \in CodeOrNone /\ Code \subseteq CodeOrNone
  /\ Trying \in Code /\ Final \in Code
  /\ \A r \in Code : Trying <= r /\ r <= Final
  /\ \A i \in 0..(MaxProv - 1) : Trying + i + 1 \in Code \ {Trying, Final}
BY NonInviteAssumption
   DEF Code, CodeOrNone, Provisional, Trying, Final, NoMsg

(* A response the state accepts is kept and given to the transmitter; F2   *)
(* goes with the final one, Send100 with the first.                        *)
IsSent(o, t, r, tm) ==
  /\ o.left = FALSE /\ o.sx = Sending(r)
  /\ o.s = [t EXCEPT !.state = StateAfter(r), !.msg = r]
  /\ o.st \in [ServerTimers -> TimerState]
  /\ o.st["J"] = tm["J"]
  /\ r # Final => o.st["F2"] = tm["F2"]
  /\ o.st["Send100"] = IF t.state = "Trying" THEN "off" ELSE tm["Send100"]

(* One that leaves changes at most what the transmitter sends.             *)
IsRefused(o, t, tm) ==
  o.left = TRUE /\ o.s = t /\ o.st = tm /\ o.sx \in {sx, Sending(NoMsg)}

IsQueued(o, r, tm) ==
  /\ o.left = FALSE /\ o.s = [s EXCEPT !.queue = Append(s.queue, r)]
  /\ o.st = tm /\ o.sx = sx

LEMMA SendAndStoreFacts ==
  ASSUME NEW t \in ServerType, NEW r \in Code,
         NEW tm \in [ServerTimers -> TimerState],
         NEW o \in SendAndStore(t, r, tm)
  PROVE  IsSent(o, t, r, tm) \/ IsRefused(o, t, tm)
<1> DEFINE tm100 == IF t.state = "Trying" THEN [tm EXCEPT !.Send100 = "off"]
                                          ELSE tm
           tm2 == IF r = Final THEN StopTimerF2(tm100) ELSE tm100
           sent == [s |-> [t EXCEPT !.state = StateAfter(r), !.msg = r],
                    sx |-> Sending(r), left |-> FALSE, st |-> tm2]
<1>1. /\ tm100 \in [ServerTimers -> TimerState]
      /\ tm100["J"] = tm["J"] /\ tm100["F2"] = tm["F2"]
      /\ tm100["Send100"] = IF t.state = "Trying" THEN "off"
                                                  ELSE tm["Send100"]
  BY DEF ServerTimers, TimerState
<1>2. /\ tm2 \in [ServerTimers -> TimerState]
      /\ tm2["J"] = tm["J"] /\ tm2["Send100"] = tm100["Send100"]
      /\ r # Final => tm2["F2"] = tm["F2"]
  BY <1>1 DEF ServerTimers, TimerState, StopTimerF2
<1>3. CASE o = sent
  BY <1>1, <1>2, <1>3 DEF IsSent
<1>4. CASE o # sent
  BY <1>4 DEF SendAndStore, IsRefused
<1>5. QED
  BY <1>3, <1>4

LEMMA SendResponseFacts ==
  ASSUME TypeOK, NEW r \in Code, NEW tm \in [ServerTimers -> TimerState],
         NEW o \in SendResponse(r, tm)
  PROVE  \/ IsRefused(o, s, tm)
         \/ /\ ~s.over /\ s.state # "Completed" /\ sx.phase = "idle"
            /\ IsSent(o, s, r, tm)
         \/ /\ ~s.over /\ s.state = "Proceeding" /\ sx.phase # "idle"
            /\ IsQueued(o, r, tm)
<1> DEFINE unsent == [s |-> s, sx |-> sx, st |-> tm, left |-> TRUE]
           queued == [unsent EXCEPT !.s.queue = Enqueue(@, r), !.left = FALSE]
<1>1. s \in ServerType
  BY DEF TypeOK
<1>2. CASE o = unsent
  BY <1>2 DEF IsRefused
<1>3. CASE /\ o = queued /\ ~s.over /\ s.state = "Proceeding"
           /\ sx.phase # "idle"
  BY <1>1, <1>3 DEF IsQueued, Enqueue, ServerType
<1>4. CASE /\ ~s.over /\ s.state # "Completed" /\ sx.phase = "idle"
           /\ o \in SendAndStore(s, r, tm)
  BY <1>1, <1>4, SendAndStoreFacts
<1>5. QED
  BY <1>1, <1>2, <1>3, <1>4 DEF SendResponse, ServerType, TaState

(* What is sent, refused or queued has the types it should have.           *)
LEMMA SendResponseTypes ==
  ASSUME TypeOK, NEW r \in Code, NEW tm \in [ServerTimers -> TimerState],
         NEW o \in SendResponse(r, tm)
  PROVE  /\ o.s \in ServerType /\ o.sx \in TxType
         /\ o.st \in [ServerTimers -> TimerState] /\ o.left \in BOOLEAN
<1>1. /\ s \in ServerType /\ sx \in TxType
      /\ Sending(r) \in TxType /\ Sending(NoMsg) \in TxType
  BY Codes DEF TypeOK, Sending, TxType, Phase
<1>2. [s EXCEPT !.state = StateAfter(r), !.msg = r] \in ServerType
  BY <1>1, Codes DEF ServerType, TaState, StateAfter
<1>3. [s EXCEPT !.queue = Append(s.queue, r)] \in ServerType
  BY <1>1 DEF ServerType
<1>4. CASE IsRefused(o, s, tm)
  BY <1>1, <1>4 DEF IsRefused
<1>5. CASE IsSent(o, s, r, tm)
  BY <1>1, <1>2, <1>5 DEF IsSent
<1>6. CASE IsQueued(o, r, tm)
  BY <1>1, <1>3, <1>6 DEF IsQueued
<1>7. QED
  BY <1>4, <1>5, <1>6, SendResponseFacts

(* Ending the client: over, idle, its user agent stopped and its owner     *)
(* told unless it had stopped before.                                      *)
LEMMA EndClientFacts ==
  ASSUME TypeOK, NEW tm \in [ClientTimers -> TimerState], EndClient(tm, hist)
  PROVE  /\ c' \in ClientType /\ c'.over /\ c'.state = c.state
         /\ ct' = tm /\ cx' = "idle"
         /\ cu' \in ClientUaType /\ cu'.stopped
         /\ cu'.final = cu.final /\ cu'.gone = cu.gone
         /\ hist' \in HistType
         /\ hist' = [hist EXCEPT !.cEnded = hist'.cEnded]
         /\ hist'.cEnded = hist.cEnded
            \/ (~cu.stopped /\ hist'.cEnded = hist.cEnded + 1)
<1>1. c' \in ClientType /\ c'.over /\ c'.state = c.state
  BY DEF TypeOK, EndClient, ClientType
<1>2. /\ cu' \in ClientUaType /\ cu'.stopped
      /\ cu'.final = cu.final /\ cu'.gone = cu.gone
  BY DEF TypeOK, EndClient, ClientUaType, Stopped
<1>3. Told(cu) = 0 \/ (~cu.stopped /\ Told(cu) = 1)
  BY DEF Told
<1>4. /\ hist' \in HistType
      /\ hist' = [hist EXCEPT !.cEnded = hist'.cEnded]
      /\ hist'.cEnded = hist.cEnded + Told(cu)
  BY <1>3 DEF TypeOK, EndClient, HistType
<1>5. QED
  BY <1>1, <1>2, <1>3, <1>4 DEF EndClient, TypeOK, HistType

LEMMA EndServerFacts ==
  ASSUME TypeOK, NEW u \in ServerUaType,
         NEW tm \in [ServerTimers -> TimerState], EndServer(u, tm, hist)
  PROVE  /\ s' \in ServerType /\ s'.over /\ s'.state = s.state
         /\ s'.msg = s.msg /\ s'.queue = s.queue
         /\ st' = tm /\ sx' = IdleTx /\ sx' \in TxType
         /\ su' \in ServerUaType /\ su'.stopped
         /\ su'.state = u.state /\ su'.gone = u.gone
         /\ hist' \in HistType
         /\ hist' = [hist EXCEPT !.sEnded = hist'.sEnded]
         /\ hist'.sEnded = hist.sEnded
            \/ (~u.stopped /\ hist'.sEnded = hist.sEnded + 1)
<1>1. IdleTx \in TxType
  BY Codes DEF IdleTx, TxType, Phase
<1>2. /\ s' \in ServerType /\ s'.over /\ s'.state = s.state
      /\ s'.msg = s.msg /\ s'.queue = s.queue
  BY DEF TypeOK, EndServer, ServerType
<1>3. /\ su' \in ServerUaType /\ su'.stopped
      /\ su'.state = u.state /\ su'.gone = u.gone
  BY DEF EndServer, ServerUaType, Stopped
<1>4. Told(u) = 0 \/ (~u.stopped /\ Told(u) = 1)
  BY DEF Told
<1>5. /\ hist' \in HistType
      /\ hist' = [hist EXCEPT !.sEnded = hist'.sEnded]
      /\ hist'.sEnded = hist.sEnded + Told(u)
  BY <1>4 DEF TypeOK, EndServer, HistType
<1>6. QED
  BY <1>1, <1>2, <1>3, <1>4, <1>5 DEF EndServer, TypeOK, HistType

LEMMA TypesInit == Init => TypeOK
BY Codes, NonInviteAssumption
   DEF Init, TypeOK, ClientType, ClientUaType, ServerType, ServerUaType,
       TxType, NetType, HistType, ClientTimers, ServerTimers, TimerState,
       TaState, Phase, IdleTx

LEMMA HeardType ==
  ASSUME TypeOK, NEW r \in Code
  PROVE  Heard(r) \in HistType
<1> DEFINE f == IF r = Final THEN hist.finals + 1 ELSE hist.finals
           b == hist.late \/ hist.finals > 0
<1>1. hist \in HistType /\ f \in Nat
  BY DEF TypeOK, HistType
<1>2. b \in BOOLEAN
  OBVIOUS
<1>3. \A x \in BOOLEAN, n \in Nat :
        [hist EXCEPT !.finals = n, !.late = x] \in HistType
  BY <1>1 DEF HistType
<1>4. [hist EXCEPT !.finals = f, !.late = b] \in HistType
  BY <1>1, <1>2, <1>3
<1>5. QED
  BY <1>1, <1>4 DEF Heard

(* Receiving a response keeps the client's types.                          *)
LEMMA ReceiveTypes ==
  ASSUME TypeOK, NEW r \in Code, ReceiveResponse(r)
  PROVE  TypeOK'
<1>1. net' \in NetType
  BY DEF TypeOK, ReceiveResponse, NetType
<1>2. Heard(r) \in HistType
  BY HeardType
<1>3. [Heard(r) EXCEPT !.early = @ \/ ct.F = "off"] \in HistType
  <2> DEFINE b == Heard(r).early \/ ct.F = "off"
  <2>1. b \in BOOLEAN
    OBVIOUS
  <2>2. \A x \in BOOLEAN : [Heard(r) EXCEPT !.early = x] \in HistType
    BY <1>2 DEF HistType
  <2>3. QED
    BY <2>1, <2>2
<1>4. StopTimersEF(StartTimerK(ct)) \in [ClientTimers -> TimerState]
  BY DEF TypeOK, StopTimersEF, StartTimerK, ClientTimers, TimerState
<1>5. CASE UNCHANGED <<c, ct, cx, cu, hist>>
  BY <1>1, <1>5 DEF TypeOK, ReceiveResponse, server
<1>6. CASE EndClient(ct, hist)
  <2>1. UNCHANGED server
    BY DEF ReceiveResponse
  <2>2. QED
    BY <1>1, <1>6, <2>1, EndClientFacts DEF TypeOK, server, Phase
<1>7. CASE /\ c' = [c EXCEPT !.state = "Proceeding", !.code = r]
           /\ hist' = [Heard(r) EXCEPT !.early = @ \/ ct.F = "off"]
           /\ UNCHANGED <<ct, cx, cu>>
  BY <1>1, <1>3, <1>7, Codes
     DEF TypeOK, ReceiveResponse, server, ClientType, TaState
<1>8. CASE /\ c' = [c EXCEPT !.state = "Completed", !.code = r]
           /\ ct' = StopTimersEF(StartTimerK(ct))
           /\ cu' = [cu EXCEPT !.final = TRUE]
           /\ hist' = Heard(r) /\ UNCHANGED cx
  BY <1>1, <1>2, <1>4, <1>8, Codes
     DEF TypeOK, ReceiveResponse, server, ClientType, ClientUaType, TaState
<1>9. QED
  BY <1>5, <1>6, <1>7, <1>8 DEF ReceiveResponse

LEMMA ClientTypes ==
  ASSUME TypeOK, ClientNext
  PROVE  TypeOK'
<1>1. CASE ClientWrites
  BY <1>1 DEF TypeOK, ClientWrites, Phase, NetType, server
<1>2. CASE ClientSent
  <2> DEFINE tm == IF c.state = "Trying" THEN StartTimerF(ct) ELSE ct
  <2>1. /\ tm \in [ClientTimers -> TimerState]
        /\ StartTimerE(tm) \in [ClientTimers -> TimerState]
    BY DEF TypeOK, StartTimerF, StartTimerE, ClientTimers, TimerState
  <2>2. CASE EndClient(tm, hist)
    BY <1>2, <2>1, <2>2, EndClientFacts DEF TypeOK, ClientSent, server, Phase
  <2>3. CASE cx' = "idle" /\ ct' = StartTimerE(tm) /\ UNCHANGED <<c, cu, hist>>
    BY <1>2, <2>1, <2>3 DEF TypeOK, ClientSent, server, Phase
  <2>4. CASE cx' = "idle" /\ UNCHANGED <<c, ct, cu, hist>>
    BY <1>2, <2>4 DEF TypeOK, ClientSent, server, Phase
  <2>5. QED
    BY <1>2, <2>2, <2>3, <2>4 DEF ClientSent
<1>3. CASE ClientFailed
  BY <1>3, EndClientFacts DEF TypeOK, ClientFailed, server, Phase
<1>4. CASE TimerE
  BY <1>4 DEF TypeOK, TimerE, server, Phase, ClientTimers, TimerState
<1>5. ASSUME NEW t \in ClientTimers, ClientTimeout(t)
      PROVE  TypeOK'
  <2>1. [ct EXCEPT ![t] = "off"] \in [ClientTimers -> TimerState]
    BY DEF TypeOK, TimerState
  <2>2. QED
    BY <1>5, <2>1, EndClientFacts DEF TypeOK, ClientTimeout, server, Phase
<1>6. CASE \E r \in Code : ReceiveResponse(r)
  BY <1>6, ReceiveTypes
<1>7. CASE ClearTransactionOwner
  BY <1>7 DEF TypeOK, ClearTransactionOwner, server, ClientType, ClientUaType,
              Phase
<1>8. CASE ClientDeleted
  BY <1>8 DEF TypeOK, ClientDeleted, server, ClientUaType, Phase, TimerState
<1>9. QED
  BY <1>1, <1>2, <1>3, <1>4, <1>5, <1>6, <1>7, <1>8
     DEF ClientNext, ClientTimers

LEMMA FirstRequestTypes ==
  ASSUME TypeOK, FirstRequest
  PROVE  TypeOK'
<1> DEFINE tm == [st EXCEPT !.F2 = "on", !.Send100 = "on"]
           owned == [su EXCEPT !.state = "WaitRespFromApp", !.owner = TRUE]
           refused == [su EXCEPT !.state = "FinalRespSent"]
           searching == [su EXCEPT !.state = "GetTxOwner"]
<1>1. tm \in [ServerTimers -> TimerState]
  BY DEF TypeOK, ServerTimers, TimerState
<1>2. /\ owned \in ServerUaType /\ refused \in ServerUaType
      /\ searching \in ServerUaType /\ su \in ServerUaType
  BY DEF TypeOK, ServerUaType
<1>3. UNCHANGED <<client, net>>
  BY DEF FirstRequest
<1>4. ASSUME NEW u \in {su, owned, refused}, EndServer(u, tm, hist)
      PROVE  TypeOK'
  BY <1>1, <1>2, <1>3, <1>4, EndServerFacts DEF TypeOK, client
<1>5. ASSUME su' \in {owned, searching}, st' = tm, UNCHANGED <<s, sx, hist>>
      PROVE  TypeOK'
  BY <1>1, <1>2, <1>3, <1>5 DEF TypeOK, client
<1>6. ASSUME NEW o \in SendResponse(Final, tm), su' = refused,
             s' = o.s, sx' = o.sx, st' = o.st, UNCHANGED hist
      PROVE  TypeOK'
  BY <1>1, <1>2, <1>3, <1>6, Codes, SendResponseTypes DEF TypeOK, client
<1>7. QED
  BY <1>4, <1>5, <1>6 DEF FirstRequest

LEMMA SentTypes ==
  ASSUME TypeOK, ServerSent
  PROVE  TypeOK'
<1>1. UNCHANGED <<client, net>>
  BY DEF ServerSent
<1>2. /\ IdleTx \in TxType /\ su \in ServerUaType
      /\ st \in [ServerTimers -> TimerState]
  BY Codes DEF TypeOK, IdleTx, TxType, Phase
<1>3. CASE EndServer(su, st, hist)
  BY <1>1, <1>2, <1>3, EndServerFacts DEF TypeOK, client
<1>4. CASE sx' = IdleTx /\ UNCHANGED <<s, st, su, hist>>
  BY <1>1, <1>2, <1>4 DEF TypeOK, client
<1>5. CASE sx' = IdleTx /\ st' = StartTimerJ(st) /\ UNCHANGED <<s, su, hist>>
  <2>1. StartTimerJ(st) \in [ServerTimers -> TimerState]
    BY <1>2 DEF StartTimerJ, ServerTimers, TimerState
  <2>2. QED
    BY <1>1, <1>2, <1>5, <2>1 DEF TypeOK, client
<1>6. ASSUME s.queue # << >>,
             NEW o \in SendAndStore([s EXCEPT !.queue = Tail(@)],
                                    Head(s.queue), st),
             s' = o.s, sx' = o.sx, st' = o.st, UNCHANGED <<su, hist>>
      PROVE  TypeOK'
  <2> DEFINE t == [s EXCEPT !.queue = Tail(@)]
             r == Head(s.queue)
  <2>1. t \in ServerType /\ r \in Code
    <3>1. s.queue \in Seq(Code) /\ s.queue # << >>
      BY <1>6 DEF TypeOK, ServerType
    <3>2. Tail(s.queue) \in Seq(Code) /\ Head(s.queue) \in Code
      BY <3>1
    <3>3. QED
      BY <3>2 DEF TypeOK, ServerType
  <2>2. IsSent(o, t, r, st) \/ IsRefused(o, t, st)
    BY <1>2, <1>6, <2>1, SendAndStoreFacts
  <2>3. /\ Sending(r) \in TxType /\ Sending(NoMsg) \in TxType
        /\ sx \in TxType
    BY <2>1, Codes DEF TypeOK, Sending, TxType, Phase
  <2>4. [t EXCEPT !.state = StateAfter(r), !.msg = r] \in ServerType
    BY <2>1, Codes DEF ServerType, StateAfter, TaState
  <2>5. /\ o.s \in ServerType /\ o.sx \in TxType
        /\ o.st \in [ServerTimers -> TimerState]
    BY <1>2, <2>1, <2>2, <2>3, <2>4 DEF IsSent, IsRefused
  <2>6. QED
    BY <1>1, <1>6, <2>5 DEF TypeOK, client
<1>7. QED
  BY <1>3, <1>4, <1>5, <1>6 DEF ServerSent, SentInProceeding, SentInCompleted

LEMMA AppTypes ==
  ASSUME TypeOK, AppProvisional \/ AppFinal
  PROVE  TypeOK'
<1>1. ASSUME NEW r \in Code, AppResponds(r),
             r # Final => hist.provs < MaxProv
      PROVE  TypeOK'
  <2>1. UNCHANGED <<client, net>> /\ st \in [ServerTimers -> TimerState]
    BY <1>1 DEF AppResponds, TypeOK
  <2>2. /\ s' \in ServerType /\ sx' \in TxType
        /\ st' \in [ServerTimers -> TimerState]
    BY <1>1, <2>1, SendResponseTypes DEF AppResponds
  <2>3. su' \in ServerUaType
    BY <1>1 DEF TypeOK, AppResponds, ServerUaType
  <2>4. hist' \in HistType
    BY <1>1, NonInviteAssumption DEF TypeOK, AppResponds, HistType
  <2>5. QED
    BY <2>1, <2>2, <2>3, <2>4 DEF TypeOK, client
<1>2. CASE AppFinal
  BY <1>1, <1>2, Codes DEF AppFinal
<1>3. CASE AppProvisional
  <2>1. hist.provs \in 0..(MaxProv - 1)
    BY <1>3, NonInviteAssumption DEF TypeOK, HistType, AppProvisional
  <2>2. QED
    BY <1>1, <1>3, <2>1, Codes DEF AppProvisional
<1>4. QED
  BY <1>2, <1>3

LEMMA ServerTypes ==
  ASSUME TypeOK, ServerNext
  PROVE  TypeOK'
<1>1. CASE ServerWrites
  <2>1. UNCHANGED <<client, s, st, su>>
    BY <1>1 DEF ServerWrites
  <2>2. sx' \in TxType /\ sx.msg \in CodeOrNone
    BY <1>1 DEF ServerWrites, TypeOK, TxType, Phase
  <2>3. net' \in NetType
    BY <1>1, <2>2 DEF ServerWrites, TypeOK, NetType, CodeOrNone
  <2>4. hist' \in HistType
    <3> DEFINE b == hist.late \/ sx.msg < hist.wire
    <3>1. b \in BOOLEAN
      OBVIOUS
    <3>2. \A x \in BOOLEAN :
            [hist EXCEPT !.wire = sx.msg, !.late = x] \in HistType
      BY <2>2 DEF TypeOK, HistType
    <3>3. [hist EXCEPT !.wire = sx.msg, !.late = b] \in HistType
      BY <3>1, <3>2
    <3>4. QED
      BY <1>1, <3>3 DEF ServerWrites, Written, TypeOK
  <2>5. QED
    BY <2>1, <2>2, <2>3, <2>4 DEF TypeOK, client
<1>2. CASE ServerSent
  BY <1>2, SentTypes
<1>3. CASE FirstRequest
  BY <1>3, FirstRequestTypes
<1>4. CASE RequestAgain
  <2>1. Sending(s.msg) \in TxType
    BY DEF TypeOK, Sending, TxType, Phase, ServerType
  <2>2. CASE EndServer(su, st, hist)
    BY <1>4, <2>2, EndServerFacts DEF RequestAgain, TypeOK, client
  <2>3. CASE sx' = Sending(s.msg) /\ UNCHANGED <<s, st, su, hist>>
    BY <1>4, <2>1, <2>3 DEF RequestAgain, TypeOK, client
  <2>4. QED
    BY <1>4, <2>2, <2>3 DEF RequestAgain
<1>5. CASE OwnerFound \/ ServerOwnerGoes
  BY <1>5 DEF OwnerFound, ServerOwnerGoes, TypeOK, client, ServerUaType
<1>6. CASE OwnerNotFound
  <2>1. PICK o \in SendResponse(Final, st) :
          /\ s' = o.s /\ sx' = o.sx /\ st' = o.st
          /\ \E stops \in {FALSE, o.left} :
               su' = [su EXCEPT !.state = "FinalRespSent", !.stopped = stops]
    BY <1>6 DEF OwnerNotFound
  <2>2. /\ o.s \in ServerType /\ o.sx \in TxType
        /\ o.st \in [ServerTimers -> TimerState] /\ o.left \in BOOLEAN
    BY <2>1, SendResponseTypes, Codes DEF TypeOK
  <2>3. su' \in ServerUaType
    BY <2>1, <2>2 DEF TypeOK, ServerUaType
  <2>4. QED
    BY <1>6, <2>1, <2>2, <2>3 DEF OwnerNotFound, TypeOK, client
<1>7. CASE AppProvisional \/ AppFinal
  BY <1>7, AppTypes
<1>8. CASE TimerSend100
  <2>1. PICK o \in SendResponse(Trying, st) :
          /\ s' = o.s /\ sx' = o.sx
          /\ st' = [o.st EXCEPT !.Send100 = IF o.left THEN "stale" ELSE "off"]
    BY <1>8 DEF TimerSend100
  <2>2. /\ o.s \in ServerType /\ o.sx \in TxType
        /\ o.st \in [ServerTimers -> TimerState]
    BY <2>1, SendResponseTypes, Codes DEF TypeOK
  <2>3. st' \in [ServerTimers -> TimerState]
    BY <2>1, <2>2 DEF ServerTimers, TimerState
  <2>4. QED
    BY <1>8, <2>1, <2>2, <2>3 DEF TimerSend100, TypeOK, client
<1>9. ASSUME NEW t \in ServerTimers, ServerTimeout(t)
      PROVE  TypeOK'
  <2>1. [st EXCEPT ![t] = "off"] \in [ServerTimers -> TimerState]
    BY DEF TypeOK, TimerState
  <2>2. QED
    BY <1>9, <2>1, EndServerFacts DEF ServerTimeout, TypeOK, client
<1>10. CASE ServerDeleted
  <2>1. IdleTx \in TxType
    BY Codes DEF IdleTx, TxType, Phase
  <2>2. QED
    BY <1>10, <2>1
       DEF ServerDeleted, TypeOK, client, ServerUaType, TimerState
<1>11. QED
  BY <1>1, <1>2, <1>3, <1>4, <1>5, <1>6, <1>7, <1>8, <1>9, <1>10
     DEF ServerNext, ServerTimers

LEMMA TypesStep ==
  ASSUME TypeOK, [Next]_vars
  PROVE  TypeOK'
<1>1. CASE UNCHANGED vars
  BY <1>1 DEF vars, TypeOK
<1>2. QED
  BY <1>1, ClientTypes, ServerTypes DEF Next

(* Type correctness.                                                       *)
THEOREM TypeCorrect == Spec => []TypeOK
<1>1. QED
  BY TypesInit, TypesStep, PTL DEF Spec

-----------------------------------------------------------------------------
(* The server's steps leave to the client's part what the invariant of the *)
(* client speaks of, and the other way round.                              *)
LEMMA ServerFrame ==
  ASSUME TypeOK, ServerNext
  PROVE  /\ UNCHANGED client
         /\ net'.udp = net.udp
         /\ hist'.early = hist.early /\ hist'.finals = hist.finals
         /\ hist'.cEnded = hist.cEnded
<1> DEFINE Framed(h) == /\ h.early = hist.early /\ h.finals = hist.finals
                        /\ h.cEnded = hist.cEnded
<1>1. CASE ServerWrites
  BY <1>1 DEF ServerWrites, Written, TypeOK, NetType, HistType
<1>2. ASSUME NEW u, NEW tm, EndServer(u, tm, hist)
      PROVE  Framed(hist')
  BY <1>2 DEF EndServer, TypeOK, HistType
<1>3. CASE ServerSent
  BY <1>2, <1>3 DEF ServerSent, SentInProceeding, SentInCompleted
<1>4. CASE FirstRequest
  BY <1>2, <1>4 DEF FirstRequest
<1>5. CASE RequestAgain
  BY <1>2, <1>5 DEF RequestAgain
<1>6. CASE AppProvisional \/ AppFinal
  BY <1>6 DEF AppProvisional, AppFinal, AppResponds, TypeOK, HistType
<1>7. CASE ServerTimeout("F2") \/ ServerTimeout("J")
  BY <1>2, <1>7 DEF ServerTimeout
<1>8. CASE \/ OwnerFound \/ OwnerNotFound \/ ServerOwnerGoes
           \/ TimerSend100 \/ ServerDeleted
  BY <1>8 DEF OwnerFound, OwnerNotFound, ServerOwnerGoes, TimerSend100,
              ServerDeleted
<1>9. QED
  BY <1>1, <1>3, <1>4, <1>5, <1>6, <1>7, <1>8 DEF ServerNext

LEMMA ClientFrame ==
  ASSUME TypeOK, ClientNext
  PROVE  /\ UNCHANGED server
         /\ net'.udp = net.udp
         /\ hist'.wire = hist.wire /\ hist'.provs = hist.provs
         /\ hist'.sEnded = hist.sEnded
<1> DEFINE Framed(h) == /\ h.wire = hist.wire /\ h.provs = hist.provs
                        /\ h.sEnded = hist.sEnded
<1>1. ASSUME NEW tm, EndClient(tm, hist)
      PROVE  Framed(hist')
  BY <1>1 DEF EndClient, TypeOK, HistType
<1>2. CASE ClientWrites
  BY <1>2 DEF ClientWrites, TypeOK, NetType
<1>3. CASE ClientSent \/ ClientFailed
  BY <1>1, <1>3 DEF ClientSent, ClientFailed
<1>4. CASE ClientTimeout("F") \/ ClientTimeout("K")
  BY <1>1, <1>4 DEF ClientTimeout
<1>5. ASSUME NEW r \in Code, ReceiveResponse(r)
      PROVE  UNCHANGED server /\ net'.udp = net.udp /\ Framed(hist')
  <2>1. UNCHANGED server /\ net'.udp = net.udp
    BY <1>5 DEF ReceiveResponse, TypeOK, NetType
  <2>2. Framed(Heard(r)) /\ Heard(r) \in HistType
    BY HeardType DEF Heard, TypeOK, HistType
  <2>3. Framed([Heard(r) EXCEPT !.early = @ \/ ct.F = "off"])
    BY <2>2 DEF HistType
  <2>4. QED
    BY <1>1, <1>5, <2>1, <2>2, <2>3 DEF ReceiveResponse
<1>6. CASE TimerE \/ ClearTransactionOwner \/ ClientDeleted
  BY <1>6 DEF TimerE, ClearTransactionOwner, ClientDeleted
<1>7. QED
  BY <1>2, <1>3, <1>4, <1>5, <1>6 DEF ClientNext

-----------------------------------------------------------------------------
(* The client's timers.                                                    *)
LEMMA ReceiveBounded ==
  ASSUME TypeOK, ClientInv, NEW r \in Code, ReceiveResponse(r)
  PROVE  ClientInv'
<1>1. TypeOK' /\ net'.udp = net.udp
  BY ReceiveTypes DEF ReceiveResponse, TypeOK, NetType
<1>2. CASE UNCHANGED <<c, ct, cx, cu, hist>>
  BY <1>1, <1>2 DEF ClientInv, ClientIsBounded
<1>3. CASE EndClient(ct, hist)
  BY <1>3, EndClientFacts DEF TypeOK, ClientInv, ClientIsBounded
<1>4. CASE /\ ~Filtered(r)
           /\ c' = [c EXCEPT !.state = "Proceeding", !.code = r]
           /\ hist' = [Heard(r) EXCEPT !.early = @ \/ ct.F = "off"]
           /\ UNCHANGED <<ct, cx, cu>>
  <2>1. c'.state = "Proceeding" /\ c'.over = c.over /\ c.state # "Completed"
    BY <1>4 DEF TypeOK, ClientType, Filtered
  <2>2. hist'.early = (hist.early \/ ct.F = "off")
    BY <1>4, HeardType DEF Heard, TypeOK, HistType
  <2>3. ct.F \in {"off", "on"}
    BY DEF TypeOK, ClientInv, ClientTimers, TimerState
  <2>4. QED
    BY <1>1, <1>4, <2>1, <2>2, <2>3 DEF ClientInv, ClientIsBounded
<1>5. CASE /\ c' = [c EXCEPT !.state = "Completed", !.code = r]
           /\ ct' = StopTimersEF(StartTimerK(ct))
  <2>1. c'.state = "Completed"
    BY <1>5 DEF TypeOK, ClientType
  <2>2. ct'.K = "on" /\ ct'.F = "off"
    BY <1>5 DEF TypeOK, StopTimersEF, StartTimerK, ClientTimers
  <2>3. QED
    BY <2>1, <2>2 DEF ClientInv, ClientIsBounded
<1>6. QED
  BY <1>2, <1>3, <1>4, <1>5 DEF ReceiveResponse

LEMMA ClientBounded ==
  ASSUME TypeOK, ClientInv, ClientNext
  PROVE  ClientInv'
<1>1. UNCHANGED server /\ net'.udp = net.udp
  BY ClientFrame
<1>2. ASSUME NEW tm \in [ClientTimers -> TimerState], tm.F # "stale",
             EndClient(tm, hist)
      PROVE  ClientInv'
  BY <1>2, EndClientFacts DEF ClientInv, ClientIsBounded
<1>3. CASE ClientWrites
  BY <1>1, <1>3 DEF ClientWrites, ClientInv, ClientIsBounded
<1>4. CASE ClientSent
  <2> DEFINE tm == IF c.state = "Trying" THEN StartTimerF(ct) ELSE ct
  <2>1. /\ tm \in [ClientTimers -> TimerState] /\ tm.F # "stale"
        /\ c.state = "Trying" => tm.F = "on"
        /\ tm.K = ct.K /\ (ct.F = "on" => tm.F = "on")
    BY DEF TypeOK, ClientInv, StartTimerF, ClientTimers, TimerState
  <2>2. /\ StartTimerE(tm) \in [ClientTimers -> TimerState]
        /\ StartTimerE(tm).F = tm.F /\ StartTimerE(tm).K = tm.K
        /\ net.udp => StartTimerE(tm).E = "on"
    BY <2>1 DEF StartTimerE, ClientTimers, TimerState
  <2>3. CASE EndClient(tm, hist)
    BY <1>2, <2>1, <2>3
  <2>4. CASE /\ c.state # "Completed" /\ ct' = StartTimerE(tm)
             /\ UNCHANGED <<c, cu, hist>>
    <3>1. c.state = "Trying" \/ c.state = "Proceeding"
      BY <2>4 DEF TypeOK, ClientType, TaState
    <3>2. QED
      BY <1>1, <2>1, <2>2, <2>4, <3>1 DEF ClientInv, ClientIsBounded
  <2>5. CASE c.state = "Completed" /\ UNCHANGED <<c, ct, cu, hist>>
    BY <2>5 DEF ClientInv, ClientIsBounded
  <2>6. QED
    BY <1>4, <2>3, <2>4, <2>5 DEF ClientSent
<1>5. CASE ClientFailed
  BY <1>2, <1>5 DEF ClientFailed, TypeOK, ClientInv
<1>6. CASE TimerE
  BY <1>1, <1>6
     DEF TimerE, TypeOK, ClientInv, ClientIsBounded, ClientTimers, Phase
<1>7. ASSUME NEW t \in ClientTimers, ClientTimeout(t)
      PROVE  ClientInv'
  <2> DEFINE tm == [ct EXCEPT ![t] = "off"]
  <2>1. tm \in [ClientTimers -> TimerState] /\ tm.F # "stale"
    BY DEF TypeOK, ClientInv, ClientTimers, TimerState
  <2>2. QED
    BY <1>2, <1>7, <2>1 DEF ClientTimeout
<1>8. CASE \E r \in Code : ReceiveResponse(r)
  BY <1>8, ReceiveBounded
<1>9. CASE ClearTransactionOwner
  BY <1>1, <1>9
     DEF ClearTransactionOwner, TypeOK, ClientType, ClientUaType, ClientInv,
         ClientIsBounded
<1>10. CASE ClientDeleted
  BY <1>10 DEF ClientDeleted, TypeOK, ClientUaType, ClientInv,
               ClientIsBounded, ClientTimers
<1>11. QED
  BY <1>3, <1>4, <1>5, <1>6, <1>7, <1>8, <1>9, <1>10
     DEF ClientNext, ClientTimers

LEMMA ClientInvStep ==
  ASSUME TypeOK, ClientInv, [Next]_vars
  PROVE  ClientInv'
<1>1. CASE ServerNext
  BY <1>1, ServerFrame DEF client, ClientInv, ClientIsBounded
<1>2. CASE UNCHANGED vars
  BY <1>2 DEF vars, ClientInv, ClientIsBounded
<1>3. QED
  BY <1>1, <1>2, ClientBounded DEF Next

(* A client transaction always has a send under way or a timer that will   *)
(* end it, unless a provisional response came before its first send was    *)
(* known to be complete.                                                   *)
THEOREM ClientBoundedAlways == Spec => []ClientIsBounded
<1>1. Init => ClientInv
  BY DEF Init, ClientInv, ClientIsBounded, ClientTimers
<1>2. ClientInv => ClientIsBounded
  BY DEF ClientInv
<1>3. QED
  BY <1>1, <1>2, TypeCorrect, ClientInvStep, PTL DEF Spec

-----------------------------------------------------------------------------
(* The server's timers.                                                    *)
Bounded(t, x, tm) ==
  IF t.state = "Completed" THEN x.phase # "idle" \/ tm.J = "on"
                           ELSE tm.F2 = "on"

(* A response that is sent, queued or refused leaves the transaction       *)
(* bounded, and timer J as it was.                                         *)
LEMMA RespondBounded ==
  ASSUME NEW t \in ServerType, NEW r \in Code,
         NEW tm \in [ServerTimers -> TimerState],
         tm.J # "stale", Bounded(t, sx, tm), t.state # "Completed",
         NEW o, IsSent(o, t, r, tm) \/ IsRefused(o, t, tm)
  PROVE  o.st.J # "stale" /\ Bounded(o.s, o.sx, o.st)
<1>1. CASE IsRefused(o, t, tm)
  BY <1>1 DEF IsRefused, Bounded
<1>2. CASE IsSent(o, t, r, tm) /\ r = Final
  BY <1>2 DEF IsSent, Bounded, ServerType, StateAfter, Sending
<1>3. CASE IsSent(o, t, r, tm) /\ r # Final
  BY <1>3 DEF IsSent, Bounded, ServerType, StateAfter, Sending
<1>4. QED
  BY <1>1, <1>2, <1>3

LEMMA SendResponseKeepsJ ==
  ASSUME TypeOK, NEW r \in Code, NEW tm \in [ServerTimers -> TimerState],
         NEW o \in SendResponse(r, tm)
  PROVE  o.st.J = tm.J
<1>1. CASE IsRefused(o, s, tm) \/ IsQueued(o, r, tm)
  BY <1>1 DEF IsRefused, IsQueued
<1>2. CASE IsSent(o, s, r, tm)
  BY <1>2 DEF IsSent
<1>3. QED
  BY <1>1, <1>2, SendResponseFacts

LEMMA SendResponseBounded ==
  ASSUME TypeOK, NEW r \in Code, NEW tm \in [ServerTimers -> TimerState],
         tm.J # "stale", s.over \/ Bounded(s, sx, tm),
         NEW o \in SendResponse(r, tm)
  PROVE  /\ o.st.J # "stale"
         /\ o.s.over \/ Bounded(o.s, o.sx, o.st)
         /\ o.s.over = s.over
<1>1. s \in ServerType
  BY DEF TypeOK
<1>2. CASE IsRefused(o, s, tm)
  BY <1>2 DEF IsRefused, Bounded, Sending
<1>3. CASE ~s.over /\ s.state # "Completed" /\ IsSent(o, s, r, tm)
  <2>1. o.s.over = s.over
    BY <1>1, <1>3 DEF IsSent, ServerType
  <2>2. QED
    BY <1>1, <1>3, <2>1, RespondBounded
<1>4. CASE ~s.over /\ s.state = "Proceeding" /\ IsQueued(o, r, tm)
  BY <1>1, <1>4 DEF IsQueued, Bounded, ServerType
<1>5. QED
  BY <1>2, <1>3, <1>4, SendResponseFacts

LEMMA ServerBounded ==
  ASSUME TypeOK, ServerInv, ServerNext
  PROVE  ServerInv'
<1>1. TypeOK' /\ s \in ServerType /\ sx \in TxType /\ su \in ServerUaType
      /\ st \in [ServerTimers -> TimerState]
  BY ServerTypes DEF TypeOK
<1>2. su.state # "Start" /\ ~s.over /\ ~su.gone => Bounded(s, sx, st)
  BY DEF ServerInv, ServerIsBounded, Bounded
<1>3. ASSUME su'.state # "Start", st'.J # "stale",
             s'.over \/ su'.gone \/ Bounded(s', sx', st')
      PROVE  ServerInv'
  BY <1>3 DEF ServerInv, ServerIsBounded, Bounded
<1>4. ASSUME NEW u \in ServerUaType, u.state # "Start" \/ s.state = "Trying",
             NEW tm \in [ServerTimers -> TimerState], tm.J # "stale",
             EndServer(u, tm, hist)
      PROVE  ServerInv'
  BY <1>4, EndServerFacts DEF ServerInv, ServerIsBounded, IdleTx
<1>5. ASSUME NEW r \in Code, NEW tm \in [ServerTimers -> TimerState],
             tm.J # "stale", s.over \/ su.gone \/ Bounded(s, sx, tm),
             ~su.gone, su'.state # "Start",
             NEW o \in SendResponse(r, tm), s' = o.s, sx' = o.sx, st' = o.st
      PROVE  ServerInv'
  BY <1>3, <1>5, SendResponseBounded
<1>6. CASE ServerWrites
  <2>1. sx'.phase = "sent" /\ sx.phase = "sending"
    BY <1>1, <1>6 DEF ServerWrites, TxType
  <2>2. su.state # "Start"
    BY <2>1 DEF ServerInv
  <2>3. QED
    BY <1>2, <1>3, <1>6, <2>1, <2>2 DEF ServerWrites, Bounded, ServerInv
<1>7. CASE ServerSent
  <2>1. su.state # "Start" /\ st.J # "stale"
    BY <1>7 DEF ServerSent, ServerInv
  <2>2. CASE EndServer(su, st, hist)
    BY <1>1, <1>4, <2>1, <2>2
  <2>3. CASE SentInCompleted /\ ~EndServer(su, st, hist)
    <3>1. st'.J = "on"
      BY <1>1, <2>1, <2>3
         DEF SentInCompleted, StartTimerJ, ServerTimers, TimerState
    <3>2. QED
      BY <1>3, <2>1, <2>3, <3>1 DEF SentInCompleted, Bounded
  <2>4. CASE s.state = "Proceeding" /\ UNCHANGED <<s, st, su>>
    BY <1>2, <1>3, <2>1, <2>4 DEF Bounded
  <2>5. ASSUME s.state = "Proceeding", s.queue # << >>,
               NEW o \in SendAndStore([s EXCEPT !.queue = Tail(@)],
                                      Head(s.queue), st),
               s' = o.s, sx' = o.sx, st' = o.st, UNCHANGED su
        PROVE  ServerInv'
    <3> DEFINE t == [s EXCEPT !.queue = Tail(@)]
               r == Head(s.queue)
    <3>1. s.queue \in Seq(Code) /\ s.queue # << >>
      BY <1>1, <2>5 DEF ServerType
    <3>2. Tail(s.queue) \in Seq(Code) /\ r \in Code
      BY <3>1
    <3>3. /\ t \in ServerType /\ t.state = "Proceeding" /\ t.over = s.over
      BY <1>1, <2>5, <3>2 DEF ServerType
    <3>4. IsSent(o, t, r, st) \/ IsRefused(o, t, st)
      BY <1>1, <2>5, <3>2, <3>3, SendAndStoreFacts
    <3>5. o.s.over = s.over
      BY <3>3, <3>4 DEF IsSent, IsRefused, ServerType
    <3>6. CASE s.over \/ su.gone
      <4>1. o.st.J # "stale"
        BY <2>1, <3>4 DEF IsSent, IsRefused
      <4>2. QED
        BY <1>3, <2>1, <2>5, <3>5, <3>6, <4>1
    <3>7. CASE ~s.over /\ ~su.gone
      <4>1. Bounded(t, sx, st)
        BY <1>2, <2>1, <2>5, <3>3, <3>7 DEF Bounded
      <4>2. o.st.J # "stale" /\ Bounded(o.s, o.sx, o.st)
        BY <1>1, <2>1, <3>2, <3>3, <3>4, <4>1, RespondBounded
      <4>3. QED
        BY <1>3, <2>1, <2>5, <4>2
    <3>8. QED
      BY <3>6, <3>7
  <2>6. QED
    BY <1>7, <2>2, <2>3, <2>4, <2>5
       DEF ServerSent, SentInProceeding, SentInCompleted
<1>8. CASE FirstRequest
  <2> DEFINE tm == [st EXCEPT !.F2 = "on", !.Send100 = "on"]
             owned == [su EXCEPT !.state = "WaitRespFromApp", !.owner = TRUE]
             refused == [su EXCEPT !.state = "FinalRespSent"]
             searching == [su EXCEPT !.state = "GetTxOwner"]
  <2>1. /\ tm \in [ServerTimers -> TimerState] /\ tm.J # "stale"
        /\ tm.F2 = "on"
    BY <1>1 DEF ServerInv, ServerTimers, TimerState
  <2>2. s.state = "Trying"
    BY <1>8 DEF FirstRequest, ServerInv
  <2>3. /\ owned \in ServerUaType /\ refused \in ServerUaType
        /\ owned.state # "Start" /\ refused.state # "Start"
        /\ searching.state # "Start" /\ refused.gone = su.gone
    BY <1>1 DEF ServerUaType
  <2>4. Bounded(s, sx, tm)
    BY <2>1, <2>2 DEF Bounded
  <2>5. ASSUME NEW u \in {su, owned, refused}, EndServer(u, tm, hist)
        PROVE  ServerInv'
    BY <1>1, <1>4, <2>1, <2>2, <2>3, <2>5
  <2>6. ASSUME su' \in {owned, searching}, st' = tm, UNCHANGED <<s, sx>>
        PROVE  ServerInv'
    BY <1>3, <2>1, <2>3, <2>4, <2>6
  <2>7. ASSUME NEW o \in SendResponse(Final, tm), su' = refused,
               s' = o.s, sx' = o.sx, st' = o.st
        PROVE  ServerInv'
    BY <1>3, <2>1, <2>3, <2>4, <2>7, Codes, SendResponseBounded
  <2>8. QED
    BY <1>8, <2>5, <2>6, <2>7 DEF FirstRequest
<1>9. CASE RequestAgain
  <2>1. su.state # "Start" /\ st.J # "stale"
    BY <1>9 DEF RequestAgain, ServerInv
  <2>2. CASE EndServer(su, st, hist)
    BY <1>1, <1>4, <2>1, <2>2
  <2>3. CASE sx' = Sending(s.msg) /\ UNCHANGED <<s, st, su>>
    BY <1>2, <1>3, <2>1, <2>3 DEF Sending, Bounded
  <2>4. QED
    BY <1>9, <2>2, <2>3 DEF RequestAgain
<1>10. CASE OwnerFound \/ ServerOwnerGoes
  <2>1. /\ UNCHANGED <<s, st, sx>> /\ su'.gone = su.gone
        /\ su.state = "Start" => su'.state = "Start"
        /\ su.state # "Start" => su'.state # "Start"
    BY <1>1, <1>10 DEF OwnerFound, ServerOwnerGoes, ServerUaType
  <2>2. QED
    BY <2>1 DEF ServerInv, ServerIsBounded
<1>11. CASE OwnerNotFound
  <2>1. PICK o \in SendResponse(Final, st) :
          s' = o.s /\ sx' = o.sx /\ st' = o.st
    BY <1>11 DEF OwnerNotFound
  <2>2. su'.state # "Start" /\ su.state # "Start" /\ su'.gone = su.gone
    BY <1>1, <1>11 DEF OwnerNotFound, ServerUaType
  <2>3. CASE s.over \/ ~su.gone
    BY <1>1, <1>2, <1>3, <2>1, <2>2, <2>3, Codes, SendResponseBounded
       DEF ServerInv
  <2>4. CASE su.gone
    BY <1>1, <1>3, <2>1, <2>2, <2>4, Codes, SendResponseKeepsJ
       DEF ServerInv
  <2>5. QED
    BY <2>3, <2>4
<1>12. CASE AppProvisional \/ AppFinal
  <2>1. PICK r \in Code : AppResponds(r)
    <3>1. CASE AppFinal
      BY <3>1, Codes DEF AppFinal
    <3>2. CASE AppProvisional
      <4>1. hist.provs \in 0..(MaxProv - 1)
        BY <3>2, NonInviteAssumption DEF TypeOK, HistType, AppProvisional
      <4>2. QED
        BY <3>2, <4>1, Codes DEF AppProvisional
    <3>3. QED
      BY <1>12, <3>1, <3>2
  <2>2. PICK o \in SendResponse(r, st) :
          s' = o.s /\ sx' = o.sx /\ st' = o.st
    BY <2>1 DEF AppResponds
  <2>3. su'.state # "Start" /\ su.state # "Start" /\ su'.gone = su.gone
    BY <1>1, <2>1 DEF AppResponds, ServerUaType
  <2>4. CASE s.over \/ ~su.gone
    BY <1>1, <1>2, <1>3, <2>2, <2>3, <2>4, SendResponseBounded
       DEF ServerInv
  <2>5. CASE su.gone
    BY <1>1, <1>3, <2>2, <2>3, <2>5, SendResponseKeepsJ
       DEF ServerInv
  <2>6. QED
    BY <2>4, <2>5
<1>13. CASE TimerSend100
  <2>1. PICK o \in SendResponse(Trying, st) :
          /\ s' = o.s /\ sx' = o.sx
          /\ st' = [o.st EXCEPT !.Send100 = IF o.left THEN "stale" ELSE "off"]
    BY <1>13 DEF TimerSend100
  <2>2. o.st \in [ServerTimers -> TimerState]
    BY <1>1, <2>1, SendResponseTypes, Codes
  <2>3. st'.J = o.st.J /\ st'.F2 = o.st.F2
    BY <2>1, <2>2 DEF ServerTimers
  <2>4. su.state # "Start" /\ UNCHANGED su
    BY <1>13 DEF TimerSend100, ServerInv
  <2>5. CASE s.over \/ ~su.gone
    <3>1. o.st.J # "stale" /\ (o.s.over \/ Bounded(o.s, o.sx, o.st))
      BY <1>1, <1>2, <2>1, <2>4, <2>5, Codes, SendResponseBounded
         DEF ServerInv
    <3>2. QED
      BY <1>3, <2>1, <2>3, <2>4, <3>1 DEF Bounded
  <2>6. CASE su.gone
    <3>1. o.st.J # "stale"
      BY <1>1, <2>1, Codes, SendResponseKeepsJ DEF ServerInv
    <3>2. QED
      BY <1>3, <2>3, <2>4, <2>6, <3>1
  <2>7. QED
    BY <2>5, <2>6
<1>14. ASSUME NEW t \in ServerTimers, ServerTimeout(t)
       PROVE  ServerInv'
  <2> DEFINE tm == [st EXCEPT ![t] = "off"]
  <2>1. tm \in [ServerTimers -> TimerState] /\ tm.J # "stale"
    BY <1>1 DEF ServerInv, ServerTimers, TimerState
  <2>2. su.state # "Start" \/ s.state = "Trying"
    BY DEF ServerInv
  <2>3. QED
    BY <1>1, <1>4, <1>14, <2>1, <2>2 DEF ServerTimeout
<1>15. CASE ServerDeleted
  <2>1. /\ su'.gone /\ su'.state = su.state /\ sx'.phase = "idle"
        /\ st'.J = "off" /\ st'.Send100 = "off" /\ UNCHANGED s
    BY <1>1, <1>15 DEF ServerDeleted, ServerUaType, IdleTx, ServerTimers
  <2>2. QED
    BY <2>1 DEF ServerInv, ServerIsBounded
<1>16. QED
  BY <1>6, <1>7, <1>8, <1>9, <1>10, <1>11, <1>12, <1>13, <1>14, <1>15
     DEF ServerNext, ServerTimers

LEMMA ServerInvStep ==
  ASSUME TypeOK, ServerInv, [Next]_vars
  PROVE  ServerInv'
<1>1. CASE ClientNext
  BY <1>1, ClientFrame DEF server, ServerInv, ServerIsBounded
<1>2. CASE UNCHANGED vars
  BY <1>2 DEF vars, ServerInv, ServerIsBounded
<1>3. QED
  BY <1>1, <1>2, ServerBounded DEF Next

(* A server transaction that has passed its request on is always bounded   *)
(* by timer F2, by its sending or by timer J.                              *)
THEOREM ServerBoundedAlways == Spec => []ServerIsBounded
<1>1. Init => ServerInv
  BY DEF Init, ServerInv, ServerIsBounded, ServerTimers, IdleTx
<1>2. ServerInv => ServerIsBounded
  BY DEF ServerInv
<1>3. QED
  BY <1>1, <1>2, TypeCorrect, ServerInvStep, PTL DEF Spec

-----------------------------------------------------------------------------
(* The order of the responses.                                             *)
LEMMA CodesAreNaturals ==
  ASSUME TypeOK
  PROVE  /\ CodeOrNone \subseteq Nat
         /\ NoMsg = 0 /\ Trying = 100 /\ Final = 200
         /\ s.msg \in Nat /\ hist.wire \in Nat /\ hist.provs \in Nat
         /\ s.queue \in Seq(Code)
         /\ \A i \in 1..Len(s.queue) : s.queue[i] \in Code
<1>1. CodeOrNone \subseteq Nat /\ NoMsg = 0 /\ Trying = 100 /\ Final = 200
  BY Codes DEF CodeOrNone, NoMsg, Trying, Final
<1>2. s.queue \in Seq(Code)
  BY DEF TypeOK, ServerType
<1>3. s.msg \in Nat /\ hist.wire \in Nat
  BY <1>1 DEF TypeOK, ServerType, HistType
<1>4. hist.provs \in Nat
  BY NonInviteAssumption DEF TypeOK, HistType
<1>5. QED
  BY <1>1, <1>2, <1>3, <1>4

LEMMA NoneAfterNewer ==
  ASSUME TypeOK, NEW t \in ServerType, NEW x \in Nat, NEW y \in Nat, x <= y,
         NoneAfter(t, x)
  PROVE  NoneAfter(t, y)
<1>1. t.msg \in Nat
  BY CodesAreNaturals DEF ServerType
<1>2. \A i \in 1..Len(t.queue) : t.queue[i] \in Nat
  <2>1. t.queue \in Seq(Code)
    BY DEF ServerType
  <2>2. \A i \in 1..Len(t.queue) : t.queue[i] \in Code
    BY <2>1
  <2>3. QED
    BY <2>2, Codes
<1>3. QED
  BY <1>1, <1>2 DEF NoneAfter

LEMMA AppendKeepsOrder ==
  ASSUME TypeOK, Sorted(s), NEW r \in Code, NoneAfter(s, r),
         NEW t \in ServerType, t = [s EXCEPT !.queue = Append(s.queue, r)]
  PROVE  Sorted(t) /\ NoneAfter(t, r) /\ t.queue # << >>
<1> DEFINE q == s.queue
           n == Len(q)
<1>1. /\ q \in Seq(Code) /\ n \in Nat /\ s.msg \in Nat /\ r \in Nat
      /\ \A i \in 1..n : q[i] \in Nat
  BY CodesAreNaturals, Codes
<1>2. t.msg = s.msg /\ t.queue = Append(q, r)
  BY DEF TypeOK, ServerType
<1>3. Len(t.queue) = n + 1 /\ t.queue[n + 1] = r
  BY <1>1, <1>2
<1>4. \A i \in 1..n : t.queue[i] = q[i]
  BY <1>1, <1>2
<1>5. \A i \in 1..(n + 1) : i \in 1..n \/ i = n + 1
  BY <1>1
<1>6. NoneAfter(t, r)
  BY <1>1, <1>2, <1>3, <1>4, <1>5 DEF NoneAfter
<1>7. \A i \in 1..(n + 1) : t.msg <= t.queue[i]
  BY <1>1, <1>2, <1>3, <1>4, <1>5 DEF NoneAfter, Sorted
<1>8. \A i, j \in 1..(n + 1) : i < j => t.queue[i] <= t.queue[j]
  <2> SUFFICES ASSUME NEW i \in 1..(n + 1), NEW j \in 1..(n + 1), i < j
               PROVE  t.queue[i] <= t.queue[j]
    OBVIOUS
  <2>1. i \in 1..n
    BY <1>1
  <2>2. CASE j = n + 1
    BY <1>3, <1>4, <2>1, <2>2 DEF NoneAfter
  <2>3. CASE j \in 1..n
    BY <1>4, <2>1, <2>3 DEF Sorted
  <2>4. QED
    BY <1>5, <2>2, <2>3
<1>9. QED
  BY <1>2, <1>3, <1>6, <1>7, <1>8 DEF Sorted

(* Taking the oldest response from the queue.                              *)
LEMMA TailKeepsOrder ==
  ASSUME TypeOK, Sorted(s), s.queue # << >>,
         NEW t, t = [s EXCEPT !.queue = Tail(s.queue)]
  PROVE  /\ t \in ServerType /\ Sorted(t) /\ t.msg = s.msg
         /\ t.state = s.state /\ t.over = s.over
         /\ Head(s.queue) \in Code /\ s.msg <= Head(s.queue)
         /\ \A i \in 1..Len(t.queue) : Head(s.queue) <= t.queue[i]
         /\ \A x \in Nat :
              NoneAfter(s, x) => NoneAfter(t, x) /\ Head(s.queue) <= x
<1> DEFINE q == s.queue
           n == Len(q)
<1>1. q \in Seq(Code) /\ n \in Nat /\ n >= 1
  BY CodesAreNaturals
<1>2. /\ t.queue = Tail(q) /\ t.msg = s.msg /\ t.state = s.state
      /\ t.over = s.over /\ Tail(q) \in Seq(Code) /\ t \in ServerType
  <2>1. Tail(q) \in Seq(Code)
    BY <1>1
  <2>2. QED
    BY <2>1 DEF TypeOK, ServerType
<1>3. Head(q) = q[1] /\ Head(q) \in Code
  BY <1>1
<1>4. /\ Len(t.queue) = n - 1
      /\ \A i \in 1..(n - 1) : t.queue[i] = q[i + 1] /\ i + 1 \in 1..n
  BY <1>1, <1>2
<1>5. Sorted(t)
  BY <1>1, <1>2, <1>4 DEF Sorted
<1>6. ASSUME NEW i \in 1..(n - 1)
      PROVE  Head(q) <= t.queue[i]
  <2>1. 1 \in 1..n /\ i + 1 \in 1..n /\ 1 < i + 1
    BY <1>1
  <2>2. q[1] <= q[i + 1]
    BY <2>1 DEF Sorted
  <2>3. QED
    BY <1>3, <1>4, <2>2
<1>7. \A x \in Nat : NoneAfter(s, x) => NoneAfter(t, x) /\ Head(q) <= x
  BY <1>1, <1>2, <1>3, <1>4 DEF NoneAfter
<1>8. s.msg <= Head(q)
  BY <1>1, <1>3 DEF Sorted
<1>9. QED
  BY <1>2, <1>3, <1>4, <1>5, <1>6, <1>7, <1>8

(* A response that is sent or refused, when none in the queue is older.    *)
LEMMA RespondOrdered ==
  ASSUME TypeOK, NEW t \in ServerType, NEW r \in Code,
         NEW tm \in [ServerTimers -> TimerState],
         sx.msg \in {NoMsg, t.msg}, hist.wire <= t.msg,
         t.state = "Trying" => t.msg = NoMsg /\ t.queue = << >>,
         Sorted(t), t.msg <= r,
         \A i \in 1..Len(t.queue) : r <= t.queue[i],
         NEW o, IsSent(o, t, r, tm) \/ IsRefused(o, t, tm)
  PROVE  /\ Ordered(o.s, o.sx) /\ o.s.over = t.over
         /\ \A x \in Nat : r <= x /\ NoneAfter(t, x) => NoneAfter(o.s, x)
<1>1. CASE IsRefused(o, t, tm)
  BY <1>1 DEF IsRefused, Ordered, Sending
<1>2. CASE IsSent(o, t, r, tm)
  <2>1. /\ o.s.msg = r /\ o.s.queue = t.queue /\ o.s.over = t.over
        /\ o.s.state # "Trying" /\ o.sx.msg = r
    BY <1>2 DEF IsSent, ServerType, Sending, StateAfter
  <2>2. hist.wire \in Nat /\ t.msg \in Nat /\ r \in Nat
    BY CodesAreNaturals, Codes DEF ServerType
  <2>3. QED
    BY <2>1, <2>2 DEF Ordered, Sorted, NoneAfter
<1>3. QED
  BY <1>1, <1>2

LEMMA SendResponseOrdered ==
  ASSUME TypeOK, OrderInv, NEW r \in Code, NoneAfter(s, r),
         NEW tm \in [ServerTimers -> TimerState],
         ~s.over /\ tm.Send100 = "on" => s.state = "Trying",
         ~su.gone \/ s.queue = << >>,
         NEW o \in SendResponse(r, tm)
  PROVE  /\ Ordered(o.s, o.sx) /\ NoneAfter(o.s, r) /\ o.s.over = s.over
         /\ ~o.s.over /\ o.st["Send100"] = "on" => o.s.state = "Trying"
         /\ o.s.queue # << >> /\ o.s.state = "Proceeding" =>
              o.s.over \/ su.gone \/ o.sx.phase # "idle"
<1>1. s \in ServerType /\ r \in Nat
  BY Codes DEF TypeOK
<1>2. CASE IsRefused(o, s, tm)
  BY <1>2 DEF IsRefused, OrderInv, Ordered, Sending
<1>3. CASE /\ ~s.over /\ s.state # "Completed" /\ sx.phase = "idle"
           /\ IsSent(o, s, r, tm)
  <2>1. s.queue = << >>
    BY <1>1, <1>3 DEF OrderInv, Ordered, ServerType, TaState
  <2>2. Ordered(o.s, o.sx) /\ NoneAfter(o.s, r) /\ o.s.over = s.over
    BY <1>1, <1>3, <2>1, RespondOrdered DEF OrderInv, Ordered, NoneAfter
  <2>3. o.sx.phase = "sending" /\ o.s.state \in TaState
    BY <1>1, <1>3 DEF IsSent, Sending, ServerType, StateAfter, TaState
  <2>4. ~(~s.over /\ o.st["Send100"] = "on")
    BY <1>3 DEF IsSent
  <2>5. QED
    BY <2>2, <2>3, <2>4
<1>4. CASE /\ ~s.over /\ s.state = "Proceeding" /\ sx.phase # "idle"
           /\ IsQueued(o, r, tm)
  <2>1. /\ o.s \in ServerType /\ o.s = [s EXCEPT !.queue = Append(s.queue, r)]
        /\ o.sx = sx /\ o.st = tm
    BY <1>4, SendResponseTypes DEF IsQueued
  <2>2. /\ o.s.msg = s.msg /\ o.s.over = s.over /\ o.s.state = s.state
    BY <1>1, <2>1 DEF ServerType
  <2>3. Sorted(o.s) /\ NoneAfter(o.s, r)
    BY <2>1, AppendKeepsOrder DEF OrderInv, Ordered
  <2>4. QED
    BY <1>4, <2>1, <2>2, <2>3 DEF OrderInv, Ordered
<1>5. QED
  BY <1>2, <1>3, <1>4, SendResponseFacts

(* What the end of the transaction, or of its user agent, leaves in order. *)
LEMMA EndServerOrdered ==
  ASSUME TypeOK, OrderInv, NEW u \in ServerUaType,
         u.state \in {su.state, "WaitRespFromApp", "FinalRespSent"},
         su.state # "FinalRespSent" \/ u.state = "FinalRespSent",
         NEW tm \in [ServerTimers -> TimerState], EndServer(u, tm, hist)
  PROVE  OrderInv'
<1>1. /\ s'.over /\ s'.state = s.state /\ s'.msg = s.msg /\ s'.queue = s.queue
      /\ su'.stopped /\ su'.state = u.state /\ sx'.msg = NoMsg
      /\ hist'.wire = hist.wire /\ hist'.provs = hist.provs
  BY EndServerFacts DEF TypeOK, HistType, IdleTx
<1>2. QED
  BY <1>1 DEF OrderInv, Ordered, Sorted, NoneAfter

LEMMA ServerOrdered ==
  ASSUME TypeOK, OrderInv, ServerInv, ServerNext
  PROVE  OrderInv'
<1>1. /\ TypeOK' /\ s \in ServerType /\ su \in ServerUaType /\ sx \in TxType
      /\ st \in [ServerTimers -> TimerState] /\ hist \in HistType
  BY ServerTypes DEF TypeOK
<1>2. ASSUME s' = s, sx'.msg \in {NoMsg, s.msg},
             hist'.wire = hist.wire \/ hist'.wire = s.msg,
             hist'.provs = hist.provs,
             ~s.over /\ st'.Send100 = "on" => s.state = "Trying",
             su'.gone => su'.stopped,
             s.queue # << >> /\ s.state = "Proceeding" =>
               s.over \/ su'.gone \/ sx'.phase # "idle",
             su'.state # "FinalRespSent" => su.state # "FinalRespSent"
      PROVE  OrderInv'
  <2>1. hist'.wire <= s.msg
    BY <1>2, CodesAreNaturals DEF OrderInv, Ordered
  <2>2. QED
    BY <1>2, <2>1 DEF OrderInv, Ordered, Sorted, NoneAfter
<1>3. ASSUME NEW r \in Code, NoneAfter(s, r),
             NEW tm \in [ServerTimers -> TimerState],
             ~s.over /\ tm.Send100 = "on" => s.state = "Trying",
             ~su.gone \/ s.queue = << >>,
             NEW o \in SendResponse(r, tm), s' = o.s, sx' = o.sx,
             st'.Send100 = o.st.Send100 \/ st'.Send100 # "on",
             hist'.wire = hist.wire, su'.gone = su.gone,
             su'.gone => su'.stopped,
             su'.state # "FinalRespSent" => r <= Trying + hist'.provs
      PROVE  OrderInv'
  <2>1. /\ Ordered(o.s, o.sx) /\ NoneAfter(o.s, r) /\ o.s.over = s.over
        /\ ~o.s.over /\ o.st["Send100"] = "on" => o.s.state = "Trying"
        /\ o.s.queue # << >> /\ o.s.state = "Proceeding" =>
             o.s.over \/ su.gone \/ o.sx.phase # "idle"
    BY <1>3, SendResponseOrdered
  <2>2. \A x \in Nat : r <= x => NoneAfter(o.s, x)
    <3>1. o.s \in ServerType
      BY <1>3, SendResponseTypes
    <3>2. QED
      BY <2>1, <3>1, Codes, NoneAfterNewer
  <2>3. Trying + hist'.provs \in Nat
    BY <1>1, NonInviteAssumption DEF TypeOK, HistType, Trying
  <2>4. QED
    BY <1>3, <2>1, <2>2, <2>3 DEF OrderInv, Ordered
<1>4. NoneAfter(s, Final)
  BY CodesAreNaturals, Codes DEF NoneAfter, TypeOK, ServerType, CodeOrNone
<1>5. CASE ServerWrites
  <2>1. /\ sx'.msg = sx.msg /\ sx'.phase # "idle"
        /\ UNCHANGED <<s, st, su>>
    BY <1>1, <1>5 DEF ServerWrites, TxType
  <2>2. hist'.provs = hist.provs
    BY <1>1, <1>5 DEF ServerWrites, Written, HistType
  <2>3. hist'.wire = hist.wire \/ hist'.wire = s.msg
    BY <1>1, <1>5 DEF ServerWrites, Written, HistType, OrderInv, Ordered
  <2>4. QED
    BY <1>2, <2>1, <2>2, <2>3 DEF OrderInv, Ordered
<1>6. CASE ServerSent
  <2>1. IdleTx.msg = NoMsg
    BY DEF IdleTx
  <2>2. CASE EndServer(su, st, hist)
    BY <1>1, <2>2, EndServerOrdered
  <2>3. CASE SentInCompleted /\ ~EndServer(su, st, hist)
    <3>1. /\ sx' = IdleTx /\ st' = StartTimerJ(st) /\ UNCHANGED <<s, su, hist>>
          /\ s.state = "Completed"
      BY <2>3 DEF SentInCompleted
    <3>2. st'.Send100 = st.Send100
      BY <1>1, <3>1 DEF StartTimerJ, ServerTimers
    <3>3. QED
      BY <1>2, <2>1, <3>1, <3>2 DEF OrderInv, Ordered
  <2>4. CASE SentInProceeding /\ s.queue = << >>
    BY <1>2, <2>1, <2>4 DEF SentInProceeding, OrderInv, Ordered
  <2>5. ASSUME s.state = "Proceeding", s.queue # << >>,
               NEW o \in SendAndStore([s EXCEPT !.queue = Tail(@)],
                                      Head(s.queue), st), ~o.left,
               s' = o.s, sx' = o.sx, st' = o.st, UNCHANGED <<su, hist>>
        PROVE  OrderInv'
    <3> DEFINE t == [s EXCEPT !.queue = Tail(@)]
               r == Head(s.queue)
    <3>1. /\ t \in ServerType /\ Sorted(t) /\ t.msg = s.msg
          /\ t.state = s.state /\ t.over = s.over
          /\ r \in Code /\ s.msg <= r
          /\ \A i \in 1..Len(t.queue) : r <= t.queue[i]
          /\ \A x \in Nat : NoneAfter(s, x) => NoneAfter(t, x) /\ r <= x
      BY <2>5, TailKeepsOrder DEF OrderInv, Ordered
    <3>2. IsSent(o, t, r, st)
      BY <1>1, <2>5, <3>1, SendAndStoreFacts DEF IsRefused
    <3>3. /\ Ordered(o.s, o.sx) /\ o.s.over = t.over
          /\ \A x \in Nat : r <= x /\ NoneAfter(t, x) => NoneAfter(o.s, x)
      BY <1>1, <2>5, <3>1, <3>2, RespondOrdered DEF OrderInv, Ordered
    <3>4. o.sx.phase = "sending" /\ o.st["Send100"] = st["Send100"]
      BY <2>5, <3>1, <3>2 DEF IsSent, Sending
    <3>5. su.state # "FinalRespSent" => NoneAfter(o.s, Trying + hist.provs)
      <4>1. Trying + hist.provs \in Nat
        BY CodesAreNaturals
      <4>2. QED
        BY <3>1, <3>3, <4>1 DEF OrderInv
    <3>6. ~s.over /\ st["Send100"] = "on" => FALSE
      BY <2>5 DEF OrderInv
    <3>7. QED
      BY <2>5, <3>1, <3>3, <3>4, <3>5, <3>6 DEF OrderInv, Ordered
  <2>6. QED
    BY <1>6, <2>2, <2>3, <2>4, <2>5
       DEF ServerSent, SentInProceeding
<1>7. CASE FirstRequest
  <2> DEFINE tm == [st EXCEPT !.F2 = "on", !.Send100 = "on"]
             owned == [su EXCEPT !.state = "WaitRespFromApp", !.owner = TRUE]
             refused == [su EXCEPT !.state = "FinalRespSent"]
             searching == [su EXCEPT !.state = "GetTxOwner"]
  <2>1. /\ tm \in [ServerTimers -> TimerState] /\ s.state = "Trying"
        /\ su.state = "Start" /\ ~su.gone
    BY <1>1, <1>7
       DEF FirstRequest, ServerInv, OrderInv, ServerTimers, TimerState
  <2>2. /\ owned \in ServerUaType /\ refused \in ServerUaType
        /\ owned.state = "WaitRespFromApp" /\ refused.state = "FinalRespSent"
        /\ owned.gone = su.gone /\ searching.gone = su.gone
        /\ refused.gone = su.gone
    BY <1>1 DEF ServerUaType
  <2>3. ASSUME NEW u \in {su, owned, refused}, EndServer(u, tm, hist)
        PROVE  OrderInv'
    BY <1>1, <2>1, <2>2, <2>3, EndServerOrdered
  <2>4. ASSUME su' \in {owned, searching}, UNCHANGED <<s, sx, hist>>
        PROVE  OrderInv'
    BY <1>2, <2>1, <2>2, <2>4 DEF OrderInv, Ordered
  <2>5. ASSUME NEW o \in SendResponse(Final, tm), su' = refused,
               s' = o.s, sx' = o.sx, st' = o.st, UNCHANGED hist
        PROVE  OrderInv'
    BY <1>3, <1>4, <2>1, <2>2, <2>5, Codes
  <2>6. QED
    BY <1>7, <2>3, <2>4, <2>5 DEF FirstRequest
<1>8. CASE RequestAgain
  <2>1. CASE EndServer(su, st, hist)
    BY <1>1, <2>1, EndServerOrdered
  <2>2. CASE sx' = Sending(s.msg) /\ UNCHANGED <<s, st, su, hist>>
    BY <1>2, <2>2 DEF Sending, OrderInv
  <2>3. QED
    BY <1>8, <2>1, <2>2 DEF RequestAgain
<1>9. CASE OwnerFound \/ ServerOwnerGoes
  <2>1. /\ UNCHANGED <<s, st, sx, hist>> /\ su'.gone = su.gone
        /\ su'.stopped = su.stopped
        /\ su'.state # "FinalRespSent" => su.state # "FinalRespSent"
    BY <1>1, <1>9 DEF OwnerFound, ServerOwnerGoes, ServerUaType
  <2>2. QED
    BY <1>2, <2>1 DEF OrderInv, Ordered
<1>10. CASE OwnerNotFound
  <2>1. PICK o \in SendResponse(Final, st) :
          s' = o.s /\ sx' = o.sx /\ st' = o.st
    BY <1>10 DEF OwnerNotFound
  <2>2. /\ su'.state = "FinalRespSent" /\ su'.gone = su.gone /\ ~su.gone
        /\ UNCHANGED hist
    BY <1>1, <1>10 DEF OwnerNotFound, ServerUaType, OrderInv
  <2>3. QED
    BY <1>1, <1>3, <1>4, <2>1, <2>2, Codes DEF OrderInv
<1>11. ASSUME NEW r \in Code, AppResponds(r), NoneAfter(s, r),
              r # Final => r <= Trying + hist'.provs
       PROVE  OrderInv'
  <2>1. PICK o \in SendResponse(r, st) :
          s' = o.s /\ sx' = o.sx /\ st' = o.st
    BY <1>11 DEF AppResponds
  <2>2. /\ su'.gone = su.gone /\ ~su.gone /\ hist'.wire = hist.wire
        /\ r = Final => su'.state = "FinalRespSent"
    BY <1>1, <1>11 DEF AppResponds, ServerUaType, HistType, OrderInv
  <2>3. QED
    BY <1>1, <1>3, <1>11, <2>1, <2>2 DEF OrderInv
<1>12. CASE AppFinal
  BY <1>4, <1>11, <1>12, Codes DEF AppFinal
<1>13. CASE AppProvisional
  <2> DEFINE r == Trying + hist.provs + 1
  <2>1. r \in Code /\ r # Final /\ r = Trying + (hist.provs + 1)
    <3>1. hist.provs \in 0..(MaxProv - 1)
      BY <1>1, <1>13, NonInviteAssumption DEF HistType, AppProvisional
    <3>2. QED
      BY <3>1, Codes, CodesAreNaturals
  <2>2. su.state # "FinalRespSent" /\ hist'.provs = hist.provs + 1
    BY <1>1, <1>13, <2>1 DEF AppProvisional, AppResponds, HistType
  <2>3. NoneAfter(s, Trying + hist.provs)
    BY <2>2 DEF OrderInv
  <2>4. NoneAfter(s, r)
    <3>1. /\ Trying + hist.provs \in Nat /\ r \in Nat
          /\ Trying + hist.provs <= r
      BY CodesAreNaturals
    <3>2. QED
      BY <1>1, <2>3, <3>1, NoneAfterNewer
  <2>5. QED
    BY <1>11, <1>13, <2>1, <2>2, <2>4, CodesAreNaturals, Codes
       DEF AppProvisional
<1>14. CASE TimerSend100
  <2>1. PICK o \in SendResponse(Trying, st) :
          /\ s' = o.s /\ sx' = o.sx
          /\ st' = [o.st EXCEPT !.Send100 = IF o.left THEN "stale" ELSE "off"]
    BY <1>14 DEF TimerSend100
  <2>2. st'.Send100 # "on" /\ UNCHANGED <<su, hist>>
    BY <1>1, <1>14, <2>1, SendResponseTypes, Codes
       DEF TimerSend100, ServerTimers
  <2>3. s.msg = NoMsg /\ s.queue = << >>
    BY <1>14 DEF TimerSend100, OrderInv, Ordered
  <2>4. NoneAfter(s, Trying) /\ Trying <= Trying + hist.provs
    BY <2>3, CodesAreNaturals DEF NoneAfter
  <2>5. QED
    BY <1>1, <1>3, <2>1, <2>2, <2>3, <2>4, Codes DEF OrderInv
<1>15. ASSUME NEW t \in ServerTimers, ServerTimeout(t)
       PROVE  OrderInv'
  <2>1. [st EXCEPT ![t] = "off"] \in [ServerTimers -> TimerState]
    BY <1>1 DEF TimerState
  <2>2. QED
    BY <1>1, <1>15, <2>1, EndServerOrdered DEF ServerTimeout
<1>16. CASE ServerDeleted
  <2>1. /\ su'.gone /\ su'.stopped /\ su'.state = su.state /\ sx'.msg = NoMsg
        /\ st'.Send100 = "off" /\ UNCHANGED <<s, hist>>
    BY <1>1, <1>16 DEF ServerDeleted, ServerUaType, IdleTx, ServerTimers
  <2>2. QED
    BY <1>2, <2>1
<1>17. QED
  BY <1>5, <1>6, <1>7, <1>8, <1>9, <1>10, <1>12, <1>13, <1>14, <1>15, <1>16
     DEF ServerNext, ServerTimers

LEMMA OrderInvStep ==
  ASSUME TypeOK, OrderInv, ServerInv, [Next]_vars
  PROVE  OrderInv'
<1>1. CASE ClientNext
  BY <1>1, ClientFrame DEF server, OrderInv, Ordered, Sorted, NoneAfter
<1>2. CASE UNCHANGED vars
  BY <1>2 DEF vars, OrderInv, Ordered, Sorted, NoneAfter
<1>3. QED
  BY <1>1, <1>2, ServerOrdered DEF Next

-----------------------------------------------------------------------------
(* What the owners hear.                                                   *)
LEMMA ReceiveHeard ==
  ASSUME TypeOK, HeardInv, NEW r \in Code, ReceiveResponse(r)
  PROVE  HeardInv'
<1>1. /\ c \in ClientType /\ cu \in ClientUaType /\ hist \in HistType
      /\ Heard(r) \in HistType
  BY HeardType DEF TypeOK
<1>2. UNCHANGED su
  BY DEF ReceiveResponse, server
<1>3. CASE UNCHANGED <<c, ct, cx, cu, hist>>
  BY <1>2, <1>3 DEF HeardInv, OneAnswer
<1>4. CASE EndClient(ct, hist) /\ ~Filtered(r)
  <2>1. hist' = [hist EXCEPT !.cEnded = hist'.cEnded] /\ ~cu.stopped
    BY <1>4, EndClientFacts DEF ReceiveResponse, TypeOK
  <2>2. /\ hist'.finals = hist.finals /\ hist'.late = hist.late
        /\ hist'.sEnded = hist.sEnded
    BY <1>1, <2>1 DEF HistType
  <2>3. hist.cEnded = 0 /\ hist'.cEnded <= 1 /\ cu'.stopped
        /\ cu'.final = cu.final /\ c'.state = c.state
    BY <1>1, <1>4, <2>1, EndClientFacts DEF TypeOK, HeardInv, HistType
  <2>4. QED
    BY <1>2, <2>2, <2>3 DEF HeardInv, OneAnswer
<1>5. CASE /\ ~Filtered(r) /\ r # Final
           /\ c' = [c EXCEPT !.state = "Proceeding", !.code = r]
           /\ hist' = [Heard(r) EXCEPT !.early = @ \/ ct.F = "off"]
           /\ UNCHANGED <<ct, cx, cu>>
  <2>1. hist.finals = 0
    BY <1>1, <1>5 DEF HeardInv, Filtered, HistType
  <2>2. hist'.late = Heard(r).late /\ hist'.finals = Heard(r).finals
        /\ hist'.cEnded = Heard(r).cEnded /\ hist'.sEnded = Heard(r).sEnded
    BY <1>1, <1>5 DEF HistType
  <2>3. Heard(r).finals = 0 /\ Heard(r).cEnded = hist.cEnded
        /\ Heard(r).sEnded = hist.sEnded
    BY <1>1, <1>5, <2>1 DEF Heard, HistType
  <2>4. ~Heard(r).late
    BY <1>1, <2>1 DEF Heard, HistType, HeardInv, OneAnswer
  <2>5. QED
    BY <1>2, <1>5, <2>2, <2>3, <2>4 DEF HeardInv, OneAnswer
<1>6. CASE /\ ~Filtered(r) /\ r = Final /\ ~cu.final
           /\ c' = [c EXCEPT !.state = "Completed", !.code = r]
           /\ cu' = [cu EXCEPT !.final = TRUE]
           /\ hist' = Heard(r)
  <2>1. hist.finals = 0
    BY <1>1, <1>6 DEF HeardInv, HistType
  <2>2. hist'.finals <= 1 /\ hist'.cEnded = hist.cEnded
        /\ hist'.sEnded = hist.sEnded
    BY <1>1, <1>6, <2>1 DEF Heard, HistType
  <2>3. ~hist'.late
    BY <1>1, <1>6, <2>1 DEF Heard, HistType, HeardInv, OneAnswer
  <2>4. c'.state = "Completed" /\ cu'.final /\ cu'.stopped = cu.stopped
    BY <1>1, <1>6 DEF ClientType, ClientUaType
  <2>5. QED
    BY <1>2, <2>2, <2>3, <2>4 DEF HeardInv, OneAnswer
<1>7. QED
  BY <1>3, <1>4, <1>5, <1>6 DEF ReceiveResponse

LEMMA ClientHeard ==
  ASSUME TypeOK, HeardInv, ClientNext
  PROVE  HeardInv'
<1>1. /\ c \in ClientType /\ cu \in ClientUaType /\ hist \in HistType
      /\ UNCHANGED su
  BY ClientFrame DEF TypeOK, server
<1>2. ASSUME NEW tm \in [ClientTimers -> TimerState], EndClient(tm, hist)
      PROVE  HeardInv'
  <2>1. /\ hist'.finals = hist.finals /\ hist'.late = hist.late
        /\ hist'.sEnded = hist.sEnded /\ cu'.stopped
        /\ cu'.final = cu.final /\ c'.state = c.state
    BY <1>1, <1>2, EndClientFacts DEF HistType
  <2>2. hist'.cEnded <= 1
    <3>1. CASE hist'.cEnded = hist.cEnded
      BY <3>1 DEF HeardInv, OneAnswer
    <3>2. CASE ~cu.stopped /\ hist'.cEnded = hist.cEnded + 1
      BY <1>1, <3>2 DEF HeardInv, HistType
    <3>3. QED
      BY <1>2, <3>1, <3>2, EndClientFacts
  <2>3. QED
    BY <1>1, <2>1, <2>2 DEF HeardInv, OneAnswer
<1>3. CASE ClientWrites \/ TimerE
  BY <1>3 DEF ClientWrites, TimerE, server, HeardInv, OneAnswer
<1>4. CASE ClientSent
  <2> DEFINE tm == IF c.state = "Trying" THEN StartTimerF(ct) ELSE ct
  <2>1. tm \in [ClientTimers -> TimerState]
    BY DEF TypeOK, StartTimerF, ClientTimers, TimerState
  <2>2. CASE EndClient(tm, hist)
    BY <1>2, <2>1, <2>2
  <2>3. CASE UNCHANGED <<c, cu, hist>>
    BY <1>1, <2>3 DEF HeardInv, OneAnswer
  <2>4. QED
    BY <1>4, <2>2, <2>3 DEF ClientSent
<1>5. CASE ClientFailed
  BY <1>2, <1>5 DEF ClientFailed, TypeOK
<1>6. ASSUME NEW t \in ClientTimers, ClientTimeout(t)
      PROVE  HeardInv'
  <2>1. [ct EXCEPT ![t] = "off"] \in [ClientTimers -> TimerState]
    BY DEF TypeOK, TimerState
  <2>2. QED
    BY <1>2, <1>6, <2>1 DEF ClientTimeout
<1>7. CASE \E r \in Code : ReceiveResponse(r)
  BY <1>7, ReceiveHeard
<1>8. CASE ClearTransactionOwner \/ ClientDeleted
  <2>1. /\ UNCHANGED hist /\ cu'.final = cu.final
        /\ c'.state = c.state /\ (cu.stopped => cu'.stopped)
    BY <1>1, <1>8
       DEF ClearTransactionOwner, ClientDeleted, ClientType, ClientUaType
  <2>2. QED
    BY <1>1, <2>1 DEF HeardInv, OneAnswer
<1>9. QED
  BY <1>3, <1>4, <1>5, <1>6, <1>7, <1>8 DEF ClientNext, ClientTimers

LEMMA ServerHeard ==
  ASSUME TypeOK, HeardInv, OrderInv, ServerInv, ServerNext
  PROVE  HeardInv'
<1>1. /\ su \in ServerUaType /\ hist \in HistType
      /\ st \in [ServerTimers -> TimerState]
      /\ UNCHANGED client /\ hist'.finals = hist.finals
      /\ hist'.cEnded = hist.cEnded
  BY ServerFrame DEF TypeOK
<1>2. ASSUME NEW u \in ServerUaType, u.stopped = su.stopped,
             NEW tm \in [ServerTimers -> TimerState], EndServer(u, tm, hist)
      PROVE  HeardInv'
  <2>1. hist'.late = hist.late /\ su'.stopped
    BY <1>1, <1>2, EndServerFacts DEF HistType
  <2>2. hist'.sEnded <= 1
    <3>1. CASE hist'.sEnded = hist.sEnded
      BY <3>1 DEF HeardInv, OneAnswer
    <3>2. CASE ~u.stopped /\ hist'.sEnded = hist.sEnded + 1
      BY <1>1, <1>2, <3>2 DEF HeardInv, HistType
    <3>3. QED
      BY <1>2, <3>1, <3>2, EndServerFacts
  <2>3. QED
    BY <1>1, <2>1, <2>2 DEF HeardInv, OneAnswer, client
<1>3. ASSUME hist'.late = hist.late, hist'.sEnded = hist.sEnded,
             su.stopped => su'.stopped
      PROVE  HeardInv'
  BY <1>1, <1>3 DEF HeardInv, OneAnswer, client
<1>4. CASE ServerWrites
  <2>1. CASE sx.msg = NoMsg
    BY <1>3, <1>4, <2>1 DEF ServerWrites
  <2>2. CASE sx.msg # NoMsg
    <3>1. sx.msg = s.msg /\ hist.wire <= s.msg
      BY <2>2 DEF OrderInv, Ordered
    <3>2. ~(sx.msg < hist.wire)
      BY <3>1, CodesAreNaturals
    <3>3. /\ hist' = [hist EXCEPT !.wire = sx.msg,
                                  !.late = @ \/ sx.msg < hist.wire]
          /\ UNCHANGED su
      BY <1>4, <2>2 DEF ServerWrites, Written
    <3>4. hist'.sEnded = hist.sEnded /\ (hist'.late <=> hist.late)
      BY <1>1, <3>2, <3>3 DEF HistType
    <3>5. QED
      BY <1>1, <3>3, <3>4 DEF HeardInv, OneAnswer, client
  <2>3. QED
    BY <2>1, <2>2
<1>5. CASE ServerSent
  BY <1>1, <1>2, <1>3, <1>5 DEF ServerSent, SentInProceeding, SentInCompleted
<1>6. CASE FirstRequest
  <2> DEFINE tm == [st EXCEPT !.F2 = "on", !.Send100 = "on"]
             owned == [su EXCEPT !.state = "WaitRespFromApp", !.owner = TRUE]
             refused == [su EXCEPT !.state = "FinalRespSent"]
             searching == [su EXCEPT !.state = "GetTxOwner"]
  <2>1. tm \in [ServerTimers -> TimerState]
    BY <1>1 DEF ServerTimers, TimerState
  <2>2. /\ owned \in ServerUaType /\ refused \in ServerUaType
        /\ owned.stopped = su.stopped /\ refused.stopped = su.stopped
        /\ searching.stopped = su.stopped
    BY <1>1 DEF ServerUaType
  <2>3. CASE \E u \in {su, owned, refused} : EndServer(u, tm, hist)
    BY <1>1, <1>2, <2>1, <2>2, <2>3
  <2>4. CASE su' \in {owned, refused, searching} /\ UNCHANGED hist
    BY <1>3, <2>2, <2>4
  <2>5. QED
    BY <1>6, <2>3, <2>4 DEF FirstRequest
<1>7. CASE RequestAgain
  BY <1>1, <1>2, <1>3, <1>7 DEF RequestAgain
<1>8. CASE OwnerFound \/ OwnerNotFound \/ ServerOwnerGoes \/ TimerSend100
           \/ ServerDeleted
  <2>1. UNCHANGED hist /\ (su.stopped => su'.stopped)
    BY <1>1, <1>8 DEF OwnerFound, OwnerNotFound, ServerOwnerGoes, TimerSend100,
                      ServerDeleted, ServerUaType
  <2>2. QED
    BY <1>3, <2>1
<1>9. CASE AppProvisional \/ AppFinal
  <2>1. /\ hist'.late = hist.late /\ hist'.sEnded = hist.sEnded
        /\ su.stopped => su'.stopped
    BY <1>1, <1>9
       DEF AppProvisional, AppFinal, AppResponds, HistType, ServerUaType
  <2>2. QED
    BY <1>3, <2>1
<1>10. ASSUME NEW t \in ServerTimers, ServerTimeout(t)
       PROVE  HeardInv'
  <2>1. [st EXCEPT ![t] = "off"] \in [ServerTimers -> TimerState]
    BY <1>1 DEF TimerState
  <2>2. QED
    BY <1>1, <1>2, <1>10, <2>1 DEF ServerTimeout
<1>11. QED
  BY <1>4, <1>5, <1>6, <1>7, <1>8, <1>9, <1>10 DEF ServerNext, ServerTimers

(* The invariants together hold at first and are kept by every step.       *)
LEMMA IInvInit == Init => IInv
<1> SUFFICES ASSUME Init
             PROVE  IInv
  OBVIOUS
<1>1. ClientInv /\ ServerInv
  BY DEF Init, ClientInv, ClientIsBounded, ServerInv, ServerIsBounded,
         ClientTimers, ServerTimers, IdleTx
<1>2. HeardInv
  BY DEF Init, HeardInv, OneAnswer
<1>3. OrderInv
  <2>1. /\ s.msg = NoMsg /\ s.queue = << >> /\ sx.msg = NoMsg
        /\ hist.wire = NoMsg /\ hist.provs = 0 /\ ~su.gone
        /\ st.Send100 = "off"
    BY DEF Init, IdleTx, ServerTimers
  <2>2. Len(s.queue) = 0
    BY <2>1
  <2>3. QED
    BY <2>1, <2>2 DEF OrderInv, Ordered, Sorted, NoneAfter, NoMsg, Trying
<1>4. QED
  BY <1>1, <1>2, <1>3, TypesInit DEF IInv

LEMMA IInvStep == IInv /\ [Next]_vars => IInv'
<1> SUFFICES ASSUME IInv, [Next]_vars
             PROVE  IInv'
  OBVIOUS
<1>1. HeardInv'
  <2>1. CASE UNCHANGED vars
    BY <2>1 DEF vars, IInv, HeardInv, OneAnswer
  <2>2. QED
    BY <2>1, ClientHeard, ServerHeard DEF IInv, Next
<1>2. QED
  BY <1>1, TypesStep, ClientInvStep, ServerInvStep, OrderInvStep DEF IInv

(* However the network repeats, loses and reorders messages, and whatever  *)
(* leaves: one final response reaches the client's owner and nothing after *)
(* it, the server never writes an older response after a newer one, and    *)
(* each owner hears of the end at most once.                               *)
THEOREM OneAnswerAlways == Spec => []OneAnswer
<1>1. IInv => OneAnswer
  BY DEF IInv, HeardInv
<1>2. QED
  BY <1>1, IInvInit, IInvStep, PTL DEF Spec
=============================================================================
