------------------------ MODULE InviteServer_proofs ------------------------
(***************************************************************************)
(* Theorems about InviteServer, for every transport, every number of       *)
(* provisional responses and every set of calls that may leave.            *)
(***************************************************************************)
EXTENDS InviteServer, TLAPS

(* The transaction is neither sending a 2xx nor about to.                  *)
No2xx(t) ==
  t.state # "Sending2xx" /\ \A i \in 1..Len(t.queue) : t.queue[i] # Ok

(* The store's entry reaches the transaction only while no 2xx is chosen.  *)
RouteInv == route = "ta" => No2xx(ta)

(* Who has been, or will be, deleted.                                      *)
DeletionInv ==
  /\ "ta" \in doomed => ta.terminated /\ ~ua.holds
  /\ "ta" \in gone => ta.terminated \/ "ua" \in gone
  /\ "ua" \in doomed \/ marked \/ "ua" \in gone => ua.stopped
  /\ ua.stopped => route = "none"
  /\ ~ua.holds => ta.terminated
  /\ "ua" \in gone =>
       /\ tx.to = "none" /\ ~routing
       /\ \A t \in UaTimers : timer[t] = "off"
       /\ ta.terminated \/ \A t \in TaTimers : timer[t] = "off"

(* The user agent sends only its 2xx, and only after the transaction.      *)
RetransmitInv ==
  /\ ua.has2xx => ua.state = "Accepted"
  /\ ~ta.passed /\ ~ta.terminated /\ ~ua.stopped => ua.state = "Start"
  /\ timer["Retransmit2xx"] # "off" => ta.terminated

SafeInv ==
  TypeOK /\ TransmitterOwned /\ RouteInv /\ DeletionInv /\ RetransmitInv

-----------------------------------------------------------------------------
(* Status codes: the only 2xx is Ok, and every code has its state.         *)
LEMMA Codes ==
  /\ {Trying, Ok, Reject} \subseteq Code /\ Code \subseteq Nat
  /\ NoMsg \in CodeOrNone /\ Code \subseteq CodeOrNone
  /\ \A i \in 1..MaxProv : 100 + i \in Provisional
  /\ \A r \in Provisional : 100 < r /\ r < 200 /\ r \in Code
  /\ \A r \in Code : StateAfter(r) \in TaState
  /\ \A r \in Code : r # Ok => StateAfter(r) # "Sending2xx"
BY InviteServerAssumption
   DEF Code, CodeOrNone, Provisional, Trying, Ok, Reject, NoMsg, StateAfter,
       TaState

(* SendAndStore, whether or not it leaves, keeps the types, uses the       *)
(* transmitter for the transaction only, and enters Sending2xx for Ok only.*)
LEMMA SendAndStoreFacts ==
  ASSUME NEW t \in TaType, NEW r \in Code, NEW tm \in TimerType,
         NEW s \in SendAndStore(t, r, tm)
  PROVE  /\ s.ta \in TaType /\ s.tx \in TxType /\ s.tm \in TimerType
         /\ s.left \in BOOLEAN
         /\ s.ta.terminated = t.terminated /\ s.ta.passed = t.passed
         /\ s.ta.queue = t.queue
         /\ s.ta.state = StateAfter(r)
         /\ s.tx.to \in {"none", "ta"}
         /\ \A u \in UaTimers : s.tm[u] = tm[u]
<1>1. /\ StateAfter(r) \in TaState /\ r \in CodeOrNone /\ NoMsg \in CodeOrNone
  BY Codes
<1>2. /\ Moved(t, r) \in TaType
      /\ Moved(t, r).terminated = t.terminated
      /\ Moved(t, r).passed = t.passed
      /\ Moved(t, r).queue = t.queue /\ Moved(t, r).state = StateAfter(r)
  BY <1>1 DEF Moved, TaType
<1>3. /\ [t EXCEPT !.state = StateAfter(r), !.msg = r] \in TaType
      /\ [t EXCEPT !.state = StateAfter(r), !.msg = r].terminated = t.terminated
      /\ [t EXCEPT !.state = StateAfter(r), !.msg = r].passed = t.passed
      /\ [t EXCEPT !.state = StateAfter(r), !.msg = r].queue = t.queue
      /\ [t EXCEPT !.state = StateAfter(r), !.msg = r].state = StateAfter(r)
  BY <1>1 DEF TaType
<1>4. /\ WithTimerH(r, tm) \in TimerType
      /\ \A u \in UaTimers : WithTimerH(r, tm)[u] = tm[u]
  BY DEF WithTimerH, TimerType, Timers, TaTimers, UaTimers
<1>5. IdleTx \in TxType /\ IdleTx.to = "none"
  BY <1>1 DEF IdleTx, TxType
<1> DEFINE stored == [t EXCEPT !.state = StateAfter(r), !.msg = r]
           out(a, x, m, l) == [ta |-> a, tx |-> x, tm |-> m, left |-> l]
<1>6. \/ s = out(stored, [to |-> "ta", msg |-> r], WithTimerH(r, tm), FALSE)
      \/ s = out(Moved(t, r), IdleTx, tm, TRUE)
      \/ s = out(Moved(t, r), [to |-> "ta", msg |-> NoMsg], tm, TRUE)
      \/ s = out(stored, [to |-> "ta", msg |-> r], tm, TRUE)
  BY DEF SendAndStore, Sent
<1>7. /\ [to |-> "ta", msg |-> r] \in TxType
      /\ [to |-> "ta", msg |-> NoMsg] \in TxType
  BY <1>1 DEF TxType
<1>8. CASE s = out(stored, [to |-> "ta", msg |-> r], WithTimerH(r, tm), FALSE)
  BY <1>3, <1>4, <1>7, <1>8
<1>9. CASE s = out(Moved(t, r), IdleTx, tm, TRUE)
  BY <1>2, <1>5, <1>9
<1>10. CASE s = out(Moved(t, r), [to |-> "ta", msg |-> NoMsg], tm, TRUE)
  BY <1>2, <1>7, <1>10
<1>11. CASE s = out(stored, [to |-> "ta", msg |-> r], tm, TRUE)
  BY <1>3, <1>7, <1>11
<1>12. QED
  BY <1>6, <1>8, <1>9, <1>10, <1>11

(* SendResponse: as above; a refused or queued response leaves the         *)
(* transmitter alone, and a terminated transaction is not touched.         *)
LEMMA SendResponseFacts ==
  ASSUME TypeOK, NEW t \in TaType, NEW r \in Code, NEW tm \in TimerType,
         NEW s \in SendResponse(t, r, tm)
  PROVE  /\ s.ta \in TaType /\ s.tx \in TxType /\ s.tm \in TimerType
         /\ s.left \in BOOLEAN
         /\ s.ta.terminated = t.terminated /\ s.ta.passed = t.passed
         /\ s.tx = tx \/ (~t.terminated /\ s.tx.to \in {"none", "ta"})
         /\ \A u \in UaTimers : s.tm[u] = tm[u]
         /\ r # Ok /\ No2xx(t) => No2xx(s.ta)
<1> DEFINE unsent == [ta |-> t, tx |-> tx, tm |-> tm, left |-> TRUE]
           t2 == [t EXCEPT !.queue = Enqueue(@, r)]
<1>1. /\ t2 \in TaType
      /\ t2.terminated = t.terminated /\ t2.passed = t.passed
      /\ t2.state = t.state
  BY DEF TaType, Enqueue
<1>2. r # Ok /\ No2xx(t) => No2xx(t2)
  <2> SUFFICES ASSUME r # Ok, No2xx(t), NEW i \in 1..Len(t2.queue)
               PROVE  t2.queue[i] # Ok
    BY <1>1 DEF No2xx
  <2>1. t.queue \in Seq(Code) /\ t2.queue = Append(t.queue, r)
    BY DEF TaType, Enqueue
  <2>2. QED
    BY <2>1 DEF No2xx
<1>3. tx \in TxType
  BY DEF TypeOK
<1>4. \/ s = unsent
      \/ s = [ta |-> t2, tx |-> tx, tm |-> tm, left |-> FALSE]
      \/ ~t.terminated /\ s \in SendAndStore(t, r, tm)
  BY DEF SendResponse
<1>5. CASE s = unsent
  BY <1>3, <1>5
<1>6. CASE s = [ta |-> t2, tx |-> tx, tm |-> tm, left |-> FALSE]
  BY <1>1, <1>2, <1>3, <1>6
<1>7. CASE ~t.terminated /\ s \in SendAndStore(t, r, tm)
  BY <1>7, SendAndStoreFacts, Codes DEF No2xx
<1>8. QED
  BY <1>4, <1>5, <1>6, <1>7

(* CUserAgent::Stop: the user agent is stopped, its entry leads nowhere,   *)
(* and only the user agent is handed to CDeleteMgr.                        *)
LEMMA StopFacts ==
  ASSUME TypeOK, NEW u \in UaType, NEW d \in SUBSET Object,
         NEW h \in HistType, u.stopped => route = "none", Stop(u, d, h)
  PROVE  /\ ua' \in UaType /\ doomed' \in SUBSET Object
         /\ hist' \in HistType /\ marked' \in BOOLEAN
         /\ ua'.stopped /\ route' = "none"
         /\ ua'.state = u.state /\ ua'.holds = u.holds
         /\ ua'.has2xx = u.has2xx
         /\ "ta" \in doomed' <=> "ta" \in d
<1>1. CASE u.stopped
  BY <1>1 DEF Stop, TypeOK
<1>2. CASE ~u.stopped
  <2>1. ua' = [u EXCEPT !.stopped = TRUE]
    BY <1>2 DEF Stop
  <2>2. ua' \in UaType /\ ua'.stopped /\ ua'.state = u.state
        /\ ua'.holds = u.holds /\ ua'.has2xx = u.has2xx
    BY <2>1 DEF UaType
  <2>3. hist' = [h EXCEPT !.ended = IF u.owner THEN @ + 1 ELSE @]
    BY <1>2 DEF Stop
  <2>4. hist' \in HistType
    BY <2>3 DEF HistType
  <2>5. /\ route' = "none" /\ doomed' \in {d, d \cup {"ua"}}
        /\ marked' \in {marked, TRUE}
    BY <1>2 DEF Stop
  <2>6. QED
    BY <2>2, <2>4, <2>5 DEF TypeOK, Object
<1>3. QED
  BY <1>1, <1>2

(* ReleaseTransaction forgets the transaction only once CDeleteMgr has it. *)
LEMMA ReleaseFacts ==
  ASSUME TypeOK, NEW tm \in TimerType, NEW r \in ReleaseTransaction(tm)
  PROVE  /\ r.u \in UaType /\ r.d \in SUBSET Object /\ r.tm \in TimerType
         /\ r.u.state = ua.state /\ r.u.stopped = ua.stopped
         /\ r.u.has2xx = ua.has2xx
         /\ "ta" \in r.d => ~r.u.holds \/ "ta" \in doomed
         /\ r.u.holds => ua.holds
         /\ "ua" \in r.d <=> "ua" \in doomed
<1> DEFINE freed == [ua EXCEPT !.holds = FALSE]
           both == doomed \cup {"ta"}
           on == [tm EXCEPT !["Retransmit2xx"] = "on"]
<1>1. /\ freed \in UaType /\ ~freed.holds
      /\ freed.state = ua.state /\ freed.stopped = ua.stopped
      /\ freed.has2xx = ua.has2xx
  BY DEF TypeOK, UaType
<1>2. on \in TimerType
  BY DEF TimerType
<1>3. /\ both \in SUBSET Object /\ doomed \in SUBSET Object /\ ua \in UaType
      /\ "ua" \in both <=> "ua" \in doomed
  BY DEF TypeOK, Object
<1>4. \/ r = [u |-> freed, d |-> both, tm |-> on]
      \/ r = [u |-> freed, d |-> both, tm |-> tm]
      \/ r = [u |-> ua, d |-> doomed, tm |-> tm]
  BY DEF ReleaseTransaction
<1>5. CASE r = [u |-> freed, d |-> both, tm |-> on]
  BY <1>1, <1>2, <1>3, <1>5
<1>6. CASE r = [u |-> freed, d |-> both, tm |-> tm]
  BY <1>1, <1>3, <1>6
<1>7. CASE r = [u |-> ua, d |-> doomed, tm |-> tm]
  BY <1>3, <1>7
<1>8. QED
  BY <1>4, <1>5, <1>6, <1>7

(* Terminated and Detached keep the types; a send for the transaction is   *)
(* gone.                                                                   *)
LEMMA TerminatedFacts ==
  ASSUME NEW t \in TaType, NEW x \in TxType
  PROVE  /\ Terminated(t) \in TaType /\ Terminated(t).terminated
         /\ Terminated(t).passed = t.passed
         /\ Detached(x) \in TxType /\ Detached(x).to # "ta"
         /\ Detached(x) = IdleTx \/ Detached(x) = x
<1>1. NoMsg \in CodeOrNone
  BY Codes
<1>2. LeaveFor2xx(t) \in TaType /\ LeaveFor2xx(t).passed = t.passed
  BY <1>1 DEF LeaveFor2xx, TaType
<1>3. Terminated(t) = [LeaveFor2xx(t) EXCEPT !.terminated = TRUE]
  BY DEF Terminated
<1>4. /\ Terminated(t) \in TaType /\ Terminated(t).terminated
      /\ Terminated(t).passed = LeaveFor2xx(t).passed
  BY <1>2, <1>3 DEF TaType
<1>5. QED
  BY <1>1, <1>2, <1>4 DEF Detached, IdleTx, TxType

(* How the two ways of ending leave the pair of objects.                   *)
Ending ==
  /\ ta' \in TaType /\ ta'.terminated
  /\ ua' \in UaType /\ timer' \in TimerType /\ tx' \in TxType
  /\ doomed' \in SUBSET Object /\ marked' \in BOOLEAN /\ hist' \in HistType
  /\ tx'.to # "ta" /\ route' \in {"ua", "none"}
  /\ ua'.stopped => route' = "none"
  /\ "ta" \in doomed' => ~ua'.holds
  /\ "ua" \in doomed' \/ marked' => ua'.stopped
  /\ ua.stopped => ua'.stopped

(* CTransaction::TerminatedL on a transaction that has not terminated.     *)
LEMMA EndTaFacts ==
  ASSUME SafeInv, NEW tm \in TimerType, NEW x \in TxType, NEW h \in HistType,
         ~ta.terminated, EndTa(ta, tm, x, h)
  PROVE  /\ Ending
         /\ ua'.state = ua.state /\ ua'.has2xx = ua.has2xx
         /\ tx' = IdleTx \/ tx' = x
<1> USE DEF SafeInv, DeletionInv
<1>1. ta \in TaType /\ ua \in UaType /\ doomed \in SUBSET Object
  BY DEF TypeOK
<1>2. ta' = Terminated(ta) /\ tx' = Detached(x)
  BY DEF EndTa
<1>3. ta' \in TaType /\ ta'.terminated /\ tx' \in TxType /\ tx'.to # "ta"
      /\ (tx' = IdleTx \/ tx' = x)
  BY <1>1, <1>2, TerminatedFacts
<1>4. CASE ua.state = "Accepted"
  <2>1. PICK r \in ReleaseTransaction(tm) :
          ua' = r.u /\ doomed' = r.d /\ timer' = r.tm
    BY <1>4 DEF EndTa
  <2>2. route' = ClearTransaction(route) /\ hist' = h /\ marked' = marked
    BY <1>4 DEF EndTa
  <2>3. route' \in {"ua", "none"} /\ (route = "none" => route' = "none")
    BY <2>2 DEF ClearTransaction, TypeOK
  <2>4. QED
    BY <1>1, <1>3, <2>1, <2>2, <2>3, ReleaseFacts DEF Ending, TypeOK
<1>5. CASE ua.state # "Accepted"
  <2>1. Stop(ua, doomed, h) /\ timer' = tm
    BY <1>5 DEF EndTa
  <2>2. QED
    BY <1>1, <1>3, <2>1, StopFacts DEF Ending
<1>6. QED
  BY <1>4, <1>5

(* CTransaction::LeaveOccurred, for a user agent that is running.          *)
LEMMA EndByLeaveFacts ==
  ASSUME SafeInv, NEW t \in TaType, NEW u \in UaType, NEW tm \in TimerType,
         NEW x \in TxType, NEW h \in HistType,
         u.stopped = ua.stopped, u.holds = ua.holds,
         u.state = "Accepted" => u = ua,
         EndByLeave(t, u, tm, x, h)
  PROVE  /\ Ending /\ ua'.stopped
         /\ ua'.state = u.state /\ ua'.has2xx = u.has2xx
         /\ tx' = IdleTx \/ tx' = x
<1> USE DEF SafeInv, DeletionInv
<1>1. ua \in UaType /\ doomed \in SUBSET Object
  BY DEF TypeOK
<1>2. ta' = Terminated(t) /\ tx' = Detached(x)
  BY DEF EndByLeave
<1>3. ta' \in TaType /\ ta'.terminated /\ tx' \in TxType /\ tx'.to # "ta"
      /\ (tx' = IdleTx \/ tx' = x)
  BY <1>2, TerminatedFacts
<1>4. CASE u.state = "Accepted" /\ ~t.terminated
  <2>1. PICK r \in ReleaseTransaction(tm) :
          Stop(r.u, r.d, h) /\ timer' = r.tm
    BY <1>4 DEF EndByLeave
  <2>2. /\ r.u \in UaType /\ r.d \in SUBSET Object /\ r.tm \in TimerType
        /\ r.u.stopped = ua.stopped /\ r.u.state = ua.state
        /\ r.u.has2xx = ua.has2xx /\ ("ta" \in r.d => ~r.u.holds)
    BY ReleaseFacts, <1>1
  <2>3. QED
    BY <1>1, <1>3, <1>4, <2>1, <2>2, StopFacts DEF Ending
<1>5. CASE ~(u.state = "Accepted" /\ ~t.terminated)
  <2>1. Stop(u, doomed, h) /\ timer' = tm
    BY <1>5 DEF EndByLeave
  <2>2. QED
    BY <1>1, <1>3, <2>1, StopFacts DEF Ending
<1>6. QED
  BY <1>4, <1>5

(* Ending keeps the invariant while the user agent exists.                 *)
LEMMA EndingSafe ==
  ASSUME SafeInv, Ending, routing' \in BOOLEAN, gone' = gone, "ua" \notin gone,
         tx'.to = "ua" => tx.to = "ua",
         ua'.has2xx = ua.has2xx, ua'.has2xx => ua'.state = "Accepted"
  PROVE  SafeInv'
<1>1. TypeOK'
  BY DEF SafeInv, TypeOK, Ending
<1>2. TransmitterOwned'
  BY DEF SafeInv, TransmitterOwned, Ending
<1>3. RouteInv' /\ DeletionInv'
  BY DEF SafeInv, RouteInv, DeletionInv, Ending
<1>4. RetransmitInv'
  BY DEF RetransmitInv, Ending
<1>5. QED
  BY <1>1, <1>2, <1>3, <1>4 DEF SafeInv

(* Stopping a user agent that exists keeps the invariant, whatever the     *)
(* transaction did in the same step.                                       *)
LEMMA StopSafe ==
  ASSUME SafeInv, "ua" \notin gone, gone' = gone,
         NEW u \in UaType, NEW h \in HistType, Stop(u, doomed, h),
         u.stopped = ua.stopped, u.holds = ua.holds, u.has2xx = ua.has2xx,
         u.has2xx => u.state = "Accepted",
         ta' \in TaType, ta'.terminated = ta.terminated,
         tx' \in TxType, tx'.to = "ua" => tx.to = "ua",
         tx'.to = "ta" => ~ta.terminated,
         timer' \in TimerType, routing' \in BOOLEAN,
         timer'["Retransmit2xx"] \in {timer["Retransmit2xx"], "off"}
            \/ ta.terminated
  PROVE  SafeInv'
<1>1. TypeOK /\ (u.stopped => route = "none") /\ doomed \in SUBSET Object
  BY DEF SafeInv, TypeOK, DeletionInv
<1>2. /\ ua' \in UaType /\ doomed' \in SUBSET Object /\ hist' \in HistType
      /\ marked' \in BOOLEAN /\ ua'.stopped /\ route' = "none"
      /\ ua'.state = u.state /\ ua'.holds = u.holds /\ ua'.has2xx = u.has2xx
      /\ "ta" \in doomed' <=> "ta" \in doomed
  BY <1>1, StopFacts
<1>3. TypeOK'
  BY <1>1, <1>2 DEF TypeOK
<1>4. TransmitterOwned' /\ RouteInv' /\ DeletionInv' /\ RetransmitInv'
  BY <1>2 DEF SafeInv, TransmitterOwned, RouteInv, DeletionInv, RetransmitInv
<1>5. QED
  BY <1>3, <1>4 DEF SafeInv

(* Giving the transaction a response keeps the invariant: a 2xx needs the  *)
(* store's entry out of the way.                                           *)
LEMMA RespondSafe ==
  ASSUME SafeInv, NEW r \in Code, NEW tm \in TimerType,
         NEW s \in SendResponse(ta, r, tm),
         ~ua.stopped, ua.state # "Start", ta' = s.ta, tx' = s.tx,
         timer' \in TimerType,
         timer'["Retransmit2xx"] \in {timer["Retransmit2xx"], "off"},
         ua' \in UaType, ua'.stopped = ua.stopped, ua'.holds = ua.holds,
         ua'.has2xx => ua'.state = "Accepted", ua.has2xx => ua'.has2xx,
         hist' \in HistType, routing' \in BOOLEAN,
         route' \in {"ta", "ua", "none"},
         route' = "ta" => route = "ta" /\ r # Ok,
         UNCHANGED <<doomed, marked, gone>>
  PROVE  SafeInv'
<1>1. TypeOK /\ ta \in TaType
  BY DEF SafeInv, TypeOK
<1>2. /\ s.ta \in TaType /\ s.tx \in TxType
      /\ s.ta.terminated = ta.terminated /\ s.ta.passed = ta.passed
      /\ s.tx = tx \/ (~ta.terminated /\ s.tx.to \in {"none", "ta"})
      /\ r # Ok /\ No2xx(ta) => No2xx(s.ta)
  BY <1>1, SendResponseFacts
<1>3. TypeOK'
  BY <1>1, <1>2 DEF TypeOK
<1>4. RouteInv'
  BY <1>2 DEF SafeInv, RouteInv, No2xx
<1>5. TransmitterOwned' /\ DeletionInv' /\ RetransmitInv'
  BY <1>2 DEF SafeInv, TransmitterOwned, DeletionInv, RetransmitInv
<1>6. QED
  BY <1>3, <1>4, <1>5 DEF SafeInv

-----------------------------------------------------------------------------
(* Requests from the network keep the invariant.                           *)
LEMMA FirstInviteSafe == SafeInv /\ FirstInvite => SafeInv'
<1> SUFFICES ASSUME SafeInv, FirstInvite PROVE SafeInv'
  OBVIOUS
<1> USE DEF SafeInv
<1> DEFINE t100 == [ta EXCEPT !.msg = Trying]
           tPassed == [t100 EXCEPT !.passed = TRUE]
           x == [to |-> "ta", msg |-> Trying]
           tQueued == [tPassed EXCEPT !.queue = <<Reject>>]
           owned == [ua EXCEPT !.state = "WaitRespFromApp", !.owner = TRUE]
<1>1. /\ ~ta.passed /\ ~ta.terminated /\ ~ua.stopped /\ "ua" \notin gone
      /\ ua.state = "Start" /\ gone' = gone /\ ~ua.has2xx
  BY DEF FirstInvite, DeletionInv, RetransmitInv
<1>2. ta \in TaType /\ ua \in UaType /\ timer \in TimerType /\ hist \in HistType
      /\ tx \in TxType
  BY DEF TypeOK
<1>3. /\ Trying \in CodeOrNone /\ Reject \in Code /\ Trying \in Code
  BY Codes
<1>4. /\ t100 \in TaType /\ t100.terminated = ta.terminated
      /\ t100.state = ta.state /\ t100.queue = ta.queue
  BY <1>2, <1>3 DEF TaType
<1>5. /\ tPassed \in TaType /\ tPassed.terminated = ta.terminated
      /\ tPassed.passed /\ tPassed.state = ta.state /\ tPassed.queue = ta.queue
  BY <1>4 DEF TaType
<1>6. /\ tQueued \in TaType /\ tQueued.terminated = ta.terminated
      /\ tQueued.passed /\ tQueued.state = ta.state /\ tQueued.queue = <<Reject>>
  <2>1. <<Reject>> \in Seq(Code)
    BY <1>3
  <2>2. QED
    BY <1>5, <2>1 DEF TaType
<1>7. x \in TxType /\ x.to = "ta"
  BY <1>3 DEF TxType
<1>8. \A st \in {"Rejected", "GetTxOwner"} :
        LET u == [ua EXCEPT !.state = st] IN
        /\ u \in UaType /\ u.state = st /\ u.stopped = ua.stopped
        /\ u.holds = ua.holds /\ u.has2xx = ua.has2xx
  BY <1>2 DEF UaType, UaState
<1>9. CASE /\ ta' = tPassed /\ tx' = x
           /\ ua' = [ua EXCEPT !.state = "WaitRespFromApp", !.owner = TRUE]
           /\ hist' = [hist EXCEPT !.told = TRUE]
           /\ UNCHANGED <<timer, route, routing, doomed, marked>>
  <2>1. /\ ua' \in UaType /\ ua'.stopped = ua.stopped
        /\ ua'.holds = ua.holds /\ ua'.has2xx = ua.has2xx
    BY <1>2, <1>9 DEF UaType, UaState
  <2>2. hist' \in HistType
    BY <1>2, <1>9 DEF HistType
  <2>3. TypeOK'
    BY <1>1, <1>5, <1>7, <1>9, <2>1, <2>2 DEF TypeOK
  <2>4. TransmitterOwned' /\ DeletionInv' /\ RetransmitInv'
    BY <1>1, <1>5, <1>7, <1>9, <2>1
    DEF TransmitterOwned, DeletionInv, RetransmitInv
  <2>5. RouteInv'
    BY <1>5, <1>9 DEF RouteInv, No2xx
  <2>6. QED
    BY <2>3, <2>4, <2>5
<1>10. CASE /\ ta' = tPassed /\ tx' = x
            /\ ua' = [ua EXCEPT !.state = "GetTxOwner"]
            /\ timer' = [timer EXCEPT !["OwnerResolver"] = "on"]
            /\ routing' = TRUE
            /\ UNCHANGED <<route, doomed, marked, hist>>
  <2>1. /\ timer' \in TimerType
        /\ timer'["Retransmit2xx"] = timer["Retransmit2xx"]
    BY <1>2, <1>10 DEF TimerType, Timers, UaTimers
  <2>2. TypeOK'
    BY <1>1, <1>5, <1>7, <1>8, <1>10, <2>1 DEF TypeOK
  <2>3. TransmitterOwned' /\ DeletionInv' /\ RetransmitInv'
    BY <1>1, <1>5, <1>7, <1>8, <1>10, <2>1
    DEF TransmitterOwned, DeletionInv, RetransmitInv
  <2>4. RouteInv'
    BY <1>5, <1>10 DEF RouteInv, No2xx
  <2>5. QED
    BY <2>2, <2>3, <2>4
<1>11. CASE /\ ta' = tQueued /\ tx' = x /\ ua' = Rejecting(ua)
            /\ UNCHANGED <<timer, route, routing, doomed, marked, hist>>
  <2>1. TypeOK'
    BY <1>1, <1>6, <1>7, <1>8, <1>11 DEF TypeOK, Rejecting
  <2>2. TransmitterOwned' /\ DeletionInv' /\ RetransmitInv'
    BY <1>1, <1>6, <1>7, <1>8, <1>11
    DEF TransmitterOwned, DeletionInv, RetransmitInv, Rejecting
  <2>3. RouteInv'
    BY <1>6, <1>11 DEF RouteInv, No2xx, Ok, Reject
  <2>4. QED
    BY <2>1, <2>2, <2>3
<1>12. ASSUME NEW u \in {ua, Rejecting(ua), owned}, NEW y \in {tx, x},
              EndByLeave(t100, u, timer, y, hist), routing' \in BOOLEAN
       PROVE  SafeInv'
  <2>0. /\ owned \in UaType /\ owned.stopped = ua.stopped
        /\ owned.holds = ua.holds /\ owned.has2xx = ua.has2xx
        /\ owned.state # "Accepted"
    BY <1>2 DEF UaType, UaState
  <2>1. /\ u \in UaType /\ u.stopped = ua.stopped /\ u.holds = ua.holds
        /\ u.has2xx = ua.has2xx /\ u.state # "Accepted"
    BY <1>1, <1>2, <1>8, <1>12, <2>0 DEF Rejecting
  <2>2. y \in TxType /\ (y.to = "ua" => tx.to = "ua")
    BY <1>2, <1>7
  <2>3. /\ Ending /\ ua'.state = u.state /\ ua'.has2xx = u.has2xx
        /\ (tx' = IdleTx \/ tx' = y)
    BY <1>2, <1>4, <1>12, <2>1, <2>2, EndByLeaveFacts
  <2>4. QED
    BY <1>1, <1>12, <2>1, <2>2, <2>3, EndingSafe DEF IdleTx
<1>13. routing \in BOOLEAN
  BY DEF TypeOK
<1>14. QED
  BY <1>9, <1>10, <1>11, <1>12, <1>13 DEF FirstInvite, WithOwnerResolver

LEMMA InviteAgainSafe == SafeInv /\ InviteAgain => SafeInv'
<1> SUFFICES ASSUME SafeInv, InviteAgain PROVE SafeInv'
  OBVIOUS
<1> USE DEF SafeInv
<1>1. /\ ~ta.terminated /\ tx.to = "none" /\ "ua" \notin gone
      /\ gone' = gone /\ routing' = routing
  BY DEF InviteAgain, DeletionInv
<1>2. ta \in TaType /\ ua \in UaType /\ timer \in TimerType /\ hist \in HistType
      /\ tx \in TxType
  BY DEF TypeOK
<1>3. CASE /\ tx' = [to |-> "ta", msg |-> ta.msg]
           /\ UNCHANGED <<ta, ua, timer, route, doomed, marked, hist>>
  <2>1. tx' \in TxType /\ tx'.to = "ta"
    BY <1>2, <1>3 DEF TaType, TxType
  <2>2. TypeOK'
    BY <1>1, <1>3, <2>1 DEF TypeOK
  <2>3. TransmitterOwned' /\ RouteInv' /\ DeletionInv' /\ RetransmitInv'
    BY <1>1, <1>3, <2>1
    DEF TransmitterOwned, RouteInv, No2xx, DeletionInv, RetransmitInv
  <2>4. QED
    BY <2>2, <2>3
<1>4. CASE EndByLeave(ta, ua, timer, tx, hist)
  <2>1. /\ Ending /\ ua'.state = ua.state /\ ua'.has2xx = ua.has2xx
        /\ (tx' = IdleTx \/ tx' = tx)
    BY <1>2, <1>4, EndByLeaveFacts
  <2>2. QED
    BY <1>1, <2>1, EndingSafe DEF IdleTx, TypeOK, RetransmitInv
<1>5. QED
  BY <1>3, <1>4 DEF InviteAgain

LEMMA AckToTaSafe == SafeInv /\ AckToTa => SafeInv'
<1> SUFFICES ASSUME SafeInv, AckToTa PROVE SafeInv'
  OBVIOUS
<1> USE DEF SafeInv
<1> DEFINE tm == [timer EXCEPT !["G"] = "off", !["H"] = "off"]
<1>1. /\ ~ta.terminated /\ "ua" \notin gone
      /\ gone' = gone /\ routing' = routing
  BY DEF AckToTa, DeletionInv
<1>2. ta \in TaType /\ ua \in UaType /\ timer \in TimerType /\ hist \in HistType
      /\ tx \in TxType
  BY DEF TypeOK
<1>3. tm \in TimerType /\ tm["Retransmit2xx"] = timer["Retransmit2xx"]
  BY <1>2 DEF TimerType, Timers, UaTimers
<1>4. CASE /\ ta' = [ta EXCEPT !.state = "Confirmed"]
           /\ timer' = [tm EXCEPT !["I"] = "on"]
           /\ UNCHANGED <<ua, tx, route, doomed, marked, hist>>
  <2>1. /\ ta' \in TaType /\ ta'.state = "Confirmed" /\ ta'.queue = ta.queue
        /\ ta'.terminated = ta.terminated /\ ta'.passed = ta.passed
    BY <1>2, <1>4 DEF TaType, TaState
  <2>2. /\ timer' \in TimerType
        /\ timer'["Retransmit2xx"] = timer["Retransmit2xx"]
    BY <1>3, <1>4 DEF TimerType, Timers, UaTimers
  <2>3. TypeOK'
    BY <1>1, <1>4, <2>1, <2>2 DEF TypeOK
  <2>4. TransmitterOwned' /\ RouteInv' /\ DeletionInv' /\ RetransmitInv'
    BY <1>1, <1>4, <2>1, <2>2
    DEF TransmitterOwned, RouteInv, No2xx, DeletionInv, RetransmitInv
  <2>5. QED
    BY <2>3, <2>4
<1>5. CASE EndByLeave(ta, ua, tm, tx, hist)
  <2>1. /\ Ending /\ ua'.state = ua.state /\ ua'.has2xx = ua.has2xx
        /\ (tx' = IdleTx \/ tx' = tx)
    BY <1>2, <1>3, <1>5, EndByLeaveFacts
  <2>2. QED
    BY <1>1, <2>1, EndingSafe DEF IdleTx, TypeOK, RetransmitInv
<1>6. QED
  BY <1>4, <1>5 DEF AckToTa

LEMMA AckToUaSafe == SafeInv /\ AckToUa => SafeInv'
<1> SUFFICES ASSUME SafeInv, AckToUa PROVE SafeInv'
  OBVIOUS
<1> USE DEF SafeInv
<1>1. PICK found \in BOOLEAN :
        Stop([ua EXCEPT !.owner = found \/ @], doomed, hist)
  BY DEF AckToUa
<1> DEFINE u == [ua EXCEPT !.owner = found \/ @]
<1>2. /\ u \in UaType /\ u.state = ua.state /\ u.stopped = ua.stopped
      /\ u.holds = ua.holds /\ u.has2xx = ua.has2xx
  BY DEF TypeOK, UaType
<1>3. /\ timer' \in TimerType /\ timer'["Retransmit2xx"] = "off"
      /\ ta' = ta /\ tx' = tx /\ routing' = routing /\ gone' = gone
      /\ "ua" \notin gone
  BY DEF AckToUa, TypeOK, TimerType, Timers, UaTimers, DeletionInv
<1>4. QED
  BY <1>1, <1>2, <1>3, StopSafe
  DEF TypeOK, RetransmitInv, TransmitterOwned

(* Small facts about the user agent's and the history's updates.           *)
LEMMA UpdateFacts ==
  ASSUME NEW u \in UaType, NEW h \in HistType, NEW r \in Code,
         NEW left \in BOOLEAN
  PROVE  /\ Rejecting(u) \in UaType /\ Rejecting(u).state = "Rejected"
         /\ Rejecting(u).stopped = u.stopped /\ Rejecting(u).holds = u.holds
         /\ Rejecting(u).has2xx = u.has2xx
         /\ CancelHandled(u, h).u \in UaType /\ CancelHandled(u, h).h \in HistType
         /\ CancelHandled(u, h).u.state = u.state
         /\ CancelHandled(u, h).u.stopped = u.stopped
         /\ CancelHandled(u, h).u.holds = u.holds
         /\ CancelHandled(u, h).u.has2xx = u.has2xx
         /\ Disowned(h, r, left) \in HistType
         /\ Disowned(h, r, left).provs = h.provs
         /\ Disowned(h, r, TRUE) \in HistType
<1>1. /\ Rejecting(u) \in UaType /\ Rejecting(u).state = "Rejected"
      /\ Rejecting(u).stopped = u.stopped /\ Rejecting(u).holds = u.holds
      /\ Rejecting(u).has2xx = u.has2xx
  BY DEF Rejecting, UaType, UaState
<1> DEFINE cu == [u EXCEPT !.owner = FALSE, !.canceled = TRUE]
           ch == [h EXCEPT !.ended = IF u.owner THEN @ + 1 ELSE @]
<1>2. /\ cu \in UaType /\ cu.state = u.state /\ cu.stopped = u.stopped
      /\ cu.holds = u.holds /\ cu.has2xx = u.has2xx
  BY DEF UaType
<1>3. ch \in HistType
  BY DEF HistType
<1>4. CancelHandled(u, h).u = cu /\ CancelHandled(u, h).h = ch
  BY DEF CancelHandled
<1>5. [h EXCEPT !.disowned = @ \cup {r}] \in HistType
      /\ [h EXCEPT !.disowned = @ \cup {r}].provs = h.provs
  BY DEF HistType
<1>6. /\ Disowned(h, r, left) \in HistType /\ Disowned(h, r, left).provs = h.provs
      /\ Disowned(h, r, TRUE) \in HistType
  BY <1>5 DEF Disowned
<1> HIDE DEF cu, ch
<1>7. QED
  BY <1>1, <1>2, <1>3, <1>4, <1>6

(* A stopped timer, and a state in which an INVITE waits.                  *)
LEMMA ResolverFacts ==
  ASSUME NEW tm \in TimerType, NEW v \in {"off", "on", "stale"}
  PROVE  /\ [tm EXCEPT !["OwnerResolver"] = v] \in TimerType
         /\ [tm EXCEPT !["OwnerResolver"] = v]["Retransmit2xx"]
              = tm["Retransmit2xx"]
BY DEF TimerType, Timers, UaTimers

LEMMA CancelSafe == SafeInv /\ Cancel => SafeInv'
<1> SUFFICES ASSUME SafeInv, Cancel PROVE SafeInv'
  OBVIOUS
<1> USE DEF SafeInv
<1>1. /\ ~ua.stopped /\ "ua" \notin gone
      /\ UNCHANGED <<route, doomed, marked, gone>>
  BY DEF Cancel, DeletionInv
<1>2. ta \in TaType /\ ua \in UaType /\ timer \in TimerType /\ hist \in HistType
      /\ tx \in TxType /\ Reject \in Code /\ routing \in BOOLEAN
  BY Codes DEF TypeOK
<1>3. CASE ua.state \in {"GetTxOwner", "WaitRespFromApp"}
  <2>1. PICK s \in SendResponse(ta, Reject, timer) :
          /\ ta' = s.ta /\ tx' = s.tx
          /\ IF s.left
             THEN /\ ua' = Rejecting(ua) /\ timer' = s.tm
                  /\ hist' = Disowned(hist, Reject, TRUE)
                  /\ UNCHANGED routing
             ELSE /\ ua' = CancelHandled(Rejecting(ua), hist).u
                  /\ hist' = CancelHandled(Rejecting(ua), hist).h
                  /\ IF ua.owner
                     THEN timer' = s.tm /\ UNCHANGED routing
                     ELSE /\ timer' = [s.tm EXCEPT !["OwnerResolver"] = "off"]
                          /\ routing' = FALSE
    BY <1>3 DEF Cancel
  <2>2. s.tm \in TimerType /\ s.tm["Retransmit2xx"] = timer["Retransmit2xx"]
    BY <1>2, SendResponseFacts DEF UaTimers
  <2>3. /\ timer' \in TimerType
        /\ timer'["Retransmit2xx"] = timer["Retransmit2xx"]
        /\ routing' \in BOOLEAN
    BY <1>2, <2>1, <2>2, ResolverFacts
  <2>4. /\ ua' \in UaType /\ ua'.stopped = ua.stopped
        /\ ua'.holds = ua.holds /\ ua'.has2xx = ua.has2xx
        /\ hist' \in HistType
    <3>1. /\ Rejecting(ua) \in UaType /\ Rejecting(ua).stopped = ua.stopped
          /\ Rejecting(ua).holds = ua.holds /\ Rejecting(ua).has2xx = ua.has2xx
      BY <1>2, UpdateFacts
    <3>2. /\ CancelHandled(Rejecting(ua), hist).u \in UaType
          /\ CancelHandled(Rejecting(ua), hist).u.stopped = ua.stopped
          /\ CancelHandled(Rejecting(ua), hist).u.holds = ua.holds
          /\ CancelHandled(Rejecting(ua), hist).u.has2xx = ua.has2xx
          /\ CancelHandled(Rejecting(ua), hist).h \in HistType
          /\ Disowned(hist, Reject, TRUE) \in HistType
      BY <1>2, <3>1, UpdateFacts
    <3>3. QED
      BY <2>1, <3>1, <3>2
  <2>5. ~ua.has2xx
    BY <1>3 DEF RetransmitInv
  <2>6. route' \in {"ta", "ua", "none"} /\ Reject # Ok
    BY <1>1 DEF TypeOK, Reject, Ok
  <2>7. QED
    BY <1>1, <1>2, <1>3, <2>1, <2>3, <2>4, <2>5, <2>6, RespondSafe
<1>4. CASE /\ ua.state = "Accepted"
           /\ ua' = CancelHandled(ua, hist).u /\ hist' = CancelHandled(ua, hist).h
           /\ UNCHANGED <<ta, tx, timer, routing>>
  <2>1. /\ ua' \in UaType /\ hist' \in HistType /\ ua'.state = ua.state
        /\ ua'.stopped = ua.stopped
        /\ ua'.holds = ua.holds /\ ua'.has2xx = ua.has2xx
    BY <1>2, <1>4, UpdateFacts
  <2>2. TypeOK'
    BY <1>1, <1>4, <2>1 DEF TypeOK
  <2>3. TransmitterOwned' /\ RouteInv' /\ DeletionInv' /\ RetransmitInv'
    BY <1>1, <1>4, <2>1
    DEF TransmitterOwned, RouteInv, No2xx, DeletionInv, RetransmitInv
  <2>4. QED
    BY <2>2, <2>3
<1>5. QED
  BY <1>3, <1>4 DEF Cancel

-----------------------------------------------------------------------------
(* The router's answers keep the invariant.                                *)
LEMMA OwnerFoundSafe == SafeInv /\ OwnerFound => SafeInv'
<1> SUFFICES ASSUME SafeInv, OwnerFound PROVE SafeInv'
  OBVIOUS
<1> USE DEF SafeInv
<1>1. CASE ~ua.stopped /\ ua.state = "GetTxOwner"
  <2>1. /\ ua' \in UaType /\ ua'.stopped = ua.stopped
        /\ ua'.holds = ua.holds /\ ua'.has2xx = ua.has2xx
        /\ hist' \in HistType
    <3>1. /\ ua' = [ua EXCEPT !.state = "WaitRespFromApp", !.owner = TRUE]
          /\ hist' = [hist EXCEPT !.told = TRUE] \/ hist' = hist
      BY <1>1 DEF OwnerFound
    <3>2. ua \in UaType /\ hist \in HistType
      BY DEF TypeOK
    <3>3. hist' \in HistType
      BY <3>1, <3>2 DEF HistType
    <3>4. QED
      BY <3>1, <3>2, <3>3 DEF UaType, UaState
  <2>2. /\ timer' \in TimerType
        /\ timer'["Retransmit2xx"] = timer["Retransmit2xx"]
    BY <1>1, ResolverFacts DEF OwnerFound, TypeOK
  <2>3. /\ UNCHANGED <<ta, tx, route, doomed, marked, gone>>
        /\ routing' = FALSE
    BY DEF OwnerFound
  <2>4. TypeOK'
    BY <2>1, <2>2, <2>3 DEF TypeOK
  <2>5. TransmitterOwned' /\ RouteInv' /\ DeletionInv' /\ RetransmitInv'
    BY <1>1, <2>1, <2>2, <2>3
    DEF TransmitterOwned, RouteInv, No2xx, DeletionInv, RetransmitInv
  <2>6. QED
    BY <2>4, <2>5
<1>2. CASE ~(~ua.stopped /\ ua.state = "GetTxOwner")
  <2>1. routing' = FALSE
        /\ UNCHANGED <<ta, ua, timer, tx, route, doomed, marked, gone, hist>>
    BY <1>2 DEF OwnerFound
  <2>2. QED
    BY <2>1 DEF TypeOK, TransmitterOwned, RouteInv, No2xx, DeletionInv,
                RetransmitInv
<1>3. QED
  BY <1>1, <1>2

LEMMA OwnerNotFoundSafe == SafeInv /\ OwnerNotFound => SafeInv'
<1> SUFFICES ASSUME SafeInv, OwnerNotFound PROVE SafeInv'
  OBVIOUS
<1> USE DEF SafeInv
<1>1. /\ routing' = FALSE
      /\ UNCHANGED <<route, doomed, marked, gone>>
  BY DEF OwnerNotFound
<1>2. CASE ~ua.stopped /\ ua.state = "GetTxOwner"
  <2> DEFINE tm == [timer EXCEPT !["OwnerResolver"] = "off"]
  <2>1. PICK s \in SendResponse(ta, Reject, tm) :
          /\ ta' = s.ta /\ tx' = s.tx /\ timer' = s.tm
          /\ ua' = Rejecting(ua) /\ hist' = Disowned(hist, Reject, s.left)
    BY <1>2 DEF OwnerNotFound
  <2>2. ua \in UaType /\ timer \in TimerType /\ hist \in HistType
        /\ Reject \in Code /\ ta \in TaType
    BY Codes DEF TypeOK
  <2>3. tm \in TimerType /\ tm["Retransmit2xx"] = timer["Retransmit2xx"]
    BY <2>2, ResolverFacts
  <2> HIDE DEF tm
  <2>4. /\ s.tm \in TimerType /\ s.left \in BOOLEAN
        /\ s.tm["Retransmit2xx"] = tm["Retransmit2xx"]
    BY <2>2, <2>3, SendResponseFacts DEF UaTimers
  <2>5. /\ ua' \in UaType /\ ua'.stopped = ua.stopped
        /\ ua'.holds = ua.holds /\ ua'.has2xx = ua.has2xx
        /\ hist' \in HistType
    BY <2>1, <2>2, <2>4, UpdateFacts
  <2>6. ~ua.has2xx /\ route' \in {"ta", "ua", "none"} /\ Reject # Ok
    BY <1>1, <1>2 DEF RetransmitInv, TypeOK, Reject, Ok
  <2>7. QED
    BY <1>1, <1>2, <2>1, <2>2, <2>3, <2>4, <2>5, <2>6, RespondSafe
<1>3. CASE ~(~ua.stopped /\ ua.state = "GetTxOwner")
  <2>1. UNCHANGED <<ta, ua, timer, tx, hist>>
    BY <1>3 DEF OwnerNotFound
  <2>2. QED
    BY <1>1, <2>1 DEF TypeOK, TransmitterOwned, RouteInv, No2xx, DeletionInv,
                      RetransmitInv
<1>4. QED
  BY <1>2, <1>3

LEMMA RouterErrorSafe == SafeInv /\ RouterError => SafeInv'
<1> SUFFICES ASSUME SafeInv, RouterError PROVE SafeInv'
  OBVIOUS
<1> USE DEF SafeInv
<1> DEFINE tm == [timer EXCEPT !["OwnerResolver"] = "off"]
<1>1. routing' = FALSE /\ gone' = gone /\ "ua" \notin gone
  BY DEF RouterError, DeletionInv
<1>2. /\ ua \in UaType /\ timer \in TimerType /\ hist \in HistType
      /\ Reject \in Code /\ ta \in TaType /\ tx \in TxType
  BY Codes DEF TypeOK
<1>3. tm \in TimerType /\ tm["Retransmit2xx"] = timer["Retransmit2xx"]
  BY <1>2, ResolverFacts
<1> HIDE DEF tm
<1>4. CASE Stop(ua, doomed, hist) /\ timer' = tm /\ UNCHANGED <<ta, tx>>
  BY <1>1, <1>2, <1>3, <1>4, StopSafe DEF RetransmitInv, TransmitterOwned
<1>5. ASSUME ~ua.stopped, ua.state = "GetTxOwner",
             NEW s \in SendResponse(ta, Reject, tm),
             ta' = s.ta, tx' = s.tx, timer' = s.tm,
             IF s.left
             THEN Stop(Rejecting(ua), doomed, Disowned(hist, Reject, TRUE))
             ELSE /\ ua' = Rejecting(ua)
                  /\ UNCHANGED <<route, doomed, marked, hist>>
      PROVE  SafeInv'
  <2>1. /\ s.ta \in TaType /\ s.tx \in TxType /\ s.tm \in TimerType
        /\ s.ta.terminated = ta.terminated
        /\ s.tx = tx \/ (~ta.terminated /\ s.tx.to \in {"none", "ta"})
        /\ s.tm["Retransmit2xx"] = timer["Retransmit2xx"]
    BY <1>2, <1>3, SendResponseFacts DEF UaTimers
  <2>2. /\ Rejecting(ua) \in UaType /\ Rejecting(ua).state = "Rejected"
        /\ Rejecting(ua).stopped = ua.stopped /\ Rejecting(ua).holds = ua.holds
        /\ Rejecting(ua).has2xx = ua.has2xx /\ ~ua.has2xx
        /\ Disowned(hist, Reject, TRUE) \in HistType
    BY <1>2, <1>5, UpdateFacts DEF RetransmitInv
  <2>3. CASE s.left
    <3>1. Stop(Rejecting(ua), doomed, Disowned(hist, Reject, TRUE))
      BY <1>5, <2>3
    <3>2. QED
      BY <1>1, <1>5, <2>1, <2>2, <3>1, StopSafe DEF TransmitterOwned
  <2>4. CASE ~s.left
    <3>1. ua' = Rejecting(ua) /\ UNCHANGED <<route, doomed, marked, hist>>
      BY <1>5, <2>4
    <3>2. route' \in {"ta", "ua", "none"} /\ Reject # Ok
      BY <3>1 DEF TypeOK, Reject, Ok
    <3>3. QED
      BY <1>1, <1>2, <1>3, <1>5, <2>1, <2>2, <3>1, <3>2, RespondSafe
  <2>5. QED
    BY <2>3, <2>4
<1>6. QED
  BY <1>4, <1>5 DEF RouterError, tm

-----------------------------------------------------------------------------
(* The application's calls keep the invariant.                             *)
LEMMA AppProvisionalOrRejectsSafe ==
  SafeInv /\ (AppProvisional \/ AppRejects) => SafeInv'
<1> SUFFICES ASSUME SafeInv, AppProvisional \/ AppRejects PROVE SafeInv'
  OBVIOUS
<1> USE DEF SafeInv
<1>1. PICK r \in Code : AppResponds(r) /\ r # Ok /\ (r < 200 => hist.provs < MaxProv)
  <2>1. CASE AppProvisional
    <3>1. /\ hist.provs < MaxProv /\ hist.provs + 1 \in 1..MaxProv
          /\ hist.provs \in Nat
      BY <2>1, InviteServerAssumption DEF AppProvisional, TypeOK, HistType
    <3>2. 100 + (hist.provs + 1) \in Provisional
      BY <3>1, Codes
    <3>3. Trying + hist.provs + 1 = 100 + (hist.provs + 1)
      BY <3>1 DEF Trying
    <3>4. QED
      BY <2>1, <3>1, <3>2, <3>3, Codes DEF AppProvisional, Ok
  <2>2. CASE AppRejects
    BY <2>2, Codes DEF AppRejects, Reject, Ok
  <2>3. QED
    BY <2>1, <2>2
<1> DEFINE u == IF r >= 300 THEN Rejecting(ua) ELSE ua
<1>2. PICK s \in SendResponse(ta, r, timer) :
        /\ ta' = s.ta /\ tx' = s.tx /\ timer' = s.tm /\ ua' = u
        /\ hist' = [Disowned(hist, r, s.left) EXCEPT
                      !.provs = IF r < 200 THEN @ + 1 ELSE @]
  BY <1>1 DEF AppResponds
<1>3. /\ ~ua.stopped /\ ua.state = "WaitRespFromApp" /\ ~ua.has2xx
      /\ UNCHANGED <<route, routing, doomed, marked, gone>>
  BY <1>1 DEF AppResponds, RetransmitInv
<1>4. ta \in TaType /\ ua \in UaType /\ timer \in TimerType /\ hist \in HistType
      /\ routing' \in BOOLEAN /\ route' \in {"ta", "ua", "none"}
  BY <1>3 DEF TypeOK
<1>5. /\ s.tm \in TimerType /\ s.left \in BOOLEAN
      /\ s.tm["Retransmit2xx"] = timer["Retransmit2xx"]
  BY <1>4, SendResponseFacts DEF UaTimers
<1>6. /\ ua' \in UaType /\ ua'.stopped = ua.stopped
      /\ ua'.holds = ua.holds /\ ua'.has2xx = ua.has2xx
  BY <1>2, <1>4, UpdateFacts
<1>7. hist' \in HistType
  <2>1. /\ Disowned(hist, r, s.left) \in HistType
        /\ Disowned(hist, r, s.left).provs = hist.provs
    BY <1>4 DEF Disowned, HistType
  <2>2. r < 200 => hist.provs + 1 \in 0..MaxProv
    BY <1>1, <1>4, InviteServerAssumption DEF HistType
  <2>3. hist'.provs \in 0..MaxProv
    BY <1>2, <1>4, <2>1, <2>2 DEF HistType
  <2>4. QED
    BY <1>2, <2>1, <2>3 DEF HistType
<1> HIDE DEF u
<1>8. QED
  BY <1>1, <1>2, <1>3, <1>4, <1>5, <1>6, <1>7, RespondSafe

LEMMA AppAcceptsSafe == SafeInv /\ AppAccepts => SafeInv'
<1> SUFFICES ASSUME SafeInv, AppAccepts PROVE SafeInv'
  OBVIOUS
<1> USE DEF SafeInv
<1> DEFINE u == [ua EXCEPT !.state = "Accepted"]
           tm == [timer EXCEPT !["WaitAck"] = "on"]
<1>1. /\ ~ua.stopped /\ ua.state = "WaitRespFromApp" /\ ~ua.has2xx
      /\ UNCHANGED <<routing, doomed, marked, gone>>
      /\ route' = ClearTransaction(route)
  BY DEF AppAccepts, RetransmitInv
<1>2. ta \in TaType /\ ua \in UaType /\ timer \in TimerType /\ hist \in HistType
      /\ routing' \in BOOLEAN /\ Ok \in Code
  BY <1>1, Codes DEF TypeOK
<1>3. route' \in {"ua", "none"}
  BY <1>1 DEF ClearTransaction, TypeOK
<1>4. tm \in TimerType /\ tm["Retransmit2xx"] = timer["Retransmit2xx"]
  BY <1>2 DEF TimerType, Timers, UaTimers
<1>5. /\ u \in UaType /\ u.state = "Accepted" /\ u.stopped = ua.stopped
      /\ u.holds = ua.holds /\ u.has2xx = ua.has2xx
  BY <1>2 DEF UaType, UaState
<1>6. \A b \in BOOLEAN :
        /\ [u EXCEPT !.has2xx = b] \in UaType
        /\ [u EXCEPT !.has2xx = b].state = "Accepted"
        /\ [u EXCEPT !.has2xx = b].stopped = ua.stopped
        /\ [u EXCEPT !.has2xx = b].holds = ua.holds
  BY <1>5 DEF UaType
<1> HIDE DEF u, tm
<1>7. ASSUME NEW s \in SendResponse(ta, Ok, tm),
             ta' = s.ta, tx' = s.tx, timer' = s.tm,
             ua' = [u EXCEPT !.has2xx = ~s.left],
             hist' = Disowned(hist, Ok, s.left)
      PROVE  SafeInv'
  <2>1. /\ s.tm \in TimerType /\ s.left \in BOOLEAN
        /\ s.tm["Retransmit2xx"] = tm["Retransmit2xx"]
    BY <1>2, <1>4, SendResponseFacts DEF UaTimers
  <2>2. hist' \in HistType
    BY <1>2, <1>7, <2>1, UpdateFacts
  <2>3. /\ ua' \in UaType /\ ua'.state = "Accepted" /\ ua'.stopped = ua.stopped
        /\ ua'.holds = ua.holds
    BY <1>6, <1>7, <2>1
  <2>4. QED
    BY <1>1, <1>2, <1>3, <1>4, <1>7, <2>1, <2>2, <2>3, RespondSafe
<1>8. CASE ua' = u /\ hist' = Disowned(hist, Ok, TRUE) /\ UNCHANGED <<ta, tx, timer>>
  <2>1. hist' \in HistType
    BY <1>2, <1>8, UpdateFacts
  <2>2. TypeOK'
    BY <1>1, <1>3, <1>5, <1>8, <2>1 DEF TypeOK
  <2>3. TransmitterOwned' /\ RouteInv' /\ DeletionInv' /\ RetransmitInv'
    BY <1>1, <1>3, <1>5, <1>8
    DEF TransmitterOwned, RouteInv, DeletionInv, RetransmitInv
  <2>4. QED
    BY <2>2, <2>3
<1>9. QED
  BY <1>7, <1>8 DEF AppAccepts, u, tm

LEMMA ClearTransactionOwnerSafe == SafeInv /\ ClearTransactionOwner => SafeInv'
<1> SUFFICES ASSUME SafeInv, ClearTransactionOwner PROVE SafeInv'
  OBVIOUS
<1> USE DEF SafeInv
<1> DEFINE u == [ua EXCEPT !.owner = FALSE]
           h == [hist EXCEPT !.cleared = TRUE]
<1>1. /\ ~ua.stopped /\ UNCHANGED <<ta, tx, timer, routing, gone>>
      /\ "ua" \notin gone
  BY DEF ClearTransactionOwner, DeletionInv
<1>2. /\ u \in UaType /\ u.state = ua.state /\ u.stopped = ua.stopped
      /\ u.holds = ua.holds /\ u.has2xx = ua.has2xx
  BY DEF TypeOK, UaType
<1>3. h \in HistType
  BY DEF TypeOK, HistType
<1> HIDE DEF u, h
<1>4. CASE Stop(u, doomed, h)
  BY <1>1, <1>2, <1>3, <1>4, StopSafe
  DEF TypeOK, RetransmitInv, TransmitterOwned
<1>5. CASE ua' = u /\ hist' = h /\ UNCHANGED <<route, doomed, marked>>
  <2>1. TypeOK'
    BY <1>1, <1>2, <1>3, <1>5 DEF TypeOK
  <2>2. TransmitterOwned' /\ RouteInv' /\ DeletionInv' /\ RetransmitInv'
    BY <1>1, <1>2, <1>5
    DEF TransmitterOwned, RouteInv, No2xx, DeletionInv, RetransmitInv
  <2>3. QED
    BY <2>1, <2>2
<1>6. QED
  BY <1>4, <1>5 DEF ClearTransactionOwner, u, h

-----------------------------------------------------------------------------
(* Completed and failed sends keep the invariant.                          *)
LEMMA OnWireFacts ==
  ASSUME TypeOK, NEW done \in BOOLEAN
  PROVE  OnWire(hist, done) \in HistType /\ OnWire(hist, TRUE) \in HistType
<1>1. hist \in HistType /\ tx.msg \in CodeOrNone
  BY DEF TypeOK, TxType
<1>2. [hist EXCEPT !.wire = tx.msg] \in HistType
  BY <1>1 DEF HistType
<1>3. QED
  BY <1>1, <1>2 DEF OnWire

LEMMA TaSendDoneSafe == SafeInv /\ TaSendDone => SafeInv'
<1> SUFFICES ASSUME SafeInv, TaSendDone PROVE SafeInv'
  OBVIOUS
<1> USE DEF SafeInv
<1>1. /\ tx.to = "ta" /\ ~ta.terminated /\ "ua" \notin gone
      /\ UNCHANGED <<routing, gone>>
  BY DEF TaSendDone, TransmitterOwned, DeletionInv
<1>2. /\ ta \in TaType /\ ua \in UaType /\ timer \in TimerType /\ tx \in TxType
      /\ routing' \in BOOLEAN
      /\ OnWire(hist, TRUE) \in HistType /\ OnWire(hist, FALSE) \in HistType
  BY <1>1, OnWireFacts DEF TypeOK
<1>3. IdleTx \in TxType /\ IdleTx.to = "none"
  BY Codes DEF IdleTx, TxType
<1>4. ASSUME NEW t \in TaType, NEW tm \in TimerType, NEW x \in TxType,
             x.to # "ua", NEW h \in HistType, EndByLeave(t, ua, tm, x, h)
      PROVE  SafeInv'
  <2>1. /\ Ending /\ ua'.state = ua.state /\ ua'.has2xx = ua.has2xx
        /\ (tx' = IdleTx \/ tx' = x)
    BY <1>2, <1>4, EndByLeaveFacts
  <2>2. QED
    BY <1>1, <1>2, <1>3, <1>4, <2>1, EndingSafe DEF RetransmitInv
<1>5. ASSUME tx' = IdleTx, hist' \in HistType, timer' \in TimerType,
             timer'["Retransmit2xx"] = timer["Retransmit2xx"],
             UNCHANGED <<ta, ua, route, doomed, marked>>
      PROVE  SafeInv'
  <2>1. TypeOK'
    BY <1>1, <1>3, <1>5 DEF TypeOK
  <2>2. TransmitterOwned' /\ RouteInv' /\ DeletionInv' /\ RetransmitInv'
    BY <1>1, <1>3, <1>5
    DEF TransmitterOwned, RouteInv, No2xx, DeletionInv, RetransmitInv
  <2>3. QED
    BY <2>1, <2>2
<1>6. CASE SentInProceeding
  <2>1. CASE ta.queue = << >>
    BY <1>2, <1>5, <1>6, <2>1 DEF SentInProceeding
  <2>2. CASE ta.queue # << >>
    <3> DEFINE t == [ta EXCEPT !.queue = Tail(@)]
               r == Head(ta.queue)
    <3>1. /\ ta.queue \in Seq(Code) /\ r \in Code
          /\ Tail(ta.queue) \in Seq(Code)
          /\ Len(ta.queue) \in Nat /\ Len(ta.queue) > 0 /\ r = ta.queue[1]
          /\ Len(Tail(ta.queue)) = Len(ta.queue) - 1
          /\ \A i \in 1..Len(Tail(ta.queue)) : Tail(ta.queue)[i] = ta.queue[i + 1]
      BY <1>2, <2>2 DEF TaType
    <3>2. /\ t \in TaType /\ t.queue = Tail(ta.queue)
          /\ t.terminated = ta.terminated /\ t.passed = ta.passed
      BY <1>2, <3>1 DEF TaType
    <3>3. No2xx(ta) => r # Ok /\ \A i \in 1..Len(t.queue) : t.queue[i] # Ok
      <4> SUFFICES ASSUME No2xx(ta)
                   PROVE  r # Ok /\ \A i \in 1..Len(t.queue) : t.queue[i] # Ok
        OBVIOUS
      <4>1. \A i \in 1..Len(ta.queue) : ta.queue[i] # Ok
        BY DEF No2xx
      <4>2. 1 \in 1..Len(ta.queue)
            /\ \A i \in 1..Len(Tail(ta.queue)) : i + 1 \in 1..Len(ta.queue)
        BY <3>1
      <4> HIDE DEF t, r
      <4>3. QED
        BY <3>1, <3>2, <4>1, <4>2
    <3> HIDE DEF t, r
    <3>4. PICK s \in SendAndStore(t, r, timer) :
            IF s.left
            THEN EndByLeave(s.ta, ua, s.tm, s.tx, OnWire(hist, TRUE))
            ELSE /\ ta' = s.ta /\ tx' = s.tx /\ timer' = s.tm
                 /\ hist' = OnWire(hist, TRUE)
                 /\ UNCHANGED <<ua, route, doomed, marked>>
      BY <1>6, <2>2 DEF SentInProceeding, t, r
    <3>5. /\ s.ta \in TaType /\ s.tx \in TxType /\ s.tm \in TimerType
          /\ s.ta.terminated = t.terminated /\ s.ta.passed = t.passed
          /\ s.ta.queue = t.queue /\ s.ta.state = StateAfter(r)
          /\ s.tx.to \in {"none", "ta"}
          /\ s.tm["Retransmit2xx"] = timer["Retransmit2xx"]
      BY <1>2, <3>1, <3>2, SendAndStoreFacts DEF UaTimers, r
    <3>6. CASE s.left
      BY <1>2, <1>4, <3>4, <3>5, <3>6
    <3>7. CASE ~s.left
      <4>1. /\ ta' = s.ta /\ tx' = s.tx /\ timer' = s.tm
            /\ hist' = OnWire(hist, TRUE)
            /\ UNCHANGED <<ua, route, doomed, marked>>
        BY <3>4, <3>7
      <4>2. No2xx(ta) => No2xx(ta')
        BY <3>1, <3>3, <3>5, <4>1, Codes DEF No2xx, r
      <4>3. TypeOK'
        BY <1>1, <1>2, <3>5, <4>1 DEF TypeOK
      <4>4. TransmitterOwned' /\ RouteInv' /\ DeletionInv' /\ RetransmitInv'
        BY <1>1, <3>2, <3>5, <4>1, <4>2
        DEF TransmitterOwned, RouteInv, DeletionInv, RetransmitInv
      <4>5. QED
        BY <4>3, <4>4
    <3>8. QED
      BY <3>6, <3>7
  <2>3. QED
    BY <2>1, <2>2
<1>7. CASE SentInCompleted
  <2>1. /\ [timer EXCEPT !["G"] = "on"] \in TimerType
        /\ [timer EXCEPT !["G"] = "on"]["Retransmit2xx"] = timer["Retransmit2xx"]
    BY <1>2 DEF TimerType, Timers, UaTimers
  <2>2. QED
    BY <1>2, <1>3, <1>4, <1>5, <1>7, <2>1 DEF SentInCompleted
<1>8. ASSUME NEW done \in BOOLEAN, SendEndsTa(done)
      PROVE  SafeInv'
  <2>1. EndTa(ta, timer, IdleTx, OnWire(hist, done)) /\ OnWire(hist, done) \in HistType
    BY <1>8, OnWireFacts DEF SendEndsTa
  <2>2. /\ Ending /\ ua'.state = ua.state /\ ua'.has2xx = ua.has2xx
        /\ tx' = IdleTx
    BY <1>1, <1>2, <1>3, <2>1, EndTaFacts
  <2>3. QED
    BY <1>1, <1>2, <1>3, <2>2, EndingSafe DEF RetransmitInv
<1>9. ASSUME NEW done \in BOOLEAN, SendInConfirmed(done)
      PROVE  SafeInv'
  BY <1>2, <1>5, <1>9, OnWireFacts DEF SendInConfirmed
<1>10. QED
  BY <1>6, <1>7, <1>8, <1>9 DEF TaSendDone

LEMMA UaSendDoneSafe == SafeInv /\ UaSendDone => SafeInv'
<1> SUFFICES ASSUME SafeInv, UaSendDone PROVE SafeInv'
  OBVIOUS
<1> USE DEF SafeInv
<1>1. /\ tx.to = "ua" /\ ta.terminated /\ "ua" \notin gone
      /\ tx' = IdleTx /\ UNCHANGED <<ta, routing, gone>>
  BY DEF UaSendDone, TransmitterOwned
<1>2. IdleTx \in TxType /\ IdleTx.to = "none"
  BY Codes DEF IdleTx, TxType
<1>3. /\ timer \in TimerType /\ [timer EXCEPT !["Retransmit2xx"] = "on"] \in TimerType
      /\ OnWire(hist, TRUE) \in HistType
  BY OnWireFacts DEF TypeOK, TimerType
<1>4. ASSUME timer' \in TimerType, hist' \in HistType,
             UNCHANGED <<ua, route, doomed, marked>>
      PROVE  SafeInv'
  <2>1. TypeOK'
    BY <1>1, <1>2, <1>4 DEF TypeOK
  <2>2. TransmitterOwned' /\ RouteInv' /\ DeletionInv' /\ RetransmitInv'
    BY <1>1, <1>2, <1>4
    DEF TransmitterOwned, RouteInv, No2xx, DeletionInv, RetransmitInv
  <2>3. QED
    BY <2>1, <2>2
<1>5. ASSUME NEW done \in BOOLEAN, Stop(ua, doomed, OnWire(hist, done)),
             UNCHANGED timer
      PROVE  SafeInv'
  <2>1. OnWire(hist, done) \in HistType
    BY OnWireFacts
  <2>2. QED
    BY <1>1, <1>2, <1>5, <2>1, StopSafe DEF TypeOK, RetransmitInv
<1>6. QED
  BY <1>3, <1>4, <1>5 DEF UaSendDone

-----------------------------------------------------------------------------
(* Expiring timers keep the invariant.                                     *)
LEMMA ExpiresFacts ==
  ASSUME TypeOK, NEW t \in Timers, NEW v \in {"off", "stale"}, Expires(t, v)
  PROVE  /\ timer' \in TimerType /\ timer[t] = "on"
         /\ timer["Retransmit2xx"] = "off" => timer'["Retransmit2xx"] = "off"
BY DEF TypeOK, Expires, TimerType, Timers, UaTimers

(* A step that only uses up a timer, and perhaps sends, changes nothing    *)
(* the invariant speaks of but the transmitter.                            *)
LEMMA ExpirySafe ==
  ASSUME SafeInv, NEW t \in Timers, NEW v \in {"off", "stale"}, Expires(t, v),
         UNCHANGED <<ta, ua, route, routing, doomed, marked, gone, hist>>,
         tx' \in TxType, \/ tx' = tx
                         \/ tx'.to = "ta" /\ ~ta.terminated
                         \/ /\ tx'.to = "ua" /\ t \in UaTimers
                            /\ ta.terminated /\ ua.has2xx
  PROVE  SafeInv'
<1> USE DEF SafeInv
<1>1. /\ timer' \in TimerType /\ timer[t] = "on"
      /\ timer["Retransmit2xx"] = "off" => timer'["Retransmit2xx"] = "off"
  BY ExpiresFacts
<1>2. "ua" \in gone => t \in TaTimers /\ ta.terminated
  BY <1>1 DEF DeletionInv, Timers
<1>3. TypeOK'
  BY <1>1 DEF TypeOK
<1>4. timer' = [timer EXCEPT ![t] = v] /\ timer \in TimerType
  BY DEF Expires, TypeOK
<1>5. TransmitterOwned' /\ RouteInv' /\ RetransmitInv'
  BY <1>1, <1>2 DEF TransmitterOwned, RouteInv, No2xx, DeletionInv, RetransmitInv
<1>6. DeletionInv'
  BY <1>2, <1>4
  DEF DeletionInv, TimerType, Timers, TaTimers, UaTimers, TransmitterOwned
<1>7. QED
  BY <1>3, <1>5, <1>6

LEMMA TimerOwnerResolverSafe == SafeInv /\ TimerOwnerResolver => SafeInv'
<1> SUFFICES ASSUME SafeInv, TimerOwnerResolver PROVE SafeInv'
  OBVIOUS
<1> USE DEF SafeInv
<1>1. /\ ~ua.stopped /\ timer["OwnerResolver"] = "on"
      /\ UNCHANGED <<route, doomed, marked, gone>>
  BY DEF TimerOwnerResolver
<1>2. ta \in TaType /\ ua \in UaType /\ timer \in TimerType /\ hist \in HistType
      /\ Reject \in Code /\ tx \in TxType
  BY Codes DEF TypeOK
<1>3. CASE ua.state = "GetTxOwner"
  <2>1. PICK s \in SendResponse(ta, Reject, timer) :
          /\ ta' = s.ta /\ tx' = s.tx
          /\ ua' = Rejecting(ua) /\ routing' = FALSE
          /\ hist' = Disowned(hist, Reject, s.left)
          /\ timer' = [s.tm EXCEPT !["OwnerResolver"] =
                         IF s.left THEN "stale" ELSE "off"]
    BY <1>3 DEF TimerOwnerResolver
  <2>2. /\ s.tm \in TimerType /\ s.left \in BOOLEAN
        /\ s.tm["Retransmit2xx"] = timer["Retransmit2xx"]
    BY <1>2, SendResponseFacts DEF UaTimers
  <2>3. /\ ua' \in UaType /\ ua'.stopped = ua.stopped
        /\ ua'.holds = ua.holds /\ ua'.has2xx = ua.has2xx
    BY <1>2, <2>1, UpdateFacts
  <2>4. hist' \in HistType
    BY <1>2, <2>1 DEF Disowned, HistType
  <2>5. /\ timer' \in TimerType
        /\ timer'["Retransmit2xx"] = timer["Retransmit2xx"]
    BY <2>1, <2>2, ResolverFacts
  <2>6. ~ua.has2xx /\ route' \in {"ta", "ua", "none"} /\ Reject # Ok
    BY <1>1, <1>3 DEF RetransmitInv, TypeOK, Reject, Ok
  <2>7. QED
    BY <1>1, <1>2, <1>3, <2>1, <2>3, <2>4, <2>5, <2>6, RespondSafe
<1>4. CASE ua.state # "GetTxOwner"
  <2>1. /\ Expires("OwnerResolver", "stale")
        /\ UNCHANGED <<ta, ua, tx, route, routing, doomed, marked, gone, hist>>
    BY <1>1, <1>4 DEF TimerOwnerResolver, Expires
  <2>2. QED
    BY <1>2, <2>1, ExpirySafe DEF Timers, UaTimers
<1>5. QED
  BY <1>3, <1>4

LEMMA TimerStepSafe == SafeInv /\ TimerStep => SafeInv'
<1> SUFFICES ASSUME SafeInv, TimerStep PROVE SafeInv'
  OBVIOUS
<1> USE DEF SafeInv
<1>1. /\ ta \in TaType /\ ua \in UaType /\ timer \in TimerType /\ tx \in TxType
      /\ hist \in HistType /\ routing \in BOOLEAN
  BY DEF TypeOK
<1>2. {"G", "H", "I", "OwnerResolver", "Retransmit2xx", "WaitAck"} \subseteq Timers
  BY DEF Timers, TaTimers, UaTimers
<1>3. ASSUME NEW t \in Timers, TimerIgnored(t) PROVE SafeInv'
  <2>1. /\ Expires(t, "stale")
        /\ UNCHANGED <<ta, ua, tx, route, routing, doomed, marked, gone, hist>>
    BY <1>3 DEF TimerIgnored
  <2>2. QED
    BY <1>1, <2>1, ExpirySafe
<1>4. CASE TimerG
  <2>1. [to |-> "ta", msg |-> ta.msg] \in TxType
    BY <1>1 DEF TaType, TxType
  <2>2. PICK v \in {"off", "stale"} : Expires("G", v)
    BY <1>4 DEF TimerG
  <2>3. /\ UNCHANGED <<ta, ua, route, routing, doomed, marked, gone, hist>>
        /\ ~ta.terminated /\ (tx' = tx \/ tx' = [to |-> "ta", msg |-> ta.msg])
    BY <1>4 DEF TimerG
  <2>4. QED
    BY <1>1, <1>2, <2>1, <2>2, <2>3, ExpirySafe
<1>5. ASSUME NEW t \in {"H", "I"}, TimerEndsTa(t) PROVE SafeInv'
  <2>1. /\ ~ta.terminated /\ timer[t] = "on" /\ UNCHANGED <<routing, gone>>
        /\ EndTa(ta, [timer EXCEPT ![t] = "off"], tx, hist)
    BY <1>5 DEF TimerEndsTa
  <2>2. [timer EXCEPT ![t] = "off"] \in TimerType
    BY <1>1 DEF TimerType
  <2>3. /\ Ending /\ ua'.state = ua.state /\ ua'.has2xx = ua.has2xx
        /\ (tx' = IdleTx \/ tx' = tx)
    BY <1>1, <2>1, <2>2, EndTaFacts
  <2>4. "ua" \notin gone
    BY <1>5, <2>1 DEF DeletionInv, TaTimers
  <2>5. QED
    BY <1>1, <2>1, <2>3, <2>4, EndingSafe DEF IdleTx, RetransmitInv
<1>6. CASE TimerOwnerResolver
  BY <1>6, TimerOwnerResolverSafe
<1>7. CASE TimerRetransmit2xx
  <2>1. [to |-> "ua", msg |-> Ok] \in TxType
    BY Codes DEF TxType
  <2>2. /\ UNCHANGED <<ta, ua, route, routing, doomed, marked, gone, hist>>
        /\ \/ tx' = tx
           \/ tx' = [to |-> "ua", msg |-> Ok] /\ ua.has2xx
    BY <1>7 DEF TimerRetransmit2xx
  <2>3. PICK v \in {"off", "stale"} : Expires("Retransmit2xx", v)
    BY <1>7 DEF TimerRetransmit2xx
  <2>4. timer["Retransmit2xx"] = "on" /\ ta.terminated
    BY <2>3 DEF Expires, RetransmitInv
  <2>5. QED
    BY <1>1, <1>2, <2>1, <2>2, <2>3, <2>4, ExpirySafe DEF UaTimers
<1>8. CASE TimerWaitAck
  <2>1. /\ Expires("WaitAck", "off") /\ Stop(ua, doomed, hist)
        /\ UNCHANGED <<ta, tx, routing, gone>>
    BY <1>8 DEF TimerWaitAck
  <2>2. timer' \in TimerType /\ timer["WaitAck"] = "on"
        /\ timer'["Retransmit2xx"] = timer["Retransmit2xx"]
    BY <1>1, <2>1 DEF Expires, TimerType, Timers, UaTimers
  <2>3. "ua" \notin gone
    BY <2>2 DEF DeletionInv, UaTimers
  <2>4. QED
    BY <1>1, <2>1, <2>2, <2>3, StopSafe DEF RetransmitInv, TransmitterOwned
<1>9. QED
  BY <1>3, <1>4, <1>5, <1>6, <1>7, <1>8 DEF TimerStep

-----------------------------------------------------------------------------
(* Deletion keeps the invariant.                                           *)
LEMMA DestroySafe ==
  ASSUME SafeInv, NEW objs \in SUBSET Object, Destroy(objs),
         "ta" \in objs => ta.terminated /\ ~ua.holds,
         "ua" \in objs => ua.stopped,
         doomed' \in SUBSET doomed, marked' \in BOOLEAN, marked' => marked,
         UNCHANGED <<ta, ua, route>>
  PROVE  SafeInv'
<1> USE DEF SafeInv
<1>1. /\ gone' \in {gone \cup objs, gone \cup objs \cup {"ta"}}
      /\ "ua" \notin objs => gone' = gone \cup objs
      /\ timer' = [t \in Timers |->
                     IF \/ ("ta" \notin gone /\ ("ta" \in objs \/ ("ua" \in objs /\ ua.holds)))
                           /\ t \in TaTimers
                        \/ "ua" \in objs /\ t \in UaTimers
                     THEN "off" ELSE timer[t]]
      /\ IF "ua" \in objs
         THEN tx' = IdleTx /\ routing' = FALSE
         ELSE UNCHANGED <<tx, routing>>
  BY DEF Destroy
<1>2. hist' \in HistType
  <2>1. PICK n \in Nat : hist' = [hist EXCEPT !.freed2xx = @ + n]
    BY DEF Destroy
  <2>2. QED
    BY <2>1 DEF TypeOK, HistType
<1>3. /\ timer' \in TimerType
      /\ timer["Retransmit2xx"] = "off" => timer'["Retransmit2xx"] = "off"
  BY <1>1 DEF TypeOK, TimerType, Timers, UaTimers
<1>4. IdleTx \in TxType /\ IdleTx.to = "none"
  BY Codes DEF IdleTx, TxType
<1>5. TypeOK'
  BY <1>1, <1>2, <1>3, <1>4 DEF TypeOK, Object
<1>6. TransmitterOwned' /\ RouteInv' /\ RetransmitInv'
  BY <1>1, <1>3, <1>4 DEF TransmitterOwned, RouteInv, No2xx, RetransmitInv
<1>7. DeletionInv'
  <2>1. CASE "ua" \in objs
    BY <1>1, <1>4, <2>1 DEF DeletionInv, TypeOK, TimerType, Timers, Object
  <2>2. CASE "ua" \notin objs
    <3>1. gone' = gone \cup objs /\ UNCHANGED <<tx, routing>>
      BY <1>1, <2>2
    <3>2. \A t \in Timers : timer[t] = "off" => timer'[t] = "off"
      BY <1>1
    <3>3. QED
      BY <2>2, <3>1, <3>2 DEF DeletionInv, Timers
  <2>3. QED
    BY <2>1, <2>2
<1>8. QED
  BY <1>5, <1>6, <1>7

LEMMA DeletionSafe == SafeInv /\ (DeleteMgrRuns \/ StoreFreesMarked) => SafeInv'
<1> SUFFICES ASSUME SafeInv, DeleteMgrRuns \/ StoreFreesMarked PROVE SafeInv'
  OBVIOUS
<1> USE DEF SafeInv
<1>1. CASE DeleteMgrRuns
  <2>1. /\ Destroy(doomed) /\ doomed' = {}
        /\ UNCHANGED <<ta, ua, route, marked>>
        /\ doomed \in SUBSET Object /\ marked \in BOOLEAN
    BY <1>1 DEF DeleteMgrRuns, TypeOK
  <2>2. QED
    BY <2>1, DestroySafe DEF DeletionInv
<1>2. CASE StoreFreesMarked
  <2>1. /\ Destroy({"ua"}) /\ marked' = FALSE /\ marked
        /\ UNCHANGED <<ta, ua, route, doomed>> /\ {"ua"} \in SUBSET Object
    BY <1>2 DEF StoreFreesMarked, Object
  <2>2. ua.stopped
    BY <2>1 DEF DeletionInv
  <2>3. QED
    BY <2>1, <2>2, DestroySafe
<1>3. QED
  BY <1>1, <1>2

-----------------------------------------------------------------------------
LEMMA InitSafe == Init => SafeInv
<1> SUFFICES ASSUME Init PROVE SafeInv
  OBVIOUS
<1>1. NoMsg \in CodeOrNone /\ << >> \in Seq(Code) /\ 0 \in 0..MaxProv
  BY Codes, InviteServerAssumption
<1>2. TypeOK
  BY <1>1 DEF Init, TypeOK, TaType, UaType, TaState, UaState, TimerType, TxType,
              IdleTx, HistType
<1>3. TransmitterOwned /\ RouteInv /\ DeletionInv /\ RetransmitInv
  BY DEF Init, TransmitterOwned, RouteInv, No2xx, DeletionInv, RetransmitInv,
         IdleTx, Timers, UaTimers
<1>4. QED
  BY <1>2, <1>3 DEF SafeInv

LEMMA NextSafe == SafeInv /\ [Next]_vars => SafeInv'
<1> SUFFICES ASSUME SafeInv, [Next]_vars PROVE SafeInv'
  OBVIOUS
<1>1. CASE FirstInvite              BY <1>1, FirstInviteSafe
<1>2. CASE InviteAgain              BY <1>2, InviteAgainSafe
<1>3. CASE AckToTa                  BY <1>3, AckToTaSafe
<1>4. CASE AckToUa                  BY <1>4, AckToUaSafe
<1>5. CASE Cancel                   BY <1>5, CancelSafe
<1>6. CASE OwnerFound               BY <1>6, OwnerFoundSafe
<1>7. CASE OwnerNotFound            BY <1>7, OwnerNotFoundSafe
<1>8. CASE RouterError              BY <1>8, RouterErrorSafe
<1>9. CASE AppProvisional \/ AppRejects
  BY <1>9, AppProvisionalOrRejectsSafe
<1>10. CASE AppAccepts              BY <1>10, AppAcceptsSafe
<1>11. CASE ClearTransactionOwner   BY <1>11, ClearTransactionOwnerSafe
<1>12. CASE TaSendDone              BY <1>12, TaSendDoneSafe
<1>13. CASE UaSendDone              BY <1>13, UaSendDoneSafe
<1>14. CASE TimerStep               BY <1>14, TimerStepSafe
<1>15. CASE DeleteMgrRuns \/ StoreFreesMarked
  BY <1>15, DeletionSafe
<1>16. CASE UNCHANGED vars
  BY <1>16 DEF vars, SafeInv, TypeOK, TransmitterOwned, RouteInv, No2xx,
               DeletionInv, RetransmitInv
<1>17. QED
  BY <1>1, <1>2, <1>3, <1>4, <1>5, <1>6, <1>7, <1>8, <1>9, <1>10, <1>11, <1>12,
     <1>13, <1>14, <1>15, <1>16 DEF Next, Environment

(* The inductive invariant holds in every behaviour.                       *)
THEOREM Safe == Spec => []SafeInv
<1>1. QED
  BY InitSafe, NextSafe, PTL DEF Spec

(* Every variable keeps its type, whatever leaves.                         *)
THEOREM TypeCorrect == Spec => []TypeOK
<1>1. SafeInv => TypeOK
  BY DEF SafeInv
<1>2. QED
  BY <1>1, Safe, PTL

(* The transmitter never works for, or calls back, a transaction that has  *)
(* terminated or an object that has been deleted, and never sends for both *)
(* objects: CTransmitter's iObserver and ConnectionMgr's buffer stay valid.*)
THEOREM TransmitterIsOwned == Spec => []TransmitterOwned
<1>1. SafeInv => TransmitterOwned
  BY DEF SafeInv
<1>2. QED
  BY <1>1, Safe, PTL

(* While a 2xx is sent the store gives no request to the transaction,      *)
(* whose Sending2xx state has no handler for one.                          *)
THEOREM Sending2xxGetsNoRequest == Spec => []NoRequestToSending2xx
<1>1. SafeInv => NoRequestToSending2xx
  BY DEF SafeInv, RouteInv, No2xx, NoRequestToSending2xx
<1>2. QED
  BY <1>1, Safe, PTL
=============================================================================
