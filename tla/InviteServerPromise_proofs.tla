-------------------- MODULE InviteServerPromise_proofs ----------------------
(***************************************************************************)
(* The theorems about the program without leaves, for either transport and *)
(* every number of provisional responses: error responses are repeated     *)
(* (with leaves timer G or H may fail to start), and the server side of an *)
(* INVITE implements what it promises to the peer (InviteServerPromise).   *)
(* They build on SafeInv and on the order of the responses.                *)
(***************************************************************************)
EXTENDS InviteServerHistory_proofs, InviteServerRefinement

-----------------------------------------------------------------------------
(* The repetition of error responses.                                      *)

NoLeaves == Faults = {}

(* No error response has been given to the transaction.                    *)
NoReject(t) ==
  /\ t.state \notin {"Completed", "Confirmed"}
  /\ \A i \in DOMAIN t.queue : t.queue[i] # Reject

(* The router is asked only by a user agent that has no owner yet.         *)
Asking(u, asked) ==
  /\ asked => u.stopped \/ u.state = "GetTxOwner"
  /\ u.state \in {"Start", "GetTxOwner"} => ~u.owner

(* Until a final response is chosen, the transaction takes responses.      *)
Waits(t, u) ==
  ~u.stopped /\ u.state \in {"Start", "GetTxOwner", "WaitRespFromApp"} =>
     /\ ~t.terminated /\ t.state = "Proceeding"
     /\ \A i \in DOMAIN t.queue : t.queue[i] < 200

(* A user agent that rejected the INVITE stays until the transaction ends. *)
Refuses(t, u) ==
  ~t.terminated /\ ~NoReject(t) => ~u.stopped /\ u.state = "Rejected"

(* ErrorIsRepeated, and timer G's object is never left over.               *)
Repeats(t, x, tm) ==
  ~t.terminated =>
     /\ tm["G"] # "stale"
     /\ t.state = "Completed" =>
          /\ Unreliable => x.to = "ta" \/ tm["G"] = "on"
          /\ tm["H"] = "on"

(* Only a user agent that accepted the INVITE waits for the ACK.           *)
Awaits(u, tm) == tm["WaitAck"] # "off" => u.state = "Accepted"

ErrorInv ==
  /\ Asking(ua, routing) /\ Waits(ta, ua) /\ Refuses(ta, ua)
  /\ Repeats(ta, tx, timer) /\ Awaits(ua, timer)

-----------------------------------------------------------------------------
LEMMA TimerUpdate ==
  ASSUME NEW tm \in TimerType, NEW t \in Timers,
         NEW v \in {"off", "on", "stale"}
  PROVE  /\ [tm EXCEPT ![t] = v] \in TimerType
         /\ [tm EXCEPT ![t] = v][t] = v
         /\ \A o \in Timers : o # t => [tm EXCEPT ![t] = v][o] = tm[o]
BY DEF TimerType

(* The two timers the invariant is about, after another one has changed.   *)
LEMMA OtherTimer ==
  ASSUME NEW tm \in TimerType, NEW v \in {"off", "on", "stale"},
         NEW t \in {"I", "OwnerResolver", "Retransmit2xx"}
  PROVE  /\ [tm EXCEPT ![t] = v] \in TimerType
         /\ [tm EXCEPT ![t] = v]["G"] = tm["G"]
         /\ [tm EXCEPT ![t] = v]["H"] = tm["H"]
         /\ [tm EXCEPT ![t] = v]["WaitAck"] = tm["WaitAck"]
BY DEF TimerType, Timers, TaTimers, UaTimers

LEMMA TimerNames ==
  /\ "G" \in Timers /\ "H" \in Timers /\ "I" \in Timers
  /\ "OwnerResolver" \in Timers /\ "Retransmit2xx" \in Timers
  /\ "WaitAck" \in Timers
BY DEF Timers, TaTimers, UaTimers

(* A response is sent in Proceeding: only an error response leads to       *)
(* Completed, and it starts timer H.                                       *)
LEMMA SendAndStoreError ==
  ASSUME NoLeaves, NEW t \in TaType, NEW r \in Code, NEW tm \in TimerType,
         NEW s \in SendAndStore(t, r, tm), tm["G"] # "stale"
  PROVE  /\ ~s.left /\ s.ta.terminated = t.terminated
         /\ s.ta.queue = t.queue /\ s.tx.to = "ta"
         /\ Repeats(s.ta, s.tx, s.tm) /\ s.tm["WaitAck"] = tm["WaitAck"]
         /\ r # Reject => s.ta.state \notin {"Completed", "Confirmed"}
<1>1. s = [Sent(t, r, tm) EXCEPT !.tm = WithTimerH(r, tm)]
  BY DEF NoLeaves, SendAndStore
<1>2. /\ s.ta = [t EXCEPT !.state = StateAfter(r), !.msg = r]
      /\ s.tx = [to |-> "ta", msg |-> r] /\ ~s.left
      /\ s.tm = WithTimerH(r, tm)
  BY <1>1 DEF Sent
<1>3. /\ s.ta.terminated = t.terminated /\ s.ta.queue = t.queue
      /\ s.ta.state = StateAfter(r)
  BY <1>2 DEF TaType
<1>4. /\ r < 300 => StateAfter(r) \notin {"Completed", "Confirmed"}
      /\ r >= 300 <=> r = Reject
  BY InviteServerAssumption
  DEF StateAfter, Code, Provisional, Trying, Ok, Reject
<1>5. /\ s.tm["G"] = tm["G"] /\ s.tm["WaitAck"] = tm["WaitAck"]
      /\ r >= 300 => s.tm["H"] = "on"
  BY <1>2, TimerNames, TimerUpdate DEF WithTimerH
<1>6. r \in Nat
  BY Codes
<1>7. QED
  BY <1>2, <1>3, <1>4, <1>5, <1>6 DEF Repeats, Reject

LEMMA SendResponseError ==
  ASSUME NoLeaves, NEW t \in TaType, NEW r \in Code, NEW tm \in TimerType,
         NEW s \in SendResponse(t, r, tm),
         ~t.terminated, t.state = "Proceeding", tm["G"] # "stale"
  PROVE  /\ ~s.left /\ ~s.ta.terminated
         /\ Repeats(s.ta, s.tx, s.tm) /\ s.tm["WaitAck"] = tm["WaitAck"]
         /\ r < 200 => s.ta.state = "Proceeding"
         /\ r < 200 /\ (\A i \in DOMAIN t.queue : t.queue[i] < 200) =>
              \A i \in DOMAIN s.ta.queue : s.ta.queue[i] < 200
         /\ r # Reject /\ NoReject(t) => NoReject(s.ta)
<1>1. CASE tx.to = "none"
  <2>1. s \in SendAndStore(t, r, tm)
    BY <1>1 DEF SendResponse
  <2>2. s.ta.state = StateAfter(r)
    BY <2>1, SendAndStoreFacts
  <2>3. r < 200 => StateAfter(r) = "Proceeding"
    BY Codes DEF StateAfter
  <2>4. QED
    BY <2>1, <2>2, <2>3, SendAndStoreError DEF NoReject
<1>2. CASE tx.to # "none"
  <2> DEFINE t2 == [t EXCEPT !.queue = Enqueue(@, r)]
  <2>1. s.ta = t2 /\ s.tm = tm /\ ~s.left
    BY <1>2 DEF SendResponse, NoLeaves
  <2>2. /\ t2.terminated = t.terminated /\ t2.state = t.state
        /\ t2.queue = Append(t.queue, r) /\ t.queue \in Seq(Code)
    BY DEF TaType, Enqueue
  <2>3. /\ DOMAIN Append(t.queue, r) = 1..(Len(t.queue) + 1)
        /\ DOMAIN t.queue = 1..Len(t.queue)
        /\ \A i \in 1..Len(t.queue) : Append(t.queue, r)[i] = t.queue[i]
        /\ Append(t.queue, r)[Len(t.queue) + 1] = r
        /\ Len(t.queue) \in Nat
    BY <2>2
  <2> HIDE DEF t2
  <2>4. \A i \in DOMAIN t2.queue :
          t2.queue[i] = r \/ (i \in DOMAIN t.queue /\ t2.queue[i] = t.queue[i])
    <3> SUFFICES ASSUME NEW i \in DOMAIN t2.queue
                 PROVE  \/ t2.queue[i] = r
                        \/ i \in DOMAIN t.queue /\ t2.queue[i] = t.queue[i]
      OBVIOUS
    <3>1. i \in 1..Len(t.queue) \/ i = Len(t.queue) + 1
      BY <2>2, <2>3
    <3>2. QED
      BY <2>2, <2>3, <3>1
  <2>5. QED
    BY <2>1, <2>2, <2>4 DEF Repeats, NoReject
<1>3. QED
  BY <1>1, <1>2

LEMMA StopError ==
  ASSUME NEW u \in UaType, NEW d, NEW h, Stop(u, d, h)
  PROVE  ua'.stopped /\ ua'.state = u.state /\ ua'.owner = u.owner
<1>1. CASE u.stopped
  BY <1>1 DEF Stop
<1>2. CASE ~u.stopped
  BY <1>2 DEF Stop, UaType
<1>3. QED
  BY <1>1, <1>2

(* Stopping a user agent that has not rejected the INVITE, or one whose    *)
(* transaction has terminated.                                             *)
LEMMA StopKeepsError ==
  ASSUME SafeInv, ErrorInv, NEW u \in UaType, NEW d, NEW h, Stop(u, d, h),
         u.state = ua.state,
         u.state \in {"Start", "GetTxOwner"} => ~u.owner,
         ta.terminated \/ u.state # "Rejected" \/ ua.stopped,
         UNCHANGED <<ta, tx>>, routing' \in BOOLEAN,
         timer'["G"] = timer["G"], timer'["H"] = timer["H"],
         timer'["WaitAck"] \in {timer["WaitAck"], "off"}
  PROVE  ErrorInv'
<1>1. ua'.stopped /\ ua'.state = ua.state /\ ua'.owner = u.owner
  BY StopError
<1>2. Asking(ua', routing') /\ Waits(ta', ua')
  BY <1>1 DEF Asking, Waits
<1>3. Refuses(ta', ua')
  BY <1>1 DEF ErrorInv, Refuses
<1>4. Repeats(ta', tx', timer') /\ Awaits(ua', timer')
  BY <1>1 DEF ErrorInv, Repeats, Awaits
<1>5. QED
  BY <1>2, <1>3, <1>4 DEF ErrorInv, Asking, Waits, Refuses, Repeats, Awaits,
                          NoReject

(* The end of the transaction.                                             *)
LEMMA EndTaError ==
  ASSUME SafeInv, ErrorInv, NEW tm \in TimerType, NEW x \in TxType,
         NEW h \in HistType, ~ta.terminated, EndTa(ta, tm, x, h),
         tm["WaitAck"] = timer["WaitAck"], routing' = routing
  PROVE  ErrorInv'
<1>1. TypeOK /\ ta \in TaType /\ ua \in UaType
  BY DEF SafeInv, TypeOK
<1>2. ta'.terminated /\ ua'.state = ua.state
  BY EndTaFacts DEF Ending
<1>3. CASE ua.state = "Accepted"
  <2>1. PICK r \in ReleaseTransaction(tm) : ua' = r.u
    BY <1>3 DEF EndTa
  <2>2. ua'.stopped = ua.stopped
    BY <1>1, <2>1, ReleaseFacts
  <2>3. QED
    BY <1>2, <1>3, <2>2
    DEF ErrorInv, Asking, Waits, Refuses, Repeats, Awaits
<1>4. CASE ua.state # "Accepted"
  <2>1. Stop(ua, doomed, h) /\ timer' = tm
    BY <1>4 DEF EndTa
  <2>2. ua'.stopped /\ ua'.owner = ua.owner
    BY <1>1, <2>1, StopError
  <2>3. QED
    BY <1>2, <2>1, <2>2
    DEF ErrorInv, Asking, Waits, Refuses, Repeats, Awaits
<1>5. QED
  BY <1>3, <1>4

(* A response is given to the transaction while none is chosen yet.        *)
LEMMA RespondError ==
  ASSUME SafeInv, ErrorInv, NoLeaves, NEW r \in Code, NEW tm \in TimerType,
         NEW s \in SendResponse(ta, r, tm), ta' = s.ta, tx' = s.tx,
         ~ua.stopped, ua.state \in {"GetTxOwner", "WaitRespFromApp"},
         tm["G"] = timer["G"],
         tm["WaitAck"] # "off" => ua'.state = "Accepted",
         timer'["G"] = s.tm["G"], timer'["H"] = s.tm["H"],
         timer'["WaitAck"] = s.tm["WaitAck"],
         ua' \in UaType, ~ua'.stopped, ~routing',
         \/ r = Reject /\ ua'.state = "Rejected"
         \/ r = Ok /\ ua'.state = "Accepted"
         \/ r < 200 /\ ua'.state = "WaitRespFromApp"
  PROVE  ErrorInv' /\ ~s.left
<1>1. /\ ta \in TaType /\ ~ta.terminated /\ ta.state = "Proceeding"
      /\ timer["G"] # "stale" /\ NoReject(ta)
      /\ \A i \in DOMAIN ta.queue : ta.queue[i] < 200
  BY DEF SafeInv, TypeOK, ErrorInv, Waits, Refuses, Repeats
<1>2. /\ ~s.left /\ ~ta'.terminated
      /\ Repeats(s.ta, s.tx, s.tm) /\ s.tm["WaitAck"] = tm["WaitAck"]
      /\ r < 200 => /\ ta'.state = "Proceeding"
                    /\ \A i \in DOMAIN ta'.queue : ta'.queue[i] < 200
      /\ r # Reject => NoReject(ta')
  BY <1>1, SendResponseError
<1>3. Repeats(ta', tx', timer') /\ Awaits(ua', timer')
  BY <1>2 DEF Repeats, Awaits
<1>4. Refuses(ta', ua')
  BY <1>2, Codes DEF Refuses, Ok, Reject
<1>5. Asking(ua', routing') /\ Waits(ta', ua')
  BY <1>2 DEF Asking, Waits
<1>6. QED
  BY <1>2, <1>3, <1>4, <1>5
  DEF ErrorInv, Asking, Waits, Refuses, Repeats, Awaits, NoReject

-----------------------------------------------------------------------------
(* Requests from the network.                                              *)
LEMMA FirstInviteError ==
  SafeInv /\ ErrorInv /\ NoLeaves /\ FirstInvite => ErrorInv'
<1> SUFFICES ASSUME SafeInv, ErrorInv, NoLeaves, FirstInvite
             PROVE ErrorInv'
  OBVIOUS
<1> DEFINE tPassed == [[ta EXCEPT !.msg = Trying] EXCEPT !.passed = TRUE]
           tQueued == [tPassed EXCEPT !.queue = <<Reject>>]
<1>1. /\ ~ta.terminated /\ ~ua.stopped /\ ua.state = "Start" /\ ~ua.owner
      /\ ta \in TaType /\ ua \in UaType /\ timer \in TimerType
      /\ ta.state = "Proceeding" /\ NoReject(ta) /\ ~routing
      /\ \A i \in DOMAIN ta.queue : ta.queue[i] < 200
      /\ timer["G"] # "stale" /\ timer["WaitAck"] = "off"
  BY TimerNames
  DEF FirstInvite, SafeInv, TypeOK, RetransmitInv, ErrorInv, Asking, Waits,
      Refuses, Repeats, Awaits, TimerType
<1>2. /\ tPassed.state = "Proceeding" /\ ~tPassed.terminated
      /\ tPassed.queue = ta.queue
      /\ tQueued.state = "Proceeding" /\ ~tQueued.terminated
  BY <1>1 DEF TaType
<1> HIDE DEF tPassed, tQueued
<1>3. CASE /\ ta' = tPassed /\ UNCHANGED <<timer, routing>>
           /\ ua' = [ua EXCEPT !.state = "WaitRespFromApp", !.owner = TRUE]
  <2>1. ~ua'.stopped /\ ua'.state = "WaitRespFromApp"
    BY <1>1, <1>3 DEF UaType
  <2>2. QED
    BY <1>1, <1>2, <1>3, <2>1
    DEF ErrorInv, Asking, Waits, Refuses, Repeats, Awaits, NoReject
<1>4. CASE /\ ta' = tPassed /\ ua' = [ua EXCEPT !.state = "GetTxOwner"]
           /\ timer' = WithOwnerResolver(timer) /\ routing' = TRUE
  <2>1. ~ua'.stopped /\ ua'.state = "GetTxOwner" /\ ~ua'.owner
    BY <1>1, <1>4 DEF UaType
  <2>2. timer'["G"] # "stale" /\ timer'["WaitAck"] = "off"
    BY <1>1, <1>4, TimerNames, TimerUpdate DEF WithOwnerResolver
  <2>3. QED
    BY <1>1, <1>2, <1>4, <2>1, <2>2
    DEF ErrorInv, Asking, Waits, Refuses, Repeats, Awaits, NoReject
<1>5. CASE /\ ta' = tQueued /\ ua' = Rejecting(ua)
           /\ UNCHANGED <<timer, routing>>
  <2>1. ~ua'.stopped /\ ua'.state = "Rejected"
    BY <1>1, <1>5 DEF UaType, Rejecting
  <2>2. QED
    BY <1>1, <1>2, <1>5, <2>1
    DEF ErrorInv, Asking, Waits, Refuses, Repeats, Awaits, NoReject
<1>6. QED
  BY <1>3, <1>4, <1>5 DEF FirstInvite, NoLeaves, tPassed, tQueued

LEMMA FurtherRequestError ==
  SafeInv /\ ErrorInv /\ NoLeaves /\ (InviteAgain \/ AckToTa \/ AckToUa)
     => ErrorInv'
<1> SUFFICES ASSUME SafeInv, ErrorInv, NoLeaves,
                    InviteAgain \/ AckToTa \/ AckToUa
             PROVE ErrorInv'
  OBVIOUS
<1>1. /\ ta \in TaType /\ ua \in UaType /\ timer \in TimerType
      /\ routing \in BOOLEAN
  BY DEF SafeInv, TypeOK
<1>2. CASE InviteAgain
  <2>1. tx'.to = "ta" /\ UNCHANGED <<ta, ua, timer, routing>>
    BY <1>2 DEF InviteAgain, NoLeaves
  <2>2. QED
    BY <2>1
    DEF ErrorInv, Asking, Waits, Refuses, Repeats, Awaits, NoReject
<1>3. CASE AckToTa
  <2> DEFINE tm == [timer EXCEPT !["G"] = "off", !["H"] = "off"]
  <2>1. /\ ta' = [ta EXCEPT !.state = "Confirmed"]
        /\ timer' = [tm EXCEPT !["I"] = "on"]
        /\ UNCHANGED <<ua, routing>>
        /\ ~ta.terminated /\ ta.state = "Completed"
    BY <1>3 DEF AckToTa, NoLeaves
  <2>2. ta'.state = "Confirmed" /\ ta'.queue = ta.queue
    BY <1>1, <2>1 DEF TaType
  <2>3. /\ tm \in TimerType
        /\ tm["G"] = "off" /\ tm["WaitAck"] = timer["WaitAck"]
    BY <1>1 DEF TimerType, Timers, TaTimers, UaTimers
  <2> HIDE DEF tm
  <2>4. [tm EXCEPT !["I"] = "on"]["G"] = tm["G"]
    BY <2>3, OtherTimer
  <2>5. timer'["G"] = "off" /\ timer'["WaitAck"] = timer["WaitAck"]
    BY <2>1, <2>3, <2>4, OtherTimer
  <2>6. ~ua.stopped /\ ua.state = "Rejected"
    BY <2>1 DEF ErrorInv, Refuses, NoReject
  <2>7. QED
    BY <2>1, <2>2, <2>5, <2>6
    DEF ErrorInv, Asking, Waits, Refuses, Repeats, Awaits
<1>4. CASE AckToUa
  <2>1. PICK found \in BOOLEAN :
          Stop([ua EXCEPT !.owner = found \/ @], doomed, hist)
    BY <1>4 DEF AckToUa
  <2> DEFINE u == [ua EXCEPT !.owner = found \/ @]
  <2>2. u \in UaType /\ u.state = ua.state /\ ua.state = "Accepted"
    BY <1>1, <1>4 DEF UaType, AckToUa
  <2>3. Stop(u, doomed, hist)
    BY <2>1
  <2> HIDE DEF u
  <2>4. /\ UNCHANGED <<ta, tx, routing>>
        /\ timer' = [timer EXCEPT !["Retransmit2xx"] = "off"]
    BY <1>4 DEF AckToUa
  <2>5. /\ timer'["G"] = timer["G"] /\ timer'["H"] = timer["H"]
        /\ timer'["WaitAck"] = timer["WaitAck"]
    BY <1>1, <2>4, TimerNames, TimerUpdate
  <2>6. QED
    BY <1>1, <2>2, <2>3, <2>4, <2>5, StopKeepsError
<1>5. QED
  BY <1>2, <1>3, <1>4

LEMMA CancelError ==
  SafeInv /\ ErrorInv /\ NoLeaves /\ Cancel => ErrorInv'
<1> SUFFICES ASSUME SafeInv, ErrorInv, NoLeaves, Cancel PROVE ErrorInv'
  OBVIOUS
<1>1. /\ ta \in TaType /\ ua \in UaType /\ timer \in TimerType
      /\ hist \in HistType /\ TypeOK /\ Reject \in Code /\ ~ua.stopped
      /\ routing \in BOOLEAN
  BY Codes DEF Cancel, SafeInv, TypeOK
<1>2. \A u \in UaType :
        /\ CancelHandled(u, hist).u \in UaType
        /\ CancelHandled(u, hist).u.state = u.state
        /\ CancelHandled(u, hist).u.stopped = u.stopped
        /\ ~CancelHandled(u, hist).u.owner
  BY DEF CancelHandled, UaType
<1>3. CASE ua.state \in {"GetTxOwner", "WaitRespFromApp"}
  <2>1. /\ Rejecting(ua) \in UaType /\ Rejecting(ua).state = "Rejected"
        /\ Rejecting(ua).stopped = ua.stopped
    BY <1>1 DEF Rejecting, UaType, UaState
  <2>2. PICK s \in SendResponse(ta, Reject, timer) :
          /\ ta' = s.ta /\ tx' = s.tx
          /\ ~s.left =>
               /\ ua' = CancelHandled(Rejecting(ua), hist).u
               /\ \/ ua.owner /\ timer' = s.tm /\ routing' = routing
                  \/ /\ timer' = [s.tm EXCEPT !["OwnerResolver"] = "off"]
                     /\ routing' = FALSE
    BY <1>3 DEF Cancel
  <2>3. /\ ta.state = "Proceeding" /\ ~ta.terminated
        /\ timer["G"] # "stale" /\ timer["WaitAck"] = "off"
        /\ ua.owner => ~routing
    BY <1>1, <1>3, TimerNames
    DEF ErrorInv, Asking, Waits, Repeats, Awaits, TimerType
  <2>4. ~s.left /\ s.tm \in TimerType
    BY <1>1, <2>2, <2>3, SendResponseError, SendResponseFacts
  <2>5. /\ ua' \in UaType /\ ua'.state = "Rejected" /\ ~ua'.stopped
        /\ routing' = FALSE
    BY <1>1, <1>2, <2>1, <2>2, <2>3, <2>4
  <2>6. /\ timer'["G"] = s.tm["G"] /\ timer'["H"] = s.tm["H"]
        /\ timer'["WaitAck"] = s.tm["WaitAck"]
    <3> DEFINE cleared == [s.tm EXCEPT !["OwnerResolver"] = "off"]
    <3>1. /\ cleared["G"] = s.tm["G"] /\ cleared["H"] = s.tm["H"]
          /\ cleared["WaitAck"] = s.tm["WaitAck"]
      BY <2>4, OtherTimer
    <3> HIDE DEF cleared
    <3>2. timer' = s.tm \/ timer' = cleared
      BY <2>2, <2>4 DEF cleared
    <3>3. QED
      BY <3>1, <3>2
  <2>7. QED
    BY <1>1, <1>3, <2>2, <2>3, <2>5, <2>6, RespondError
<1>4. CASE /\ ua.state = "Accepted" /\ ua' = CancelHandled(ua, hist).u
           /\ UNCHANGED <<ta, tx, timer, routing>>
  <2>1. ua'.state = "Accepted" /\ ua'.stopped = ua.stopped
    BY <1>1, <1>2, <1>4
  <2>2. QED
    BY <1>4, <2>1
    DEF ErrorInv, Asking, Waits, Refuses, Repeats, Awaits, NoReject
<1>5. QED
  BY <1>3, <1>4 DEF Cancel

-----------------------------------------------------------------------------
(* The request router and the application.                                 *)

(* The user agent rejects the INVITE itself: no owner, too late an answer, *)
(* or an error of the router.                                              *)
LEMMA DeclineError ==
  ASSUME SafeInv, ErrorInv, NoLeaves, NEW tm \in TimerType,
         NEW s \in SendResponse(ta, Reject, tm),
         ~ua.stopped, ua.state = "GetTxOwner",
         ta' = s.ta, tx' = s.tx, ~routing', ~s.left => ua' = Rejecting(ua),
         tm["G"] = timer["G"], tm["WaitAck"] = timer["WaitAck"],
         timer'["G"] = s.tm["G"], timer'["H"] = s.tm["H"],
         timer'["WaitAck"] = s.tm["WaitAck"]
  PROVE  ErrorInv' /\ ~s.left
<1>1. /\ ua \in UaType /\ Reject \in Code /\ ta \in TaType /\ TypeOK
      /\ ta.state = "Proceeding" /\ ~ta.terminated
      /\ timer["G"] # "stale" /\ timer["WaitAck"] = "off"
  BY Codes, TimerNames
  DEF SafeInv, TypeOK, ErrorInv, Waits, Repeats, Awaits, TimerType
<1>2. ~s.left
  BY <1>1, SendResponseError
<1>3. ua' \in UaType /\ ua'.state = "Rejected" /\ ~ua'.stopped
  BY <1>1, <1>2 DEF Rejecting, UaType, UaState
<1>4. QED
  BY <1>1, <1>2, <1>3, RespondError

LEMMA RouterAnswerError ==
  SafeInv /\ ErrorInv /\ NoLeaves
    /\ (OwnerFound \/ OwnerNotFound \/ RouterError) => ErrorInv'
<1> SUFFICES ASSUME SafeInv, ErrorInv, NoLeaves,
                    OwnerFound \/ OwnerNotFound \/ RouterError
             PROVE ErrorInv'
  OBVIOUS
<1> DEFINE tm == [timer EXCEPT !["OwnerResolver"] = "off"]
<1>1. /\ ua \in UaType /\ timer \in TimerType /\ hist \in HistType
      /\ routing /\ routing' = FALSE /\ Reject \in Code
      /\ ua.stopped \/ ua.state = "GetTxOwner"
      /\ ua.state \in {"Start", "GetTxOwner"} => ~ua.owner
  BY Codes DEF SafeInv, TypeOK, ErrorInv, Asking, OwnerFound, OwnerNotFound,
            RouterError
<1>2. /\ tm \in TimerType /\ tm["G"] = timer["G"] /\ tm["H"] = timer["H"]
      /\ tm["WaitAck"] = timer["WaitAck"]
  BY <1>1, OtherTimer
<1>3. CASE UNCHANGED <<ta, ua, tx, timer>>
  BY <1>1, <1>3
  DEF ErrorInv, Asking, Waits, Refuses, Repeats, Awaits, NoReject
<1>4. ASSUME ~ua.stopped, ua.state = "GetTxOwner",
             NEW s \in SendResponse(ta, Reject, tm),
             ta' = s.ta, tx' = s.tx, timer' = s.tm,
             ~s.left => ua' = Rejecting(ua)
      PROVE  ErrorInv'
  <2> HIDE DEF tm
  <2>1. QED
    BY <1>1, <1>2, <1>4, DeclineError
<1>5. CASE OwnerFound /\ ~ua.stopped /\ ua.state = "GetTxOwner"
  <2>1. /\ ua' = [ua EXCEPT !.state = "WaitRespFromApp", !.owner = TRUE]
        /\ timer' = tm /\ UNCHANGED <<ta, tx>>
    BY <1>5 DEF OwnerFound
  <2> HIDE DEF tm
  <2>2. ua'.state = "WaitRespFromApp" /\ ~ua'.stopped
    BY <1>1, <1>5, <2>1 DEF UaType
  <2>3. QED
    BY <1>1, <1>2, <1>5, <2>1, <2>2, TimerNames
    DEF ErrorInv, Asking, Waits, Refuses, Repeats, Awaits, NoReject, TimerType
<1>6. CASE RouterError
  <2>1. CASE Stop(ua, doomed, hist) /\ timer' = tm /\ UNCHANGED <<ta, tx>>
    <3> HIDE DEF tm
    <3>1. ta.terminated \/ ua.state # "Rejected" \/ ua.stopped
      BY <1>1
    <3>2. QED
      BY <1>1, <1>2, <2>1, <3>1, StopKeepsError
  <2>2. CASE /\ ~ua.stopped /\ ua.state = "GetTxOwner"
             /\ \E s \in SendResponse(ta, Reject, tm) :
                  /\ ta' = s.ta /\ tx' = s.tx /\ timer' = s.tm
                  /\ ~s.left => ua' = Rejecting(ua)
    BY <1>4, <2>2
  <2>3. QED
    BY <1>6, <2>1, <2>2 DEF RouterError
<1>7. CASE OwnerNotFound /\ ~ua.stopped /\ ua.state = "GetTxOwner"
  BY <1>4, <1>7 DEF OwnerNotFound
<1>8. QED
  BY <1>3, <1>5, <1>6, <1>7 DEF OwnerFound, OwnerNotFound

LEMMA ApplicationError ==
  SafeInv /\ ErrorInv /\ NoLeaves
    /\ (AppProvisional \/ AppRejects \/ AppAccepts \/ ClearTransactionOwner)
     => ErrorInv'
<1> SUFFICES ASSUME SafeInv, ErrorInv, NoLeaves,
                    \/ AppProvisional \/ AppRejects \/ AppAccepts
                    \/ ClearTransactionOwner
             PROVE ErrorInv'
  OBVIOUS
<1>1. /\ ua \in UaType /\ timer \in TimerType /\ hist \in HistType
      /\ Reject \in Code /\ Ok \in Code /\ ~ua.stopped
      /\ routing' = routing /\ routing \in BOOLEAN
  BY Codes
  DEF SafeInv, TypeOK, AppProvisional, AppRejects, AppResponds, AppAccepts,
      ClearTransactionOwner
<1>2. ua.state = "WaitRespFromApp" => ~routing /\ timer["WaitAck"] = "off"
  BY <1>1, TimerNames DEF ErrorInv, Asking, Awaits, TimerType
<1>3. ASSUME NEW r \in Code, r = Reject \/ r < 200, AppResponds(r)
      PROVE  ErrorInv'
  <2>1. PICK s \in SendResponse(ta, r, timer) :
          /\ ta' = s.ta /\ tx' = s.tx /\ timer' = s.tm
          /\ ua' = IF r >= 300 THEN Rejecting(ua) ELSE ua
    BY <1>3 DEF AppResponds
  <2>2. Rejecting(ua) \in UaType /\ Rejecting(ua).state = "Rejected"
        /\ Rejecting(ua).stopped = ua.stopped
    BY <1>1 DEF Rejecting, UaType, UaState
  <2>3. ua.state = "WaitRespFromApp" /\ r \in Nat
    BY <1>3, Codes DEF AppResponds
  <2>4. /\ ua' \in UaType /\ ~ua'.stopped
        /\ \/ r = Reject /\ ua'.state = "Rejected"
           \/ r < 200 /\ ua'.state = "WaitRespFromApp"
    BY <1>1, <1>3, <2>1, <2>2, <2>3 DEF Reject
  <2>5. QED
    BY <1>1, <1>2, <2>1, <2>3, <2>4, RespondError
<1>4. CASE AppProvisional
  <2>1. hist.provs + 1 \in 1..MaxProv /\ hist.provs \in Nat
    BY <1>1, <1>4, InviteServerAssumption DEF AppProvisional, HistType
  <2>2. Trying + hist.provs + 1 \in Provisional
    BY <2>1, Codes DEF Trying
  <2>3. QED
    BY <1>3, <1>4, <2>2, Codes DEF AppProvisional
<1>5. CASE AppRejects
  BY <1>1, <1>3, <1>5 DEF AppRejects
<1>6. CASE AppAccepts
  <2> DEFINE u == [ua EXCEPT !.state = "Accepted"]
             tm == [timer EXCEPT !["WaitAck"] = "on"]
  <2>1. PICK s \in SendResponse(ta, Ok, tm) :
          /\ ta' = s.ta /\ tx' = s.tx /\ timer' = s.tm
          /\ ua' = [u EXCEPT !.has2xx = ~s.left]
    BY <1>6 DEF AppAccepts, NoLeaves
  <2>2. ua.state = "WaitRespFromApp"
    BY <1>6 DEF AppAccepts
  <2>3. tm \in TimerType /\ tm["G"] = timer["G"]
    BY <1>1 DEF TimerType, Timers, TaTimers, UaTimers
  <2>4. u \in UaType /\ u.state = "Accepted" /\ ~u.stopped
    BY <1>1 DEF UaType, UaState
  <2> HIDE DEF u, tm
  <2>5. s.left \in BOOLEAN
    BY <1>1, <2>1, <2>3, SendResponseFacts DEF SafeInv, TypeOK
  <2>6. ua' \in UaType /\ ua'.state = "Accepted" /\ ~ua'.stopped
    BY <2>1, <2>4, <2>5 DEF UaType
  <2>7. QED
    BY <1>1, <1>2, <2>1, <2>2, <2>3, <2>6, RespondError
<1>7. CASE ClearTransactionOwner
  <2> DEFINE u == [ua EXCEPT !.owner = FALSE]
             h == [hist EXCEPT !.cleared = TRUE]
  <2>1. /\ u \in UaType /\ u.state = ua.state /\ u.stopped = ua.stopped
        /\ ~u.owner
    BY <1>1 DEF UaType
  <2>2. UNCHANGED <<ta, tx, timer, routing>>
    BY <1>7 DEF ClearTransactionOwner
  <2>3. \/ ua.state = "WaitRespFromApp" /\ Stop(u, doomed, h)
        \/ ua' = u
    BY <1>7 DEF ClearTransactionOwner
  <2> HIDE DEF u, h
  <2>4. CASE ua.state = "WaitRespFromApp" /\ Stop(u, doomed, h)
    BY <1>1, <2>1, <2>2, <2>4, StopKeepsError
  <2>5. CASE ua' = u
    BY <2>1, <2>2, <2>5
    DEF ErrorInv, Asking, Waits, Refuses, Repeats, Awaits, NoReject
  <2>6. QED
    BY <2>3, <2>4, <2>5
<1>8. QED
  BY <1>4, <1>5, <1>6, <1>7

-----------------------------------------------------------------------------
(* Sends that complete, expiring timers, and deletion.                     *)
LEMMA SendDoneError ==
  SafeInv /\ ErrorInv /\ NoLeaves /\ (TaSendDone \/ UaSendDone) => ErrorInv'
<1> SUFFICES ASSUME SafeInv, ErrorInv, NoLeaves, TaSendDone \/ UaSendDone
             PROVE ErrorInv'
  OBVIOUS
<1>1. /\ ta \in TaType /\ ua \in UaType /\ timer \in TimerType /\ TypeOK
      /\ routing' = routing /\ routing \in BOOLEAN
      /\ \A d \in BOOLEAN : OnWire(hist, d) \in HistType
      /\ IdleTx \in TxType
  BY OnWireFacts, Codes
  DEF SafeInv, TypeOK, TaSendDone, UaSendDone, IdleTx, TxType
<1>2. CASE TaSendDone
  <2>1. ~ta.terminated
    BY <1>2 DEF TaSendDone, SafeInv, TransmitterOwned
  <2>2. CASE SentInProceeding
    <3>1. CASE ta.queue = << >>
      <4>1. UNCHANGED <<ta, ua, timer>> /\ ta.state = "Proceeding"
        BY <2>2, <3>1 DEF SentInProceeding
      <4>2. QED
        BY <1>1, <4>1
        DEF ErrorInv, Asking, Waits, Refuses, Repeats, Awaits, NoReject
    <3>2. CASE ta.queue # << >>
      <4> DEFINE t == [ta EXCEPT !.queue = Tail(@)]
      <4>1. ta.queue \in Seq(Code) /\ ta.queue # << >>
        BY <1>1, <3>2 DEF TaType
      <4>2. /\ Head(ta.queue) \in Code /\ Tail(ta.queue) \in Seq(Code)
            /\ Head(ta.queue) = ta.queue[1] /\ 1 \in DOMAIN ta.queue
            /\ \A i \in DOMAIN Tail(ta.queue) :
                 i + 1 \in DOMAIN ta.queue
                 /\ Tail(ta.queue)[i] = ta.queue[i + 1]
        BY <4>1
      <4>3. /\ t \in TaType /\ t.queue = Tail(ta.queue)
            /\ t.terminated = ta.terminated /\ t.state = ta.state
        BY <1>1, <4>2 DEF TaType
      <4>4. PICK s \in SendAndStore(t, Head(ta.queue), timer) :
              ~s.left => /\ ta' = s.ta /\ tx' = s.tx /\ timer' = s.tm
                         /\ ua' = ua
        BY <2>2, <3>2 DEF SentInProceeding
      <4> HIDE DEF t
      <4>5. timer["G"] # "stale"
        BY <2>1 DEF ErrorInv, Repeats
      <4>6. /\ ~s.left /\ s.ta.terminated = t.terminated
            /\ s.ta.queue = t.queue
            /\ Repeats(s.ta, s.tx, s.tm)
            /\ s.tm["WaitAck"] = timer["WaitAck"]
            /\ Head(ta.queue) # Reject =>
                 s.ta.state \notin {"Completed", "Confirmed"}
        BY <1>1, <4>2, <4>3, <4>4, <4>5, SendAndStoreError
      <4>7. s.ta.state = StateAfter(Head(ta.queue))
        BY <4>2, <4>3, <4>4, <1>1, SendAndStoreFacts
      <4>8. NoReject(ta) => NoReject(s.ta)
        BY <4>2, <4>3, <4>6 DEF NoReject
      <4>9. Refuses(ta', ua') /\ Repeats(ta', tx', timer')
        BY <4>3, <4>4, <4>6, <4>8 DEF ErrorInv, Refuses, Repeats
      <4>10. Asking(ua', routing') /\ Awaits(ua', timer')
        BY <1>1, <4>4, <4>6 DEF ErrorInv, Asking, Awaits
      <4>11. Waits(ta', ua')
        <5>1. ua' = ua /\ ta' = s.ta
          BY <4>4, <4>6
        <5> SUFFICES ASSUME ~ua.stopped,
                       ua.state \in {"Start", "GetTxOwner", "WaitRespFromApp"}
                     PROVE  /\ ~s.ta.terminated /\ s.ta.state = "Proceeding"
                            /\ \A i \in DOMAIN s.ta.queue :
                                 s.ta.queue[i] < 200
          BY <5>1 DEF Waits
        <5>2. /\ ~ta.terminated
              /\ \A i \in DOMAIN ta.queue : ta.queue[i] < 200
          BY DEF ErrorInv, Waits
        <5>3. /\ Head(ta.queue) < 200
              /\ \A i \in DOMAIN s.ta.queue : s.ta.queue[i] < 200
          BY <4>2, <4>3, <4>6, <5>2
        <5>4. Head(ta.queue) \in Nat
          BY <4>2, Codes
        <5>5. StateAfter(Head(ta.queue)) = "Proceeding"
          BY <5>3, <5>4 DEF StateAfter
        <5>6. QED
          BY <4>3, <4>6, <4>7, <5>2, <5>3, <5>5
      <4>12. QED
        BY <4>9, <4>10, <4>11
        DEF ErrorInv, Asking, Waits, Refuses, Repeats, Awaits, NoReject
    <3>3. QED
      BY <3>1, <3>2
  <2>3. CASE SentInCompleted
    <3>1. /\ UNCHANGED <<ta, ua>> /\ ta.state = "Completed"
          /\ \/ timer' = [timer EXCEPT !["G"] = "on"]
             \/ timer' = timer /\ (Unreliable => timer["G"] # "off")
      BY <2>3 DEF SentInCompleted, NoLeaves
    <3>2. timer["G"] # "stale" /\ timer["G"] \in {"off", "on", "stale"}
      BY <1>1, <2>1, TimerNames DEF ErrorInv, Repeats, TimerType
    <3>3. /\ timer'["G"] # "stale" /\ (Unreliable => timer'["G"] = "on")
          /\ timer'["H"] = timer["H"] /\ timer'["WaitAck"] = timer["WaitAck"]
      BY <1>1, <3>1, <3>2 DEF TimerType, Timers, TaTimers, UaTimers
    <3>4. QED
      BY <1>1, <3>1, <3>3
      DEF ErrorInv, Asking, Waits, Refuses, Repeats, Awaits, NoReject
  <2>4. ASSUME NEW done \in BOOLEAN, SendEndsTa(done) PROVE ErrorInv'
    <3>1. EndTa(ta, timer, IdleTx, OnWire(hist, done))
      BY <2>4 DEF SendEndsTa
    <3>2. QED
      BY <1>1, <2>1, <3>1, EndTaError
  <2>5. ASSUME NEW done \in BOOLEAN, SendInConfirmed(done) PROVE ErrorInv'
    <3>1. UNCHANGED <<ta, ua, timer>> /\ ta.state = "Confirmed"
      BY <2>5 DEF SendInConfirmed
    <3>2. QED
      BY <1>1, <3>1
      DEF ErrorInv, Asking, Waits, Refuses, Repeats, Awaits, NoReject
  <2>6. QED
    BY <1>2, <2>2, <2>3, <2>4, <2>5 DEF TaSendDone
<1>3. CASE UaSendDone
  <2>1. ta' = ta /\ ta.terminated
    BY <1>3 DEF UaSendDone, SafeInv, TransmitterOwned
  <2>2. timer'["WaitAck"] = timer["WaitAck"]
    BY <1>1, <1>3, OtherTimer DEF UaSendDone
  <2>3. CASE ua' = ua
    BY <1>1, <2>1, <2>2, <2>3
    DEF ErrorInv, Asking, Waits, Refuses, Repeats, Awaits
  <2>4. ASSUME NEW done \in BOOLEAN, Stop(ua, doomed, OnWire(hist, done))
        PROVE  ErrorInv'
    <3>1. ua'.stopped /\ ua'.state = ua.state /\ ua'.owner = ua.owner
      BY <1>1, <2>4, StopError
    <3>2. QED
      BY <1>1, <2>1, <2>2, <3>1
      DEF ErrorInv, Asking, Waits, Refuses, Repeats, Awaits
  <2>5. QED
    BY <1>3, <2>3, <2>4 DEF UaSendDone
<1>4. QED
  BY <1>2, <1>3

LEMMA TimerError ==
  SafeInv /\ ErrorInv /\ NoLeaves /\ TimerStep => ErrorInv'
<1> SUFFICES ASSUME SafeInv, ErrorInv, NoLeaves, TimerStep PROVE ErrorInv'
  OBVIOUS
<1>1. /\ ta \in TaType /\ ua \in UaType /\ timer \in TimerType /\ TypeOK
      /\ tx \in TxType /\ hist \in HistType /\ Reject \in Code
      /\ routing \in BOOLEAN
  BY Codes DEF SafeInv, TypeOK
<1>2. ASSUME NEW t \in Timers, TimerIgnored(t) PROVE ErrorInv'
  <2>1. /\ timer' = [timer EXCEPT ![t] = "stale"] /\ timer[t] = "on"
        /\ UNCHANGED <<ta, ua, tx, routing>>
        /\ t \in TaTimers => ta.terminated
    BY <1>2 DEF TimerIgnored, Expires
  <2>2. timer'["WaitAck"] # "off" => timer["WaitAck"] # "off"
    BY <1>1, <2>1 DEF TimerType
  <2>3. ~ta.terminated =>
          timer'["G"] = timer["G"] /\ timer'["H"] = timer["H"]
    BY <1>1, <2>1 DEF TimerType, TaTimers
  <2>4. QED
    BY <1>1, <2>1, <2>2, <2>3
    DEF ErrorInv, Asking, Waits, Refuses, Repeats, Awaits, NoReject
<1>3. CASE TimerG
  <2>1. /\ UNCHANGED <<ta, ua, routing>> /\ ~ta.terminated
        /\ timer' = [timer EXCEPT !["G"] = "off"]
        /\ tx'.to # "none"
    BY <1>3 DEF TimerG, Expires, NoLeaves
  <2>2. tx'.to = "ta"
    BY <1>1, <1>3, <2>1
    DEF TimerG, NoLeaves, TxType, SafeInv, TransmitterOwned
  <2>3. /\ timer'["G"] = "off" /\ timer'["H"] = timer["H"]
        /\ timer'["WaitAck"] = timer["WaitAck"]
    BY <1>1, <2>1 DEF TimerType, Timers, TaTimers, UaTimers
  <2>4. QED
    BY <1>1, <2>1, <2>2, <2>3
    DEF ErrorInv, Asking, Waits, Refuses, Repeats, Awaits, NoReject
<1>4. ASSUME NEW t \in {"H", "I"}, TimerEndsTa(t) PROVE ErrorInv'
  <2> DEFINE tm == [timer EXCEPT ![t] = "off"]
  <2>1. EndTa(ta, tm, tx, hist) /\ ~ta.terminated /\ routing' = routing
    BY <1>4 DEF TimerEndsTa
  <2>2. tm \in TimerType /\ tm["WaitAck"] = timer["WaitAck"]
    BY <1>1 DEF TimerType, Timers, TaTimers, UaTimers
  <2> HIDE DEF tm
  <2>3. QED
    BY <1>1, <2>1, <2>2, EndTaError
<1>5. CASE TimerOwnerResolver
  <2>1. CASE ua.state = "GetTxOwner"
    <3>1. PICK s \in SendResponse(ta, Reject, timer) :
            /\ ta' = s.ta /\ tx' = s.tx
            /\ timer' = [s.tm EXCEPT !["OwnerResolver"] =
                           IF s.left THEN "stale" ELSE "off"]
      BY <1>5, <2>1 DEF TimerOwnerResolver
    <3>2. ~ua.stopped /\ ~routing' /\ ua' = Rejecting(ua)
      BY <1>5, <2>1 DEF TimerOwnerResolver
    <3>3. s.tm \in TimerType
      BY <1>1, <3>1, SendResponseFacts
    <3>4. /\ timer'["G"] = s.tm["G"] /\ timer'["H"] = s.tm["H"]
          /\ timer'["WaitAck"] = s.tm["WaitAck"]
      BY <3>1, <3>3, OtherTimer
    <3>5. QED
      BY <1>1, <2>1, <3>1, <3>2, <3>4, DeclineError
  <2>2. CASE ua.state # "GetTxOwner"
    <3>1. /\ timer' = [timer EXCEPT !["OwnerResolver"] = "stale"]
          /\ UNCHANGED <<ta, ua, tx, routing>>
      BY <1>5, <2>2 DEF TimerOwnerResolver
    <3>2. /\ timer'["G"] = timer["G"] /\ timer'["H"] = timer["H"]
          /\ timer'["WaitAck"] = timer["WaitAck"]
      BY <1>1, <3>1, OtherTimer
    <3>3. QED
      BY <1>1, <3>1, <3>2
      DEF ErrorInv, Asking, Waits, Refuses, Repeats, Awaits, NoReject
  <2>3. QED
    BY <2>1, <2>2
<1>6. CASE TimerRetransmit2xx
  <2>1. /\ UNCHANGED <<ta, ua, routing>> /\ timer["Retransmit2xx"] = "on"
        /\ \/ timer' = [timer EXCEPT !["Retransmit2xx"] = "off"]
           \/ timer' = [timer EXCEPT !["Retransmit2xx"] = "stale"]
    BY <1>6 DEF TimerRetransmit2xx, Expires
  <2>2. ta.terminated
    BY <2>1 DEF SafeInv, RetransmitInv
  <2>3. timer'["WaitAck"] = timer["WaitAck"]
    BY <1>1, <2>1, OtherTimer
  <2>4. QED
    BY <1>1, <2>1, <2>2, <2>3
    DEF ErrorInv, Asking, Waits, Refuses, Repeats, Awaits
<1>7. CASE TimerWaitAck
  <2>1. /\ Stop(ua, doomed, hist) /\ UNCHANGED <<ta, tx, routing>>
        /\ timer' = [timer EXCEPT !["WaitAck"] = "off"]
        /\ timer["WaitAck"] = "on"
    BY <1>7 DEF TimerWaitAck, Expires
  <2>2. ua.state = "Accepted"
    BY <2>1 DEF ErrorInv, Awaits
  <2>3. /\ timer'["G"] = timer["G"] /\ timer'["H"] = timer["H"]
        /\ timer'["WaitAck"] = "off"
    BY <1>1, <2>1 DEF TimerType, Timers, TaTimers, UaTimers
  <2>4. QED
    BY <1>1, <2>1, <2>2, <2>3, StopKeepsError
<1>8. QED
  BY <1>2, <1>3, <1>4, <1>5, <1>6, <1>7 DEF TimerStep

LEMMA DeletionError ==
  SafeInv /\ ErrorInv /\ (DeleteMgrRuns \/ StoreFreesMarked) => ErrorInv'
<1> SUFFICES ASSUME SafeInv, ErrorInv, DeleteMgrRuns \/ StoreFreesMarked
             PROVE ErrorInv'
  OBVIOUS
<1>1. PICK objs \in SUBSET Object :
        /\ Destroy(objs)
        /\ "ua" \in objs => "ua" \in doomed \/ marked
        /\ "ta" \in objs => "ta" \in doomed
  BY DEF DeleteMgrRuns, StoreFreesMarked, SafeInv, TypeOK, Object
<1>2. UNCHANGED <<ta, ua>>
  BY DEF DeleteMgrRuns, StoreFreesMarked
<1>3. /\ "ua" \in objs => ua.stopped
      /\ "ta" \in objs => ta.terminated
  BY <1>1 DEF SafeInv, DeletionInv
<1>4. \A t \in Timers :
         /\ timer'[t] = timer[t] \/ timer'[t] = "off"
         /\ "ua" \notin objs /\ "ta" \notin objs => timer'[t] = timer[t]
  <2> DEFINE both == "ua" \in objs /\ ua.holds
             taDies == "ta" \notin gone /\ ("ta" \in objs \/ both)
  <2>1. timer' = [t \in Timers |->
                    IF (taDies /\ t \in TaTimers)
                       \/ ("ua" \in objs /\ t \in UaTimers)
                    THEN "off" ELSE timer[t]]
    BY <1>1 DEF Destroy
  <2>2. "ua" \notin objs /\ "ta" \notin objs => ~taDies
    OBVIOUS
  <2> HIDE DEF taDies
  <2>3. QED
    BY <2>1, <2>2
<1>5. /\ routing' = routing \/ routing' = FALSE
      /\ "ua" \notin objs => UNCHANGED <<tx, routing>>
  BY <1>1 DEF Destroy
<1>6. Asking(ua', routing') /\ Waits(ta', ua') /\ Refuses(ta', ua')
  BY <1>2, <1>5 DEF ErrorInv, Asking, Waits, Refuses, NoReject
<1>7. Awaits(ua', timer')
  BY <1>2, <1>4, TimerNames DEF ErrorInv, Awaits
<1>8. Repeats(ta', tx', timer')
  <2>1. timer'["G"] = timer["G"] \/ timer'["G"] = "off"
    BY <1>4, TimerNames
  <2>2. CASE "ua" \in objs
    <3>1. ~ta.terminated => ta.state # "Completed"
      BY <1>3, <2>2 DEF ErrorInv, Refuses, NoReject
    <3>2. QED
      BY <1>2, <2>1, <3>1 DEF ErrorInv, Repeats
  <2>3. CASE "ua" \notin objs
    BY <1>2, <1>3, <1>4, <1>5, <2>3, TimerNames DEF ErrorInv, Repeats
  <2>4. QED
    BY <2>2, <2>3
<1>9. QED
  BY <1>6, <1>7, <1>8
  DEF ErrorInv, Asking, Waits, Refuses, Repeats, Awaits, NoReject

-----------------------------------------------------------------------------
LEMMA ErrorInit == Init => ErrorInv
BY TimerNames
DEF Init, ErrorInv, Asking, Waits, Refuses, Repeats, Awaits, NoReject

LEMMA ErrorNext == SafeInv /\ ErrorInv /\ NoLeaves /\ [Next]_vars => ErrorInv'
<1> SUFFICES ASSUME SafeInv, ErrorInv, NoLeaves, [Next]_vars PROVE ErrorInv'
  OBVIOUS
<1>1. CASE UNCHANGED vars
  BY <1>1
  DEF vars, ErrorInv, Asking, Waits, Refuses, Repeats, Awaits, NoReject
<1>2. CASE Environment
  BY <1>2, FirstInviteError, FurtherRequestError, CancelError,
     RouterAnswerError, ApplicationError DEF Environment
<1>3. QED
  BY <1>1, <1>2, SendDoneError, TimerError, DeletionError DEF Next

(* Without leaves, an error response is repeated over UDP until its ACK    *)
(* comes, and timer H bounds the wait for it over either transport.        *)
THEOREM ErrorIsRepeatedAlways ==
  ASSUME NoLeaves
  PROVE  Spec => []ErrorIsRepeated
<1>1. Init => SafeInv /\ ErrorInv
  BY InitSafe, ErrorInit
<1>2. SafeInv /\ ErrorInv /\ [Next]_vars => SafeInv' /\ ErrorInv'
  BY NextSafe, ErrorNext
<1>3. ErrorInv => ErrorIsRepeated
  BY DEF ErrorInv, Repeats, ErrorIsRepeated
<1>4. QED
  BY <1>1, <1>2, <1>3, PTL DEF Spec

-----------------------------------------------------------------------------
(* The promise to the peer.                                                *)

Early == Provisional \cup {Trying}

(* The response a live transaction keeps tells its state, and a 2xx has    *)
(* been given to it only by a user agent in Accepted.                      *)
Chosen(t, u) ==
  ~t.terminated =>
     /\ t.state = "Proceeding" => t.msg \in Early \cup {NoMsg}
     /\ t.state = "Sending2xx" => t.msg = Ok /\ u.state = "Accepted"
     /\ t.state \in {"Completed", "Confirmed"} => t.msg = Reject
     /\ \A i \in DOMAIN t.queue : t.queue[i] = Ok => u.state = "Accepted"

AllInv == SafeInv /\ OrderInv /\ ErrorInv /\ Chosen(ta, ua)

(* A step the peer was promised, or one that it does not see.              *)
Promised == [Promise!Next]_(Promise!vars)

(* What each step has to show.                                             *)
Simulates == Chosen(ta, ua)' /\ Promised

-----------------------------------------------------------------------------
(* The ways in which a step of the server side can be promised.            *)
LEMMA Unseen ==
  ASSUME GetState' = GetState, FinalChosen' = FinalChosen,
         hist'.wire = hist.wire
  PROVE  Promised
BY DEF Promised, Promise!vars

LEMMA Terminates ==
  ASSUME GetState # "Terminated", GetState' = "Terminated",
         FinalChosen' = FinalChosen, hist'.wire = hist.wire
  PROVE  Promised
BY DEF Promised, Promise!Next, Promise!End

LEMMA Chooses ==
  ASSUME GetState = "Proceeding", FinalChosen = NoMsg,
         hist'.wire = hist.wire,
         \/ FinalChosen' = Reject /\ GetState' \in {"Proceeding", "Completed"}
         \/ FinalChosen' = Ok /\ GetState' \in {"Proceeding", "Terminated"}
  PROVE  Promised
BY DEF Promised, Promise!Next, Promise!ChooseReject, Promise!ChooseOk,
       Promise!Choose

LEMMA SendsEarly ==
  ASSUME GetState = "Proceeding", FinalChosen' = FinalChosen,
         hist'.wire = hist.wire \/ (hist'.wire \in Early
                                    /\ hist'.wire >= hist.wire),
         \/ GetState' = "Proceeding"
         \/ FinalChosen = Reject /\ GetState' = "Completed"
         \/ FinalChosen = Ok /\ GetState' = "Terminated"
  PROVE  Promised
<1>1. CASE GetState' = "Proceeding" /\ hist'.wire = hist.wire
  BY <1>1, Unseen
<1>2. CASE GetState' = "Proceeding" /\ hist'.wire # hist.wire
  BY <1>2 DEF Promised, Promise!Next, Promise!SendProvisional, Early
<1>3. CASE GetState' # "Proceeding"
  BY <1>3
  DEF Promised, Promise!Next, Promise!Move, Early, Ok, Reject, NoMsg
<1>4. QED
  BY <1>1, <1>2, <1>3

LEMMA SendsFinal ==
  ASSUME \/ /\ FinalChosen = Reject /\ hist'.wire = Reject
            /\ GetState \in {"Completed", "Confirmed"}
         \/ /\ FinalChosen = Ok /\ hist'.wire = Ok
            /\ GetState = "Terminated",
         GetState' = GetState, FinalChosen' = FinalChosen
  PROVE  Promised
BY DEF Promised, Promise!Next, Promise!SendReject, Promise!SendOk

-----------------------------------------------------------------------------
(* What was sent, or will be when the queue reaches it.                    *)
LEMMA SendAndStoreShape ==
  ASSUME NoLeaves, NEW t \in TaType, NEW r \in Code, NEW tm \in TimerType,
         NEW s \in SendAndStore(t, r, tm)
  PROVE  /\ ~s.left /\ s.ta.terminated = t.terminated
         /\ s.ta.state = StateAfter(r) /\ s.ta.msg = r
         /\ s.ta.queue = t.queue
<1>1. s = [Sent(t, r, tm) EXCEPT !.tm = WithTimerH(r, tm)]
  BY DEF NoLeaves, SendAndStore
<1>2. s.ta = [t EXCEPT !.state = StateAfter(r), !.msg = r] /\ ~s.left
  BY <1>1 DEF Sent
<1>3. QED
  BY <1>2 DEF TaType

LEMMA Kinds ==
  ASSUME NEW r \in Code
  PROVE  \/ r = Reject /\ StateAfter(r) = "Completed"
         \/ r = Ok /\ StateAfter(r) = "Sending2xx"
         \/ /\ r \in Early /\ r < 200 /\ r # Ok /\ r # Reject
            /\ StateAfter(r) = "Proceeding"
BY InviteServerAssumption
DEF Code, Early, Provisional, StateAfter, Trying, Ok, Reject

(* A response is given while none is chosen: it is sent at once, or queued.*)
LEMMA GivesPromise ==
  ASSUME AllInv, NoLeaves, NEW r \in Code, NEW tm \in TimerType,
         NEW s \in SendResponse(ta, r, tm), ta' = s.ta, ~ua.stopped,
         ua.state \in {"GetTxOwner", "WaitRespFromApp"},
         hist'.wire = hist.wire,
         \/ r = Reject /\ ua'.state = "Rejected"
         \/ r = Ok /\ ua'.state = "Accepted"
         \/ r < 200 /\ ua'.state = ua.state
  PROVE  Simulates
<1>1. /\ ta \in TaType /\ ~ta.terminated /\ ta.state = "Proceeding"
      /\ \A i \in DOMAIN ta.queue : ta.queue[i] # Ok
      /\ ta.msg \in Early \cup {NoMsg} /\ r \in Nat
  BY Codes
  DEF AllInv, SafeInv, TypeOK, ErrorInv, Waits, Chosen
<1>2. GetState = "Proceeding" /\ FinalChosen = NoMsg
  BY <1>1 DEF GetState, FinalChosen
<1>3. FinalChosen' = CASE r = Ok -> Ok [] r = Reject -> Reject
                       [] OTHER -> NoMsg
  BY <1>1, Kinds DEF FinalChosen, Ok, Reject
<1>4. CASE tx.to = "none"
  <2>1. s \in SendAndStore(ta, r, tm)
    BY <1>1, <1>4 DEF SendResponse
  <2>2. /\ ~ta'.terminated /\ ta'.state = StateAfter(r) /\ ta'.msg = r
        /\ ta'.queue = ta.queue
    BY <1>1, <2>1, SendAndStoreShape
  <2>3. CASE r = Reject /\ StateAfter(r) = "Completed"
    <3>1. GetState' = "Completed" /\ FinalChosen' = Reject
      BY <1>3, <2>2, <2>3 DEF GetState, Ok, Reject
    <3>2. Chosen(ta, ua)'
      BY <1>1, <2>2, <2>3 DEF Chosen
    <3>3. QED
      BY <1>2, <3>1, <3>2, Chooses DEF Simulates
  <2>4. CASE r = Ok /\ StateAfter(r) = "Sending2xx"
    <3>1. GetState' = "Terminated" /\ FinalChosen' = Ok
      BY <1>3, <2>2, <2>4 DEF GetState, Ok, Reject
    <3>2. ua'.state = "Accepted"
      BY <2>4 DEF Ok, Reject
    <3>3. Chosen(ta, ua)'
      BY <1>1, <2>2, <2>4, <3>2 DEF Chosen
    <3>4. QED
      BY <1>2, <3>1, <3>3, Chooses DEF Simulates
  <2>5. CASE /\ r \in Early /\ r # Ok /\ r # Reject
             /\ StateAfter(r) = "Proceeding"
    <3>1. GetState' = "Proceeding" /\ FinalChosen' = NoMsg
      BY <1>3, <2>2, <2>5 DEF GetState
    <3>2. Chosen(ta, ua)'
      BY <1>1, <2>2, <2>5 DEF Chosen
    <3>3. QED
      BY <1>2, <3>1, <3>2, Unseen DEF Simulates
  <2>6. QED
    BY <2>3, <2>4, <2>5, Kinds
<1>5. CASE tx.to # "none"
  <2> DEFINE t2 == [ta EXCEPT !.queue = Enqueue(@, r)]
  <2>1. ta' = t2
    BY <1>1, <1>5 DEF SendResponse, NoLeaves
  <2>2. /\ t2.terminated = ta.terminated /\ t2.state = ta.state
        /\ t2.queue = Append(ta.queue, r) /\ t2.msg = ta.msg
        /\ ta.queue \in Seq(Code)
    BY <1>1 DEF TaType, Enqueue
  <2> HIDE DEF t2
  <2>3. /\ DOMAIN Append(ta.queue, r) = 1..(Len(ta.queue) + 1)
        /\ DOMAIN ta.queue = 1..Len(ta.queue)
        /\ \A i \in 1..Len(ta.queue) : Append(ta.queue, r)[i] = ta.queue[i]
        /\ Append(ta.queue, r)[Len(ta.queue) + 1] = r
        /\ Len(ta.queue) \in Nat
    BY <2>2
  <2>4. \A i \in DOMAIN ta'.queue : ta'.queue[i] = Ok => r = Ok
    <3> SUFFICES ASSUME NEW i \in DOMAIN ta'.queue, ta'.queue[i] = Ok
                 PROVE  r = Ok
      OBVIOUS
    <3>1. i \in 1..Len(ta.queue) \/ i = Len(ta.queue) + 1
      BY <2>1, <2>2, <2>3
    <3>2. QED
      BY <1>1, <2>1, <2>2, <2>3, <3>1
  <2>5. r = Ok => ua'.state = "Accepted"
    BY DEF Ok, Reject
  <2>6. Chosen(ta, ua)'
    BY <1>1, <2>1, <2>2, <2>4, <2>5 DEF Chosen
  <2>7. GetState' = "Proceeding"
    BY <1>1, <2>1, <2>2 DEF GetState
  <2>8. \/ FinalChosen' = Reject \/ FinalChosen' = Ok
        \/ FinalChosen' = NoMsg
    BY <1>3, Kinds
  <2>9. QED
    BY <1>2, <2>6, <2>7, <2>8, Chooses, Unseen DEF Simulates
<1>6. QED
  BY <1>4, <1>5

(* Steps that leave the transaction and the choice as they are.            *)
LEMMA QuietPromise ==
  ASSUME AllInv, UNCHANGED ta, ua'.state = ua.state, hist'.wire = hist.wire
  PROVE  Simulates
<1>1. GetState' = GetState /\ FinalChosen' = FinalChosen
  BY DEF GetState, FinalChosen
<1>2. Chosen(ta, ua)'
  BY DEF AllInv, Chosen
<1>3. QED
  BY <1>1, <1>2, Unseen DEF Simulates

(* The end of a live transaction, not after the 2xx was sent.              *)
LEMMA EndPromise ==
  ASSUME AllInv, ~ta.terminated, ta.state # "Sending2xx", ta'.terminated,
         ta \in TaType, ua'.state = ua.state, hist'.wire = hist.wire
  PROVE  Simulates
<1>1. GetState # "Terminated" /\ GetState' = "Terminated"
  BY DEF GetState, TaType, TaState
<1>2. FinalChosen' = FinalChosen /\ Chosen(ta, ua)'
  BY DEF FinalChosen, Chosen
<1>3. QED
  BY <1>1, <1>2, Terminates DEF Simulates

-----------------------------------------------------------------------------
(* Requests from the network, the router and the application.              *)
LEMMA FirstInvitePromise ==
  ASSUME AllInv, NoLeaves, FirstInvite
  PROVE  Simulates
<1> DEFINE tPassed == [[ta EXCEPT !.msg = Trying] EXCEPT !.passed = TRUE]
           tQueued == [tPassed EXCEPT !.queue = <<Reject>>]
<1>1. /\ ~ta.terminated /\ ~ua.stopped /\ ua.state = "Start"
      /\ ta \in TaType /\ ua \in UaType /\ hist \in HistType
      /\ ta.state = "Proceeding"
      /\ \A i \in DOMAIN ta.queue : ta.queue[i] # Ok
  BY DEF FirstInvite, AllInv, SafeInv, TypeOK, RetransmitInv, ErrorInv,
         Waits, Chosen
<1>2. /\ tPassed.state = "Proceeding" /\ ~tPassed.terminated
      /\ tPassed.queue = ta.queue /\ tPassed.msg = Trying
      /\ tQueued.state = "Proceeding" /\ ~tQueued.terminated
      /\ tQueued.queue = <<Reject>> /\ tQueued.msg = Trying
  BY <1>1 DEF TaType
<1> HIDE DEF tPassed, tQueued
<1>3. GetState = "Proceeding" /\ FinalChosen = NoMsg
  BY <1>1 DEF GetState, FinalChosen
<1>4. CASE /\ ta' = tPassed /\ hist'.wire = hist.wire
           /\ ua'.state \in {"WaitRespFromApp", "GetTxOwner"}
  <2>1. GetState' = "Proceeding" /\ FinalChosen' = NoMsg
    BY <1>2, <1>4 DEF GetState, FinalChosen
  <2>2. Chosen(ta, ua)'
    BY <1>1, <1>2, <1>4 DEF Chosen, Early
  <2>3. QED
    BY <1>3, <1>4, <2>1, <2>2, Unseen DEF Simulates
<1>5. CASE /\ ta' = tQueued /\ hist'.wire = hist.wire
           /\ ua'.state = "Rejected"
  <2>1. GetState' = "Proceeding" /\ FinalChosen' = Reject
    BY <1>2, <1>5 DEF GetState, FinalChosen
  <2>2. Chosen(ta, ua)'
    BY <1>1, <1>2, <1>5 DEF Chosen, Early, Ok, Reject
  <2>3. QED
    BY <1>3, <1>5, <2>1, <2>2, Chooses DEF Simulates
<1>6. \/ /\ ta' = tPassed
         /\ \/ /\ hist' = [hist EXCEPT !.told = TRUE]
               /\ ua' = [ua EXCEPT !.state = "WaitRespFromApp",
                                   !.owner = TRUE]
            \/ /\ hist' = hist
               /\ ua' = [ua EXCEPT !.state = "GetTxOwner"]
      \/ /\ ta' = tQueued
         /\ ua' = Rejecting(ua)
         /\ hist' = hist
  BY DEF FirstInvite, NoLeaves, tPassed, tQueued
<1>7. [hist EXCEPT !.told = TRUE].wire = hist.wire
  BY <1>1 DEF HistType
<1>8. /\ [ua EXCEPT !.state = "WaitRespFromApp", !.owner = TRUE].state
           = "WaitRespFromApp"
      /\ [ua EXCEPT !.state = "GetTxOwner"].state = "GetTxOwner"
  BY <1>1 DEF UaType
<1>9. QED
  BY <1>1, <1>4, <1>5, <1>6, <1>7, <1>8, RejectingState

LEMMA FurtherRequestPromise ==
  ASSUME AllInv, NoLeaves, InviteAgain \/ AckToTa \/ AckToUa
  PROVE  Simulates
<1>1. /\ ta \in TaType /\ ua \in UaType /\ hist \in HistType
  BY DEF AllInv, SafeInv, TypeOK
<1>2. CASE InviteAgain
  BY <1>2, QuietPromise DEF InviteAgain, NoLeaves
<1>3. CASE AckToTa
  <2>1. /\ ta' = [ta EXCEPT !.state = "Confirmed"]
        /\ UNCHANGED <<ua, hist>>
        /\ ~ta.terminated /\ ta.state = "Completed"
    BY <1>3 DEF AckToTa, NoLeaves
  <2>2. /\ ta'.state = "Confirmed" /\ ta'.queue = ta.queue
        /\ ta'.msg = ta.msg /\ ~ta'.terminated
    BY <1>1, <2>1 DEF TaType
  <2>3. GetState = "Completed" /\ GetState' = "Confirmed"
    BY <2>1, <2>2 DEF GetState
  <2>4. FinalChosen' = FinalChosen
    BY <2>1 DEF FinalChosen
  <2>5. Chosen(ta, ua)'
    BY <2>1, <2>2 DEF AllInv, Chosen
  <2>6. Promised
    BY <2>1, <2>3, <2>4
    DEF Promised, Promise!Next, Promise!Acknowledged
  <2>7. QED
    BY <2>5, <2>6 DEF Simulates
<1>4. CASE AckToUa
  <2>1. PICK found \in BOOLEAN :
          Stop([ua EXCEPT !.owner = found \/ @], doomed, hist)
    BY <1>4 DEF AckToUa
  <2> DEFINE u == [ua EXCEPT !.owner = found \/ @]
  <2>2. u \in UaType /\ u.state = ua.state /\ Stop(u, doomed, hist)
    BY <1>1, <2>1 DEF UaType
  <2> HIDE DEF u
  <2>3. ua'.state = ua.state /\ hist'.wire = hist.wire
    BY <1>1, <2>2, StopWire
  <2>4. QED
    BY <1>4, <2>3, QuietPromise DEF AckToUa
<1>5. QED
  BY <1>2, <1>3, <1>4

LEMMA CancelPromise ==
  ASSUME AllInv, NoLeaves, Cancel
  PROVE  Simulates
<1>1. /\ ta \in TaType /\ ua \in UaType /\ timer \in TimerType
      /\ hist \in HistType /\ Reject \in Code /\ ~ua.stopped
  BY Codes DEF Cancel, AllInv, SafeInv, TypeOK
<1>2. \A u \in UaType : CancelHandled(u, hist).u.state = u.state
  BY DEF CancelHandled, UaType
<1>3. CASE ua.state \in {"GetTxOwner", "WaitRespFromApp"}
  <2>1. PICK s \in SendResponse(ta, Reject, timer) :
          /\ ta' = s.ta
          /\ \/ /\ ua' = Rejecting(ua)
                /\ hist' = Disowned(hist, Reject, TRUE)
             \/ /\ ua' = CancelHandled(Rejecting(ua), hist).u
                /\ hist' = CancelHandled(Rejecting(ua), hist).h
    BY <1>3 DEF Cancel
  <2>2. ua'.state = "Rejected" /\ hist'.wire = hist.wire
    <3>1. ua'.state = "Rejected"
      BY <1>1, <1>2, <2>1, RejectingState
    <3>2. hist'.wire = hist.wire
      BY <1>1, <2>1, CanceledWire DEF Disowned, HistType
    <3>3. QED
      BY <3>1, <3>2
  <2>3. QED
    BY <1>1, <1>3, <2>1, <2>2, GivesPromise
<1>4. CASE /\ ua.state = "Accepted" /\ ua' = CancelHandled(ua, hist).u
           /\ hist' = CancelHandled(ua, hist).h /\ UNCHANGED ta
  BY <1>1, <1>2, <1>4, CanceledWire, QuietPromise
<1>5. QED
  BY <1>3, <1>4 DEF Cancel

LEMMA RouterPromise ==
  ASSUME AllInv, NoLeaves,
         \/ OwnerFound \/ OwnerNotFound \/ RouterError
         \/ TimerOwnerResolver
  PROVE  Simulates
<1> DEFINE off == [timer EXCEPT !["OwnerResolver"] = "off"]
<1>1. /\ ta \in TaType /\ ua \in UaType /\ timer \in TimerType
      /\ hist \in HistType /\ Reject \in Code /\ off \in TimerType
  BY Codes DEF AllInv, SafeInv, TypeOK, TimerType
<1>2. ASSUME NEW tm \in TimerType, NEW s \in SendResponse(ta, Reject, tm),
             ta' = s.ta, ~ua.stopped, ua.state = "GetTxOwner",
             ua'.state = "Rejected", hist'.wire = hist.wire
      PROVE  Simulates
  BY <1>1, <1>2, GivesPromise
<1> HIDE DEF off
<1>3. CASE OwnerFound
  <2>1. CASE ~ua.stopped /\ ua.state = "GetTxOwner"
    <3>1. /\ ua' = [ua EXCEPT !.state = "WaitRespFromApp", !.owner = TRUE]
          /\ hist' = [hist EXCEPT !.told = TRUE] \/ hist' = hist
          /\ ta' = ta
      BY <1>3, <2>1 DEF OwnerFound
    <3>2. ua'.state = "WaitRespFromApp" /\ hist'.wire = hist.wire
      BY <1>1, <3>1 DEF UaType, HistType
    <3>3. GetState' = GetState /\ FinalChosen' = FinalChosen
      BY <2>1, <3>1, <3>2 DEF GetState, FinalChosen
    <3>4. Chosen(ta, ua)'
      BY <2>1, <3>1, <3>2 DEF AllInv, Chosen
    <3>5. QED
      BY <3>2, <3>3, <3>4, Unseen DEF Simulates
  <2>2. CASE UNCHANGED <<ta, ua, hist>>
    BY <2>2, QuietPromise
  <2>3. QED
    BY <1>3, <2>1, <2>2 DEF OwnerFound
<1>4. CASE OwnerNotFound
  <2>1. CASE UNCHANGED <<ta, ua, hist>>
    BY <2>1, QuietPromise
  <2>2. CASE ~ua.stopped /\ ua.state = "GetTxOwner"
    <3>1. PICK s \in SendResponse(ta, Reject, off) :
            /\ ta' = s.ta /\ ua' = Rejecting(ua)
            /\ hist' = Disowned(hist, Reject, s.left)
      BY <1>4, <2>2 DEF OwnerNotFound, off
    <3>2. ua'.state = "Rejected" /\ hist'.wire = hist.wire
      BY <1>1, <3>1, RejectingState DEF Disowned, HistType
    <3>3. QED
      BY <1>1, <1>2, <2>2, <3>1, <3>2
  <2>3. QED
    BY <1>4, <2>1, <2>2 DEF OwnerNotFound
<1>5. CASE RouterError
  <2>1. CASE Stop(ua, doomed, hist) /\ UNCHANGED ta
    BY <1>1, <2>1, StopWire, QuietPromise
  <2>2. CASE /\ ~ua.stopped /\ ua.state = "GetTxOwner"
             /\ \E s \in SendResponse(ta, Reject, off) :
                  /\ ta' = s.ta
                  /\ \/ Stop(Rejecting(ua), doomed,
                             Disowned(hist, Reject, TRUE))
                     \/ ua' = Rejecting(ua) /\ hist' = hist
    <3> DEFINE h == Disowned(hist, Reject, TRUE)
               u == Rejecting(ua)
    <3>1. h \in HistType /\ h.wire = hist.wire
      BY <1>1 DEF Disowned, HistType
    <3>2. u \in UaType /\ u.state = "Rejected"
      BY <1>1, RejectingState
    <3>3. Stop(u, doomed, h) \/ (ua' = u /\ hist' = hist)
      BY <2>2
    <3> HIDE DEF h, u
    <3>4. ua'.state = "Rejected" /\ hist'.wire = hist.wire
      BY <3>1, <3>2, <3>3, StopWire
    <3>5. QED
      BY <1>1, <1>2, <2>2, <3>4
  <2>3. QED
    BY <1>5, <2>1, <2>2 DEF RouterError, off
<1>6. CASE TimerOwnerResolver
  <2>1. CASE ua.state = "GetTxOwner"
    <3>1. PICK s \in SendResponse(ta, Reject, timer) :
            /\ ta' = s.ta /\ ua' = Rejecting(ua)
            /\ hist' = Disowned(hist, Reject, s.left)
      BY <1>6, <2>1 DEF TimerOwnerResolver
    <3>2. ~ua.stopped
      BY <1>6 DEF TimerOwnerResolver
    <3>3. ua'.state = "Rejected" /\ hist'.wire = hist.wire
      BY <1>1, <3>1, RejectingState DEF Disowned, HistType
    <3>4. QED
      BY <1>1, <1>2, <2>1, <3>1, <3>2, <3>3
  <2>2. CASE ua.state # "GetTxOwner"
    BY <1>6, <2>2, QuietPromise DEF TimerOwnerResolver
  <2>3. QED
    BY <2>1, <2>2
<1>7. QED
  BY <1>3, <1>4, <1>5, <1>6

LEMMA ApplicationPromise ==
  ASSUME AllInv, NoLeaves,
         \/ AppProvisional \/ AppRejects \/ AppAccepts
         \/ ClearTransactionOwner
  PROVE  Simulates
<1>1. /\ ta \in TaType /\ ua \in UaType /\ timer \in TimerType
      /\ hist \in HistType /\ Reject \in Code /\ Ok \in Code
  BY Codes DEF AllInv, SafeInv, TypeOK
<1>2. ASSUME NEW r \in Code, r = Reject \/ r < 200, AppResponds(r)
      PROVE  Simulates
  <2>1. /\ ~ua.stopped /\ ua.state = "WaitRespFromApp"
    BY <1>2 DEF AppResponds
  <2>2. PICK s \in SendResponse(ta, r, timer) :
          /\ ta' = s.ta
          /\ ua' = IF r >= 300 THEN Rejecting(ua) ELSE ua
          /\ hist' = [Disowned(hist, r, s.left) EXCEPT
                        !.provs = IF r < 200 THEN @ + 1 ELSE @]
    BY <1>2 DEF AppResponds
  <2>3. hist'.wire = hist.wire
    <3> DEFINE h == Disowned(hist, r, s.left)
    <3>1. h \in HistType /\ h.wire = hist.wire
      BY <1>1 DEF Disowned, HistType
    <3> HIDE DEF h
    <3>2. [h EXCEPT !.provs = IF r < 200 THEN @ + 1 ELSE @].wire = h.wire
      BY <3>1 DEF HistType
    <3>3. QED
      BY <2>2, <3>1, <3>2 DEF h
  <2>4. \/ r = Reject /\ ua'.state = "Rejected"
        \/ r < 200 /\ ua'.state = ua.state
    <3>1. r \in Nat
      BY Codes
    <3>2. QED
      BY <1>1, <1>2, <2>2, <3>1, RejectingState DEF Reject
  <2>5. QED
    BY <1>1, <2>1, <2>2, <2>3, <2>4, GivesPromise
<1>3. CASE AppProvisional
  <2>1. hist.provs + 1 \in 1..MaxProv /\ hist.provs \in Nat
    BY <1>1, <1>3, InviteServerAssumption DEF AppProvisional, HistType
  <2>2. Trying + hist.provs + 1 \in Provisional
    BY <2>1, Codes DEF Trying
  <2>3. QED
    BY <1>2, <1>3, <2>2, Codes DEF AppProvisional
<1>4. CASE AppRejects
  BY <1>1, <1>2, <1>4 DEF AppRejects
<1>5. CASE AppAccepts
  <2> DEFINE u == [ua EXCEPT !.state = "Accepted"]
             tm == [timer EXCEPT !["WaitAck"] = "on"]
  <2>1. PICK s \in SendResponse(ta, Ok, tm) :
          /\ ta' = s.ta /\ ua' = [u EXCEPT !.has2xx = ~s.left]
          /\ hist' = Disowned(hist, Ok, s.left)
    BY <1>5 DEF AppAccepts, NoLeaves
  <2>2. ~ua.stopped /\ ua.state = "WaitRespFromApp"
    BY <1>5 DEF AppAccepts
  <2>3. tm \in TimerType /\ u \in UaType /\ u.state = "Accepted"
    BY <1>1 DEF TimerType, UaType, UaState
  <2> HIDE DEF u, tm
  <2>4. ua'.state = "Accepted" /\ hist'.wire = hist.wire
    BY <1>1, <2>1, <2>3 DEF UaType, Disowned, HistType
  <2>5. QED
    BY <1>1, <2>1, <2>2, <2>3, <2>4, GivesPromise
<1>6. CASE ClearTransactionOwner
  <2> DEFINE u == [ua EXCEPT !.owner = FALSE]
             h == [hist EXCEPT !.cleared = TRUE]
  <2>1. /\ u \in UaType /\ u.state = ua.state
        /\ h \in HistType /\ h.wire = hist.wire
    BY <1>1 DEF UaType, HistType
  <2>2. ta' = ta /\ (Stop(u, doomed, h) \/ (ua' = u /\ hist' = h))
    BY <1>6 DEF ClearTransactionOwner
  <2> HIDE DEF u, h
  <2>3. ua'.state = ua.state /\ hist'.wire = hist.wire
    BY <2>1, <2>2, StopWire
  <2>4. QED
    BY <2>2, <2>3, QuietPromise
<1>7. QED
  BY <1>3, <1>4, <1>5, <1>6

-----------------------------------------------------------------------------
(* Sends that complete.                                                    *)
LEMMA EndTaWire ==
  ASSUME SafeInv, ~ta.terminated, NEW tm \in TimerType, NEW x,
         NEW h \in HistType, EndTa(ta, tm, x, h)
  PROVE  /\ ta'.terminated /\ ua'.state = ua.state
         /\ hist'.wire = h.wire
<1>1. TypeOK /\ ta \in TaType /\ ua \in UaType
  BY DEF SafeInv, TypeOK
<1>2. ta'.terminated
  <2>1. LeaveFor2xx(ta) \in TaType
    BY <1>1, Codes DEF LeaveFor2xx, TaType
  <2>2. QED
    BY <2>1 DEF EndTa, Terminated, TaType
<1>3. CASE ua.state = "Accepted"
  <2>1. PICK r \in ReleaseTransaction(tm) : ua' = r.u /\ hist' = h
    BY <1>3 DEF EndTa
  <2>2. r.u.state = ua.state
    BY <1>1, ReleaseFacts
  <2>3. QED
    BY <1>2, <2>1, <2>2
<1>4. CASE ua.state # "Accepted"
  <2>1. Stop(ua, doomed, h)
    BY <1>4 DEF EndTa
  <2>2. QED
    BY <1>1, <1>2, <2>1, StopWire
<1>5. QED
  BY <1>3, <1>4

(* What a completed send puts on the wire is what the transaction keeps.   *)
LEMMA WireOfTa ==
  ASSUME AllInv, tx.to = "ta", NEW done \in BOOLEAN
  PROVE  /\ OnWire(hist, done).wire \in {hist.wire, ta.msg}
         /\ OnWire(hist, FALSE) = hist
         /\ ta.msg = NoMsg => OnWire(hist, done).wire = hist.wire
         /\ OnWire(hist, done) \in HistType
<1>1. /\ hist \in HistType /\ tx.msg \in {NoMsg, ta.msg} /\ tx \in TxType
  BY DEF AllInv, SafeInv, TypeOK, OrderInv, InUse
<1>2. /\ [hist EXCEPT !.wire = tx.msg] \in HistType
      /\ [hist EXCEPT !.wire = tx.msg].wire = tx.msg
  BY <1>1 DEF HistType, TxType
<1>3. QED
  BY <1>1, <1>2 DEF OnWire

LEMMA SentInProceedingPromise ==
  ASSUME AllInv, NoLeaves, tx.to = "ta", ~ta.terminated, SentInProceeding,
         hist'.wire >= hist.wire
  PROVE  Simulates
<1>1. /\ ta \in TaType /\ timer \in TimerType /\ ta.state = "Proceeding"
      /\ ta.msg \in Early \cup {NoMsg}
  BY DEF AllInv, SafeInv, TypeOK, Chosen, SentInProceeding
<1>2. GetState = "Proceeding"
  BY <1>1 DEF GetState
<1>3. hist'.wire = hist.wire \/ hist'.wire \in Early
  <2>1. hist' = OnWire(hist, TRUE)
    BY SendAndStoreShape DEF SentInProceeding, NoLeaves, SendAndStore, Sent
  <2>2. QED
    BY <1>1, <2>1, WireOfTa
<1>4. CASE ta.queue = << >>
  <2>1. UNCHANGED <<ta, ua>>
    BY <1>4 DEF SentInProceeding
  <2>2. GetState' = "Proceeding" /\ FinalChosen' = FinalChosen
    BY <1>2, <2>1 DEF GetState, FinalChosen
  <2>3. Chosen(ta, ua)'
    BY <2>1 DEF AllInv, Chosen
  <2>4. QED
    BY <1>2, <1>3, <2>2, <2>3, SendsEarly DEF Simulates
<1>5. CASE ta.queue # << >>
  <2> DEFINE t == [ta EXCEPT !.queue = Tail(@)]
             r == Head(ta.queue)
  <2>1. ta.queue \in Seq(Code) /\ ta.queue # << >>
    BY <1>1, <1>5 DEF TaType
  <2>2. /\ r \in Code /\ Tail(ta.queue) \in Seq(Code)
        /\ r = ta.queue[1] /\ 1 \in DOMAIN ta.queue
        /\ \A i \in DOMAIN Tail(ta.queue) :
             i + 1 \in DOMAIN ta.queue
             /\ Tail(ta.queue)[i] = ta.queue[i + 1]
    BY <2>1
  <2>3. /\ t \in TaType /\ t.queue = Tail(ta.queue)
        /\ t.terminated = ta.terminated
    BY <1>1, <2>2 DEF TaType
  <2>4. PICK s \in SendAndStore(t, r, timer) :
          ~s.left => ta' = s.ta /\ ua' = ua
    BY <1>5 DEF SentInProceeding
  <2> HIDE DEF t, r
  <2>5. /\ ~ta'.terminated /\ ta'.state = StateAfter(r) /\ ta'.msg = r
        /\ ta'.queue = Tail(ta.queue) /\ ua' = ua
    BY <1>1, <2>2, <2>3, <2>4, SendAndStoreShape
  <2>6. FinalChosen' = FinalChosen
    BY <2>5 DEF FinalChosen
  <2>7. \A i \in DOMAIN ta'.queue : ta'.queue[i] = Ok => ua'.state = "Accepted"
    BY <2>2, <2>5 DEF AllInv, Chosen
  <2>8. CASE r = Reject /\ StateAfter(r) = "Completed"
    <3>1. FinalChosen = Reject
      BY <2>2, <2>8 DEF AllInv, ErrorInv, Refuses, NoReject, FinalChosen
    <3>2. GetState' = "Completed"
      BY <2>5, <2>8 DEF GetState
    <3>3. Chosen(ta, ua)'
      BY <2>5, <2>7, <2>8 DEF Chosen
    <3>4. QED
      BY <1>2, <1>3, <2>6, <3>1, <3>2, <3>3, SendsEarly DEF Simulates
  <2>9. CASE r = Ok /\ StateAfter(r) = "Sending2xx"
    <3>1. ua.state = "Accepted"
      BY <2>2, <2>9 DEF AllInv, Chosen
    <3>2. GetState' = "Terminated" /\ FinalChosen = Ok
      BY <2>5, <2>9, <3>1 DEF GetState, FinalChosen
    <3>3. Chosen(ta, ua)'
      BY <2>5, <2>7, <2>9, <3>1 DEF Chosen
    <3>4. QED
      BY <1>2, <1>3, <2>6, <3>2, <3>3, SendsEarly DEF Simulates
  <2>10. CASE r \in Early /\ StateAfter(r) = "Proceeding"
    <3>1. GetState' = "Proceeding"
      BY <2>5, <2>10 DEF GetState
    <3>2. Chosen(ta, ua)'
      BY <2>5, <2>7, <2>10 DEF Chosen
    <3>3. QED
      BY <1>2, <1>3, <2>6, <3>1, <3>2, SendsEarly DEF Simulates
  <2>11. QED
    BY <2>2, <2>8, <2>9, <2>10, Kinds
<1>6. QED
  BY <1>4, <1>5

(* A send that completes once the final response is the one kept.          *)
LEMMA FinalWirePromise ==
  ASSUME AllInv, ~ta.terminated, tx.to = "ta", NEW done \in BOOLEAN,
         ta.state \in {"Completed", "Confirmed"},
         UNCHANGED <<ta, ua>>, hist' = OnWire(hist, done)
  PROVE  Simulates
<1>1. ta.msg = Reject /\ FinalChosen = Reject
  BY DEF AllInv, Chosen, ErrorInv, Refuses, NoReject, FinalChosen
<1>2. GetState \in {"Completed", "Confirmed"}
  BY DEF GetState
<1>3. GetState' = GetState /\ FinalChosen' = FinalChosen
  BY DEF GetState, FinalChosen
<1>4. hist'.wire = hist.wire \/ hist'.wire = Reject
  BY <1>1, WireOfTa
<1>5. Chosen(ta, ua)'
  BY DEF AllInv, Chosen
<1>6. QED
  BY <1>1, <1>2, <1>3, <1>4, <1>5, Unseen, SendsFinal DEF Simulates

LEMMA SendEndsTaPromise ==
  ASSUME AllInv, ~ta.terminated, tx.to = "ta", NEW done \in BOOLEAN,
         SendEndsTa(done)
  PROVE  Simulates
<1>1. ta \in TaType /\ timer \in TimerType /\ SafeInv
  BY DEF AllInv, SafeInv, TypeOK
<1>2. OnWire(hist, done) \in HistType
  BY WireOfTa
<1>3. /\ ta'.terminated /\ ua'.state = ua.state
      /\ hist'.wire = OnWire(hist, done).wire
  BY <1>1, <1>2, EndTaWire DEF SendEndsTa
<1>4. CASE ta.state = "Sending2xx"
  <2>1. ta.msg = Ok /\ FinalChosen = Ok /\ GetState = "Terminated"
    BY <1>4 DEF AllInv, Chosen, FinalChosen, GetState
  <2>2. GetState' = "Terminated" /\ FinalChosen' = FinalChosen
    BY <1>3 DEF GetState, FinalChosen
  <2>3. hist'.wire = hist.wire \/ hist'.wire = Ok
    BY <1>3, <2>1, WireOfTa
  <2>4. Chosen(ta, ua)'
    BY <1>3 DEF Chosen
  <2>5. QED
    BY <2>1, <2>2, <2>3, <2>4, Unseen, SendsFinal DEF Simulates
<1>5. CASE ta.state # "Sending2xx"
  <2>1. done = FALSE
    BY <1>5 DEF SendEndsTa
  <2>2. hist'.wire = hist.wire
    BY <1>3, <2>1, WireOfTa
  <2>3. QED
    BY <1>1, <1>3, <1>5, <2>2, EndPromise
<1>6. QED
  BY <1>4, <1>5

LEMMA SendDonePromise ==
  ASSUME AllInv, NoLeaves, TaSendDone \/ UaSendDone,
         hist'.wire >= hist.wire
  PROVE  Simulates
<1>1. /\ ta \in TaType /\ ua \in UaType /\ timer \in TimerType
      /\ hist \in HistType /\ tx \in TxType
  BY DEF AllInv, SafeInv, TypeOK
<1>2. CASE TaSendDone
  <2>1. tx.to = "ta" /\ ~ta.terminated
    BY <1>2 DEF TaSendDone, AllInv, SafeInv, TransmitterOwned
  <2>2. CASE SentInProceeding
    BY <2>1, <2>2, SentInProceedingPromise
  <2>3. CASE SentInCompleted
    <3>1. /\ UNCHANGED <<ta, ua>> /\ hist' = OnWire(hist, TRUE)
          /\ ta.state = "Completed"
      BY <2>3 DEF SentInCompleted, NoLeaves
    <3>2. QED
      BY <2>1, <3>1, FinalWirePromise
  <2>4. ASSUME NEW done \in BOOLEAN, SendEndsTa(done) PROVE Simulates
    BY <2>1, <2>4, SendEndsTaPromise
  <2>5. ASSUME NEW done \in BOOLEAN, SendInConfirmed(done) PROVE Simulates
    BY <2>1, <2>5, FinalWirePromise DEF SendInConfirmed
  <2>6. QED
    BY <1>2, <2>2, <2>3, <2>4, <2>5 DEF TaSendDone
<1>3. CASE UaSendDone
  <2>1. /\ tx.to = "ua" /\ ta' = ta /\ ta.terminated /\ ua.has2xx
        /\ ua.state = "Accepted" /\ tx.msg = Ok
    BY <1>3 DEF UaSendDone, AllInv, SafeInv, TransmitterOwned,
                RetransmitInv, OrderInv, InUse
  <2>2. /\ [hist EXCEPT !.wire = Ok] \in HistType
        /\ [hist EXCEPT !.wire = Ok].wire = Ok
    BY <1>1, Codes DEF HistType
  <2>3. \A done \in BOOLEAN :
          /\ OnWire(hist, done) \in HistType
          /\ OnWire(hist, done).wire \in {hist.wire, Ok}
    BY <1>1, <2>1, <2>2 DEF OnWire
  <2>4. /\ ua'.state = ua.state
        /\ hist'.wire = hist.wire \/ hist'.wire = Ok
    <3>1. ASSUME NEW done \in BOOLEAN,
                 Stop(ua, doomed, OnWire(hist, done))
          PROVE  /\ ua'.state = ua.state
                 /\ hist'.wire = hist.wire \/ hist'.wire = Ok
      BY <1>1, <2>3, <3>1, StopWire
    <3>2. CASE ua' = ua /\ hist' = OnWire(hist, TRUE)
      BY <2>3, <3>2
    <3>3. QED
      BY <1>3, <3>1, <3>2 DEF UaSendDone
  <2>5. GetState = "Terminated" /\ GetState' = GetState
    BY <2>1 DEF GetState
  <2>6. FinalChosen = Ok /\ FinalChosen' = FinalChosen
    BY <2>1, <2>4 DEF FinalChosen
  <2>7. Chosen(ta, ua)'
    BY <2>1 DEF Chosen
  <2>8. QED
    BY <2>4, <2>5, <2>6, <2>7, Unseen, SendsFinal DEF Simulates
<1>4. QED
  BY <1>2, <1>3

-----------------------------------------------------------------------------
(* Expiring timers, and deletion.                                          *)
LEMMA TimerPromised ==
  ASSUME AllInv, NoLeaves, TimerStep
  PROVE  Simulates
<1>1. /\ ta \in TaType /\ ua \in UaType /\ timer \in TimerType
      /\ hist \in HistType /\ SafeInv
  BY DEF AllInv, SafeInv, TypeOK
<1>2. CASE UNCHANGED <<ta, ua, hist>>
  BY <1>2, QuietPromise
<1>3. ASSUME NEW t \in {"H", "I"}, TimerEndsTa(t) PROVE Simulates
  <2>1. /\ EndTa(ta, [timer EXCEPT ![t] = "off"], tx, hist)
        /\ ~ta.terminated /\ ta.state # "Sending2xx"
    BY <1>3 DEF TimerEndsTa
  <2>2. [timer EXCEPT ![t] = "off"] \in TimerType
    BY <1>1 DEF TimerType
  <2>3. /\ ta'.terminated /\ ua'.state = ua.state
        /\ hist'.wire = hist.wire
    BY <1>1, <2>1, <2>2, EndTaWire
  <2>4. QED
    BY <1>1, <2>1, <2>3, EndPromise
<1>4. CASE TimerWaitAck
  <2>1. Stop(ua, doomed, hist) /\ ta' = ta
    BY <1>4 DEF TimerWaitAck
  <2>2. QED
    BY <1>1, <2>1, StopWire, QuietPromise
<1>5. CASE TimerOwnerResolver
  BY <1>5, RouterPromise
<1>6. QED
  BY <1>2, <1>3, <1>4, <1>5
  DEF TimerStep, TimerIgnored, TimerG, TimerRetransmit2xx

LEMMA DeletionPromise ==
  ASSUME AllInv, DeleteMgrRuns \/ StoreFreesMarked
  PROVE  Simulates
<1>1. hist \in HistType /\ UNCHANGED <<ta, ua>>
  BY DEF AllInv, SafeInv, TypeOK, DeleteMgrRuns, StoreFreesMarked
<1>2. PICK objs \in {doomed, {"ua"}} : Destroy(objs)
  BY DEF DeleteMgrRuns, StoreFreesMarked
<1>3. hist'.wire = hist.wire
  BY <1>1, <1>2 DEF Destroy, HistType
<1>4. QED
  BY <1>1, <1>3, QuietPromise

-----------------------------------------------------------------------------
LEMMA PromiseInit == Init => Promise!Init /\ Chosen(ta, ua)
BY DEF Init, Promise!Init, GetState, FinalChosen, Chosen, Early

LEMMA PromiseNext ==
  ASSUME AllInv, NoLeaves, [Next]_vars, hist'.wire >= hist.wire
  PROVE  Simulates
<1>1. CASE UNCHANGED vars
  BY <1>1, QuietPromise DEF vars
<1>2. CASE Environment
  BY <1>2, FirstInvitePromise, FurtherRequestPromise, CancelPromise,
     RouterPromise, ApplicationPromise DEF Environment
<1>3. QED
  BY <1>1, <1>2, SendDonePromise, TimerPromised, DeletionPromise DEF Next

(* Without leaves the server side of an INVITE implements its promise:     *)
(* provisional responses in order, one final response chosen for good, an  *)
(* error repeated only in Completed and Confirmed, a 2xx sent only once    *)
(* the transaction counts as terminated.                                   *)
THEOREM PromiseIsKept ==
  ASSUME NoLeaves
  PROVE  Spec => KeepsPromise
<1>1. Init => AllInv /\ Promise!Init
  BY InitSafe, OrderInit, ErrorInit, PromiseInit DEF AllInv
<1>2. AllInv /\ [Next]_vars => AllInv' /\ [Promise!Next]_(Promise!vars)
  <2> SUFFICES ASSUME AllInv, [Next]_vars
               PROVE  AllInv' /\ [Promise!Next]_(Promise!vars)
    OBVIOUS
  <2>1. SafeInv' /\ OrderInv' /\ hist'.wire >= hist.wire
    BY NextSafe, OrderNext DEF AllInv, Kept
  <2>2. ErrorInv'
    BY ErrorNext DEF AllInv
  <2>3. Simulates
    BY <2>1, PromiseNext
  <2>4. QED
    BY <2>1, <2>2, <2>3 DEF AllInv, Simulates, Promised
<1>3. QED
  BY <1>1, <1>2, PTL DEF Spec, KeepsPromise, Promise!Spec

=============================================================================
