-------------------- MODULE InviteServerHistory_proofs ----------------------
(***************************************************************************)
(* Theorems about the history of an INVITE: what the owner hears of its    *)
(* end, that the 2xx both objects point to is deleted once, and in which   *)
(* order the responses reach the wire; for every set of calls that may     *)
(* leave and every number of provisional responses.  They build on the     *)
(* invariant SafeInv.                                                      *)
(***************************************************************************)
EXTENDS InviteServer_proofs

-----------------------------------------------------------------------------
(* The end of an INVITE and the deletion of what it leaves behind.         *)

(* An owner that was told of the INVITE and has not withdrawn heard of the *)
(* end, or the running user agent u still knows it.                        *)
Hears(u, h) ==
  h.told /\ ~h.cleared => h.ended >= 1 \/ (u.owner /\ ~u.stopped)

(* What keeps a second end from the owner: u has stopped, or forgot its    *)
(* owner when a CANCEL was handled.                                        *)
Ends(u, h) ==
  \/ h.ended = 0
  \/ h.ended = 1 /\ u.stopped
  \/ h.ended = 1 /\ u.canceled /\ u.state = "Rejected" /\ ~u.owner
  \/ u.canceled /\ u.state = "Accepted"

(* One of CDeleteMgr and the store frees the user agent, and nothing frees *)
(* a 2xx before that; a transaction that has terminated has given up its.  *)
FreedInv ==
  /\ ~("ua" \in doomed /\ marked)
  /\ "ua" \in doomed \/ marked => "ua" \notin gone
  /\ hist.freed2xx <= 1 /\ (hist.freed2xx > 0 => "ua" \in gone)
  /\ ta.terminated => ta.msg # Ok

EndInv == Hears(ua, hist) /\ Ends(ua, hist) /\ FreedInv

-----------------------------------------------------------------------------
(* A step that neither stops nor deletes the user agent.                   *)
LEMMA QuietEnd ==
  ASSUME SafeInv, EndInv, UNCHANGED <<doomed, marked, gone>>,
         ta'.terminated => ta'.msg # Ok,
         hist'.freed2xx = hist.freed2xx,
         Hears(ua', hist'), Ends(ua', hist')
  PROVE  EndInv'
BY DEF EndInv, FreedInv, Hears, Ends

(* Stop tells the owner u knows, and hands u to one of those who free it.  *)
LEMMA StopEnd ==
  ASSUME SafeInv, EndInv, NEW u \in UaType, NEW d, NEW h \in HistType,
         Stop(u, d, h), gone' = gone,
         u.stopped = ua.stopped, "ua" \in d <=> "ua" \in doomed,
         h.freed2xx = hist.freed2xx, Hears(u, h), Ends(u, h),
         ta'.terminated => ta'.msg # Ok
  PROVE  EndInv'
<1>1. h.ended \in Nat
  BY DEF HistType
<1>2. CASE u.stopped
  <2>1. ua' = u /\ hist' = h /\ doomed' = d /\ marked' = marked
    BY <1>2 DEF Stop
  <2>2. QED
    BY <2>1 DEF EndInv, FreedInv, Hears, Ends
<1>3. CASE ~u.stopped
  <2>1. /\ ua' = [u EXCEPT !.stopped = TRUE]
        /\ hist' = [h EXCEPT !.ended = IF u.owner THEN @ + 1 ELSE @]
        /\ \/ doomed' = d \cup {"ua"} /\ marked' = marked
           \/ doomed' = d /\ marked' = TRUE
    BY <1>3 DEF Stop
  <2>2. /\ ua'.stopped /\ ua'.state = u.state /\ ua'.owner = u.owner
        /\ ua'.canceled = u.canceled
    BY <2>1 DEF UaType
  <2>3. /\ hist'.ended = IF u.owner THEN h.ended + 1 ELSE h.ended
        /\ hist'.told = h.told /\ hist'.cleared = h.cleared
        /\ hist'.freed2xx = h.freed2xx
    BY <2>1 DEF HistType
  <2>4. "ua" \notin doomed /\ ~marked /\ "ua" \notin gone
    BY <1>3 DEF SafeInv, DeletionInv
  <2>5. FreedInv'
    BY <2>1, <2>3, <2>4 DEF EndInv, FreedInv
  <2>6. Hears(ua', hist')
    BY <1>1, <1>3, <2>2, <2>3 DEF Hears
  <2>7. Ends(ua', hist')
    BY <1>1, <1>3, <2>2, <2>3 DEF Ends
  <2>8. QED
    BY <2>5, <2>6, <2>7 DEF EndInv, Hears, Ends
<1>4. QED
  BY <1>2, <1>3

(* ReleaseTransaction changes nothing the owner could notice.              *)
LEMMA ReleaseEnd ==
  ASSUME TypeOK, NEW tm \in TimerType, NEW r \in ReleaseTransaction(tm)
  PROVE  r.u.owner = ua.owner /\ r.u.canceled = ua.canceled
<1>1. /\ [ua EXCEPT !.holds = FALSE].owner = ua.owner
      /\ [ua EXCEPT !.holds = FALSE].canceled = ua.canceled
  BY DEF TypeOK, UaType
<1> DEFINE freed == [ua EXCEPT !.holds = FALSE]
           both == doomed \cup {"ta"}
           on == [tm EXCEPT !["Retransmit2xx"] = "on"]
<1>2. \/ r = [u |-> freed, d |-> both, tm |-> on]
      \/ r = [u |-> freed, d |-> both, tm |-> tm]
      \/ r = [u |-> ua, d |-> doomed, tm |-> tm]
  BY DEF ReleaseTransaction
<1>3. freed.owner = ua.owner /\ freed.canceled = ua.canceled
  BY <1>1
<1> HIDE DEF freed, both, on
<1>4. CASE r = [u |-> freed, d |-> both, tm |-> on]
  BY <1>3, <1>4
<1>5. CASE r = [u |-> freed, d |-> both, tm |-> tm]
  BY <1>3, <1>5
<1>6. CASE r = [u |-> ua, d |-> doomed, tm |-> tm]
  BY <1>6
<1>7. QED
  BY <1>2, <1>4, <1>5, <1>6

LEMMA TerminatedGivesUp == ASSUME NEW t \in TaType
                           PROVE  Terminated(t).msg # Ok
<1>1. LeaveFor2xx(t) \in TaType /\ LeaveFor2xx(t).msg # Ok
  BY Codes DEF LeaveFor2xx, TaType, Ok, NoMsg
<1>2. QED
  BY <1>1 DEF Terminated, TaType

(* CTransaction::TerminatedL and CTransaction::LeaveOccurred.              *)
LEMMA EndTaEnd ==
  ASSUME SafeInv, EndInv, NEW tm \in TimerType, NEW x, NEW h \in HistType,
         ~ta.terminated, EndTa(ta, tm, x, h), gone' = gone,
         h.freed2xx = hist.freed2xx, Hears(ua, h), Ends(ua, h)
  PROVE  EndInv'
<1>1. TypeOK /\ ta \in TaType /\ ua \in UaType
  BY DEF SafeInv, TypeOK
<1>2. ta'.msg # Ok
  BY <1>1, TerminatedGivesUp DEF EndTa
<1>3. CASE ua.state = "Accepted"
  <2>1. PICK r \in ReleaseTransaction(tm) : ua' = r.u /\ doomed' = r.d
    BY <1>3 DEF EndTa
  <2>2. hist' = h /\ marked' = marked
    BY <1>3 DEF EndTa
  <2>3. /\ ua'.owner = ua.owner /\ ua'.canceled = ua.canceled
        /\ ua'.state = ua.state /\ ua'.stopped = ua.stopped
        /\ "ua" \in doomed' <=> "ua" \in doomed
    BY <1>1, <2>1, ReleaseFacts, ReleaseEnd
  <2>4. Hears(ua', hist') /\ Ends(ua', hist')
    BY <2>2, <2>3 DEF Hears, Ends
  <2>5. FreedInv'
    BY <1>2, <2>2, <2>3 DEF EndInv, FreedInv
  <2>6. QED
    BY <2>4, <2>5 DEF EndInv, Hears, Ends
<1>4. CASE ua.state # "Accepted"
  <2>1. Stop(ua, doomed, h)
    BY <1>4 DEF EndTa
  <2>2. QED
    BY <1>1, <1>2, <2>1, StopEnd
<1>5. QED
  BY <1>3, <1>4

LEMMA EndByLeaveEnd ==
  ASSUME SafeInv, EndInv, NEW t \in TaType, NEW u \in UaType,
         NEW tm \in TimerType, NEW x, NEW h \in HistType,
         EndByLeave(t, u, tm, x, h), gone' = gone,
         u.stopped = ua.stopped, u.state = "Accepted" => u = ua,
         h.freed2xx = hist.freed2xx, Hears(u, h), Ends(u, h)
  PROVE  EndInv'
<1>1. TypeOK /\ ua \in UaType
  BY DEF SafeInv, TypeOK
<1>2. ta'.msg # Ok
  BY TerminatedGivesUp DEF EndByLeave
<1>3. CASE u.state = "Accepted" /\ ~t.terminated
  <2>1. PICK r \in ReleaseTransaction(tm) : Stop(r.u, r.d, h)
    BY <1>3 DEF EndByLeave
  <2>2. /\ r.u \in UaType /\ r.u.owner = u.owner
        /\ r.u.canceled = u.canceled
        /\ r.u.state = u.state /\ r.u.stopped = ua.stopped
        /\ "ua" \in r.d <=> "ua" \in doomed
    BY <1>1, <1>3, ReleaseFacts, ReleaseEnd
  <2>3. Hears(r.u, h) /\ Ends(r.u, h)
    BY <2>2 DEF Hears, Ends
  <2>4. QED
    BY <1>2, <2>1, <2>2, <2>3, StopEnd
<1>4. CASE ~(u.state = "Accepted" /\ ~t.terminated)
  <2>1. Stop(u, doomed, h)
    BY <1>4 DEF EndByLeave
  <2>2. QED
    BY <1>1, <1>2, <2>1, StopEnd
<1>5. QED
  BY <1>3, <1>4

(* A response leaves a terminated transaction as it is.                    *)
LEMMA RespondEnd ==
  ASSUME SafeInv, EndInv, NEW r \in Code, NEW tm \in TimerType,
         NEW s \in SendResponse(ta, r, tm)
  PROVE  /\ s.ta.terminated => s.ta.msg # Ok
         /\ s.tm \in TimerType /\ s.left \in BOOLEAN
<1>1. TypeOK /\ ta \in TaType
  BY DEF SafeInv, TypeOK
<1>2. /\ s.ta.terminated = ta.terminated
      /\ s.tm \in TimerType /\ s.left \in BOOLEAN
  BY <1>1, SendResponseFacts
<1>3. ta.terminated => s.ta = ta
  BY DEF SendResponse
<1>4. QED
  BY <1>2, <1>3 DEF EndInv, FreedInv

(* k and h tell the same of the end, as far as the properties go.          *)
SameEnd(k, h) ==
  /\ k.ended = h.ended /\ k.told = h.told /\ k.cleared = h.cleared
  /\ k.freed2xx = h.freed2xx

LEMMA SameEndKeeps ==
  ASSUME NEW u, NEW h, NEW k, SameEnd(k, h), Hears(u, h), Ends(u, h)
  PROVE  Hears(u, k) /\ Ends(u, k)
BY DEF SameEnd, Hears, Ends

(* Neither a refused response nor one on the wire is an end.               *)
LEMMA HistEnd ==
  ASSUME TypeOK, NEW h \in HistType, NEW r \in Code, NEW left \in BOOLEAN
  PROVE  /\ SameEnd(Disowned(h, r, left), h) /\ SameEnd(OnWire(h, left), h)
         /\ SameEnd(Disowned(h, r, TRUE), h) /\ SameEnd(OnWire(h, TRUE), h)
         /\ SameEnd(h, h)
         /\ Disowned(h, r, left) \in HistType
         /\ Disowned(h, r, TRUE) \in HistType
         /\ OnWire(h, left) \in HistType /\ OnWire(h, TRUE) \in HistType
<1>1. SameEnd(h, h)
  BY DEF SameEnd
<1>2. /\ SameEnd([h EXCEPT !.disowned = @ \cup {r}], h)
      /\ [h EXCEPT !.disowned = @ \cup {r}] \in HistType
  BY DEF SameEnd, HistType
<1>3. /\ SameEnd([h EXCEPT !.wire = tx.msg], h)
      /\ [h EXCEPT !.wire = tx.msg] \in HistType
  BY DEF SameEnd, HistType, TypeOK, TxType
<1>4. QED
  BY <1>1, <1>2, <1>3 DEF Disowned, OnWire

LEMMA RejectingEnd ==
  ASSUME NEW u \in UaType, NEW h \in HistType, ~u.stopped,
         Hears(u, h), Ends(u, h), u.state # "Accepted"
  PROVE  /\ Rejecting(u) \in UaType /\ Rejecting(u).stopped = u.stopped
         /\ Rejecting(u).state = "Rejected"
         /\ Hears(Rejecting(u), h) /\ Ends(Rejecting(u), h)
<1>1. /\ Rejecting(u) \in UaType /\ Rejecting(u).stopped = u.stopped
      /\ Rejecting(u).state = "Rejected"
      /\ Rejecting(u).owner = u.owner /\ Rejecting(u).canceled = u.canceled
  BY DEF Rejecting, UaType, UaState
<1>2. QED
  BY <1>1 DEF Hears, Ends

-----------------------------------------------------------------------------
(* Requests from the network.                                              *)
LEMMA FirstInviteEnd == SafeInv /\ EndInv /\ FirstInvite => EndInv'
<1> SUFFICES ASSUME SafeInv, EndInv, FirstInvite PROVE EndInv'
  OBVIOUS
<1> DEFINE t100 == [ta EXCEPT !.msg = Trying]
           tPassed == [t100 EXCEPT !.passed = TRUE]
           tQueued == [tPassed EXCEPT !.queue = <<Reject>>]
           x == [to |-> "ta", msg |-> Trying]
           owned == [ua EXCEPT !.state = "WaitRespFromApp", !.owner = TRUE]
<1>1. /\ ~ta.terminated /\ ~ua.stopped /\ ua.state = "Start"
      /\ ta \in TaType /\ ua \in UaType /\ timer \in TimerType
      /\ hist \in HistType /\ gone' = gone
  BY DEF FirstInvite, SafeInv, TypeOK, RetransmitInv
<1>2. Hears(ua, hist) /\ Ends(ua, hist) /\ hist.ended = 0
  BY <1>1 DEF EndInv, Ends
<1>3. /\ t100 \in TaType
      /\ ~tPassed.terminated /\ ~tQueued.terminated
  BY <1>1, Codes DEF TaType
<1>4. /\ Rejecting(ua) \in UaType /\ Rejecting(ua).stopped = ua.stopped
      /\ Rejecting(ua).state = "Rejected"
      /\ Hears(Rejecting(ua), hist) /\ Ends(Rejecting(ua), hist)
  BY <1>1, <1>2, RejectingEnd
<1>5. CASE /\ ta' = tPassed
           /\ ua' = [ua EXCEPT !.state = "WaitRespFromApp", !.owner = TRUE]
           /\ hist' = [hist EXCEPT !.told = TRUE]
           /\ UNCHANGED <<doomed, marked>>
  <2>1. /\ ua'.owner /\ ~ua'.stopped
        /\ hist'.ended = 0 /\ hist'.freed2xx = hist.freed2xx
    BY <1>1, <1>2, <1>5 DEF UaType, HistType
  <2>2. QED
    BY <1>1, <1>3, <1>5, <2>1, QuietEnd DEF Hears, Ends
<1>6. CASE /\ ta' = tPassed /\ ua' = [ua EXCEPT !.state = "GetTxOwner"]
           /\ UNCHANGED <<doomed, marked, hist>>
  <2>1. ua'.owner = ua.owner /\ ~ua'.stopped
    BY <1>1, <1>6 DEF UaType
  <2>2. QED
    BY <1>1, <1>2, <1>3, <1>6, <2>1, QuietEnd DEF Hears, Ends
<1>7. CASE /\ ta' = tQueued /\ ua' = Rejecting(ua)
           /\ UNCHANGED <<doomed, marked, hist>>
  BY <1>1, <1>3, <1>4, <1>7, QuietEnd
<1>8. ASSUME NEW u \in {ua, Rejecting(ua), owned}, NEW y,
             EndByLeave(t100, u, timer, y, hist)
      PROVE  EndInv'
  <2>0. /\ owned \in UaType /\ owned.stopped = ua.stopped /\ owned.owner
        /\ owned.state = "WaitRespFromApp"
    BY <1>1 DEF UaType, UaState
  <2> HIDE DEF owned
  <2>1. /\ u \in UaType /\ u.stopped = ua.stopped /\ u.state # "Accepted"
        /\ Hears(u, hist) /\ Ends(u, hist)
    BY <1>1, <1>2, <1>4, <2>0 DEF Hears, Ends
  <2> HIDE DEF t100
  <2>2. QED
    BY <1>1, <1>3, <1>8, <2>1, EndByLeaveEnd
<1>9. QED
  BY <1>5, <1>6, <1>7, <1>8 DEF FirstInvite

LEMMA FurtherRequestEnd ==
  SafeInv /\ EndInv /\ (InviteAgain \/ AckToTa \/ AckToUa) => EndInv'
<1> SUFFICES ASSUME SafeInv, EndInv, InviteAgain \/ AckToTa \/ AckToUa
             PROVE EndInv'
  OBVIOUS
<1>1. /\ ta \in TaType /\ ua \in UaType /\ timer \in TimerType
      /\ hist \in HistType /\ gone' = gone /\ TypeOK
  BY DEF InviteAgain, AckToTa, AckToUa, SafeInv, TypeOK
<1>2. /\ Hears(ua, hist) /\ Ends(ua, hist)
      /\ (ta.terminated => ta.msg # Ok)
  BY DEF EndInv, FreedInv
<1>3. CASE InviteAgain
  <2>1. CASE EndByLeave(ta, ua, timer, tx, hist)
    BY <1>1, <1>2, <2>1, EndByLeaveEnd
  <2>2. CASE UNCHANGED <<ta, ua, doomed, marked, hist>>
    BY <1>1, <1>2, <2>2, QuietEnd
  <2>3. QED
    BY <1>3, <2>1, <2>2 DEF InviteAgain
<1>4. CASE AckToTa
  <2> DEFINE tm == [timer EXCEPT !["G"] = "off", !["H"] = "off"]
  <2>1. tm \in TimerType
    BY <1>1 DEF TimerType
  <2> HIDE DEF tm
  <2>2. CASE EndByLeave(ta, ua, tm, tx, hist)
    BY <1>1, <1>2, <2>1, <2>2, EndByLeaveEnd
  <2>3. CASE /\ ta' = [ta EXCEPT !.state = "Confirmed"]
             /\ UNCHANGED <<ua, doomed, marked, hist>>
    <3>1. ta'.terminated = ta.terminated /\ ta'.msg = ta.msg
      BY <1>1, <2>3 DEF TaType
    <3>2. QED
      BY <1>1, <1>2, <2>3, <3>1, QuietEnd
  <2>4. QED
    BY <1>4, <2>2, <2>3 DEF AckToTa, tm
<1>5. CASE AckToUa
  <2>1. PICK found \in BOOLEAN :
          Stop([ua EXCEPT !.owner = found \/ @], doomed, hist)
    BY <1>5 DEF AckToUa
  <2> DEFINE u == [ua EXCEPT !.owner = found \/ @]
  <2>2. /\ u \in UaType /\ u.state = ua.state /\ u.stopped = ua.stopped
        /\ u.canceled = ua.canceled /\ (ua.owner => u.owner)
        /\ ua.state = "Accepted" /\ ta' = ta
    BY <1>1, <1>5 DEF UaType, AckToUa
  <2>3. Stop(u, doomed, hist)
    BY <2>1
  <2> HIDE DEF u
  <2>4. Hears(u, hist) /\ Ends(u, hist)
    BY <1>2, <2>2 DEF Hears, Ends
  <2>5. QED
    BY <1>1, <1>2, <2>2, <2>3, <2>4, StopEnd
<1>6. QED
  BY <1>3, <1>4, <1>5

LEMMA CancelEnd == SafeInv /\ EndInv /\ Cancel => EndInv'
<1> SUFFICES ASSUME SafeInv, EndInv, Cancel PROVE EndInv'
  OBVIOUS
<1>1. /\ ta \in TaType /\ ua \in UaType /\ timer \in TimerType
      /\ hist \in HistType /\ TypeOK /\ Reject \in Code
      /\ ~ua.stopped /\ UNCHANGED <<doomed, marked, gone>>
  BY Codes DEF Cancel, SafeInv, TypeOK
<1>2. /\ Hears(ua, hist) /\ Ends(ua, hist)
      /\ (ta.terminated => ta.msg # Ok)
  BY DEF EndInv, FreedInv
<1>3. ASSUME NEW u \in UaType, ~u.stopped, Hears(u, hist), Ends(u, hist),
             u.state \in {"Accepted", "Rejected"},
             u.state = "Rejected" => hist.ended = 0
      PROVE  LET c == CancelHandled(u, hist) IN
             /\ Hears(c.u, c.h) /\ Ends(c.u, c.h)
             /\ c.h.freed2xx = hist.freed2xx
  <2> DEFINE cu == [u EXCEPT !.owner = FALSE, !.canceled = TRUE]
             ch == [hist EXCEPT !.ended = IF u.owner THEN @ + 1 ELSE @]
  <2>1. /\ cu.state = u.state /\ ~cu.owner /\ cu.canceled /\ ~cu.stopped
    BY <1>3 DEF UaType
  <2>2. /\ ch.ended = IF u.owner THEN hist.ended + 1 ELSE hist.ended
        /\ ch.told = hist.told /\ ch.cleared = hist.cleared
        /\ ch.freed2xx = hist.freed2xx /\ hist.ended \in Nat
    BY <1>1 DEF HistType
  <2>3. CancelHandled(u, hist) = [u |-> cu, h |-> ch]
    BY DEF CancelHandled
  <2> HIDE DEF cu, ch
  <2>4. Hears(cu, ch) /\ Ends(cu, ch)
    BY <1>3, <2>1, <2>2 DEF Hears, Ends
  <2>5. QED
    BY <2>2, <2>3, <2>4
<1>4. CASE ua.state \in {"GetTxOwner", "WaitRespFromApp"}
  <2>1. PICK s \in SendResponse(ta, Reject, timer) :
          /\ ta' = s.ta
          /\ IF s.left
             THEN /\ ua' = Rejecting(ua)
                  /\ hist' = Disowned(hist, Reject, TRUE)
             ELSE /\ ua' = CancelHandled(Rejecting(ua), hist).u
                  /\ hist' = CancelHandled(Rejecting(ua), hist).h
    BY <1>4 DEF Cancel
  <2>2. s.ta.terminated => s.ta.msg # Ok
    BY <1>1, RespondEnd
  <2>3. /\ Rejecting(ua) \in UaType /\ Rejecting(ua).stopped = ua.stopped
        /\ Rejecting(ua).state = "Rejected" /\ hist.ended = 0
        /\ Hears(Rejecting(ua), hist) /\ Ends(Rejecting(ua), hist)
    BY <1>1, <1>2, <1>4, RejectingEnd DEF Ends
  <2>4. CASE s.left
    <3>1. SameEnd(Disowned(hist, Reject, TRUE), hist)
      BY <1>1, HistEnd
    <3>2. ua' = Rejecting(ua) /\ hist' = Disowned(hist, Reject, TRUE)
      BY <2>1, <2>4
    <3>3. Hears(ua', hist') /\ Ends(ua', hist')
      BY <2>3, <3>1, <3>2, SameEndKeeps
    <3>4. QED
      BY <1>1, <2>1, <2>2, <3>1, <3>2, <3>3, QuietEnd DEF SameEnd
  <2>5. CASE ~s.left
    <3> DEFINE c == CancelHandled(Rejecting(ua), hist)
    <3>1. Hears(c.u, c.h) /\ Ends(c.u, c.h) /\ c.h.freed2xx = hist.freed2xx
      BY <1>1, <1>3, <2>3
    <3>2. ua' = c.u /\ hist' = c.h
      BY <2>1, <2>5
    <3> HIDE DEF c
    <3>3. /\ Hears(ua', hist') /\ Ends(ua', hist')
          /\ hist'.freed2xx = hist.freed2xx
      BY <3>1, <3>2
    <3>4. QED
      BY <1>1, <2>1, <2>2, <3>3, QuietEnd
  <2>6. QED
    BY <2>4, <2>5
<1>5. CASE /\ ua.state = "Accepted" /\ ta' = ta
           /\ ua' = CancelHandled(ua, hist).u
           /\ hist' = CancelHandled(ua, hist).h
  <2>1. /\ Hears(ua', hist') /\ Ends(ua', hist')
        /\ hist'.freed2xx = hist.freed2xx
    BY <1>1, <1>2, <1>3, <1>5
  <2>2. QED
    BY <1>1, <1>2, <1>5, <2>1, QuietEnd
<1>6. QED
  BY <1>4, <1>5 DEF Cancel

-----------------------------------------------------------------------------
(* The user agent gives the transaction a response, rejecting or not.      *)
LEMMA GivesResponse ==
  ASSUME SafeInv, EndInv, NEW r \in Code, NEW tm \in TimerType,
         NEW s \in SendResponse(ta, r, tm), ta' = s.ta,
         ~ua.stopped, ua.state # "Accepted", ua' \in {ua, Rejecting(ua)},
         SameEnd(hist', hist), UNCHANGED <<doomed, marked, gone>>
  PROVE  EndInv'
<1>1. ua \in UaType /\ hist \in HistType
  BY DEF SafeInv, TypeOK
<1>2. Hears(ua, hist) /\ Ends(ua, hist)
  BY DEF EndInv
<1>3. Hears(ua', hist) /\ Ends(ua', hist)
  BY <1>1, <1>2, RejectingEnd
<1>4. Hears(ua', hist') /\ Ends(ua', hist')
  BY <1>3, SameEndKeeps
<1>5. QED
  BY <1>4, RespondEnd, QuietEnd DEF SameEnd

(* The router's answers.                                                   *)
LEMMA RouterEnd ==
  SafeInv /\ EndInv /\ (OwnerFound \/ OwnerNotFound \/ RouterError) => EndInv'
<1> SUFFICES ASSUME SafeInv, EndInv, OwnerFound \/ OwnerNotFound \/ RouterError
             PROVE EndInv'
  OBVIOUS
<1>1. /\ ta \in TaType /\ ua \in UaType /\ timer \in TimerType
      /\ hist \in HistType /\ TypeOK /\ Reject \in Code /\ gone' = gone
  BY Codes DEF SafeInv, TypeOK, OwnerFound, OwnerNotFound, RouterError
<1>2. /\ Hears(ua, hist) /\ Ends(ua, hist)
      /\ (ta.terminated => ta.msg # Ok)
  BY DEF EndInv, FreedInv
<1> DEFINE tm == [timer EXCEPT !["OwnerResolver"] = "off"]
<1>3. tm \in TimerType
  BY <1>1, ResolverFacts
<1> HIDE DEF tm
<1>4. CASE UNCHANGED <<ta, ua, doomed, marked, hist>>
  BY <1>1, <1>2, <1>4, QuietEnd
<1>5. CASE OwnerFound /\ ~ua.stopped /\ ua.state = "GetTxOwner"
  <2>1. /\ ua' = [ua EXCEPT !.state = "WaitRespFromApp", !.owner = TRUE]
        /\ hist' = [hist EXCEPT !.told = TRUE] \/ hist' = hist
        /\ UNCHANGED <<ta, doomed, marked>>
    BY <1>5 DEF OwnerFound
  <2>2. /\ ua'.owner /\ ua'.stopped = ua.stopped
        /\ hist'.ended = hist.ended /\ hist'.freed2xx = hist.freed2xx
    BY <1>1, <2>1 DEF UaType, HistType
  <2>3. hist.ended = 0
    BY <1>2, <1>5 DEF Ends
  <2>4. QED
    BY <1>1, <1>2, <1>5, <2>1, <2>2, <2>3, QuietEnd DEF Hears, Ends
<1>6. CASE OwnerNotFound /\ ~ua.stopped /\ ua.state = "GetTxOwner"
  <2>1. PICK s \in SendResponse(ta, Reject, tm) :
          /\ ta' = s.ta /\ ua' = Rejecting(ua)
          /\ hist' = Disowned(hist, Reject, s.left)
          /\ UNCHANGED <<doomed, marked, gone>>
    BY <1>6 DEF OwnerNotFound, tm
  <2>2. SameEnd(hist', hist)
    BY <1>1, <1>3, <2>1, RespondEnd, HistEnd
  <2>3. QED
    BY <1>1, <1>3, <1>6, <2>1, <2>2, GivesResponse
<1>7. CASE Stop(ua, doomed, hist) /\ UNCHANGED <<ta>>
  BY <1>1, <1>2, <1>7, StopEnd
<1>8. ASSUME ~ua.stopped, ua.state = "GetTxOwner",
             NEW s \in SendResponse(ta, Reject, tm), ta' = s.ta,
             IF s.left
             THEN Stop(Rejecting(ua), doomed, Disowned(hist, Reject, TRUE))
             ELSE /\ ua' = Rejecting(ua)
                  /\ UNCHANGED <<route, doomed, marked, hist>>
      PROVE  EndInv'
  <2>1. CASE s.left
    <3>1. Stop(Rejecting(ua), doomed, Disowned(hist, Reject, TRUE))
      BY <1>8, <2>1
    <3>2. /\ Rejecting(ua) \in UaType /\ Rejecting(ua).stopped = ua.stopped
          /\ Hears(Rejecting(ua), hist) /\ Ends(Rejecting(ua), hist)
      BY <1>1, <1>2, <1>8, RejectingEnd
    <3>3. /\ SameEnd(Disowned(hist, Reject, TRUE), hist)
          /\ Disowned(hist, Reject, TRUE) \in HistType
      BY <1>1, HistEnd
    <3>4. /\ Hears(Rejecting(ua), Disowned(hist, Reject, TRUE))
          /\ Ends(Rejecting(ua), Disowned(hist, Reject, TRUE))
      BY <3>2, <3>3, SameEndKeeps
    <3>5. ta'.terminated => ta'.msg # Ok
      BY <1>1, <1>3, <1>8, RespondEnd
    <3>6. QED
      BY <1>1, <3>1, <3>2, <3>3, <3>4, <3>5, StopEnd DEF SameEnd
  <2>2. CASE ~s.left
    BY <1>1, <1>3, <1>8, <2>2, GivesResponse, HistEnd
  <2>3. QED
    BY <2>1, <2>2
<1>9. QED
  BY <1>4, <1>5, <1>6, <1>7, <1>8
  DEF OwnerFound, OwnerNotFound, RouterError, tm

(* The application's calls.                                                *)
LEMMA ApplicationEnd ==
  ASSUME SafeInv, EndInv,
         \/ AppProvisional \/ AppRejects \/ AppAccepts
         \/ ClearTransactionOwner
  PROVE  EndInv'
<1>1. /\ ta \in TaType /\ ua \in UaType /\ timer \in TimerType
      /\ hist \in HistType /\ TypeOK /\ {Ok, Reject} \subseteq Code
  BY Codes DEF SafeInv, TypeOK
<1>2. /\ Hears(ua, hist) /\ Ends(ua, hist)
      /\ (ta.terminated => ta.msg # Ok)
  BY DEF EndInv, FreedInv
<1>3. ASSUME NEW r \in Code, AppResponds(r) PROVE EndInv'
  <2>1. PICK s \in SendResponse(ta, r, timer) :
          /\ ta' = s.ta /\ ua' = IF r >= 300 THEN Rejecting(ua) ELSE ua
          /\ hist' = [Disowned(hist, r, s.left) EXCEPT
                        !.provs = IF r < 200 THEN @ + 1 ELSE @]
    BY <1>3 DEF AppResponds
  <2>2. /\ ~ua.stopped /\ ua.state = "WaitRespFromApp"
        /\ UNCHANGED <<doomed, marked, gone>> /\ ua' \in {ua, Rejecting(ua)}
    BY <1>3, <2>1 DEF AppResponds
  <2> DEFINE h == Disowned(hist, r, s.left)
  <2>3. SameEnd(h, hist) /\ h \in HistType
    BY <1>1, RespondEnd, HistEnd
  <2>4. hist' = [h EXCEPT !.provs = IF r < 200 THEN @ + 1 ELSE @]
    BY <2>1
  <2> HIDE DEF h
  <2>5. SameEnd(hist', hist)
    BY <2>3, <2>4 DEF SameEnd, HistType
  <2>6. QED
    BY <1>1, <2>1, <2>2, <2>5, GivesResponse
<1>4. CASE AppProvisional
  <2>1. /\ hist.provs < MaxProv /\ hist.provs + 1 \in 1..MaxProv
        /\ hist.provs \in Nat
    BY <1>1, <1>4, InviteServerAssumption DEF AppProvisional, HistType
  <2>2. 100 + (hist.provs + 1) \in Code
    BY <2>1, Codes
  <2>3. Trying + hist.provs + 1 = 100 + (hist.provs + 1)
    BY <2>1 DEF Trying
  <2>4. QED
    BY <1>3, <1>4, <2>2, <2>3 DEF AppProvisional
<1>5. CASE AppRejects
  BY <1>1, <1>3, <1>5 DEF AppRejects
<1>6. CASE AppAccepts
  <2> DEFINE u == [ua EXCEPT !.state = "Accepted"]
             tm == [timer EXCEPT !["WaitAck"] = "on"]
  <2>1. /\ ~ua.stopped /\ ua.state = "WaitRespFromApp"
        /\ UNCHANGED <<doomed, marked, gone>> /\ hist.ended = 0
    BY <1>2, <1>6 DEF AppAccepts, Ends
  <2>2. tm \in TimerType
    BY <1>1 DEF TimerType
  <2>3. u \in UaType /\ u.owner = ua.owner /\ u.stopped = ua.stopped
    BY <1>1 DEF UaType, UaState
  <2>4. \/ /\ ta' = ta /\ ua' = u /\ hist' = Disowned(hist, Ok, TRUE)
        \/ \E s \in SendResponse(ta, Ok, tm) :
             /\ ta' = s.ta /\ hist' = Disowned(hist, Ok, s.left)
             /\ ua' = [u EXCEPT !.has2xx = ~s.left]
    BY <1>6 DEF AppAccepts
  <2> HIDE DEF u, tm
  <2>5. /\ ta'.terminated => ta'.msg # Ok
        /\ SameEnd(hist', hist)
        /\ ua'.owner = u.owner /\ ua'.stopped = u.stopped
    <3>1. CASE ta' = ta /\ ua' = u /\ hist' = Disowned(hist, Ok, TRUE)
      BY <1>1, <1>2, <3>1, HistEnd
    <3>2. ASSUME NEW s \in SendResponse(ta, Ok, tm),
                 ta' = s.ta, hist' = Disowned(hist, Ok, s.left),
                 ua' = [u EXCEPT !.has2xx = ~s.left]
          PROVE  /\ ta'.terminated => ta'.msg # Ok
                 /\ SameEnd(hist', hist)
                 /\ ua'.owner = u.owner /\ ua'.stopped = u.stopped
      <4>1. /\ s.ta.terminated => s.ta.msg # Ok
            /\ s.left \in BOOLEAN
        BY <1>1, <2>2, <3>2, RespondEnd
      <4>2. SameEnd(Disowned(hist, Ok, s.left), hist)
        BY <1>1, <4>1, HistEnd
      <4>3. ua'.owner = u.owner /\ ua'.stopped = u.stopped
        BY <2>3, <3>2 DEF UaType
      <4>4. QED
        BY <3>2, <4>1, <4>2, <4>3
    <3>3. QED
      BY <2>4, <3>1, <3>2
  <2>6. Hears(ua', hist') /\ Ends(ua', hist')
    BY <1>2, <2>1, <2>3, <2>5 DEF Hears, Ends, SameEnd
  <2>7. QED
    BY <2>1, <2>5, <2>6, QuietEnd DEF SameEnd
<1>7. CASE ClearTransactionOwner
  <2> DEFINE u == [ua EXCEPT !.owner = FALSE]
             h == [hist EXCEPT !.cleared = TRUE]
  <2>1. /\ u \in UaType /\ u.stopped = ua.stopped /\ u.state = ua.state
        /\ u.canceled = ua.canceled /\ ~u.owner
    BY <1>1 DEF UaType
  <2>2. /\ h \in HistType /\ h.cleared /\ h.ended = hist.ended
        /\ h.freed2xx = hist.freed2xx
    BY <1>1 DEF HistType
  <2>3. \/ Stop(u, doomed, h)
        \/ ua' = u /\ hist' = h /\ UNCHANGED <<doomed, marked>>
    BY <1>7 DEF ClearTransactionOwner
  <2>4. ta' = ta /\ gone' = gone
    BY <1>7 DEF ClearTransactionOwner
  <2> HIDE DEF u, h
  <2>5. Hears(u, h) /\ Ends(u, h)
    BY <1>2, <2>1, <2>2 DEF Hears, Ends
  <2>6. CASE Stop(u, doomed, h)
    BY <1>2, <2>1, <2>2, <2>4, <2>5, <2>6, StopEnd
  <2>7. CASE ua' = u /\ hist' = h /\ UNCHANGED <<doomed, marked>>
    BY <1>2, <2>2, <2>4, <2>5, <2>7, QuietEnd
  <2>8. QED
    BY <2>3, <2>6, <2>7
<1>8. QED
  BY <1>4, <1>5, <1>6, <1>7

-----------------------------------------------------------------------------
(* The transmitter completes.                                              *)
LEMMA SendDoneEnd ==
  ASSUME SafeInv, EndInv, TaSendDone \/ UaSendDone
  PROVE  EndInv'
<1>1. /\ ta \in TaType /\ ua \in UaType /\ timer \in TimerType
      /\ hist \in HistType /\ TypeOK /\ Reject \in Code /\ gone' = gone
  BY Codes DEF SafeInv, TypeOK, TaSendDone, UaSendDone
<1>2. /\ Hears(ua, hist) /\ Ends(ua, hist)
      /\ (ta.terminated => ta.msg # Ok)
  BY DEF EndInv, FreedInv
<1>3. ASSUME NEW done \in BOOLEAN
      PROVE  LET h == OnWire(hist, done) IN
             /\ h \in HistType /\ h.freed2xx = hist.freed2xx
             /\ Hears(ua, h) /\ Ends(ua, h)
  <2>1. /\ SameEnd(OnWire(hist, done), hist)
        /\ OnWire(hist, done) \in HistType
    BY <1>1, HistEnd
  <2>2. QED
    BY <1>2, <2>1, SameEndKeeps DEF SameEnd
<1>4. ASSUME NEW done \in BOOLEAN, hist' = OnWire(hist, done),
             UNCHANGED <<ta, ua, doomed, marked>>
      PROVE  EndInv'
  BY <1>1, <1>2, <1>3, <1>4, QuietEnd
<1>5. CASE UaSendDone
  <2>1. ASSUME NEW done \in BOOLEAN, Stop(ua, doomed, OnWire(hist, done))
        PROVE  EndInv'
    <3>1. ta' = ta
      BY <1>5 DEF UaSendDone
    <3>2. QED
      BY <1>1, <1>2, <1>3, <2>1, <3>1, StopEnd
  <2>2. \/ hist' = OnWire(hist, TRUE) /\ UNCHANGED <<ta, ua, doomed, marked>>
        \/ \E done \in BOOLEAN : Stop(ua, doomed, OnWire(hist, done))
    BY <1>5 DEF UaSendDone
  <2>3. QED
    BY <1>4, <2>1, <2>2
<1>6. CASE TaSendDone
  <2>1. ~ta.terminated
    BY <1>6 DEF TaSendDone, SafeInv, TransmitterOwned
  <2>2. CASE SentInProceeding /\ ta.queue # << >>
    <3> DEFINE t == [ta EXCEPT !.queue = Tail(@)]
    <3>1. t \in TaType /\ ~t.terminated /\ Head(ta.queue) \in Code
      BY <1>1, <2>1, <2>2 DEF TaType
    <3>2. PICK s \in SendAndStore(t, Head(ta.queue), timer) :
            IF s.left
            THEN EndByLeave(s.ta, ua, s.tm, s.tx, OnWire(hist, TRUE))
            ELSE /\ ta' = s.ta /\ hist' = OnWire(hist, TRUE)
                 /\ UNCHANGED <<ua, doomed, marked>>
      BY <2>2 DEF SentInProceeding
    <3> HIDE DEF t
    <3>3. /\ s.ta \in TaType /\ s.tm \in TimerType
          /\ s.ta.terminated = t.terminated
      BY <1>1, <3>1, SendAndStoreFacts
    <3>4. CASE s.left
      BY <1>1, <1>3, <3>2, <3>3, <3>4, EndByLeaveEnd
    <3>5. CASE ~s.left
      <4>1. ta' = s.ta /\ hist' = OnWire(hist, TRUE)
            /\ UNCHANGED <<ua, doomed, marked>>
        BY <3>2, <3>5
      <4>2. ~ta'.terminated
        BY <3>1, <3>3, <4>1
      <4>3. QED
        BY <1>1, <1>3, <4>1, <4>2, QuietEnd
    <3>6. QED
      BY <3>4, <3>5
  <2>3. CASE SentInProceeding /\ ta.queue = << >>
    BY <1>4, <2>3 DEF SentInProceeding
  <2>4. CASE SentInCompleted
    <3>1. CASE EndByLeave(ta, ua, timer, IdleTx, OnWire(hist, TRUE))
      BY <1>1, <1>3, <3>1, EndByLeaveEnd
    <3>2. QED
      BY <1>4, <2>4, <3>1 DEF SentInCompleted
  <2>5. ASSUME NEW done \in BOOLEAN, SendEndsTa(done) PROVE EndInv'
    <3>1. EndTa(ta, timer, IdleTx, OnWire(hist, done))
      BY <2>5 DEF SendEndsTa
    <3>2. QED
      BY <1>1, <1>3, <2>1, <3>1, EndTaEnd
  <2>6. ASSUME NEW done \in BOOLEAN, SendInConfirmed(done) PROVE EndInv'
    BY <1>4, <2>6 DEF SendInConfirmed
  <2>7. QED
    BY <1>6, <2>2, <2>3, <2>4, <2>5, <2>6 DEF TaSendDone
<1>7. QED
  BY <1>5, <1>6

-----------------------------------------------------------------------------
(* Expiring timers.                                                        *)
LEMMA TimerEnd ==
  ASSUME SafeInv, EndInv, TimerStep
  PROVE  EndInv'
<1>1. /\ ta \in TaType /\ ua \in UaType /\ timer \in TimerType
      /\ hist \in HistType /\ TypeOK /\ Reject \in Code
  BY Codes DEF SafeInv, TypeOK
<1>2. /\ Hears(ua, hist) /\ Ends(ua, hist)
      /\ (ta.terminated => ta.msg # Ok)
  BY DEF EndInv, FreedInv
<1>3. CASE UNCHANGED <<ta, ua, doomed, marked, gone, hist>>
  BY <1>1, <1>2, <1>3, QuietEnd
<1>4. ASSUME NEW t \in {"H", "I"}, TimerEndsTa(t) PROVE EndInv'
  <2>1. /\ EndTa(ta, [timer EXCEPT ![t] = "off"], tx, hist)
        /\ ~ta.terminated /\ gone' = gone
    BY <1>4 DEF TimerEndsTa
  <2>2. [timer EXCEPT ![t] = "off"] \in TimerType
    BY <1>1 DEF TimerType
  <2>3. QED
    BY <1>1, <1>2, <2>1, <2>2, EndTaEnd
<1>5. CASE TimerOwnerResolver /\ ua.state = "GetTxOwner"
  <2>1. PICK s \in SendResponse(ta, Reject, timer) :
          /\ ta' = s.ta /\ ua' = Rejecting(ua)
          /\ hist' = Disowned(hist, Reject, s.left)
    BY <1>5 DEF TimerOwnerResolver
  <2>2. ~ua.stopped /\ UNCHANGED <<doomed, marked, gone>>
    BY <1>5 DEF TimerOwnerResolver
  <2>3. SameEnd(hist', hist)
    BY <1>1, <2>1, RespondEnd, HistEnd
  <2>4. QED
    BY <1>1, <1>5, <2>1, <2>2, <2>3, GivesResponse
<1>6. CASE TimerWaitAck
  BY <1>1, <1>2, <1>6, StopEnd DEF TimerWaitAck
<1>7. QED
  BY <1>3, <1>4, <1>5, <1>6
  DEF TimerStep, TimerIgnored, TimerG, TimerOwnerResolver, TimerRetransmit2xx

-----------------------------------------------------------------------------
(* Deletion: of the 2xx both point to, exactly one destructor frees it.    *)
LEMMA DestroyEnd ==
  ASSUME SafeInv, EndInv, NEW objs \in SUBSET Object, Destroy(objs),
         "ta" \in objs => ta.terminated,
         \/ objs = doomed /\ doomed' = {} /\ marked' = marked
         \/ objs = {"ua"} /\ marked /\ doomed' = doomed /\ marked' = FALSE,
         UNCHANGED <<ta, ua>>
  PROVE  EndInv'
<1> DEFINE both == "ua" \in objs /\ ua.holds
           taDies == "ta" \notin gone /\ ("ta" \in objs \/ both)
           left == IF both /\ ua.has2xx /\ ~ta.terminated
                   THEN LeaveFor2xx(ta) ELSE ta
           frees == (IF taDies /\ left.msg = Ok THEN 1 ELSE 0)
                  + (IF "ua" \in objs /\ ua.has2xx THEN 1 ELSE 0)
<1>1. /\ ta \in TaType /\ ua \in UaType /\ hist \in HistType
      /\ hist.freed2xx \in Nat
  BY DEF SafeInv, TypeOK, HistType
<1>2. /\ gone' = gone \cup objs \cup (IF both THEN {"ta"} ELSE {})
      /\ hist' = [hist EXCEPT !.freed2xx = @ + frees]
  BY DEF Destroy
<1>3. LeaveFor2xx(ta).msg # Ok
  BY <1>1, Codes DEF LeaveFor2xx, TaType, Ok, NoMsg
<1>4. ta.terminated => ta.msg # Ok
  BY DEF EndInv, FreedInv
<1>5. ua.has2xx => left.msg # Ok \/ ~both
  BY <1>3, <1>4
<1>6. ~both => ~(taDies /\ left.msg = Ok)
  BY <1>4
<1>7. /\ frees \in {0, 1}
      /\ "ua" \notin objs => frees = 0
  <2> HIDE DEF left, both, taDies
  <2>1. CASE "ua" \in objs /\ ua.has2xx
    <3>1. ~(taDies /\ left.msg = Ok)
      BY <1>5, <1>6, <2>1, Zenon
    <3>2. QED
      BY <2>1, <3>1
  <2>2. CASE "ua" \in objs /\ ~ua.has2xx
    BY <2>2
  <2>3. CASE "ua" \notin objs
    <3>1. ~both
      BY <2>3 DEF both
    <3>2. ~(taDies /\ left.msg = Ok)
      BY <1>6, <3>1, Zenon
    <3>3. QED
      BY <2>3, <3>2
  <2>4. QED
    BY <2>1, <2>2, <2>3
<1> HIDE DEF frees
<1>8. /\ hist'.freed2xx = hist.freed2xx + frees
      /\ hist'.ended = hist.ended /\ hist'.told = hist.told
      /\ hist'.cleared = hist.cleared
  BY <1>1, <1>2 DEF HistType
<1>9. Hears(ua', hist') /\ Ends(ua', hist')
  BY <1>8 DEF EndInv, Hears, Ends
<1>10. FreedInv'
  <2>1. "ua" \in objs => "ua" \notin gone /\ hist.freed2xx = 0
    BY <1>1 DEF EndInv, FreedInv
  <2>2. /\ hist'.freed2xx <= 1
        /\ hist'.freed2xx > 0 => "ua" \in gone'
    BY <1>1, <1>2, <1>7, <1>8, <2>1 DEF EndInv, FreedInv
  <2>3. /\ ~("ua" \in doomed' /\ marked')
        /\ "ua" \in doomed' \/ marked' => "ua" \notin gone'
    <3>1. "ua" \in gone' => "ua" \in gone \/ "ua" \in objs
      BY <1>2
    <3>2. CASE objs = doomed /\ doomed' = {} /\ marked' = marked
      BY <3>1, <3>2 DEF EndInv, FreedInv
    <3>3. CASE objs = {"ua"} /\ marked /\ doomed' = doomed /\ marked' = FALSE
      BY <3>3 DEF EndInv, FreedInv
    <3>4. QED
      BY <3>2, <3>3
  <2>4. QED
    BY <1>4, <2>2, <2>3 DEF FreedInv
<1>11. QED
  BY <1>9, <1>10 DEF EndInv, Hears, Ends

LEMMA DeletionEnd ==
  ASSUME SafeInv, EndInv, DeleteMgrRuns \/ StoreFreesMarked
  PROVE  EndInv'
<1>1. CASE DeleteMgrRuns
  BY <1>1, DestroyEnd DEF DeleteMgrRuns, SafeInv, TypeOK, DeletionInv
<1>2. CASE StoreFreesMarked
  BY <1>2, DestroyEnd DEF StoreFreesMarked, Object
<1>3. QED
  BY <1>1, <1>2

-----------------------------------------------------------------------------
LEMMA EndInit == Init => EndInv
BY DEF Init, EndInv, Hears, Ends, FreedInv

LEMMA EndNext == SafeInv /\ EndInv /\ [Next]_vars => EndInv'
<1> SUFFICES ASSUME SafeInv, EndInv, [Next]_vars PROVE EndInv'
  OBVIOUS
<1>1. CASE UNCHANGED vars
  BY <1>1 DEF vars, EndInv, Hears, Ends, FreedInv
<1>2. CASE Environment
  BY <1>2, FirstInviteEnd, FurtherRequestEnd, CancelEnd, RouterEnd,
     ApplicationEnd DEF Environment
<1>3. QED
  BY <1>1, <1>2, SendDoneEnd, TimerEnd, DeletionEnd DEF Next

LEMMA EndAlways == Spec => []EndInv
<1>1. Init => SafeInv /\ EndInv
  BY InitSafe, EndInit
<1>2. SafeInv /\ EndInv /\ [Next]_vars => SafeInv' /\ EndInv'
  BY NextSafe, EndNext
<1>3. QED
  BY <1>1, <1>2, PTL DEF Spec

(* The 2xx, which user agent and transaction both point to, is deleted at  *)
(* most once, whichever is freed first and whatever left on the way.       *)
THEOREM FreedOnceAlways == Spec => []Freed2xxOnce
<1>1. EndInv => Freed2xxOnce
  BY DEF EndInv, FreedInv, Freed2xxOnce
<1>2. QED
  BY EndAlways, <1>1, PTL

(* The owner hears of one end, unless a CANCEL came after the 2xx.         *)
THEOREM EndsOnceAlways == Spec => []EndsOnceUnlessCanceledLate
<1>1. EndInv => EndsOnceUnlessCanceledLate
  BY DEF EndInv, Ends, EndsOnceUnlessCanceledLate
<1>2. QED
  BY EndAlways, <1>1, PTL

(* An owner that was given the INVITE and did not withdraw has heard of    *)
(* its end by the time the user agent is deleted.                          *)
THEOREM OwnerHearsAlways == Spec => []OwnerHearsTheEnd
<1>1. SafeInv /\ EndInv => OwnerHearsTheEnd
  BY DEF SafeInv, DeletionInv, EndInv, Hears, OwnerHearsTheEnd
<1>2. QED
  BY Safe, EndAlways, <1>1, PTL

-----------------------------------------------------------------------------
(* The order of the responses on the wire.                                 *)

(* The latest response that may have been given to the transaction.        *)
Limit(u, h) == IF u.state = "Rejected" THEN Reject
               ELSE IF u.state = "Accepted" THEN Ok
               ELSE Trying + h.provs

Below(t, h, limit) ==
  /\ h.wire <= limit /\ t.msg <= limit
  /\ \A i \in DOMAIN t.queue : t.queue[i] <= limit

(* From the wire over the response kept to the end of the queue, nothing   *)
(* is older than what precedes it.                                         *)
Ordered(t, h) ==
  ~t.terminated =>
     /\ h.wire <= t.msg
     /\ \A i \in DOMAIN t.queue : t.msg <= t.queue[i]
     /\ \A i, j \in DOMAIN t.queue : i < j => t.queue[i] <= t.queue[j]

(* The transmitter sends what is kept, and a response waits only for it.   *)
InUse(t, x, u) ==
  /\ x.to = "ta" => x.msg \in {NoMsg, t.msg}
  /\ x.to = "ua" => x.msg = Ok
  /\ ~t.terminated /\ ~u.stopped /\ t.state = "Proceeding" /\ x.to = "none"
       => t.queue = << >>

(* Before the first INVITE there is nothing.                               *)
Unpassed(t, x, h, u) ==
  ~t.terminated /\ ~u.stopped /\ ~t.passed =>
     /\ h.wire = NoMsg /\ t.queue = << >> /\ x.to = "none"
     /\ t.state = "Proceeding"

OrderInv ==
  /\ Below(ta, hist, Limit(ua, hist)) /\ Ordered(ta, hist)
  /\ InUse(ta, tx, ua) /\ Unpassed(ta, tx, hist, ua)

(* What each step has to keep.                                             *)
Kept == OrderInv' /\ hist'.wire >= hist.wire

-----------------------------------------------------------------------------
LEMMA Numbers ==
  /\ CodeOrNone \subseteq Nat /\ NoMsg \in CodeOrNone /\ NoMsg = 0
  /\ \A u \in UaType, h \in HistType :
       /\ Limit(u, h) \in Nat
       /\ Trying <= Limit(u, h) /\ Limit(u, h) <= Reject
       /\ u.state # "Rejected" => Limit(u, h) <= Ok
<1>1. /\ CodeOrNone \subseteq Nat /\ NoMsg \in CodeOrNone /\ NoMsg = 0
  BY Codes DEF CodeOrNone, NoMsg
<1>2. ASSUME NEW u \in UaType, NEW h \in HistType
      PROVE  /\ Limit(u, h) \in Nat
             /\ Trying <= Limit(u, h) /\ Limit(u, h) <= Reject
             /\ u.state # "Rejected" => Limit(u, h) <= Ok
  <2>1. h.provs \in Nat /\ h.provs < 99
    BY InviteServerAssumption DEF HistType
  <2>2. QED
    BY <2>1 DEF Limit, Trying, Ok, Reject
<1>3. QED
  BY <1>1, <1>2

(* The parts of the state that are compared are numbers.                   *)
LEMMA NumbersOf ==
  ASSUME NEW t \in TaType, NEW h \in HistType
  PROVE  /\ t.msg \in Nat /\ h.wire \in Nat
         /\ t.queue \in Seq(Code) /\ Len(t.queue) \in Nat
         /\ DOMAIN t.queue = 1..Len(t.queue)
         /\ \A i \in DOMAIN t.queue : t.queue[i] \in Code /\ t.queue[i] \in Nat
<1>1. t.msg \in Nat /\ h.wire \in Nat /\ t.queue \in Seq(Code)
  BY Numbers DEF TaType, HistType
<1>2. /\ Len(t.queue) \in Nat /\ DOMAIN t.queue = 1..Len(t.queue)
      /\ \A i \in 1..Len(t.queue) : t.queue[i] \in Code
  BY <1>1
<1>3. \A i \in DOMAIN t.queue : t.queue[i] \in Code /\ t.queue[i] \in Nat
  BY <1>2, Codes
<1>4. QED
  BY <1>1, <1>2, <1>3

(* Stop touches neither the wire nor what may still be sent.               *)
LEMMA StopWire ==
  ASSUME NEW u \in UaType, NEW d, NEW h \in HistType, Stop(u, d, h)
  PROVE  /\ ua'.state = u.state /\ ua'.stopped
         /\ hist'.wire = h.wire /\ hist'.provs = h.provs
<1>1. CASE u.stopped
  BY <1>1 DEF Stop
<1>2. CASE ~u.stopped
  <2>1. /\ ua' = [u EXCEPT !.stopped = TRUE]
        /\ hist' = [h EXCEPT !.ended = IF u.owner THEN @ + 1 ELSE @]
    BY <1>2 DEF Stop
  <2>2. QED
    BY <2>1 DEF UaType, HistType
<1>3. QED
  BY <1>1, <1>2

(* Once the transaction has terminated only the bounds matter.             *)
LEMMA EndedOrder ==
  ASSUME NEW t \in TaType, NEW x \in TxType, NEW u \in UaType,
         NEW h \in HistType, ua' \in UaType, hist' \in HistType,
         ta' = Terminated(t), tx' = Detached(x), ua'.state = u.state,
         hist'.wire = h.wire, hist'.provs = h.provs,
         h.wire >= hist.wire, Below(t, h, Limit(u, h)),
         x.to = "ua" => x.msg = Ok
  PROVE  Kept
<1>1. /\ ta'.terminated /\ ta'.queue = t.queue
      /\ ta'.msg = t.msg \/ ta'.msg = NoMsg
  <2>1. /\ LeaveFor2xx(t) \in TaType /\ LeaveFor2xx(t).queue = t.queue
        /\ LeaveFor2xx(t).msg = t.msg \/ LeaveFor2xx(t).msg = NoMsg
    BY Codes DEF LeaveFor2xx, TaType
  <2>2. QED
    BY <2>1 DEF Terminated, TaType
<1>2. /\ tx'.to # "ta" /\ (tx'.to = "ua" => tx'.msg = Ok)
  BY DEF Detached, IdleTx, TxType
<1>3. Limit(ua', hist') = Limit(u, h)
  BY DEF Limit
<1>4. Below(ta', hist', Limit(ua', hist'))
  BY <1>1, <1>3, Numbers DEF Below
<1>5. QED
  BY <1>1, <1>2, <1>4 DEF Kept, OrderInv, Ordered, InUse, Unpassed, Below,
                          Limit

LEMMA EndTaOrder ==
  ASSUME SafeInv, NEW tm \in TimerType, NEW x \in TxType, NEW h \in HistType,
         ~ta.terminated, EndTa(ta, tm, x, h), h.wire >= hist.wire,
         Below(ta, h, Limit(ua, h)), x.to = "ua" => x.msg = Ok
  PROVE  Kept
<1>1. ta \in TaType /\ ua \in UaType
  BY DEF SafeInv, TypeOK
<1>2. ua' \in UaType /\ hist' \in HistType /\ ua'.state = ua.state
  BY EndTaFacts DEF Ending
<1>3. ta' = Terminated(ta) /\ tx' = Detached(x)
  BY DEF EndTa
<1>4. hist'.wire = h.wire /\ hist'.provs = h.provs
  <2>1. hist' = h \/ Stop(ua, doomed, h)
    BY DEF EndTa
  <2>2. QED
    BY <1>1, <2>1, StopWire
<1>5. QED
  BY <1>1, <1>2, <1>3, <1>4, EndedOrder

LEMMA EndByLeaveOrder ==
  ASSUME SafeInv, NEW t \in TaType, NEW u \in UaType, NEW tm \in TimerType,
         NEW x \in TxType, NEW h \in HistType,
         u.stopped = ua.stopped, u.holds = ua.holds,
         u.state = "Accepted" => u = ua,
         EndByLeave(t, u, tm, x, h), h.wire >= hist.wire,
         Below(t, h, Limit(u, h)), x.to = "ua" => x.msg = Ok
  PROVE  Kept
<1>1. ta \in TaType /\ ua \in UaType /\ TypeOK
  BY DEF SafeInv, TypeOK
<1>2. ua' \in UaType /\ hist' \in HistType /\ ua'.state = u.state
  BY EndByLeaveFacts DEF Ending
<1>3. ta' = Terminated(t) /\ tx' = Detached(x)
  BY DEF EndByLeave
<1>4. hist'.wire = h.wire /\ hist'.provs = h.provs
  <2>1. CASE u.state = "Accepted" /\ ~t.terminated
    <3>1. PICK r \in ReleaseTransaction(tm) : Stop(r.u, r.d, h)
      BY <2>1 DEF EndByLeave
    <3>2. r.u \in UaType
      BY <1>1, ReleaseFacts
    <3>3. QED
      BY <3>1, <3>2, StopWire
  <2>2. CASE ~(u.state = "Accepted" /\ ~t.terminated)
    <3>1. Stop(u, doomed, h)
      BY <2>2 DEF EndByLeave
    <3>2. QED
      BY <3>1, StopWire
  <2>3. QED
    BY <2>1, <2>2
<1>5. QED
  BY <1>1, <1>2, <1>3, <1>4, EndedOrder

(* A step that leaves transaction and transmitter alone.                   *)
LEMMA QuietOrder ==
  ASSUME SafeInv, OrderInv, UNCHANGED <<ta, tx>>, ua' \in UaType,
         hist' \in HistType, hist'.wire = hist.wire,
         Limit(ua, hist) <= Limit(ua', hist'),
         ua.stopped => ua'.stopped
  PROVE  Kept
<1>1. ta \in TaType /\ ua \in UaType /\ hist \in HistType
  BY DEF SafeInv, TypeOK
<1>2. /\ Limit(ua, hist) \in Nat /\ Limit(ua', hist') \in Nat
  BY <1>1, Numbers
<1>3. Below(ta', hist', Limit(ua', hist'))
  BY <1>1, <1>2, NumbersOf DEF OrderInv, Below
<1>4. QED
  BY <1>1, <1>3, NumbersOf
  DEF Kept, OrderInv, Ordered, InUse, Unpassed, Below, Limit

(* What SendAndStore keeps and gives to the transmitter.                   *)
LEMMA SendAndStoreOrder ==
  ASSUME NEW t \in TaType, NEW r \in Code, NEW tm \in TimerType,
         NEW s \in SendAndStore(t, r, tm)
  PROVE  /\ s.ta.msg \in {t.msg, r} /\ s.tx.to \in {"none", "ta"}
         /\ s.tx.msg \in {NoMsg, s.ta.msg}
         /\ ~s.left => s.tx.to = "ta" /\ s.ta.msg = r
<1> DEFINE stored == [t EXCEPT !.state = StateAfter(r), !.msg = r]
           moved == Moved(t, r)
           on == WithTimerH(r, tm)
           out(a, x, m, l) == [ta |-> a, tx |-> x, tm |-> m, left |-> l]
<1>1. stored.msg = r /\ moved.msg = t.msg
  BY DEF Moved, TaType
<1>2. \/ s = out(stored, [to |-> "ta", msg |-> r], on, FALSE)
      \/ s = out(moved, IdleTx, tm, TRUE)
      \/ s = out(moved, [to |-> "ta", msg |-> NoMsg], tm, TRUE)
      \/ s = out(stored, [to |-> "ta", msg |-> r], tm, TRUE)
  <2> DEFINE sent == Sent(t, r, tm)
             x == [to |-> "ta", msg |-> r]
  <2>1. \/ s = [sent EXCEPT !.tm = on]
        \/ s = [sent EXCEPT !.ta = moved, !.tx = IdleTx, !.left = TRUE]
        \/ s = [sent EXCEPT !.ta = moved, !.tx.msg = NoMsg, !.left = TRUE]
        \/ s = [sent EXCEPT !.left = TRUE]
    BY DEF SendAndStore
  <2>2. sent = out(stored, x, tm, FALSE)
    BY DEF Sent
  <2> DEFINE e == out(stored, x, tm, FALSE)
  <2> HIDE DEF sent, stored, moved, on
  <2>3. \/ s = [e EXCEPT !.tm = on]
        \/ s = [e EXCEPT !.ta = moved, !.tx = IdleTx, !.left = TRUE]
        \/ s = [e EXCEPT !.ta = moved, !.tx.msg = NoMsg, !.left = TRUE]
        \/ s = [e EXCEPT !.left = TRUE]
    <3> HIDE DEF e
    <3>1. sent = e
      BY <2>2 DEF e
    <3>2. QED
      BY <2>1, <3>1
  <2>4. QED
    BY <2>3
<1> HIDE DEF stored, moved, on
<1>3. CASE s = out(stored, [to |-> "ta", msg |-> r], on, FALSE)
  BY <1>1, <1>3
<1>4. CASE s = out(moved, IdleTx, tm, TRUE)
  BY <1>1, <1>4 DEF IdleTx
<1>5. CASE s = out(moved, [to |-> "ta", msg |-> NoMsg], tm, TRUE)
  BY <1>1, <1>5
<1>6. CASE s = out(stored, [to |-> "ta", msg |-> r], tm, TRUE)
  BY <1>1, <1>6
<1>7. QED
  BY <1>2, <1>3, <1>4, <1>5, <1>6

(* A later response keeps the order: it is sent at once if nothing waits,  *)
(* and else goes to the end of the queue.                                  *)
LEMMA RespondOrder ==
  ASSUME SafeInv, OrderInv, NEW r \in Code, NEW tm \in TimerType,
         NEW s \in SendResponse(ta, r, tm),
         ~ua.stopped, ua.state # "Start", Below(ta, hist, r)
  PROVE  /\ Below(s.ta, hist, r) /\ Ordered(s.ta, hist)
         /\ InUse(s.ta, s.tx, ua) /\ Unpassed(s.ta, s.tx, hist, ua)
<1>1. ta \in TaType /\ hist \in HistType /\ r \in Nat
  BY Codes DEF SafeInv, TypeOK
<1>2. ta.terminated \/ ta.passed
  BY DEF SafeInv, RetransmitInv
<1>3. CASE s = [ta |-> ta, tx |-> tx, tm |-> tm, left |-> TRUE]
  BY <1>3 DEF OrderInv
<1>4. CASE /\ ~ta.terminated /\ tx.to # "none"
           /\ s = [ta |-> [ta EXCEPT !.queue = Enqueue(@, r)],
                   tx |-> tx, tm |-> tm, left |-> FALSE]
  <2>1. /\ s.ta.queue = Append(ta.queue, r) /\ s.ta.msg = ta.msg
        /\ s.ta.terminated = ta.terminated /\ s.ta.passed = ta.passed
        /\ s.ta.state = ta.state /\ s.tx = tx
    BY <1>1, <1>4 DEF TaType, Enqueue
  <2>2. /\ DOMAIN s.ta.queue = 1..(Len(ta.queue) + 1)
        /\ \A i \in 1..Len(ta.queue) : s.ta.queue[i] = ta.queue[i]
        /\ s.ta.queue[Len(ta.queue) + 1] = r
    BY <1>1, <2>1, NumbersOf
  <2>3. Below(s.ta, hist, r)
    BY <1>1, <2>1, <2>2, NumbersOf DEF Below
  <2>4. Ordered(s.ta, hist)
    BY <1>1, <2>1, <2>2, NumbersOf DEF Below, OrderInv, Ordered
  <2>5. InUse(s.ta, s.tx, ua)
    BY <1>4, <2>1 DEF OrderInv, InUse
  <2>6. Unpassed(s.ta, s.tx, hist, ua)
    BY <1>2, <2>1 DEF Unpassed
  <2>7. QED
    BY <2>3, <2>4, <2>5, <2>6
<1>5. CASE /\ ~ta.terminated /\ ta.state = "Proceeding" /\ tx.to = "none"
           /\ s \in SendAndStore(ta, r, tm)
  <2>1. ta.queue = << >>
    BY <1>5 DEF OrderInv, InUse
  <2>2. /\ s.ta.queue = << >> /\ s.ta.passed = ta.passed
    BY <1>1, <1>5, <2>1, SendAndStoreFacts
  <2>3. /\ s.ta.msg \in {ta.msg, r} /\ s.tx.to \in {"none", "ta"}
        /\ s.tx.msg \in {NoMsg, s.ta.msg}
    BY <1>1, <1>5, SendAndStoreOrder
  <2>4. /\ hist.wire <= r /\ ta.msg <= r /\ hist.wire <= ta.msg
    BY <1>5 DEF Below, OrderInv, Ordered
  <2>5. DOMAIN s.ta.queue = {}
    BY <2>2
  <2>6. Below(s.ta, hist, r) /\ Ordered(s.ta, hist)
    BY <1>1, <2>3, <2>4, <2>5 DEF Below, Ordered
  <2>7. InUse(s.ta, s.tx, ua) /\ Unpassed(s.ta, s.tx, hist, ua)
    BY <1>2, <1>5, <2>2, <2>3 DEF InUse, Unpassed
  <2>8. QED
    BY <2>6, <2>7
<1>6. QED
  BY <1>3, <1>4, <1>5 DEF SendResponse

LEMMA GivesOrder ==
  ASSUME SafeInv, OrderInv, TypeOK', NEW r \in Code, NEW tm \in TimerType,
         NEW s \in SendResponse(ta, r, tm),
         ~ua.stopped, ua.state # "Start", Limit(ua, hist) <= r,
         ta' = s.ta, tx' = s.tx, hist'.wire = hist.wire,
         r <= Limit(ua', hist')
  PROVE  Kept
<1>1. /\ ta \in TaType /\ ua \in UaType /\ hist \in HistType
      /\ ta' \in TaType /\ ua' \in UaType /\ hist' \in HistType /\ r \in Nat
  BY Codes DEF SafeInv, TypeOK
<1>2. /\ Limit(ua, hist) \in Nat /\ Limit(ua', hist') \in Nat
  BY <1>1, Numbers
<1>3. Below(ta, hist, r)
  BY <1>1, <1>2, NumbersOf DEF OrderInv, Below
<1>4. /\ Below(s.ta, hist, r) /\ Ordered(s.ta, hist)
      /\ InUse(s.ta, s.tx, ua) /\ Unpassed(s.ta, s.tx, hist, ua)
  BY <1>3, RespondOrder
<1>5. Below(ta', hist', Limit(ua', hist'))
  BY <1>1, <1>2, <1>4, NumbersOf DEF Below
<1>6. QED
  BY <1>1, <1>4, <1>5, NumbersOf
  DEF Kept, OrderInv, Ordered, InUse, Unpassed, Below, Limit

(* An end brings no response.                                              *)
LEMMA SameWire ==
  ASSUME NEW h \in HistType, NEW r, NEW left
  PROVE  /\ Disowned(h, r, left).wire = h.wire
         /\ Disowned(h, r, left).provs = h.provs
         /\ Disowned(h, r, TRUE).wire = h.wire
<1>1. /\ [h EXCEPT !.disowned = @ \cup {r}].wire = h.wire
      /\ [h EXCEPT !.disowned = @ \cup {r}].provs = h.provs
  BY DEF HistType
<1>2. QED
  BY <1>1 DEF Disowned

LEMMA CanceledWire ==
  ASSUME NEW h \in HistType, NEW u
  PROVE  /\ CancelHandled(u, h).h.wire = h.wire
         /\ CancelHandled(u, h).h.provs = h.provs
<1>1. /\ [h EXCEPT !.ended = IF u.owner THEN @ + 1 ELSE @].wire = h.wire
      /\ [h EXCEPT !.ended = IF u.owner THEN @ + 1 ELSE @].provs = h.provs
  BY DEF HistType
<1>2. QED
  BY <1>1 DEF CancelHandled

LEMMA RejectingState ==
  ASSUME NEW u \in UaType
  PROVE  /\ Rejecting(u).state = "Rejected"
         /\ Rejecting(u).stopped = u.stopped /\ Rejecting(u).holds = u.holds
         /\ Rejecting(u) \in UaType
BY DEF Rejecting, UaType, UaState

-----------------------------------------------------------------------------
(* Requests from the network.                                              *)
LEMMA FirstInviteOrder ==
  ASSUME SafeInv, OrderInv, TypeOK', FirstInvite
  PROVE  Kept
<1> DEFINE t100 == [ta EXCEPT !.msg = Trying]
           tPassed == [t100 EXCEPT !.passed = TRUE]
           tQueued == [tPassed EXCEPT !.queue = <<Reject>>]
           x == [to |-> "ta", msg |-> Trying]
           owned == [ua EXCEPT !.state = "WaitRespFromApp", !.owner = TRUE]
<1>1. /\ ~ta.terminated /\ ~ua.stopped /\ ua.state = "Start"
      /\ ta \in TaType /\ ua \in UaType /\ timer \in TimerType
      /\ tx \in TxType /\ hist \in HistType
  BY DEF FirstInvite, SafeInv, TypeOK, RetransmitInv
<1>2. hist.wire = NoMsg /\ ta.queue = << >>
  BY <1>1 DEF FirstInvite, OrderInv, Unpassed
<1>3. /\ t100 \in TaType /\ t100.msg = Trying /\ t100.queue = << >>
      /\ tPassed.passed /\ tPassed.msg = Trying /\ tPassed.queue = << >>
      /\ tQueued.passed /\ tQueued.msg = Trying
      /\ tQueued.queue = <<Reject>>
  BY <1>1, <1>2, Codes DEF TaType
<1>4. x \in TxType /\ x.to = "ta" /\ x.msg = Trying
  BY Codes DEF TxType
<1>5. \A u \in UaType : Trying <= Limit(u, hist) /\ Limit(u, hist) \in Nat
  BY <1>1, Numbers
<1>6. CASE /\ tx' = x /\ hist'.wire = hist.wire
           /\ \/ ta' = tPassed
              \/ ta' = tQueued /\ ua'.state = "Rejected"
  <2>1. Trying <= Limit(ua', hist') /\ Limit(ua', hist') \in Nat
    BY Numbers DEF TypeOK
  <2>2. ua'.state = "Rejected" => Limit(ua', hist') = Reject
    BY DEF Limit
  <2> DEFINE q == ta'.queue
  <2>3. \/ q = << >>
        \/ q = <<Reject>> /\ Limit(ua', hist') = Reject
    BY <1>3, <1>6, <2>2
  <2>4. \A i \in DOMAIN q : /\ i = 1 /\ q[i] = Reject
                           /\ Limit(ua', hist') = Reject
    BY <2>3
  <2>5. ta'.msg = Trying /\ hist'.wire = NoMsg
    BY <1>2, <1>3, <1>6
  <2> HIDE DEF q
  <2>6. Below(ta', hist', Limit(ua', hist'))
    BY <2>1, <2>4, <2>5 DEF Below, NoMsg, Trying, Reject, q
  <2>7. Ordered(ta', hist')
    BY <2>4, <2>5 DEF Ordered, NoMsg, Trying, Reject, q
  <2>8. InUse(ta', tx', ua') /\ Unpassed(ta', tx', hist', ua')
    BY <1>3, <1>4, <1>6 DEF InUse, Unpassed
  <2>9. hist'.wire >= hist.wire
    BY <1>2, <1>6 DEF NoMsg
  <2>10. QED
    BY <2>6, <2>7, <2>8, <2>9
    DEF Kept, OrderInv, Below, Ordered, InUse, Unpassed, Limit
<1>7. ASSUME NEW u \in {ua, Rejecting(ua), owned}, NEW y \in {tx, x},
             EndByLeave(t100, u, timer, y, hist)
      PROVE  Kept
  <2>0. /\ owned \in UaType /\ owned.stopped = ua.stopped
        /\ owned.holds = ua.holds /\ owned.state # "Accepted"
    BY <1>1 DEF UaType, UaState
  <2> HIDE DEF owned
  <2>1. /\ u \in UaType /\ u.stopped = ua.stopped /\ u.holds = ua.holds
        /\ u.state # "Accepted"
    BY <1>1, <2>0, RejectingState
  <2>2. y \in TxType /\ (y.to = "ua" => y.msg = Ok)
    BY <1>1, <1>4 DEF OrderInv, InUse
  <2>3. Below(t100, hist, Limit(u, hist))
    BY <1>2, <1>3, <1>5, <2>1 DEF Below, NoMsg, Trying
  <2>4. hist.wire >= hist.wire
    BY <1>2 DEF NoMsg
  <2> HIDE DEF t100
  <2>5. QED
    BY <1>1, <1>3, <1>7, <2>1, <2>2, <2>3, <2>4, EndByLeaveOrder
<1>8. [hist EXCEPT !.told = TRUE].wire = hist.wire
  BY <1>1 DEF HistType
<1>9. QED
  BY <1>1, <1>6, <1>7, <1>8, RejectingState DEF FirstInvite

LEMMA FurtherRequestOrder ==
  ASSUME SafeInv, OrderInv, TypeOK', InviteAgain \/ AckToTa \/ AckToUa
  PROVE  Kept
<1>1. /\ ta \in TaType /\ ua \in UaType /\ timer \in TimerType
      /\ tx \in TxType /\ hist \in HistType /\ TypeOK
      /\ ua' \in UaType /\ hist' \in HistType
  BY DEF SafeInv, TypeOK
<1>2. /\ hist.wire >= hist.wire /\ Limit(ua, hist) \in Nat
      /\ Below(ta, hist, Limit(ua, hist)) /\ (tx.to = "ua" => tx.msg = Ok)
  BY <1>1, Numbers, NumbersOf DEF OrderInv, InUse
<1>3. ASSUME NEW tm \in TimerType, EndByLeave(ta, ua, tm, tx, hist)
      PROVE  Kept
  BY <1>1, <1>2, <1>3, EndByLeaveOrder
<1>4. CASE InviteAgain
  <2>1. CASE /\ tx' = [to |-> "ta", msg |-> ta.msg]
             /\ UNCHANGED <<ta, ua, hist>>
    <3>1. ta.passed /\ Ordered(ta, hist)
      BY <1>4 DEF InviteAgain, OrderInv
    <3>2. Ordered(ta', hist')
      BY <2>1, <3>1 DEF Ordered
    <3>3. Below(ta', hist', Limit(ua', hist'))
      BY <1>2, <2>1 DEF Below, Limit
    <3>4. InUse(ta', tx', ua') /\ Unpassed(ta', tx', hist', ua')
      BY <2>1, <3>1 DEF InUse, Unpassed
    <3>5. QED
      BY <1>2, <2>1, <3>2, <3>3, <3>4 DEF Kept, OrderInv
  <2>2. QED
    BY <1>1, <1>3, <1>4, <2>1 DEF InviteAgain
<1>5. CASE AckToTa
  <2> DEFINE tm == [timer EXCEPT !["G"] = "off", !["H"] = "off"]
  <2>1. tm \in TimerType
    BY <1>1 DEF TimerType
  <2>2. CASE /\ ta' = [ta EXCEPT !.state = "Confirmed"]
             /\ UNCHANGED <<ua, tx, hist>>
    <3>1. /\ ta'.terminated = ta.terminated /\ ta'.msg = ta.msg
          /\ ta'.queue = ta.queue /\ ta'.passed = ta.passed
          /\ ta'.state = "Confirmed"
      BY <1>1, <2>2 DEF TaType
    <3>2. ~ta.terminated /\ ta.state = "Completed"
      BY <1>5 DEF AckToTa
    <3>3. ta.passed \/ ua.stopped
      BY <3>2 DEF OrderInv, Unpassed
    <3>4. QED
      BY <1>2, <2>2, <3>1, <3>2, <3>3
      DEF Kept, OrderInv, InUse, Below, Ordered, Unpassed, Limit
  <2> HIDE DEF tm
  <2>3. QED
    BY <1>3, <1>5, <2>1, <2>2 DEF AckToTa, tm
<1>6. CASE AckToUa
  <2>1. PICK found \in BOOLEAN :
          Stop([ua EXCEPT !.owner = found \/ @], doomed, hist)
    BY <1>6 DEF AckToUa
  <2> DEFINE u == [ua EXCEPT !.owner = found \/ @]
  <2>2. u \in UaType /\ u.state = ua.state /\ Stop(u, doomed, hist)
    BY <1>1, <2>1 DEF UaType
  <2> HIDE DEF u
  <2>3. /\ ua'.state = ua.state /\ ua'.stopped
        /\ hist'.wire = hist.wire /\ hist'.provs = hist.provs
    BY <1>1, <2>2, StopWire
  <2>4. Limit(ua, hist) <= Limit(ua', hist') /\ UNCHANGED <<ta, tx>>
    BY <1>2, <1>6, <2>3 DEF Limit, AckToUa
  <2>5. QED
    BY <1>1, <2>3, <2>4, QuietOrder
<1>7. QED
  BY <1>4, <1>5, <1>6

LEMMA CancelOrder ==
  ASSUME SafeInv, OrderInv, TypeOK', Cancel
  PROVE  Kept
<1>1. /\ ta \in TaType /\ ua \in UaType /\ timer \in TimerType
      /\ hist \in HistType /\ TypeOK /\ Reject \in Code
      /\ ua' \in UaType /\ hist' \in HistType
      /\ ~ua.stopped /\ Rejecting(ua) \in UaType
      /\ Rejecting(ua).state = "Rejected"
  BY Codes, RejectingState DEF Cancel, SafeInv, TypeOK
<1>2. \A u \in UaType : CancelHandled(u, hist).u.state = u.state
  BY DEF CancelHandled, UaType
<1>3. CASE ua.state \in {"GetTxOwner", "WaitRespFromApp"}
  <2>1. PICK s \in SendResponse(ta, Reject, timer) :
          /\ ta' = s.ta /\ tx' = s.tx
          /\ \/ /\ ua' = Rejecting(ua)
                /\ hist' = Disowned(hist, Reject, TRUE)
             \/ /\ ua' = CancelHandled(Rejecting(ua), hist).u
                /\ hist' = CancelHandled(Rejecting(ua), hist).h
    BY <1>3 DEF Cancel
  <2>2. ua'.state = "Rejected" /\ hist'.wire = hist.wire
    <3>1. ua'.state = "Rejected"
      BY <1>1, <1>2, <2>1
    <3>2. hist'.wire = hist.wire
      BY <1>1, <2>1, CanceledWire DEF Disowned, HistType
    <3>3. QED
      BY <3>1, <3>2
  <2>3. Limit(ua, hist) <= Reject /\ Reject <= Limit(ua', hist')
    BY <1>1, <2>2, Numbers DEF Limit, Reject
  <2>4. QED
    BY <1>1, <1>3, <2>1, <2>2, <2>3, GivesOrder
<1>4. CASE /\ ua.state = "Accepted" /\ UNCHANGED <<ta, tx>>
           /\ ua' = CancelHandled(ua, hist).u
           /\ hist' = CancelHandled(ua, hist).h
  <2>1. /\ hist'.wire = hist.wire /\ hist'.provs = hist.provs
        /\ ua'.state = ua.state
    BY <1>1, <1>2, <1>4, CanceledWire
  <2>2. Limit(ua, hist) <= Limit(ua', hist')
    BY <1>1, <2>1, Numbers DEF Limit
  <2>3. QED
    BY <1>1, <1>4, <2>1, <2>2, QuietOrder
<1>5. QED
  BY <1>3, <1>4 DEF Cancel

-----------------------------------------------------------------------------
(* The router's answers, and a router that does not answer in time.        *)
LEMMA RouterOrder ==
  ASSUME SafeInv, OrderInv, TypeOK',
         \/ OwnerFound \/ OwnerNotFound \/ RouterError
         \/ TimerOwnerResolver
  PROVE  Kept
<1>1. /\ ta \in TaType /\ ua \in UaType /\ timer \in TimerType
      /\ hist \in HistType /\ TypeOK /\ Reject \in Code
      /\ ua' \in UaType /\ hist' \in HistType
      /\ Rejecting(ua) \in UaType /\ Rejecting(ua).state = "Rejected"
  BY Codes, RejectingState DEF SafeInv, TypeOK
<1>2. Limit(ua, hist) \in Nat /\ Limit(ua, hist) <= Reject
  BY <1>1, Numbers
<1> DEFINE tm == [timer EXCEPT !["OwnerResolver"] = "off"]
<1>3. tm \in TimerType
  BY <1>1, ResolverFacts
<1> HIDE DEF tm
<1>4. CASE UNCHANGED <<ta, ua, tx, hist>>
  BY <1>1, <1>2, <1>4, QuietOrder
<1>5. CASE OwnerFound /\ ~ua.stopped /\ ua.state = "GetTxOwner"
  <2>1. /\ ua' = [ua EXCEPT !.state = "WaitRespFromApp", !.owner = TRUE]
        /\ hist' = [hist EXCEPT !.told = TRUE] \/ hist' = hist
        /\ UNCHANGED <<ta, tx>>
    BY <1>5 DEF OwnerFound
  <2>2. /\ ua'.state = "WaitRespFromApp"
        /\ hist'.wire = hist.wire /\ hist'.provs = hist.provs
    BY <1>1, <2>1 DEF UaType, HistType
  <2>3. Limit(ua, hist) <= Limit(ua', hist')
    BY <1>2, <1>5, <2>2 DEF Limit
  <2>4. QED
    BY <1>1, <1>5, <2>1, <2>2, <2>3, QuietOrder
<1>6. ASSUME ~ua.stopped, ua.state = "GetTxOwner",
             NEW m \in TimerType, NEW s \in SendResponse(ta, Reject, m),
             ta' = s.ta, tx' = s.tx, ua'.state = "Rejected",
             hist'.wire = hist.wire
      PROVE  Kept
  <2>1. Reject <= Limit(ua', hist')
    BY <1>6 DEF Limit, Reject
  <2>2. QED
    BY <1>1, <1>2, <1>6, <2>1, GivesOrder
<1>7. CASE /\ OwnerNotFound \/ TimerOwnerResolver
           /\ ~ua.stopped /\ ua.state = "GetTxOwner"
  <2>1. PICK m \in {timer, tm} : \E s \in SendResponse(ta, Reject, m) :
          /\ ta' = s.ta /\ tx' = s.tx /\ ua' = Rejecting(ua)
          /\ hist' = Disowned(hist, Reject, s.left)
    BY <1>7 DEF OwnerNotFound, TimerOwnerResolver, tm
  <2>2. PICK s \in SendResponse(ta, Reject, m) :
          /\ ta' = s.ta /\ tx' = s.tx /\ ua' = Rejecting(ua)
          /\ hist' = Disowned(hist, Reject, s.left)
    BY <2>1
  <2>3. hist'.wire = hist.wire /\ ua'.state = "Rejected"
    BY <1>1, <2>2 DEF Disowned, HistType
  <2>4. m \in TimerType
    BY <1>1, <1>3
  <2>5. QED
    BY <1>6, <1>7, <2>2, <2>3, <2>4
<1>8. CASE Stop(ua, doomed, hist) /\ UNCHANGED <<ta, tx>>
  <2>1. /\ ua'.state = ua.state /\ ua'.stopped
        /\ hist'.wire = hist.wire /\ hist'.provs = hist.provs
    BY <1>1, <1>8, StopWire
  <2>2. Limit(ua, hist) <= Limit(ua', hist')
    BY <1>2, <2>1 DEF Limit
  <2>3. QED
    BY <1>1, <1>8, <2>1, <2>2, QuietOrder
<1>9. ASSUME ~ua.stopped, ua.state = "GetTxOwner",
             NEW s \in SendResponse(ta, Reject, tm), ta' = s.ta, tx' = s.tx,
             IF s.left
             THEN Stop(Rejecting(ua), doomed, Disowned(hist, Reject, TRUE))
             ELSE /\ ua' = Rejecting(ua)
                  /\ UNCHANGED <<route, doomed, marked, hist>>
      PROVE  Kept
  <2>1. CASE s.left
    <3>1. Stop(Rejecting(ua), doomed, Disowned(hist, Reject, TRUE))
      BY <1>9, <2>1
    <3>2. Disowned(hist, Reject, TRUE) \in HistType
      BY <1>1, UpdateFacts
    <3>3. /\ ua'.state = "Rejected"
          /\ hist'.wire = Disowned(hist, Reject, TRUE).wire
      BY <1>1, <3>1, <3>2, StopWire
    <3>4. hist'.wire = hist.wire
      BY <1>1, <3>3, SameWire
    <3>5. QED
      BY <1>3, <1>6, <1>9, <3>3, <3>4
  <2>2. CASE ~s.left
    BY <1>1, <1>3, <1>6, <1>9, <2>2
  <2>3. QED
    BY <2>1, <2>2
<1>10. QED
  BY <1>4, <1>5, <1>7, <1>8, <1>9
  DEF OwnerFound, OwnerNotFound, RouterError, TimerOwnerResolver, tm

(* The application's calls.                                                *)
LEMMA ApplicationOrder ==
  ASSUME SafeInv, OrderInv, TypeOK',
         \/ AppProvisional \/ AppRejects \/ AppAccepts
         \/ ClearTransactionOwner
  PROVE  Kept
<1>1. /\ ta \in TaType /\ ua \in UaType /\ timer \in TimerType
      /\ hist \in HistType /\ TypeOK /\ {Ok, Reject} \subseteq Code
      /\ ua' \in UaType /\ hist' \in HistType
      /\ Rejecting(ua) \in UaType /\ Rejecting(ua).state = "Rejected"
  BY Codes, RejectingState DEF SafeInv, TypeOK
<1>2. /\ Limit(ua, hist) \in Nat /\ Limit(ua, hist) <= Reject
      /\ ua.state # "Rejected" => Limit(ua, hist) <= Ok
      /\ hist.provs \in Nat
  BY <1>1, Numbers DEF HistType
<1>3. ASSUME NEW r \in Code, AppResponds(r), Limit(ua, hist) <= r,
             \/ r >= 300 /\ r <= Reject
             \/ r < 200 /\ r <= Trying + hist.provs + 1
      PROVE  Kept
  <2>1. PICK s \in SendResponse(ta, r, timer) :
          /\ ta' = s.ta /\ tx' = s.tx
          /\ ua' = IF r >= 300 THEN Rejecting(ua) ELSE ua
          /\ hist' = [Disowned(hist, r, s.left) EXCEPT
                        !.provs = IF r < 200 THEN @ + 1 ELSE @]
    BY <1>3 DEF AppResponds
  <2>2. ~ua.stopped /\ ua.state = "WaitRespFromApp"
    BY <1>3 DEF AppResponds
  <2> DEFINE h == Disowned(hist, r, s.left)
  <2>3. h.wire = hist.wire /\ h.provs = hist.provs /\ h \in HistType
    <3>1. s.left \in BOOLEAN
      BY <1>1, SendResponseFacts
    <3>2. h \in HistType
      BY <1>1, <3>1, UpdateFacts
    <3>3. QED
      BY <1>1, <3>2 DEF Disowned, HistType
  <2>4. hist' = [h EXCEPT !.provs = IF r < 200 THEN @ + 1 ELSE @]
    BY <2>1
  <2> HIDE DEF h
  <2>5. /\ hist'.wire = hist.wire
        /\ r < 200 => hist'.provs = hist.provs + 1
    BY <2>3, <2>4 DEF HistType
  <2>6. r <= Limit(ua', hist')
    <3>1. r \in Nat
      BY Codes
    <3>2. CASE r >= 300 /\ r <= Reject
      BY <1>1, <2>1, <3>2 DEF Limit
    <3>3. CASE r < 200 /\ r <= Trying + hist.provs + 1
      <4>1. ua' = ua
        BY <2>1, <3>1, <3>3
      <4>2. Limit(ua', hist') = Trying + (hist.provs + 1)
        BY <2>2, <2>5, <3>3, <4>1 DEF Limit
      <4>3. QED
        BY <1>2, <3>1, <3>3, <4>2 DEF Trying
    <3>4. QED
      BY <1>3, <3>2, <3>3
  <2>7. QED
    BY <1>1, <1>3, <2>1, <2>2, <2>5, <2>6, GivesOrder
<1>4. CASE AppProvisional
  <2>1. /\ hist.provs < MaxProv /\ hist.provs + 1 \in 1..MaxProv
        /\ MaxProv < 99 /\ MaxProv \in Nat
    BY <1>2, <1>4, InviteServerAssumption DEF AppProvisional
  <2>2. 100 + (hist.provs + 1) \in Code
    BY <2>1, Codes
  <2>3. Trying + hist.provs + 1 = 100 + (hist.provs + 1)
    BY <1>2 DEF Trying
  <2>4. AppResponds(100 + (hist.provs + 1))
    BY <1>4, <2>3 DEF AppProvisional
  <2>5. ua.state = "WaitRespFromApp"
    BY <2>4 DEF AppResponds
  <2>6. Limit(ua, hist) = 100 + hist.provs
    BY <2>5 DEF Limit, Trying
  <2>7. QED
    BY <1>2, <1>3, <2>1, <2>2, <2>3, <2>4, <2>6
<1>5. CASE AppRejects
  BY <1>1, <1>2, <1>3, <1>5 DEF AppRejects, Reject
<1>6. CASE AppAccepts
  <2> DEFINE u == [ua EXCEPT !.state = "Accepted"]
             tm == [timer EXCEPT !["WaitAck"] = "on"]
  <2>1. ~ua.stopped /\ ua.state = "WaitRespFromApp"
    BY <1>6 DEF AppAccepts
  <2>2. tm \in TimerType
    BY <1>1 DEF TimerType
  <2>3. /\ u \in UaType /\ u.state = "Accepted"
        /\ \A b \in BOOLEAN : [u EXCEPT !.has2xx = b].state = "Accepted"
    BY <1>1 DEF UaType, UaState
  <2>4. \/ UNCHANGED <<ta, tx>> /\ ua' = u /\ hist' = Disowned(hist, Ok, TRUE)
        \/ \E s \in SendResponse(ta, Ok, tm) :
             /\ ta' = s.ta /\ tx' = s.tx /\ hist' = Disowned(hist, Ok, s.left)
             /\ ua' = [u EXCEPT !.has2xx = ~s.left]
    BY <1>6 DEF AppAccepts
  <2> HIDE DEF u, tm
  <2>5. CASE /\ UNCHANGED <<ta, tx>> /\ ua' = u
             /\ hist' = Disowned(hist, Ok, TRUE)
    <3>1. hist'.wire = hist.wire /\ ua'.state = "Accepted"
      BY <1>1, <2>3, <2>5, SameWire
    <3>2. Limit(ua, hist) <= Limit(ua', hist')
      BY <1>2, <2>1, <3>1 DEF Limit
    <3>3. QED
      BY <1>1, <2>1, <2>5, <3>1, <3>2, QuietOrder
  <2>6. ASSUME NEW s \in SendResponse(ta, Ok, tm),
               ta' = s.ta, tx' = s.tx, hist' = Disowned(hist, Ok, s.left),
               ua' = [u EXCEPT !.has2xx = ~s.left]
        PROVE  Kept
    <3>1. hist'.wire = hist.wire
      BY <1>1, <2>6 DEF Disowned, HistType
    <3>2. ua'.state = "Accepted"
      BY <2>3, <2>6
    <3>3. Limit(ua, hist) <= Ok /\ Ok <= Limit(ua', hist')
      BY <1>2, <2>1, <3>2 DEF Limit, Ok
    <3>4. QED
      BY <1>1, <2>1, <2>2, <2>6, <3>1, <3>3, GivesOrder
  <2>7. QED
    BY <2>4, <2>5, <2>6
<1>7. CASE ClearTransactionOwner
  <2> DEFINE u == [ua EXCEPT !.owner = FALSE]
             h == [hist EXCEPT !.cleared = TRUE]
  <2>1. u \in UaType /\ u.state = ua.state /\ ~ua.stopped
    BY <1>1, <1>7 DEF UaType, ClearTransactionOwner
  <2>2. /\ h \in HistType /\ h.wire = hist.wire /\ h.provs = hist.provs
    BY <1>1 DEF HistType
  <2>3. \/ Stop(u, doomed, h)
        \/ ua' = u /\ hist' = h
    BY <1>7 DEF ClearTransactionOwner
  <2>4. UNCHANGED <<ta, tx>>
    BY <1>7 DEF ClearTransactionOwner
  <2> HIDE DEF u, h
  <2>5. /\ ua'.state = ua.state
        /\ hist'.wire = hist.wire /\ hist'.provs = hist.provs
    BY <2>1, <2>2, <2>3, StopWire
  <2>6. Limit(ua, hist) <= Limit(ua', hist')
    BY <1>2, <2>5 DEF Limit
  <2>7. QED
    BY <1>1, <2>1, <2>4, <2>5, <2>6, QuietOrder
<1>8. QED
  BY <1>4, <1>5, <1>6, <1>7

-----------------------------------------------------------------------------
(* The transmitter completes: what it sent is what has been kept, and the  *)
(* next one in the queue is not older.                                     *)
LEMMA OnWireOrder ==
  ASSUME SafeInv, OrderInv, NEW done \in BOOLEAN, tx.to # "none"
  PROVE  LET h == OnWire(hist, done) IN
         /\ h \in HistType /\ h.wire >= hist.wire
         /\ h.provs = hist.provs /\ Below(ta, h, Limit(ua, h))
         /\ Ordered(ta, h)
<1>1. /\ ta \in TaType /\ ua \in UaType /\ tx \in TxType
      /\ hist \in HistType /\ TypeOK
  BY DEF SafeInv, TypeOK
<1>2. /\ Below(ta, hist, Limit(ua, hist)) /\ Ordered(ta, hist)
      /\ hist.wire \in Nat /\ Limit(ua, hist) \in Nat /\ ta.msg \in Nat
  BY <1>1, Numbers, NumbersOf DEF OrderInv
<1>3. CASE tx.msg = NoMsg \/ ~done
  <2>1. OnWire(hist, done) = hist
    BY <1>3 DEF OnWire
  <2>2. QED
    BY <1>1, <1>2, <2>1
<1>4. CASE tx.msg # NoMsg /\ done
  <2> DEFINE h == [hist EXCEPT !.wire = tx.msg]
  <2>1. OnWire(hist, done) = h
    BY <1>4 DEF OnWire
  <2>2. /\ h \in HistType /\ h.wire = tx.msg /\ h.provs = hist.provs
    BY <1>1 DEF HistType, TxType
  <2> HIDE DEF h
  <2>3. Limit(ua, h) = Limit(ua, hist)
    BY <2>2 DEF Limit
  <2>4. CASE tx.to = "ta"
    <3>1. ~ta.terminated /\ tx.msg = ta.msg
      BY <1>4, <2>4 DEF SafeInv, TransmitterOwned, OrderInv, InUse
    <3>2. Below(ta, h, Limit(ua, h)) /\ Ordered(ta, h) /\ h.wire >= hist.wire
      BY <1>2, <2>2, <2>3, <3>1 DEF Below, Ordered
    <3>3. QED
      BY <2>1, <2>2, <3>2
  <2>5. CASE tx.to = "ua"
    <3>1. ta.terminated /\ tx.msg = Ok /\ Limit(ua, hist) = Ok
      BY <2>5 DEF SafeInv, TransmitterOwned, RetransmitInv, OrderInv, InUse,
                  Limit
    <3>2. Below(ta, h, Limit(ua, h)) /\ Ordered(ta, h) /\ h.wire >= hist.wire
      BY <1>2, <2>2, <2>3, <3>1 DEF Below, Ordered, Ok
    <3>3. QED
      BY <2>1, <2>2, <3>1, <3>2
  <2>6. QED
    BY <1>1, <2>4, <2>5 DEF TxType
<1>5. QED
  BY <1>3, <1>4

LEMMA SendDoneOrder ==
  ASSUME SafeInv, OrderInv, TypeOK', TaSendDone \/ UaSendDone
  PROVE  Kept
<1>1. /\ ta \in TaType /\ ua \in UaType /\ timer \in TimerType
      /\ tx \in TxType /\ hist \in HistType /\ TypeOK
      /\ ua' \in UaType /\ hist' \in HistType /\ IdleTx \in TxType
      /\ IdleTx.to = "none" /\ tx.to # "none"
  BY Codes DEF SafeInv, TypeOK, TaSendDone, UaSendDone, IdleTx, TxType
<1>2. ta.terminated \/ ua.stopped \/ ta.passed
  BY <1>1 DEF OrderInv, Unpassed
<1>3. ASSUME NEW done \in BOOLEAN
      PROVE  /\ OnWire(hist, done) \in HistType
             /\ OnWire(hist, done).wire >= hist.wire
             /\ OnWire(hist, done).provs = hist.provs
             /\ Below(ta, OnWire(hist, done), Limit(ua, OnWire(hist, done)))
             /\ Ordered(ta, OnWire(hist, done))
  BY <1>1, OnWireOrder
<1>4. ASSUME NEW done \in BOOLEAN, hist' = OnWire(hist, done),
             tx' = IdleTx, UNCHANGED <<ta, ua>>,
             \/ ta.terminated \/ ta.state # "Proceeding"
             \/ ta.queue = << >>
      PROVE  Kept
  <2>1. InUse(ta', tx', ua') /\ Unpassed(ta', tx', hist', ua')
    BY <1>1, <1>2, <1>4 DEF InUse, Unpassed
  <2>2. Ordered(ta', hist')
    BY <1>3, <1>4 DEF Ordered
  <2>3. Below(ta', hist', Limit(ua', hist')) /\ hist'.wire >= hist.wire
    BY <1>3, <1>4 DEF Below, Limit
  <2>4. QED
    BY <2>1, <2>2, <2>3 DEF Kept, OrderInv, Below, Ordered, InUse, Unpassed,
                            Limit
<1>5. CASE UaSendDone
  <2>1. ta.terminated /\ tx' = IdleTx /\ ta' = ta
    BY <1>5 DEF UaSendDone, SafeInv, TransmitterOwned
  <2>2. ASSUME NEW done \in BOOLEAN, Stop(ua, doomed, OnWire(hist, done))
        PROVE  Kept
    <3>1. /\ ua'.state = ua.state
          /\ hist'.wire = OnWire(hist, done).wire
          /\ hist'.provs = OnWire(hist, done).provs
      BY <1>1, <1>3, <2>2, StopWire
    <3>2. Below(ta', hist', Limit(ua', hist')) /\ hist'.wire >= hist.wire
      BY <1>3, <2>1, <3>1 DEF Below, Limit
    <3>3. /\ Ordered(ta', hist') /\ InUse(ta', tx', ua')
          /\ Unpassed(ta', tx', hist', ua')
      BY <1>1, <2>1 DEF Ordered, InUse, Unpassed
    <3>4. QED
      BY <3>2, <3>3 DEF Kept, OrderInv, Below, Ordered, InUse, Unpassed,
                        Limit
  <2>3. \/ hist' = OnWire(hist, TRUE) /\ UNCHANGED ua
        \/ \E done \in BOOLEAN : Stop(ua, doomed, OnWire(hist, done))
    BY <1>5 DEF UaSendDone
  <2>4. QED
    BY <1>4, <2>1, <2>2, <2>3
<1>6. CASE TaSendDone
  <2>1. ~ta.terminated /\ ~(IdleTx.to = "ua")
    BY <1>1, <1>6 DEF TaSendDone, SafeInv, TransmitterOwned
  <2>2. CASE SentInProceeding /\ ta.queue # << >>
    <3> DEFINE t == [ta EXCEPT !.queue = Tail(@)]
               r == Head(ta.queue)
               h == OnWire(hist, TRUE)
    <3>1. /\ t \in TaType /\ t.terminated = ta.terminated
          /\ t.passed = ta.passed /\ t.msg = ta.msg
          /\ t.queue = Tail(ta.queue) /\ r \in Code /\ r = ta.queue[1]
      BY <1>1, <2>2 DEF TaType
    <3>2. /\ 1 \in DOMAIN ta.queue
          /\ \A i \in DOMAIN t.queue :
                /\ i + 1 \in DOMAIN ta.queue /\ t.queue[i] = ta.queue[i + 1]
                /\ i \in Nat /\ 1 < i + 1
          /\ \A i, j \in DOMAIN t.queue : i < j => i + 1 < j + 1
      BY <1>1, <2>2, <3>1 DEF TaType
    <3>3. PICK s \in SendAndStore(t, r, timer) :
            IF s.left
            THEN EndByLeave(s.ta, ua, s.tm, s.tx, h)
            ELSE /\ ta' = s.ta /\ tx' = s.tx
                 /\ hist' = h /\ UNCHANGED ua
      BY <2>2 DEF SentInProceeding
    <3>4. /\ h \in HistType /\ h.wire >= hist.wire
          /\ Below(ta, h, Limit(ua, h)) /\ Ordered(ta, h)
      BY <1>3
    <3> HIDE DEF t, r, h
    <3>5. /\ s.ta \in TaType /\ s.tx \in TxType /\ s.tm \in TimerType
          /\ s.ta.terminated = ta.terminated /\ s.ta.passed = ta.passed
          /\ s.ta.queue = t.queue
      BY <1>1, <3>1, SendAndStoreFacts
    <3>6. /\ s.ta.msg \in {ta.msg, r} /\ s.tx.to \in {"none", "ta"}
          /\ s.tx.msg \in {NoMsg, s.ta.msg}
          /\ ~s.left => s.tx.to = "ta" /\ s.ta.msg = r
      BY <1>1, <3>1, SendAndStoreOrder
    <3>7. Below(s.ta, h, Limit(ua, h))
      BY <3>1, <3>2, <3>4, <3>5, <3>6 DEF Below
    <3>8. CASE s.left
      BY <1>1, <3>3, <3>4, <3>5, <3>6, <3>7, <3>8, EndByLeaveOrder
    <3>9. CASE ~s.left
      <4>1. ta' = s.ta /\ tx' = s.tx /\ hist' = h /\ UNCHANGED ua
        BY <3>3, <3>9
      <4>2. /\ h.wire <= ta.msg /\ ta.msg <= r
            /\ h.wire \in Nat /\ ta.msg \in Nat /\ r \in Nat
        BY <1>1, <2>1, <3>1, <3>2, <3>4, NumbersOf, Codes DEF Ordered
      <4>3. Ordered(s.ta, h)
        BY <2>1, <3>1, <3>2, <3>4, <3>5, <3>6, <3>9, <4>2 DEF Ordered
      <4>4. InUse(s.ta, s.tx, ua) /\ Unpassed(s.ta, s.tx, h, ua)
        BY <1>2, <2>1, <3>5, <3>6, <3>9 DEF InUse, Unpassed
      <4>5. QED
        BY <3>4, <3>7, <4>1, <4>3, <4>4
        DEF Kept, OrderInv, Below, Ordered, InUse, Unpassed, Limit
    <3>10. QED
      BY <3>8, <3>9
  <2>3. CASE SentInProceeding /\ ta.queue = << >>
    BY <1>4, <2>3 DEF SentInProceeding
  <2>4. CASE SentInCompleted
    <3>1. CASE EndByLeave(ta, ua, timer, IdleTx, OnWire(hist, TRUE))
      BY <1>1, <1>3, <2>1, <3>1, EndByLeaveOrder
    <3>2. QED
      BY <1>4, <2>4, <3>1 DEF SentInCompleted
  <2>5. ASSUME NEW done \in BOOLEAN, SendEndsTa(done) PROVE Kept
    <3>1. EndTa(ta, timer, IdleTx, OnWire(hist, done))
      BY <2>5 DEF SendEndsTa
    <3>2. QED
      BY <1>1, <1>3, <2>1, <3>1, EndTaOrder
  <2>6. ASSUME NEW done \in BOOLEAN, SendInConfirmed(done) PROVE Kept
    BY <1>4, <2>6 DEF SendInConfirmed
  <2>7. QED
    BY <1>6, <2>2, <2>3, <2>4, <2>5, <2>6 DEF TaSendDone
<1>7. QED
  BY <1>5, <1>6

-----------------------------------------------------------------------------
(* Expiring timers, and deletion.                                          *)
LEMMA TimerOrder ==
  ASSUME SafeInv, OrderInv, TypeOK', TimerStep
  PROVE  Kept
<1>1. /\ ta \in TaType /\ ua \in UaType /\ timer \in TimerType
      /\ tx \in TxType /\ hist \in HistType /\ TypeOK
      /\ ua' \in UaType /\ hist' \in HistType
  BY DEF SafeInv, TypeOK
<1>2. /\ hist.wire >= hist.wire /\ Limit(ua, hist) \in Nat
      /\ Below(ta, hist, Limit(ua, hist)) /\ (tx.to = "ua" => tx.msg = Ok)
  BY <1>1, Numbers, NumbersOf DEF OrderInv, InUse
<1>3. CASE UNCHANGED <<ta, ua, tx, hist>>
  BY <1>1, <1>2, <1>3, QuietOrder
<1>4. CASE /\ UNCHANGED <<ta, ua, hist>> /\ ta.state # "Proceeding"
           /\ tx' = [to |-> "ta", msg |-> ta.msg] /\ ~ta.terminated
           /\ ta.passed \/ ua.stopped
  BY <1>2, <1>4 DEF Kept, OrderInv, InUse, Below, Ordered, Unpassed, Limit
<1>5. CASE /\ UNCHANGED <<ta, ua, hist>> /\ ta.terminated
           /\ tx' = [to |-> "ua", msg |-> Ok]
  BY <1>2, <1>5 DEF Kept, OrderInv, InUse, Below, Ordered, Unpassed, Limit
<1>6. ASSUME NEW t \in {"H", "I"}, TimerEndsTa(t) PROVE Kept
  <2>1. /\ EndTa(ta, [timer EXCEPT ![t] = "off"], tx, hist)
        /\ ~ta.terminated
    BY <1>6 DEF TimerEndsTa
  <2>2. [timer EXCEPT ![t] = "off"] \in TimerType
    BY <1>1 DEF TimerType
  <2>3. QED
    BY <1>1, <1>2, <2>1, <2>2, EndTaOrder
<1>7. CASE TimerWaitAck
  <2>1. /\ ua'.state = ua.state /\ ua'.stopped
        /\ hist'.wire = hist.wire /\ hist'.provs = hist.provs
        /\ UNCHANGED <<ta, tx>>
    BY <1>1, <1>7, StopWire DEF TimerWaitAck
  <2>2. Limit(ua, hist) <= Limit(ua', hist')
    BY <1>2, <2>1 DEF Limit
  <2>3. QED
    BY <1>1, <2>1, <2>2, QuietOrder
<1>8. CASE TimerRetransmit2xx
  <2>1. timer["Retransmit2xx"] = "on" => ta.terminated
    BY DEF SafeInv, RetransmitInv
  <2>2. QED
    BY <1>3, <1>5, <1>8, <2>1 DEF TimerRetransmit2xx, Expires
<1>9. CASE TimerG
  <2>1. /\ ta.state # "Proceeding" /\ ~ta.terminated
        /\ UNCHANGED <<ta, ua, hist>>
        /\ UNCHANGED tx \/ tx' = [to |-> "ta", msg |-> ta.msg]
    BY <1>9 DEF TimerG
  <2>2. ta.passed \/ ua.stopped
    BY <2>1 DEF OrderInv, Unpassed
  <2>3. QED
    BY <1>3, <1>4, <2>1, <2>2
<1>10. QED
  BY <1>3, <1>6, <1>7, <1>8, <1>9, RouterOrder DEF TimerStep, TimerIgnored

LEMMA DeletionOrder ==
  ASSUME SafeInv, OrderInv, TypeOK', DeleteMgrRuns \/ StoreFreesMarked
  PROVE  Kept
<1>1. /\ ua \in UaType /\ hist \in HistType /\ hist.wire \in Nat
  BY Numbers DEF SafeInv, TypeOK, HistType
<1>2. PICK objs \in {doomed, {"ua"}} :
        /\ Destroy(objs) /\ UNCHANGED <<ta, ua>>
        /\ "ua" \in objs => "ua" \in doomed \/ marked
  BY DEF DeleteMgrRuns, StoreFreesMarked
<1>3. "ua" \in objs => ua.stopped
  BY <1>2 DEF SafeInv, DeletionInv
<1>4. PICK n : hist' = [hist EXCEPT !.freed2xx = n]
  BY <1>2 DEF Destroy
<1>5. hist'.wire = hist.wire /\ hist'.provs = hist.provs
  BY <1>1, <1>4 DEF HistType
<1>6. tx' = tx \/ (tx' = IdleTx /\ ua.stopped)
  BY <1>2, <1>3 DEF Destroy
<1>7. QED
  BY <1>1, <1>2, <1>5, <1>6
  DEF Kept, OrderInv, Below, Ordered, InUse, Unpassed, Limit, IdleTx

-----------------------------------------------------------------------------
LEMMA OrderInit == Init => OrderInv
BY InviteServerAssumption
DEF Init, OrderInv, Below, Ordered, InUse, Unpassed, Limit, IdleTx, NoMsg,
    Trying

LEMMA OrderNext == SafeInv /\ OrderInv /\ [Next]_vars => Kept
<1> SUFFICES ASSUME SafeInv, OrderInv, [Next]_vars PROVE Kept
  OBVIOUS
<1>1. TypeOK'
  BY NextSafe DEF SafeInv
<1>2. CASE UNCHANGED vars
  <2>1. hist \in HistType /\ hist.wire \in Nat
    BY Numbers DEF SafeInv, TypeOK, HistType
  <2>2. QED
    BY <1>2, <2>1 DEF vars, Kept, OrderInv, Below, Ordered, InUse, Unpassed,
                      Limit
<1>3. CASE Environment
  BY <1>1, <1>3, FirstInviteOrder, FurtherRequestOrder, CancelOrder,
     RouterOrder, ApplicationOrder DEF Environment
<1>4. QED
  BY <1>1, <1>2, <1>3, SendDoneOrder, TimerOrder, DeletionOrder DEF Next

(* Responses reach the wire in the order they were given, retransmissions  *)
(* included, whatever waits, leaves or is deleted meanwhile.               *)
THEOREM InOrderAlways == Spec => ResponsesInOrder
<1>1. Init => SafeInv /\ OrderInv
  BY InitSafe, OrderInit
<1>2. /\ SafeInv /\ OrderInv /\ [Next]_vars => SafeInv' /\ OrderInv'
      /\ SafeInv /\ OrderInv /\ [Next]_vars => [hist'.wire >= hist.wire]_hist
  BY NextSafe, OrderNext DEF Kept
<1>3. QED
  BY <1>1, <1>2, PTL DEF Spec, ResponsesInOrder

=============================================================================
