---------------------------- MODULE InviteServer ----------------------------
(***************************************************************************)
(* The server side of one INVITE: CInviteServerTransaction ("ta"), the     *)
(* CInviteUAS that owns it ("ua"), the CTransmitter they share, the queue  *)
(* of responses waiting for it, the transaction's entry in the             *)
(* CTransactionStore, and CDeleteMgr, which frees both objects.            *)
(*                                                                         *)
(* Everything runs in one thread under the active scheduler, so each       *)
(* handler is one action.  A Symbian "leave" cuts a handler short: Faults  *)
(* says which of the calls may leave, and each action then takes the state *)
(* the code is in at that point.  Who handles a leave depends on the       *)
(* caller: ConnectionMgr and CTransmitter report it to the transaction or  *)
(* the user agent, the application and the request router do not, and the  *)
(* timer manager only forgets the timer.                                   *)
(***************************************************************************)
EXTENDS Integers, Sequences, FiniteSets

CONSTANTS
  Unreliable,  \* the INVITE came over UDP (IsUnreliableTransportUsed)
  MaxProv,     \* bound: provisional responses the application sends
  Faults       \* the calls that may leave

FaultKinds ==
  {"send",     \* CSipConnectionMgr::SendL
   "store",    \* CResponseQueue::Add on iSentResponses
   "queue",    \* CResponseQueue::Add on iSendQueue
   "timer",    \* MTimerManager::StartL, or the timer object's allocation
   "delete",   \* CDeleteMgr::AddDeleteRequest
   "owner"}    \* MTransactionOwner::ReceiveL of the INVITE

ASSUME InviteServerAssumption ==
  /\ Unreliable \in BOOLEAN
  /\ MaxProv \in Nat /\ MaxProv < 99
  /\ Faults \subseteq FaultKinds

(* Responses are their status codes; one code stands for all error ones.   *)
NoMsg  == 0
Trying == 100
Ok     == 200
Reject == 300
Provisional == {100 + i : i \in 1..MaxProv}
Code == {Trying, Ok, Reject} \cup Provisional

TaTimers == {"G", "H", "I"}
UaTimers == {"OwnerResolver", "Retransmit2xx", "WaitAck"}
Timers   == TaTimers \cup UaTimers

VARIABLES
  ta,      \* the transaction: state, terminated, passed, msg, queue
  ua,      \* the user agent: state, stopped, owner, holds, has2xx, canceled
  timer,   \* "off": no object; "on": running; "stale": object left, expired
  tx,      \* the transmitter: whose send is under way, and of which response
  route,   \* who the store gives further requests to: "ta", "ua" or "none"
  routing, \* a request to the router is outstanding
  doomed,  \* objects in CDeleteMgr's list
  marked,  \* no memory for the list: the store's entry got the empty id
  gone,    \* objects that have been deleted
  hist     \* what was observed: events to the owner, responses on the wire

vars == <<ta, ua, timer, tx, route, routing, doomed, marked, gone, hist>>

IdleTx == [to |-> "none", msg |-> NoMsg]

Init ==
  /\ ta = [state |-> "Proceeding", terminated |-> FALSE, passed |-> FALSE,
           msg |-> NoMsg, queue |-> << >>]
  /\ ua = [state |-> "Start", stopped |-> FALSE, owner |-> FALSE,
           holds |-> TRUE, has2xx |-> FALSE, canceled |-> FALSE]
  /\ timer = [t \in Timers |-> "off"]
  /\ tx = IdleTx
  /\ route = "ta"
  /\ routing = FALSE
  /\ doomed = {} /\ marked = FALSE /\ gone = {}
  /\ hist = [ended |-> 0, told |-> FALSE, cleared |-> FALSE, provs |-> 0,
             wire |-> NoMsg, freed2xx |-> 0, disowned |-> {}]

-----------------------------------------------------------------------------
(* Ending.                                                                 *)

(* A definition named Mut... is the one after it with a seeded bug.  No    *)
(* specification uses it: it shows that some property would notice.        *)

MutClearTransaction(rt) == rt

(* CTransactionStore::ClearTransaction: the entry keeps only the UAS.      *)
ClearTransaction(rt) == IF rt = "ta" THEN "ua" ELSE rt

(* CUserAgent::Stop on u, with d already in CDeleteMgr's list.             *)
Stop(u, d, h) ==
  IF u.stopped
  THEN /\ ua' = u /\ doomed' = d /\ hist' = h
       /\ UNCHANGED <<route, marked>>
  ELSE /\ ua' = [u EXCEPT !.stopped = TRUE]
       /\ hist' = [h EXCEPT !.ended = IF u.owner THEN @ + 1 ELSE @]
       /\ route' = "none"
       /\ \/ doomed' = d \cup {"ua"} /\ UNCHANGED marked
          \/ "delete" \in Faults /\ marked' = TRUE /\ doomed' = d

MutTerminated(t) == [t EXCEPT !.terminated = TRUE]
MutDetached(x) == x

(* CInviteServerTransaction::TerminatedL: give up the 2xx, detach from the *)
(* transmitter, which cancels a send under way.                            *)
LeaveFor2xx(t) == IF t.msg = Ok THEN [t EXCEPT !.msg = NoMsg] ELSE t
Terminated(t) == [LeaveFor2xx(t) EXCEPT !.terminated = TRUE]
Detached(x)   == IF x.to = "ta" THEN IdleTx ELSE x

(* CInviteUAS_Accepted::TransactionEndsL: hand the transaction to          *)
(* CDeleteMgr and start retransmitting the 2xx; either may leave.          *)
ReleaseTransaction(tm) ==
  {[u |-> [ua EXCEPT !.holds = FALSE], d |-> doomed \cup {"ta"},
    tm |-> [tm EXCEPT !["Retransmit2xx"] = "on"]]}
  \cup (IF "timer" \in Faults
        THEN {[u |-> [ua EXCEPT !.holds = FALSE],
               d |-> doomed \cup {"ta"}, tm |-> tm]}
        ELSE {})
  \cup (IF "delete" \in Faults THEN {[u |-> ua, d |-> doomed, tm |-> tm]}
        ELSE {})

(* CTransaction::TerminatedL and the state's TransactionEndsL.  A leave    *)
(* from it reaches nobody: the transmitter has lost its observer.          *)
EndTa(t, tm, x, h) ==
  IF t.terminated
  THEN /\ ta' = t /\ timer' = tm /\ tx' = x /\ hist' = h
       /\ UNCHANGED <<ua, route, doomed, marked>>
  ELSE /\ ta' = Terminated(t)
       /\ tx' = Detached(x)
       /\ IF ua.state = "Accepted"
          THEN /\ \E r \in ReleaseTransaction(tm) :
                    ua' = r.u /\ doomed' = r.d /\ timer' = r.tm
               /\ route' = ClearTransaction(route)
               /\ hist' = h /\ UNCHANGED marked
          ELSE Stop(ua, doomed, h) /\ timer' = tm

(* CTransaction::LeaveOccurred: TerminatedL, its own leave trapped, then   *)
(* CUserAgent::Stop.                                                       *)
EndByLeave(t, u, tm, x, h) ==
  /\ ta' = Terminated(t)
  /\ tx' = Detached(x)
  /\ IF u.state = "Accepted" /\ ~t.terminated
     THEN \E r \in ReleaseTransaction(tm) : Stop(r.u, r.d, h) /\ timer' = r.tm
     ELSE Stop(u, doomed, h) /\ timer' = tm

-----------------------------------------------------------------------------
(* Sending a response.                                                     *)

StateAfter(r) == CASE r >= 300 -> "Completed"
                   [] r \in 200..299 -> "Sending2xx"
                   [] OTHER -> "Proceeding"

Sent(t, r, tm) ==
  [ta |-> [t EXCEPT !.state = StateAfter(r), !.msg = r],
   tx |-> [to |-> "ta", msg |-> r], tm |-> tm, left |-> FALSE]

MutWithTimerH(r, tm) == IF r > 300 THEN [tm EXCEPT !["H"] = "on"] ELSE tm

(* CInviteServerTransaction::StartTimerHL, for error responses only.        *)
WithTimerH(r, tm) == IF r >= 300 THEN [tm EXCEPT !["H"] = "on"] ELSE tm

MutEnqueueNull(q, r) == Append(q, NoMsg)
MutEnqueueLifo(q, r) == <<r>> \o q

(* CResponseQueue::Add.                                                     *)
Enqueue(q, r) == Append(q, r)

(* CInviteServerTransaction::ResponseSent: only the state changes.          *)
Moved(t, r) == [t EXCEPT !.state = StateAfter(r)]

(* Proceeding, transmitter idle: ResponseSent changes the state first, then *)
(* SendAndStoreResponseL, then timer H; each of the calls may leave.  When  *)
(* only storing the previous response fails, the transmitter is already     *)
(* active and ConnectionMgr is told not to use the message.                 *)
SendAndStore(t, r, tm) ==
  LET sent == Sent(t, r, tm)
      moved == Moved(t, r)
  IN {[sent EXCEPT !.tm = WithTimerH(r, tm)]}
     \cup (IF "send" \in Faults
           THEN {[sent EXCEPT !.ta = moved, !.tx = IdleTx, !.left = TRUE]}
           ELSE {})
     \cup (IF "store" \in Faults /\ t.msg # NoMsg
           THEN {[sent EXCEPT !.ta = moved, !.tx.msg = NoMsg, !.left = TRUE]}
           ELSE {})
     \cup (IF "timer" \in Faults /\ r >= 300
           THEN {[sent EXCEPT !.left = TRUE]} ELSE {})

(* CTransaction::SendResponseL: only Proceeding takes a response, and       *)
(* queues it while the transmitter is busy.                                 *)
SendResponse(t, r, tm) ==
  LET unsent == [ta |-> t, tx |-> tx, tm |-> tm, left |-> TRUE] IN
  IF t.terminated \/ t.state # "Proceeding" THEN {unsent}
  ELSE IF tx.to = "none" THEN SendAndStore(t, r, tm)
  ELSE {[unsent EXCEPT !.ta.queue = Enqueue(@, r), !.left = FALSE]}
       \cup (IF "queue" \in Faults THEN {unsent} ELSE {})

(* The caller of a SendResponseL that left keeps the response.              *)
Disowned(h, r, left) ==
  IF left THEN [h EXCEPT !.disowned = @ \cup {r}] ELSE h

(* CUserAgentServer::SendErrorResponseL: enters Rejected, then sends.       *)
Rejecting(u) == [u EXCEPT !.state = "Rejected"]

-----------------------------------------------------------------------------
(* Requests from the network.                                              *)

Alive == "ua" \notin gone

MutWithOwnerResolver(tm) == tm

(* CUserAgentServer::StartTimerOwnerResolverL.                              *)
WithOwnerResolver(tm) == [tm EXCEPT !["OwnerResolver"] = "on"]

(* The first INVITE: a 100 is made and sent, and the request is passed to  *)
(* the UAS: in a dialog it goes to the dialog's owner, outside one the     *)
(* router is asked; a bad request, URI or dialog is answered at once.      *)
FirstInvite ==
  /\ ~ta.passed /\ ~ta.terminated /\ ~ua.stopped
  /\ LET t100 == [ta EXCEPT !.msg = Trying]
         tPassed == [t100 EXCEPT !.passed = TRUE]
         x == [to |-> "ta", msg |-> Trying]
         owned == [ua EXCEPT !.state = "WaitRespFromApp", !.owner = TRUE]
         told == [hist EXCEPT !.told = TRUE]
     IN \/ /\ ta' = tPassed /\ tx' = x /\ ua' = owned /\ hist' = told
           /\ UNCHANGED <<timer, route, routing, doomed, marked>>
        \/ /\ ta' = tPassed /\ tx' = x
           /\ ua' = [ua EXCEPT !.state = "GetTxOwner"]
           /\ timer' = WithOwnerResolver(timer)
           /\ routing' = TRUE
           /\ UNCHANGED <<route, doomed, marked, hist>>
        \/ /\ ta' = [tPassed EXCEPT !.queue = <<Reject>>] /\ tx' = x
           /\ ua' = Rejecting(ua)
           /\ UNCHANGED <<timer, route, routing, doomed, marked, hist>>
        \/ /\ "send" \in Faults /\ EndByLeave(t100, ua, timer, tx, hist)
           /\ UNCHANGED routing
        \/ /\ "queue" \in Faults
           /\ EndByLeave(t100, Rejecting(ua), timer, x, hist)
           /\ UNCHANGED routing
        \/ /\ "timer" \in Faults /\ EndByLeave(t100, ua, timer, x, hist)
           /\ routing' = TRUE
        \/ /\ "owner" \in Faults /\ EndByLeave(t100, owned, timer, x, hist)
           /\ UNCHANGED routing
  /\ UNCHANGED gone

(* A retransmitted INVITE: Proceeding and Completed send the most recent   *)
(* response again unless the transmitter is busy; Confirmed absorbs it.    *)
(* (Sending2xx has no handler for a request: NoRequestToSending2xx.)       *)
InviteAgain ==
  /\ ta.passed /\ route = "ta" /\ ~ta.terminated
  /\ ta.state \in {"Proceeding", "Completed"} /\ tx.to = "none"
  /\ \/ /\ tx' = [to |-> "ta", msg |-> ta.msg]
        /\ UNCHANGED <<ta, ua, timer, route, doomed, marked, hist>>
     \/ "send" \in Faults /\ EndByLeave(ta, ua, timer, tx, hist)
  /\ UNCHANGED <<routing, gone>>

FinalOut == hist.wire >= 200 \/ tx.msg >= 200

(* ACK to an error response.                                               *)
AckToTa ==
  /\ route = "ta" /\ FinalOut /\ ~ta.terminated /\ ta.state = "Completed"
  /\ LET tm == [timer EXCEPT !["G"] = "off", !["H"] = "off"]
     IN \/ /\ ta' = [ta EXCEPT !.state = "Confirmed"]
           /\ timer' = [tm EXCEPT !["I"] = "on"]
           /\ UNCHANGED <<ua, tx, route, doomed, marked, hist>>
        \/ "timer" \in Faults /\ EndByLeave(ta, ua, tm, tx, hist)
  /\ UNCHANGED <<routing, gone>>

(* ACK to the 2xx: its dialog names the owner to pass it to, or there is   *)
(* none; the UAS stops either way.                                         *)
AckToUa ==
  /\ route = "ua" /\ FinalOut /\ ~ua.stopped /\ ua.state = "Accepted"
  /\ \E found \in BOOLEAN :
       Stop([ua EXCEPT !.owner = found \/ @], doomed, hist)
  /\ timer' = [timer EXCEPT !["Retransmit2xx"] = "off"]
  /\ UNCHANGED <<ta, tx, routing, gone>>

(* CInviteUAS::InformObserverAboutCancel, and iCanceled.                   *)
MutCancelHandledKeepsOwner(u, h) ==
  [u |-> [u EXCEPT !.canceled = TRUE],
   h |-> [h EXCEPT !.ended = IF u.owner THEN @ + 1 ELSE @]]

MutCancelHandledSilently(u, h) ==
  [u |-> [u EXCEPT !.owner = FALSE, !.canceled = TRUE], h |-> h]

CancelHandled(u, h) ==
  [u |-> [u EXCEPT !.owner = FALSE, !.canceled = TRUE],
   h |-> [h EXCEPT !.ended = IF u.owner THEN @ + 1 ELSE @]]

(* CANCEL, found through the store: 487 unless a final response was chosen *)
(* already, and the owner is told that the INVITE has been cancelled.      *)
Cancel ==
  /\ route # "none" /\ ~ua.stopped /\ ~ua.canceled
  /\ \/ /\ ua.state \in {"GetTxOwner", "WaitRespFromApp"}
        /\ \E s \in SendResponse(ta, Reject, timer) :
             /\ ta' = s.ta /\ tx' = s.tx
             /\ IF s.left
                THEN /\ ua' = Rejecting(ua) /\ timer' = s.tm
                     /\ hist' = Disowned(hist, Reject, TRUE)
                     /\ UNCHANGED routing
                ELSE LET c == CancelHandled(Rejecting(ua), hist) IN
                     /\ ua' = c.u /\ hist' = c.h
                     /\ IF ua.owner
                        THEN timer' = s.tm /\ UNCHANGED routing
                        ELSE /\ timer' = [s.tm EXCEPT !["OwnerResolver"] = "off"]
                             /\ routing' = FALSE
     \/ /\ ua.state = "Accepted"
        /\ LET c == CancelHandled(ua, hist) IN ua' = c.u /\ hist' = c.h
        /\ UNCHANGED <<ta, tx, timer, routing>>
  /\ UNCHANGED <<route, doomed, marked, gone>>

-----------------------------------------------------------------------------
(* The request router's answers.                                           *)

(* The owner's ReceiveL may leave: the router ignores that, and the UAS    *)
(* stays in WaitRespFromApp although the owner did not take the INVITE.    *)
OwnerFound ==
  /\ routing /\ routing' = FALSE
  /\ IF ~ua.stopped /\ ua.state = "GetTxOwner"
     THEN /\ ua' = [ua EXCEPT !.state = "WaitRespFromApp", !.owner = TRUE]
          /\ timer' = [timer EXCEPT !["OwnerResolver"] = "off"]
          /\ \/ hist' = [hist EXCEPT !.told = TRUE]
             \/ "owner" \in Faults /\ UNCHANGED hist
     ELSE UNCHANGED <<ua, timer, hist>>
  /\ UNCHANGED <<ta, tx, route, doomed, marked, gone>>

OwnerNotFound ==
  /\ routing /\ routing' = FALSE
  /\ IF ~ua.stopped /\ ua.state = "GetTxOwner"
     THEN /\ ua' = Rejecting(ua)
          /\ \E s \in SendResponse(ta, Reject,
                                   [timer EXCEPT !["OwnerResolver"] = "off"]) :
               /\ ta' = s.ta /\ tx' = s.tx /\ timer' = s.tm
               /\ hist' = Disowned(hist, Reject, s.left)
     ELSE UNCHANGED <<ta, ua, tx, timer, hist>>
  /\ UNCHANGED <<route, doomed, marked, gone>>

(* ErrorOccurred: out of memory stops the UAS; any other error declines    *)
(* the call, and stops the UAS if that leaves.                             *)
RouterError ==
  /\ routing /\ routing' = FALSE
  /\ LET tm == [timer EXCEPT !["OwnerResolver"] = "off"] IN
     \/ /\ Stop(ua, doomed, hist) /\ timer' = tm /\ UNCHANGED <<ta, tx>>
     \/ /\ ~ua.stopped /\ ua.state = "GetTxOwner"
        /\ \E s \in SendResponse(ta, Reject, tm) :
             /\ ta' = s.ta /\ tx' = s.tx /\ timer' = s.tm
             /\ IF s.left
                THEN Stop(Rejecting(ua), doomed, Disowned(hist, Reject, TRUE))
                ELSE /\ ua' = Rejecting(ua)
                     /\ UNCHANGED <<route, doomed, marked, hist>>
  /\ UNCHANGED gone

-----------------------------------------------------------------------------
(* The application (MTransactionOwner).                                    *)

(* CTransactionUser::SendL; a leave goes back to the application only.     *)
AppResponds(r) ==
  /\ route # "none" /\ ~ua.stopped /\ ua.owner /\ ua.state = "WaitRespFromApp"
  /\ LET u == IF r >= 300 THEN Rejecting(ua) ELSE ua
     IN \E s \in SendResponse(ta, r, timer) :
          /\ ta' = s.ta /\ tx' = s.tx /\ timer' = s.tm /\ ua' = u
          /\ hist' = [Disowned(hist, r, s.left) EXCEPT
                        !.provs = IF r < 200 THEN @ + 1 ELSE @]
  /\ UNCHANGED <<route, routing, doomed, marked, gone>>

AppProvisional ==
  hist.provs < MaxProv /\ AppResponds(Trying + hist.provs + 1)

AppRejects == AppResponds(Reject)

(* The 2xx: Accepted is entered and the transaction taken out of the store *)
(* before timer WaitAck is started and the response sent.                  *)
AppAccepts ==
  /\ route # "none" /\ ~ua.stopped /\ ua.owner /\ ua.state = "WaitRespFromApp"
  /\ route' = ClearTransaction(route)
  /\ LET u == [ua EXCEPT !.state = "Accepted"]
         tm == [timer EXCEPT !["WaitAck"] = "on"]
     IN \/ \E s \in SendResponse(ta, Ok, tm) :
             /\ ta' = s.ta /\ tx' = s.tx /\ timer' = s.tm
             /\ ua' = [u EXCEPT !.has2xx = ~s.left]
             /\ hist' = Disowned(hist, Ok, s.left)
        \/ /\ "timer" \in Faults
           /\ ua' = u /\ hist' = Disowned(hist, Ok, TRUE)
           /\ UNCHANGED <<ta, tx, timer>>
  /\ UNCHANGED <<routing, doomed, marked, gone>>

(* CUserAgent::ClearTransactionOwner: the UAS stops while it waits for the *)
(* application's response.                                                 *)
ClearTransactionOwner ==
  /\ route # "none" /\ ua.owner /\ ~ua.stopped
  /\ LET u == [ua EXCEPT !.owner = FALSE]
         h == [hist EXCEPT !.cleared = TRUE]
     IN IF ua.state = "WaitRespFromApp"
        THEN Stop(u, doomed, h)
        ELSE ua' = u /\ hist' = h /\ UNCHANGED <<route, doomed, marked>>
  /\ UNCHANGED <<ta, tx, timer, routing, gone>>

-----------------------------------------------------------------------------
(* The transmitter completes.                                              *)

OnWire(h, done) ==
  IF done /\ tx.msg # NoMsg THEN [h EXCEPT !.wire = tx.msg] ELSE h

(* SendCompleteL in Proceeding sends the oldest queued response.  A leave  *)
(* comes back through RunError to CTransaction::LeaveOccurred.             *)
SentInProceeding ==
  /\ ta.state = "Proceeding"
  /\ IF ta.queue = << >>
     THEN /\ tx' = IdleTx /\ hist' = OnWire(hist, TRUE)
          /\ UNCHANGED <<ta, ua, timer, route, doomed, marked>>
     ELSE LET t == [ta EXCEPT !.queue = Tail(@)] IN
          \E s \in SendAndStore(t, Head(ta.queue), timer) :
            IF s.left
            THEN EndByLeave(s.ta, ua, s.tm, s.tx, OnWire(hist, TRUE))
            ELSE /\ ta' = s.ta /\ tx' = s.tx /\ timer' = s.tm
                 /\ hist' = OnWire(hist, TRUE)
                 /\ UNCHANGED <<ua, route, doomed, marked>>

(* SendCompleteL in Completed starts timer G for UDP, unless it exists.    *)
SentInCompleted ==
  /\ ta.state = "Completed"
  /\ IF Unreliable /\ timer["G"] = "off"
     THEN \/ /\ tx' = IdleTx /\ hist' = OnWire(hist, TRUE)
             /\ timer' = [timer EXCEPT !["G"] = "on"]
             /\ UNCHANGED <<ta, ua, route, doomed, marked>>
          \/ /\ "timer" \in Faults
             /\ EndByLeave(ta, ua, timer, IdleTx, OnWire(hist, TRUE))
     ELSE /\ tx' = IdleTx /\ hist' = OnWire(hist, TRUE)
          /\ UNCHANGED <<ta, ua, timer, route, doomed, marked>>

(* Sending2xx ends the transaction however the send went; Proceeding and   *)
(* Completed end it when the send failed; Confirmed waits for timer I.     *)
SendEndsTa(done) ==
  /\ \/ ta.state = "Sending2xx"
     \/ ~done /\ ta.state \in {"Proceeding", "Completed"}
  /\ EndTa(ta, timer, IdleTx, OnWire(hist, done))

SendInConfirmed(done) ==
  /\ ta.state = "Confirmed"
  /\ tx' = IdleTx /\ hist' = OnWire(hist, done)
  /\ UNCHANGED <<ta, ua, timer, route, doomed, marked>>

TaSendDone ==
  /\ tx.to = "ta"
  /\ \/ SentInProceeding
     \/ SentInCompleted
     \/ \E done \in BOOLEAN : SendEndsTa(done) \/ SendInConfirmed(done)
  /\ UNCHANGED <<routing, gone>>

(* The UAS has sent its 2xx again: it schedules the next retransmission,   *)
(* or stops if the send failed or the timer could not be started.          *)
UaSendDone ==
  /\ tx.to = "ua"
  /\ tx' = IdleTx
  /\ \/ /\ ua.stopped
        /\ hist' = OnWire(hist, TRUE)
        /\ UNCHANGED <<ua, timer, route, doomed, marked>>
     \/ /\ ~ua.stopped /\ timer["Retransmit2xx"] = "off"
        /\ timer' = [timer EXCEPT !["Retransmit2xx"] = "on"]
        /\ hist' = OnWire(hist, TRUE)
        /\ UNCHANGED <<ua, route, doomed, marked>>
     \/ /\ ~ua.stopped
        /\ \E done \in BOOLEAN :
             /\ done => timer["Retransmit2xx"] # "off" \/ "timer" \in Faults
             /\ Stop(ua, doomed, OnWire(hist, done))
        /\ UNCHANGED timer
  /\ UNCHANGED <<ta, routing, gone>>

-----------------------------------------------------------------------------
(* Timers.  An expired timer is no longer in the manager; its object is    *)
(* deleted by the handler unless that ignores the event or leaves.         *)

MutExpires(t, as) == timer[t] = "on" /\ timer' = [timer EXCEPT ![t] = "stale"]

Expires(t, as) == timer[t] = "on" /\ timer' = [timer EXCEPT ![t] = as]

TimerIgnored(t) ==
  /\ IF t \in TaTimers THEN ta.terminated ELSE ua.stopped
  /\ Expires(t, "stale")
  /\ UNCHANGED <<ta, ua, tx, route, routing, doomed, marked, gone, hist>>

(* Timer G: the error response goes out again.                             *)
TimerG ==
  /\ ~ta.terminated /\ ta.state \in {"Completed", "Confirmed"}
  /\ \/ /\ tx.to # "none" /\ Expires("G", "off") /\ UNCHANGED tx
     \/ /\ tx.to = "none" /\ Expires("G", "off")
        /\ tx' = [to |-> "ta", msg |-> ta.msg]
     \/ /\ tx.to = "none" /\ "send" \in Faults
        /\ Expires("G", "stale") /\ UNCHANGED tx
  /\ UNCHANGED <<ta, ua, route, routing, doomed, marked, gone, hist>>

(* Timers H and I end the transaction.                                     *)
TimerEndsTa(t) ==
  /\ ~ta.terminated /\ ta.state \in {"Completed", "Confirmed"}
  /\ timer[t] = "on"
  /\ EndTa(ta, [timer EXCEPT ![t] = "off"], tx, hist)
  /\ UNCHANGED <<routing, gone>>

(* The router took too long: 603, if the UAS still waits for its answer.   *)
TimerOwnerResolver ==
  /\ ~ua.stopped /\ timer["OwnerResolver"] = "on"
  /\ IF ua.state = "GetTxOwner"
     THEN /\ routing' = FALSE /\ ua' = Rejecting(ua)
          /\ \E s \in SendResponse(ta, Reject, timer) :
               /\ ta' = s.ta /\ tx' = s.tx
               /\ hist' = Disowned(hist, Reject, s.left)
               /\ timer' = [s.tm EXCEPT !["OwnerResolver"] =
                              IF s.left THEN "stale" ELSE "off"]
     ELSE /\ timer' = [timer EXCEPT !["OwnerResolver"] = "stale"]
          /\ UNCHANGED <<ta, ua, tx, routing, hist>>
  /\ UNCHANGED <<route, doomed, marked, gone>>

(* CInviteUAS::Retransmit2xxL leaves when the transmitter is busy.         *)
TimerRetransmit2xx ==
  /\ ~ua.stopped
  /\ \/ /\ tx.to = "none" /\ ua.has2xx
        /\ tx' = [to |-> "ua", msg |-> Ok] /\ Expires("Retransmit2xx", "off")
     \/ /\ tx.to # "none" \/ ~ua.has2xx \/ "send" \in Faults
        /\ Expires("Retransmit2xx", "stale") /\ UNCHANGED tx
  /\ UNCHANGED <<ta, ua, route, routing, doomed, marked, gone, hist>>

(* No ACK within 64*T1.                                                    *)
TimerWaitAck ==
  /\ ~ua.stopped /\ Expires("WaitAck", "off")
  /\ Stop(ua, doomed, hist)
  /\ UNCHANGED <<ta, tx, routing, gone>>

TimerStep ==
  \/ \E t \in Timers : TimerIgnored(t)
  \/ TimerG
  \/ TimerEndsTa("H")
  \/ TimerEndsTa("I")
  \/ TimerOwnerResolver
  \/ TimerRetransmit2xx
  \/ TimerWaitAck

-----------------------------------------------------------------------------
(* Deletion.                                                               *)

(* The destructors: ~CInviteUAS makes a running transaction forget the 2xx *)
(* it owns itself, and deletes the transaction it still holds.             *)
Destroy(objs) ==
  LET both == "ua" \in objs /\ ua.holds
      taDies == "ta" \notin gone /\ ("ta" \in objs \/ both)
      left == IF both /\ ua.has2xx /\ ~ta.terminated
              THEN LeaveFor2xx(ta) ELSE ta
      frees == (IF taDies /\ left.msg = Ok THEN 1 ELSE 0)
             + (IF "ua" \in objs /\ ua.has2xx THEN 1 ELSE 0)
  IN /\ gone' = gone \cup objs \cup (IF both THEN {"ta"} ELSE {})
     /\ hist' = [hist EXCEPT !.freed2xx = @ + frees]
     /\ timer' = [t \in Timers |->
                    IF (taDies /\ t \in TaTimers)
                       \/ ("ua" \in objs /\ t \in UaTimers)
                    THEN "off" ELSE timer[t]]
     /\ IF "ua" \in objs
        THEN tx' = IdleTx /\ routing' = FALSE
        ELSE UNCHANGED <<tx, routing>>

(* CDeleteMgr::RunL empties the list.                                      *)
DeleteMgrRuns ==
  /\ doomed # {}
  /\ Destroy(doomed)
  /\ doomed' = {}
  /\ UNCHANGED <<ta, ua, route, marked>>

(* The next search of the store frees an entry whose id was made empty.    *)
StoreFreesMarked ==
  /\ marked
  /\ Destroy({"ua"})
  /\ marked' = FALSE
  /\ UNCHANGED <<ta, ua, route, doomed>>

-----------------------------------------------------------------------------
Environment ==
  \/ FirstInvite
  \/ AppProvisional \/ AppRejects \/ AppAccepts \/ ClearTransactionOwner
  \/ InviteAgain \/ AckToTa \/ AckToUa \/ Cancel
  \/ OwnerFound \/ OwnerNotFound \/ RouterError

Next ==
  \/ Environment
  \/ TaSendDone \/ UaSendDone
  \/ TimerStep
  \/ DeleteMgrRuns \/ StoreFreesMarked

Spec == Init /\ [][Next]_vars

(* Sends complete, running timers expire, CDeleteMgr's active object runs: *)
(* the scheduler and the clock see to that.  Nothing is assumed of the     *)
(* peer, the application or the router.                                    *)
Fairness ==
  /\ WF_vars(TaSendDone) /\ WF_vars(UaSendDone)
  /\ WF_vars(TimerEndsTa("H")) /\ WF_vars(TimerEndsTa("I"))
  /\ WF_vars(TimerOwnerResolver) /\ WF_vars(TimerWaitAck)
  /\ WF_vars(DeleteMgrRuns)

FairSpec == Spec /\ Fairness

-----------------------------------------------------------------------------
(* Properties.                                                             *)

TaState == {"Proceeding", "Completed", "Confirmed", "Sending2xx"}
UaState == {"Start", "GetTxOwner", "WaitRespFromApp", "Accepted", "Rejected"}
Object  == {"ta", "ua"}
CodeOrNone == Code \cup {NoMsg}

TaType == [state : TaState, terminated : BOOLEAN, passed : BOOLEAN,
           msg : CodeOrNone, queue : Seq(Code)]
UaType == [state : UaState, stopped : BOOLEAN, owner : BOOLEAN,
           holds : BOOLEAN, has2xx : BOOLEAN, canceled : BOOLEAN]
TimerType == [Timers -> {"off", "on", "stale"}]
TxType == [to : {"none", "ta", "ua"}, msg : CodeOrNone]
HistType == [ended : Nat, told : BOOLEAN, cleared : BOOLEAN,
             provs : 0..MaxProv, wire : CodeOrNone, freed2xx : Nat,
             disowned : SUBSET Code]

(* Every variable keeps its type.                                          *)
TypeOK ==
  /\ ta \in TaType /\ ua \in UaType
  /\ timer \in TimerType /\ tx \in TxType
  /\ route \in {"ta", "ua", "none"}
  /\ routing \in BOOLEAN
  /\ doomed \in SUBSET Object /\ marked \in BOOLEAN
  /\ gone \in SUBSET Object
  /\ hist \in HistType

(* ConnectionMgr reads the response until the send completes, and RunL     *)
(* calls the observer back: the transmitter is never busy for a            *)
(* transaction that has terminated or been deleted, nor for the UAS while  *)
(* the transaction could use it or after the UAS's 2xx is gone.            *)
TransmitterOwned ==
  /\ tx.to = "ta" => ~ta.terminated /\ "ta" \notin gone
  /\ tx.to = "ua" => ta.terminated /\ ua.has2xx /\ "ua" \notin gone

(* Both objects point to the 2xx; whichever order they are deleted in, and *)
(* whatever left on the way, it is deleted once.                           *)
Freed2xxOnce == hist.freed2xx <= 1

(* Sending2xx handles no request, so while the 2xx is being sent, or after *)
(* it, the store must give requests (the ACK above all) to the UAS.        *)
NoRequestToSending2xx ==
  ta.state = "Sending2xx" /\ ~ta.terminated => route # "ta"

(* Over UDP an error response is repeated until its ACK comes: in Completed*)
(* there is always a send under way or timer G running; and timer H bounds *)
(* it.  (Without leaves.)                                                  *)
ErrorIsRepeated ==
  ta.state = "Completed" /\ ~ta.terminated =>
     /\ Unreliable => tx.to = "ta" \/ timer["G"] = "on"
     /\ timer["H"] = "on"

(* The owner hears once that the transaction ended, unless a CANCEL came   *)
(* after the 2xx (see EndsOnce).                                           *)
EndsOnceUnlessCanceledLate ==
  hist.ended <= 1 \/ (ua.canceled /\ ua.state = "Accepted")

(* MTransactionOwner.h: after TransactionEnded no more events come.        *)
EndsOnce == hist.ended <= 1

(* An owner that was given the INVITE and has not withdrawn hears of the   *)
(* end before the UAS is deleted.                                          *)
OwnerHearsTheEnd ==
  "ua" \in gone /\ hist.told /\ ~hist.cleared => hist.ended >= 1

(* MTransactionUser.h: when SendL leaves, the response's ownership is not  *)
(* transferred, so the transaction does not keep it.                       *)
RefusedResponseNotKept ==
  /\ ta.msg \notin hist.disowned
  /\ \A i \in 1..Len(ta.queue) : ta.queue[i] \notin hist.disowned

(* Responses go out in the order they were given, and no provisional one   *)
(* follows a final one, retransmissions included.                          *)
ResponsesInOrder == [][hist'.wire >= hist.wire]_hist

(* A UAS that has given its final response is deleted in the end.          *)
FinalIsFreed ==
  ua.state \in {"Accepted", "Rejected"} ~> "ua" \in gone

(* A request router that never answers does not keep the INVITE waiting.   *)
RouterCannotStall ==
  ua.state = "GetTxOwner" ~> ua.state # "GetTxOwner" \/ "ua" \in gone
=============================================================================
