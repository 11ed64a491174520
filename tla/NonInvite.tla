----------------------------- MODULE NonInvite -----------------------------
(***************************************************************************)
(* One non-INVITE request between two stacks: at the client end the        *)
(* CNormalUAC ("cu"), its CNormalClientTransaction ("c") and transmitter   *)
(* ("cx"), at the server end the CNormalUAS ("su"), its                    *)
(* CNormalServerTransaction ("s") and transmitter ("sx"), and the network  *)
(* between them: UDP, which may lose, repeat and reorder, or TCP.          *)
(*                                                                         *)
(* A transmitter's send has two steps, because ConnectionMgr reports the   *)
(* completion to it through the active scheduler: a response may be        *)
(* received before the sender knows that its request went out.             *)
(*                                                                         *)
(* The request has one address to go to and needs no SIPSec: sending it    *)
(* again from a new transaction is the business of InviteClient.  No       *)
(* message outlives the server transaction (64*T1).                        *)
(***************************************************************************)
EXTENDS Integers, Sequences

CONSTANTS
  Transports,  \* transports the request may use; TRUE: unreliable
  MaxProv,     \* bound: provisional responses the application sends
  Faults       \* what may go wrong

FaultKinds ==
  {"send",    \* CSipConnectionMgr::SendL leaves
   "fail",    \* a send completes with an error; an ICMP error arrives
   "timer",   \* a timer cannot be allocated or started
   "store",   \* CResponseQueue::Add on iSentResponses
   "queue",   \* CResponseQueue::Add on iSendQueue
   "owner",   \* MTransactionOwner::ReceiveL leaves
   "dialog"}  \* ... with KErrSIPInvalidDialogResponse: it drops the response

ASSUME NonInviteAssumption ==
  /\ Transports \subseteq BOOLEAN /\ Transports # {}
  /\ MaxProv \in Nat /\ MaxProv < 99
  /\ Faults \subseteq FaultKinds

(* Responses are their status codes; one code stands for all final ones.   *)
NoMsg  == 0
Trying == 100
Final  == 200
Provisional == {100 + i : i \in 1..MaxProv}
Code == {Trying, Final} \cup Provisional

VARIABLES
  c,    \* client transaction: state, over (iTerminated), code, msg
  ct,   \* its timers E, F, K: "off": no object; "on"; "stale": expired, kept
  cx,   \* its transmitter: "idle", "sending" or "sent" (completion to come)
  cu,   \* client user agent: stopped, owner, final (iFinalRespPassed), gone
  s,    \* server transaction: state, over, msg, queue
  st,   \* its timers F2, J, Send100
  sx,   \* its transmitter: phase as cx, and which response
  su,   \* server user agent: state, stopped, owner, gone
  net,  \* the messages on the wire, and the ones TCP has delivered
  hist  \* what the owners saw

client == <<c, ct, cx, cu>>
server == <<s, st, sx, su>>
vars == <<c, ct, cx, cu, s, st, sx, su, net, hist>>

ClientTimers == {"E", "F", "K"}
ServerTimers == {"F2", "J", "Send100"}
IdleTx == [phase |-> "idle", msg |-> NoMsg]

(* The client's address is resolved and the request is being sent.         *)
Init ==
  /\ c = [state |-> "Trying", over |-> FALSE, code |-> NoMsg, msg |-> TRUE]
  /\ ct = [t \in ClientTimers |-> "off"]
  /\ cx = "sending"
  /\ cu = [stopped |-> FALSE, owner |-> TRUE, final |-> FALSE, gone |-> FALSE]
  /\ s = [state |-> "Trying", over |-> FALSE, msg |-> NoMsg, queue |-> << >>]
  /\ st = [t \in ServerTimers |-> "off"]
  /\ sx = IdleTx
  /\ su = [state |-> "Start", stopped |-> FALSE, owner |-> FALSE,
           gone |-> FALSE]
  /\ \E udp \in Transports :
       net = [udp |-> udp, req |-> FALSE, resps |-> {}, read |-> {}]
  /\ hist = [wire |-> NoMsg, finals |-> 0, late |-> FALSE, early |-> FALSE,
             provs |-> 0, cEnded |-> 0, sEnded |-> 0]

-----------------------------------------------------------------------------
(* Ending.                                                                 *)

(* A definition named Mut... is the one after it with a seeded bug.  No    *)
(* specification uses it: it shows that some property would notice.        *)

(* CUserAgent::Stop tells the owner, if there is one, and has the user     *)
(* agent deleted; a second call does nothing.                              *)
Stopped(u) == [u EXCEPT !.stopped = TRUE]
Told(u) == IF u.owner /\ ~u.stopped THEN 1 ELSE 0

(* CClientTransaction::TerminatedL: every state of the user agents answers *)
(* TransactionEndsL with Stop.  LeaveOccurred comes to the same.           *)
EndClient(tm, h) ==
  /\ c' = [c EXCEPT !.over = TRUE] /\ ct' = tm /\ cx' = "idle"
  /\ cu' = Stopped(cu)
  /\ hist' = [h EXCEPT !.cEnded = @ + Told(cu)]

(* CServerTransaction::TerminatedL, with the user agent in state u.        *)
EndServer(u, tm, h) ==
  /\ s' = [s EXCEPT !.over = TRUE] /\ st' = tm /\ sx' = IdleTx
  /\ su' = Stopped(u)
  /\ hist' = [h EXCEPT !.sEnded = @ + Told(u)]

-----------------------------------------------------------------------------
(* The client sends.                                                       *)

ClientWrites ==
  /\ cx = "sending" /\ cx' = "sent"
  /\ net' = [net EXCEPT !.req = TRUE]
  /\ UNCHANGED <<c, ct, cu, server, hist>>

MutStartTimerF(tm) == tm

(* CNormalClientTransaction::StartTimerFUnlessExistsL                      *)
StartTimerF(tm) == IF tm.F = "off" THEN [tm EXCEPT !.F = "on"] ELSE tm

StartTimerE(tm) == IF net.udp THEN [tm EXCEPT !.E = "on"] ELSE tm

(* SendCompleteL: only Trying starts timer F; Trying and Proceeding start  *)
(* timer E, which leaves if there is one; Completed does nothing.          *)
ClientSent ==
  /\ cx = "sent" /\ ~c.over
  /\ LET tm == IF c.state = "Trying" THEN StartTimerF(ct) ELSE ct
         exists == net.udp /\ ct.E # "off"
     IN \/ /\ c.state # "Completed" /\ ~exists
           /\ cx' = "idle" /\ ct' = StartTimerE(tm)
           /\ UNCHANGED <<c, cu, hist>>
        \/ /\ c.state # "Completed" /\ (exists \/ "timer" \in Faults)
           /\ EndClient(tm, hist)
        \/ /\ c.state = "Completed" /\ cx' = "idle"
           /\ UNCHANGED <<c, ct, cu, hist>>
  /\ UNCHANGED <<server, net>>

(* SendFailedL, or IcmpErrorL: over UDP, a host or port is unreachable.    *)
ClientFailed ==
  /\ "fail" \in Faults /\ ~c.over /\ ~cu.gone
  /\ cx # "idle" \/ (net.udp /\ net.req)
  /\ EndClient(ct, hist)
  /\ UNCHANGED <<server, net>>

(* CTimerRetransmit::ExpiredL; a leave of it goes to the timer manager, so *)
(* the timer's object stays.                                               *)
TimerE ==
  /\ ~c.over /\ ct.E = "on"
  /\ \/ /\ cx # "idle" \/ c.msg
        /\ ct' = [ct EXCEPT !.E = "off"]
        /\ cx' = IF cx = "idle" THEN "sending" ELSE cx
     \/ /\ cx = "idle" /\ (~c.msg \/ "send" \in Faults)
        /\ ct' = [ct EXCEPT !.E = "stale"] /\ UNCHANGED cx
  /\ UNCHANGED <<c, cu, server, net, hist>>

(* CTimerTerminateTa::ExpiredL, for timer F or K.                          *)
ClientTimeout(t) ==
  /\ ~c.over /\ ct[t] = "on"
  /\ EndClient([ct EXCEPT ![t] = "off"], hist)
  /\ UNCHANGED <<server, net>>

-----------------------------------------------------------------------------
(* The client receives.                                                    *)

(* UDP delivers whatever was sent, as often as it likes; TCP in order.     *)
Arrives(r) ==
  /\ r \in net.resps
  /\ \/ net.udp
     \/ r \notin net.read /\ \A q \in net.resps : q < r => q \in net.read

MutStartTimerK(tm) == tm

(* CNormalClientTransaction::StartTimerKL                                  *)
StartTimerK(tm) == [tm EXCEPT !.K = "on"]
StopTimersEF(tm) == [tm EXCEPT !.E = "off", !.F = "off"]

(* Completed ignores every response; before it the last one passed on is   *)
(* recognised when it is repeated (ShouldTaHandleResponse).                *)
Filtered(r) == c.over \/ c.state = "Completed" \/ r = c.code

(* PassRespToTransactionOwnerL: a 100 is not passed on.                    *)
Heard(r) ==
  IF r = Trying \/ ~cu.owner THEN hist
  ELSE [hist EXCEPT !.finals = IF r = Final THEN @ + 1 ELSE @,
                    !.late = @ \/ hist.finals > 0]

(* ReceiveResponseL: when the owner leaves, TRestoreTransactionState puts  *)
(* the state back and deletes timer K, and the receiver's LeaveOccurred    *)
(* ends the transaction unless the dialog only dropped the response.       *)
ReceiveResponse(r) ==
  /\ Arrives(r) /\ ~cu.stopped
  /\ net' = [net EXCEPT !.read = @ \cup {r}]
  /\ \/ /\ Filtered(r)
        /\ UNCHANGED <<c, ct, cx, cu, hist>>
     \/ /\ ~Filtered(r) /\ r # Final
        /\ c' = [c EXCEPT !.state = "Proceeding", !.code = r]
        /\ hist' = [Heard(r) EXCEPT !.early = @ \/ ct.F = "off"]
        /\ UNCHANGED <<ct, cx, cu>>
     \/ /\ ~Filtered(r) /\ r = Final /\ ct.K = "off" /\ ~cu.final
        /\ c' = [c EXCEPT !.state = "Completed", !.code = r]
        /\ ct' = StopTimersEF(StartTimerK(ct))
        /\ cu' = [cu EXCEPT !.final = TRUE]
        /\ hist' = Heard(r)
        /\ UNCHANGED cx
     \/ /\ ~Filtered(r)
        /\ \/ r = Final /\ (ct.K # "off" \/ cu.final \/ "timer" \in Faults)
           \/ r # Trying /\ cu.owner /\ "owner" \in Faults
        /\ EndClient(ct, hist)
     \/ /\ ~Filtered(r) /\ r # Trying /\ cu.owner /\ "dialog" \in Faults
        /\ UNCHANGED <<c, ct, cx, cu, hist>>
  /\ UNCHANGED server

(* CUserAgent::ClearTransactionOwner.  An owner that keeps its request     *)
(* (iOwnsOutgoingMsg is not set) takes it out of the transmitter and the   *)
(* transaction, which ends at once unless it has the final response.       *)
ClearTransactionOwner ==
  /\ cu.owner /\ ~cu.stopped
  /\ \/ /\ cu' = [cu EXCEPT !.owner = FALSE] /\ UNCHANGED <<c, cx>>
     \/ /\ c' = [c EXCEPT !.msg = FALSE, !.over = @ \/ c.state # "Completed"]
        /\ cx' = "idle"
        /\ cu' = [cu EXCEPT !.owner = FALSE,
                            !.stopped = c.state # "Completed" \/ ~cu.final]
  /\ UNCHANGED <<ct, server, net, hist>>

(* CDeleteMgr::RunL deletes the user agent and with it the transaction.    *)
ClientDeleted ==
  /\ cu.stopped /\ ~cu.gone
  /\ cu' = [cu EXCEPT !.gone = TRUE]
  /\ ct' = [t \in ClientTimers |-> "off"] /\ cx' = "idle"
  /\ UNCHANGED <<c, server, net, hist>>

-----------------------------------------------------------------------------
(* The server sends.                                                       *)

(* What goes out after a final response is late.                           *)
Written(h, r) ==
  [h EXCEPT !.wire = r, !.late = @ \/ r < hist.wire]

ServerWrites ==
  /\ sx.phase = "sending" /\ sx' = [sx EXCEPT !.phase = "sent"]
  /\ IF sx.msg = NoMsg
     THEN UNCHANGED <<net, hist>>
     ELSE /\ net' = [net EXCEPT !.resps = @ \cup {sx.msg}]
          /\ hist' = Written(hist, sx.msg)
  /\ UNCHANGED <<client, s, st, su>>

Sending(r) == [phase |-> "sending", msg |-> r]

MutStartTimerJ(tm) == tm

StopTimerF2(tm) == [tm EXCEPT !.F2 = "off"]
(* CNormalServerTransaction::StartTimerJUnlessExistsL                      *)
StartTimerJ(tm) == IF tm.J = "off" THEN [tm EXCEPT !.J = "on"] ELSE tm

StateAfter(r) == IF r = Final THEN "Completed" ELSE "Proceeding"

(* SendAndStoreResponseL and what its callers do next: only Trying stops   *)
(* Send100, each stops F2 after a final response, and the state changes    *)
(* last.  When the earlier response cannot be stored the transmitter is    *)
(* already active and ConnectionMgr is told to drop the new one.           *)
SendAndStore(t, r, tm) ==
  LET unsent == [s |-> t, sx |-> sx, st |-> tm, left |-> TRUE]
      tm100 == IF t.state = "Trying" THEN [tm EXCEPT !.Send100 = "off"] ELSE tm
  IN {[s |-> [t EXCEPT !.state = StateAfter(r), !.msg = r],
       sx |-> Sending(r), left |-> FALSE,
       st |-> IF r = Final THEN StopTimerF2(tm100) ELSE tm100]}
     \cup (IF "send" \in Faults THEN {unsent} ELSE {})
     \cup (IF "store" \in Faults /\ t.msg # NoMsg
           THEN {[unsent EXCEPT !.sx = Sending(NoMsg)]} ELSE {})

MutEnqueue(q, r) == <<r>> \o q

(* CResponseQueue::Add                                                     *)
Enqueue(q, r) == Append(q, r)

(* CTransaction::SendResponseL: Completed takes no response, Proceeding    *)
(* queues it while the transmitter is busy, Trying leaves.                 *)
SendResponse(r, tm) ==
  LET unsent == [s |-> s, sx |-> sx, st |-> tm, left |-> TRUE] IN
  IF s.over \/ s.state = "Completed" THEN {unsent}
  ELSE IF sx.phase = "idle" THEN SendAndStore(s, r, tm)
  ELSE IF s.state = "Trying" THEN {unsent}
  ELSE {[unsent EXCEPT !.s.queue = Enqueue(@, r), !.left = FALSE]}
       \cup (IF "queue" \in Faults THEN {unsent} ELSE {})

(* SendCompleteL in Proceeding sends the oldest queued response.           *)
SentInProceeding ==
  /\ s.state = "Proceeding"
  /\ IF s.queue = << >>
     THEN sx' = IdleTx /\ UNCHANGED <<s, st, su, hist>>
     ELSE \E o \in SendAndStore([s EXCEPT !.queue = Tail(@)],
                                Head(s.queue), st) :
            IF o.left THEN EndServer(su, st, hist)
            ELSE /\ s' = o.s /\ sx' = o.sx /\ st' = o.st
                 /\ UNCHANGED <<su, hist>>

(* In Completed it starts timer J.                                         *)
SentInCompleted ==
  /\ s.state = "Completed"
  /\ \/ sx' = IdleTx /\ st' = StartTimerJ(st) /\ UNCHANGED <<s, su, hist>>
     \/ "timer" \in Faults /\ st.J = "off" /\ EndServer(su, st, hist)

ServerSent ==
  /\ sx.phase = "sent"
  /\ \/ SentInProceeding
     \/ SentInCompleted
     \/ "fail" \in Faults /\ EndServer(su, st, hist)
  /\ UNCHANGED <<client, net>>

-----------------------------------------------------------------------------
(* The server receives.                                                    *)

(* The first request starts F2 and Send100 and is passed to the UAS: its   *)
(* dialog's owner gets it, or the router is asked, or it is refused.       *)
FirstRequest ==
  /\ net.req /\ su.state = "Start" /\ ~su.stopped
  /\ LET tm == [st EXCEPT !.F2 = "on", !.Send100 = "on"]
         owned == [su EXCEPT !.state = "WaitRespFromApp", !.owner = TRUE]
         refused == [su EXCEPT !.state = "FinalRespSent"]
     IN \/ su' = owned /\ st' = tm /\ UNCHANGED <<s, sx, hist>>
        \/ /\ su' = [su EXCEPT !.state = "GetTxOwner"] /\ st' = tm
           /\ UNCHANGED <<s, sx, hist>>
        \/ \E o \in SendResponse(Final, tm) :
             IF o.left THEN EndServer(refused, tm, hist)
             ELSE /\ s' = o.s /\ sx' = o.sx /\ st' = o.st
                  /\ su' = refused /\ UNCHANGED hist
        \/ "timer" \in Faults /\ EndServer(su, tm, hist)
        \/ "owner" \in Faults /\ EndServer(owned, tm, hist)
  /\ UNCHANGED <<client, net>>

(* A retransmission: Trying absorbs it while the Send100 timer exists,     *)
(* otherwise the latest response goes out again unless one is going out.   *)
RequestAgain ==
  /\ net.udp /\ su.state # "Start" /\ ~su.stopped
  /\ sx.phase = "idle" /\ ~(s.state = "Trying" /\ st.Send100 # "off")
  /\ \/ s.msg # NoMsg /\ sx' = Sending(s.msg) /\ UNCHANGED <<s, st, su, hist>>
     \/ /\ s.msg = NoMsg \/ "send" \in Faults
        /\ EndServer(su, st, hist)
  /\ UNCHANGED <<client, net>>

(* MSIPRequestRouter has found the owner, which may leave.                 *)
OwnerFound ==
  /\ su.state = "GetTxOwner" /\ ~su.stopped
  /\ su' = [su EXCEPT !.state = "WaitRespFromApp", !.owner = TRUE]
  /\ UNCHANGED <<client, s, st, sx, net, hist>>

(* It found none, failed, or took too long: a final response is sent.  If  *)
(* that leaves, ErrorOccurred stops the UAS and the others do nothing.     *)
OwnerNotFound ==
  /\ su.state = "GetTxOwner" /\ ~su.stopped
  /\ \E o \in SendResponse(Final, st) :
       /\ s' = o.s /\ sx' = o.sx /\ st' = o.st
       /\ \E stops \in {FALSE, o.left} :
            su' = [su EXCEPT !.state = "FinalRespSent", !.stopped = stops]
  /\ UNCHANGED <<client, net, hist>>

(* CNormalUAS_WaitRespFromApp::SendResponseL: FinalRespSent is entered     *)
(* before the final response is sent, and kept when the sending leaves.    *)
AppResponds(r) ==
  /\ su.state = "WaitRespFromApp" /\ su.owner /\ ~su.stopped
  /\ \E o \in SendResponse(r, st) : s' = o.s /\ sx' = o.sx /\ st' = o.st
  /\ su' = IF r = Final THEN [su EXCEPT !.state = "FinalRespSent"] ELSE su
  /\ hist' = IF r = Final THEN hist ELSE [hist EXCEPT !.provs = @ + 1]
  /\ UNCHANGED <<client, net>>

AppProvisional ==
  hist.provs < MaxProv /\ AppResponds(Trying + hist.provs + 1)

AppFinal == AppResponds(Final)

(* ClearTransactionOwner: no state of CNormalUAS stops for it.             *)
ServerOwnerGoes ==
  /\ su.owner /\ ~su.stopped
  /\ su' = [su EXCEPT !.owner = FALSE]
  /\ UNCHANGED <<client, s, st, sx, net, hist>>

(* CTimerSend100::ExpiredL gives the 100 to SendResponseL; when that       *)
(* leaves, the timer's object stays without its response.                  *)
TimerSend100 ==
  /\ ~s.over /\ st.Send100 = "on"
  /\ \E o \in SendResponse(Trying, st) :
       /\ s' = o.s /\ sx' = o.sx
       /\ st' = [o.st EXCEPT !.Send100 = IF o.left THEN "stale" ELSE "off"]
  /\ UNCHANGED <<client, su, net, hist>>

(* CTimerTerminateTa::ExpiredL, for timer F2 or J.                         *)
ServerTimeout(t) ==
  /\ ~s.over /\ st[t] = "on"
  /\ EndServer(su, [st EXCEPT ![t] = "off"], hist)
  /\ UNCHANGED <<client, net>>

ServerDeleted ==
  /\ su.stopped /\ ~su.gone
  /\ su' = [su EXCEPT !.gone = TRUE]
  /\ st' = [t \in ServerTimers |-> "off"] /\ sx' = IdleTx
  /\ UNCHANGED <<client, s, net, hist>>

-----------------------------------------------------------------------------
ClientNext ==
  \/ ClientWrites \/ ClientSent \/ ClientFailed
  \/ TimerE \/ ClientTimeout("F") \/ ClientTimeout("K")
  \/ \E r \in Code : ReceiveResponse(r)
  \/ ClearTransactionOwner \/ ClientDeleted

ServerNext ==
  \/ ServerWrites \/ ServerSent
  \/ FirstRequest \/ RequestAgain
  \/ OwnerFound \/ OwnerNotFound
  \/ AppProvisional \/ AppFinal \/ ServerOwnerGoes
  \/ TimerSend100 \/ ServerTimeout("F2") \/ ServerTimeout("J")
  \/ ServerDeleted

Next == ClientNext \/ ServerNext

Spec == Init /\ [][Next]_vars

(* Sends complete, running timers expire and CDeleteMgr runs.  Nothing is  *)
(* assumed of the network, the router or the application.                  *)
Fairness ==
  /\ WF_vars(ClientWrites) /\ WF_vars(ClientSent)
  /\ WF_vars(ClientTimeout("F")) /\ WF_vars(ClientTimeout("K"))
  /\ WF_vars(ClientDeleted)
  /\ WF_vars(ServerWrites) /\ WF_vars(ServerSent)
  /\ WF_vars(ServerTimeout("F2")) /\ WF_vars(ServerTimeout("J"))
  /\ WF_vars(ServerDeleted)

FairSpec == Spec /\ Fairness

-----------------------------------------------------------------------------
(* Properties.                                                             *)

TaState == {"Trying", "Proceeding", "Completed"}
TimerState == {"off", "on", "stale"}
Phase == {"idle", "sending", "sent"}
CodeOrNone == Code \cup {NoMsg}

ClientType == [state : TaState, over : BOOLEAN, code : CodeOrNone,
               msg : BOOLEAN]
ClientUaType == [stopped : BOOLEAN, owner : BOOLEAN, final : BOOLEAN,
                 gone : BOOLEAN]
ServerType == [state : TaState, over : BOOLEAN, msg : CodeOrNone,
               queue : Seq(Code)]
TxType == [phase : Phase, msg : CodeOrNone]
ServerUaType ==
  [state : {"Start", "GetTxOwner", "WaitRespFromApp", "FinalRespSent"},
   stopped : BOOLEAN, owner : BOOLEAN, gone : BOOLEAN]
NetType == [udp : BOOLEAN, req : BOOLEAN, resps : SUBSET Code,
            read : SUBSET Code]
HistType == [wire : CodeOrNone, finals : Nat, late : BOOLEAN,
             early : BOOLEAN, provs : 0..MaxProv, cEnded : Nat, sEnded : Nat]

(* Every variable of the two transactions, their timers, transmitters and  *)
(* user agents keeps its type.                                             *)
TypeOK ==
  /\ c \in ClientType /\ ct \in [ClientTimers -> TimerState] /\ cx \in Phase
  /\ cu \in ClientUaType
  /\ s \in ServerType /\ st \in [ServerTimers -> TimerState] /\ sx \in TxType
  /\ su \in ServerUaType
  /\ net \in NetType /\ hist \in HistType

(* A server transaction that has passed its request on is never left       *)
(* without something that ends it: F2 runs until a final response is       *)
(* given to the transmitter, and after that the send or timer J.           *)
ServerIsBounded ==
  su.state # "Start" /\ ~s.over /\ ~su.gone =>
    IF s.state = "Completed" THEN sx.phase # "idle" \/ st.J = "on"
    ELSE st.F2 = "on"

(* A client transaction is bounded by its first send and then by timer F,  *)
(* and by K once it has the final response; over UDP it goes on asking     *)
(* until then.  The exception: a provisional response received before the  *)
(* first send has completed ("early") moves it to Proceeding, where        *)
(* nothing starts timer F any more.                                        *)
ClientIsBounded ==
  ~c.over /\ ~cu.gone =>
    IF c.state = "Completed" THEN ct.K = "on"
    ELSE /\ ct.F = "on" \/ cx # "idle" \/ hist.early
         /\ net.udp => cx # "idle" \/ ct.E # "off"

(* However messages are repeated and reordered, the client's owner hears   *)
(* one final response and nothing after it, the server writes nothing      *)
(* older after a newer response, and either owner hears of the end once.   *)
OneAnswer ==
  /\ hist.finals <= 1 /\ ~hist.late
  /\ hist.cEnded <= 1 /\ hist.sEnded <= 1

(* Both ends come to an end, whatever the network loses and the peer or    *)
(* the application fails to say; the client unless its timer F was missed. *)
BothEnd ==
  /\ (su.state # "Start") ~> su.gone
  /\ <>(cu.gone \/ hist.early)
=============================================================================
