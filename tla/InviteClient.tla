---------------------------- MODULE InviteClient ----------------------------
(***************************************************************************)
(* The client side of one INVITE: the CInviteUAC ("ua"), the transactions  *)
(* CInviteClientTransaction it makes one after the other ("ta[i]", for the *)
(* i-th branch the INVITE is sent with), the transmitters they share or    *)
(* keep, their timers, the entries in CTransactionStore and CDeleteMgr.    *)
(*                                                                         *)
(* The calls are synchronous and nested: a response enters the             *)
(* transaction, which calls the user agent, which may detach that very     *)
(* transaction and send from a new one before the first call returns; and  *)
(* a "leave" may cut the chain anywhere, with every caller on the way out  *)
(* undoing, trapping or ending something.  So each function of the code is *)
(* an operator from a world (the value of all the variables) to the set of *)
(* its outcomes, and an action is one event the active scheduler delivers. *)
(***************************************************************************)
EXTENDS Integers, FiniteSets

CONSTANTS
  Transports,  \* transports the addresses resolve to; TRUE: unreliable
  Keepalive,   \* iRetransmitInvite: a private address, no outbound proxy
  Owns,        \* values of aDeleteRequest: the user agent owns the requests
  Secure,      \* the owner has a SIPSec user that is not bypassed
  MaxTa,       \* bound: the addresses found last for so many transactions
  Faults       \* what may go wrong

FaultKinds ==
  {"send",    \* CSipConnectionMgr::SendL leaves
   "timer",   \* a timer cannot be allocated or started
   "alloc",   \* any other allocation of the client fails
   "delete",  \* CDeleteMgr::AddDeleteRequest has no memory
   "sec",     \* SIPSec leaves
   "owner",   \* MTransactionOwner::ReceiveL leaves
   "dialog",  \* ... with KErrSIPInvalidDialogResponse: it drops the response
   "fail"}    \* a send completes with an error; an ICMP error arrives

ASSUME InviteClientAssumption ==
  /\ Transports \subseteq BOOLEAN /\ Transports # {}
  /\ Owns \subseteq BOOLEAN /\ Owns # {}
  /\ Keepalive \in BOOLEAN /\ Secure \in BOOLEAN
  /\ MaxTa \in Nat \ {0}
  /\ Faults \subseteq FaultKinds

Ua  == 0               \* the user agent, among the objects and transmitters
Ta  == 1..MaxTa
Obj == {Ua} \cup Ta
TaTimers == {"A", "B", "D", "P", "N"}  \* P: iTimerProceeding, N: iTimerNAT
UaTimers == {"S", "W"}   \* iSIPSecTimer, iTimerWait2xxRetransmissions

(* Responses: 1xx, 2xx, {408, 503}, {401, 407, 494}, any other error.      *)
Responses == {"prov", "ok", "busy", "auth", "reject"}
IsError(c) == c \in {"busy", "auth", "reject"}

AckStates == {"WaitAck", "ResolveAck", "SendingAck"}

VARIABLES
  ta,   \* state, over (iTerminated), msg, att (has iUserAgent), indep, udp
  tm,   \* each transaction's timers: "off", "on" or "stale" (expired, kept)
  tx,   \* transmitter: "idle", or whose send: "ta", "ua"; tx[i] is ta[i]'s own
  ua,   \* the user agent
  ut,   \* its timers
  st,   \* the user agent's entry, and the independent transactions' ones
  del,  \* doomed: CDeleteMgr's list; marked: to be freed from the store; gone
  hist  \* what the owner saw and did

vars == <<ta, tm, tx, ua, ut, st, del, hist>>

NoTa == [state |-> "none", over |-> FALSE, msg |-> "none", att |-> FALSE,
         indep |-> FALSE, udp |-> FALSE]

(* CTransactionUser::SendL has returned: the INVITE is stored under its    *)
(* first branch and its next hop is being resolved.                        *)
Init ==
  /\ ta = [i \in Ta |-> NoTa]
  /\ tm = [i \in Ta |-> [t \in TaTimers |-> "off"]]
  /\ tx = [k \in Obj |-> "idle"]
  /\ \E owns \in Owns :
     ua = [state |-> "Resolve", stopped |-> FALSE, owner |-> TRUE,
           owns |-> owns, msg |-> "invite", final |-> FALSE,
           cur |-> 0, held |-> 0, n |-> 1, stored |-> "none",
           canceled |-> FALSE, secwait |-> FALSE, secerr |-> FALSE,
           addrs |-> 0, results |-> FALSE, acked |-> FALSE]
  /\ ut = [t \in UaTimers |-> "off"]
  /\ st = [id |-> "main", rx |-> Ua, branch |-> 1, ind |-> {}]
  /\ del = [doomed |-> {}, marked |-> {}, gone |-> {}]
  /\ hist = [ended |-> 0, heard |-> {}, late |-> FALSE, cleared |-> FALSE]

-----------------------------------------------------------------------------
(* Outcomes.  "left" is why the function left, if it did; "yes" is the     *)
(* Boolean it returned, where it returns one.                              *)

World == [ta |-> ta, tm |-> tm, tx |-> tx, ua |-> ua, ut |-> ut, st |-> st,
          del |-> del, hist |-> hist]

Yes(w) == {[w |-> w, left |-> "no", yes |-> TRUE]}
No(w)  == {[w |-> w, left |-> "no", yes |-> FALSE]}
Leave(w, why) == {[w |-> w, left |-> why, yes |-> FALSE]}

MayLeave(fault, w) == IF fault \in Faults THEN Leave(w, "nomem") ELSE {}

Then(S, F(_)) ==
  UNION {IF r.left = "no" /\ r.yes THEN F(r.w) ELSE {r} : r \in S}
Otherwise(S, F(_)) ==
  UNION {IF r.left = "no" /\ ~r.yes THEN F(r.w) ELSE {r} : r \in S}
(* A cleanup item: what is undone when the function leaves.                *)
OnLeave(S, F(_)) ==
  UNION {IF r.left = "no" THEN {r} ELSE Leave(F(r.w), r.left) : r \in S}
Trap(S) == UNION {Yes(r.w) : r \in S}
Returned(S) ==
  {[w |-> r.w, left |-> r.left, yes |-> r.left = "no"] : r \in S}
(* __SIP_ASSERT_LEAVE                                                      *)
Assert(ok, w, F(_)) == IF ok THEN F(w) ELSE Leave(w, "other")

Becomes(S) ==
  \E r \in S : /\ ta' = r.w.ta /\ tm' = r.w.tm /\ tx' = r.w.tx
               /\ ua' = r.w.ua /\ ut' = r.w.ut /\ st' = r.w.st
               /\ del' = r.w.del /\ hist' = r.w.hist

Start(w, i, t) ==
  Yes([w EXCEPT !.tm[i][t] = "on"]) \cup MayLeave("timer", w)
StopTimers(w, i, T) ==
  [w EXCEPT !.tm[i] = [t \in TaTimers |-> IF t \in T THEN "off" ELSE @[t]]]

-----------------------------------------------------------------------------
(* The store and CDeleteMgr.                                               *)

Entry(branch, rx, ind) ==
  [id |-> "main", rx |-> rx, branch |-> branch, ind |-> ind]

(* The destructors: the user agent takes its transaction with it, and      *)
(* whoever owns a transmitter cancels what it sends.                       *)
Destroyed(w, S) ==
  LET all == S \cup (IF Ua \in S THEN {w.ua.cur, w.ua.held} ELSE {})
      dead == [w EXCEPT
        !.tx = [k \in Obj |-> IF k \in all THEN "idle" ELSE @[k]],
        !.tm = [i \in Ta |-> IF i \in all THEN [t \in TaTimers |-> "off"]
                             ELSE @[i]],
        !.del = [doomed |-> @.doomed \ all, marked |-> @.marked \ all,
                 gone |-> @.gone \cup all]]
  IN IF Ua \notin S THEN dead
     ELSE [dead EXCEPT
             !.ut = [t \in UaTimers |-> "off"],
             !.ua = [w.ua EXCEPT !.cur = 0, !.held = 0, !.secwait = FALSE],
             !.st = [w.st EXCEPT !.id = IF @ = "empty" THEN "none" ELSE @]]

(* FindTransactionInfo: a search that goes through the whole store frees   *)
(* what is marked in it.                                                   *)
Searched(w) ==
  IF w.st.id = "main" THEN w ELSE Destroyed(w, w.del.marked)

RemoveFromStore(w) ==
  IF w.st.id = "main" THEN [w EXCEPT !.st.id = "none"] ELSE Searched(w)

ClearTransaction(w) ==
  IF w.st.id = "main" THEN [w EXCEPT !.st.rx = Ua] ELSE Searched(w)

(* CUserAgent::RequestDeletionOfUserAgent.  Without memory the entry gets  *)
(* the empty id and is freed with the user agent later.                    *)
RequestDeletionOfUserAgent(w) ==
  Yes([RemoveFromStore(w) EXCEPT !.del.doomed = @ \cup {Ua}])
  \cup (IF "delete" \notin Faults THEN {}
        ELSE IF w.st.id = "main"
        THEN Yes([w EXCEPT !.st.id = "empty", !.del.marked = @ \cup {Ua}])
        ELSE Yes(Destroyed(w, {Ua})))

TransactionEnded(w) ==
  [w EXCEPT !.ua.stopped = TRUE,
            !.hist.ended = IF w.ua.owner THEN @ + 1 ELSE @]

(* CUserAgent::Stop.                                                       *)
Stop(w) ==
  IF w.ua.stopped THEN Yes(w)
  ELSE RequestDeletionOfUserAgent(TransactionEnded(w))

(* TStopUserAgent, and the end of SIPSecReady.                             *)
StopIfFound(w) == IF w.st.id = "main" THEN Stop(w) ELSE Yes(Searched(w))
StopOnLeave(S) ==
  UNION {IF r.left = "no" THEN {r}
         ELSE {[s EXCEPT !.left = r.left] : s \in StopIfFound(r.w)} : r \in S}

MutRequestDeletionOfTransactionL(w) ==
  IF w.ua.cur = 0 THEN Yes(w)
  ELSE Yes(ClearTransaction([w EXCEPT !.del.doomed = @ \cup {w.ua.cur}]))

RequestDeletionOfTransactionL(w) ==
  IF w.ua.cur = 0 THEN Yes(w)
  ELSE Yes(ClearTransaction([w EXCEPT !.del.doomed = @ \cup {w.ua.cur},
                                      !.ua.cur = 0]))
       \cup MayLeave("delete", w)

-----------------------------------------------------------------------------
(* The transaction's end and its sending.                                  *)

TxOf(w, i) == IF w.ta[i].indep THEN i ELSE Ua

(* CTransaction::Terminated: a send of its own is canceled.                *)
Terminated(w, i) ==
  IF w.ta[i].over THEN w
  ELSE [w EXCEPT !.ta[i].over = TRUE,
                 !.tx[TxOf(w, i)] = IF @ = "ta" THEN "idle" ELSE @]

SendToTransmitterL(w, i) ==
  Assert(w.ta[i].msg # "none" /\ w.tx[TxOf(w, i)] = "idle", w, LAMBDA v :
    Yes([v EXCEPT !.tx[TxOf(v, i)] = "ta"]) \cup MayLeave("send", v))

(* CTransaction::ClearSendBuffer: an ACK stays, anything else is dropped   *)
(* and its send canceled; and what it returns.                             *)
ClearSendBuffer(w, i) ==
  IF w.ta[i].msg = "ack" THEN w
  ELSE [w EXCEPT !.ta[i].msg = "none", !.tx[TxOf(w, i)] = "idle"]
CanContinueWithoutOutgoingMsg(w, i) == w.ta[i].msg = "ack" \/ w.ta[i].over

-----------------------------------------------------------------------------
(* The user agent sends, again or to the next address.                     *)

MutUpdateViaAndCSeqL(w) == Yes([w EXCEPT !.ua.n = @ + 1])

(* A new branch for the INVITE; the ACK to a 2xx gets one that no          *)
(* transaction has.                                                        *)
UpdateViaAndCSeqL(w) ==
  Assert(w.ua.msg # "none", w, LAMBDA v :
    Yes([v EXCEPT !.ua.n = IF v.ua.msg = "invite" THEN @ + 1 ELSE @])
    \cup MayLeave("alloc", v))

(* PrepareTxForNewRequestL, RunIndependently: the old transaction keeps    *)
(* the transmitter and what it is sending.                                 *)
RunIndependently(w, i) ==
  [w EXCEPT !.ta[i].indep = TRUE, !.tx[i] = w.tx[Ua], !.tx[Ua] = "idle"]

MutDetached(w, i) ==
  [ClearSendBuffer(w, i) EXCEPT !.ua.cur = 0]

Detached(w, i) ==
  ClearSendBuffer([w EXCEPT !.ta[i].att = FALSE, !.ua.cur = 0], i)

DetachCurrentTransactionL(w) ==
  LET i == w.ua.cur
      quiet == [w EXCEPT !.tx[Ua] = "idle"]
      ended == Then(RequestDeletionOfTransactionL(quiet), LAMBDA v :
                 Yes(RemoveFromStore(v)))
      alive == MayLeave("alloc", w) \cup
               Assert(w.st.id = "main", Searched(RunIndependently(w, i)),
                 LAMBDA v : Yes(Detached([v EXCEPT !.st.ind = @ \cup {i}], i)))
  IN IF i = 0 THEN Yes(w)
     ELSE Then(IF w.ta[i].over THEN ended ELSE alive, LAMBDA v :
            Yes([v EXCEPT !.st = Entry(v.ua.n, Ua, @.ind)]))

CreateTransactionL(w) ==
  Assert(w.ua.cur = 0, w, LAMBDA v :
    MayLeave("alloc", v) \cup
    UNION {Yes([v EXCEPT !.ua.cur = v.ua.n,
                 !.ta[v.ua.n] = [NoTa EXCEPT !.state = "Calling",
                                             !.att = TRUE, !.udp = udp]])
             : udp \in Transports})

(* CTransactionStore::UpdateL, with or without the request's headers.      *)
UpdateInfoToStoreL(w, headers) ==
  LET u == [w EXCEPT !.st.rx = w.ua.cur]
      branch == IF w.ua.msg = "invite" THEN w.ua.n ELSE 0
  IN IF w.st.id # "main" THEN Leave(Searched(w), "other")
     ELSE IF headers
     THEN Yes([u EXCEPT !.st.branch = branch]) \cup MayLeave("alloc", u)
     ELSE Yes(u)

SendRequestToNetworkL(w) ==
  CASE w.ua.msg = "none" -> Leave(w, "other")
    [] w.ua.msg = "ack" ->
         Assert(w.tx[Ua] = "idle", w, LAMBDA v :
           Yes([v EXCEPT !.tx[Ua] = "ua"]) \cup MayLeave("send", v))
    [] w.ua.msg = "invite" ->
         Assert(w.ua.cur # 0 /\ ~w.ta[w.ua.cur].over, w, LAMBDA v :
           SendToTransmitterL([v EXCEPT !.ta[v.ua.cur].msg = "invite"],
                              v.ua.cur))

UpdateAndSendRequestL(w, next) ==
  LET renewed(v) ==
        IF v.ua.msg = "ack" THEN Yes(v)
        ELSE Then(DetachCurrentTransactionL(v), CreateTransactionL)
  IN Then(UpdateViaAndCSeqL(w), LAMBDA a :
     Then(renewed(a), LAMBDA b :
     Then(UpdateInfoToStoreL(b, TRUE), LAMBDA c :
     Then(SendRequestToNetworkL(c), LAMBDA d :
       Yes([d EXCEPT !.ua.state = next])))))

UpdateAndResolveL(w, resolve) ==
  Then(UpdateViaAndCSeqL(w), LAMBDA a :
  Then(DetachCurrentTransactionL(a), LAMBDA b :
  Then(UpdateInfoToStoreL(b, TRUE), LAMBDA c :
    Yes([c EXCEPT !.ua.state = resolve]) \cup MayLeave("alloc", c))))

(* The next address, or a new resolution of the URI, with the response     *)
(* kept for the case that it finds none.  (No outbound proxy to try.)      *)
TryNextAddressL(w, resp, resolve, next) ==
  IF w.ua.addrs > 0
  THEN UpdateAndSendRequestL([w EXCEPT !.ua.addrs = @ - 1], next)
  ELSE IF w.ua.results
  THEN Assert(w.ua.stored = "none", w, LAMBDA v :
         Then(UpdateAndResolveL(v, resolve), LAMBDA u :
           Yes([u EXCEPT !.ua.stored = resp])))
  ELSE No(w)

(* FillSecurityParamsL, HandleSIPSecErrorL: both of its failures stop the  *)
(* user agent.                                                             *)
FillSecurityParamsL(w) ==
  IF ~w.ua.owner THEN Then(Stop(w), No)
  ELSE Yes(w) \cup
       (IF Secure /\ "sec" \in Faults
        THEN Then(Stop(w), LAMBDA v : Leave(v, "other")) ELSE {})

-----------------------------------------------------------------------------
(* The transaction has ended.                                              *)

TransactionEndsWithoutFinalResponseL(w, reason) ==
  LET tried == IF ~w.ua.canceled /\ reason \in {"timeout", "failure"}
               THEN TryNextAddressL(w, "none", "Resolve", "WaitResponse")
               ELSE No(w)
  IN Otherwise(StopOnLeave(tried), Stop)

MutIgnoreResponseRetransmissionsL(w) == Yes(RemoveFromStore(w))

(* The entry is replaced by one that no response matches.                  *)
IgnoreResponseRetransmissionsL(w) ==
  Assert(w.ua.cur = 0, w, LAMBDA v :
    Yes([RemoveFromStore(v) EXCEPT !.st = Entry(0, Ua, @.ind)]))

TransactionEndsL(w, reason) ==
  CASE w.ua.state = "WaitResponse" ->
         TransactionEndsWithoutFinalResponseL(w, reason)
    [] w.ua.state = "WaitAuth" ->
         Then(RequestDeletionOfTransactionL(w), IgnoreResponseRetransmissionsL)
    [] w.ua.state = "WaitEnd" -> Stop(w)
    [] OTHER -> Leave(w, "other")

(* A transaction without a user agent frees itself.                        *)
Freed(w, i) ==
  LET out == [w EXCEPT !.st.ind = @ \ {i}]
  IN Yes([out EXCEPT !.del.doomed = @ \cup {i}])
     \cup (IF "delete" \in Faults
           THEN Yes([out EXCEPT !.del.marked = @ \cup {i}]) ELSE {})

(* CClientTransaction::TerminatedL.                                        *)
TerminatedL(w, i, reason) ==
  IF w.ta[i].over THEN Yes(w)
  ELSE LET v == Terminated(w, i) IN
       Then(IF v.ta[i].att THEN TransactionEndsL(v, reason) ELSE Yes(v),
            LAMBDA u : IF u.ta[i].indep THEN Freed(u, i) ELSE Yes(u))

(* CTransaction::LeaveOccurred; CUserAgent::LeaveOccurred.                 *)
TaLeaveOccurred(w, i) ==
  Then(Trap(TerminatedL(w, i, "other")), LAMBDA v :
    IF v.ta[i].att THEN Stop(v) ELSE Yes(v))

-----------------------------------------------------------------------------
(* A response, from the user agent up.                                     *)

(* The owner takes the response, or leaves.                                *)
PassMsgToTransactionOwnerL(w, c) ==
  IF ~w.ua.owner THEN Yes(w)
  ELSE Yes([w EXCEPT
             !.hist.heard = @ \cup {IF IsError(c) THEN "error" ELSE c},
             !.hist.late = @ \/ w.hist.ended > 0])
       \cup (IF "owner" \in Faults
             THEN Leave(w, "other") \cup Leave(w, "nomem") ELSE {})
       \cup (IF "dialog" \in Faults THEN Leave(w, "dialog") ELSE {})

MutRestoreUa(w) == w
RestoreUa(w) == [w EXCEPT !.ua.final = FALSE, !.ut["W"] = "off"]

(* iFinalRespPassed is set first; TRestoreUaState takes it back, and the   *)
(* timer that was just started for a 2xx.                                  *)
PassRespToTransactionOwnerL(w, c) ==
  Assert(~w.ua.final, w, LAMBDA v :
    OnLeave(PassMsgToTransactionOwnerL([v EXCEPT !.ua.final = c # "prov"], c),
            RestoreUa))

MutStopTransaction(w) ==
  LET i == w.ua.cur
      v == [w EXCEPT !.ta[i].att = FALSE, !.ua.cur = 0, !.tx[Ua] = "idle"]
  IN IF i = 0 \/ w.ua.held # 0 THEN Yes(w)
     ELSE Yes(ClearTransaction([v EXCEPT !.del.doomed = @ \cup {i}]))

(* CInviteUAC::StopTransaction.                                            *)
StopTransaction(w) ==
  LET i == w.ua.cur
      v == [Terminated([w EXCEPT !.ta[i].att = FALSE], i) EXCEPT !.ua.cur = 0]
  IN IF i = 0 \/ w.ua.held # 0 THEN Yes(w)
     ELSE Yes(ClearTransaction([v EXCEPT !.del.doomed = @ \cup {i}]))
          \cup (IF "delete" \in Faults
                THEN Yes(ClearTransaction([v EXCEPT !.ua.held = i])) ELSE {})

ShouldUaTryAgainL(w, c) ==
  IF w.ua.final \/ ~w.ua.owner THEN No(w)
  ELSE StopOnLeave(
    CASE c = "busy" -> TryNextAddressL(w, c, "Resolve", "WaitResponse")
      [] c = "auth" /\ Secure /\ ~w.ua.secerr ->
           Then(FillSecurityParamsL(w), LAMBDA v :
             UpdateAndSendRequestL(v, "WaitResponse"))
      [] OTHER -> No(w))

MutAcceptL(w) ==
  Then(PassRespToTransactionOwnerL(w, "ok"), LAMBDA b :
  Then(StopTransaction(b), LAMBDA c :
    Yes([c EXCEPT !.ua.state = "WaitAck"])))

(* CInviteUAC::ReceiveResponseL: try again, or pass the response on.       *)
AcceptL(w) ==
  Then(Yes([w EXCEPT !.ut["W"] = "on"]) \cup MayLeave("timer", w), LAMBDA a :
  Then(PassRespToTransactionOwnerL(a, "ok"), LAMBDA b :
  Then(StopTransaction(b), LAMBDA c :
    Yes([c EXCEPT !.ua.state = "WaitAck"]))))

ReceiveResponseL(w, c) ==
  Assert(w.ut["W"] = "off", w, LAMBDA v :
    Otherwise(ShouldUaTryAgainL(v, c), LAMBDA u :
      IF c = "ok" THEN AcceptL(u)
      ELSE Then(PassRespToTransactionOwnerL(u, c), LAMBDA x :
             Yes(IF c = "prov" THEN x
                 ELSE [x EXCEPT !.ua.state = "WaitEnd"]))))

(* Whether SIPSec must be waited for: only a challenge takes it time.      *)
PassResponseToSIPSecL(w, c) ==
  Assert(w.ua.msg # "none", w, LAMBDA v :
    No(v) \cup
    (IF Secure /\ v.ua.owner /\ c = "auth"
     THEN Yes([v EXCEPT !.ua.secwait = TRUE]) ELSE {}) \cup
    (IF Secure /\ v.ua.owner /\ c # "prov" /\ "sec" \in Faults
     THEN Leave(v, "other") ELSE {}))

StartTimerSIPSecL(w) ==
  Assert(w.ut["S"] = "off", w, LAMBDA v :
    Yes([v EXCEPT !.ut["S"] = "on"]) \cup MayLeave("timer", v))

(* CInviteUAC_WaitResponse::ReceiveL: an error response is kept until      *)
(* SIPSec has answered, or for a timer of no duration, so that the         *)
(* transaction can send its ACK first.                                     *)
WaitResponseReceiveL(w, c) ==
  LET keep(v) == Yes([v EXCEPT !.ua.state = "WaitAuth",
                        !.ua.stored = IF @ = "none" THEN c ELSE @])
      later(v) == IF IsError(c) THEN Then(StartTimerSIPSecL(v), keep)
                  ELSE ReceiveResponseL(v, c)
  IN Assert(~w.ua.final, w, LAMBDA v :
       UNION {IF r.left # "no"
              THEN IF IsError(c) THEN later([r.w EXCEPT !.ua.secerr = TRUE])
                   ELSE {r}
              ELSE IF r.yes THEN keep(r.w) ELSE later(r.w)
                : r \in PassResponseToSIPSecL(v, c)})

MutHandleAdditional2xxL(w, c) == PassMsgToTransactionOwnerL(w, c)

HandleAdditional2xxL(w, c) ==
  IF c # "ok" THEN Yes(w)
  ELSE Otherwise(PassResponseToSIPSecL(w, c), LAMBDA v :
         PassMsgToTransactionOwnerL(v, c))

MutUaReceiveL(w, c) ==
  IF w.ua.state = "WaitResponse" THEN WaitResponseReceiveL(w, c)
  ELSE HandleAdditional2xxL(w, c)

UaReceiveL(w, c) ==
  CASE w.ua.stopped -> Yes(w)
    [] ~w.ua.stopped /\ w.ua.state = "WaitResponse" ->
         WaitResponseReceiveL(w, c)
    [] ~w.ua.stopped /\ w.ua.state \in AckStates -> HandleAdditional2xxL(w, c)
    [] OTHER -> Leave(w, "other")

-----------------------------------------------------------------------------
(* A response, in the transaction.                                         *)

(* The ACK takes the INVITE's place, in the transmitter as well.           *)
SendAck(w, i) ==
  UNION {IF r.left = "no" THEN {r} ELSE Trap(TerminatedL(r.w, i, "other"))
           : r \in SendToTransmitterL([w EXCEPT !.ta[i].msg = "ack",
                                                !.tx[TxOf(w, i)] = "idle"], i)}

PassResponseToUserAgentL(w, i, c) ==
  Assert(w.ta[i].att, w, LAMBDA v : UaReceiveL(v, c))

(* TRestoreTransactionState.                                               *)
RestoreTa(w, i, state, T) ==
  StopTimers([w EXCEPT !.ta[i].state = state], i, T)

(* An error response moves the transaction to Completed before the user    *)
(* agent sees it; unless memory ran out there, its ACK is sent afterwards. *)
TaReceiveResponseL(w, i, c, back, T) ==
  LET restore(v) == RestoreTa(v, i, back, T)
      passed(v) == PassResponseToUserAgentL(v, i, c)
  IN IF ~IsError(c) THEN OnLeave(passed(w), restore)
     ELSE Assert(w.ta[i].msg = "invite", w, LAMBDA v :
       MayLeave("alloc", v) \cup
       UNION {IF r.left = "nomem" THEN Leave(restore(r.w), "nomem")
              ELSE SendAck(r.w, i)
                : r \in passed([v EXCEPT !.ta[i].state = "Completed"])})

StartTimerNATL(w, i) ==
  IF w.tm[i]["N"] = "off" /\ Keepalive /\ w.ta[i].udp
  THEN Start(w, i, "N") ELSE Yes(w)

CallingReceiveL(w, i, c) ==
  LET first(v) == Assert(v.tm[i]["P"] = "off", v, LAMBDA u :
                    Then(Start(u, i, "P"), LAMBDA x :
                    Then(StartTimerNATL(x, i), LAMBDA y :
                      Yes([y EXCEPT !.ta[i].state = "Proceeding"]))))
      T == IF c = "prov" THEN {"P", "N"} ELSE {}
  IN Then(IF c = "prov" THEN first(w) ELSE Yes(w), LAMBDA v :
     Then(TaReceiveResponseL(v, i, c, "Calling", T), LAMBDA u :
       Yes(StopTimers(u, i, {"A", "B"}))))

MutProceedingReceiveL(w, i, c) ==
  Then(TaReceiveResponseL(w, i, c, "Proceeding", {}), LAMBDA v :
    Yes(StopTimers(v, i, {"P", "N"})))

ProceedingReceiveL(w, i, c) ==
  Then(TaReceiveResponseL(w, i, c, "Proceeding", {}), LAMBDA v :
    Yes(IF IsError(c) THEN StopTimers(v, i, {"P", "N"}) ELSE v))

CompletedReceiveL(w, i, c) ==
  IF IsError(c) /\ w.tx[TxOf(w, i)] = "idle"
  THEN SendToTransmitterL(w, i) ELSE Yes(w)

TaReceiveL(w, i, c) ==
  CASE w.ta[i].over -> Yes(w)
    [] ~w.ta[i].over /\ w.ta[i].state = "Calling" -> CallingReceiveL(w, i, c)
    [] ~w.ta[i].over /\ w.ta[i].state = "Proceeding" ->
         ProceedingReceiveL(w, i, c)
    [] ~w.ta[i].over /\ w.ta[i].state = "Completed" ->
         CompletedReceiveL(w, i, c)
    [] OTHER -> Leave(w, "other")

-----------------------------------------------------------------------------
(* What the other active objects call.                                     *)

StopWithLastError(w) ==
  LET told == IF w.ua.stored = "none" THEN Yes(w)
              ELSE Trap(PassMsgToTransactionOwnerL(
                          [w EXCEPT !.ua.stored = "none"], w.ua.stored))
  IN Then(told, Stop)

SIPSecCacheUpdatedL(w, ok) ==
  IF w.ua.state # "WaitAuth" THEN Yes(w)
  ELSE Assert(w.ua.stored # "none", w, LAMBDA v :
         IF ok THEN ReceiveResponseL([v EXCEPT !.ua.stored = "none"],
                                     v.ua.stored)
         ELSE Stop(v))

SIPSecReady(w, ok) == StopOnLeave(SIPSecCacheUpdatedL(w, ok))

MutSendCompleteL(w, i) ==
  CASE w.ta[i].over -> Yes(w)
    [] ~w.ta[i].over /\ w.ta[i].state = "Calling" ->
         Then(IF w.tm[i]["B"] = "off" THEN Start(w, i, "B") ELSE Yes(w),
              LAMBDA v : IF v.ta[i].udp THEN Start(v, i, "A") ELSE Yes(v))
    [] OTHER -> Yes(w)

SendCompleteL(w, i) ==
  CASE w.ta[i].over -> Yes(w)
    [] ~w.ta[i].over /\ w.ta[i].state = "Calling" ->
         Then(IF w.tm[i]["B"] = "off" THEN Start(w, i, "B") ELSE Yes(w),
              LAMBDA v :
                IF ~v.ta[i].udp THEN Yes(v)
                ELSE Assert(v.tm[i]["A"] = "off", v, LAMBDA u :
                              Start(u, i, "A")))
    [] ~w.ta[i].over /\ w.ta[i].state = "Proceeding" -> StartTimerNATL(w, i)
    [] OTHER -> IF w.tm[i]["D"] = "off" THEN Start(w, i, "D") ELSE Yes(w)

UaSendFailedL(w) ==
  IF w.ua.state # "SendingAck" THEN Leave(w, "other")
  ELSE Otherwise(TryNextAddressL(w, "none", "ResolveAck", "SendingAck"), Stop)

(* What an event's handler left with, passed to whom it concerns.          *)
Handled(S, LeaveOccurred(_, _)) ==
  UNION {IF r.left = "no" THEN {r} ELSE LeaveOccurred(r.w, r.left) : r \in S}

StopOn(w, why)  == IF why = "dialog" THEN Yes(w) ELSE Stop(w)
Ignored(w, why) == Yes(w)

UaLives == Ua \notin del.gone
TaLives(i) == ta[i].state # "none" /\ i \notin del.gone

-----------------------------------------------------------------------------
(* Events.                                                                 *)

(* CTransmitter::RunL, RunError.                                           *)
TaSent(k, ok) ==
  LET i == IF k = Ua THEN ua.cur ELSE k
      w == [World EXCEPT !.tx[k] = "idle"]
  IN /\ tx[k] = "ta"
     /\ Becomes(Handled(
          IF ok THEN SendCompleteL(w, i)
          ELSE TerminatedL(w, i, "failure") \cup TerminatedL(w, i, "other"),
          LAMBDA v, why : TaLeaveOccurred(v, i)))

UaSent(ok) ==
  LET w == [World EXCEPT !.tx[Ua] = "idle"]
  IN /\ tx[Ua] = "ua"
     /\ Becomes(IF ua.stopped THEN Yes(w)
                ELSE IF ok /\ ua.state = "SendingAck" THEN Yes(w)
                ELSE IF ok THEN Stop(w)
                ELSE Handled(UaSendFailedL(w), LAMBDA v, why : Stop(v)))

(* A timer of a transaction expires.  It is deleted when its handler has   *)
(* returned, not if the handler left or the transaction has ended.         *)
Expired(i, t, w) ==
  CASE t \in {"A", "N"} ->
         IF w.tx[TxOf(w, i)] = "idle" THEN SendToTransmitterL(w, i) ELSE Yes(w)
    [] t \in {"B", "P"} -> TerminatedL(w, i, "timeout")
    [] OTHER -> TerminatedL(w, i, "other")

TaTimer(i, t) ==
  LET w == [World EXCEPT !.tm[i][t] = "stale"]
      done(v) == Yes(IF v.tm[i][t] = "stale" THEN StopTimers(v, i, {t}) ELSE v)
  IN /\ TaLives(i) /\ tm[i][t] = "on"
     /\ t = "D" /\ i = ua.cur => ut["S"] # "on"  \* it is due earlier
     /\ Becomes(IF ta[i].over THEN Yes(w)
                ELSE Handled(Then(Expired(i, t, w), done), Ignored))

SIPSecTimer ==
  LET w == [World EXCEPT !.ut["S"] = "stale"]
  IN /\ UaLives /\ ut["S"] = "on"
     /\ Becomes(IF ua.stopped \/ ua.state \notin AckStates \cup {"WaitAuth"}
                THEN Yes(w)
                ELSE Handled(Then(SIPSecReady(w, TRUE), LAMBDA v :
                               Yes([v EXCEPT !.ut["S"] = "off"])), Ignored))

Wait2xxTimer ==
  /\ UaLives /\ ut["W"] = "on"
  /\ Becomes(IF ua.stopped THEN Yes([World EXCEPT !.ut["W"] = "stale"])
             ELSE Then(Stop([World EXCEPT !.ut["W"] = "stale"]), LAMBDA v :
                    Yes([v EXCEPT !.ut["W"] = "off"])))

(* CTransport::RouteL: to the receiver found by the branch.                *)
Routed(b) == (st.id # "none" /\ st.branch = b) \/ b \in st.ind
ToUa(b)   == st.id # "none" /\ st.branch = b /\ st.rx = Ua

Received(b, c) ==
  IF ToUa(b) THEN UaReceiveL(World, c) ELSE TaReceiveL(World, b, c)

Respond(b, c) ==
  /\ Routed(b) /\ TaLives(b) /\ (ToUa(b) => UaLives)
  /\ c = "auth" /\ Secure => ua.n + ua.addrs < MaxTa
  /\ Becomes(Handled(Received(b, c), LAMBDA v, why :
       IF why = "dialog" THEN Yes(v)
       ELSE IF ToUa(b) THEN Stop(v) ELSE TaLeaveOccurred(v, b)))

(* CUserAgentClient::CompletedL: the resolver has found addresses.         *)
Found(addrs) == [World EXCEPT !.ua.stored = "none", !.ua.results = TRUE,
                              !.ua.addrs = addrs]

Resolved(addrs) ==
  /\ UaLives /\ ~ua.stopped /\ ua.state = "Resolve"
  /\ ua.n + addrs <= MaxTa
  /\ Becomes(Handled(
       Then(FillSecurityParamsL(Found(addrs)), LAMBDA a :
       Then(CreateTransactionL(a), LAMBDA b :
       Then(UpdateInfoToStoreL(b, FALSE), LAMBDA c :
       Then(SendRequestToNetworkL(c), LAMBDA d :
         Yes([d EXCEPT !.ua.state = "WaitResponse"]))))), StopOn))

AckResolved(addrs) ==
  /\ UaLives /\ ~ua.stopped /\ ua.state = "ResolveAck"
  /\ Becomes(Handled(
       Then(Returned(Then(FillSecurityParamsL(Found(addrs)),
                          SendRequestToNetworkL)), LAMBDA a :
         Yes([a EXCEPT !.ua.state = "SendingAck"])), StopOn))

(* CUserAgentClient::ErrorOccured.  When the URI cannot be resolved the    *)
(* old results go first, so that there is no next address.                 *)
ResolvingFails(resolved) ==
  LET none == [World EXCEPT !.ua.results = FALSE, !.ua.addrs = 0]
      next == IF ua.state = "Resolve" THEN "WaitResponse" ELSE "SendingAck"
      tried == TryNextAddressL(none, "none", ua.state, next)
  IN /\ UaLives /\ ~ua.stopped /\ ua.state \in {"Resolve", "ResolveAck"}
     /\ Becomes(IF resolved
                THEN Otherwise(Handled(tried, LAMBDA v, why : No(v)),
                               StopWithLastError)
                ELSE Stop(World))

(* CUserAgentClient::SIPSecCacheUpdated.                                   *)
SIPSecAnswers(ok) ==
  /\ UaLives /\ ua.secwait
  /\ Becomes(Handled(SIPSecReady([World EXCEPT !.ua.secwait = FALSE], ok),
                     Ignored))

(* CTransactionStore::IcmpErrorL, for the address one of them sends to.    *)
IcmpError(b) ==
  LET w == [World EXCEPT !.tx[Ua] = "idle"]
  IN /\ "fail" \in Faults
     /\ Becomes(Handled(
          IF ~ToUa(b) THEN TerminatedL(World, b, "failure")
          ELSE UaSendFailedL(w), Ignored))
     /\ Routed(b) /\ TaLives(b)
     /\ IF ToUa(b) THEN UaLives /\ ~ua.stopped /\ ua.state = "SendingAck"
        ELSE ta[b].udp /\ ~ta[b].over

-----------------------------------------------------------------------------
(* The owner's calls, and the deletions.                                   *)

(* CInviteUAC::SendFirstAckL: the request is not put into the store.       *)
SendFirstAckL(w) ==
  LET u == [w EXCEPT !.ua.acked = TRUE, !.ua.owner = TRUE]
  IN IF w.ua.acked THEN Leave(w, "other")
     ELSE MayLeave("alloc", u) \cup
          Yes([u EXCEPT !.ua.msg = "ack", !.ua.results = FALSE,
                        !.ua.addrs = 0, !.ua.state = "ResolveAck"])

AppSendsAck ==
  /\ UaLives /\ st.id = "main" /\ ua.state = "WaitAck" /\ ua.owner
  /\ Becomes(Handled(SendFirstAckL(World), Ignored))

(* TransactionMgr::IsPossibleToSendCancel, CInviteUAC::CancelInvite.       *)
AppCancels ==
  /\ UaLives /\ st.id = "main" /\ ua.owner /\ ~ua.canceled
  /\ ua.cur # 0 /\ ta[ua.cur].state = "Proceeding" /\ ~ta[ua.cur].over
  /\ Becomes(Yes([World EXCEPT !.ua.canceled = TRUE]))

(* CUserAgentClient::DetachOutgoingMsg.                                    *)
DetachOutgoingMsg(w) ==
  LET i == w.ua.cur
      v == [w EXCEPT !.ua.msg = "none", !.ua.secwait = FALSE,
                     !.tx[Ua] = "idle"]
      u == IF i = 0 THEN v ELSE ClearSendBuffer(v, i)
  IN IF i # 0 /\ ~CanContinueWithoutOutgoingMsg(u, i)
     THEN Stop(Terminated([u EXCEPT !.ta[i].att = FALSE], i))
     ELSE IF u.ua.state = "WaitEnd" THEN Yes(u) ELSE Stop(u)

ClearTransactionOwner ==
  LET w == [World EXCEPT !.ua.owner = FALSE, !.hist.cleared = TRUE]
  IN /\ UaLives /\ st.id # "none" /\ ua.owner
     /\ Becomes(IF ua.owns THEN Yes(w) ELSE DetachOutgoingMsg(w))

DeleteMgrRuns ==
  del.doomed # {} /\ Becomes(Yes(Destroyed(World, del.doomed)))

(* A search through the store meets what is marked.                        *)
StoreFreesMarked ==
  del.marked # {} /\ Becomes(Yes(Destroyed(World, del.marked)))

Next ==
  \/ \E k \in Obj : TaSent(k, TRUE) \/ ("fail" \in Faults /\ TaSent(k, FALSE))
  \/ UaSent(TRUE) \/ ("fail" \in Faults /\ UaSent(FALSE))
  \/ \E i \in Ta, t \in TaTimers : TaTimer(i, t)
  \/ SIPSecTimer
  \/ Wait2xxTimer
  \/ \E b \in Ta, c \in Responses : Respond(b, c)
  \/ \E addrs \in 0..MaxTa : Resolved(addrs)
  \/ \E addrs \in 0..1 : AckResolved(addrs)
  \/ \E resolved \in BOOLEAN : ResolvingFails(resolved)
  \/ \E ok \in BOOLEAN : SIPSecAnswers(ok)
  \/ \E b \in Ta : IcmpError(b)
  \/ AppSendsAck
  \/ AppCancels
  \/ ClearTransactionOwner
  \/ DeleteMgrRuns
  \/ StoreFreesMarked

(* What completes without anybody's help: sends, timers that end           *)
(* something, resolving, SIPSec's answer and deletions.                    *)
Fairness ==
  /\ \A k \in Obj : WF_vars(\E ok \in BOOLEAN : TaSent(k, ok))
  /\ WF_vars(\E ok \in BOOLEAN : UaSent(ok))
  /\ \A i \in Ta, t \in {"B", "D", "P"} : WF_vars(TaTimer(i, t))
  /\ WF_vars(SIPSecTimer) /\ WF_vars(Wait2xxTimer)
  /\ WF_vars(\/ \E a \in 0..MaxTa : Resolved(a) \/ AckResolved(a)
             \/ \E resolved \in BOOLEAN : ResolvingFails(resolved))
  /\ WF_vars(\E ok \in BOOLEAN : SIPSecAnswers(ok))
  /\ WF_vars(DeleteMgrRuns)

Spec     == Init /\ [][Next]_vars
FairSpec == Spec /\ Fairness

-----------------------------------------------------------------------------
(* Every variable keeps its type; in particular no more branches are made  *)
(* for the INVITE than there are addresses to try.                         *)
TypeOK ==
  /\ ta \in [Ta -> [state : {"none", "Calling", "Proceeding", "Completed"},
                    over : BOOLEAN, msg : {"none", "invite", "ack"},
                    att : BOOLEAN, indep : BOOLEAN, udp : BOOLEAN]]
  /\ tm \in [Ta -> [TaTimers -> {"off", "on", "stale"}]]
  /\ tx \in [Obj -> {"idle", "ta", "ua"}]
  /\ ua \in [state : {"Resolve", "WaitResponse", "WaitAuth", "WaitEnd"}
                      \cup AckStates,
             stopped : BOOLEAN, owner : BOOLEAN, owns : BOOLEAN,
             msg : {"none", "invite", "ack"}, final : BOOLEAN,
             cur : Obj, held : Obj, n : 1..(MaxTa + 1),
             stored : Responses \cup {"none"}, canceled : BOOLEAN,
             secwait : BOOLEAN, secerr : BOOLEAN, addrs : Obj,
             results : BOOLEAN, acked : BOOLEAN]
  /\ ut \in [UaTimers -> {"off", "on", "stale"}]
  /\ st \in [id : {"none", "main", "empty"}, rx : Obj,
             branch : 0..(MaxTa + 1), ind : SUBSET Ta]
  /\ del \in [doomed : SUBSET Obj, marked : SUBSET Obj, gone : SUBSET Obj]
  /\ hist \in [ended : Nat, heard : SUBSET {"prov", "ok", "error"},
               late : BOOLEAN, cleared : BOOLEAN]

Live(i) == TaLives(i) /\ ~ta[i].over

(* However often the user agent moves to another address, a transaction    *)
(* that has not ended is either its current one, or one it has let go,     *)
(* which has nothing left to do but acknowledge an error response and      *)
(* which the store still finds.                                            *)
OneCurrent == \A i \in Ta : Live(i) =>
  \/ i = ua.cur /\ ta[i].att /\ ~ta[i].indep
  \/ /\ ta[i].indep /\ ~ta[i].att /\ i \in st.ind
     /\ ta[i].state = "Completed" /\ ta[i].msg = "ack"

(* A transaction that has not ended is sending, or a timer will end it,    *)
(* whatever left in between.  (Not when the owner took the INVITE back     *)
(* while the ACK was being sent, nor once the user agent has stopped.)     *)
LiveTaHasDeadline == \A i \in Ta :
  (/\ Live(i)
   /\ tx[IF ta[i].indep THEN i ELSE Ua] = "idle"
   /\ ta[i].indep \/ ~(ua.stopped \/ hist.cleared))
    => \E t \in {"B", "P", "D"} : tm[i][t] = "on"

(* CUserAgent::Stop: the owner is told of the end, once, unless it has     *)
(* taken its callback back.  MTransactionOwner::TransactionEnded: no       *)
(* response follows, even when a response, a timer or SIPSec finds the     *)
(* stopped user agent before it is deleted.  (Unless SIPSec had failed on  *)
(* a response of the user agent and then takes its time over a challenge:  *)
(* SIPSecCacheUpdated does not see that the user agent has stopped, and    *)
(* with iSIPSecError the challenge is passed on, not answered.)            *)
OwnerHearsTheEnd ==
  /\ hist.ended <= 1
  /\ ua.stopped /\ ~hist.cleared => hist.ended = 1
  /\ hist.late => ua.secerr

(* The owner is not given both a 2xx and an error response to one INVITE,  *)
(* whatever the servers it was sent to answer, and how often.              *)
OneOutcome == ~({"ok", "error"} \subseteq hist.heard)

(* SIPSecReady and TStopUserAgent search the store by the user agent's id  *)
(* to see whether it exists, and the owner's calls do: until it stops they *)
(* find it, though its entry is replaced each time the INVITE is sent.     *)
UserAgentIsFound == ~ua.stopped => st.id = "main"

(* Nothing is handed to CDeleteMgr, or left marked in the store, twice or  *)
(* after it was freed, and nothing of that the user agent still owns.      *)
FreedOnce ==
  LET dying == del.doomed \cup del.marked IN
  /\ del.doomed \cap del.marked = {} /\ dying \cap del.gone = {}
  /\ ({ua.cur, ua.held} \ {0}) \cap (dying \cup del.gone) = {}

(* The owner drops a response by leaving with KErrSIPInvalidDialogResponse *)
(* out of the innermost call: TRestoreUaState and TRestoreTransactionState *)
(* take every change of the calls around it back.                          *)
RefusedIsUndone == \A b \in Ta, c \in Responses :
  Routed(b) /\ TaLives(b) /\ (ToUa(b) => UaLives) =>
    \A r \in Received(b, c) : r.left = "dialog" => r.w = World

(* Once the owner has a final response no INVITE is sent, neither repeated *)
(* nor to another address; ACKs are.                                       *)
NoInviteAfterFinal == [][
  hist.heard \cap {"ok", "error"} # {} =>
    \A k \in Obj : tx'[k] = "ta" /\ tx[k] = "idle" =>
      \E i \in Ta : /\ i = IF k = Ua THEN ua'.cur ELSE k
                    /\ ta'[i].msg = "ack"]_vars

(* InviteUAC.cpp, ReceiveResponseL: "Transaction sends ACK, UAC waits it   *)
(* to end".  (It may have ended already, while the response was kept.)     *)
WaitsForATransaction == ua.state = "WaitEnd" /\ ~ua.stopped => ua.cur # 0

(* The user agent stops in the end, except where it waits for a            *)
(* transaction that has already ended (WaitsForATransaction).              *)
UserAgentStops == <>(ua.stopped \/ ~WaitsForATransaction)

(* Every transaction ends, also those the user agent has let go, and a     *)
(* stopped user agent is freed.                                            *)
EverythingEnds ==
  /\ \A i \in Ta : Live(i) ~> ~Live(i)
  /\ ua.stopped ~> Ua \in del.gone

=============================================================================
