---------------------------- MODULE Registration ----------------------------
(***************************************************************************)
(* The Registration and Refreshes subsystems of the SIP server.            *)
(*                                                                         *)
(* A registration binding (CSIPRegistrationBinding, and with refreshing    *)
(* CSIPRegistrationRefreshBinding) sends REGISTER requests and is a state  *)
(* machine over their responses (Registration/src/csip*.cpp).  Bindings    *)
(* towards one remote target share a CSIPRegistrar, which holds Call-ID    *)
(* and CSeq and lives as long as it lists a binding.  A binding without    *)
(* refreshing owns its transaction and a timer; one with refreshing has a  *)
(* CSipRegisterRefresh do both.                                            *)
(*                                                                         *)
(* Callbacks are atomic, as they are in the server's one active scheduler. *)
(* A binding that removes itself waits in the delete manager; API calls    *)
(* delete at once.  What waits there is deleted before a timer expires     *)
(* that was started in the same callback (500 ms at least, CalculateInter- *)
(* val); a refresh that waits there has no transaction owner and only such *)
(* a timer, so it is modelled as gone.  Lack of memory for a request to    *)
(* the delete manager and the contents of headers are left out.            *)
(* Transaction users are asked for here as a promise: a transaction ends   *)
(* with one final response or an error.  A provisional response changes no *)
(* state here, but one that comes early leaves the transaction without     *)
(* timer F (module NonInvite), so nothing but the network ends it.         *)
(***************************************************************************)
EXTENDS Naturals, Integers, FiniteSets

CONSTANTS
    Contacts,      \* what CompareWithRegisterRequest tells apart
    Owner,         \* the MRegistrationOwner of a contact: Owner[c]
    Aor,           \* its To header: Aor[c]
    Target,        \* its remote target: Target[c]
    MaxBindings,   \* bound: bindings that exist at a time
    Faults         \* what may fail: subset of FaultKinds

FaultKinds == {"send", "owner", "flow", "iap", "early"}

ASSUME RegistrationAssumption ==
    /\ MaxBindings \in Nat \ {0}
    /\ DOMAIN Owner = Contacts
    /\ DOMAIN Aor = Contacts
    /\ DOMAIN Target = Contacts
    /\ Faults \subseteq FaultKinds

VARIABLES
    bind,    \* the bindings by registration id
    refr,    \* the refreshes in CSipRefreshMgr's store by refresh id
    ta,      \* the transaction owner of each TTransactionId
    regs,    \* the registrars in CSIPRegistrarStore by their id
    grows,   \* history: each REGISTER had a new, higher CSeq
    early    \* the transactions that an early response left without timer F

vars == <<bind, refr, ta, regs, grows, early>>

(***************************************************************************)
(* Registration, refresh and transaction ids come from counters; an id     *)
(* that nothing mentions any longer may stand for the next one.  Ids of    *)
(* different bindings are never compared, so each binding has its own few. *)
(***************************************************************************)
BindingIds   == 1 .. MaxBindings
RefreshIdsOf(i) == (2 * i - 1) .. (2 * i)
RefreshIds   == 1 .. (2 * MaxBindings)
TaIdsOf(i)   == (4 * i - 3) .. (4 * i)
TaIds        == 1 .. (4 * MaxBindings)
RegistrarIds == 1 .. MaxBindings

Nobody == <<"nobody", 0>>
B(i) == <<"binding", i>>
R(j) == <<"refresh", j>>

RegistrationStates == {"registering", "registered", "retrying", "updating",
           "unregistering", "unregistered"}

(***************************************************************************)
(* CSIPRegistrationBindingBase::RegisterPending.                           *)
(***************************************************************************)
Pending == {"registering", "retrying", "updating", "unregistering"}

(***************************************************************************)
(* A binding.  "stored": in iBindings.  "dying": taken out of it and given *)
(* to the delete manager.  ta, retry, refresh: iTransactionId,             *)
(* iRetryTransactionId and iRefreshId, 0 for none.  zero: the Contact's    *)
(* expires parameter is 0.  ends and flow are history: how often the owner *)
(* heard of the end, and that a flow failure was reported.                 *)
(***************************************************************************)
NoBinding ==
    [life |-> "none", st |-> "unregistered", contact |-> 0,
     refreshing |-> FALSE, reg |-> 0, ta |-> 0, retry |-> 0, refresh |-> 0,
     timer |-> FALSE, zero |-> FALSE, ends |-> 0, flow |-> FALSE]

NoRefresh == [life |-> "none", owner |-> 0, ta |-> 0, timer |-> FALSE]

(***************************************************************************)
(* Handlers are operators from state to state; left tells that the source  *)
(* function leaves.                                                        *)
(***************************************************************************)
Here == [bind |-> bind, refr |-> refr, ta |-> ta, regs |-> regs,
         grows |-> grows, left |-> FALSE]

(***************************************************************************)
(* An ended transaction's id means nothing in a binding, unless its        *)
(* refresh still has the same one.  Transactions of the ids in renewed     *)
(* start again.                                                            *)
(***************************************************************************)
Known(s, i, t) ==
    IF t = 0 \/ s.ta[t] # Nobody \/ \E j \in RefreshIdsOf(i) : s.refr[j].ta = t
    THEN t ELSE 0

Becomes(s, renewed) ==
    \E next \in {s} :
        /\ bind' = [i \in BindingIds |->
                      [next.bind[i] EXCEPT !.ta = Known(next, i, @),
                                           !.retry = Known(next, i, @)]]
        /\ refr' = next.refr
        /\ ta' = next.ta
        /\ regs' = next.regs
        /\ grows' = next.grows
        /\ early' = [t \in TaIds |->
                       early[t] /\ t \notin renewed /\ ta'[t] = ta[t]]

Become(s) == Becomes(s, {})

Stored(s) == {i \in BindingIds : s.bind[i].life = "stored"}
Least(S) == CHOOSE x \in S : \A y \in S : x <= y

-----------------------------------------------------------------------------
(* CSIPRegistrar and CSIPRegistrarStore.                                   *)

(***************************************************************************)
(* A registrar: its place in the array iRegistrars (0: it does not exist), *)
(* its remote target, registration ids, and iCSeqNumber counted from the   *)
(* last REGISTER sent with its Call-ID (a number above 1 says no more than *)
(* 1).                                                                     *)
(***************************************************************************)
NoRegistrar == [place |-> 0, target |-> "none", ids |-> {}, ahead |-> 0]

Registrars(s) == {r \in RegistrarIds : s.regs[r].place # 0}

(***************************************************************************)
(* FindRegistrar: the last one created for the remote target, or 0.        *)
(***************************************************************************)
FindRegistrar(s, target) ==
    LET at == {r \in Registrars(s) : s.regs[r].target = target}
    IN  IF at = {} THEN 0
        ELSE CHOOSE r \in at :
               \A q \in at : s.regs[q].place <= s.regs[r].place

(***************************************************************************)
(* CreateRegistrarL: Call-ID and CSeq of the response are those of the     *)
(* REGISTER that it answers.                                               *)
(***************************************************************************)
NewRegistrar(s, i) ==
    [place |-> Cardinality(Registrars(s)) + 1,
     target |-> Target[s.bind[i].contact], ids |-> {i}, ahead |-> 0]

CreateRegistrarL(s, i) ==
    LET new == Least(RegistrarIds \ Registrars(s))
    IN  [s EXCEPT !.regs[new] = NewRegistrar(s, i), !.bind[i].reg = new]

AddRegistrationIdL(s, r, i) ==
    IF r = 0 THEN s ELSE [s EXCEPT !.regs[r].ids = @ \cup {i}]

(***************************************************************************)
(* RemoveRegistrar: those without bindings go, the others move up.         *)
(***************************************************************************)
WithBindings(g) ==
    LET used == {r \in RegistrarIds : g[r].ids # {}}
        place(r) == Cardinality({q \in used : g[q].place <= g[r].place})
    IN  [r \in RegistrarIds |->
           IF r \in used THEN [g[r] EXCEPT !.place = place(r)]
           ELSE NoRegistrar]

(* Mutant: any binding takes the registrar with it. *)
MutBindingRemoved(s, r, i) ==
    IF r = 0 THEN s
    ELSE LET left == [s.regs EXCEPT ![r].ids = {}]
         IN  [s EXCEPT !.regs = WithBindings(left)]

(***************************************************************************)
(* BindingRemoved: the registrar goes with its last binding.               *)
(***************************************************************************)
BindingRemoved(s, r, i) ==
    IF r = 0 THEN s
    ELSE LET left == [s.regs EXCEPT ![r].ids = @ \ {i}]
         IN  [s EXCEPT !.regs = WithBindings(left)]

IncreaseCSeqNumber(s, r) == [s EXCEPT !.regs[r].ahead = 1]

(***************************************************************************)
(* NextCSeq and NextRefreshCSeq of a binding: the registrar's next number; *)
(* without registrar the request's own number plus one, which is new.      *)
(***************************************************************************)
NextCSeq(s, i) ==
    IF s.bind[i].reg = 0 THEN s ELSE IncreaseCSeqNumber(s, s.bind[i].reg)

(***************************************************************************)
(* A REGISTER of binding i leaves with the registrar's CSeq number.        *)
(***************************************************************************)
Numbered(s, i) ==
    LET r == s.bind[i].reg
    IN  IF r = 0 THEN s
        ELSE [s EXCEPT !.regs[r].ahead = 0,
                       !.grows = @ /\ s.regs[r].ahead > 0]

-----------------------------------------------------------------------------
(* The transaction user, as far as it is used here.                        *)

FreshTa(s, i) ==
    Least({t \in TaIdsOf(i) :
             /\ s.ta[t] = Nobody
             /\ t \notin {s.bind[i].ta, s.bind[i].retry}
             /\ \A j \in RefreshIdsOf(i) : t # s.refr[j].ta})

SentBy(s, t, owner) == [s EXCEPT !.ta[t] = owner]

(***************************************************************************)
(* ClearTransactionOwner by transaction id and by owner.                   *)
(***************************************************************************)
ClearTa(s, t) == IF t = 0 THEN s ELSE [s EXCEPT !.ta[t] = Nobody]
ClearOwner(s, owner) ==
    [s EXCEPT !.ta = [t \in TaIds |-> IF @[t] = owner THEN Nobody ELSE @[t]]]

-----------------------------------------------------------------------------
(* CSipRefreshMgr and CSipRefreshBase.                                     *)

(***************************************************************************)
(* RefreshL: a new refresh sends the request.                              *)
(***************************************************************************)
FreshRefresh(s, i) ==
    Least({j \in RefreshIdsOf(i) : s.refr[j].life = "none"})

RefreshL(s, i) ==
    LET j == FreshRefresh(s, i)
        t == FreshTa(s, i)
        sent == SentBy(s, t, R(j))
    IN  [sent EXCEPT !.refr[j] = [life |-> "stored", owner |-> i, ta |-> t,
                                  timer |-> FALSE],
                     !.bind[i].refresh = j]

(* Mutant: the refresh is not taken out of iRefreshes. *)
MutRemoveRefreshBy(s, j) ==
    [ClearOwner(s, R(j)) EXCEPT !.refr[j].life = "dying"]

(***************************************************************************)
(* RemoveRefreshBy: out of the store, no longer a transaction owner.       *)
(***************************************************************************)
RemoveRefreshBy(s, j) ==
    [ClearOwner(s, R(j)) EXCEPT !.refr[j] = NoRefresh]

FindRefresh(s, i) ==
    {j \in RefreshIds : /\ s.refr[j].life = "stored"
                        /\ s.refr[j].owner = i
                        /\ j = s.bind[i].refresh}

(***************************************************************************)
(* TerminateRefresh(iRefreshId, this), from ClearRefreshOwner.             *)
(***************************************************************************)
ClearRefreshOwner(s, i) ==
    IF FindRefresh(s, i) = {} THEN s
    ELSE RemoveRefreshBy(s, Least(FindRefresh(s, i)))

(* Mutant: the owner is cleared after the sending, by refresh. *)
MutSendUpdateRequestL(s, j) ==
    LET t == FreshTa(s, s.refr[j].owner)
    IN  ClearOwner([SentBy(s, t, R(j)) EXCEPT !.refr[j].ta = t,
                                              !.refr[j].timer = FALSE], R(j))

(***************************************************************************)
(* SendUpdateRequestL: the timer stops, the current transaction loses its  *)
(* owner, the request is sent in a new one.                                *)
(***************************************************************************)
SendUpdateRequestL(s, j) ==
    LET free == ClearTa(s, s.refr[j].ta)
        t == FreshTa(free, s.refr[j].owner)
    IN  [SentBy(free, t, R(j)) EXCEPT !.refr[j].ta = t,
                                      !.refr[j].timer = FALSE]

-----------------------------------------------------------------------------
(* CSIPRegistrationBindingBase and the delete manager.                     *)

(* Mutant: the refreshes of a deleted binding stay. *)
MutDeleteBindings(s, I) ==
    LET lost == {B(i) : i \in I}
        left == [r \in RegistrarIds |-> [s.regs[r] EXCEPT !.ids = @ \ I]]
    IN  [s EXCEPT
           !.ta = [t \in TaIds |-> IF @[t] \in lost THEN Nobody ELSE @[t]],
           !.regs = WithBindings(left),
           !.bind = [i \in BindingIds |-> IF i \in I THEN NoBinding
                                          ELSE @[i]]]

(***************************************************************************)
(* The destructors of bindings I: transactions and refreshes lose their    *)
(* owner, the registrars lose the ids.                                     *)
(***************************************************************************)
DeleteBindings(s, I) ==
    LET mine == {j \in RefreshIds : s.refr[j].owner \in I}
        lost == {B(i) : i \in I} \cup {R(j) : j \in mine}
        left == [r \in RegistrarIds |-> [s.regs[r] EXCEPT !.ids = @ \ I]]
    IN  [s EXCEPT
           !.ta = [t \in TaIds |-> IF @[t] \in lost THEN Nobody ELSE @[t]],
           !.refr = [j \in RefreshIds |-> IF j \in mine THEN NoRefresh
                                          ELSE @[j]],
           !.regs = WithBindings(left),
           !.bind = [i \in BindingIds |-> IF i \in I THEN NoBinding
                                          ELSE @[i]]]

(***************************************************************************)
(* RemoveBinding: from the store to the delete manager, away from the      *)
(* registrar.  KErrNotFound (nothing happens) when it was not in the store.*)
(***************************************************************************)
RemoveBinding(s, i) ==
    IF s.bind[i].life # "stored" THEN s
    ELSE [BindingRemoved(s, s.bind[i].reg, i)
            EXCEPT !.bind[i].life = "dying", !.bind[i].reg = 0]

(***************************************************************************)
(* The owner hears that the registration ended (PassErrorToOwner, or the   *)
(* final response that ends it).                                           *)
(***************************************************************************)
Told(s, i) == [s EXCEPT !.bind[i].ends = IF @ = 2 THEN 2 ELSE @ + 1]

SelfDetach(s, i) ==
    IF s.bind[i].refreshing THEN ClearRefreshOwner(s, i)
    ELSE ClearTa(s, s.bind[i].ta)

(* Mutant: the timer is started with the first response only. *)
MutReceived2XXResponseL(s, i) ==
    IF s.bind[i].reg = 0
    THEN [CreateRegistrarL(s, i) EXCEPT
            !.bind[i].timer = ~s.bind[i].refreshing]
    ELSE s

(***************************************************************************)
(* UpdateBindingFromResponseL and, without refreshing, StartTimerL.        *)
(***************************************************************************)
Received2XXResponseL(s, i) ==
    LET known == IF s.bind[i].reg = 0 THEN CreateRegistrarL(s, i) ELSE s
    IN  [known EXCEPT !.bind[i].timer = ~s.bind[i].refreshing]

(***************************************************************************)
(* DoRegisterL of either binding; iRetryTransactionId while retrying.      *)
(***************************************************************************)
DoRegisterL(s, i) ==
    LET t == FreshTa(s, i)
        sent == IF s.bind[i].refreshing THEN RefreshL(s, i)
                ELSE SentBy(s, t, B(i))
        numbered == Numbered(sent, i)
    IN  IF s.bind[i].st = "retrying"
        THEN [numbered EXCEPT !.bind[i].retry = t]
        ELSE [numbered EXCEPT !.bind[i].ta = t]

-----------------------------------------------------------------------------
(* The states' ReceiveL and TransactionEnded.                              *)

(***************************************************************************)
(* An acceptable 2xx, one that Check2XXResponse or ServiceRouteOk finds    *)
(* wrong, a 423 with Min-Expires, any other error response.  The owner     *)
(* leaves from the 2xx or the error; the REGISTER after the 423 cannot be  *)
(* sent.                                                                   *)
(***************************************************************************)
Responses == {"ok", "rejected", "tooBrief", "error"}
MaySucceed(fault) == IF fault \in Faults THEN BOOLEAN ELSE {TRUE}

Deliveries ==
    {d \in [response : Responses, accept : MaySucceed("owner"),
            sent : MaySucceed("send")] :
       /\ d.response = "rejected" => d.accept
       /\ d.response # "tooBrief" => d.sent}

(* Mutant: the binding is not removed. *)
MutPassError(s, i) ==
    [SelfDetach(Told(s, i), i) EXCEPT !.bind[i].st = "unregistered"]

(***************************************************************************)
(* The binding is removed and the owner told with an error code.           *)
(***************************************************************************)
PassError(s, i) ==
    [SelfDetach(Told(RemoveBinding(s, i), i), i)
       EXCEPT !.bind[i].st = "unregistered"]

(***************************************************************************)
(* The binding is removed (ReceivedErrorResponseL) and the response passed *)
(* to the owner, who may leave; the rest is then skipped.                  *)
(***************************************************************************)
PassErrorResponseL(s, i, accept) ==
    IF accept THEN PassError(s, i)
    ELSE [RemoveBinding(s, i) EXCEPT !.left = TRUE]

(***************************************************************************)
(* The 2xx that makes the binding registered.  With iRetryTransactionId    *)
(* while retrying, SelfDetach(EFalse, ETrue).                              *)
(***************************************************************************)
RegisteredL(s, i, accept) ==
    LET b == s.bind[i]
        known == Received2XXResponseL(s, i)
        detached == IF b.refreshing THEN known
                    ELSE ClearTa(known, IF b.st = "retrying" THEN b.retry
                                        ELSE b.ta)
    IN  IF accept THEN [detached EXCEPT !.bind[i].st = "registered"]
        ELSE [known EXCEPT !.left = TRUE]

(* Mutant: the CSeq number is not increased. *)
MutRetryL(s, i, sent) ==
    LET alone == [SelfDetach(s, i) EXCEPT !.bind[i].refresh = 0,
                                          !.bind[i].st = "retrying"]
    IN  IF sent THEN DoRegisterL(alone, i) ELSE [alone EXCEPT !.left = TRUE]

(***************************************************************************)
(* Received423ResponseL and CSIP423ResponseReceived::RegisterL: the old    *)
(* transaction and refresh are let go, the request is sent again.  When    *)
(* the sending leaves the state has changed already.                       *)
(***************************************************************************)
RetryL(s, i, sent) ==
    LET alone == [SelfDetach(s, i) EXCEPT !.bind[i].refresh = 0,
                                          !.bind[i].st = "retrying"]
        next == NextCSeq(alone, i)
    IN  IF sent THEN DoRegisterL(next, i) ELSE [next EXCEPT !.left = TRUE]

(***************************************************************************)
(* iCurrentState->ReceiveL with a final response.                          *)
(***************************************************************************)
StateReceiveL(s, i, d) ==
    CASE s.bind[i].st = "unregistered" -> [s EXCEPT !.left = TRUE]
      [] s.bind[i].st = "unregistering" -> PassErrorResponseL(s, i, d.accept)
      [] OTHER ->
           CASE d.response = "rejected" -> PassError(s, i)
             [] d.response = "ok" ->
                  IF s.bind[i].st = "registered"
                  THEN Received2XXResponseL(s, i)
                  ELSE RegisteredL(s, i, d.accept)
             [] d.response = "tooBrief" /\ s.bind[i].st # "retrying" ->
                  RetryL(s, i, d.sent)
             [] OTHER -> PassErrorResponseL(s, i, d.accept)

(***************************************************************************)
(* TransactionEnded with an error, the common end of both bindings: it     *)
(* tells the owner unless the binding had been removed before.             *)
(***************************************************************************)
EndedWithError(s, i) ==
    IF s.bind[i].life # "stored" THEN s
    ELSE [Told(RemoveBinding(s, i), i) EXCEPT !.bind[i].st = "unregistered"]

-----------------------------------------------------------------------------
(* CSIPRegistrationBinding: without refreshing.                            *)

(* Mutant: the wrong one of the two ids is compared. *)
MutBindingEnded(s, i, t) ==
    IF t = s.bind[i].retry THEN EndedWithError(s, i) ELSE s

(***************************************************************************)
(* CSIPRegistrationBinding::TransactionEnded knows iTransactionId only.    *)
(***************************************************************************)
BindingEnded(s, i, t) ==
    IF t = s.bind[i].ta THEN EndedWithError(s, i) ELSE s

(***************************************************************************)
(* ReceiveL of a final response.  If it leaves, the user agent stops and   *)
(* TransactionEnded comes, unless the owner was cleared.                   *)
(***************************************************************************)
BindingReceiveL(s, i, t, d) ==
    LET r == StateReceiveL(s, i, d)
    IN  IF r.left /\ r.ta[t] # Nobody
        THEN ClearTa(BindingEnded(r, i, t), t)
        ELSE r

-----------------------------------------------------------------------------
(* CSIPRegistrationRefreshBinding and its refresh.                         *)

(***************************************************************************)
(* RefreshReceivedL: while registered any transaction of the refresh is    *)
(* welcome, else it must be one the binding knows.                         *)
(***************************************************************************)
RefreshReceivedL(s, i, t, d) ==
    LET b == s.bind[i]
        mine == IF b.st = "registered" THEN [s EXCEPT !.bind[i].ta = t]
                ELSE s
    IN  IF b.st = "registered" \/ t \in {b.ta, b.retry}
        THEN StateReceiveL(mine, i, d)
        ELSE [s EXCEPT !.left = TRUE]

(***************************************************************************)
(* RefreshError: iRetryTransactionId is not looked at.                     *)
(***************************************************************************)
RefreshErrorKnown(s, i, t) == s.bind[i].st = "registered" \/ t = s.bind[i].ta

RefreshError(s, i, t) ==
    IF RefreshErrorKnown(s, i, t)
    THEN EndedWithError([s EXCEPT !.bind[i].ta = t], i)
    ELSE s

(***************************************************************************)
(* CSipRefreshBase::TransactionEnded with an error.                        *)
(***************************************************************************)
RefreshEnded(s, j, t) ==
    RemoveRefreshBy(RefreshError(s, s.refr[j].owner, t), j)

(***************************************************************************)
(* Received200ClassResponseL.  A request that expires the Contact ends the *)
(* refresh first.  Else the timer is started and the response passed on;   *)
(* if that leaves, the timer is stopped and the transaction ends.          *)
(***************************************************************************)
Received200ClassResponseL(s, j, t, d) ==
    LET i == s.refr[j].owner
        timed == [s EXCEPT !.refr[j].timer = TRUE]
        passed == RefreshReceivedL(timed, i, t, d)
    IN  IF s.bind[i].zero
        THEN RefreshReceivedL(RemoveRefreshBy(s, j), i, t, d)
        ELSE IF passed.left
             THEN RefreshEnded([passed EXCEPT !.refr[j].timer = FALSE], j, t)
             ELSE ClearTa(passed, t)

(***************************************************************************)
(* ReceivedErrorResponseL: the refresh has gone when its owner gets the    *)
(* response, so nothing more comes if that leaves.                         *)
(***************************************************************************)
ReceivedErrorResponseL(s, j, t, d) ==
    RefreshReceivedL(RemoveRefreshBy(s, j), s.refr[j].owner, t, d)

-----------------------------------------------------------------------------
(* The API: CSIPRegistrationMgr.                                           *)

(***************************************************************************)
(* RegisterPendingToAOR and FindBinding by owner, To, From and Contact.    *)
(***************************************************************************)
MayRegister(s, c) ==
    \A i \in Stored(s) :
        /\ s.bind[i].contact # c
        /\ Aor[s.bind[i].contact] = Aor[c] => s.bind[i].st \notin Pending

(***************************************************************************)
(* ConstructL: a new binding joins the registrar of its remote target,     *)
(* whose next CSeq CSIPRegistering::RegisterL takes.                       *)
(***************************************************************************)
Constructed(s, i, c, refreshing) ==
    LET r == FindRegistrar(s, Target[c])
        new == [s EXCEPT !.bind[i] =
                  [NoBinding EXCEPT !.life = "stored", !.st = "registering",
                     !.contact = c, !.refreshing = refreshing, !.reg = r]]
    IN  NextCSeq(AddRegistrationIdL(new, r, i), i)

(***************************************************************************)
(* RegisterL.  If the sending leaves, the clean-up item detaches the       *)
(* binding from the store and the binding is deleted.                      *)
(***************************************************************************)
RegisterL(c, refreshing) ==
    LET free == {i \in BindingIds : bind[i].life = "none"}
        i == Least(free)
        new == Constructed(Here, i, c, refreshing)
    IN  /\ MayRegister(Here, c)
        /\ free # {}
        /\ \E sent \in MaySucceed("send") :
             Become(IF sent THEN DoRegisterL(new, i)
                    ELSE DeleteBindings(new, {i}))

(***************************************************************************)
(* DoUpdateL and DoUnregisterL: a new transaction takes iTransactionId; no *)
(* timer runs while it is pending.                                         *)
(***************************************************************************)
SendAgainL(s, i) ==
    LET t == FreshTa(s, i)
        j == Least(FindRefresh(s, i))
        sent == IF s.bind[i].refreshing
                THEN LET u == SendUpdateRequestL(s, j)
                     IN  [u EXCEPT !.bind[i].ta = u.refr[j].ta]
                ELSE [SentBy(s, t, B(i)) EXCEPT !.bind[i].ta = t,
                                                !.bind[i].timer = FALSE]
    IN  Numbered(sent, i)

(***************************************************************************)
(* What CSIPRegistered::UpdateL and UnregisterL need; any other state, a   *)
(* missing refresh or a failing send leaves, and then the clean-up stack   *)
(* detaches and deletes the binding.                                       *)
(***************************************************************************)
MaySendAgain(i) ==
    /\ bind[i].st = "registered"
    /\ bind[i].refreshing => FindRefresh(Here, i) # {}

UpdateRegistrationL(i) ==
    /\ i \in Stored(Here)
    /\ \E sent \in MaySucceed("send") :
         LET next == [NextCSeq(Here, i) EXCEPT !.bind[i].st = "updating"]
         IN  Become(IF MaySendAgain(i) /\ sent THEN SendAgainL(next, i)
                    ELSE DeleteBindings(next, {i}))

UnRegisterL(i) ==
    /\ i \in Stored(Here)
    /\ \E sent \in MaySucceed("send") :
         LET next == [NextCSeq(Here, i)
                        EXCEPT !.bind[i].st = "unregistering",
                               !.bind[i].zero = TRUE]
         IN  Become(IF MaySendAgain(i) /\ sent THEN SendAgainL(next, i)
                    ELSE DeleteBindings(next, {i}))

TerminateRegistration(i) ==
    /\ i \in Stored(Here)
    /\ Become(DeleteBindings(Here, {i}))

ClearRegistrationOwner(o) ==
    LET his == {i \in Stored(Here) : Owner[bind[i].contact] = o}
    IN  /\ his # {}
        /\ Become(DeleteBindings(Here, his))

-----------------------------------------------------------------------------
(* Callbacks.                                                              *)

(***************************************************************************)
(* A final response for the binding's own transaction.  A binding that is  *)
(* in the delete manager has had its final response.                       *)
(***************************************************************************)
BindingAnswered(t) ==
    \E i \in Stored(Here) :
        /\ ta[t] = B(i)
        /\ \E d \in Deliveries : Become(BindingReceiveL(Here, i, t, d))

(***************************************************************************)
(* The transaction of a binding ends, by a timer or the transport, or      *)
(* because its response went to the binding just before.                   *)
(***************************************************************************)
BindingTransactionEnded(t) ==
    \E i \in BindingIds :
        /\ ta[t] = B(i)
        /\ Become(ClearTa(BindingEnded(Here, i, t), t))

RefreshAnswered(t) ==
    \E j \in RefreshIds :
        /\ ta[t] = R(j)
        /\ \E d \in Deliveries :
             Become(IF d.response \in {"ok", "rejected"}
                    THEN Received200ClassResponseL(Here, j, t, d)
                    ELSE ReceivedErrorResponseL(Here, j, t, d))

(***************************************************************************)
(* The transaction of a refresh ends; also its 2xx that expires at once.   *)
(***************************************************************************)
RefreshTransactionEnded(t) ==
    \E j \in RefreshIds :
        /\ ta[t] = R(j)
        /\ Become(RefreshEnded(Here, j, t))

(***************************************************************************)
(* SIPSec has credentials for a challenge: the user agent sends the same   *)
(* REGISTER again in its transaction, with the owner's next CSeq.          *)
(***************************************************************************)
ChallengeAnswered(t) ==
    \E i \in Stored(Here) :
        /\ \/ ta[t] = B(i)
           \/ \E j \in RefreshIds : ta[t] = R(j) /\ refr[j].owner = i
        /\ Becomes(Numbered(NextCSeq(Here, i), i), {t})

(***************************************************************************)
(* The first provisional response comes before ConnectionMgr has reported  *)
(* the completion of the sending: CNormalClientTa_Proceeding::SendComplete *)
(* does not start timer F.                                                 *)
(***************************************************************************)
EarlyProvisional(t) ==
    /\ "early" \in Faults
    /\ ta[t] # Nobody
    /\ early' = [early EXCEPT ![t] = TRUE]
    /\ UNCHANGED <<bind, refr, ta, regs, grows>>

(***************************************************************************)
(* The end of a registration that is not refreshed, unless a request is    *)
(* pending.                                                                *)
(***************************************************************************)
TimerExpiredL(i) ==
    LET s == [Here EXCEPT !.bind[i].timer = FALSE]
    IN  /\ i \in Stored(Here)
        /\ bind[i].timer
        /\ Become(IF bind[i].st \in Pending THEN s
                  ELSE RemoveBinding(ClearTa(s, bind[i].ta), i))

(***************************************************************************)
(* CSipRefreshBase::TimerExpiredL: the REGISTER is sent once more.  If it  *)
(* cannot be sent the owner hears of it and the refresh goes; if the owner *)
(* does not know the transaction, the function leaves and the refresh      *)
(* stays, without a timer.                                                 *)
(***************************************************************************)
RefreshTimerExpiredL(j) ==
    LET i == refr[j].owner
        s == NextCSeq([Here EXCEPT !.refr[j].timer = FALSE], i)
        t == FreshTa(s, i)
        old == refr[j].ta
    IN  /\ refr[j].timer
        /\ \E sent \in MaySucceed("send") :
             Become(
               IF sent
               THEN Numbered([SentBy(s, t, R(j)) EXCEPT !.refr[j].ta = t], i)
               ELSE IF RefreshErrorKnown(s, i, old)
                    THEN RemoveRefreshBy(RefreshError(s, i, old), j)
                    ELSE s)

(***************************************************************************)
(* FlowFailure: the owner is told, but the binding stays in the store.     *)
(***************************************************************************)
FlowFailure(i) ==
    /\ "flow" \in Faults
    /\ i \in Stored(Here)
    /\ bind[i].st # "unregistered"
    /\ Become([Told(Here, i) EXCEPT !.bind[i].st = "unregistered",
                                    !.bind[i].flow = TRUE])

(***************************************************************************)
(* URIFailed: the outbound proxy of the bindings in I does not respond.    *)
(* Those without a pending request are taken out, told and deleted.        *)
(***************************************************************************)
URIFailed(I) ==
    /\ "iap" \in Faults
    /\ I # {}
    /\ \A i \in I : i \in Stored(Here) /\ bind[i].st \notin Pending
    /\ Become(DeleteBindings(Here, I))

(***************************************************************************)
(* ConnectionStateChangedL of both subsystems: the access point is gone,   *)
(* with every refresh and binding that uses it.                            *)
(***************************************************************************)
ConnectionStateChangedL ==
    /\ "iap" \in Faults
    /\ Stored(Here) # {}
    /\ Become(DeleteBindings(Here, Stored(Here)))

(***************************************************************************)
(* The delete manager frees a binding.                                     *)
(***************************************************************************)
DeleteMgrRuns(i) ==
    /\ bind[i].life = "dying"
    /\ Become(DeleteBindings(Here, {i}))

-----------------------------------------------------------------------------

Init ==
    /\ bind = [i \in BindingIds |-> NoBinding]
    /\ refr = [j \in RefreshIds |-> NoRefresh]
    /\ ta = [t \in TaIds |-> Nobody]
    /\ regs = [r \in RegistrarIds |-> NoRegistrar]
    /\ grows = TRUE
    /\ early = [t \in TaIds |-> FALSE]

Api ==
    \/ \E c \in Contacts, refreshing \in BOOLEAN : RegisterL(c, refreshing)
    \/ \E i \in BindingIds : \/ UpdateRegistrationL(i)
                             \/ UnRegisterL(i)
                             \/ TerminateRegistration(i)
    \/ \E c \in Contacts : ClearRegistrationOwner(Owner[c])

(***************************************************************************)
(* A transaction of the transaction user comes to its end.                 *)
(***************************************************************************)
Outcome(t) ==
    \/ BindingAnswered(t)
    \/ BindingTransactionEnded(t)
    \/ RefreshAnswered(t)
    \/ RefreshTransactionEnded(t)

Network ==
    \/ \E t \in TaIds :
         Outcome(t) \/ ChallengeAnswered(t) \/ EarlyProvisional(t)
    \/ \E i \in BindingIds : TimerExpiredL(i) \/ FlowFailure(i)
    \/ \E j \in RefreshIds : RefreshTimerExpiredL(j)
    \/ \E I \in SUBSET BindingIds : URIFailed(I)
    \/ ConnectionStateChangedL
    \/ \E i \in BindingIds : DeleteMgrRuns(i)

Next == Api \/ Network

Spec == Init /\ [][Next]_vars

(***************************************************************************)
(* A transaction that gets no final response is ended by its timers, if it *)
(* has them.  Nothing is assumed of servers, applications, this            *)
(* subsystem's timers and failures.                                        *)
(***************************************************************************)
TransactionsEnd(i) ==
    \E t \in TaIdsOf(i) :
        /\ ~early[t]
        /\ BindingTransactionEnded(t) \/ RefreshTransactionEnded(t)

Fairness == \A i \in BindingIds : WF_vars(TransactionsEnd(i))

FairSpec == Spec /\ Fairness

-----------------------------------------------------------------------------
(* Properties.                                                             *)

(***************************************************************************)
(* The types of the variables.                                             *)
(***************************************************************************)
TypeOK ==
    /\ bind \in [BindingIds ->
                   {NoBinding} \cup
                   [life : {"stored", "dying"}, st : RegistrationStates,
                    contact : Contacts, refreshing : BOOLEAN,
                    reg : RegistrarIds \cup {0}, ta : TaIds \cup {0},
                    retry : TaIds \cup {0}, refresh : RefreshIds \cup {0},
                    timer : BOOLEAN, zero : BOOLEAN, ends : 0 .. 2,
                    flow : BOOLEAN]]
    /\ refr \in [RefreshIds ->
                   [life : {"none", "stored"}, owner : BindingIds \cup {0},
                    ta : TaIds \cup {0}, timer : BOOLEAN]]
    /\ ta \in [TaIds -> {Nobody} \cup {B(i) : i \in BindingIds}
                                 \cup {R(j) : j \in RefreshIds}]
    /\ regs \in [RegistrarIds ->
                   {NoRegistrar} \cup
                   [place : RegistrarIds,
                    target : {Target[c] : c \in Contacts},
                    ids : SUBSET BindingIds, ahead : 0 .. 1]]
    /\ grows \in BOOLEAN
    /\ early \in [TaIds -> BOOLEAN]

(***************************************************************************)
(* Bindings share a registrar and each may be the last one: whoever points *)
(* to a registrar is listed by it, so that it is not deleted under him,    *)
(* whoever is listed exists, and a registrar without bindings is gone.     *)
(* A registered binding has one, which UpdateL and UnregisterL rely on.    *)
(***************************************************************************)
RegistrarIsShared ==
    /\ \A i \in Stored(Here) : bind[i].reg # 0 =>
         /\ bind[i].reg \in Registrars(Here)
         /\ i \in regs[bind[i].reg].ids
    /\ \A r \in Registrars(Here) :
         /\ regs[r].ids # {}
         /\ \A i \in regs[r].ids : i \in Stored(Here) /\ bind[i].reg = r
    /\ \A i \in Stored(Here) :
         bind[i].st \in {"registered", "updating", "unregistering"} =>
            bind[i].reg # 0

(***************************************************************************)
(* A binding that waits for a response (other than to a retry, see         *)
(* RetryIsAnswered) gets one: the transaction it waits for lives and will  *)
(* report to it, or to its refresh.                                        *)
(***************************************************************************)
Awaits(i, t) ==
    /\ t # 0
    /\ \/ ta[t] = B(i) /\ ~bind[i].refreshing
       \/ \E j \in RefreshIds :
            /\ ta[t] = R(j)
            /\ refr[j] = [life |-> "stored", owner |-> i, ta |-> t,
                          timer |-> FALSE]
            /\ bind[i].refresh = j

PendingIsAnswered ==
    \A i \in Stored(Here) :
        bind[i].st \in {"registering", "updating", "unregistering"} =>
            Awaits(i, bind[i].ta)

(***************************************************************************)
(* A registered binding does not stay for ever: its timer runs, or its     *)
(* refresh has a timer or a REGISTER under way.                            *)
(***************************************************************************)
RegisteredIsKept ==
    \A i \in Stored(Here) :
        bind[i].st = "registered" =>
            \/ bind[i].timer
            \/ \E j \in RefreshIds :
                 /\ refr[j].life = "stored" /\ refr[j].owner = i
                 /\ bind[i].refresh = j
                 /\ refr[j].timer \/ ta[refr[j].ta] = R(j)

(***************************************************************************)
(* No transaction reports to a binding or refresh that was freed, and no   *)
(* refresh to a binding that was freed.                                    *)
(***************************************************************************)
NoDeadOwner ==
    /\ \A t \in TaIds, i \in BindingIds :
         ta[t] = B(i) => bind[i].life # "none"
    /\ \A t \in TaIds, j \in RefreshIds :
         ta[t] = R(j) => refr[j].life # "none"
    /\ \A j \in RefreshIds :
         refr[j].life # "none" => bind[refr[j].owner].life = "stored"

(***************************************************************************)
(* Responses, errors, timers and leaves end a registration in many ways,   *)
(* and a removed binding still gets callbacks: without a flow failure the  *)
(* owner hears at most once of the end, and then the binding has been      *)
(* removed, as MRegistrationOwner.h says.                                  *)
(***************************************************************************)
OneEnd ==
    \A i \in BindingIds :
        ~bind[i].flow =>
            /\ bind[i].ends <= 1
            /\ bind[i].ends = 1 => bind[i].life = "dying"

(***************************************************************************)
(* Several bindings, their refreshes, retries after 423 and answered       *)
(* challenges take CSeq numbers from one registrar: the REGISTERs with one *)
(* Call-ID leave with growing numbers.                                     *)
(***************************************************************************)
CSeqGrows == grows

(***************************************************************************)
(* A registration, update or deregistration does not stay pending for      *)
(* ever, which would block the address of record (RegisterPendingToAOR),   *)
(* unless an early provisional response took timer F from its transaction: *)
(* then a silent server keeps it pending.  A retry may stay too, see       *)
(* RetryIsAnswered.                                                        *)
(***************************************************************************)
IsPending(i) ==
    /\ bind[i].life = "stored"
    /\ bind[i].st \in {"registering", "updating", "unregistering"}

Unbounded(i) == bind[i].ta # 0 /\ early[bind[i].ta]

PendingEnds ==
    \A i \in BindingIds : IsPending(i) ~> ~IsPending(i) \/ Unbounded(i)

(***************************************************************************)
(* CSIP423ResponseReceived::TransactionEnded passes the error to the owner *)
(* (its comment), so a retrying binding should still have a transaction    *)
(* that will report.  It does not: the end of the retry's transaction is   *)
(* refused by its id.                                                      *)
(***************************************************************************)
RetryIsAnswered ==
    \A i \in Stored(Here) :
        bind[i].st = "retrying" => Awaits(i, bind[i].retry)

=============================================================================
