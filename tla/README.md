# Verification of the SIP stack of ipappprotocols

The repository is the Symbian implementation of SIP, its clients (profile
agent, client resolver), SDP, SigComp and two RTP stacks. The verification
covers the part whose correctness depends most on the order of events: the
transaction layer of `realtimenetprots/sipfw/SIP`, its user agents, the timers
they run on, and the registrations and refreshes built on top of them. Paths
below are relative to that directory. This is a small part of the repository's
424,000 lines, most of which are RTP stacks, parsers, encoders, plugins, public
API and tests.

## The system and its parts

| Part | State it keeps | Operations | What makes it correct |
| --- | --- | --- | --- |
| `Transaction` (server and client transactions, `CTransmitter`) | the state of RFC 3261 §17, the message to repeat, queued and stored responses, timers A–K | receive, send, send completed or failed, timer expired, leave | messages in order, bounded repetition, every transaction ends, no pointer to a freed message |
| `TransactionUser` (`CTransactionUser`, `CTransactionStore`, UAC and UAS per method) | store of entries (ids, headers, user agent, transaction), one state machine per user agent | messages from the network, from the application, answers of the router, resolver and SIPSec, timers | each request and response reaches one object, the owner hears of the end once, both objects are freed once |
| `LightWeightTimer` | ordered requests, one RTimer | start, stop, expiry, leave of a callback | no timer lost, early or forgotten |
| `Common` (`CDeleteMgr`) | objects to be deleted | add, RunL | an object is deleted after the calls that use it have returned, once |
| `ConnectionMgr` | sockets, connections per access point, their state model | send, receive, connect, suspend | I/O; environment of the models |
| `Registration`, `Refreshes` | bindings with their states, the registrars they share (Call-ID, CSeq), refreshes with a timer and a transaction | register, update, unregister, terminate; responses, ended transactions, expired timers, lost flows and access points | a pending request is answered, a registered binding is refreshed or ends, the owner hears one end, nothing reports to what was freed, CSeq grows |
| `Dialogs` | dialogs, their associations, targets and CSeq numbers | requests and responses of the user agents | not modelled |
| `SIPSec`, `ServerResolver`, `RequestHandler`, `SigCompController`, `NetworkMonitor`, `SystemStateMonitor`, `NATTraversalController` | caches and outstanding requests | asynchronous services with a callback | environment of the models: may answer, fail, or (router) never answer |
| `Codec`, `sipapi`, `Client`, `Server`, `Logging` | parsed messages, ITC sessions | encode, decode, forward | data and I/O, not modelled |
| `ClientResolver`, `ProfileAgent`, `SDP`, `SigComp`, RTP stacks, plugins | their own | | not modelled, see `PROJECT.json` |

Everything in the stack runs in one thread under the active scheduler. There
is no preemption: the interleavings are those of handlers, and each handler is
one atomic step. What makes the code hard is that

* a handler can *leave* (Symbian's exception) at many points, after part of its
  effect, and who deals with the leave depends on the caller. `ConnectionMgr`
  and `CTransmitter::RunL` report it to the transaction or user agent
  (`LeaveOccurred`, `LeaveFromTransmitter`), an expiry is cut short by
  `CTimerManager::LeaveOccurred`, and the application's and the router's calls
  hand it back to a caller that does nothing for the transaction;
* sends are asynchronous and share one transmitter, so responses queue up, and
  states change between the start and the completion of a send;
* objects are owned and deleted asynchronously, while timers, transmitters and
  routers still hold pointers to them;
* the application, the router, the peer (ACK, CANCEL, retransmissions) and the
  timers race.

## The modules

### InviteServer

`InviteServer.tla` composes the server side of one INVITE:
`CInviteServerTransaction` (variable `ta`), the `CInviteUAS` that owns it
(`ua`), their timers (`timer`), the `CTransmitter` they share (`tx`), the entry
of `CTransactionStore` (`route`, `marked`), the outstanding request to the
router (`routing`), and `CDeleteMgr` (`doomed`, `gone`). `hist` records what an
observer sees: how often the owner was told of the end, the last response on
the wire, which responses a leave returned to their caller.

There is one action per handler: the first INVITE and its retransmissions, ACK
and CANCEL (to the transaction or the user agent, as the store routes them),
the router's answers, the application's responses, each completion or failure
of a send per state, each timer, and the deletions. Helpers that the handlers
share (`SendResponse`, `SendAndStore`, `Terminated`, `Stop`, ...) carry the
names of the functions they stand for. The constant `Faults` names the calls
that may leave; an action has an outcome for each point where they do.

Responses are their codes: 100, any number up to `MaxProv` of application
provisional responses (numbered to see their order), 200, and 300 for every
error. Headers, routing by To-tag, and the dialogs' own state are abstracted
away; the dialog of an ACK exists or not by choice. The owner's `ReceiveL` may
leave where the INVITE is passed on: in the router's callback (`OwnerFound`),
which `CSIPClientDiscoveryReceiver::RunError` ignores, and inside a dialog, where
the user agent stops. ICMP errors,
and the "bad transport" branch of the first request (unreachable here: the
transport was checked on reception) are left out.

`InviteServerPromise.tla` states what the peer may rely on, without queue,
objects or timers; `InviteServerRefinement.tla` maps the detailed states to it.

### InviteClient

`InviteClient.tla` composes the client side of one INVITE: the `CInviteUAC`
(`ua`, its timers `ut`), the transactions it makes one after the other
(`ta[i]`, timers `tm[i]`), the transmitters (`tx`), the entries in
`CTransactionStore` (`st`) and the deletions (`del`). It begins where
`CTransactionUser::SendL` has returned and the next hop is being resolved.

The hard part is the nesting. A response enters a transaction, which calls the
user agent, which asks SIPSec and the owner, and may detach that very
transaction and send from a new one before the first call returns. A leave may
cut this anywhere; each caller on the way out restores (`TRestoreUaState`,
`TRestoreTransactionState`), stops the user agent (`TStopUserAgent`), traps, or
lets the leave pass. So each function is an operator from a *world*, a record
of all variables, to the set of its *outcomes*: the world it leaves behind,
whether it left and why, and the Boolean it returned. `Then`, `Otherwise`,
`OnLeave` and `Trap` combine them in the order of the code. An action is one
event of the active scheduler: a send completed or failed (`TaSent`, `UaSent`),
a timer (`TaTimer`, `SIPSecTimer`, `Wait2xxTimer`), a response (`Respond`,
`CTransport::RouteL`), the resolver (`Resolved`, `AckResolved`,
`ResolvingFails`), SIPSec (`SIPSecAnswers`), an ICMP error (`IcmpError`), a
call of the application (`AppSendsAck`, `AppCancels`,
`ClearTransactionOwner`), or a deletion (`DeleteMgrRuns`,
`StoreFreesMarked`).

| In the model | In the code |
| --- | --- |
| `ua.cur`, `ua.held` | `iTransaction`, `iDeleteThisTransaction` |
| `ua.stored`, `ua.secerr`, `ua.secwait` | `iIncomingMsg`, `iSipSecError`, a SIPSec request is outstanding |
| `ua.n` | the branch of the INVITE; the transaction made with it has the same number |
| `ua.results`, `ua.addrs` | `iResolvingResults` has a URI to resolve again, addresses left |
| `ua.acked`, `ua.final` | `iObserverForFirstAck`, `iFinalRespPassed` |
| `ta[i].att`, `ta[i].indep`, `ta[i].over` | `iUserAgent` set, `RunIndependently` called, `iTerminated` |
| `tm[i][t]` = `"stale"` | the timer object of an expired timer that was not deleted |
| `st.rx` | the receiver of the main entry: transaction, or `Ua` when it has none |
| `st.ind` | the entries of transactions that run independently |
| `del.marked` | entries with `KEmptyTransactionId` |

Responses are abstracted to what the handlers tell apart: provisional, 2xx,
408/503, a challenge (401, 407, 494), any other error. Any ready active object
may run next; the real scheduler's order (all have the standard priority) is
one of these. A timer's time is left out, except that the SIPSec timer, which
has no duration, expires before the timer D of the transaction it waits for.

Left out: the objects that send ACKs to further 2xx responses
(`iAckSenders`), the fallbacks of SigComp, of the transport and to the outbound
proxy, a leave of `AddL` with the user agent on the cleanup stack,
`RemoveItemsByIapId`, and CANCEL's own user agent. `SIPSecReady` stops the user
agent also when the owner dropped the response, as in the code. When `CDeleteMgr`
refuses a user agent it is left marked in the store, and a search of the store
in the middle of one of its own calls would free it (the comment at
`UserAgent.cpp:622` is about this); the model goes on with its last values.

### NonInvite

`NonInvite.tla` composes both ends of one non-INVITE request and the network
between them, so that what one end sends is what the other receives.

| In the model | In the code |
| --- | --- |
| `c`, `ct`, `cx`, `cu` | `CNormalClientTransaction`, its timers E, F, K, its `CTransmitter`, `CNormalUAC` |
| `s`, `st`, `sx`, `su` | `CNormalServerTransaction`, its timers F2, J, Send100, its `CTransmitter`, `CNormalUAS` |
| `s.msg`, `s.queue` | `iLatestResponse` and the responses kept with it, `iSendQueue` |
| `net` | UDP: what was sent may arrive any number of times, in any order, or never; TCP: once and in order |
| `hist` | what the owners hear, what is on the wire, and whether a provisional response came early |

An action is one event of the active scheduler at one end. A send takes two:
`ClientWrites` or `ServerWrites` puts the message on the wire, `ClientSent` or
`ServerSent` is the completion that `ConnectionMgr` reports to the transmitter
later, through the active scheduler. Between them the peer may answer, and
that is the hard part. When a provisional response is received before the
request's sending is known to have completed, the client is in Proceeding when
`SendCompleteL` comes, and Proceeding's does not start timer F. TLC shows a
client that then waits for a final response without a limit; `hist.early`
marks these runs, and `ClientIsBounded` and `BothEnd` say what holds in all
others. RFC 3261 wants timer F there; no text of the repository says what the
code should do, so this is recorded as a hazard. On a reliable transport too
nothing else ends the transaction, on UDP it goes on repeating the request.

Responses are their codes, and one code stands for all final ones.
`ClientTransaction.cpp:144` says that each response is passed on only once; the
code compares with the last one only, so a sequence 101, 102, 101 passes the
101 twice. `OneAnswer` is about final responses.

Left out: SIPSec and the next address (`CUserAgentClient` is shared with
`CInviteUAC`, see InviteClient), the change of transport when a request turns
out too large for its connection, SigComp, and the checks of headers. A message
does not outlive the server transaction, 64\*T1 after the last response.

### Registration

`Registration.tla` models the `Registration` and `Refreshes` subsystems:
bindings with and without refreshing, with their six states (`bind`), the
refreshes in the store of `CSipRefreshMgr` (`refr`), the owner each transaction
reports to (`ta`) and the registrars (`regs`). A registrar is known by its
remote target; `place` is its position in the array `iRegistrars`, whose last
match `FindRegistrar` takes, and 0 for one that does not exist.
`MCRegistration.tla` gives the contacts an owner, an address of record and a
remote target.

| In the model | In the code |
| --- | --- |
| `RegisterL`, `UpdateRegistrationL`, `UnRegisterL`, `TerminateRegistration`, `ClearRegistrationOwner` | the calls of `CSIPRegistrationMgr` |
| `BindingAnswered`, `BindingTransactionEnded` | `MTransactionOwner` of a binding without refreshing |
| `RefreshAnswered`, `RefreshTransactionEnded` | `MTransactionOwner` of the refresh, through it `RefreshReceivedL` and `RefreshError` of a binding |
| `TimerExpiredL`, `RefreshTimerExpiredL` | the timers of `CSIPRegistrationBinding` and `CSipRefreshBase` |
| `EarlyProvisional`, `early` | a transaction without timer F, because its first provisional response came before the completion of its sending (see NonInvite) |
| `ChallengeAnswered` | SIPSec has the request sent again with the owner's next CSeq |
| `FlowFailure`, `URIFailed`, `ConnectionStateChangedL` | connections, outbound proxies and access points that are lost |
| `DeleteMgrRuns` | `CDeleteMgr` frees a binding that has removed itself |

A callback runs through a refresh, a binding, its state and the owner, and may
leave in any of them; as nothing else runs meanwhile it is one step. The
functions it is made of are operators from a state to a state, with `left` for
a leave, and `Become` makes the result the next state. A transaction is a
promise here: it reports one final response or an error, which is what
`NonInvite` shows of the user agent of a REGISTER, with the exception it found:
after an early provisional response nothing ends the transaction if the server
stays silent. `early` carries this exception over, until the transaction ends or
a challenge is answered in it.

Left out: outbound proxies and their sockets (but not the removal of the
bindings whose proxy fails), SIPSec's registration context, route sets, NAT
headers, contents of messages, other provisional responses (which change no
state here), refreshes of other methods (`CSipAnyRefresh`), the choice of the
interval, and `CDeleteMgr` refusing a request.

### TimerManager

`TimerManager.tla` models `CTimerManager` with `CTimerStore` and
`CSingleTimer`: the ordered requests (`iTimerStore`), the one RTimer
(`iTimer`), the id counter and `iNowExpiring`. `held` is what the users know:
the ids they were given and the real time each still has to run. Absolute home
times are replaced by the time left, which `Tick` decreases and `ClockChanges`
shifts for the store only, as `RTimer::After` does not follow the home clock.
Times are counted in abstract units; the rounding to seconds in
`TTimeToMillisec` is kept, the microseconds it drops are not. `StartL` is
guarded by the assumption that the counter does not come round (2^32 starts)
while a timer runs. `RTimer::After` is exact.

`TimerPromise.tla` is a set of independent timers, each with its own time
left. `TimerManagerRefinement.tla` maps the requests but the internal one to
it, and the id that `iTimer` keeps during a callback to the timer that is
calling.

The scenario told in the comment of `CTimerManager::TimerExpiredL`, an expired
timer that is no longer in the store, does not occur: a part of `StoreConsistent`,
because `Stop` cancels the RTimer of the request it removes.

## What the runs check

| Run | Module | What it shows |
| --- | --- | --- |
| `faults` | InviteServer | ownership, single deletion, routing, what the owner hears and the order of responses, whatever leaves |
| `udp` | InviteServerRefinement | repetition of an error response, everything ends and is freed, and the refinement, when nothing leaves |
| `timer_leave` (violation) | InviteServer | a leave of timer H's start keeps the response |
| `late_cancel` (violation) | InviteServer | CANCEL after 2xx, then ACK: the owner hears the end twice |
| `timers` | TimerManagerRefinement | types, the RTimer always runs for the first request and its whole time, independent timers that expire in order and never early (refinement), every timer expires |
| `timers_hostile` | TimerManager | with failures and clock changes: nothing lost, doubled or out of order, what is armed is in the store, a callback finds the RTimer idle |
| `client_faults` | InviteClient | one current transaction, none without an end, what the owner hears, what the store finds, what is freed, what a dropped response leaves behind |
| `client_ends` | InviteClient | the user agent, its transactions and their deletion come to an end |
| `client_wait_end` (violation) | InviteClient | the user agent may wait for a transaction that has ended |
| `registration` | MCRegistration | pending requests are answered (unless a silent server's early provisional response took their timer), registered bindings are kept or end, registrars shared, one end for the owner, no report to what was freed, CSeq grows |
| `registration_retry_end` (violation) | MCRegistration | after a 423 the binding waits for ever if the second transaction ends without a response |
| `noninvite` | NonInvite | each end is bounded by a send or a timer, one final response and one end for the owner, responses in order, both ends end |

Deadlock is checked for the timers and the registrations, which can always go
on. It is not checked for the transactions: one that has been freed, and a
server whose peer and application stay silent, have nothing more to do.

### Bounds

`MaxProv` = 2 is enough for a queue of two, so for an overtaking, and for a
provisional response that races a final one. Only one INVITE is modelled:
transactions share nothing but the store and `CDeleteMgr`, which keep them
apart. Three requests in the timer store are enough for one to be inserted
before, between and behind others and for the internal timer to sit among
them; the durations are chosen below, at and above `HwDelay`, the limit of the
RTimer and the internal timer's duration. `IdMax` makes the ids wrap within a
run. `Overdue` bounds how late a request is said to be; the order in the store
does not depend on it.

`InviteClient!MaxTa` = 2: the resolver finds no more addresses, and no more
challenges are answered, than two transactions of the INVITE need. That is
enough for an old transaction to live beside the current one and for its late
responses, timers and sends to meet every state of the user agent; a third one
would meet the same pair. When the bound is reached the resolver only fails,
and in `TypeOK` one more branch (`MaxTa + 1`) is the one a last resolution
prepares. `client_faults` has both kinds of transport, authentication and all
failures, with an owner that keeps its request (`Owns = {FALSE}`, the harder
case of `ClearTransactionOwner`); `client_ends` has an unreliable transport and
failing sends, with a request the user agent owns.

`NonInvite!MaxProv` = 2 allows a response in the transmitter, two behind it and
a final one, and a network that reorders three codes. One request suffices:
transactions share nothing. The run has 268,676 states.

`registration` has two bindings of one owner, with different addresses of
record and one registrar: each may be the last to leave the registrar, they
take turns at its CSeq, and one is freed while the other goes on. Two contacts
of one address of record never have pending requests at the same time;
`registration_retry_end` has them, to show that the second cannot register.
Each binding has its own few ids of refreshes and transactions, which are used
again when nothing mentions them: ids of different bindings are never compared.

### Fairness

`InviteServer!FairSpec` assumes weak fairness of completions of sends, running
timers and `CDeleteMgr`: an active object whose request has completed is run by
the scheduler, and the socket completes every send, if only with an error. The
peer, the router and the application are never assumed to act.
`InviteClient!FairSpec` assumes the same of its sends and of the timers that
end something, and that the resolver and SIPSec answer, if only with an error;
the retransmission timers, the servers and the application need not act.
`NonInvite!FairSpec` assumes it of the sends of both ends, of the timers F, K,
F2 and J and of `CDeleteMgr`; nothing of the network, the router, the
application, timer E or Send100. `Registration!FairSpec` assumes for each
binding that its transactions end, if only by their timers, as long as they have
them: of a transaction in `early` it assumes nothing. This is what `BothEnd` of
NonInvite shows, with the same exception. So `PendingEnds` excepts a binding that
waits for such a transaction, and TLC finds it violated without the exception.
`TimerManager!FairSpec` assumes that time passes, that a ready RTimer is
served, and that callbacks end.

## What is proved

`InviteServer_proofs.tla`, checked by TLAPS for every value of the constants
(any number of provisional responses, any set of failing calls, either
transport):

* `Safe`: `SafeInv` is an inductive invariant. It is the conjunction of
  `TypeOK`, `TransmitterOwned`, and three facts they need. `RouteInv`: as long
  as the store routes requests to the transaction it has no 2xx.
  `DeletionInv`: what the deletion manager holds has terminated or stopped,
  and what has been deleted has no timers and no send. `RetransmitInv`: the
  user agent retransmits only after the transaction ended.
* `TypeCorrect`, `TransmitterIsOwned`, `Sending2xxGetsNoRequest`: the
  properties that follow from it.

The proof has one lemma per action, over lemmas about the shared helpers
(`SendResponseFacts`, `StopSafe`, `EndingSafe`, ...). The only assumption is
`InviteServerAssumption`, which TLC evaluates in the runs.

Two modules build on `SafeInv`, each in two parts with an inductive invariant
of their own:

* `InviteServerHistory_proofs.tla`, for every set of failing calls, first
  `FreedOnceAlways`, `EndsOnceAlways` and `OwnerHearsAlways`. `FreedInv` says
  that one of the deletion manager and the store will free the user agent, never
  both, that no 2xx is freed before that, and that a terminated transaction has
  given up its own pointer to it. `Hears` and `Ends` tie what the owner heard to
  the two things that keep it from hearing more: the user agent stopped, or forgot
  its owner when a CANCEL was handled.
* Then `InOrderAlways`, in the same module.
  From the wire over the response kept to the end of the queue nothing is older
  than what precedes it (`Ordered`); none of it is newer than what the state of
  the user agent lets the application have given (`Below`, `Limit`); and a response
  waits only while the transmitter is busy (`InUse`), without which a new one could
  overtake it.
* `InviteServerPromise_proofs.tla`, for `Faults = {}`: `ErrorIsRepeatedAlways`. A
  live transaction that has been given an error response has a user agent in
  Rejected that nothing can stop (`Refuses`), because the router is no longer asked
  (`Asking`) and no ACK to a 2xx is awaited (`Awaits`): only this keeps the
  transaction from being deleted while it repeats the response. With leaves the
  property is false: timer G or H may fail to start.
* Then `PromiseIsKept`, in the same module, the
  refinement `Spec => KeepsPromise`. From the two invariants before it and
  `Chosen` (the response kept tells the state, and a 2xx was given only by a user
  agent in Accepted) every step is shown to be a step of `InviteServerPromise` or
  one the peer does not see. With leaves it is false as well: a user agent may
  enter Rejected and end at once.

`NonInvite_proofs.tla` proves `TypeCorrect`, `ClientBoundedAlways`,
`ServerBoundedAlways` and `OneAnswerAlways` for any number of provisional
responses up to 98, any set of failures and either transport, from
`NonInviteAssumption`. The inductive invariant `IInv` has four parts beside
`TypeOK`:

* `ClientInv` is `ClientIsBounded` with what its preservation needs: the object
  of timer F is never left over after an expiry, and a client in Proceeding has
  timer F unless a response came early, even while it sends;
* `ServerInv` is the same for the server: before the request arrives nothing is
  sent and no Send100 runs, and timer J's object is never left over;
* `OrderInv` carries the order of the responses from the application to the
  wire: the queue is sorted, nothing in it is older than the response kept,
  nothing on the wire is newer than that, and what the application may still
  send, or Send100 does, is not older than the last one queued;
* `HeardInv` ties what the owners heard to the state that keeps it from being
  heard again: a final response to `iFinalRespPassed` and Completed, an end to a
  user agent that has stopped. It contains `OneAnswer`.

`ServerBoundedAlways` and `ClientBoundedAlways` need their own part only;
`OneAnswerAlways` needs all.

`TimerManager_proofs.tla` proves `TypeCorrect`, `StoreConsistentAlways` and
`IdleInCallbackAlways` for any number of timers, any durations, any limit of the
RTimer, any failures and any change of the clock, from `TimerManagerAssumption`.
The inductive invariant `StoreInv` says beside the types that the store is in
the order of expiry, that only internal timers share an id, that what users hold
and what is armed is in the store, and that during a callback the RTimer is idle
and the id that calls back is no longer stored. Only the last makes `Stop`
harmless in a callback: it cancels the RTimer when the ids are equal.

`HeadIsArmedAlways` needs one assumption more, `Steady`: the internal timer can
always be set and the clock is not changed. Without it the property is false;
the hazard at `TimerManager.cpp:281` says why. The proof rests on the internal
request being due before what is too long for the RTimer, hence the new head.
The lemmas on `InsertInOrder` and `Without` count positions of a set without
gaps (`DownClosed`), since induction over the store is out of the prover's reach.

`Registration_proofs.tla` proves every invariant that the run `registration`
checks, for any number of bindings and contacts, any choice of owners, addresses
of record and remote targets, and every set of failures, from
`RegistrationAssumption`: `Types`, `RegistrarsAreShared`, `PendingHasAnswer`,
`RegisteredStaysKept`, `OwnersAreAlive`, `OwnerHearsOneEnd` and
`CSeqNumbersGrow`. They follow from `BindingsAreGood`, the inductive invariant
`IInv`. As a handler is an operator from state to state, `IInv` is a predicate
`Good` of the state `Here`:

* `RegsOK`: the registrars list the stored bindings that point to them, and exist
  as long as they list one. With as many bindings as registrar ids this leaves an
  id for a binding without registrar (`RoomForRegistrar`).
* `Sound`, for each binding: its refresh and its transactions are its own, only a
  stored one has a registrar, and the owner heard no end of it while it is stored.
  This holds in the middle of a handler too.
* `Duty`, for each binding: what it has when no handler is at work on it. A
  pending one has the transaction it waits for and no other, a registered one its
  timer or refresh, one that left the store no refresh. A handler breaks it and
  has to restore it, also where it leaves: a leave from the owner in a 2xx ends in
  `TransactionEnded`, one in an error response does not.

`Mid(s, i)` is `Good` but for the duty of binding `i`. There is one lemma for each
operator, from `Mid` to `Mid` or `Good`, and one for each action, from `Good` to
`Good`; `Touches` says once that a handler leaves all other bindings alone, and
`ForgetsGood` that the ids `Become` forgets meant nothing. `OwnerHearsOneEnd`
rests on `Duty` as well: a binding that left the store has no refresh that could
pass it one more response.

`InviteClient_proofs.tla` and `InviteClientInv_proofs.tla` prove every safety
property that the run `client_faults` checks, for any `MaxTa` (so for any
number of addresses, challenges and transactions beside each other), either
kind of transport, any owner and every set of failures, from
`InviteClientAssumption`: `Types`, `CurrentIsOne`, `LiveTaEnds`, `OwnerIsTold`,
`OutcomeIsOne`, `RunningIsFound`, `DeletedOnce`, `RefusedLeavesNoTrace` and
`OutcomeEndsInvites`. They follow from `ClientInvariant`, the inductive
invariant `IInv`, a predicate `Inv` of the world that the operators pass on:

* `Core` holds wherever a call leaves, in the middle of any handler. It says
  what the user agent may keep in which state (`Kept`, `Acks`), what its state
  tells of what the owner heard (`Heard`, `Ends`), how many branches and
  addresses are left (`Budget`, `Limit`), that a transaction not yet made has no
  trace anywhere (`Made`), that a live transaction is the current one or one
  let go and in the store (`Current`, `Attached`), whose send it is (`Sending`),
  what CDeleteMgr and the store may free (`Freeing`), and that a transaction let
  go has an ACK to repeat and timer D (`Acked`, `LetGo`).
* `Rest` holds between the events only, and not once the user agent has
  stopped: the store's receiver is the current transaction, a transaction to be
  made has a free branch, an authentication that is awaited has a transaction
  that completed or ended (`Steady`), and the current transaction has the timer
  that ends it (`CurrentEnds`). A handler breaks these; a leave in between is
  answered by restoring the state or by stopping the user agent.

There is a lemma for each operator, which says of each outcome whether it has
returned with the goal of the call, or has left with `Core` and with what its
caller will restore; the lemmas about the actions put these together. `OneOutcome`
rests on `Heard`: once the owner has the 2xx only states of the ACK are left,
once it has the error the user agent waits for the end. `RefusedLeavesNoTrace`
follows a leave from the innermost call outwards: with `KErrSIPInvalidDialogResponse`
it can come only from the owner, and whatever the calls around it changed is in
what they restore. For `OutcomeEndsInvites` it is also shown that each operator
leaves what the owner has heard (`Knows`), so that a step that starts a send ends
in a state where only an ACK can be sent.

Finding the invariant corrected the model's properties in one place.
`IgnoreResponseRetransmissionsL` puts a stopped user agent into the store again,
where `SIPSecReady` finds it; `SIPSecCacheUpdated` has no `HasStopped` check
(`UserAgentClient.cpp:168`) and `iSIPSecError` is never reset. So a user agent for
which SIPSec had failed once may pass a response on to an owner that was already
told of the end. It takes a third transaction, which the bound of `client_faults`
does not reach; `OwnerHearsTheEnd` excludes exactly this (`hist.late => ua.secerr`).

Model-checked only:

* liveness, `HeldExpires` among it (TLAPS has no liveness under fairness);
* the promise of `TimerManager`.

## Where code and text disagree

Each is shown by a run of its own, and listed with its lines in
`PROJECT.json`.

* `timer_leave`: when timer H cannot be started `SendL` leaves although the
  transaction keeps the response.
* `late_cancel`: a CANCEL after the 2xx ends the transaction for the owner,
  and the ACK brings it back for a second end.
* `client_wait_end`: an error response is kept for SIPSec or for a timer of no
  duration. If the transaction ends meanwhile (its ACK could not be sent) the
  user agent then enters `CInviteUAC_WaitTransactionToEnd` with no transaction
  and no timer. `UserAgentStops` excludes just this.
* `registration_retry_end`: a REGISTER that follows a 423 has a transaction of
  its own (`iRetryTransactionId`). When that ends without a final response,
  `CSIPRegistrationBinding::TransactionEnded` and `RefreshError` compare with
  `iTransactionId` only, so `CSIP423ResponseReceived::TransactionEnded` is never
  reached: the binding stays pending and blocks its address of record.

The models show more that has no run of its own, listed as hazards with a note:

* `StartL` of a timer may leave with the request stored; its user has no id to
  stop it with.
* The owner leaves while a kept response is passed on, the user agent of an
  INVITE stops and is removed from the store; then its transaction ends and
  `IgnoreResponseRetransmissionsL` adds it again. A late answer of SIPSec then
  finds it, and what follows is told under "What is proved".
* `TryNextAddressL` serves the INVITE and its ACK alike and updates the store's
  branch for both, so further 2xx responses no longer find the user agent.
* An early provisional response leaves a non-INVITE client without timer F, and
  with it a registration pending as long as the server is silent, which blocks
  its address of record.
* The owner leaves when the router's answer hands it the INVITE
  (`UserAgentServer.cpp:506`): nobody deals with the leave, and the user agent waits
  for a response of an owner that refused the request, with no timer; a CANCEL
  ends it.
* A flow failure tells the owner of the end of a binding that stays.

## Plan

1. (done) `InviteServer`, its promise, and the proofs of both; `TimerManager`,
   its promise and proofs; `InviteClient`, `NonInvite` and `Registration` and
   the proofs of each.
2. The CANCEL user agents, composed with `InviteClient`.
3. `CTransactionUser` and `CTransactionStore` with several user agents:
   routing of responses, CANCEL and ACK, searches that free marked entries.
4. A promise for the client side, what an owner may rely on (`InviteClient`
   without transactions, store and timers), and the refinement; then
   `Registration` over that promise.
5. `Dialogs`; the client user agents' SIPSec part for other methods.
6. Proofs: the refinement of `TimerPromise`.

## Not modelled

`PROJECT.json` lists every component. `Codec`, `sipapi`, `Client`, `Server`,
`SDP`, `SigComp` and `Logging` encode, decode and forward data; `ConnectionMgr`,
`NetworkMonitor` and the resolvers are mostly I/O, and appear as the
environment of the models. `ProfileAgent` and its alternative-line handling
were surveyed: their state machines are driven by, and mostly forward to,
services outside the repository (the connection server, the central repository,
agents that are plugins), so a model would consist of assumptions. The RTP stacks and the plugins are
independent programs.
