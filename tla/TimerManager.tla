---------------------------- MODULE TimerManager ----------------------------
(***************************************************************************)
(* The lightweight timers (LightWeightTimer/src): any number of timers of  *)
(* the stack multiplexed on one RTimer.                                    *)
(*                                                                         *)
(* CTimerManager keeps the requests in iTimerStore, ordered by the moment  *)
(* they are due, and keeps iTimer, the only real timer, armed for the      *)
(* first of them.  A duration the RTimer cannot hold is reached through a  *)
(* chain of internal timers with the reserved id.  The users start and     *)
(* stop timers at any time, inside a TimerExpiredL callback too, and the   *)
(* callback may leave.                                                     *)
(*                                                                         *)
(* Time is counted in units of which a second has Sec.  The store holds    *)
(* absolute home times in the code; here each request holds how long it    *)
(* still is, by the home clock, until it is due.  Tick lets a unit of time *)
(* pass, ClockChanges moves the home clock alone, as the user of the phone *)
(* or a change of time zone does.                                          *)
(***************************************************************************)
EXTENDS Integers, SequencesExt

CONSTANTS
  Sec,            \* units of time in a second
  MaxAfter,       \* KMaxTimerAfterDuration, the longest RTimer::After
  InternalAfter,  \* KInternalTimerDuration
  HwDelay,        \* KTargetHwDelay: a shorter delay expires at once
  Durations,      \* the durations the users ask for
  MaxTimers,      \* bound: requests in the store when a user starts one
  IdMax,          \* the largest TTimerId: 2^32 - 1 in the code
  Overdue,        \* bound: how far a lateness is counted
  Shifts,         \* by how much the home clock may be moved, {} if never
  Faults          \* what may fail for lack of memory: "add", "internal"

ASSUME TimerManagerAssumption ==
  /\ Sec \in Nat \ {0} /\ HwDelay \in Nat \ {0}
  /\ MaxAfter \in Nat /\ InternalAfter \in Nat
  /\ HwDelay <= InternalAfter
  /\ InternalAfter \div Sec + 1 <= MaxAfter \div Sec
  /\ Durations \subseteq Nat /\ Shifts \subseteq Nat
  /\ MaxTimers \in Nat /\ IdMax \in Nat /\ IdMax > 2 /\ Overdue \in Nat \ {0}
  /\ Faults \subseteq {"add", "internal"}

VARIABLES
  iTimerStore,      \* the requests, the first due first
  iTimer,           \* the RTimer: is it active, for which id, for how long
  iTimerIdCounter,
  iNowExpiring,     \* inside the TimerExpiredL of a user
  held              \* the ids users have and the real time each has to run

vars == <<iTimerStore, iTimer, iTimerIdCounter, iNowExpiring, held>>

KNoSuchTimer == 0
KReservedTimer == 1
UserIds == 2..IdMax

Positive(n) == IF n < 0 THEN 0 ELSE n
Later(n) == IF n > -Overdue THEN n - 1 ELSE n
-----------------------------------------------------------------------------
(* CTimerStore and CSingleTimer.  A definition named Mut... is the one      *)
(* after it with a seeded bug; no specification uses it.                    *)

\* AddL: a request goes behind those that are due at the same moment.
InsertInOrder(store, request) ==
  LET before == {i \in DOMAIN store : store[i].left <= request.left}
  IN  InsertAt(store, Cardinality(before) + 1, request)

Ids(store) == {store[i].id : i \in DOMAIN store}

MutWithout(store, id) == Tail(store)

\* SearchById and Remove
Without(store, id) ==
  LET i == CHOOSE i \in DOMAIN store :
             /\ store[i].id = id
             /\ \A j \in DOMAIN store : store[j].id = id => i <= j
  IN  RemoveAt(store, i)

MutSetAfter(delay, id) ==
  [active |-> TRUE, id |-> id, left |-> IF delay < HwDelay + 2 THEN 0 ELSE delay]

SetAfter(delay, id) ==
  [active |-> TRUE, id |-> id, left |-> IF delay < HwDelay THEN 0 ELSE delay]

NotActive(timer) == [timer EXCEPT !.active = FALSE, !.left = 0]

Canceled(timer) ==
  IF timer.active THEN [NotActive(timer) EXCEPT !.id = KNoSuchTimer] ELSE timer
-----------------------------------------------------------------------------
(* CTimerManager, the parts that set iTimer.  An outcome is the store, the  *)
(* timer and whether the function leaves.                                   *)

Outcome(store, timer, leaves) ==
  [store |-> store, timer |-> timer, leaves |-> leaves]

MutNewTimerId == (iTimerIdCounter + 1) % (IdMax + 1)

NewTimerId ==
  IF iTimerIdCounter + 1 > IdMax THEN KReservedTimer + 1 ELSE iTimerIdCounter + 1

SetInternalTimerL(store, timer) ==
  {Outcome(InsertInOrder(store, [id |-> KReservedTimer, left |-> InternalAfter]),
           SetAfter(InternalAfter, KReservedTimer), FALSE)}
  \cup (IF "internal" \in Faults THEN {Outcome(store, timer, TRUE)} ELSE {})

\* TTimeToMillisec refuses what RTimer::After may not hold, counting the
\* started second as a whole one.
TooLong(left) == left \div Sec + 1 > MaxAfter \div Sec

MutSetTimerWithShortestValueL(store, timer) == {Outcome(store, timer, FALSE)}

SetTimerWithShortestValueL(store, timer) ==
  IF timer.active THEN {Outcome(store, timer, TRUE)}
  ELSE IF store = <<>> THEN {Outcome(store, timer, FALSE)}
  ELSE IF TooLong(Head(store).left) THEN SetInternalTimerL(store, timer)
  ELSE {Outcome(store, SetAfter(Positive(Head(store).left), Head(store).id), FALSE)}

MutCheckIsNewTimerShortestL(store, id, ms) ==
  IF iTimer.active THEN {Outcome(store, iTimer, FALSE)}
  ELSE IF ms <= MaxAfter THEN {Outcome(store, SetAfter(ms, id), FALSE)}
  ELSE SetInternalTimerL(store, iTimer)

CheckIsNewTimerShortestL(store, id, ms) ==
  IF Head(store).id # id THEN {Outcome(store, iTimer, FALSE)}
  ELSE IF ms <= MaxAfter THEN {Outcome(store, SetAfter(ms, id), FALSE)}
  ELSE SetInternalTimerL(store, Canceled(iTimer))

MutStarted(store, id, ms) == CheckIsNewTimerShortestL(store, id, ms)

\* Inside a callback iTimer is left alone: the end of the callback sets it.
Started(store, id, ms) ==
  IF iNowExpiring THEN {Outcome(store, iTimer, FALSE)}
  ELSE CheckIsNewTimerShortestL(store, id, ms)
-----------------------------------------------------------------------------
Init ==
  /\ iTimerStore = <<>>
  /\ iTimer = [active |-> FALSE, id |-> KNoSuchTimer, left |-> 0]
  /\ iTimerIdCounter = KReservedTimer
  /\ iNowExpiring = FALSE
  /\ held = [id \in {} |-> 0]

Becomes(outcome) ==
  /\ iTimerStore' = outcome.store
  /\ iTimer' = outcome.timer

\* The ids wrap after 2^32 starts.  That no timer runs that long is assumed.
StartL(ms) ==
  LET id == NewTimerId
      store == InsertInOrder(iTimerStore, [id |-> id, left |-> ms])
  IN  /\ Len(iTimerStore) < MaxTimers
      /\ id \notin Ids(iTimerStore) \cup {iTimer.id}
      /\ iTimerIdCounter' = id
      /\ \/ /\ "add" \in Faults
            /\ UNCHANGED <<iTimerStore, iTimer, held>>
         \/ \E outcome \in Started(store, id, ms) :
              /\ Becomes(outcome)
              /\ held' = IF outcome.leaves THEN held
                         ELSE [x \in DOMAIN held \cup {id} |->
                                 IF x = id THEN ms ELSE held[x]]
      /\ UNCHANGED iNowExpiring

\* A failure to set the timer for the next request is caught and returned.
Stop(id) ==
  /\ id \in Ids(iTimerStore)
  /\ LET store == Without(iTimerStore, id)
     IN  IF id = iTimer.id
         THEN \E outcome \in SetTimerWithShortestValueL(store, Canceled(iTimer)) :
                Becomes(outcome)
         ELSE Becomes(Outcome(store, iTimer, FALSE))
  /\ held' = Restrict(held, DOMAIN held \ {id})
  /\ UNCHANGED <<iTimerIdCounter, iNowExpiring>>

\* CSingleTimer::RunL and TimerExpiredL, up to the callback.  Without one the
\* next request is set at once; should that leave, RunError has LeaveOccurred
\* try it again.
TimerExpiredL ==
  /\ iTimer.active /\ iTimer.left = 0
  /\ IF iTimer.id \in Ids(iTimerStore) /\ iTimer.id # KReservedTimer
     THEN /\ Becomes(Outcome(Without(iTimerStore, iTimer.id), NotActive(iTimer), FALSE))
          /\ iNowExpiring' = TRUE
          /\ held' = Restrict(held, DOMAIN held \ {iTimer.id})
     ELSE /\ LET store == IF iTimer.id \in Ids(iTimerStore)
                          THEN Without(iTimerStore, iTimer.id) ELSE iTimerStore
             IN \E outcome \in SetTimerWithShortestValueL(store, NotActive(iTimer)) :
                  Becomes(outcome)
          /\ UNCHANGED <<iNowExpiring, held>>
  /\ UNCHANGED iTimerIdCounter

\* The callback returns to TimerExpiredL, or leaves through it to RunError and
\* LeaveOccurred: both clear the flag and set the next request.
CallbackEnds ==
  /\ iNowExpiring
  /\ iNowExpiring' = FALSE
  /\ \E outcome \in SetTimerWithShortestValueL(iTimerStore, iTimer) : Becomes(outcome)
  /\ UNCHANGED <<iTimerIdCounter, held>>

Tick ==
  /\ iTimerStore' = [i \in DOMAIN iTimerStore |->
                       [iTimerStore[i] EXCEPT !.left = Later(@)]]
  /\ iTimer' = [iTimer EXCEPT !.left = Positive(@ - 1)]
  /\ held' = [id \in DOMAIN held |-> Later(held[id])]
  /\ UNCHANGED <<iTimerIdCounter, iNowExpiring>>

\* Bound: no request gets further away than the longest duration.
ClockChanges(shift) ==
  /\ \A i \in DOMAIN iTimerStore :
       \E d \in Durations : iTimerStore[i].left - shift \in -Overdue..d
  /\ iTimerStore' = [i \in DOMAIN iTimerStore |->
                       [iTimerStore[i] EXCEPT !.left = @ - shift]]
  /\ UNCHANGED <<iTimer, iTimerIdCounter, iNowExpiring, held>>

Next ==
  \/ \E ms \in Durations : StartL(ms)
  \/ \E id \in DOMAIN held : Stop(id)
  \/ TimerExpiredL
  \/ CallbackEnds
  \/ Tick
  \/ \E shift \in Shifts : ClockChanges(shift) \/ ClockChanges(-shift)

Spec == Init /\ [][Next]_vars

\* Time passes, the active scheduler runs an object that is ready, and a
\* callback ends.
FairSpec == Spec /\ WF_vars(Tick) /\ WF_vars(TimerExpiredL) /\ WF_vars(CallbackEnds)
-----------------------------------------------------------------------------
(* What holds whatever fails and however the home clock is moved            *)

\* Requests and timer are well formed; an id is in use once, and is never
\* one of the two values the users must not see.
TypeOK ==
  /\ iTimerStore \in Seq([id : UserIds \cup {KReservedTimer}, left : Int])
  /\ iTimer \in [active : BOOLEAN, left : Nat,
                 id : UserIds \cup {KReservedTimer, KNoSuchTimer}]
  /\ iTimerIdCounter \in UserIds \cup {KReservedTimer}
  /\ iNowExpiring \in BOOLEAN
  /\ held \in [DOMAIN held -> Int] /\ DOMAIN held \subseteq UserIds

\* Whatever is inserted in the middle, removed, left, or shifted by the clock:
\* a timer a user has started and neither stopped nor been told of is in the
\* store, once; the request iTimer is armed for is there too, so that stopping
\* it takes the timer with it and TimerExpiredL always finds what expired; and
\* the head of the store is the next to expire.
StoreConsistent ==
  /\ \A id \in DOMAIN held :
       Cardinality({i \in DOMAIN iTimerStore : iTimerStore[i].id = id}) = 1
  /\ iTimer.active => iTimer.id \in Ids(iTimerStore)
  /\ \A i, j \in DOMAIN iTimerStore :
       i < j => iTimerStore[i].left <= iTimerStore[j].left

\* While a callback runs iTimer is idle: the assertion at the beginning of
\* SetTimerWithShortestValueL, which leaves, can never be what ends it.
IdleInCallback == iNowExpiring => ~iTimer.active
-----------------------------------------------------------------------------
(* What holds while setting the internal timer does not fail and the home   *)
(* clock is left alone                                                      *)

\* Outside a callback iTimer runs exactly when there are requests, for the
\* first of them, and never fires later than that is due: none waits without
\* the timer running, whatever was stopped, started in a callback, or left.
HeadIsArmed ==
  /\ ~iNowExpiring => /\ iTimer.active <=> iTimerStore # <<>>
                      /\ iTimer.active => iTimer.id = Head(iTimerStore).id
  /\ iTimer.active => iTimer.left <= Positive(Head(iTimerStore).left)

\* Every timer expires if it is not stopped.
HeldExpires ==
  \A id \in UserIds : (id \in DOMAIN held) ~> (id \notin DOMAIN held)
=============================================================================
