----------------------- MODULE TimerManagerRefinement -----------------------
(***************************************************************************)
(* CTimerManager implements TimerPromise.  The running timers are the      *)
(* requests in the store but the internal one, with the time left there;   *)
(* the timer whose callback runs is the one iTimer still has the id of.    *)
(***************************************************************************)
EXTENDS TimerManager

LeftOf(id) ==
  (CHOOSE request \in Range(iTimerStore) : request.id = id).left

Promise == INSTANCE TimerPromise WITH
  TimerIds <- UserIds,
  NoId <- KNoSuchTimer,
  Precision <- HwDelay,
  running <- [id \in Ids(iTimerStore) \ {KReservedTimer} |-> LeftOf(id)],
  calling <- IF iNowExpiring THEN iTimer.id ELSE KNoSuchTimer

\* However many timers share the one RTimer, and however long they are, each
\* behaves as a timer of its own: it expires once, not early, in the order of
\* the due times, one callback at a time, and never after it was stopped.
KeepsPromise == Promise!Spec
=============================================================================
