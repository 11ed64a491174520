---------------------------- MODULE TimerPromise ----------------------------
(***************************************************************************)
(* What MTimerManager (LightWeightTimer/inc/Lwtimer.h) promises its users: *)
(* independent timers, each of which expires once, in the order they are   *)
(* due and never earlier than the precision of the clock, unless it is     *)
(* stopped first.  There is no store, no shared timer and no limit on a    *)
(* duration here.                                                          *)
(***************************************************************************)
EXTENDS Integers, Functions, TLC

CONSTANTS
  TimerIds,   \* the ids of timers
  NoId,
  Durations,
  Precision,  \* a timer may expire when less than this is left
  Overdue     \* bound: how far a lateness is counted

VARIABLES
  running,    \* the time left of each running timer
  calling     \* the timer whose TimerExpiredL runs, or NoId

Init == running = [id \in {} |-> 0] /\ calling = NoId

Start(id, duration) ==
  /\ id \notin DOMAIN running \cup {calling}
  /\ running' = (id :> duration) @@ running
  /\ UNCHANGED calling

Gone(id) == running' = Restrict(running, DOMAIN running \ {id})

Stop(id) == Gone(id) /\ UNCHANGED calling

Expire(id) ==
  /\ calling = NoId
  /\ running[id] < Precision
  /\ \A other \in DOMAIN running : running[id] <= running[other]
  /\ Gone(id)
  /\ calling' = id

Return == calling # NoId /\ calling' = NoId /\ UNCHANGED running

Pass ==
  /\ running' = [id \in DOMAIN running |->
                   IF running[id] > -Overdue THEN running[id] - 1 ELSE running[id]]
  /\ UNCHANGED calling

Next ==
  \/ \E id \in TimerIds, duration \in Durations : Start(id, duration)
  \/ \E id \in DOMAIN running : Stop(id) \/ Expire(id)
  \/ Return
  \/ Pass

Spec == Init /\ [][Next]_<<running, calling>>
=============================================================================
