------------------------ MODULE InviteClient_proofs ------------------------
(***************************************************************************)
(* Theorems about the client side of an INVITE, for every number of        *)
(* transactions and every set of faults.  The invariant is stated of a     *)
(* world w, so that it can be followed through the nested calls: Core      *)
(* holds wherever a call leaves, and Rest, which a stopped user agent is   *)
(* free of, between the events.                                            *)
(***************************************************************************)
EXTENDS InviteClient, TLAPS

TaType == [state : {"none", "Calling", "Proceeding", "Completed"},
           over : BOOLEAN, msg : {"none", "invite", "ack"},
           att : BOOLEAN, indep : BOOLEAN, udp : BOOLEAN]
TimerType == {"off", "on", "stale"}
UaType == [state : {"Resolve", "WaitResponse", "WaitAuth", "WaitEnd"}
                    \cup AckStates,
           stopped : BOOLEAN, owner : BOOLEAN, owns : BOOLEAN,
           msg : {"none", "invite", "ack"}, final : BOOLEAN,
           cur : Obj, held : Obj, n : Nat \ {0},
           stored : Responses \cup {"none"}, canceled : BOOLEAN,
           secwait : BOOLEAN, secerr : BOOLEAN, addrs : Obj,
           results : BOOLEAN, acked : BOOLEAN]
Branches == 0..(MaxTa + 1)
StType == [id : {"none", "main", "empty"}, rx : Obj, branch : Branches,
           ind : SUBSET Ta]
DelType == [doomed : SUBSET Obj, marked : SUBSET Obj, gone : SUBSET Obj]
HistType == [ended : Nat, heard : SUBSET {"prov", "ok", "error"},
             late : BOOLEAN, cleared : BOOLEAN]

WorldType ==
  [ta : [Ta -> TaType], tm : [Ta -> [TaTimers -> TimerType]],
   tx : [Obj -> {"idle", "ta", "ua"}], ua : UaType,
   ut : [UaTimers -> TimerType], st : StType, del : DelType,
   hist : HistType]

Dying(d) == d.doomed \cup d.marked
Here(t, d, i) == t[i].state # "none" /\ i \notin d.gone
Runs(t, d, i) == Here(t, d, i) /\ ~t[i].over

(* The owner is told of the end when the user agent stops, and hears       *)
(* nothing more, unless SIPSec has failed on an earlier response.          *)
Ends(u, s, d, h) ==
  /\ ~u.stopped => /\ s.id = "main" /\ Ua \notin Dying(d) \cup d.gone
                   /\ h.ended = 0
  /\ h.ended <= 1
  /\ u.stopped /\ ~h.cleared => h.ended = 1
  /\ u.owner <=> ~h.cleared
  /\ h.late => u.secerr

(* A response is kept for SIPSec, or while the URI is resolved again.      *)
Kept(u, v) ==
  /\ u.secwait => u.state = "WaitAuth" /\ u.stored = "auth" /\ Secure
  /\ v["S"] = "on" => u.state = "WaitAuth" /\ ~u.secwait
  /\ u.stored # "none" =>
       IsError(u.stored) /\ u.state \in {"WaitAuth", "Resolve"}
  /\ u.stored \in {"auth", "reject"} => u.state = "WaitAuth"
  /\ v["W"] # "off" => u.state \in AckStates

Heard(u, h) ==
  /\ "ok" \in h.heard => u.state \in AckStates
  /\ "error" \in h.heard =>
       \/ u.state = "WaitEnd"
       \/ u.state = "Resolve" /\ u.stopped /\ u.cur = 0

(* Once a 2xx was accepted there is no transaction any more.               *)
Acks(u, x) ==
  /\ u.state \in {"ResolveAck", "SendingAck"} => u.msg # "invite"
  /\ u.msg = "ack" => u.state \in {"ResolveAck", "SendingAck"}
  /\ u.state \in AckStates => u.cur = 0
  /\ u.held # 0 => u.state \in AckStates
  /\ x[Ua] = "ua" => u.msg = "ack" /\ u.state = "SendingAck"

(* No more branches are made than there are addresses.                     *)
Budget(u) ==
  u.msg = "invite" =>
    /\ u.addrs > 0 => u.n + u.addrs <= MaxTa
    /\ Secure /\ u.stored = "auth" => u.n + u.addrs < MaxTa
Limit(u, t, d) ==
  /\ u.n <= MaxTa + 1
  /\ u.msg = "invite" /\ u.n = MaxTa + 1 =>
       \/ u.state = "Resolve"
       \/ u.state = "WaitAuth" /\ u.stored = "none"
       \/ /\ u.state = "WaitResponse"
          /\ \A i \in Ta : ~(Runs(t, d, i) /\ t[i].att)

(* Nothing points to a transaction that was not made.                      *)
Made(t, m, x, u, s, d) ==
  \A i \in Ta :
    /\ i > u.n => t[i].state = "none"
    /\ t[i].state = "none" =>
         /\ t[i] = NoTa /\ i \notin Dying(d) \cup d.gone
         /\ i # u.cur /\ i # u.held /\ i \notin s.ind /\ x[i] = "idle"
         /\ \A k \in TaTimers : m[i][k] = "off"

Current(t, u, d) ==
  /\ u.cur # 0 => /\ ~t[u.cur].indep /\ u.cur # u.held
                  /\ u.cur \notin Dying(d) \cup d.gone
  /\ u.held # 0 => /\ t[u.held].over /\ ~t[u.held].indep
                   /\ u.held \notin Dying(d) \cup d.gone
  /\ u.secwait /\ u.stopped => u.cur = 0 \/ t[u.cur].over
  /\ u.state = "WaitEnd" /\ u.cur # 0 =>
       t[u.cur].over \/ t[u.cur].state = "Completed"

(* OneCurrent, but for the ACK.                                            *)
Attached(t, u, s, d) ==
  \A i \in Ta : Runs(t, d, i) =>
    IF t[i].att THEN i = u.cur
    ELSE t[i].indep /\ i \in s.ind /\ t[i].state = "Completed"
Acked(t) ==
  \A i \in Ta : t[i].state = "Completed" /\ ~t[i].over => t[i].msg = "ack"

Freeing(t, d) ==
  /\ d.doomed \cap d.marked = {} /\ Dying(d) \cap d.gone = {}
  /\ \A i \in Ta : i \in Dying(d) => t[i].over
  /\ \A i \in Ta : i \in d.gone => t[i].over \/ ~t[i].indep

(* Whose send a transmitter carries out is there.                          *)
Sending(t, x, u, d) ==
  /\ x[Ua] = "ta" => u.cur # 0 /\ ~t[u.cur].over
  /\ \A i \in Ta : x[i] # "idle" =>
       x[i] = "ta" /\ t[i].indep /\ ~t[i].over /\ i \notin d.gone

(* A transaction the user agent has let go is sending, or timer D runs.    *)
Timed(t, m, x, d, i) ==
  Runs(t, d, i) =>
    /\ m[i]["B"] # "stale" /\ m[i]["D"] # "stale"
    /\ t[i].indep /\ x[i] = "idle" => m[i]["D"] = "on"
LetGo(t, m, x, d) == \A i \in Ta : Timed(t, m, x, d, i)

(* All of Core, except what the timers of the transactions ensure.         *)
Body(w) ==
  /\ w \in WorldType
  /\ Ends(w.ua, w.st, w.del, w.hist)
  /\ Kept(w.ua, w.ut)
  /\ Heard(w.ua, w.hist)
  /\ Acks(w.ua, w.tx)
  /\ Budget(w.ua)
  /\ Limit(w.ua, w.ta, w.del)
  /\ Made(w.ta, w.tm, w.tx, w.ua, w.st, w.del)
  /\ Current(w.ta, w.ua, w.del)
  /\ Attached(w.ta, w.ua, w.st, w.del)
  /\ Acked(w.ta)
  /\ Freeing(w.ta, w.del)
  /\ Sending(w.ta, w.tx, w.ua, w.del)
Core(w) == Body(w) /\ LetGo(w.ta, w.tm, w.tx, w.del)

(* What a user agent that runs may rely on.                                *)
Fresh(t, u) ==
  u.state = "Resolve" =>
    u.cur = 0 /\ u.msg # "ack" /\ (u.n \in Ta => t[u.n].state = "none")
Awaits(t, u) ==
  u.state = "WaitAuth" /\ u.cur # 0 =>
    t[u.cur].over \/ t[u.cur].state = "Completed"
CurrentEnds(t, m, x, u, d, h) ==
  u.cur # 0 /\ Runs(t, d, u.cur) =>
    LET c == u.cur IN
    /\ t[c].state = "Calling" => m[c]["P"] = "off" /\ m[c]["N"] = "off"
    /\ t[c].state = "Proceeding" => m[c]["P"] = "on"
    /\ x[Ua] = "idle" /\ ~h.cleared =>
         /\ t[c].state = "Calling" => m[c]["B"] = "on"
         /\ t[c].state = "Completed" => m[c]["D"] = "on"

Steady(w) ==
  ~w.ua.stopped =>
    /\ w.ua.state = "WaitResponse" => w.ua.n <= MaxTa
    /\ Fresh(w.ta, w.ua)
    /\ Awaits(w.ta, w.ua)
    /\ w.st.rx = w.ua.cur
Rest(w) ==
  /\ Steady(w)
  /\ ~w.ua.stopped =>
       CurrentEnds(w.ta, w.tm, w.tx, w.ua, w.del, w.hist)

Inv(w) == Core(w) /\ Rest(w)
IInv == Inv(World)

-----------------------------------------------------------------------------
(* Destructions.                                                           *)

LEMMA Ids ==
  /\ Ta \subseteq Nat /\ Obj \subseteq Nat /\ 0 \notin Ta
  /\ Obj = Ta \cup {0} /\ Ua = 0 /\ Ta \subseteq Obj
  BY InviteClientAssumption DEF Ta, Obj, Ua

LEMMA BranchIs ==
  /\ 0 \in Branches
  /\ \A w : Core(w) => w.ua.n \in Branches
  BY InviteClientAssumption DEF Core, Body, Limit, WorldType, UaType, Branches

(* A user agent that has stopped relies on nothing.                        *)
LEMMA StoppedRests ==
  ASSUME NEW w, Core(w), w.ua.stopped
  PROVE  Inv(w)
  BY DEF Inv, Rest, Steady

(* One field of the user agent, or one variable, changes.                  *)
LEMMA UaWith ==
  ASSUME NEW u \in UaType
  PROVE  /\ \A b \in BOOLEAN :
              /\ [u EXCEPT !.stopped = b] \in UaType
              /\ [u EXCEPT !.owner = b] \in UaType
              /\ [u EXCEPT !.final = b] \in UaType
              /\ [u EXCEPT !.canceled = b] \in UaType
              /\ [u EXCEPT !.secwait = b] \in UaType
              /\ [u EXCEPT !.secerr = b] \in UaType
              /\ [u EXCEPT !.results = b] \in UaType
              /\ [u EXCEPT !.acked = b] \in UaType
         /\ \A c \in Obj :
              /\ [u EXCEPT !.cur = c] \in UaType
              /\ [u EXCEPT !.held = c] \in UaType
              /\ [u EXCEPT !.addrs = c] \in UaType
         /\ \A c \in {"Resolve", "WaitResponse", "WaitAuth", "WaitEnd"}
                    \cup AckStates :
              [u EXCEPT !.state = c] \in UaType
         /\ \A c \in {"none", "invite", "ack"} :
            [u EXCEPT !.msg = c] \in UaType
         /\ \A c \in Responses \cup {"none"} :
              [u EXCEPT !.stored = c] \in UaType
         /\ \A c \in Nat \ {0} : [u EXCEPT !.n = c] \in UaType
<1>1. \A b \in BOOLEAN :
        /\ [u EXCEPT !.stopped = b] \in UaType
        /\ [u EXCEPT !.owner = b] \in UaType
        /\ [u EXCEPT !.final = b] \in UaType
        /\ [u EXCEPT !.canceled = b] \in UaType
  BY DEF UaType
<1>2. \A b \in BOOLEAN :
        /\ [u EXCEPT !.secwait = b] \in UaType
        /\ [u EXCEPT !.secerr = b] \in UaType
        /\ [u EXCEPT !.results = b] \in UaType
        /\ [u EXCEPT !.acked = b] \in UaType
  BY DEF UaType
<1>3. \A c \in Obj : /\ [u EXCEPT !.cur = c] \in UaType
                     /\ [u EXCEPT !.held = c] \in UaType
                     /\ [u EXCEPT !.addrs = c] \in UaType
  BY DEF UaType
<1>4. \A c \in {"Resolve", "WaitResponse", "WaitAuth", "WaitEnd"}
              \cup AckStates : [u EXCEPT !.state = c] \in UaType
  BY DEF UaType
<1>5. /\ \A c \in {"none", "invite", "ack"} : [u EXCEPT !.msg = c] \in UaType
      /\ \A c \in Responses \cup {"none"} : [u EXCEPT !.stored = c] \in UaType
      /\ \A c \in Nat \ {0} : [u EXCEPT !.n = c] \in UaType
  BY DEF UaType
<1>6. QED
  BY <1>1, <1>2, <1>3, <1>4, <1>5

Killed(w, S) == S \cup (IF Ua \in S THEN {w.ua.cur, w.ua.held} ELSE {})

LEMMA DestroyedIs ==
  ASSUME NEW w \in WorldType, NEW S \in SUBSET Obj
  PROVE  LET z == Destroyed(w, S)
             all == Killed(w, S) IN
         /\ z \in WorldType
         /\ z.ta = w.ta /\ z.hist = w.hist
         /\ \A k \in Obj : z.tx[k] = IF k \in all THEN "idle" ELSE w.tx[k]
         /\ \A i \in Ta : z.tm[i] = IF i \in all
                                    THEN [t \in TaTimers |-> "off"]
                                    ELSE w.tm[i]
         /\ z.del = [doomed |-> w.del.doomed \ all,
                     marked |-> w.del.marked \ all,
                     gone |-> w.del.gone \cup all]
         /\ z.st.ind = w.st.ind /\ z.st.rx = w.st.rx
         /\ Ua \notin S => z.ua = w.ua /\ z.ut = w.ut /\ z.st = w.st
         /\ Ua \in S => /\ z.ua = [w.ua EXCEPT !.cur = 0, !.held = 0,
                                               !.secwait = FALSE]
                        /\ z.ut = [t \in UaTimers |-> "off"]
<1> DEFINE all == Killed(w, S)
           dead == [w EXCEPT
             !.tx = [k \in Obj |-> IF k \in all THEN "idle" ELSE @[k]],
             !.tm = [i \in Ta |-> IF i \in all THEN [t \in TaTimers |-> "off"]
                                  ELSE @[i]],
             !.del = [doomed |-> @.doomed \ all, marked |-> @.marked \ all,
                      gone |-> @.gone \cup all]]
<1>1. all \in SUBSET Obj
  BY Ids DEF Killed, WorldType, UaType
<1>2. /\ dead \in WorldType
      /\ dead.ta = w.ta /\ dead.hist = w.hist /\ dead.ua = w.ua
      /\ dead.ut = w.ut /\ dead.st = w.st
      /\ dead.tx = [k \in Obj |-> IF k \in all THEN "idle" ELSE w.tx[k]]
      /\ dead.tm = [i \in Ta |-> IF i \in all THEN [t \in TaTimers |-> "off"]
                                  ELSE w.tm[i]]
      /\ dead.del = [doomed |-> w.del.doomed \ all,
                     marked |-> w.del.marked \ all,
                     gone |-> w.del.gone \cup all]
  <2> HIDE DEF all
  <2>1. [k \in Obj |-> IF k \in all THEN "idle" ELSE w.tx[k]]
          \in [Obj -> {"idle", "ta", "ua"}]
    BY DEF WorldType
  <2>2. [i \in Ta |-> IF i \in all THEN [t \in TaTimers |-> "off"]
                      ELSE w.tm[i]] \in [Ta -> [TaTimers -> TimerType]]
    BY DEF WorldType, TimerType
  <2>3. [doomed |-> w.del.doomed \ all, marked |-> w.del.marked \ all,
         gone |-> w.del.gone \cup all] \in DelType
    BY <1>1 DEF WorldType, DelType
  <2>4. QED
    BY <2>1, <2>2, <2>3 DEF WorldType
<1>3. CASE Ua \notin S
  <2>1. Destroyed(w, S) = dead
    BY <1>3 DEF Destroyed, Killed
  <2> HIDE DEF all, dead
  <2>2. QED
    BY <2>1, <1>2, <1>3 DEF all
<1>4. CASE Ua \in S
  <2> DEFINE ut1 == [t \in UaTimers |-> "off"]
             ua1 == [w.ua EXCEPT !.cur = 0, !.held = 0, !.secwait = FALSE]
             id1 == IF w.st.id = "empty" THEN "none" ELSE w.st.id
             st1 == [w.st EXCEPT !.id = id1]
  <2>0. Destroyed(w, S) =
          IF Ua \notin S THEN dead
          ELSE [dead EXCEPT !.ut = ut1, !.ua = ua1, !.st = st1]
    BY DEF Destroyed, Killed
  <2> HIDE DEF all, dead
  <2>1. Destroyed(w, S) = [dead EXCEPT !.ut = ut1, !.ua = ua1, !.st = st1]
    BY <2>0, <1>4
  <2>2. ut1 \in [UaTimers -> TimerType]
    BY DEF TimerType
  <2>3. ua1 \in UaType
    <3>1. w.ua \in UaType /\ 0 \in Obj
      BY Ids DEF WorldType
    <3>2. [w.ua EXCEPT !.cur = 0] \in UaType
      BY <3>1, UaWith
    <3>3. [w.ua EXCEPT !.cur = 0, !.held = 0] \in UaType
      BY <3>1, <3>2, UaWith
    <3>4. QED
      BY <3>3, UaWith
  <2>4. /\ st1 \in StType
        /\ st1.ind = w.st.ind /\ st1.rx = w.st.rx
    <3> DEFINE s == w.st
    <3>1. s \in StType
      BY DEF WorldType
    <3> HIDE DEF s
    <3>2. id1 \in {"none", "main", "empty"}
      BY <3>1 DEF StType, s
    <3> HIDE DEF id1
    <3>3. /\ [s EXCEPT !.id = id1] \in StType
          /\ [s EXCEPT !.id = id1].ind = s.ind
          /\ [s EXCEPT !.id = id1].rx = s.rx
      BY <3>1, <3>2 DEF StType
    <3>4. QED
      BY <3>3 DEF s
  <2> HIDE DEF ut1, ua1, st1
  <2> DEFINE z == [dead EXCEPT !.ut = ut1, !.ua = ua1, !.st = st1]
  <2>5. z \in WorldType
    BY <2>2, <2>3, <2>4, <1>2 DEF WorldType
  <2>6. /\ z.ta = dead.ta /\ z.tm = dead.tm /\ z.tx = dead.tx
        /\ z.del = dead.del /\ z.hist = dead.hist
        /\ z.ut = ut1 /\ z.ua = ua1 /\ z.st = st1
    BY <1>2 DEF WorldType
  <2> HIDE DEF z
  <2>7. /\ z.ta = w.ta /\ z.hist = w.hist
        /\ \A k \in Obj : z.tx[k] = IF k \in all THEN "idle" ELSE w.tx[k]
        /\ \A i \in Ta : z.tm[i] = IF i \in all
                                    THEN [t \in TaTimers |-> "off"]
                                    ELSE w.tm[i]
    BY <2>6, <1>2
  <2>8. QED
    BY <2>1, <2>4, <2>5, <2>6, <2>7, <1>2, <1>4 DEF ut1, ua1, all, z
<1>5. QED
  BY <1>3, <1>4

(* Whatever is to be freed may be freed at any time; the user agent takes  *)
(* its transaction with it.                                                *)
LEMMA DestroyedGood ==
  ASSUME NEW w, Core(w), NEW S \in SUBSET Obj,
         \A k \in S : k \in Dying(w.del) \/ (k = Ua /\ w.ua.stopped)
  PROVE  /\ Core(Destroyed(w, S))
         /\ Steady(w) => Steady(Destroyed(w, S))
         /\ Rest(w) => Rest(Destroyed(w, S))
         /\ Destroyed(w, S).ta = w.ta
         /\ Destroyed(w, S).hist = w.hist
         /\ Destroyed(w, S).ut["S"] = "on" => w.ut["S"] = "on"
         /\ \/ Destroyed(w, S).ua = w.ua
            \/ Destroyed(w, S).ua = [w.ua EXCEPT !.cur = 0, !.held = 0,
                                                 !.secwait = FALSE]
<1> DEFINE z == Destroyed(w, S)
           all == Killed(w, S)
           del1 == [doomed |-> w.del.doomed \ all,
                    marked |-> w.del.marked \ all,
                    gone |-> w.del.gone \cup all]
<1>0. w \in WorldType
  BY DEF Core, Body
<1>1. /\ z \in WorldType
      /\ z.ta = w.ta /\ z.hist = w.hist
      /\ \A k \in Obj : z.tx[k] = IF k \in all THEN "idle" ELSE w.tx[k]
      /\ \A i \in Ta : z.tm[i] = IF i \in all
                                 THEN [t \in TaTimers |-> "off"]
                                 ELSE w.tm[i]
      /\ z.del = del1
      /\ z.st.ind = w.st.ind /\ z.st.rx = w.st.rx
      /\ Ua \notin S => z.ua = w.ua /\ z.ut = w.ut /\ z.st = w.st
      /\ Ua \in S => /\ z.ua = [w.ua EXCEPT !.cur = 0, !.held = 0,
                                            !.secwait = FALSE]
                     /\ z.ut = [t \in UaTimers |-> "off"]
  BY <1>0, DestroyedIs
<1>2. /\ w.ua \in UaType /\ w.st \in StType /\ w.del \in DelType
      /\ w.hist \in HistType /\ w.tx \in [Obj -> {"idle", "ta", "ua"}]
      /\ w.ta \in [Ta -> TaType] /\ w.ut \in [UaTimers -> TimerType]
      /\ w.tm \in [Ta -> [TaTimers -> TimerType]]
  BY <1>0 DEF WorldType
<1>3. /\ \A k \in all : \/ k \in Dying(w.del)
                        \/ k = Ua /\ w.ua.stopped
                        \/ Ua \in S /\ k \in {w.ua.cur, w.ua.held}
      /\ Ua \in S => w.ua.stopped /\ w.ua.cur \in all /\ w.ua.held \in all
      /\ Ua \notin S => all = S
  BY DEF Killed, Core, Body, Ends
<1>4. Ua \in S =>
        /\ z.ua.cur = 0 /\ z.ua.held = 0 /\ ~z.ua.secwait
        /\ z.ua.state = w.ua.state /\ z.ua.stopped = w.ua.stopped
        /\ z.ua.owner = w.ua.owner /\ z.ua.msg = w.ua.msg
        /\ z.ua.n = w.ua.n /\ z.ua.stored = w.ua.stored
        /\ z.ua.addrs = w.ua.addrs /\ z.ua.secerr = w.ua.secerr
        /\ z.ut["S"] = "off" /\ z.ut["W"] = "off"
  <2> SUFFICES ASSUME Ua \in S PROVE
        /\ z.ua.cur = 0 /\ z.ua.held = 0 /\ ~z.ua.secwait
        /\ z.ua.state = w.ua.state /\ z.ua.stopped = w.ua.stopped
        /\ z.ua.owner = w.ua.owner /\ z.ua.msg = w.ua.msg
        /\ z.ua.n = w.ua.n /\ z.ua.stored = w.ua.stored
        /\ z.ua.addrs = w.ua.addrs /\ z.ua.secerr = w.ua.secerr
        /\ z.ut["S"] = "off" /\ z.ut["W"] = "off"
    OBVIOUS
  <2>1. z.ut["S"] = "off" /\ z.ut["W"] = "off"
    BY <1>1 DEF UaTimers
  <2> DEFINE u == w.ua
  <2>2. z.ua = [u EXCEPT !.cur = 0, !.held = 0, !.secwait = FALSE]
    BY <1>1
  <2>3. u \in UaType
    BY <1>2
  <2> HIDE DEF z, u
  <2>4. QED
    BY <2>1, <2>2, <2>3 DEF UaType, u
<1>5. \A i \in Ta : Runs(z.ta, z.del, i) =>
        Runs(w.ta, w.del, i) /\ i \notin all
  BY <1>1 DEF Runs, Here
<1>6. /\ \A i \in Ta : i \in all => /\ w.ta[i].state # "none"
                                    /\ w.ta[i].over \/ ~w.ta[i].indep
      /\ 0 \notin Ta /\ Ua = 0
  <2>1. \A i \in Ta : i \in Dying(w.del) => /\ w.ta[i].state # "none"
                                            /\ w.ta[i].over
    BY DEF Core, Body, Made, Freeing
  <2>2. \A i \in Ta : i = w.ua.cur \/ i = w.ua.held =>
          w.ta[i].state # "none" /\ ~w.ta[i].indep
    BY Ids DEF Core, Body, Made, Current
  <2>3. QED
    BY <1>3, <2>1, <2>2, Ids
<1>7. /\ z.del.doomed \subseteq w.del.doomed
      /\ z.del.marked \subseteq w.del.marked
      /\ z.del.gone = w.del.gone \cup all
      /\ Dying(z.del) \cap all = {}
  BY <1>1 DEF Dying
<1>8. \A k \in Obj : k \notin all => z.tx[k] = w.tx[k]
  BY <1>1
<1> HIDE DEF z, all, del1
<1>10. Ends(z.ua, z.st, z.del, z.hist)
  <2>1. CASE Ua \in S
    BY <1>1, <1>3, <1>4, <2>1 DEF Core, Body, Ends
  <2>2. CASE Ua \notin S
    BY <1>1, <1>3, <1>7, <2>2 DEF Core, Body, Ends, Dying
  <2>3. QED
    BY <2>1, <2>2
<1>11. Kept(z.ua, z.ut) /\ Heard(z.ua, z.hist) /\ Budget(z.ua)
  BY <1>1, <1>4 DEF Core, Body, Kept, Heard, Budget
<1>12. Acks(z.ua, z.tx)
  BY <1>1, <1>4, <1>8, Ids DEF Core, Body, Acks
<1>13. Limit(z.ua, z.ta, z.del)
  BY <1>1, <1>4, <1>5 DEF Core, Body, Limit
<1>14. Made(z.ta, z.tm, z.tx, z.ua, z.st, z.del)
  <2> SUFFICES ASSUME NEW i \in Ta
               PROVE  /\ i > z.ua.n => z.ta[i].state = "none"
                      /\ z.ta[i].state = "none" =>
                         /\ z.ta[i] = NoTa
                         /\ i \notin Dying(z.del) \cup z.del.gone
                         /\ i # z.ua.cur /\ i # z.ua.held /\ i \notin z.st.ind
                         /\ z.tx[i] = "idle"
                         /\ \A k \in TaTimers : z.tm[i][k] = "off"
    BY DEF Made
  <2>1. i > w.ua.n => w.ta[i].state = "none"
    BY DEF Core, Body, Made
  <2>2. w.ta[i].state = "none" =>
          /\ w.ta[i] = NoTa /\ i \notin Dying(w.del) \cup w.del.gone
          /\ i # w.ua.cur /\ i # w.ua.held /\ i \notin w.st.ind
          /\ w.tx[i] = "idle"
          /\ \A k \in TaTimers : w.tm[i][k] = "off"
    BY DEF Core, Body, Made
  <2>3. z.ua.n = w.ua.n /\ z.ta = w.ta /\ z.st.ind = w.st.ind
    BY <1>1, <1>4
  <2>4. CASE i \in all
    BY <1>6, <2>1, <2>2, <2>3, <2>4
  <2>5. CASE i \notin all
    <3>1. z.tm[i] = w.tm[i] /\ z.tx[i] = w.tx[i]
      BY <1>1, <2>5, Ids
    <3>2. i \in Dying(z.del) \cup z.del.gone =>
            i \in Dying(w.del) \cup w.del.gone
      BY <1>7, <2>5 DEF Dying
    <3>3. /\ z.ua.cur = w.ua.cur \/ z.ua.cur = 0
          /\ z.ua.held = w.ua.held \/ z.ua.held = 0
      BY <1>1, <1>4
    <3>4. QED
      BY <2>1, <2>2, <2>3, <3>1, <3>2, <3>3, Ids
  <2>6. QED
    BY <2>4, <2>5
<1>15. Current(z.ta, z.ua, z.del)
  <2>1. CASE Ua \in S
    BY <1>1, <1>4, <2>1 DEF Current
  <2>2. CASE Ua \notin S
    <3>1. z.ua = w.ua /\ z.ta = w.ta
      BY <1>1, <2>2
    <3>2. \A k \in {w.ua.cur, w.ua.held} : k # 0 => k \notin all
      BY <1>3, <2>2, Ids DEF Core, Body, Current
    <3>3. QED
      BY <1>7, <3>1, <3>2 DEF Core, Body, Current, Dying
  <2>3. QED
    BY <2>1, <2>2
<1>16. Attached(z.ta, z.ua, z.st, z.del)
  <2> SUFFICES ASSUME NEW i \in Ta, Runs(z.ta, z.del, i)
               PROVE  IF z.ta[i].att THEN i = z.ua.cur
                      ELSE z.ta[i].indep /\ i \in z.st.ind
                           /\ z.ta[i].state = "Completed"
    BY DEF Attached
  <2>1. Runs(w.ta, w.del, i) /\ i \notin all
    BY <1>5
  <2>2. IF w.ta[i].att THEN i = w.ua.cur
        ELSE w.ta[i].indep /\ i \in w.st.ind
             /\ w.ta[i].state = "Completed"
    BY <2>1 DEF Core, Body, Attached
  <2>3. w.ta[i].att => z.ua = w.ua
    BY <2>1, <2>2, <1>1, <1>3
  <2>4. QED
    BY <1>1, <2>2, <2>3
<1>17. Acked(z.ta)
  BY <1>1 DEF Core, Body
<1>18. Freeing(z.ta, z.del)
  <2>1. /\ z.del.doomed \cap z.del.marked = {}
        /\ Dying(z.del) \cap z.del.gone = {}
    BY <1>7 DEF Core, Body, Freeing, Dying
  <2>2. QED
    BY <1>1, <1>6, <1>7, <2>1 DEF Core, Body, Freeing, Dying
<1>19. Sending(z.ta, z.tx, z.ua, z.del)
  <2>1. z.tx[Ua] = "ta" => z.ua.cur # 0 /\ ~z.ta[z.ua.cur].over
    <3>1. CASE Ua \in S
      <4>1. Ua \in all
        BY <3>1 DEF all, Killed
      <4>2. QED
        BY <1>1, <4>1, Ids
    <3>2. CASE Ua \notin S
      <4>1. Ua \notin all
        BY <1>3, <3>2
      <4>2. QED
        BY <1>1, <1>8, <3>2, <4>1, Ids DEF Core, Body, Sending
    <3>3. QED
      BY <3>1, <3>2
  <2>2. ASSUME NEW i \in Ta, z.tx[i] # "idle"
        PROVE  /\ z.tx[i] = "ta" /\ z.ta[i].indep /\ ~z.ta[i].over
               /\ i \notin z.del.gone
    <3>1. i \notin all /\ z.tx[i] = w.tx[i]
      BY <1>1, <2>2, Ids
    <3>2. QED
      BY <1>1, <1>7, <2>2, <3>1 DEF Core, Body, Sending
  <2>3. QED
    BY <2>1, <2>2 DEF Sending
<1>20. LetGo(z.ta, z.tm, z.tx, z.del)
  <2> SUFFICES ASSUME NEW i \in Ta, Runs(z.ta, z.del, i)
               PROVE  Timed(z.ta, z.tm, z.tx, z.del, i)
    BY DEF LetGo, Timed
  <2>1. Runs(w.ta, w.del, i) /\ i \notin all
    BY <1>5
  <2>2. z.tm[i] = w.tm[i] /\ z.tx[i] = w.tx[i] /\ z.ta = w.ta
    BY <1>1, <2>1, Ids
  <2>3. QED
    BY <2>1, <2>2 DEF Core, LetGo, Timed
<1>21. (Steady(w) => Steady(z)) /\ (Rest(w) => Rest(z))
  <2>1. CASE z.ua.stopped
    BY <2>1 DEF Steady, Rest
  <2>2. CASE ~z.ua.stopped
    <3>1. Ua \notin S
      BY <1>3, <1>4, <2>2
    <3>2. z.ua = w.ua /\ z.st = w.st /\ z.ta = w.ta /\ z.hist = w.hist
      BY <1>1, <3>1
    <3>3. w.ua.cur # 0 => w.ua.cur \notin all /\ w.ua.cur \in Ta
      BY <1>2, <1>3, <3>1, Ids DEF Core, Body, Current, UaType
    <3>4. /\ z.tx[Ua] = w.tx[Ua]
          /\ w.ua.cur # 0 => z.tm[w.ua.cur] = w.tm[w.ua.cur]
      BY <1>1, <1>3, <3>1, <3>3, Ids
    <3>5. w.ua.cur # 0 /\ Runs(z.ta, z.del, w.ua.cur)
            => Runs(w.ta, w.del, w.ua.cur)
      BY <1>5, <3>3
    <3>6. Rest(w) =>
            CurrentEnds(z.ta, z.tm, z.tx, z.ua, z.del, z.hist)
      BY <2>2, <3>2, <3>4, <3>5 DEF Rest, CurrentEnds
    <3>7. Steady(w) => Steady(z)
      BY <3>2 DEF Steady
    <3>8. QED
      BY <3>6, <3>7 DEF Rest
  <2>3. QED
    BY <2>1, <2>2
<1>23. z.ut["S"] = "on" => w.ut["S"] = "on"
  BY <1>1, <1>4
<1>22. QED
  BY <1>1, <1>10, <1>11, <1>12, <1>13, <1>14, <1>15, <1>16, <1>17, <1>18,
     <1>19, <1>20, <1>21, <1>23 DEF Core, Body, z

KilledUa(u) == [u EXCEPT !.cur = 0, !.held = 0, !.secwait = FALSE]

LEMMA KilledUaIs ==
  ASSUME NEW u \in UaType
  PROVE  /\ KilledUa(u) \in UaType
         /\ KilledUa(u).cur = 0 /\ KilledUa(u).held = 0
         /\ ~KilledUa(u).secwait
         /\ KilledUa(u).state = u.state /\ KilledUa(u).stopped = u.stopped
         /\ KilledUa(u).owner = u.owner /\ KilledUa(u).msg = u.msg
         /\ KilledUa(u).n = u.n /\ KilledUa(u).stored = u.stored
         /\ KilledUa(u).addrs = u.addrs /\ KilledUa(u).secerr = u.secerr
         /\ KilledUa(u).final = u.final /\ KilledUa(u).results = u.results
<1>1. 0 \in Obj
  BY Ids
<1>2. [u EXCEPT !.cur = 0] \in UaType
  BY <1>1, UaWith
<1>3. [u EXCEPT !.cur = 0, !.held = 0] \in UaType
  BY <1>1, <1>2, UaWith
<1>4. KilledUa(u) \in UaType
  BY <1>3, UaWith DEF KilledUa
<1>5. QED
  BY <1>4 DEF KilledUa, UaType

(* A search of the store that does not find the user agent frees what is   *)
(* marked; it finds one that runs.                                         *)
LEMMA SearchedGood ==
  ASSUME NEW w, Core(w)
  PROVE  LET z == Searched(w) IN
         /\ Core(z)
         /\ Steady(w) => Steady(z)
         /\ Rest(w) => Rest(z)
         /\ z.ta = w.ta /\ z.hist = w.hist
         /\ z.ua = w.ua \/ z.ua = KilledUa(w.ua)
         /\ z.ut["S"] = "on" => w.ut["S"] = "on"
         /\ ~w.ua.stopped => w.st.id = "main"
         /\ w.st.id = "main" => z = w
<1>1. ~w.ua.stopped => w.st.id = "main"
  BY DEF Core, Body, Ends
<1>2. CASE w.st.id = "main"
  BY <1>1, <1>2 DEF Searched
<1>3. CASE w.st.id # "main"
  <2>1. /\ w.del.marked \in SUBSET Obj
        /\ \A k \in w.del.marked : k \in Dying(w.del)
    BY DEF Core, Body, WorldType, DelType, Dying
  <2>2. Searched(w) = Destroyed(w, w.del.marked)
    BY <1>3 DEF Searched
  <2> DEFINE z == Destroyed(w, w.del.marked)
  <2>3. /\ Core(z) /\ (Steady(w) => Steady(z)) /\ (Rest(w) => Rest(z))
        /\ z.ta = w.ta /\ z.hist = w.hist
        /\ z.ua = w.ua \/ z.ua = KilledUa(w.ua)
        /\ z.ut["S"] = "on" => w.ut["S"] = "on"
    BY <2>1, DestroyedGood DEF KilledUa
  <2> HIDE DEF z
  <2>4. QED
    BY <1>1, <1>3, <2>2, <2>3 DEF z
<1>4. QED
  BY <1>2, <1>3

(* The running user agent stops, and is doomed or marked.                  *)
LEMMA StoppedGood ==
  ASSUME NEW w, Core(w), ~w.ua.stopped,
         w.ua.secwait => w.ua.cur = 0 \/ w.ta[w.ua.cur].over,
         NEW z \in WorldType, z.ta = w.ta, z.tm = w.tm, z.tx = w.tx,
         z.ut = w.ut, z.st.rx = w.st.rx, z.st.ind = w.st.ind,
         z.ua = [w.ua EXCEPT !.stopped = TRUE],
         z.hist = [w.hist EXCEPT !.ended = IF w.ua.owner THEN @ + 1 ELSE @],
         z.del.gone = w.del.gone,
         \/ /\ z.del.doomed = w.del.doomed \cup {Ua}
            /\ z.del.marked = w.del.marked
         \/ /\ z.del.marked = w.del.marked \cup {Ua}
            /\ z.del.doomed = w.del.doomed
  PROVE  Inv(z)
<1> DEFINE u == w.ua
<1>1. /\ u \in UaType /\ w.hist \in HistType /\ w.del \in DelType
      /\ z.ua \in UaType
  BY DEF Core, Body, WorldType
<1>2. /\ z.ua.stopped
      /\ z.ua.cur = u.cur /\ z.ua.held = u.held /\ z.ua.state = u.state
      /\ z.ua.secwait = u.secwait /\ z.ua.stored = u.stored
      /\ z.ua.owner = u.owner /\ z.ua.msg = u.msg /\ z.ua.n = u.n
      /\ z.ua.addrs = u.addrs /\ z.ua.secerr = u.secerr
  <2>1. z.ua = [u EXCEPT !.stopped = TRUE]
    OBVIOUS
  <2> HIDE DEF u
  <2>2. QED
    BY <1>1, <2>1 DEF UaType
<1>3. /\ z.hist.heard = w.hist.heard /\ z.hist.late = w.hist.late
      /\ z.hist.cleared = w.hist.cleared
      /\ z.hist.ended = IF w.ua.owner THEN w.hist.ended + 1 ELSE w.hist.ended
  BY <1>1 DEF HistType
<1>4. /\ Dying(z.del) = Dying(w.del) \cup {Ua}
      /\ Ua \notin Dying(w.del) \cup w.del.gone
      /\ \A i \in Ta : Runs(z.ta, z.del, i) <=> Runs(w.ta, w.del, i)
      /\ \A i \in Ta : i # Ua
  BY Ids DEF Core, Body, Ends, Dying, Runs, Here
<1> HIDE DEF u
<1>5. Ends(z.ua, z.st, z.del, z.hist)
  BY <1>1, <1>2, <1>3 DEF Core, Body, Ends, HistType, u
<1>6. /\ Kept(z.ua, z.ut) /\ Heard(z.ua, z.hist) /\ Acks(z.ua, z.tx)
      /\ Budget(z.ua)
  BY <1>2, <1>3 DEF Core, Body, Kept, Heard, Acks, Budget, u
<1>7. Limit(z.ua, z.ta, z.del) /\ Made(z.ta, z.tm, z.tx, z.ua, z.st, z.del)
  BY <1>2, <1>4 DEF Core, Body, Limit, Made, u
<1>8. /\ Current(z.ta, z.ua, z.del)
      /\ Attached(z.ta, z.ua, z.st, z.del) /\ Acked(z.ta)
  BY <1>2, <1>4, Ids DEF Core, Body, Current, Attached, u
<1>9. Freeing(z.ta, z.del)
  BY <1>4 DEF Core, Body, Freeing, Dying
<1>10. Sending(z.ta, z.tx, z.ua, z.del) /\ LetGo(z.ta, z.tm, z.tx, z.del)
  BY <1>2, <1>4 DEF Core, Body, Sending, LetGo, Timed, u
<1>11. QED
  BY <1>2, <1>5, <1>6, <1>7, <1>8, <1>9, <1>10
     DEF Core, Body, Inv, Rest, Steady

Halted(w, z) ==
  /\ z \in WorldType /\ z.ta = w.ta /\ z.tm = w.tm /\ z.tx = w.tx
  /\ z.ut = w.ut /\ z.st.rx = w.st.rx /\ z.st.ind = w.st.ind
  /\ z.ua = [w.ua EXCEPT !.stopped = TRUE]
  /\ z.hist = [w.hist EXCEPT !.ended = IF w.ua.owner THEN @ + 1 ELSE @]
  /\ z.del.gone = w.del.gone
  /\ \/ /\ z.del.doomed = w.del.doomed \cup {Ua}
        /\ z.del.marked = w.del.marked
     \/ /\ z.del.marked = w.del.marked \cup {Ua}
        /\ z.del.doomed = w.del.doomed

LEMMA StopIs ==
  ASSUME NEW w \in WorldType, ~w.ua.stopped, w.st.id = "main",
         NEW r \in Stop(w)
  PROVE  r.left = "no" /\ r.yes /\ Halted(w, r.w)
<1> DEFINE u1 == [w.ua EXCEPT !.stopped = TRUE]
           h1 == [w.hist EXCEPT !.ended = IF w.ua.owner THEN @ + 1 ELSE @]
           w1 == [w EXCEPT !.ua = u1, !.hist = h1]
<1>1. w \in WorldType /\ w.st.id = "main"
  OBVIOUS
<1>2. TransactionEnded(w) = w1
  BY <1>1 DEF TransactionEnded, WorldType
<1>3. u1 \in UaType /\ u1.stopped
  <2> DEFINE u == w.ua
  <2>1. u \in UaType
    BY <1>1 DEF WorldType
  <2> HIDE DEF u
  <2>2. [u EXCEPT !.stopped = TRUE] \in UaType
    BY <2>1, UaWith
  <2>3. [u EXCEPT !.stopped = TRUE].stopped
    BY <2>1 DEF UaType
  <2>4. QED
    BY <2>2, <2>3 DEF u
<1>4. h1 \in HistType
  <2> DEFINE h == w.hist
             e == IF w.ua.owner THEN h.ended + 1 ELSE h.ended
  <2>1. h \in HistType
    BY <1>1 DEF WorldType
  <2> HIDE DEF h
  <2>2. e \in Nat
    BY <2>1 DEF HistType
  <2> HIDE DEF e
  <2>3. [h EXCEPT !.ended = e] \in HistType
    BY <2>1, <2>2 DEF HistType
  <2>4. QED
    BY <2>3 DEF h, e
<1> HIDE DEF u1, h1
<1>5. /\ w1 \in WorldType /\ w1.ua = u1 /\ w1.hist = h1
      /\ w1.ta = w.ta /\ w1.tm = w.tm /\ w1.tx = w.tx /\ w1.ut = w.ut
      /\ w1.st = w.st /\ w1.del = w.del
  BY <1>1, <1>3, <1>4 DEF WorldType
<1> HIDE DEF w1
<1>6. r \in RequestDeletionOfUserAgent(w1)
  BY <1>2 DEF Stop
<1> DEFINE z1 == [[w1 EXCEPT !.st.id = "none"]
                    EXCEPT !.del.doomed = @ \cup {Ua}]
           z2 == [w1 EXCEPT !.st.id = "empty", !.del.marked = @ \cup {Ua}]
<1>7. r \in Yes(z1) \cup Yes(z2)
  BY <1>1, <1>5, <1>6 DEF RequestDeletionOfUserAgent, RemoveFromStore, Yes
<1>8. /\ w1.st \in StType /\ w1.del \in DelType /\ Ua \in Obj
  BY <1>5, Ids DEF WorldType
<1>9. /\ z1 \in WorldType /\ z2 \in WorldType
      /\ z1.ua = u1 /\ z1.hist = h1 /\ z1.ta = w.ta /\ z1.tm = w.tm
      /\ z1.tx = w.tx /\ z1.ut = w.ut
      /\ z2.ua = u1 /\ z2.hist = h1 /\ z2.ta = w.ta /\ z2.tm = w.tm
      /\ z2.tx = w.tx /\ z2.ut = w.ut
  BY <1>5, <1>8 DEF WorldType, StType, DelType
<1>10. /\ z1.st.rx = w.st.rx /\ z1.st.ind = w.st.ind
       /\ z1.del.gone = w.del.gone /\ z1.del.marked = w.del.marked
       /\ z1.del.doomed = w.del.doomed \cup {Ua}
  BY <1>5, <1>8 DEF WorldType, StType, DelType
<1>11. /\ z2.st.rx = w.st.rx /\ z2.st.ind = w.st.ind
       /\ z2.del.gone = w.del.gone /\ z2.del.doomed = w.del.doomed
       /\ z2.del.marked = w.del.marked \cup {Ua}
  BY <1>5, <1>8 DEF WorldType, StType, DelType
<1> HIDE DEF z1, z2
<1>12. Halted(w, z1)
  BY <1>9, <1>10 DEF Halted, u1, h1
<1>13. Halted(w, z2)
  BY <1>9, <1>11 DEF Halted, u1, h1
<1>14. r.left = "no" /\ r.yes /\ (r.w = z1 \/ r.w = z2)
  BY <1>7 DEF Yes
<1>15. QED
  BY <1>12, <1>13, <1>14

LEMMA StopGood ==
  ASSUME NEW w, Core(w),
         w.ua.secwait /\ ~w.ua.stopped => w.ua.cur = 0 \/ w.ta[w.ua.cur].over,
         NEW r \in Stop(w)
  PROVE  /\ r.left = "no" /\ r.yes
         /\ Inv(r.w) /\ r.w.ua.stopped
         /\ r.w.ta = w.ta
         /\ r.w.ua =
            IF w.ua.stopped THEN w.ua ELSE [w.ua EXCEPT !.stopped = TRUE]
<1>1. CASE w.ua.stopped
  BY <1>1, StoppedRests DEF Stop, Yes
<1>2. CASE ~w.ua.stopped
  <2> DEFINE z == r.w
  <2>1. w \in WorldType /\ w.st.id = "main"
    BY <1>2 DEF Core, Body, Ends
  <2>2. r.left = "no" /\ r.yes /\ Halted(w, z)
    BY <1>2, <2>1, StopIs
  <2> HIDE DEF z
  <2>3. Inv(z)
    BY <1>2, <2>2, StoppedGood DEF Halted
  <2>4. z.ta = w.ta /\ z.ua = [w.ua EXCEPT !.stopped = TRUE]
    BY <2>2 DEF Halted
  <2>5. z.ua.stopped
    <3> DEFINE u == w.ua
    <3>1. u \in UaType /\ z.ua = [u EXCEPT !.stopped = TRUE]
      BY <2>1, <2>4 DEF WorldType
    <3> HIDE DEF u
    <3>2. QED
      BY <3>1 DEF UaType
  <2>6. QED
    BY <1>2, <2>2, <2>3, <2>4, <2>5 DEF z
<1>3. QED
  BY <1>1, <1>2

(* What an end, or a deletion, leaves of the user agent.                   *)
Follows(u, v) ==
  /\ v.state = u.state /\ v.msg = u.msg /\ v.n = u.n /\ v.addrs = u.addrs
  /\ v.stored = u.stored /\ v.secerr = u.secerr /\ v.owner = u.owner
  /\ v.final = u.final /\ v.results = u.results
  /\ v.cur \in {u.cur, 0} /\ v.held \in {u.held, 0}
  /\ v.secwait => u.secwait
  /\ u.stopped => v.stopped

LEMMA FollowsKilled ==
  ASSUME NEW u \in UaType
  PROVE  Follows(u, u) /\ Follows(u, KilledUa(u))
BY KilledUaIs DEF Follows

LEMMA FollowsStopped ==
  ASSUME NEW u \in UaType
  PROVE  Follows(u, [u EXCEPT !.stopped = TRUE])
BY DEF Follows, UaType

LEMMA FollowsTrans ==
  ASSUME NEW u, NEW v, NEW x, Follows(u, v), Follows(v, x)
  PROVE  Follows(u, x)
BY DEF Follows

LEMMA StopIfFoundGood ==
  ASSUME NEW w, Core(w),
         w.ua.secwait /\ ~w.ua.stopped => w.ua.cur = 0 \/ w.ta[w.ua.cur].over,
         NEW r \in StopIfFound(w)
  PROVE  /\ r.left = "no" /\ r.yes
         /\ Inv(r.w) /\ r.w.ua.stopped
         /\ r.w.ta = w.ta
         /\ Follows(w.ua, r.w.ua)
<1>0. w.ua \in UaType
  BY DEF Core, Body, WorldType
<1>1. CASE w.st.id = "main"
  <2>1. r \in Stop(w)
    BY <1>1 DEF StopIfFound
  <2>2. /\ r.left = "no" /\ r.yes /\ Inv(r.w) /\ r.w.ua.stopped
        /\ r.w.ta = w.ta
        /\ r.w.ua = IF w.ua.stopped THEN w.ua
                    ELSE [w.ua EXCEPT !.stopped = TRUE]
    BY <2>1, StopGood
  <2>3. Follows(w.ua, r.w.ua)
    <3> DEFINE u == w.ua
    <3>1. Follows(u, u) /\ Follows(u, [u EXCEPT !.stopped = TRUE])
      BY <1>0, FollowsStopped, FollowsKilled
    <3> HIDE DEF u
    <3>2. QED
      BY <2>2, <3>1 DEF u
  <2>4. QED
    BY <2>2, <2>3
<1>2. CASE w.st.id # "main"
  <2>1. r \in Yes(Searched(w)) /\ w.ua.stopped
    BY <1>2 DEF StopIfFound, Core, Body, Ends
  <2>2. Searched(w).ua.stopped /\ Follows(w.ua, Searched(w).ua)
    BY <1>0, <2>1, SearchedGood, KilledUaIs, FollowsKilled
  <2>3. Inv(Searched(w))
    BY <2>2, SearchedGood, StoppedRests
  <2>4. QED
    BY <2>1, <2>2, <2>3, SearchedGood DEF Yes
<1>3. QED
  BY <1>1, <1>2

-----------------------------------------------------------------------------
(* The end of a transaction.                                               *)

(* A transaction that has ended is handed to CDeleteMgr.                   *)
Forgets(w, z) ==
  /\ z \in WorldType /\ z.ta = w.ta /\ z.tm = w.tm /\ z.tx = w.tx
  /\ z.ut = w.ut /\ z.hist = w.hist /\ z.st.id = w.st.id
  /\ z.st.ind = w.st.ind
  /\ z.ua = [w.ua EXCEPT !.cur = 0]
  /\ z.del = [w.del EXCEPT !.doomed = @ \cup {w.ua.cur}]

LEMMA ForgottenGood ==
  ASSUME NEW w, Core(w), w.ua.cur # 0, w.ta[w.ua.cur].over,
         NEW z, Forgets(w, z)
  PROVE  /\ Core(z)
         /\ Steady(w) /\ z.st.rx = 0 => Rest(z)
         /\ Follows(w.ua, z.ua) /\ z.ua.cur = 0
         /\ z.ua.stopped = w.ua.stopped
<1> DEFINE u == w.ua
           d == w.del
<1>1. u \in UaType /\ d \in DelType
  BY DEF Core, Body, WorldType
<1>2. /\ z.ua = [u EXCEPT !.cur = 0]
      /\ z.del = [d EXCEPT !.doomed = @ \cup {u.cur}]
  BY DEF Forgets
<1>0. /\ z \in WorldType /\ z.ta = w.ta /\ z.tm = w.tm /\ z.tx = w.tx
      /\ z.ut = w.ut /\ z.hist = w.hist /\ z.st.id = w.st.id
      /\ z.st.ind = w.st.ind
  BY DEF Forgets
<1> HIDE DEF u, d
<1>3. /\ Follows(u, z.ua) /\ z.ua.cur = 0
      /\ z.ua.stopped = u.stopped /\ z.ua.secwait = u.secwait
      /\ z.ua.held = u.held
  BY <1>1, <1>2 DEF UaType, Follows
<1>4. /\ z.del.doomed = d.doomed \cup {u.cur}
      /\ z.del.marked = d.marked /\ z.del.gone = d.gone
  BY <1>1, <1>2 DEF DelType
<1>5. /\ Dying(z.del) = Dying(d) \cup {u.cur} /\ u.cur \in Ta /\ u.cur # Ua
      /\ \A i : Runs(z.ta, z.del, i) <=> Runs(w.ta, d, i)
  <2>1. u.cur \in Ta /\ u.cur # Ua
    BY <1>1, Ids DEF UaType, u
  <2>2. QED
    BY <1>0, <1>4, <2>1 DEF Dying, Runs, Here
<1>6. /\ Ends(z.ua, z.st, z.del, z.hist) /\ Kept(z.ua, z.ut)
      /\ Heard(z.ua, z.hist) /\ Acks(z.ua, z.tx) /\ Budget(z.ua)
  BY <1>0, <1>3, <1>4, <1>5
     DEF Core, Body, Ends, Kept, Heard, Acks, Budget, Follows, Dying, u, d
<1>7. Limit(z.ua, z.ta, z.del)
  BY <1>0, <1>3, <1>5 DEF Core, Body, Limit, Follows, u, d
<1>8. Made(z.ta, z.tm, z.tx, z.ua, z.st, z.del)
  <2>1. w.ta[u.cur].state # "none" /\ Made(w.ta, w.tm, w.tx, u, w.st, d)
    BY <1>5 DEF Core, Body, Made, u, d
  <2>2. z.ua.n = u.n /\ z.ua.held = u.held /\ z.ua.cur = 0
    BY <1>0, <1>3 DEF Follows
  <2>3. /\ Dying(z.del) \cup z.del.gone = Dying(d) \cup d.gone \cup {u.cur}
        /\ z.st.ind = w.st.ind /\ z.ta = w.ta /\ z.tm = w.tm /\ z.tx = w.tx
    BY <1>0, <1>4, <1>5
  <2>4. ASSUME NEW i \in Ta
        PROVE  /\ i > u.n => w.ta[i].state = "none"
               /\ w.ta[i].state = "none" =>
                    /\ w.ta[i] = NoTa /\ i \notin Dying(d) \cup d.gone
                    /\ i # u.cur /\ i # u.held /\ i \notin w.st.ind
                    /\ w.tx[i] = "idle" /\ i # 0
                    /\ \A k \in TaTimers : w.tm[i][k] = "off"
    BY <2>1, Ids DEF Made
  <2>5. QED
    BY <2>2, <2>3, <2>4 DEF Made
<1>9. Current(z.ta, z.ua, z.del)
  <2>1. Current(w.ta, u, d)
    BY DEF Core, Body, u, d
  <2>2. QED
    BY <1>0, <1>3, <1>4, <1>5, <2>1 DEF Current, Follows
<1>10. /\ Attached(z.ta, z.ua, z.st, z.del) /\ Acked(z.ta)
       /\ Freeing(z.ta, z.del)
       /\ Sending(z.ta, z.tx, z.ua, z.del)
       /\ LetGo(z.ta, z.tm, z.tx, z.del)
  <2>1. /\ w.ta[u.cur].over /\ u.cur \notin Dying(d) \cup d.gone
        /\ Attached(w.ta, u, w.st, d) /\ Acked(w.ta) /\ Freeing(w.ta, d)
        /\ Sending(w.ta, w.tx, u, d) /\ LetGo(w.ta, w.tm, w.tx, d)
    BY DEF Core, Body, Current, u, d
  <2>2. Attached(z.ta, z.ua, z.st, z.del) /\ Acked(z.ta)
    <3>1. z.ta = w.ta /\ z.st.ind = w.st.ind /\ ~Runs(w.ta, d, u.cur)
      BY <1>0, <2>1 DEF Runs
    <3>2. QED
      BY <1>0, <1>5, <2>1, <3>1 DEF Attached
  <2>3. Freeing(z.ta, z.del)
    BY <1>0, <1>4, <1>5, <2>1 DEF Freeing, Dying
  <2>4. Sending(z.ta, z.tx, z.ua, z.del)
    <3>1. /\ z.ta = w.ta /\ z.tx = w.tx /\ z.del.gone = d.gone
          /\ w.tx[Ua] # "ta"
      BY <1>0, <1>4, <2>1 DEF Sending
    <3>2. QED
      BY <2>1, <3>1 DEF Sending
  <2>5. LetGo(z.ta, z.tm, z.tx, z.del)
    BY <1>0, <1>5, <2>1 DEF LetGo, Timed
  <2>6. QED
    BY <2>2, <2>3, <2>4, <2>5
<1>11. Core(z)
  BY <1>0, <1>6, <1>7, <1>8, <1>9, <1>10 DEF Core, Body
<1>12. Steady(w) /\ z.st.rx = 0 => Rest(z)
  BY <1>0, <1>3 DEF Steady, Rest, Fresh, Awaits, CurrentEnds, Follows, u
<1>13. QED
  BY <1>0, <1>3, <1>11, <1>12 DEF u

LEMMA RequestDeletionOfTransactionGood ==
  ASSUME NEW w, Core(w), w.ua.cur # 0 => w.ta[w.ua.cur].over,
         NEW r \in RequestDeletionOfTransactionL(w)
  PROVE  /\ Core(r.w) /\ (Steady(w) => Rest(r.w))
         /\ r.w.ta = w.ta /\ Follows(w.ua, r.w.ua)
         /\ r.w.ua.stopped = w.ua.stopped /\ r.w.hist = w.hist
         /\ r.w.ut["S"] = "on" => w.ut["S"] = "on"
         /\ \/ r.left = "no" /\ r.yes /\ r.w.ua.cur = 0
            \/ r.left = "nomem" /\ r.w = w
<1>0. /\ w.ua \in UaType
      /\ Follows(w.ua, w.ua)
  BY FollowsKilled DEF Core, Body, WorldType
<1>1. Steady(w) => Rest(w)
  BY DEF Rest, CurrentEnds, Runs
<1>2. CASE w.ua.cur = 0
  BY <1>0, <1>1, <1>2 DEF RequestDeletionOfTransactionL, Yes
<1>3. CASE w.ua.cur # 0
  <2> DEFINE w1 == [w EXCEPT !.del.doomed = @ \cup {w.ua.cur}, !.ua.cur = 0]
  <2>1. r \in Yes(ClearTransaction(w1)) \cup MayLeave("delete", w)
    BY <1>3 DEF RequestDeletionOfTransactionL
  <2>2. CASE r \in MayLeave("delete", w)
    BY <1>0, <1>1, <2>2 DEF MayLeave, Leave
  <2>3. CASE r \in Yes(ClearTransaction(w1))
    <3>1. /\ w.ua \in UaType /\ w.del \in DelType /\ w.st \in StType
          /\ w \in WorldType /\ w.ua.cur \in Obj /\ 0 \in Obj /\ Ua = 0
      BY Ids DEF Core, Body, WorldType, UaType
    <3> DEFINE d1 == [w.del EXCEPT !.doomed = @ \cup {w.ua.cur}]
               u1 == [w.ua EXCEPT !.cur = 0]
    <3>2. u1 \in UaType
      BY <3>1, UaWith
    <3>3. d1 \in DelType
      BY <3>1 DEF DelType
    <3>4. w1 = [w EXCEPT !.del = d1, !.ua = u1]
      BY <3>1 DEF WorldType
    <3> HIDE DEF d1, u1, w1
    <3>5. /\ w1 \in WorldType /\ w1.ua = u1 /\ w1.del = d1 /\ w1.st = w.st
          /\ w1.ta = w.ta /\ w1.tm = w.tm /\ w1.tx = w.tx /\ w1.ut = w.ut
          /\ w1.hist = w.hist
      BY <3>1, <3>2, <3>3, <3>4 DEF WorldType
    <3>6. CASE w.st.id = "main"
      <4> DEFINE z == [w1 EXCEPT !.st.rx = Ua]
      <4>1. /\ z \in WorldType /\ z.ua = u1 /\ z.del = d1
            /\ z.ta = w.ta /\ z.tm = w.tm /\ z.tx = w.tx /\ z.ut = w.ut
            /\ z.hist = w.hist
        BY <3>1, <3>5 DEF WorldType, StType
      <4>2. z.st.rx = 0 /\ z.st.id = w.st.id /\ z.st.ind = w.st.ind
        BY <3>1, <3>5 DEF WorldType, StType
      <4>3. r.w = z /\ r.left = "no" /\ r.yes
        BY <2>3, <3>5, <3>6 DEF ClearTransaction, Yes
      <4> HIDE DEF z
      <4>4. QED
        BY <1>3, <4>1, <4>2, <4>3, ForgottenGood DEF u1, d1, Forgets
    <3>7. CASE w.st.id # "main"
      <4>1. /\ Core(w1) /\ w1.ua.stopped = w.ua.stopped
            /\ Follows(w.ua, w1.ua) /\ w1.ua.cur = 0
        BY <1>3, <3>5, ForgottenGood DEF u1, d1, Forgets
      <4>2. r.w = Searched(w1) /\ r.left = "no" /\ r.yes
        BY <2>3, <3>5, <3>7 DEF ClearTransaction, Yes
      <4>3. w.ua.stopped
        BY <3>7 DEF Core, Body, Ends
      <4>4. /\ Core(r.w) /\ r.w.ta = w1.ta /\ r.w.hist = w1.hist
            /\ r.w.ua = w1.ua \/ r.w.ua = KilledUa(w1.ua)
            /\ r.w.ut["S"] = "on" => w1.ut["S"] = "on"
        BY <4>1, <4>2, SearchedGood
      <4>5. w1.ua \in UaType
        BY <3>5 DEF WorldType
      <4>6. /\ r.w.ua.stopped /\ r.w.ua.cur = 0
            /\ Follows(w.ua, r.w.ua)
        <5> DEFINE u == w.ua
                   v == w1.ua
        <5>1. /\ v \in UaType /\ Follows(u, v) /\ v.stopped /\ v.cur = 0
          BY <4>1, <4>3, <4>5
        <5>2. r.w.ua = v \/ r.w.ua = KilledUa(v)
          BY <4>4
        <5> HIDE DEF u, v
        <5>3. Follows(u, KilledUa(v))
          BY <5>1, FollowsKilled, FollowsTrans
        <5>4. KilledUa(v).stopped /\ KilledUa(v).cur = 0
          BY <5>1, KilledUaIs
        <5>5. QED
          BY <5>1, <5>2, <5>3, <5>4 DEF u
      <4>7. QED
        BY <3>5, <4>2, <4>3, <4>4, <4>6, StoppedRests DEF Inv
    <3>8. QED
      BY <3>6, <3>7
  <2>4. QED
    BY <2>1, <2>2, <2>3
<1>4. QED
  BY <1>2, <1>3

(* One transaction changes, with its timers and its transmitter.           *)
TaOnly(w, z, i) ==
  /\ z \in WorldType /\ z.ua = w.ua /\ z.ut = w.ut /\ z.st = w.st
  /\ z.del = w.del /\ z.hist = w.hist
  /\ \A j \in Ta : j # i => /\ z.ta[j] = w.ta[j] /\ z.tm[j] = w.tm[j]
                            /\ z.tx[j] = w.tx[j]
  /\ w.ta[i].state # "none" /\ z.ta[i].state # "none"
  /\ z.ta[i].att = w.ta[i].att /\ z.ta[i].indep = w.ta[i].indep
  /\ w.ta[i].over => z.ta[i].over

Answered(t) == t.over \/ t.state = "Completed"

TaMay(w, z, i) ==
  /\ ~z.ta[i].over /\ ~z.ta[i].att => z.ta[i].state = "Completed"
  /\ z.ta[i].state = "Completed" /\ ~z.ta[i].over => z.ta[i].msg = "ack"
  /\ Answered(w.ta[i]) => Answered(z.ta[i])
  /\ z.tx[Ua] = "ua" => w.tx[Ua] = "ua"
  /\ z.tx[Ua] = "ta" => w.ua.cur # 0 /\ ~z.ta[w.ua.cur].over
  /\ z.tx[i] # "idle" => /\ z.tx[i] = "ta" /\ z.ta[i].indep
                         /\ ~z.ta[i].over /\ i \notin w.del.gone

LEMMA TaStepGood ==
  ASSUME NEW w, Body(w), NEW i \in Ta, NEW z, TaOnly(w, z, i), TaMay(w, z, i)
  PROVE  /\ Body(z) /\ (Steady(w) => Steady(z))
         /\ \A j \in Ta : j # i /\ Timed(w.ta, w.tm, w.tx, w.del, j)
              => Timed(z.ta, z.tm, z.tx, z.del, j)
<1>1. /\ z \in WorldType /\ z.ua = w.ua /\ z.ut = w.ut /\ z.st = w.st
      /\ z.del = w.del /\ z.hist = w.hist
      /\ \A j \in Ta : j # i => /\ z.ta[j] = w.ta[j] /\ z.tm[j] = w.tm[j]
                                /\ z.tx[j] = w.tx[j]
      /\ w.ta[i].state # "none" /\ z.ta[i].state # "none"
      /\ z.ta[i].att = w.ta[i].att /\ z.ta[i].indep = w.ta[i].indep
      /\ w.ta[i].over => z.ta[i].over
  BY DEF TaOnly
<1>2. /\ \A j \in Ta : Runs(z.ta, z.del, j) => Runs(w.ta, w.del, j)
      /\ \A j \in Ta : j # i =>
           (Runs(z.ta, z.del, j) <=> Runs(w.ta, w.del, j))
      /\ \A j \in Ta : (z.ta[j].state = "none") <=> (w.ta[j].state = "none")
      /\ \A j \in Ta : z.ta[j].att = w.ta[j].att
      /\ \A j \in Ta : z.ta[j].indep = w.ta[j].indep
      /\ \A j \in Ta : w.ta[j].over => z.ta[j].over
      /\ \A j \in Ta : Answered(w.ta[j]) => Answered(z.ta[j])
  BY <1>1 DEF Runs, Here, TaMay
<1>3. /\ Ends(z.ua, z.st, z.del, z.hist) /\ Kept(z.ua, z.ut)
      /\ Heard(z.ua, z.hist) /\ Budget(z.ua) /\ Acks(z.ua, z.tx)
  BY <1>1 DEF Body, Acks, TaMay
<1>4. Limit(z.ua, z.ta, z.del)
  BY <1>1, <1>2 DEF Body, Limit
<1>5. Made(z.ta, z.tm, z.tx, z.ua, z.st, z.del)
  BY <1>1, <1>2 DEF Body, Made
<1>6. w.ua.cur \in Ta \cup {0} /\ w.ua.held \in Ta \cup {0}
  BY Ids DEF Body, WorldType, UaType
<1>7. Current(z.ta, z.ua, z.del)
  BY <1>1, <1>2, <1>6 DEF Body, Current, Answered
<1>8. Attached(z.ta, z.ua, z.st, z.del)
  <2> SUFFICES ASSUME NEW j \in Ta, Runs(z.ta, z.del, j)
               PROVE  IF z.ta[j].att THEN j = z.ua.cur
                      ELSE z.ta[j].indep /\ j \in z.st.ind
                           /\ z.ta[j].state = "Completed"
    BY DEF Attached
  <2>1. IF w.ta[j].att THEN j = w.ua.cur
        ELSE w.ta[j].indep /\ j \in w.st.ind /\ w.ta[j].state = "Completed"
    BY <1>2 DEF Body, Attached
  <2>2. j = i /\ ~z.ta[i].att => z.ta[i].state = "Completed"
    BY DEF TaMay, Runs
  <2>3. QED
    BY <1>1, <2>1, <2>2
<1>9. Acked(z.ta)
  BY <1>1 DEF Body, Acked, TaMay
<1>10. Freeing(z.ta, z.del)
  BY <1>1, <1>2 DEF Body, Freeing
<1>11. Sending(z.ta, z.tx, z.ua, z.del)
  BY <1>1, <1>2 DEF Body, Sending, TaMay
<1>12. Steady(w) => Steady(z)
  <2>1. Fresh(w.ta, w.ua) => Fresh(z.ta, z.ua)
    BY <1>1, <1>2 DEF Fresh
  <2>2. Awaits(w.ta, w.ua) => Awaits(z.ta, z.ua)
    BY <1>1, <1>2, <1>6 DEF Awaits, Answered
  <2>3. QED
    BY <1>1, <2>1, <2>2 DEF Steady
<1>13. \A j \in Ta : j # i /\ Timed(w.ta, w.tm, w.tx, w.del, j)
         => Timed(z.ta, z.tm, z.tx, z.del, j)
  BY <1>1, <1>2 DEF Timed
<1>14. QED
  BY <1>1, <1>3, <1>4, <1>5, <1>7, <1>8, <1>9, <1>10, <1>11, <1>12, <1>13
     DEF Body

(* One field of a transaction changes.                                     *)
LEMMA TaWith ==
  ASSUME NEW t \in TaType
  PROVE  /\ LET z == [t EXCEPT !.over = TRUE] IN
              /\ z \in TaType /\ z.over /\ z.state = t.state /\ z.msg = t.msg
              /\ z.att = t.att /\ z.indep = t.indep /\ z.udp = t.udp
         /\ \A c \in {"none", "invite", "ack"} :
              LET z == [t EXCEPT !.msg = c] IN
              /\ z \in TaType /\ z.msg = c /\ z.state = t.state
              /\ z.over = t.over /\ z.att = t.att /\ z.indep = t.indep
              /\ z.udp = t.udp
         /\ \A c \in {"Calling", "Proceeding", "Completed"} :
              LET z == [t EXCEPT !.state = c] IN
              /\ z \in TaType /\ z.state = c /\ z.msg = t.msg
              /\ z.over = t.over /\ z.att = t.att /\ z.indep = t.indep
              /\ z.udp = t.udp
BY DEF TaType

(* The world with the transaction, its timers and a transmitter replaced.  *)
With(w, i, t, m, k, x) ==
  [w EXCEPT !.ta[i] = t, !.tm[i] = m, !.tx[k] = x]

IsWith(w, i, t, m, k, x, z) ==
  /\ z \in WorldType /\ z.ua = w.ua /\ z.ut = w.ut /\ z.st = w.st
  /\ z.del = w.del /\ z.hist = w.hist
  /\ z.ta[i] = t /\ z.tm[i] = m /\ z.tx[k] = x
  /\ \A j \in Ta : j # i => z.ta[j] = w.ta[j] /\ z.tm[j] = w.tm[j]
  /\ \A j \in Obj : j # k => z.tx[j] = w.tx[j]

LEMMA WithIs ==
  ASSUME NEW w \in WorldType, NEW i \in Ta, NEW t \in TaType,
         NEW m \in [TaTimers -> TimerType], NEW k \in {Ua, i},
         NEW x \in {"idle", "ta", "ua"}, NEW z, z = With(w, i, t, m, k, x)
  PROVE  IsWith(w, i, t, m, k, x, z)
<1> DEFINE t1 == [w.ta EXCEPT ![i] = t]
           m1 == [w.tm EXCEPT ![i] = m]
           x1 == [w.tx EXCEPT ![k] = x]
<1>1. /\ w.ta \in [Ta -> TaType] /\ w.tm \in [Ta -> [TaTimers -> TimerType]]
      /\ w.tx \in [Obj -> {"idle", "ta", "ua"}] /\ k \in Obj
  BY Ids DEF WorldType
<1>2. z = [w EXCEPT !.ta = t1, !.tm = m1, !.tx = x1]
  BY DEF With
<1>3. /\ t1 \in [Ta -> TaType] /\ t1[i] = t
      /\ \A j \in Ta : j # i => t1[j] = w.ta[j]
  BY <1>1
<1>4. /\ m1 \in [Ta -> [TaTimers -> TimerType]] /\ m1[i] = m
      /\ \A j \in Ta : j # i => m1[j] = w.tm[j]
  BY <1>1
<1>5. /\ x1 \in [Obj -> {"idle", "ta", "ua"}] /\ x1[k] = x
      /\ \A j \in Obj : j # k => x1[j] = w.tx[j]
  BY <1>1
<1> HIDE DEF t1, m1, x1
<1>6. /\ z \in WorldType /\ z.ta = t1 /\ z.tm = m1 /\ z.tx = x1
      /\ z.ua = w.ua /\ z.ut = w.ut /\ z.st = w.st
      /\ z.del = w.del /\ z.hist = w.hist
  BY <1>2, <1>3, <1>4, <1>5 DEF WorldType
<1>7. QED
  BY <1>3, <1>4, <1>5, <1>6 DEF IsWith

(* What holds while a handler of transaction i runs, and where it leaves:  *)
(* nothing else than i may be without a deadline.                          *)
Nearly(w, i) ==
  /\ Body(w) /\ Steady(w)
  /\ \A j \in Ta : j # i => Timed(w.ta, w.tm, w.tx, w.del, j)
  /\ ~w.ua.stopped /\ w.ua.cur # i =>
       CurrentEnds(w.ta, w.tm, w.tx, w.ua, w.del, w.hist)

LEMMA InvIsNearly ==
  ASSUME NEW w, Inv(w), NEW i \in Ta
  PROVE  Nearly(w, i)
BY DEF Inv, Core, Rest, Nearly, LetGo

LEMMA NearlyOver ==
  ASSUME NEW w, NEW i \in Ta, Nearly(w, i), w.ta[i].over
  PROVE  Inv(w)
<1>1. Timed(w.ta, w.tm, w.tx, w.del, i)
  BY DEF Timed, Runs
<1>2. w.ua.cur = i =>
        CurrentEnds(w.ta, w.tm, w.tx, w.ua, w.del, w.hist)
  BY DEF CurrentEnds, Runs
<1>3. QED
  BY <1>1, <1>2 DEF Nearly, Inv, Core, Rest, LetGo

(* A transaction that runs is the current one, or has been let go.         *)
LEMMA CurrentOrLetGo ==
  ASSUME NEW w, Body(w), NEW i \in Ta, Runs(w.ta, w.del, i)
  PROVE  /\ i \notin Dying(w.del) \cup w.del.gone
         /\ w.ta[i].att => i = w.ua.cur /\ ~w.ta[i].indep
         /\ ~w.ta[i].att => /\ w.ta[i].indep /\ i # w.ua.cur /\ i \in w.st.ind
                            /\ w.ta[i].state = "Completed"
         /\ i = w.ua.cur <=> w.ta[i].att
<1>1. i # 0
  BY Ids
<1>2. QED
  BY <1>1 DEF Body, Attached, Current, Freeing, Runs, Here

LEMMA TerminatedGood ==
  ASSUME NEW w, NEW i \in Ta, Nearly(w, i), Runs(w.ta, w.del, i)
  PROVE  LET z == Terminated(w, i) IN
         /\ Inv(z) /\ z.ta[i].over
         /\ z.ua = w.ua /\ z.st = w.st /\ z.del = w.del /\ z.hist = w.hist
         /\ z.ut = w.ut
         /\ z.ta[i].att = w.ta[i].att /\ z.ta[i].indep = w.ta[i].indep
         /\ \A j \in Ta : j # i => z.ta[j] = w.ta[j]
<1> DEFINE k == TxOf(w, i)
           t1 == [w.ta[i] EXCEPT !.over = TRUE]
           x1 == IF w.tx[k] = "ta" THEN "idle" ELSE w.tx[k]
           m1 == w.tm[i]
           z == With(w, i, t1, m1, k, x1)
<1>1. /\ w \in WorldType /\ w.ta \in [Ta -> TaType]
      /\ w.tm \in [Ta -> [TaTimers -> TimerType]]
      /\ w.tx \in [Obj -> {"idle", "ta", "ua"}] /\ k \in {Ua, i} /\ k \in Obj
      /\ ~w.ta[i].over /\ w.ta[i].state # "none"
      /\ m1 \in [TaTimers -> TimerType]
  BY Ids DEF Nearly, Body, WorldType, TxOf, Runs, Here
<1>2. Terminated(w, i) = z
  BY <1>1 DEF Terminated, With, WorldType
<1>3. /\ t1 \in TaType /\ t1.over /\ t1.state = w.ta[i].state
      /\ t1.msg = w.ta[i].msg /\ t1.att = w.ta[i].att
      /\ t1.indep = w.ta[i].indep
  BY <1>1, TaWith
<1>4. x1 \in {"idle", "ta", "ua"} /\ x1 # "ta" /\ (x1 # "idle" => x1 = w.tx[k])
  BY <1>1
<1>5. k = IF w.ta[i].indep THEN i ELSE Ua
  BY DEF TxOf
<1> HIDE DEF t1, x1, k, m1
<1>z. z = With(w, i, t1, m1, k, x1)
  OBVIOUS
<1> HIDE DEF z
<1>6. /\ z \in WorldType /\ z.ua = w.ua /\ z.ut = w.ut /\ z.st = w.st
      /\ z.del = w.del /\ z.hist = w.hist
      /\ z.ta[i] = t1 /\ z.tm[i] = m1 /\ z.tx[k] = x1
      /\ \A j \in Ta : j # i => z.ta[j] = w.ta[j] /\ z.tm[j] = w.tm[j]
      /\ \A j \in Obj : j # k => z.tx[j] = w.tx[j]
  <2>1. /\ w \in WorldType /\ t1 \in TaType /\ k \in {Ua, i}
        /\ m1 \in [TaTimers -> TimerType] /\ x1 \in {"idle", "ta", "ua"}
    BY <1>1, <1>3, <1>4
  <2>2. IsWith(w, i, t1, m1, k, x1, z)
    BY <2>1, <1>z, WithIs
  <2>3. QED
    BY <2>2 DEF IsWith
<1>7. TaOnly(w, z, i)
  BY <1>1, <1>3, <1>5, <1>6, Ids DEF TaOnly
<1>8. TaMay(w, z, i)
  <2>1. Sending(w.ta, w.tx, w.ua, w.del) /\ Body(w)
    BY DEF Nearly, Body
  <2>2. z.tx[Ua] = "ua" => w.tx[Ua] = "ua"
    BY <1>4, <1>6, Ids
  <2>3. z.tx[Ua] = "ta" => w.ua.cur # 0 /\ ~z.ta[w.ua.cur].over
    <3>1. SUFFICES ASSUME z.tx[Ua] = "ta"
                   PROVE  w.ua.cur # 0 /\ ~z.ta[w.ua.cur].over
      OBVIOUS
    <3>2. k # Ua
      BY <1>4, <1>6, <3>1
    <3>3. i # w.ua.cur
      BY <1>5, <3>2, <2>1, CurrentOrLetGo
    <3>4. w.ua.cur \in Ta \cup {0}
      BY <1>1, Ids DEF WorldType, UaType
    <3>5. QED
      BY <1>6, <2>1, <3>1, <3>2, <3>3, <3>4, Ids DEF Sending
  <2>4. z.tx[i] = "idle"
    BY <1>1, <1>4, <1>5, <1>6, <2>1, Ids DEF Sending
  <2>5. QED
    BY <1>3, <1>6, <2>2, <2>3, <2>4 DEF TaMay, Answered
<1>9. /\ Body(z) /\ Steady(z)
      /\ \A j \in Ta : j # i => Timed(z.ta, z.tm, z.tx, z.del, j)
  BY <1>7, <1>8, TaStepGood DEF Nearly
<1>10. ~z.ua.stopped /\ z.ua.cur # i =>
         CurrentEnds(z.ta, z.tm, z.tx, z.ua, z.del, z.hist)
  <2>1. SUFFICES ASSUME ~z.ua.stopped, z.ua.cur # i, z.ua.cur # 0
                 PROVE  CurrentEnds(z.ta, z.tm, z.tx, z.ua, z.del, z.hist)
    BY DEF CurrentEnds
  <2>2. z.ua.cur \in Ta
    BY <1>1, <1>6, <2>1, Ids DEF WorldType, UaType
  <2>3. z.tx[Ua] = w.tx[Ua]
    BY <1>5, <1>6, <2>1, Ids, CurrentOrLetGo DEF Nearly
  <2>4. QED
    BY <1>6, <2>1, <2>2, <2>3 DEF Nearly, CurrentEnds, Runs, Here
<1>11. Inv(z)
  BY <1>3, <1>6, <1>9, <1>10, NearlyOver DEF Nearly
<1>12. QED
  BY <1>2, <1>3, <1>6, <1>11

-----------------------------------------------------------------------------
(* The user agent lets a transaction go, and makes another one.            *)

(* What a step that ends or replaces the transaction keeps.                *)
Keeps(w, z) ==
  /\ Follows(w.ua, z.ua) /\ z.ua.stopped = w.ua.stopped /\ z.hist = w.hist
  /\ z.ut["S"] = "on" => w.ut["S"] = "on"
  /\ \A j \in Ta : w.ta[j].over \/ w.ta[j].state = "none"
       => z.ta[j] = w.ta[j]

(* The store finds the user agent by a new entry.                          *)
Reentered(w, z) ==
  /\ Core(z) /\ (Steady(w) => Rest(z)) /\ Keeps(w, z)
  /\ z.ta = w.ta /\ z.ua.cur = 0 /\ z.st.id = "main" /\ z.st.rx = 0

LEMMA EntryGood ==
  ASSUME NEW w, Core(w), w.ua.cur = 0, NEW b \in Branches
  PROVE  Reentered(w, [w EXCEPT !.st = Entry(b, Ua, w.st.ind)])
<1> DEFINE s == Entry(b, Ua, w.st.ind)
           z == [w EXCEPT !.st = s]
<1>1. /\ w \in WorldType /\ w.st \in StType /\ w.ua \in UaType
      /\ w.ta \in [Ta -> TaType]
  BY DEF Core, Body, WorldType
<1>2. /\ s \in StType /\ s.id = "main" /\ s.rx = 0 /\ s.ind = w.st.ind
  BY <1>1, Ids DEF Entry, StType
<1> HIDE DEF s
<1>3. /\ z \in WorldType /\ z.st = s /\ z.ta = w.ta /\ z.tm = w.tm
      /\ z.tx = w.tx /\ z.ua = w.ua /\ z.ut = w.ut /\ z.del = w.del
      /\ z.hist = w.hist
  BY <1>1, <1>2 DEF WorldType
<1> HIDE DEF z
<1>4. /\ Ends(z.ua, z.st, z.del, z.hist)
      /\ Made(z.ta, z.tm, z.tx, z.ua, z.st, z.del)
      /\ Attached(z.ta, z.ua, z.st, z.del)
  BY <1>2, <1>3 DEF Core, Body, Ends, Made, Attached
<1>5. Core(z)
  BY <1>3, <1>4 DEF Core, Body
<1>6. Steady(w) => Rest(z)
  BY <1>2, <1>3 DEF Steady, Rest, CurrentEnds
<1>7. Keeps(w, z)
  BY <1>1, <1>3, FollowsKilled DEF Keeps
<1>8. Reentered(w, z)
  BY <1>2, <1>3, <1>5, <1>6, <1>7 DEF Reentered
<1>9. QED
  BY <1>8 DEF z, s

LEMMA ReplacedGood ==
  ASSUME NEW w, Core(w), w.ua.cur = 0, NEW b \in Branches
  PROVE  Reentered(w,
           [RemoveFromStore(w) EXCEPT !.st = Entry(b, Ua, @.ind)])
<1> DEFINE z == [RemoveFromStore(w) EXCEPT !.st = Entry(b, Ua, @.ind)]
<1>1. w \in WorldType /\ w.ua \in UaType
  BY DEF Core, Body, WorldType
<1>2. CASE w.st.id = "main"
  <2>1. RemoveFromStore(w) = [w EXCEPT !.st.id = "none"]
    BY <1>2 DEF RemoveFromStore
  <2>2. w.st \in StType
    BY <1>1 DEF WorldType
  <2> DEFINE s1 == [w.st EXCEPT !.id = "none"]
             u == [w EXCEPT !.st = s1]
             e == Entry(b, Ua, w.st.ind)
  <2>3. s1.ind = w.st.ind
    BY <2>2 DEF StType
  <2> HIDE DEF s1, e
  <2>4. u.st = s1 /\ [u EXCEPT !.st = e] = [w EXCEPT !.st = e]
    BY <1>1 DEF WorldType
  <2>6. RemoveFromStore(w) = u
    BY <2>1 DEF s1
  <2> HIDE DEF u
  <2>7. z = [w EXCEPT !.st = e]
    BY <2>3, <2>4, <2>6 DEF e
  <2>5. QED
    BY <2>7, EntryGood DEF e
<1>3. CASE w.st.id # "main"
  <2> DEFINE u == Searched(w)
  <2>1. RemoveFromStore(w) = u
    BY <1>3 DEF RemoveFromStore
  <2>2. /\ Core(u) /\ (Steady(w) => Steady(u)) /\ u.ta = w.ta
        /\ u.hist = w.hist /\ u.ua \in {w.ua, KilledUa(w.ua)}
        /\ u.ut["S"] = "on" => w.ut["S"] = "on"
    BY SearchedGood
  <2> HIDE DEF u
  <2>3. z = [u EXCEPT !.st = Entry(b, Ua, u.st.ind)]
    BY <2>1
  <2>4. u.ua.cur = 0 /\ u.ua.stopped = w.ua.stopped /\ Follows(w.ua, u.ua)
    BY <1>1, <2>2, FollowsKilled, KilledUaIs
  <2>5. Reentered(u, z)
    BY <2>2, <2>3, <2>4, EntryGood
  <2> HIDE DEF z
  <2>6. Keeps(w, z)
    <3>1. Follows(u.ua, z.ua) /\ Keeps(u, z)
      BY <2>5 DEF Keeps, Reentered
    <3>2. Follows(w.ua, z.ua)
      BY <2>4, <3>1, FollowsTrans
    <3>3. QED
      BY <2>2, <2>4, <3>1, <3>2 DEF Keeps
  <2>7. QED
    BY <2>2, <2>5, <2>6 DEF Reentered, z
<1>4. QED
  BY <1>2, <1>3

LEMMA IgnoreResponseRetransmissionsGood ==
  ASSUME NEW w, Core(w), w.ua.cur = 0,
         NEW r \in IgnoreResponseRetransmissionsL(w)
  PROVE  Reentered(w, r.w) /\ r.left = "no" /\ r.yes
<1> DEFINE z == [RemoveFromStore(w) EXCEPT !.st = Entry(0, Ua, @.ind)]
<1>1. r \in Yes(z)
  BY DEF IgnoreResponseRetransmissionsL, Assert
<1>2. Reentered(w, z)
  BY BranchIs, ReplacedGood
<1> HIDE DEF z
<1>3. QED
  BY <1>1, <1>2 DEF Yes

(* The user agent's transmitter stops sending.                             *)
Quiet(w) == [w EXCEPT !.tx[Ua] = "idle"]

LEMMA QuietIs ==
  ASSUME NEW w \in WorldType
  PROVE  /\ Quiet(w) \in WorldType /\ Quiet(w).ta = w.ta
         /\ Quiet(w).tm = w.tm /\ Quiet(w).ua = w.ua /\ Quiet(w).ut = w.ut
         /\ Quiet(w).st = w.st /\ Quiet(w).del = w.del
         /\ Quiet(w).hist = w.hist
         /\ Quiet(w).tx[Ua] = "idle"
         /\ \A i \in Ta : Quiet(w).tx[i] = w.tx[i]
<1> DEFINE x == [w.tx EXCEPT ![Ua] = "idle"]
<1>1. /\ x \in [Obj -> {"idle", "ta", "ua"}] /\ x[Ua] = "idle"
      /\ \A i \in Ta : x[i] = w.tx[i]
  BY Ids DEF WorldType
<1>2. Quiet(w) = [w EXCEPT !.tx = x]
  BY DEF Quiet
<1> HIDE DEF x
<1>3. QED
  BY <1>1, <1>2 DEF WorldType

LEMMA QuietGood ==
  ASSUME NEW w, Body(w)
  PROVE  /\ Body(Quiet(w)) /\ (Steady(w) => Steady(Quiet(w)))
         /\ \A i \in Ta : Timed(w.ta, w.tm, w.tx, w.del, i) =>
              Timed(Quiet(w).ta, Quiet(w).tm, Quiet(w).tx, Quiet(w).del, i)
         /\ Core(w) => Core(Quiet(w)) /\ Keeps(w, Quiet(w))
<1> DEFINE z == Quiet(w)
<1>1. /\ w \in WorldType /\ w.ua \in UaType
  BY DEF Body, WorldType
<1>2. /\ z \in WorldType /\ z.ta = w.ta /\ z.tm = w.tm /\ z.ua = w.ua
      /\ z.ut = w.ut /\ z.st = w.st /\ z.del = w.del /\ z.hist = w.hist
      /\ z.tx[Ua] = "idle" /\ \A i \in Ta : z.tx[i] = w.tx[i]
  BY <1>1, QuietIs
<1> HIDE DEF z
<1>3. /\ Acks(z.ua, z.tx) /\ Sending(z.ta, z.tx, z.ua, z.del)
      /\ Made(z.ta, z.tm, z.tx, z.ua, z.st, z.del)
  BY <1>2 DEF Body, Acks, Sending, Made
<1>4. Body(z)
  BY <1>2, <1>3 DEF Body
<1>5. \A i \in Ta : Timed(w.ta, w.tm, w.tx, w.del, i) =>
                    Timed(z.ta, z.tm, z.tx, z.del, i)
  BY <1>2 DEF Timed
<1>6. Steady(w) => Steady(z)
  BY <1>2 DEF Steady
<1>7. Keeps(w, z)
  BY <1>1, <1>2, FollowsKilled DEF Keeps
<1>8. QED
  BY <1>4, <1>5, <1>6, <1>7 DEF Core, LetGo, z

(* The transaction that acknowledges an error response runs on by itself.  *)
LetsGo(w, z, i) ==
  /\ z \in WorldType /\ z.tm = w.tm /\ z.ut = w.ut /\ z.del = w.del
  /\ z.hist = w.hist
  /\ z.ua = [w.ua EXCEPT !.cur = 0]
  /\ \A j \in Ta : j # i => z.ta[j] = w.ta[j] /\ z.tx[j] = w.tx[j]
  /\ z.ta[i].state = w.ta[i].state /\ z.ta[i].msg = w.ta[i].msg
  /\ z.ta[i].over = w.ta[i].over
  /\ z.ta[i].indep /\ ~z.ta[i].att
  /\ z.tx[i] = w.tx[Ua] /\ z.tx[Ua] = "idle"
  /\ z.st.id = "main" /\ z.st.rx = 0 /\ z.st.ind = w.st.ind \cup {i}

Detaches(w, z) ==
  Core(z) /\ (Steady(w) => Rest(z)) /\ Keeps(w, z) /\ z.ua.cur = 0

LEMMA LetGoGood ==
  ASSUME NEW w, Core(w), NEW i \in Ta, i = w.ua.cur,
         w.ta[i].state = "Completed", ~w.ta[i].over,
         w.tx[Ua] = "idle" => w.tm[i]["D"] = "on",
         NEW z, LetsGo(w, z, i)
  PROVE  Detaches(w, z)
<1>1. /\ w \in WorldType /\ w.ua \in UaType /\ w.ta \in [Ta -> TaType]
      /\ w.tx \in [Obj -> {"idle", "ta", "ua"}]
  BY DEF Core, Body, WorldType
<1>2. /\ Follows(w.ua, z.ua) /\ z.ua.cur = 0
      /\ z.ua.stopped = w.ua.stopped /\ z.ua.secwait = w.ua.secwait
      /\ z.ua.held = w.ua.held
  <2> DEFINE u == w.ua
  <2>1. u \in UaType /\ z.ua = [u EXCEPT !.cur = 0]
    BY <1>1 DEF LetsGo
  <2> HIDE DEF u
  <2>2. /\ Follows(u, z.ua) /\ z.ua.cur = 0
        /\ z.ua.stopped = u.stopped /\ z.ua.secwait = u.secwait
        /\ z.ua.held = u.held
    BY <2>1 DEF UaType, Follows
  <2>3. QED
    BY <2>2 DEF u
<1>3. /\ z \in WorldType /\ z.tm = w.tm /\ z.ut = w.ut /\ z.del = w.del
      /\ z.hist = w.hist
      /\ \A j \in Ta : j # i => z.ta[j] = w.ta[j] /\ z.tx[j] = w.tx[j]
      /\ z.ta[i].state = w.ta[i].state /\ z.ta[i].msg = w.ta[i].msg
      /\ z.ta[i].over = w.ta[i].over
      /\ z.ta[i].indep /\ ~z.ta[i].att
      /\ z.tx[i] = w.tx[Ua] /\ z.tx[Ua] = "idle"
      /\ z.st.id = "main" /\ z.st.rx = 0 /\ z.st.ind = w.st.ind \cup {i}
  BY DEF LetsGo
<1>4. /\ w.tx[Ua] # "ua" /\ w.tx[Ua] \in {"idle", "ta", "ua"} /\ i # 0
      /\ i \notin Dying(w.del) \cup w.del.gone /\ i # w.ua.held
      /\ w.ua.state \notin AckStates /\ w.ta[i].msg = "ack"
  <2>1. i \in Ta /\ i # 0 /\ Ua \in Obj
    BY Ids
  <2>2. w.ua.state \notin AckStates
    BY <2>1 DEF Core, Body, Acks
  <2>3. QED
    BY <1>1, <2>1, <2>2 DEF Core, Body, Acks, Current, Acked, AckStates
<1>5. /\ \A j \in Ta : Runs(z.ta, z.del, j) <=> Runs(w.ta, w.del, j)
      /\ \A j \in Ta : z.ta[j].state = w.ta[j].state
      /\ \A j \in Ta : z.ta[j].over = w.ta[j].over
      /\ \A j \in Ta : z.ta[j].att => w.ta[j].att
  BY <1>3 DEF Runs, Here
<1>6. /\ Ends(z.ua, z.st, z.del, z.hist) /\ Kept(z.ua, z.ut)
      /\ Heard(z.ua, z.hist) /\ Budget(z.ua) /\ Acks(z.ua, z.tx)
  BY <1>2, <1>3, <1>4
     DEF Core, Body, Ends, Kept, Heard, Budget, Acks, Follows
<1>7. Limit(z.ua, z.ta, z.del)
  BY <1>2, <1>5 DEF Core, Body, Limit, Follows
<1>8. Made(z.ta, z.tm, z.tx, z.ua, z.st, z.del)
  <2> SUFFICES ASSUME NEW j \in Ta
               PROVE  /\ j > z.ua.n => z.ta[j].state = "none"
                      /\ z.ta[j].state = "none" =>
                         /\ z.ta[j] = NoTa
                         /\ j \notin Dying(z.del) \cup z.del.gone
                         /\ j # z.ua.cur /\ j # z.ua.held /\ j \notin z.st.ind
                         /\ z.tx[j] = "idle"
                         /\ \A k \in TaTimers : z.tm[j][k] = "off"
    BY DEF Made
  <2>1. /\ j > w.ua.n => w.ta[j].state = "none"
        /\ w.ta[j].state = "none" =>
             /\ w.ta[j] = NoTa /\ j \notin Dying(w.del) \cup w.del.gone
             /\ j # w.ua.cur /\ j # w.ua.held /\ j \notin w.st.ind
             /\ w.tx[j] = "idle"
             /\ \A k \in TaTimers : w.tm[j][k] = "off"
    BY DEF Core, Body, Made
  <2>2. j # 0 /\ z.ua.n = w.ua.n
    BY <1>2, Ids DEF Follows
  <2>3. j = i => z.ta[j].state = "Completed"
    BY <1>3
  <2>4. j # i => z.ta[j] = w.ta[j] /\ z.tx[j] = w.tx[j]
    BY <1>3
  <2>5. QED
    BY <1>2, <1>3, <1>5, <2>1, <2>2, <2>3, <2>4
<1>9. Current(z.ta, z.ua, z.del)
  <2>1. w.ua.held # 0 => /\ w.ua.held \in Ta /\ w.ua.held # i
                         /\ w.ta[w.ua.held].over /\ ~w.ta[w.ua.held].indep
                         /\ w.ua.held \notin Dying(w.del) \cup w.del.gone
    BY <1>1, <1>4, Ids DEF Core, Body, Current, UaType
  <2>2. QED
    BY <1>2, <1>3, <2>1 DEF Current
<1>10. /\ Attached(z.ta, z.ua, z.st, z.del) /\ Acked(z.ta)
       /\ Freeing(z.ta, z.del)
  <2>1. Attached(z.ta, z.ua, z.st, z.del)
    <3> SUFFICES ASSUME NEW j \in Ta, Runs(z.ta, z.del, j)
                 PROVE  IF z.ta[j].att THEN j = z.ua.cur
                        ELSE z.ta[j].indep /\ j \in z.st.ind
                             /\ z.ta[j].state = "Completed"
      BY DEF Attached
    <3>1. IF w.ta[j].att THEN j = w.ua.cur
          ELSE w.ta[j].indep /\ j \in w.st.ind /\ w.ta[j].state = "Completed"
      BY <1>5 DEF Core, Body, Attached
    <3>2. QED
      BY <1>3, <3>1
  <2>2. Acked(z.ta)
    BY <1>3 DEF Core, Body, Acked
  <2>3. Freeing(z.ta, z.del)
    BY <1>3, <1>4, <1>5 DEF Core, Body, Freeing
  <2>4. QED
    BY <2>1, <2>2, <2>3
<1>11. Sending(z.ta, z.tx, z.ua, z.del) /\ LetGo(z.ta, z.tm, z.tx, z.del)
  <2>1. Sending(z.ta, z.tx, z.ua, z.del)
    BY <1>3, <1>4 DEF Core, Body, Sending
  <2>2. \A j \in Ta : j # i => Timed(z.ta, z.tm, z.tx, z.del, j)
    BY <1>3, <1>5 DEF Core, LetGo, Timed
  <2>3. Timed(z.ta, z.tm, z.tx, z.del, i)
    BY <1>3, <1>5 DEF Core, LetGo, Timed
  <2>4. QED
    BY <2>1, <2>2, <2>3 DEF LetGo
<1>12. Core(z)
  BY <1>3, <1>6, <1>7, <1>8, <1>9, <1>10, <1>11 DEF Core, Body
<1>13. Steady(w) => Rest(z)
  <2>1. Fresh(w.ta, w.ua) => Fresh(z.ta, z.ua)
    BY <1>2, <1>5 DEF Fresh, Follows
  <2>2. Awaits(z.ta, z.ua)
    BY <1>2 DEF Awaits
  <2>3. QED
    BY <1>2, <1>3, <2>1, <2>2 DEF Steady, Rest, CurrentEnds, Follows
<1>14. Keeps(w, z)
  BY <1>2, <1>3 DEF Keeps
<1>15. QED
  BY <1>2, <1>12, <1>13, <1>14 DEF Detaches

Detachable(w) ==
  w.ua.cur # 0 /\ ~w.ta[w.ua.cur].over =>
    /\ ~w.ua.stopped /\ w.ta[w.ua.cur].state = "Completed"
    /\ w.tx[Ua] = "idle" => w.tm[w.ua.cur]["D"] = "on"

(* Where a function leaves, or returns TRUE.                               *)
LeftIn(w, r) == r.left \in {"nomem", "other"} /\ Core(r.w) /\ Keeps(w, r.w)
Done(r) == r.left = "no" /\ r.yes

LEMMA KeepsSelf ==
  ASSUME NEW w, Core(w)
  PROVE  Keeps(w, w)
<1>1. w.ua \in UaType
  BY DEF Core, Body, WorldType
<1>2. Follows(w.ua, w.ua)
  BY <1>1, FollowsKilled
<1>3. QED
  BY <1>2 DEF Keeps

LEMMA KeepsTrans ==
  ASSUME NEW w, NEW v, NEW z, Keeps(w, v), Keeps(v, z)
  PROVE  Keeps(w, z)
<1>1. Follows(w.ua, z.ua)
  BY FollowsTrans DEF Keeps
<1>2. \A j \in Ta : w.ta[j].over \/ w.ta[j].state = "none"
        => z.ta[j] = w.ta[j]
  BY DEF Keeps
<1>3. QED
  BY <1>1, <1>2 DEF Keeps

LEMMA RemoveFromStoreIs ==
  ASSUME NEW w, Core(w)
  PROVE  RemoveFromStore(w).ua.n \in Branches
<1>1. w \in WorldType /\ w.ua.n \in Branches
  BY BranchIs DEF Core, Body
<1>2. CASE w.st.id = "main"
  BY <1>1, <1>2 DEF RemoveFromStore, WorldType
<1>3. CASE w.st.id # "main"
  <2>1. Core(Searched(w))
    BY SearchedGood
  <2>2. QED
    BY <1>3, <2>1, BranchIs DEF RemoveFromStore
<1>4. QED
  BY <1>2, <1>3

LEMMA LetGoIs ==
  ASSUME NEW w, Core(w), w.st.id = "main", NEW i \in Ta, i = w.ua.cur,
         w.ta[i].state = "Completed", ~w.ta[i].over,
         NEW r \in Then(
           Yes(Detached([RunIndependently(w, i) EXCEPT
                           !.st.ind = @ \cup {i}], i)),
           LAMBDA v : Yes([v EXCEPT !.st = Entry(v.ua.n, Ua, @.ind)]))
  PROVE  Done(r) /\ LetsGo(w, r.w, i)
<1> DEFINE a1 == [w.ta[i] EXCEPT !.indep = TRUE]
           a2 == [a1 EXCEPT !.att = FALSE]
           t1 == [w.ta EXCEPT ![i] = a1]
           t2 == [t1 EXCEPT ![i] = a2]
           x1 == [w.tx EXCEPT ![i] = w.tx[Ua], ![Ua] = "idle"]
           s1 == [w.st EXCEPT !.ind = @ \cup {i}]
           u1 == [w.ua EXCEPT !.cur = 0]
           e1 == Entry(u1.n, Ua, s1.ind)
           z1 == [w EXCEPT !.ta = t2, !.tx = x1, !.ua = u1, !.st = s1]
           z == [z1 EXCEPT !.st = e1]
<1>1. /\ w \in WorldType /\ w.ua \in UaType /\ w.ta \in [Ta -> TaType]
      /\ w.tx \in [Obj -> {"idle", "ta", "ua"}] /\ w.st \in StType
      /\ i \in Obj /\ Ua \in Obj /\ i # Ua /\ Ua = 0
      /\ w.ta[i].msg = "ack"
  BY Ids DEF Core, Body, WorldType, Acked
<1>2. /\ a1 \in TaType /\ a2 \in TaType
      /\ a2.state = w.ta[i].state /\ a2.msg = w.ta[i].msg
      /\ a2.over = w.ta[i].over /\ a2.indep /\ ~a2.att
  <2> DEFINE t == w.ta[i]
  <2>1. t \in TaType /\ a1 = [t EXCEPT !.indep = TRUE]
    BY <1>1
  <2> HIDE DEF t, a1
  <2>2. /\ a1 \in TaType /\ a1.state = t.state /\ a1.msg = t.msg
        /\ a1.over = t.over /\ a1.indep
    BY <2>1 DEF TaType
  <2>3. /\ a2 \in TaType /\ a2.state = t.state /\ a2.msg = t.msg
        /\ a2.over = t.over /\ a2.indep /\ ~a2.att
    BY <2>2 DEF TaType
  <2>4. QED
    BY <2>2, <2>3 DEF t
<1> HIDE DEF a1, a2
<1>3. /\ t1 \in [Ta -> TaType] /\ t1[i] = a1
      /\ t2 \in [Ta -> TaType] /\ t2[i] = a2
      /\ \A j \in Ta : j # i => t2[j] = w.ta[j]
  BY <1>1, <1>2
<1>4. /\ t2[i].state = w.ta[i].state /\ t2[i].msg = w.ta[i].msg
      /\ t2[i].over = w.ta[i].over /\ t2[i].indep /\ ~t2[i].att
  BY <1>2, <1>3
<1>5. /\ x1 \in [Obj -> {"idle", "ta", "ua"}]
      /\ x1[i] = w.tx[Ua] /\ x1[Ua] = "idle"
      /\ \A j \in Ta : j # i => x1[j] = w.tx[j]
  BY <1>1, Ids
<1>6. s1 \in StType /\ s1.ind = w.st.ind \cup {i} /\ s1.id = "main"
  BY <1>1 DEF StType
<1>7. u1 \in UaType /\ u1.n \in Branches
  <2>1. u1 \in UaType
    BY <1>1, UaWith
  <2>2. u1.n = w.ua.n
    BY <1>1 DEF UaType
  <2> HIDE DEF u1
  <2>3. QED
    BY <2>1, <2>2, BranchIs
<1>8. /\ e1 \in StType /\ e1.id = "main" /\ e1.rx = 0
      /\ e1.ind = w.st.ind \cup {i}
  <2> HIDE DEF s1, u1
  <2>1. QED
    BY <1>1, <1>6, <1>7 DEF Entry, StType
<1>9. Detached([RunIndependently(w, i) EXCEPT !.st.ind = @ \cup {i}], i) = z1
  <2> DEFINE a == [w EXCEPT !.ta = t1, !.tx = x1]
             b == [a EXCEPT !.st = s1]
             c == [b EXCEPT !.ta = t2, !.ua = u1]
  <2>1. RunIndependently(w, i) = a
    BY <1>1 DEF RunIndependently, WorldType, a1
  <2>2. a.st = w.st /\ a.ua = w.ua /\ a.ta = t1
    <3> HIDE DEF t1, x1
    <3>1. QED
      BY <1>1 DEF WorldType
  <2>3. [RunIndependently(w, i) EXCEPT !.st.ind = @ \cup {i}] = b
    <3> HIDE DEF a
    <3>1. QED
      BY <2>1, <2>2
  <2>4. b.ua = w.ua /\ b.ta = t1
    <3> HIDE DEF t1, x1, s1
    <3>1. QED
      BY <1>1 DEF WorldType
  <2>5. [b EXCEPT !.ta[i].att = FALSE, !.ua.cur = 0] = c
    <3> HIDE DEF b, t1
    <3>1. QED
      BY <2>4, <1>3 DEF a2
  <2>6. c = z1 /\ c.ta = t2
    <3> HIDE DEF t1, t2, x1, s1, u1
    <3>1. QED
      BY <1>1 DEF WorldType
  <2>7. Detached(b, i) = c
    <3> HIDE DEF b, c, t2
    <3>1. c.ta[i].msg = "ack"
      BY <1>1, <1>4, <2>6
    <3>2. QED
      BY <2>5, <3>1 DEF Detached, ClearSendBuffer
  <2> HIDE DEF a, b, c
  <2>8. QED
    BY <2>3, <2>6, <2>7
<1> HIDE DEF t1, t2, x1, s1, u1, e1
<1>10. /\ z1 \in WorldType /\ z1.ua = u1 /\ z1.st = s1
       /\ z \in WorldType /\ z.ta = t2 /\ z.tx = x1 /\ z.ua = u1 /\ z.st = e1
       /\ z.tm = w.tm /\ z.ut = w.ut /\ z.del = w.del /\ z.hist = w.hist
  BY <1>1, <1>3, <1>5, <1>6, <1>7, <1>8 DEF WorldType
<1> HIDE DEF z1
<1>11. r = [w |-> z, left |-> "no", yes |-> TRUE]
  <2>1. [z1 EXCEPT !.st = Entry(z1.ua.n, Ua, z1.st.ind)] = z
    BY <1>10 DEF e1
  <2> HIDE DEF z
  <2>2. r \in Then(Yes(z1),
                LAMBDA v : Yes([v EXCEPT !.st = Entry(v.ua.n, Ua, @.ind)]))
    BY <1>9
  <2>3. QED
    BY <2>1, <2>2 DEF Then, Yes
<1> HIDE DEF z
<1>12. LetsGo(w, z, i)
  BY <1>3, <1>4, <1>5, <1>8, <1>10 DEF LetsGo, u1
<1>13. QED
  BY <1>11, <1>12 DEF Done

LEMMA DetachCurrentTransactionGood ==
  ASSUME NEW w, Core(w), Detachable(w), NEW r \in DetachCurrentTransactionL(w)
  PROVE  \/ Done(r) /\ Detaches(w, r.w)
         \/ LeftIn(w, r)
<1> DEFINE i == w.ua.cur
<1>1. CASE i = 0
  <2>1. r \in Yes(w)
    BY <1>1 DEF DetachCurrentTransactionL
  <2>2. Core(w) /\ Keeps(w, w) /\ (Steady(w) => Rest(w))
    BY <1>1, KeepsSelf DEF Rest, CurrentEnds
  <2>3. QED
    BY <1>1, <2>1, <2>2 DEF Yes, Detaches, Done
<1>2. CASE i # 0 /\ w.ta[i].over
  <2> DEFINE q0 == Quiet(w)
  <2>1. w \in WorldType
    BY DEF Core, Body
  <2>2. /\ Core(q0) /\ Keeps(w, q0) /\ (Steady(w) => Steady(q0))
        /\ q0.ua = w.ua /\ q0.ta = w.ta
    BY <2>1, QuietGood, QuietIs DEF Core
  <2> DEFINE P == Then(RequestDeletionOfTransactionL(q0),
                       LAMBDA v : Yes(RemoveFromStore(v)))
  <2>3. r \in Then(P,
                   LAMBDA v : Yes([v EXCEPT !.st = Entry(v.ua.n, Ua, @.ind)]))
    BY <1>2 DEF DetachCurrentTransactionL, Quiet
  <2> HIDE DEF q0, P
  <2>4. PICK p \in P :
          r \in IF p.left = "no" /\ p.yes
                THEN Yes([p.w EXCEPT !.st = Entry(p.w.ua.n, Ua, @.ind)])
                ELSE {p}
    BY <2>3 DEF Then
  <2>5. PICK q \in RequestDeletionOfTransactionL(q0) :
          p \in IF q.left = "no" /\ q.yes
                THEN Yes(RemoveFromStore(q.w)) ELSE {q}
    BY <2>4 DEF Then, P
  <2>6. /\ Core(q.w) /\ (Steady(q0) => Rest(q.w))
        /\ q.w.ta = q0.ta /\ Follows(q0.ua, q.w.ua)
        /\ q.w.ua.stopped = q0.ua.stopped /\ q.w.hist = q0.hist
        /\ q.w.ut["S"] = "on" => q0.ut["S"] = "on"
        /\ \/ q.left = "no" /\ q.yes /\ q.w.ua.cur = 0
           \/ q.left = "nomem" /\ q.w = q0
    BY <1>2, <2>2, RequestDeletionOfTransactionGood
  <2>7. Keeps(w, q.w)
    <3>1. Keeps(q0, q.w)
      BY <2>6 DEF Keeps
    <3>2. QED
      BY <2>2, <3>1, KeepsTrans
  <2>8. CASE q.left = "nomem" /\ q.w = q0
    <3>1. p = q
      BY <2>5, <2>8
    <3>2. r = q
      BY <2>4, <2>8, <3>1
    <3>3. QED
      BY <2>6, <2>7, <2>8, <3>2 DEF LeftIn
  <2>9. CASE q.left = "no" /\ q.yes /\ q.w.ua.cur = 0
    <3> DEFINE v == RemoveFromStore(q.w)
               b == v.ua.n
               z == [v EXCEPT !.st = Entry(b, Ua, @.ind)]
    <3>1. p \in Yes(v)
      BY <2>5, <2>9
    <3>2. p.left = "no" /\ p.yes /\ p.w = v
      BY <3>1 DEF Yes
    <3>3. r \in Yes(z)
      BY <2>4, <3>2
    <3>4. b \in Branches
      BY <2>6, RemoveFromStoreIs
    <3> HIDE DEF b
    <3>5. Reentered(q.w, z)
      BY <2>6, <2>9, <3>4, ReplacedGood
    <3> HIDE DEF z
    <3>6. Keeps(w, z)
      BY <2>7, <3>5, KeepsTrans DEF Reentered
    <3>7. Detaches(w, z)
      BY <2>2, <2>6, <3>5, <3>6 DEF Reentered, Detaches, Rest
    <3>8. QED
      BY <3>3, <3>7 DEF Done, Yes
  <2>10. QED
    BY <2>6, <2>8, <2>9
<1>3. CASE i # 0 /\ ~w.ta[i].over
  <2>1. /\ ~w.ua.stopped /\ w.ta[i].state = "Completed"
        /\ w.tx[Ua] = "idle" => w.tm[i]["D"] = "on"
    BY <1>3 DEF Detachable
  <2>2. w.st.id = "main" /\ i \in Ta
    BY <1>3, <2>1, Ids DEF Core, Body, Ends, WorldType, UaType
  <2> DEFINE S == Yes(Detached([RunIndependently(w, i) EXCEPT
                                  !.st.ind = @ \cup {i}], i))
             L == MayLeave("alloc", w)
  <2>3. Searched(RunIndependently(w, i)) = RunIndependently(w, i)
    <3>1. w \in WorldType
      BY DEF Core, Body
    <3>2. RunIndependently(w, i).st = w.st
      BY <3>1 DEF RunIndependently, WorldType
    <3>3. QED
      BY <2>2, <3>2 DEF Searched
  <2>4. r \in Then(L \cup S,
                   LAMBDA v : Yes([v EXCEPT !.st = Entry(v.ua.n, Ua, @.ind)]))
    BY <1>3, <2>2, <2>3 DEF DetachCurrentTransactionL, Assert
  <2> HIDE DEF S, L
  <2>5. \/ r \in Then(S,
                LAMBDA v : Yes([v EXCEPT !.st = Entry(v.ua.n, Ua, @.ind)]))
        \/ r \in Then(L,
                LAMBDA v : Yes([v EXCEPT !.st = Entry(v.ua.n, Ua, @.ind)]))
    BY <2>4 DEF Then
  <2>6. CASE r \in Then(S,
                LAMBDA v : Yes([v EXCEPT !.st = Entry(v.ua.n, Ua, @.ind)]))
    <3>1. Done(r) /\ LetsGo(w, r.w, i)
      BY <1>3, <2>1, <2>2, <2>6, LetGoIs DEF S
    <3>2. QED
      BY <1>3, <2>1, <2>2, <3>1, LetGoGood
  <2>7. CASE r \in Then(L,
                LAMBDA v : Yes([v EXCEPT !.st = Entry(v.ua.n, Ua, @.ind)]))
    <3>1. \A l \in L : l.w = w /\ l.left = "nomem"
      BY DEF L, MayLeave, Leave
    <3>2. r \in L
      BY <2>7, <3>1 DEF Then
    <3>3. QED
      BY <3>1, <3>2, KeepsSelf DEF LeftIn
  <2>8. QED
    BY <2>5, <2>6, <2>7
<1>4. QED
  BY <1>1, <1>2, <1>3

-----------------------------------------------------------------------------
(* The user agent sends the request again, or has its URI resolved again.  *)

(* Only the user agent changes, and what the store says about it.          *)
UaOnly(w, z) ==
  /\ z \in WorldType /\ z.ta = w.ta /\ z.tm = w.tm /\ z.tx = w.tx
  /\ z.del = w.del /\ z.st.id = w.st.id /\ z.st.ind = w.st.ind
  /\ z.ua.cur = w.ua.cur /\ z.ua.held = w.ua.held
  /\ z.ua.stopped = w.ua.stopped /\ z.ua.owner = w.ua.owner
  /\ z.ua.n >= w.ua.n
  /\ z.hist.ended = w.hist.ended /\ z.hist.cleared = w.hist.cleared

UaMay(w, z) ==
  /\ Kept(z.ua, z.ut) /\ Heard(z.ua, z.hist) /\ Acks(z.ua, w.tx)
  /\ Budget(z.ua) /\ Limit(z.ua, w.ta, w.del)
  /\ z.hist.late => z.ua.secerr
  /\ z.ua.secwait /\ w.ua.stopped => w.ua.cur = 0 \/ w.ta[w.ua.cur].over
  /\ z.ua.state = "WaitEnd" /\ w.ua.cur # 0 => Answered(w.ta[w.ua.cur])

LEMMA UaStepGood ==
  ASSUME NEW w, Body(w), NEW z, UaOnly(w, z), UaMay(w, z)
  PROVE  /\ Body(z)
         /\ \A i \in Ta : Timed(w.ta, w.tm, w.tx, w.del, i) =>
                          Timed(z.ta, z.tm, z.tx, z.del, i)
         /\ Core(w) => Core(z)
<1>1. /\ z \in WorldType /\ z.ta = w.ta /\ z.tm = w.tm /\ z.tx = w.tx
      /\ z.del = w.del /\ z.st.id = w.st.id /\ z.st.ind = w.st.ind
      /\ z.ua.cur = w.ua.cur /\ z.ua.held = w.ua.held
      /\ z.ua.stopped = w.ua.stopped /\ z.ua.owner = w.ua.owner
      /\ z.ua.n >= w.ua.n
      /\ z.hist.ended = w.hist.ended /\ z.hist.cleared = w.hist.cleared
  BY DEF UaOnly
<1>2. Ends(z.ua, z.st, z.del, z.hist)
  BY <1>1 DEF Body, Ends, UaMay
<1>3. Made(z.ta, z.tm, z.tx, z.ua, z.st, z.del)
  <2>1. w.ua.n \in Nat /\ z.ua.n \in Nat /\ Ta \subseteq Nat
    BY <1>1, Ids DEF Body, WorldType, UaType
  <2>2. ASSUME NEW i \in Ta, i > z.ua.n PROVE i > w.ua.n
    <3> DEFINE a == w.ua.n
               b == z.ua.n
    <3>1. a \in Nat /\ b \in Nat /\ i \in Nat /\ b >= a /\ i > b
      BY <1>1, <2>1, <2>2
    <3> HIDE DEF a, b
    <3>2. i > a
      BY <3>1
    <3>3. QED
      BY <3>2 DEF a
  <2>3. QED
    BY <1>1, <2>2 DEF Body, Made
<1>4. Current(z.ta, z.ua, z.del)
  BY <1>1 DEF Body, Current, UaMay, Answered
<1>5. /\ Attached(z.ta, z.ua, z.st, z.del) /\ Acked(z.ta)
      /\ Freeing(z.ta, z.del) /\ Sending(z.ta, z.tx, z.ua, z.del)
  BY <1>1 DEF Body, Attached, Sending
<1>6. Body(z)
  BY <1>1, <1>2, <1>3, <1>4, <1>5 DEF Body, UaMay
<1>7. QED
  BY <1>1, <1>6 DEF Core, LetGo

(* How far a request that is being sent again has come.                    *)
Goes(w, z) ==
  /\ Core(z) /\ ~z.ua.secwait /\ z.ua.stored = "none" /\ z.ut["S"] # "on"
  /\ z.ua.stopped = w.ua.stopped /\ z.hist = w.hist
  /\ z.ua.msg = w.ua.msg /\ z.ua.state = w.ua.state
  /\ z.ua.addrs = w.ua.addrs /\ z.ua.owner = w.ua.owner
  /\ z.ua.secerr = w.ua.secerr
  /\ \A j \in Ta : w.ta[j].over => z.ta[j] = w.ta[j]

LEMMA GoesOn ==
  ASSUME NEW w, NEW v, NEW z, Goes(w, v), Keeps(v, z), Core(z)
  PROVE  Goes(w, z) /\ z.ua.n = v.ua.n
BY DEF Goes, Keeps, Follows

(* Where it leaves.                                                        *)
Gone(w, r) ==
  /\ r.left \in {"nomem", "other"} /\ Core(r.w) /\ ~r.w.ua.secwait
  /\ \A j \in Ta : w.ta[j].over => r.w.ta[j] = w.ta[j]

LEMMA GoesGone ==
  ASSUME NEW w, NEW r, Goes(w, r.w), r.left \in {"nomem", "other"}
  PROVE  Gone(w, r)
BY DEF Goes, Gone

(* There is a branch, or at least a number, left for the request.          *)
Advances(w) ==
  w.ua.msg = "invite" =>
    /\ w.ua.n <= MaxTa
    /\ w.ua.addrs > 0 => w.ua.n + 1 + w.ua.addrs <= MaxTa
    /\ w.ua.n = MaxTa =>
         \/ w.ua.state = "WaitAuth"
         \/ /\ w.ua.state = "WaitResponse"
            /\ w.ua.cur = 0 \/ w.ta[w.ua.cur].over

Renumbered(w, z) ==
  /\ z.ua.n = IF w.ua.msg = "invite" THEN w.ua.n + 1 ELSE w.ua.n
  /\ z.ua.cur = w.ua.cur
  /\ z.ta = w.ta /\ z.tm = w.tm /\ z.tx = w.tx /\ z.st = w.st

LEMMA UpdateViaAndCSeqGood ==
  ASSUME NEW w, Goes(w, w), Advances(w), NEW r \in UpdateViaAndCSeqL(w)
  PROVE  \/ Gone(w, r)
         \/ /\ Done(r) /\ Goes(w, r.w) /\ Renumbered(w, r.w)
            /\ w.ua.msg # "none"
<1> DEFINE n1 == IF w.ua.msg = "invite" THEN w.ua.n + 1 ELSE w.ua.n
           u1 == [w.ua EXCEPT !.n = n1]
           z == [w EXCEPT !.ua = u1]
<1>1. /\ w \in WorldType /\ w.ua \in UaType /\ w.ua.n \in Nat \ {0}
      /\ w.ua.addrs \in Nat /\ MaxTa \in Nat
  BY Ids, InviteClientAssumption DEF Goes, Core, Body, WorldType, UaType
<1>2. CASE r.left # "no"
  <2>1. r.w = w /\ r.left \in {"nomem", "other"}
    BY <1>2 DEF UpdateViaAndCSeqL, Assert, MayLeave, Leave, Yes
  <2>2. QED
    BY <2>1, GoesGone
<1>3. CASE r.left = "no"
  <2>1. w.ua.msg # "none" /\ r \in Yes(z)
    BY <1>3 DEF UpdateViaAndCSeqL, Assert, MayLeave, Leave, Yes
  <2>2. n1 \in Nat \ {0} /\ n1 >= w.ua.n
    BY <1>1
  <2>3. /\ u1 \in UaType /\ u1.n = n1 /\ u1.stopped = w.ua.stopped
        /\ u1.owner = w.ua.owner /\ u1.msg = w.ua.msg /\ u1.cur = w.ua.cur
        /\ u1.held = w.ua.held /\ u1.stored = w.ua.stored
        /\ u1.secwait = w.ua.secwait /\ u1.secerr = w.ua.secerr
        /\ u1.addrs = w.ua.addrs /\ u1.state = w.ua.state
    <3> DEFINE u == w.ua
    <3>1. u \in UaType /\ n1 \in Nat \ {0} /\ u1 = [u EXCEPT !.n = n1]
      BY <1>1, <2>2
    <3> HIDE DEF u, n1, u1
    <3>2. /\ u1 \in UaType /\ u1.n = n1 /\ u1.stopped = u.stopped
          /\ u1.owner = u.owner /\ u1.msg = u.msg /\ u1.cur = u.cur
          /\ u1.held = u.held /\ u1.stored = u.stored
          /\ u1.secwait = u.secwait /\ u1.secerr = u.secerr
          /\ u1.addrs = u.addrs /\ u1.state = u.state
      BY <3>1 DEF UaType
    <3>3. QED
      BY <3>2 DEF u
  <2> HIDE DEF u1
  <2>4. /\ z \in WorldType /\ z.ua = u1 /\ z.ta = w.ta /\ z.tm = w.tm
        /\ z.tx = w.tx /\ z.st = w.st /\ z.del = w.del /\ z.hist = w.hist
        /\ z.ut = w.ut
    BY <1>1, <2>3 DEF WorldType
  <2> HIDE DEF z
  <2>5. UaOnly(w, z)
    BY <2>2, <2>3, <2>4 DEF UaOnly
  <2>6. UaMay(w, z)
    <3>1. Body(w) /\ ~w.ua.secwait /\ w.ua.stored = "none"
      BY DEF Goes, Core
    <3>2. /\ Kept(z.ua, z.ut) /\ Heard(z.ua, z.hist) /\ Acks(z.ua, w.tx)
          /\ z.hist.late => z.ua.secerr
          /\ ~z.ua.secwait
          /\ z.ua.state = "WaitEnd" /\ w.ua.cur # 0
               => Answered(w.ta[w.ua.cur])
      BY <2>3, <2>4, <3>1
         DEF Body, Kept, Heard, Acks, Ends, Current, Answered
    <3>3. Budget(z.ua)
      BY <1>1, <2>3, <2>4, <3>1 DEF Body, Budget, Advances
    <3>4. Limit(z.ua, w.ta, w.del)
      <4>1. CASE w.ua.msg # "invite"
        BY <2>3, <2>4, <3>1, <4>1 DEF Body, Limit
      <4>2. CASE w.ua.msg = "invite"
        <5>1. n1 = w.ua.n + 1 /\ n1 <= MaxTa + 1
          BY <1>1, <4>2 DEF Advances
        <5>2. n1 = MaxTa + 1 => w.ua.n = MaxTa
          BY <1>1, <5>1
        <5>3. w.ua.cur = 0 \/ w.ta[w.ua.cur].over =>
                \A i \in Ta : ~(Runs(w.ta, w.del, i) /\ w.ta[i].att)
          BY <3>1, Ids DEF Body, Attached, Runs
        <5>4. QED
          BY <2>3, <2>4, <3>1, <4>2, <5>1, <5>2, <5>3 DEF Limit, Advances
      <4>3. QED
        BY <4>1, <4>2
    <3>5. QED
      BY <3>2, <3>3, <3>4 DEF UaMay
  <2>7. Core(z)
    BY <2>5, <2>6, UaStepGood DEF Goes, Core
  <2>8. Goes(w, z)
    BY <2>3, <2>4, <2>7 DEF Goes
  <2>9. Renumbered(w, z)
    BY <2>3, <2>4 DEF Renumbered
  <2>10. QED
    BY <2>1, <2>8, <2>9 DEF Done, Yes
<1>4. QED
  BY <1>2, <1>3

(* A new transaction, for the branch the request was given.                *)
Creates(w, z) ==
  /\ Core(z) /\ z.ua = [w.ua EXCEPT !.cur = w.ua.n]
  /\ \A j \in Ta : j # w.ua.n => z.ta[j] = w.ta[j]
  /\ z.ta[w.ua.n].state = "Calling" /\ ~z.ta[w.ua.n].over
  /\ z.ta[w.ua.n].att /\ z.ta[w.ua.n].msg = "none"
  /\ z.tm = w.tm /\ z.tx = w.tx /\ z.ut = w.ut /\ z.st = w.st
  /\ z.hist = w.hist /\ z.tx[Ua] = "idle" /\ ~z.ta[w.ua.n].indep

Created(w, t, z) == z = [w EXCEPT !.ua.cur = w.ua.n, !.ta[w.ua.n] = t]

MayCreate(w) ==
  /\ Core(w) /\ w.ua.cur = 0 /\ w.ua.n \in Ta /\ ~w.ua.secwait
  /\ w.ua.state \in {"Resolve", "WaitResponse", "WaitAuth"}
  /\ w.ua.state = "Resolve" => ~w.ua.stopped
  /\ w.ta[w.ua.n].state = "none"

LEMMA CreatesGood ==
  ASSUME NEW w, MayCreate(w), NEW t \in TaType, t.state = "Calling",
         ~t.over, t.msg = "none", t.att, ~t.indep,
         NEW z, Created(w, t, z)
  PROVE  Creates(w, z)
<1> DEFINE n == w.ua.n
           u1 == [w.ua EXCEPT !.cur = n]
           t1 == [w.ta EXCEPT ![n] = t]
<1>1. /\ w \in WorldType /\ w.ua \in UaType /\ w.ta \in [Ta -> TaType]
      /\ n \in Ta /\ n \in Obj /\ n # 0 /\ w.ua.cur = 0
      /\ w.tx \in [Obj -> {"idle", "ta", "ua"}] /\ Ua \in Obj
      /\ w.ta[n].state = "none"
  BY Ids DEF MayCreate, Core, Body, WorldType
<1>2. u1 \in UaType /\ u1.cur = n /\ Follows(w.ua, [u1 EXCEPT !.cur = 0])
      /\ u1.stopped = w.ua.stopped /\ u1.state = w.ua.state
      /\ u1.held = w.ua.held /\ u1.secwait = w.ua.secwait /\ u1.n = n
      /\ u1.msg = w.ua.msg /\ u1.addrs = w.ua.addrs
      /\ u1.stored = w.ua.stored /\ u1.secerr = w.ua.secerr
      /\ u1.owner = w.ua.owner
  <2> DEFINE u == w.ua
  <2>1. u \in UaType /\ n \in Obj /\ n = u.n /\ u1 = [u EXCEPT !.cur = n]
        /\ u.cur = 0
    BY <1>1
  <2> HIDE DEF u, n, u1
  <2>2. u1 \in UaType
    BY <2>1, UaWith
  <2>3. /\ u1.cur = n
        /\ u1.stopped = u.stopped /\ u1.state = u.state
        /\ u1.held = u.held /\ u1.secwait = u.secwait /\ u1.n = n
        /\ u1.msg = u.msg /\ u1.addrs = u.addrs
        /\ u1.stored = u.stored /\ u1.secerr = u.secerr
        /\ u1.owner = u.owner /\ u1.final = u.final
        /\ u1.results = u.results
    BY <2>1 DEF UaType
  <2>4. Follows(u, [u1 EXCEPT !.cur = 0])
    BY <2>1, <2>2, <2>3 DEF Follows, UaType
  <2>5. QED
    BY <2>2, <2>3, <2>4 DEF u
<1>3. /\ t1 \in [Ta -> TaType] /\ t1[n] = t
      /\ \A j \in Ta : j # n => t1[j] = w.ta[j]
  BY <1>1
<1> HIDE DEF u1, t1
<1>4. /\ z \in WorldType /\ z.ua = u1 /\ z.ta = t1 /\ z.tm = w.tm
      /\ z.tx = w.tx /\ z.ut = w.ut /\ z.st = w.st /\ z.del = w.del
      /\ z.hist = w.hist
  <2>1. z = [w EXCEPT !.ua = u1, !.ta = t1]
    BY <1>1 DEF u1, t1, Created
  <2>2. QED
    BY <1>1, <1>2, <1>3, <2>1 DEF WorldType
<1> HIDE DEF n
<1>5. /\ Body(w) /\ ~w.ua.secwait
      /\ w.ua.state \in {"Resolve", "WaitResponse", "WaitAuth"}
      /\ w.ua.state = "Resolve" => ~w.ua.stopped
      /\ n \notin Dying(w.del) \cup w.del.gone
      /\ n # w.ua.held /\ n \notin w.st.ind /\ w.tx[n] = "idle"
      /\ \A k \in TaTimers : w.tm[n][k] = "off"
      /\ w.tx[Ua] = "idle"
  <2>1. /\ Body(w) /\ ~w.ua.secwait
        /\ w.ua.state \in {"Resolve", "WaitResponse", "WaitAuth"}
        /\ w.ua.state = "Resolve" => ~w.ua.stopped
    BY DEF MayCreate, Core
  <2>2. w.tx[Ua] = "idle"
    <3>1. /\ w.ua.cur = 0 /\ Sending(w.ta, w.tx, w.ua, w.del)
          /\ Acks(w.ua, w.tx) /\ w.tx[Ua] \in {"idle", "ta", "ua"}
      BY <1>1, <2>1 DEF Body
    <3>2. w.tx[Ua] # "ta"
      BY <3>1 DEF Sending
    <3>3. w.tx[Ua] # "ua"
      BY <2>1, <3>1 DEF Acks
    <3>4. QED
      BY <3>1, <3>2, <3>3
  <2>3. /\ n \notin Dying(w.del) \cup w.del.gone
        /\ n # w.ua.held /\ n \notin w.st.ind /\ w.tx[n] = "idle"
        /\ \A k \in TaTimers : w.tm[n][k] = "off"
    <3>1. /\ Made(w.ta, w.tm, w.tx, w.ua, w.st, w.del)
          /\ n \in Ta /\ w.ta[n].state = "none"
      BY <1>1, <2>1 DEF Body
    <3>2. QED
      BY <3>1 DEF Made
  <2>4. QED
    BY <2>1, <2>2, <2>3
<1>6. /\ \A j \in Ta : j # n =>
           (Runs(z.ta, z.del, j) <=> Runs(w.ta, w.del, j))
      /\ Runs(z.ta, z.del, n)
  BY <1>1, <1>3, <1>4, <1>5 DEF Runs, Here
<1>7. Ends(z.ua, z.st, z.del, z.hist) /\ Kept(z.ua, z.ut) /\ Budget(z.ua)
  BY <1>2, <1>4, <1>5 DEF Body, Ends, Kept, Budget, n
<1>8. Heard(z.ua, z.hist)
  BY <1>2, <1>4, <1>5 DEF Body, Heard, AckStates
<1>9. Acks(z.ua, z.tx)
  BY <1>2, <1>4, <1>5 DEF Body, Acks, AckStates
<1>10. Limit(z.ua, z.ta, z.del)
  <2>1. n \in 1..MaxTa /\ MaxTa \in Nat
    BY <1>1, InviteClientAssumption DEF Ta
  <2>2. n <= MaxTa + 1 /\ n # MaxTa + 1
    BY <2>1
  <2>3. QED
    BY <1>2, <1>4, <2>2 DEF Limit
<1>11. Made(z.ta, z.tm, z.tx, z.ua, z.st, z.del)
  <2> SUFFICES ASSUME NEW j \in Ta
               PROVE  /\ j > z.ua.n => z.ta[j].state = "none"
                      /\ z.ta[j].state = "none" =>
                         /\ z.ta[j] = NoTa
                         /\ j \notin Dying(z.del) \cup z.del.gone
                         /\ j # z.ua.cur /\ j # z.ua.held /\ j \notin z.st.ind
                         /\ z.tx[j] = "idle"
                         /\ \A k \in TaTimers : z.tm[j][k] = "off"
    BY DEF Made
  <2>1. CASE j = n
    <3>1. ~(n > n)
      BY <1>1, Ids
    <3>2. QED
      BY <1>2, <1>3, <1>4, <2>1, <3>1
  <2>2. CASE j # n
    <3>1. /\ j > w.ua.n => w.ta[j].state = "none"
          /\ w.ta[j].state = "none" =>
               /\ w.ta[j] = NoTa /\ j \notin Dying(w.del) \cup w.del.gone
               /\ j # w.ua.cur /\ j # w.ua.held /\ j \notin w.st.ind
               /\ w.tx[j] = "idle"
               /\ \A k \in TaTimers : w.tm[j][k] = "off"
      BY <1>5 DEF Body, Made
    <3>2. QED
      BY <1>2, <1>3, <1>4, <2>2, <3>1 DEF n
  <2>3. QED
    BY <2>1, <2>2
<1>12. Current(z.ta, z.ua, z.del)
  <2>1. w.ua.held # 0 => /\ w.ua.held \in Ta /\ w.ua.held # n
                         /\ w.ta[w.ua.held].over /\ ~w.ta[w.ua.held].indep
                         /\ w.ua.held \notin Dying(w.del) \cup w.del.gone
    BY <1>1, <1>5, Ids DEF Body, Current, WorldType, UaType
  <2>2. QED
    BY <1>2, <1>3, <1>4, <1>5, <2>1 DEF Current
<1>13. Attached(z.ta, z.ua, z.st, z.del)
  <2> SUFFICES ASSUME NEW j \in Ta, Runs(z.ta, z.del, j)
               PROVE  IF z.ta[j].att THEN j = z.ua.cur
                      ELSE z.ta[j].indep /\ j \in z.st.ind
                           /\ z.ta[j].state = "Completed"
    BY DEF Attached
  <2>1. CASE j = n
    BY <1>2, <1>3, <1>4, <2>1
  <2>2. CASE j # n
    <3>1. IF w.ta[j].att THEN j = w.ua.cur
          ELSE w.ta[j].indep /\ j \in w.st.ind /\ w.ta[j].state = "Completed"
      BY <1>5, <1>6, <2>2 DEF Body, Attached
    <3>2. QED
      BY <1>1, <1>3, <1>4, <2>2, <3>1, Ids
  <2>3. QED
    BY <2>1, <2>2
<1>14. Acked(z.ta) /\ Freeing(z.ta, z.del)
  BY <1>3, <1>4, <1>5 DEF Body, Acked, Freeing
<1>15. Sending(z.ta, z.tx, z.ua, z.del)
  <2>1. z.tx[Ua] = "idle" /\ z.tx[n] = "idle"
    BY <1>4, <1>5
  <2>2. QED
    BY <1>3, <1>4, <1>5, <2>1 DEF Body, Sending
<1>16. LetGo(z.ta, z.tm, z.tx, z.del)
  <2>1. \A j \in Ta : j # n => Timed(z.ta, z.tm, z.tx, z.del, j)
    <3>1. \A j \in Ta : Timed(w.ta, w.tm, w.tx, w.del, j)
      BY DEF MayCreate, Core, LetGo
    <3>2. QED
      BY <1>3, <1>4, <1>6, <3>1 DEF Timed
  <2>2. Timed(z.ta, z.tm, z.tx, z.del, n)
    BY <1>3, <1>4, <1>5 DEF Timed, TaTimers
  <2>3. QED
    BY <2>1, <2>2 DEF LetGo
<1>17. Core(z)
  BY <1>4, <1>7, <1>8, <1>9, <1>10, <1>11, <1>12, <1>13, <1>14, <1>15,
     <1>16 DEF Core, Body
<1>18. QED
  BY <1>3, <1>4, <1>5, <1>17 DEF Creates, u1, n

NewTa(b) == [NoTa EXCEPT !.state = "Calling", !.att = TRUE, !.udp = b]
WithNewTa(w, b) == [w EXCEPT !.ua.cur = w.ua.n, !.ta[w.ua.n] = NewTa(b)]

LEMMA CreateTransactionGood ==
  ASSUME NEW w, MayCreate(w), NEW r \in CreateTransactionL(w)
  PROVE  \/ r.left = "nomem" /\ r.w = w
         \/ Done(r) /\ Creates(w, r.w)
<1>1. w.ua.cur = 0
  BY DEF MayCreate
<1>2. \/ r \in MayLeave("alloc", w)
      \/ \E b \in Transports : r \in Yes(WithNewTa(w, b))
  <2> DEFINE A == UNION {Yes(WithNewTa(w, b)) : b \in Transports}
             B == MayLeave("alloc", w)
  <2>1. CreateTransactionL(w) = B \cup A
    BY <1>1, Zenon DEF CreateTransactionL, Assert, WithNewTa, NewTa
  <2>2. ASSUME r \in A
        PROVE  \E b \in Transports : r \in Yes(WithNewTa(w, b))
    BY <2>2, Zenon
  <2> HIDE DEF A
  <2>3. QED
    BY <2>1, <2>2
<1>3. CASE r \in MayLeave("alloc", w)
  BY <1>3 DEF MayLeave, Leave
<1>4. CASE \E b \in Transports : r \in Yes(WithNewTa(w, b))
  <2>1. PICK b \in Transports : r \in Yes(WithNewTa(w, b))
    BY <1>4
  <2>2. b \in BOOLEAN
    BY <2>1, InviteClientAssumption
  <2>3. /\ NewTa(b) \in TaType /\ NewTa(b).state = "Calling"
        /\ ~NewTa(b).over /\ NewTa(b).msg = "none" /\ NewTa(b).att
        /\ ~NewTa(b).indep
    BY <2>2 DEF NewTa, NoTa, TaType
  <2>4. Created(w, NewTa(b), WithNewTa(w, b))
    BY DEF Created, WithNewTa
  <2>5. Creates(w, WithNewTa(w, b))
    BY <2>3, <2>4, CreatesGood
  <2>6. QED
    BY <2>1, <2>5 DEF Yes, Done
<1>5. QED
  BY <1>2, <1>3, <1>4

(* The store finds the user agent's current transaction from now on.       *)
StoreOnly(w, z) ==
  /\ Core(z) /\ z.ta = w.ta /\ z.tm = w.tm /\ z.tx = w.tx /\ z.ua = w.ua
  /\ z.ut = w.ut /\ z.del = w.del /\ z.hist = w.hist
  /\ z.st.id = w.st.id /\ z.st.ind = w.st.ind /\ z.st.rx = w.ua.cur

Entered(w, z) ==
  /\ z \in WorldType /\ z.ta = w.ta /\ z.tm = w.tm /\ z.tx = w.tx
  /\ z.ua = w.ua /\ z.ut = w.ut /\ z.del = w.del /\ z.hist = w.hist
  /\ z.st.id = w.st.id /\ z.st.ind = w.st.ind /\ z.st.rx = w.ua.cur

LEMMA StoreOnlyGood ==
  ASSUME NEW w, Core(w), NEW z, Entered(w, z)
  PROVE  StoreOnly(w, z)
<1>1. w \in WorldType /\ w.ua.n \in Nat
  BY DEF Core, Body, WorldType, UaType
<1>2. UaOnly(w, z)
  BY <1>1 DEF Entered, UaOnly
<1>3. UaMay(w, z)
  BY DEF Entered, UaMay, Core, Body, Ends, Current, Answered
<1>4. Core(z)
  BY <1>2, <1>3, UaStepGood DEF Core
<1>5. QED
  BY <1>4 DEF Entered, StoreOnly

LEMMA UpdateInfoToStoreGood ==
  ASSUME NEW w, Core(w), NEW h \in BOOLEAN, NEW r \in UpdateInfoToStoreL(w, h)
  PROVE  /\ \/ Done(r) /\ StoreOnly(w, r.w)
            \/ LeftIn(w, r)
         /\ ~w.ua.stopped => StoreOnly(w, r.w)
<1>1. /\ w \in WorldType /\ w.st \in StType /\ w.ua \in UaType
      /\ w.ua.cur \in Obj /\ w.ua.n \in Branches
      /\ ~w.ua.stopped => w.st.id = "main"
  BY BranchIs DEF Core, Body, Ends, WorldType, UaType
<1>2. CASE w.st.id # "main"
  <2>1. r \in Leave(Searched(w), "other")
    BY <1>2 DEF UpdateInfoToStoreL
  <2>2. Core(Searched(w)) /\ Keeps(w, Searched(w))
    <3>1. /\ Core(Searched(w)) /\ Searched(w).ta = w.ta
          /\ Searched(w).hist = w.hist
          /\ Searched(w).ut["S"] = "on" => w.ut["S"] = "on"
          /\ Searched(w).ua = w.ua \/ Searched(w).ua = KilledUa(w.ua)
      BY SearchedGood
    <3>2. /\ Follows(w.ua, Searched(w).ua)
          /\ Searched(w).ua.stopped = w.ua.stopped
      BY <1>1, <3>1, FollowsKilled, KilledUaIs
    <3>3. QED
      BY <3>1, <3>2 DEF Keeps
  <2>3. QED
    BY <1>1, <1>2, <2>1, <2>2 DEF Leave, LeftIn
<1>3. CASE w.st.id = "main"
  <2> DEFINE s1 == [w.st EXCEPT !.rx = w.ua.cur]
             b == IF w.ua.msg = "invite" THEN w.ua.n ELSE 0
             s2 == [s1 EXCEPT !.branch = b]
             z1 == [w EXCEPT !.st = s1]
             z2 == [w EXCEPT !.st = s2]
  <2>1. /\ s1 \in StType /\ s1.id = w.st.id /\ s1.ind = w.st.ind
        /\ s1.rx = w.ua.cur
    BY <1>1 DEF StType
  <2>2. b \in Branches
    BY <1>1, BranchIs
  <2> HIDE DEF s1, b
  <2>3. /\ s2 \in StType /\ s2.id = w.st.id /\ s2.ind = w.st.ind
        /\ s2.rx = w.ua.cur
    BY <2>1, <2>2 DEF StType
  <2> HIDE DEF s2
  <2>4. z1.st = s1 /\ z1.ua = w.ua
    BY <1>1 DEF WorldType
  <2>5. Entered(w, z1)
    BY <1>1, <2>1 DEF WorldType, Entered
  <2>6. Entered(w, z2)
    BY <1>1, <2>3 DEF WorldType, Entered
  <2>7. [z1 EXCEPT !.st.branch = b] = z2
    <3>1. [z1 EXCEPT !.st = s2] = z2
      BY <1>1 DEF WorldType
    <3> HIDE DEF z1, z2
    <3>2. QED
      BY <2>4, <3>1 DEF s2
  <2>8. r \in Yes(z1) \cup Yes([z1 EXCEPT !.st.branch = b])
              \cup MayLeave("alloc", z1)
    <3> DEFINE u == [w EXCEPT !.st.rx = w.ua.cur]
               A == Yes(u)
               B == Yes([u EXCEPT !.st.branch = b])
               L == MayLeave("alloc", u)
    <3>1. UpdateInfoToStoreL(w, h) = IF h THEN B \cup L ELSE A
      BY <1>3 DEF UpdateInfoToStoreL, b
    <3>2. u = z1
      BY DEF s1
    <3> HIDE DEF A, B, L, u, z1
    <3>3. r \in A \cup B \cup L
      BY <3>1
    <3>4. QED
      BY <3>2, <3>3 DEF A, B, L
  <2> HIDE DEF z1, z2
  <2>9. /\ r.w \in {z1, z2}
        /\ Done(r) \/ r.left = "nomem"
    BY <2>7, <2>8 DEF Yes, MayLeave, Leave, Done
  <2>10. StoreOnly(w, r.w)
    BY <2>5, <2>6, <2>9, StoreOnlyGood
  <2>11. Keeps(w, r.w) /\ Core(r.w)
    BY <1>1, <2>10, FollowsKilled DEF StoreOnly, Keeps
  <2>12. QED
    BY <2>9, <2>10, <2>11 DEF LeftIn
<1>4. QED
  BY <1>2, <1>3

(* The INVITE is given to its transaction, and by that to the transmitter. *)
Ready(w) ==
  /\ Core(w) /\ w.ua.msg = "invite" /\ w.ua.cur # 0
  /\ w.ta[w.ua.cur].state = "Calling" /\ ~w.ta[w.ua.cur].over
  /\ w.tx[Ua] = "idle"

Given(w, z, x) ==
  /\ Core(z) /\ z.ua = w.ua /\ z.ut = w.ut /\ z.st = w.st
  /\ z.del = w.del /\ z.hist = w.hist /\ z.tx[Ua] = x
  /\ z.tm[w.ua.cur] = w.tm[w.ua.cur]
  /\ \A j \in Ta : j # w.ua.cur => z.ta[j] = w.ta[j]
  /\ z.ta[w.ua.cur].state = "Calling" /\ ~z.ta[w.ua.cur].over

GivenTa(w) == [w.ta[w.ua.cur] EXCEPT !.msg = "invite"]

LEMMA GivenGood ==
  ASSUME NEW w, Ready(w), NEW x \in {"idle", "ta"}, NEW z,
         IsWith(w, w.ua.cur, GivenTa(w), w.tm[w.ua.cur], Ua, x, z)
  PROVE  Given(w, z, x)
<1> DEFINE i == w.ua.cur
           t == GivenTa(w)
<1>1. /\ w \in WorldType /\ w.ta \in [Ta -> TaType] /\ i \in Ta
      /\ Body(w) /\ LetGo(w.ta, w.tm, w.tx, w.del) /\ ~w.ta[i].indep
      /\ i \notin w.del.gone /\ w.ta[i].state = "Calling" /\ ~w.ta[i].over
      /\ w.tx[Ua] = "idle" /\ i = w.ua.cur /\ i # 0
      /\ IsWith(w, i, t, w.tm[i], Ua, x, z)
  <2>1. i \in Ta
    BY Ids DEF Ready, Core, Body, WorldType, UaType
  <2>2. QED
    BY <2>1 DEF Ready, Core, Body, WorldType, Current
<1>2. /\ t.state = "Calling" /\ ~t.over /\ t.msg = "invite" /\ ~t.indep
      /\ t.att = w.ta[i].att /\ t.indep = w.ta[i].indep
  <2> DEFINE s == w.ta[i]
  <2>1. s \in TaType /\ t = [s EXCEPT !.msg = "invite"]
        /\ s.state = "Calling" /\ ~s.over /\ ~s.indep
    BY <1>1 DEF GivenTa
  <2> HIDE DEF s, i, t
  <2>2. t.state = "Calling" /\ ~t.over /\ t.msg = "invite" /\ ~t.indep
        /\ t.att = s.att /\ t.indep = s.indep
    BY <2>1, TaWith
  <2>3. QED
    BY <2>2 DEF s
<1> HIDE DEF i, t
<1>3. /\ z \in WorldType /\ z.ua = w.ua /\ z.ut = w.ut /\ z.st = w.st
      /\ z.del = w.del /\ z.hist = w.hist
      /\ z.ta[i] = t /\ z.tm[i] = w.tm[i] /\ z.tx[Ua] = x
      /\ \A j \in Ta : j # i => z.ta[j] = w.ta[j] /\ z.tm[j] = w.tm[j]
      /\ \A j \in Ta : z.tx[j] = w.tx[j]
  BY <1>1, Ids DEF IsWith
<1>4. TaOnly(w, z, i)
  BY <1>1, <1>2, <1>3 DEF TaOnly
<1>5. TaMay(w, z, i)
  <2>1. w.tx[i] = "idle"
    BY <1>1 DEF Body, Sending
  <2>2. ~z.ta[i].over /\ ~z.ta[i].att => z.ta[i].state = "Completed"
    <3>1. Runs(w.ta, w.del, i)
      BY <1>1 DEF Runs, Here
    <3>2. w.ta[i].att
      BY <1>1, <3>1, CurrentOrLetGo
    <3>3. QED
      BY <1>2, <1>3, <3>2
  <2>3. QED
    BY <1>1, <1>2, <1>3, <2>1, <2>2 DEF TaMay, Answered
<1>6. /\ Body(z) /\ \A j \in Ta : j # i => Timed(z.ta, z.tm, z.tx, z.del, j)
  BY <1>1, <1>4, <1>5, TaStepGood DEF LetGo
<1>7. Timed(z.ta, z.tm, z.tx, z.del, i)
  <2>1. Timed(w.ta, w.tm, w.tx, w.del, i) /\ Runs(w.ta, w.del, i)
    BY <1>1 DEF LetGo, Runs, Here
  <2>2. QED
    BY <1>2, <1>3, <2>1 DEF Timed
<1>8. Core(z)
  BY <1>6, <1>7 DEF Core, LetGo
<1>9. QED
  BY <1>1, <1>2, <1>3, <1>8 DEF Given

LEMMA SendInviteGood ==
  ASSUME NEW w, Ready(w), NEW r \in SendRequestToNetworkL(w)
  PROVE  \/ Done(r) /\ Given(w, r.w, "ta")
         \/ r.left = "nomem" /\ Given(w, r.w, "idle")
<1> DEFINE i == w.ua.cur
           t == [w.ta[i] EXCEPT !.msg = "invite"]
           v == [w EXCEPT !.ta[i].msg = "invite"]
           y == [v EXCEPT !.tx[Ua] = "ta"]
<1>1. /\ w \in WorldType /\ w.ta \in [Ta -> TaType] /\ i \in Ta /\ i # 0
      /\ w.tm \in [Ta -> [TaTimers -> TimerType]]
      /\ w.tx \in [Obj -> {"idle", "ta", "ua"}] /\ Ua \in Obj
      /\ w.ta[i] \in TaType /\ ~w.ta[i].over /\ ~w.ta[i].indep
      /\ w.ua.msg = "invite" /\ w.tx[Ua] = "idle"
  BY Ids DEF Ready, Core, Body, WorldType, UaType, Current
<1>2. t \in TaType /\ t.msg = "invite" /\ ~t.indep
  <2> DEFINE s == w.ta[i]
  <2>1. s \in TaType /\ ~s.indep
    BY <1>1
  <2> HIDE DEF s
  <2>2. [s EXCEPT !.msg = "invite"] \in TaType
        /\ [s EXCEPT !.msg = "invite"].msg = "invite"
        /\ ~[s EXCEPT !.msg = "invite"].indep
    BY <2>1, TaWith
  <2>3. QED
    BY <2>2 DEF s
<1>3. /\ v = With(w, i, t, w.tm[i], Ua, "idle")
      /\ y = With(w, i, t, w.tm[i], Ua, "ta")
  BY <1>1 DEF With, WorldType
<1>4. v.ua = w.ua /\ v.ta[i] = t /\ v.tx = w.tx
  <2> DEFINE t1 == [w.ta EXCEPT ![i] = t]
  <2>1. t1[i] = t
    BY <1>1
  <2>2. v = [w EXCEPT !.ta = t1]
    OBVIOUS
  <2> HIDE DEF t1, t
  <2>3. QED
    BY <1>1, <2>1, <2>2 DEF WorldType
<1> HIDE DEF i, t
<1>5. /\ IsWith(w, i, t, w.tm[i], Ua, "idle", v)
      /\ IsWith(w, i, t, w.tm[i], Ua, "ta", y)
  <2>1. w.tm[i] \in [TaTimers -> TimerType]
    BY <1>1
  <2> HIDE DEF v, y
  <2>2. QED
    BY <1>1, <1>2, <1>3, <2>1, WithIs
<1>6. SendRequestToNetworkL(w) = SendToTransmitterL(v, v.ua.cur)
  BY <1>1 DEF SendRequestToNetworkL, Assert, i
<1>7. TxOf(v, i) = Ua /\ v.ta[i].msg # "none" /\ v.tx[Ua] = "idle"
  BY <1>1, <1>2, <1>4 DEF TxOf
<1>8. SendToTransmitterL(v, i) = Yes(y) \cup MayLeave("send", v)
  <2> HIDE DEF v
  <2>1. QED
    BY <1>7 DEF SendToTransmitterL, Assert
<1> HIDE DEF v, y
<1>9. r \in Yes(y) \cup MayLeave("send", v)
  BY <1>4, <1>6, <1>8 DEF i
<1>10. Given(w, v, "idle") /\ Given(w, y, "ta")
  BY <1>5, GivenGood DEF i, t, GivenTa
<1>11. QED
  BY <1>9, <1>10 DEF Yes, MayLeave, Leave, Done

(* The user agent enters another state.                                    *)
Moved(w, c, z) ==
  /\ z \in WorldType /\ z.ta = w.ta /\ z.tm = w.tm /\ z.tx = w.tx
  /\ z.ut = w.ut /\ z.st = w.st /\ z.del = w.del /\ z.hist = w.hist
  /\ z.ua.state = c
  /\ z.ua.stopped = w.ua.stopped /\ z.ua.owner = w.ua.owner
  /\ z.ua.msg = w.ua.msg /\ z.ua.final = w.ua.final
  /\ z.ua.cur = w.ua.cur /\ z.ua.held = w.ua.held /\ z.ua.n = w.ua.n
  /\ z.ua.stored = w.ua.stored /\ z.ua.secwait = w.ua.secwait
  /\ z.ua.secerr = w.ua.secerr /\ z.ua.addrs = w.ua.addrs
  /\ z.ua.results = w.ua.results

LEMMA MovedIs ==
  ASSUME NEW w \in WorldType,
         NEW c \in {"Resolve", "WaitResponse", "WaitAuth", "WaitEnd"}
                     \cup AckStates
  PROVE  Moved(w, c, [w EXCEPT !.ua.state = c])
<1> DEFINE u == w.ua
           v == [u EXCEPT !.state = c]
           z == [w EXCEPT !.ua = v]
<1>1. u \in UaType
  BY DEF WorldType
<1> HIDE DEF u
<1>2. v \in UaType
  BY <1>1, UaWith
<1>3. /\ v.state = c
      /\ v.stopped = u.stopped /\ v.owner = u.owner
      /\ v.msg = u.msg /\ v.final = u.final
      /\ v.cur = u.cur /\ v.held = u.held /\ v.n = u.n
      /\ v.stored = u.stored /\ v.secwait = u.secwait
      /\ v.secerr = u.secerr /\ v.addrs = u.addrs
      /\ v.results = u.results
  BY <1>1 DEF UaType
<1> HIDE DEF v
<1>4. /\ z \in WorldType /\ z.ua = v /\ z.ta = w.ta /\ z.tm = w.tm
      /\ z.tx = w.tx /\ z.ut = w.ut /\ z.st = w.st /\ z.del = w.del
      /\ z.hist = w.hist
  BY <1>2 DEF WorldType
<1> HIDE DEF z
<1>5. Moved(w, c, z)
  BY <1>3, <1>4 DEF Moved, u
<1>6. QED
  BY <1>5 DEF z, v, u

LEMMA MovedOnly ==
  ASSUME NEW w, Core(w), NEW c, NEW z, Moved(w, c, z)
  PROVE  /\ UaOnly(w, z) /\ Budget(z.ua)
         /\ z.hist.late => z.ua.secerr
<1>1. w.ua.n \in Nat
  BY DEF Core, Body, WorldType, UaType
<1>2. QED
  BY <1>1 DEF Core, Body, Ends, Budget, Moved, UaOnly

(* The INVITE is on its way.                                               *)
Away(w) ==
  /\ Core(w) /\ w.tx[Ua] = "ta" /\ w.ua.cur # 0
  /\ w.ta[w.ua.cur].state = "Calling" /\ ~w.ta[w.ua.cur].over
  /\ w.tm[w.ua.cur]["P"] = "off" /\ w.tm[w.ua.cur]["N"] = "off"
  /\ ~w.ua.secwait /\ w.ua.stored = "none" /\ w.ut["S"] # "on"
  /\ w.ua.state \in {"Resolve", "WaitResponse", "WaitAuth"}
  /\ w.st.rx = w.ua.cur /\ w.ua.n <= MaxTa

LEMMA AwayGood ==
  ASSUME NEW w, Away(w), NEW z, Moved(w, "WaitResponse", z)
  PROVE  Inv(z) /\ ~z.ua.secwait /\ z.ta = w.ta
<1>1. /\ Core(w) /\ Body(w) /\ w.ua.n \in Nat /\ MaxTa \in Nat
  BY InviteClientAssumption DEF Away, Core, Body, WorldType, UaType
<1>2. UaMay(w, z)
  <2>1. Kept(z.ua, z.ut)
    BY <1>1 DEF Away, Moved, Body, Kept, AckStates
  <2>2. Heard(z.ua, z.hist)
    BY <1>1 DEF Away, Moved, Body, Heard, AckStates
  <2>3. Acks(z.ua, w.tx)
    BY <1>1 DEF Away, Moved, Body, Acks, AckStates
  <2>4. Limit(z.ua, w.ta, w.del)
    <3>1. z.ua.n = w.ua.n /\ w.ua.n <= MaxTa
      BY DEF Away, Moved
    <3>2. z.ua.n <= MaxTa + 1 /\ z.ua.n # MaxTa + 1
      BY <1>1, <3>1
    <3>3. QED
      BY <3>2 DEF Limit
  <2>5. QED
    BY <1>1, <2>1, <2>2, <2>3, <2>4, MovedOnly DEF UaMay, Away, Moved
<1>3. Core(z)
  BY <1>1, <1>2, MovedOnly, UaStepGood
<1>4. Steady(z)
  BY DEF Away, Moved, Steady, Fresh, Awaits
<1>5. CurrentEnds(z.ta, z.tm, z.tx, z.ua, z.del, z.hist)
  BY DEF Away, Moved, CurrentEnds
<1>6. QED
  BY <1>3, <1>4, <1>5 DEF Inv, Rest, Away, Moved

(* A new transaction is found by the store, and given the INVITE.          *)
Prepared(w) ==
  /\ Ready(w)
  /\ w.tm[w.ua.cur]["P"] = "off" /\ w.tm[w.ua.cur]["N"] = "off"
  /\ ~w.ua.secwait /\ w.ua.stored = "none" /\ w.ut["S"] # "on"
  /\ w.ua.state \in {"Resolve", "WaitResponse", "WaitAuth"}
  /\ w.ua.n <= MaxTa

OverKept(w, z) == \A j \in Ta : w.ta[j].over => z.ta[j] = w.ta[j]
Settles(w, r) ==
  \/ Done(r) /\ Inv(r.w) /\ ~r.w.ua.secwait /\ OverKept(w, r.w)
  \/ Gone(w, r)

GivenOn(w, h) ==
  Then(UpdateInfoToStoreL(w, h), LAMBDA c :
  Then(SendRequestToNetworkL(c), LAMBDA d :
    Yes([d EXCEPT !.ua.state = "WaitResponse"])))

LEMMA GivenOnGood ==
  ASSUME NEW w, Prepared(w), NEW h \in BOOLEAN, NEW r \in GivenOn(w, h)
  PROVE  Settles(w, r)
<1>1. PICK p \in UpdateInfoToStoreL(w, h) :
        r \in IF p.left = "no" /\ p.yes
              THEN Then(SendRequestToNetworkL(p.w), LAMBDA d :
                     Yes([d EXCEPT !.ua.state = "WaitResponse"]))
              ELSE {p}
  BY DEF GivenOn, Then
<1>2. \/ Done(p) /\ StoreOnly(w, p.w)
      \/ LeftIn(w, p)
  BY UpdateInfoToStoreGood DEF Prepared, Ready
<1>3. CASE LeftIn(w, p)
  <2>1. p.left \in {"nomem", "other"} /\ Core(p.w) /\ Keeps(w, p.w)
    BY <1>3 DEF LeftIn
  <2>2. r = p
    BY <1>1, <2>1
  <2>3. Gone(w, p)
    BY <2>1 DEF Gone, Keeps, Follows, Prepared
  <2>4. QED
    BY <2>2, <2>3 DEF Settles
<1>4. CASE Done(p) /\ StoreOnly(w, p.w)
  <2> DEFINE c == p.w
  <2>1. PICK q \in SendRequestToNetworkL(c) :
          r \in IF q.left = "no" /\ q.yes
                THEN Yes([q.w EXCEPT !.ua.state = "WaitResponse"])
                ELSE {q}
    BY <1>1, <1>4 DEF Done, Then
  <2>2. /\ Core(c) /\ c.ta = w.ta /\ c.tm = w.tm /\ c.tx = w.tx
        /\ c.ua = w.ua /\ c.ut = w.ut /\ c.st.rx = w.ua.cur
    BY <1>4 DEF StoreOnly
  <2> HIDE DEF c
  <2>3. Ready(c)
    BY <2>2 DEF Prepared, Ready
  <2>4. \/ Done(q) /\ Given(c, q.w, "ta")
        \/ q.left = "nomem" /\ Given(c, q.w, "idle")
    BY <2>1, <2>3, SendInviteGood
  <2>5. w.ua.cur \in Ta
    BY Ids DEF Prepared, Ready, Core, Body, WorldType, UaType
  <2>6. ASSUME NEW x, Given(c, q.w, x) PROVE OverKept(w, q.w)
    BY <2>2, <2>5, <2>6 DEF Given, OverKept, Prepared, Ready
  <2>7. CASE q.left = "nomem" /\ Given(c, q.w, "idle")
    <3>1. r = q
      BY <2>1, <2>7
    <3>2. Core(q.w) /\ q.w.ua = w.ua
      BY <2>2, <2>7 DEF Given
    <3>3. Gone(w, q)
      BY <2>6, <2>7, <3>2 DEF Gone, OverKept, Prepared
    <3>4. QED
      BY <3>1, <3>3 DEF Settles
  <2>8. CASE Done(q) /\ Given(c, q.w, "ta")
    <3> DEFINE d == q.w
               z == [d EXCEPT !.ua.state = "WaitResponse"]
    <3>1. r \in Yes(z)
      BY <2>1, <2>8 DEF Done
    <3>2. Core(d) /\ d \in WorldType
      BY <2>8 DEF Given, Core, Body
    <3>3. Moved(d, "WaitResponse", z)
      BY <3>2, MovedIs
    <3>4. Away(d)
      BY <2>2, <2>8 DEF Given, Away, Prepared, Ready
    <3> HIDE DEF d, z
    <3>5. Inv(z) /\ ~z.ua.secwait /\ z.ta = d.ta
      BY <3>3, <3>4, AwayGood
    <3>6. OverKept(w, d)
      BY <2>6, <2>8 DEF d
    <3>7. QED
      BY <3>1, <3>5, <3>6 DEF Yes, Done, Settles, OverKept
  <2>9. QED
    BY <2>4, <2>7, <2>8
<1>5. QED
  BY <1>2, <1>3, <1>4

LEMMA SettlesTrans ==
  ASSUME NEW w, NEW v, NEW r, OverKept(w, v), Settles(v, r)
  PROVE  Settles(w, r)
BY DEF Settles, OverKept, Gone

(* The INVITE may be sent to another address: there is a branch for it.    *)
Sends(w) ==
  /\ Goes(w, w) /\ Detachable(w) /\ w.ua.msg = "invite"
  /\ w.ua.state \in {"WaitResponse", "WaitAuth"}
  /\ w.ua.n < MaxTa
  /\ w.ua.addrs > 0 => w.ua.n + 1 + w.ua.addrs <= MaxTa

Renewed(v) == Then(DetachCurrentTransactionL(v), CreateTransactionL)

LEMMA PreparedGood ==
  ASSUME NEW w, Sends(w), NEW v, Goes(w, v), MayCreate(v), NEW z,
         Creates(v, z)
  PROVE  Prepared(z) /\ OverKept(w, z)
<1>1. /\ Core(v) /\ v \in WorldType /\ v.ua \in UaType /\ v.ua.n \in Ta
      /\ v.ua.n # 0 /\ v.ua.n \in Obj
      /\ v.ta[v.ua.n].state = "none" /\ z.ua = [v.ua EXCEPT !.cur = v.ua.n]
      /\ Core(z)
      /\ \A j \in Ta : j # v.ua.n => z.ta[j] = v.ta[j]
      /\ z.ta[v.ua.n].state = "Calling" /\ ~z.ta[v.ua.n].over
      /\ z.tm = v.tm /\ z.tx[Ua] = "idle" /\ z.ut = v.ut
  BY Ids DEF MayCreate, Creates, Core, Body, WorldType
<1>2. /\ z.ua.cur = v.ua.n /\ z.ua.msg = v.ua.msg /\ z.ua.n = v.ua.n
      /\ z.ua.secwait = v.ua.secwait /\ z.ua.stored = v.ua.stored
      /\ z.ua.state = v.ua.state
  <2> DEFINE u == v.ua
  <2>1. u \in UaType /\ z.ua = [u EXCEPT !.cur = u.n]
    BY <1>1
  <2> HIDE DEF u
  <2>2. /\ z.ua.cur = u.n /\ z.ua.msg = u.msg /\ z.ua.n = u.n
        /\ z.ua.secwait = u.secwait /\ z.ua.stored = u.stored
        /\ z.ua.state = u.state
    BY <2>1 DEF UaType
  <2>3. QED
    BY <2>2 DEF u
<1>3. v.ta[v.ua.n] = NoTa /\ \A k \in TaTimers : v.tm[v.ua.n][k] = "off"
  BY <1>1 DEF Core, Body, Made
<1>4. v.ua.n <= MaxTa
  BY <1>1, InviteClientAssumption DEF Ta
<1>5. Ready(z)
  BY <1>1, <1>2 DEF Ready, Goes, Sends
<1>6. Prepared(z)
  BY <1>1, <1>2, <1>3, <1>4, <1>5 DEF Prepared, Goes, Sends, TaTimers
<1>7. OverKept(w, z)
  <2>1. ASSUME NEW j \in Ta, w.ta[j].over PROVE z.ta[j] = w.ta[j]
    <3>1. v.ta[j] = w.ta[j]
      BY <2>1 DEF Goes
    <3>2. ~NoTa.over
      BY DEF NoTa
    <3>3. j # v.ua.n
      BY <1>3, <2>1, <3>1, <3>2
    <3>4. QED
      BY <1>1, <3>1, <3>3
  <2>2. QED
    BY <2>1 DEF OverKept
<1>8. QED
  BY <1>6, <1>7

LEMMA UpdateAndSendInviteGood ==
  ASSUME NEW w, Sends(w), NEW r \in UpdateAndSendRequestL(w, "WaitResponse")
  PROVE  Settles(w, r)
<1>0. /\ w.ua.n \in Nat /\ MaxTa \in Nat /\ w.ua.n + 1 \in Ta
      /\ w.ua.n + 1 > w.ua.n
  <2> DEFINE n == w.ua.n
  <2>1. n \in Nat /\ MaxTa \in Nat /\ n < MaxTa
    BY InviteClientAssumption
       DEF Sends, Goes, Core, Body, WorldType, UaType
  <2> HIDE DEF n
  <2>2. n + 1 \in Ta /\ n + 1 > n
    BY <2>1 DEF Ta
  <2>3. QED
    BY <2>1, <2>2 DEF n
<1>1. Advances(w)
  <2>1. w.ua.n <= MaxTa /\ w.ua.n # MaxTa
    BY <1>0 DEF Sends
  <2>2. QED
    BY <2>1 DEF Advances, Sends
<1>2. PICK p \in UpdateViaAndCSeqL(w) :
        r \in IF p.left = "no" /\ p.yes
              THEN Then(IF p.w.ua.msg = "ack" THEN Yes(p.w)
                        ELSE Renewed(p.w), LAMBDA b : GivenOn(b, TRUE))
              ELSE {p}
  BY DEF UpdateAndSendRequestL, GivenOn, Renewed, Then
<1>3. \/ Gone(w, p)
      \/ Done(p) /\ Goes(w, p.w) /\ Renumbered(w, p.w)
  BY <1>1, <1>2, UpdateViaAndCSeqGood DEF Sends
<1>4. CASE Gone(w, p)
  BY <1>2, <1>4 DEF Gone, Settles
<1>5. CASE Done(p) /\ Goes(w, p.w) /\ Renumbered(w, p.w)
  <2> DEFINE a == p.w
  <2>1. /\ a.ua.msg = "invite" /\ a.ua.n = w.ua.n + 1 /\ a.ta = w.ta
        /\ a.tx = w.tx /\ a.tm = w.tm /\ a.ua.cur = w.ua.cur
        /\ a.ua.stopped = w.ua.stopped /\ Core(a) /\ Goes(w, a)
    BY <1>5 DEF Goes, Renumbered, Sends
  <2>2. r \in Then(Renewed(a), LAMBDA b : GivenOn(b, TRUE))
    BY <1>2, <1>5, <2>1 DEF Done
  <2> HIDE DEF a
  <2>3. PICK q \in Renewed(a) :
          r \in IF q.left = "no" /\ q.yes THEN GivenOn(q.w, TRUE) ELSE {q}
    BY <2>2 DEF Then
  <2>4. PICK s \in DetachCurrentTransactionL(a) :
          q \in IF s.left = "no" /\ s.yes THEN CreateTransactionL(s.w)
                ELSE {s}
    BY <2>3 DEF Renewed, Then
  <2>5. Detachable(a)
    BY <2>1 DEF Detachable, Sends
  <2>6. (Done(s) /\ Detaches(a, s.w)) \/ LeftIn(a, s)
    BY <2>1, <2>4, <2>5, DetachCurrentTransactionGood
  <2>7. CASE LeftIn(a, s)
    <3>1. Goes(w, s.w) /\ s.left \in {"nomem", "other"}
      BY <2>1, <2>7, GoesOn DEF LeftIn
    <3>2. r = s
      BY <2>3, <2>4, <3>1
    <3>3. QED
      BY <3>1, <3>2, GoesGone DEF Settles
  <2>8. CASE Done(s) /\ Detaches(a, s.w)
    <3> DEFINE b == s.w
    <3>1. Goes(w, b) /\ b.ua.n = a.ua.n /\ b.ua.cur = 0 /\ Keeps(a, b)
      BY <2>1, <2>8, GoesOn DEF Detaches
    <3>2. w.ta[w.ua.n + 1].state = "none"
      BY <1>0 DEF Sends, Goes, Core, Body, Made
    <3> HIDE DEF b
    <3>3. MayCreate(b)
      BY <1>0, <2>1, <3>1, <3>2 DEF MayCreate, Goes, Keeps, Sends
    <3>4. \/ q.left = "nomem" /\ q.w = b
          \/ Done(q) /\ Creates(b, q.w)
      BY <2>4, <2>8, <3>3, CreateTransactionGood DEF Done, b
    <3>5. CASE q.left = "nomem" /\ q.w = b
      <4>1. r = q
        BY <2>3, <3>5
      <4>2. QED
        BY <3>1, <3>5, <4>1, GoesGone DEF Settles
    <3>6. CASE Done(q) /\ Creates(b, q.w)
      <4>1. Prepared(q.w) /\ OverKept(w, q.w)
        BY <3>1, <3>3, <3>6, PreparedGood
      <4>2. r \in GivenOn(q.w, TRUE)
        BY <2>3, <3>6 DEF Done
      <4>3. Settles(q.w, r)
        BY <4>1, <4>2, GivenOnGood
      <4>4. QED
        BY <4>1, <4>3, SettlesTrans
    <3>7. QED
      BY <3>4, <3>5, <3>6
  <2>9. QED
    BY <2>6, <2>7, <2>8
<1>6. QED
  BY <1>3, <1>4, <1>5

(* The user agent keeps a response, or none.                               *)
Stored(w, c, z) ==
  /\ z \in WorldType /\ z.ta = w.ta /\ z.tm = w.tm /\ z.tx = w.tx
  /\ z.ut = w.ut /\ z.st = w.st /\ z.del = w.del /\ z.hist = w.hist
  /\ z.ua.stored = c
  /\ z.ua.stopped = w.ua.stopped /\ z.ua.owner = w.ua.owner
  /\ z.ua.msg = w.ua.msg /\ z.ua.final = w.ua.final
  /\ z.ua.cur = w.ua.cur /\ z.ua.held = w.ua.held /\ z.ua.n = w.ua.n
  /\ z.ua.state = w.ua.state /\ z.ua.secwait = w.ua.secwait
  /\ z.ua.secerr = w.ua.secerr /\ z.ua.addrs = w.ua.addrs
  /\ z.ua.results = w.ua.results

LEMMA StoredIs ==
  ASSUME NEW w \in WorldType, NEW c \in Responses \cup {"none"}
  PROVE  Stored(w, c, [w EXCEPT !.ua.stored = c])
<1> DEFINE u == w.ua
           v == [u EXCEPT !.stored = c]
           z == [w EXCEPT !.ua = v]
<1>1. u \in UaType
  BY DEF WorldType
<1> HIDE DEF u
<1>2. v \in UaType
  BY <1>1, UaWith
<1>3. /\ v.stored = c
      /\ v.stopped = u.stopped /\ v.owner = u.owner
      /\ v.msg = u.msg /\ v.final = u.final
      /\ v.cur = u.cur /\ v.held = u.held /\ v.n = u.n
      /\ v.state = u.state /\ v.secwait = u.secwait
      /\ v.secerr = u.secerr /\ v.addrs = u.addrs
      /\ v.results = u.results
  BY <1>1 DEF UaType
<1> HIDE DEF v
<1>4. /\ z \in WorldType /\ z.ua = v /\ z.ta = w.ta /\ z.tm = w.tm
      /\ z.tx = w.tx /\ z.ut = w.ut /\ z.st = w.st /\ z.del = w.del
      /\ z.hist = w.hist
  BY <1>2 DEF WorldType
<1> HIDE DEF z
<1>5. Stored(w, c, z)
  BY <1>3, <1>4 DEF Stored, u
<1>6. QED
  BY <1>5 DEF z, v, u

(* The INVITE's URI may be resolved again: there is a number for it.       *)
Resolves(w) ==
  /\ Goes(w, w) /\ Detachable(w)
  /\ w.ua.state \in {"WaitResponse", "WaitAuth"} /\ w.ua.addrs = 0
  /\ w.ua.msg = "invite" => w.ua.n <= MaxTa
  /\ w.ua.state = "WaitResponse" =>
       w.ua.cur = 0 \/ w.ta[w.ua.cur].over

(* It is about to be.                                                      *)
Unresolved(w) ==
  /\ Core(w) /\ ~w.ua.secwait /\ w.ua.stored = "none" /\ w.ut["S"] # "on"
  /\ w.ua.state \in {"WaitResponse", "WaitAuth"} /\ w.ua.msg = "invite"
  /\ w.ua.addrs = 0 /\ w.ua.cur = 0 /\ w.st.rx = 0
  /\ w.ua.n \in Ta => w.ta[w.ua.n].state = "none"

LEMMA UnresolvedGood ==
  ASSUME NEW w, Unresolved(w), NEW c \in {"none", "busy"},
         NEW v, Moved(w, "Resolve", v), NEW z, Stored(v, c, z)
  PROVE  Inv(z) /\ ~z.ua.secwait /\ z.ta = w.ta
<1>1. /\ Core(w) /\ Body(w) /\ w.ua.n \in Nat
  BY DEF Unresolved, Core, Body, WorldType, UaType
<1>2. /\ z \in WorldType /\ z.ta = w.ta /\ z.tm = w.tm /\ z.tx = w.tx
      /\ z.ut = w.ut /\ z.st = w.st /\ z.del = w.del /\ z.hist = w.hist
      /\ z.ua.state = "Resolve" /\ z.ua.stored = c
      /\ z.ua.stopped = w.ua.stopped /\ z.ua.owner = w.ua.owner
      /\ z.ua.msg = w.ua.msg
      /\ z.ua.cur = w.ua.cur /\ z.ua.held = w.ua.held /\ z.ua.n = w.ua.n
      /\ z.ua.secwait = w.ua.secwait
      /\ z.ua.secerr = w.ua.secerr /\ z.ua.addrs = w.ua.addrs
  BY DEF Moved, Stored
<1>3. UaOnly(w, z)
  BY <1>1, <1>2 DEF UaOnly
<1>4. UaMay(w, z)
  <2>1. Kept(z.ua, z.ut)
    BY <1>1, <1>2 DEF Unresolved, Body, Kept, AckStates, IsError
  <2>2. Heard(z.ua, z.hist)
    BY <1>1, <1>2 DEF Unresolved, Body, Heard, AckStates
  <2>3. Acks(z.ua, w.tx)
    BY <1>1, <1>2 DEF Unresolved, Body, Acks, AckStates
  <2>4. Limit(z.ua, w.ta, w.del)
    BY <1>1, <1>2 DEF Unresolved, Body, Limit
  <2>5. Budget(z.ua)
    BY <1>2 DEF Unresolved, Budget
  <2>6. /\ z.hist.late => z.ua.secerr
        /\ ~z.ua.secwait /\ z.ua.state # "WaitEnd"
    BY <1>1, <1>2 DEF Unresolved, Body, Ends
  <2>7. QED
    BY <2>1, <2>2, <2>3, <2>4, <2>5, <2>6 DEF UaMay
<1>5. Core(z)
  BY <1>1, <1>3, <1>4, UaStepGood
<1>6. Steady(z)
  BY <1>2 DEF Unresolved, Steady, Fresh, Awaits
<1>7. CurrentEnds(z.ta, z.tm, z.tx, z.ua, z.del, z.hist)
  BY <1>2 DEF Unresolved, CurrentEnds
<1>8. QED
  BY <1>2, <1>5, <1>6, <1>7 DEF Inv, Rest, Unresolved

ResolvedOn(w, resp) ==
  Then(UpdateAndResolveL(w, "Resolve"), LAMBDA u :
    Yes([u EXCEPT !.ua.stored = resp]))

LEMMA UpdateAndResolveInviteGood ==
  ASSUME NEW w, Resolves(w), NEW c \in {"none", "busy"},
         NEW r \in ResolvedOn(w, c)
  PROVE  Settles(w, r)
<1>0. /\ w.ua.n \in Nat /\ MaxTa \in Nat /\ w.ua.msg # "ack"
      /\ w.ua.msg \in {"none", "invite", "ack"}
  BY InviteClientAssumption
     DEF Resolves, Goes, Core, Body, WorldType, UaType, Acks
<1>1. Advances(w)
  BY DEF Advances, Resolves
<1>2. PICK x \in UpdateAndResolveL(w, "Resolve") :
        r \in IF x.left = "no" /\ x.yes
              THEN Yes([x.w EXCEPT !.ua.stored = c]) ELSE {x}
  BY DEF ResolvedOn, Then
<1> DEFINE F(v) == Yes([v EXCEPT !.ua.state = "Resolve"])
                   \cup MayLeave("alloc", v)
<1>3. PICK p \in UpdateViaAndCSeqL(w) :
        x \in IF p.left = "no" /\ p.yes
              THEN Then(DetachCurrentTransactionL(p.w), LAMBDA b :
                   Then(UpdateInfoToStoreL(b, TRUE), F))
              ELSE {p}
  BY <1>2 DEF UpdateAndResolveL, Then
<1>4. \/ Gone(w, p)
      \/ /\ Done(p) /\ Goes(w, p.w) /\ Renumbered(w, p.w)
         /\ w.ua.msg # "none"
  BY <1>1, <1>3, UpdateViaAndCSeqGood DEF Resolves
<1>5. CASE Gone(w, p)
  BY <1>2, <1>3, <1>5 DEF Gone, Settles
<1>6. CASE Done(p) /\ Goes(w, p.w) /\ Renumbered(w, p.w)
           /\ w.ua.msg # "none"
  <2> DEFINE a == p.w
  <2>1. /\ a.ua.msg = "invite" /\ a.ua.n = w.ua.n + 1 /\ a.ta = w.ta
        /\ a.tx = w.tx /\ a.tm = w.tm /\ a.ua.cur = w.ua.cur
        /\ a.ua.stopped = w.ua.stopped /\ Core(a) /\ Goes(w, a)
    BY <1>0, <1>6 DEF Goes, Renumbered
  <2>2. x \in Then(DetachCurrentTransactionL(a), LAMBDA b :
                Then(UpdateInfoToStoreL(b, TRUE), F))
    BY <1>3, <1>6 DEF Done
  <2> HIDE DEF a
  <2>3. PICK s \in DetachCurrentTransactionL(a) :
          x \in IF s.left = "no" /\ s.yes
                THEN Then(UpdateInfoToStoreL(s.w, TRUE), F) ELSE {s}
    BY <2>2 DEF Then
  <2>4. Detachable(a)
    BY <2>1 DEF Detachable, Resolves
  <2>5. (Done(s) /\ Detaches(a, s.w)) \/ LeftIn(a, s)
    BY <2>1, <2>3, <2>4, DetachCurrentTransactionGood
  <2>6. CASE LeftIn(a, s)
    <3>1. Goes(w, s.w) /\ s.left \in {"nomem", "other"}
      BY <2>1, <2>6, GoesOn DEF LeftIn
    <3>2. r = s
      BY <1>2, <2>3, <3>1
    <3>3. QED
      BY <3>1, <3>2, GoesGone DEF Settles
  <2>7. CASE Done(s) /\ Detaches(a, s.w)
    <3> DEFINE b == s.w
    <3>1. /\ Goes(w, b) /\ b.ua.n = a.ua.n /\ b.ua.cur = 0 /\ Keeps(a, b)
          /\ Core(b)
      BY <2>1, <2>7, GoesOn DEF Detaches
    <3>2. b.ua.n \in Ta => b.ta[b.ua.n].state = "none"
      <4>1. SUFFICES ASSUME b.ua.n \in Ta PROVE b.ta[b.ua.n].state = "none"
        OBVIOUS
      <4>2. w.ua.n + 1 > w.ua.n /\ b.ua.n = w.ua.n + 1
        BY <1>0, <2>1, <3>1
      <4>3. w.ta[b.ua.n].state = "none"
        BY <4>1, <4>2 DEF Resolves, Goes, Core, Body, Made
      <4>4. QED
        BY <2>1, <3>1, <4>1, <4>3 DEF Keeps
    <3>3. PICK q \in UpdateInfoToStoreL(b, TRUE) :
            x \in IF q.left = "no" /\ q.yes THEN F(q.w) ELSE {q}
      BY <2>3, <2>7 DEF Then, Done
    <3> HIDE DEF b
    <3>4. (Done(q) /\ StoreOnly(b, q.w)) \/ LeftIn(b, q)
      BY <3>1, <3>3, UpdateInfoToStoreGood
    <3>5. CASE LeftIn(b, q)
      <4>1. Goes(w, q.w) /\ q.left \in {"nomem", "other"}
        BY <3>1, <3>5, GoesOn DEF LeftIn
      <4>2. r = q
        BY <1>2, <3>3, <4>1
      <4>3. QED
        BY <4>1, <4>2, GoesGone DEF Settles
    <3>6. CASE Done(q) /\ StoreOnly(b, q.w)
      <4> DEFINE d == q.w
                 v == [d EXCEPT !.ua.state = "Resolve"]
                 z == [v EXCEPT !.ua.stored = c]
      <4>1. /\ Core(d) /\ d \in WorldType /\ d.ta = b.ta /\ d.ua = b.ua
            /\ d.ut = b.ut /\ d.st.rx = b.ua.cur /\ d.hist = b.hist
        BY <3>6 DEF StoreOnly, Core, Body
      <4>2. x \in Yes(v) \cup MayLeave("alloc", d)
        BY <3>3, <3>6 DEF Done
      <4>3. Moved(d, "Resolve", v)
        BY <4>1, MovedIs
      <4> HIDE DEF d, v
      <4>4. Stored(v, c, z)
        BY <4>3, StoredIs DEF Moved, Responses
      <4> HIDE DEF z
      <4>5. Goes(w, d)
        BY <3>1, <4>1 DEF Goes
      <4>6. Unresolved(d)
        BY <2>1, <3>1, <3>2, <4>1, <4>5
           DEF Unresolved, Goes, Resolves
      <4>7. Inv(z) /\ ~z.ua.secwait /\ z.ta = d.ta
        BY <4>3, <4>4, <4>6, UnresolvedGood
      <4>8. CASE x \in Yes(v)
        <5>1. r \in Yes(z)
          BY <1>2, <4>8 DEF Yes, z
        <5>2. QED
          BY <4>5, <4>7, <5>1 DEF Yes, Done, Settles, OverKept, Goes
      <4>9. CASE x \in MayLeave("alloc", d)
        <5>1. r = x /\ x.left = "nomem" /\ x.w = d
          BY <1>2, <4>9 DEF MayLeave, Leave
        <5>2. QED
          BY <4>5, <5>1, GoesGone DEF Settles
      <4>10. QED
        BY <4>2, <4>8, <4>9
    <3>7. QED
      BY <3>4, <3>5, <3>6
  <2>8. QED
    BY <2>5, <2>6, <2>7
<1>7. QED
  BY <1>4, <1>5, <1>6

Taken(w) == [w EXCEPT !.ua.addrs = @ - 1]

LEMMA TakenGood ==
  ASSUME NEW w, Core(w), w.ua.addrs > 0
  PROVE  /\ Core(Taken(w)) /\ Taken(w).ua.addrs = w.ua.addrs - 1
         /\ Taken(w).ua.cur = w.ua.cur /\ Taken(w).ua.n = w.ua.n
         /\ Taken(w).ua.msg = w.ua.msg /\ Taken(w).ua.state = w.ua.state
         /\ Taken(w).ua.stopped = w.ua.stopped
         /\ Taken(w).ua.secwait = w.ua.secwait
         /\ Taken(w).ua.stored = w.ua.stored
         /\ Taken(w).ua.owner = w.ua.owner
         /\ Taken(w).ua.secerr = w.ua.secerr
         /\ Taken(w).ta = w.ta /\ Taken(w).tm = w.tm
         /\ Taken(w).tx = w.tx /\ Taken(w).ut = w.ut
         /\ Taken(w).hist = w.hist /\ Taken(w).st = w.st
         /\ Taken(w).del = w.del
<1> DEFINE u == w.ua
           a == u.addrs - 1
           v == [u EXCEPT !.addrs = a]
           z == [w EXCEPT !.ua = v]
<1>1. w \in WorldType /\ u \in UaType /\ u.addrs > 0 /\ u.addrs \in Obj
  BY DEF Core, Body, WorldType, UaType
<1>2. a \in Obj
  <2> DEFINE b == u.addrs
  <2>1. b \in Obj /\ b > 0
    BY <1>1
  <2> HIDE DEF b
  <2>2. b - 1 \in Obj
    BY <2>1, InviteClientAssumption DEF Obj, Ta, Ua
  <2>3. QED
    BY <2>2 DEF b
<1> HIDE DEF u
<1>3. v \in UaType
  BY <1>1, <1>2, UaWith
<1>4. /\ v.addrs = a
      /\ v.stopped = u.stopped /\ v.owner = u.owner
      /\ v.msg = u.msg /\ v.final = u.final
      /\ v.cur = u.cur /\ v.held = u.held /\ v.n = u.n
      /\ v.state = u.state /\ v.secwait = u.secwait
      /\ v.secerr = u.secerr /\ v.stored = u.stored
      /\ v.results = u.results
  <2> HIDE DEF a
  <2>1. QED
    BY <1>1, <1>2 DEF UaType
<1> HIDE DEF v, a
<1>5. /\ z \in WorldType /\ z.ua = v /\ z.ta = w.ta /\ z.tm = w.tm
      /\ z.tx = w.tx /\ z.ut = w.ut /\ z.st = w.st /\ z.del = w.del
      /\ z.hist = w.hist
  BY <1>1, <1>3 DEF WorldType
<1> HIDE DEF z
<1>6. /\ Body(w) /\ w.ua.n \in Nat /\ w.ua.addrs \in Nat /\ MaxTa \in Nat
  BY <1>1, Ids, InviteClientAssumption
     DEF Core, Body, WorldType, UaType, u
<1>7. UaOnly(w, z)
  BY <1>4, <1>5, <1>6 DEF UaOnly, u
<1>8. UaMay(w, z)
  <2>1. Kept(z.ua, z.ut) /\ Heard(z.ua, z.hist) /\ Acks(z.ua, w.tx)
    BY <1>4, <1>5, <1>6 DEF Body, Kept, Heard, Acks, u
  <2>2. Limit(z.ua, w.ta, w.del)
    BY <1>4, <1>5, <1>6 DEF Body, Limit, u
  <2>3. Budget(z.ua)
    <3> DEFINE n == w.ua.n
               b == w.ua.addrs
    <3>1. /\ n \in Nat /\ b \in Nat /\ MaxTa \in Nat
          /\ w.ua.msg = "invite" /\ b > 0 => n + b <= MaxTa
          /\ w.ua.msg = "invite" /\ Secure /\ w.ua.stored = "auth"
               => n + b < MaxTa
          /\ z.ua.addrs = b - 1 /\ z.ua.n = n /\ z.ua.msg = w.ua.msg
          /\ z.ua.stored = w.ua.stored
      BY <1>4, <1>5, <1>6 DEF Body, Budget, u, a
    <3> HIDE DEF n, b
    <3>2. /\ w.ua.msg = "invite" /\ b - 1 > 0 => n + (b - 1) <= MaxTa
          /\ w.ua.msg = "invite" /\ Secure /\ w.ua.stored = "auth"
               => n + (b - 1) < MaxTa
      BY <3>1
    <3>3. QED
      BY <3>1, <3>2 DEF Budget
  <2>4. /\ z.hist.late => z.ua.secerr
        /\ z.ua.secwait /\ w.ua.stopped
             => w.ua.cur = 0 \/ w.ta[w.ua.cur].over
        /\ z.ua.state = "WaitEnd" /\ w.ua.cur # 0
             => Answered(w.ta[w.ua.cur])
    BY <1>4, <1>5, <1>6 DEF Body, Ends, Current, Answered, u
  <2>5. QED
    BY <2>1, <2>2, <2>3, <2>4 DEF UaMay
<1>9. Core(z)
  BY <1>7, <1>8, UaStepGood DEF Core
<1>10. z = Taken(w)
  BY DEF z, v, a, u, Taken
<1>11. QED
  BY <1>4, <1>5, <1>9, <1>10 DEF a, u

Tries(w) ==
  /\ Goes(w, w) /\ Detachable(w)
  /\ w.ua.state \in {"WaitResponse", "WaitAuth"}
  /\ w.ua.msg = "invite" => w.ua.n <= MaxTa
  /\ w.ua.state = "WaitResponse" =>
       w.ua.cur = 0 \/ w.ta[w.ua.cur].over

Declines(w, r) == r.left = "no" /\ ~r.yes /\ r.w = w

LEMMA TryNextAddressGood ==
  ASSUME NEW w, Tries(w), NEW c \in {"none", "busy"},
         NEW r \in TryNextAddressL(w, c, "Resolve", "WaitResponse")
  PROVE  Declines(w, r) \/ Settles(w, r)
<1>1. /\ w.ua.n \in Nat /\ w.ua.addrs \in Nat /\ MaxTa \in Nat
      /\ w.ua.msg \in {"none", "invite"} /\ Core(w) /\ Body(w)
  BY Ids, InviteClientAssumption
     DEF Tries, Goes, Core, Body, WorldType, UaType, Acks
<1>2. CASE w.ua.addrs > 0
  <2> DEFINE v == Taken(w)
  <2>1. r \in UpdateAndSendRequestL(v, "WaitResponse")
    BY <1>2 DEF TryNextAddressL, Taken
  <2>2. /\ Core(v) /\ v.ua.addrs = w.ua.addrs - 1
        /\ v.ua.cur = w.ua.cur /\ v.ua.n = w.ua.n
        /\ v.ua.msg = w.ua.msg /\ v.ua.state = w.ua.state
        /\ v.ua.stopped = w.ua.stopped /\ v.ua.secwait = w.ua.secwait
        /\ v.ua.stored = w.ua.stored
        /\ v.ta = w.ta /\ v.tm = w.tm /\ v.tx = w.tx /\ v.ut = w.ut
        /\ v.hist = w.hist
    BY <1>1, <1>2, TakenGood
  <2> HIDE DEF v
  <2>3. Goes(v, v)
    BY <2>2 DEF Goes, Tries
  <2>4. OverKept(w, v)
    BY <2>2 DEF OverKept
  <2>5. CASE w.ua.msg = "none"
    <3>1. r.left = "other" /\ r.w = v
      <4>1. UpdateViaAndCSeqL(v) = Leave(v, "other")
        BY <2>2, <2>5 DEF UpdateViaAndCSeqL, Assert
      <4>2. \A p \in UpdateViaAndCSeqL(v) :
              p.left = "other" /\ p.w = v /\ p.left # "no"
        BY <4>1 DEF Leave
      <4>3. PICK p \in UpdateViaAndCSeqL(v) : r = p
        BY <2>1, <4>2 DEF UpdateAndSendRequestL, Then
      <4>4. QED
        BY <4>2, <4>3
    <3>2. Gone(v, r)
      BY <2>3, <3>1, GoesGone
    <3>3. Settles(v, r)
      BY <3>2 DEF Settles
    <3>4. QED
      BY <2>4, <3>3, SettlesTrans
  <2>6. CASE w.ua.msg = "invite"
    <3>1. Sends(v)
      <4> DEFINE n == w.ua.n
                 b == w.ua.addrs
      <4>1. /\ n \in Nat /\ b \in Nat /\ MaxTa \in Nat /\ b > 0
            /\ n + b <= MaxTa /\ v.ua.n = n /\ v.ua.addrs = b - 1
        BY <1>1, <1>2, <2>2, <2>6 DEF Body, Budget
      <4> HIDE DEF n, b
      <4>2. v.ua.n < MaxTa /\ v.ua.n + 1 + v.ua.addrs <= MaxTa
        BY <4>1
      <4>3. Detachable(v)
        BY <2>2 DEF Tries, Detachable
      <4>4. QED
        BY <2>2, <2>3, <2>6, <4>2, <4>3 DEF Sends, Tries
    <3>2. Settles(v, r)
      BY <2>1, <3>1, UpdateAndSendInviteGood
    <3>3. QED
      BY <2>4, <3>2, SettlesTrans
  <2>7. QED
    BY <1>1, <2>5, <2>6
<1>3. CASE ~(w.ua.addrs > 0) /\ w.ua.results
  <2>1. r \in ResolvedOn(w, c)
    <3>1. w.ua.stored = "none"
      BY DEF Tries, Goes
    <3>2. QED
      BY <1>3, <3>1 DEF TryNextAddressL, Assert, ResolvedOn
  <2>2. Resolves(w)
    BY <1>1, <1>3 DEF Tries, Resolves
  <2>3. QED
    BY <2>1, <2>2, UpdateAndResolveInviteGood
<1>4. CASE ~(w.ua.addrs > 0) /\ ~w.ua.results
  BY <1>4 DEF TryNextAddressL, No, Declines
<1>5. QED
  BY <1>2, <1>3, <1>4

-----------------------------------------------------------------------------
(* The end of a transaction, and what the user agent makes of it.          *)

LEMMA StopIfFoundIs ==
  ASSUME NEW w, NEW s \in StopIfFound(w)
  PROVE  s = [w |-> s.w, left |-> s.left, yes |-> s.yes]
<1>1. \E v : s \in Yes(v)
  <2> DEFINE v == TransactionEnded(w)
  <2>1. s \in Yes(Searched(w)) \cup Yes(w) \cup RequestDeletionOfUserAgent(v)
    BY DEF StopIfFound, Stop
  <2> HIDE DEF v
  <2> DEFINE x == [RemoveFromStore(v) EXCEPT !.del.doomed = @ \cup {Ua}]
             y == [v EXCEPT !.st.id = "empty", !.del.marked = @ \cup {Ua}]
             d == Destroyed(v, {Ua})
  <2>2. RequestDeletionOfUserAgent(v) \subseteq Yes(x) \cup Yes(y) \cup Yes(d)
    BY DEF RequestDeletionOfUserAgent
  <2> HIDE DEF x, y, d
  <2>3. QED
    BY <2>1, <2>2
<1>2. QED
  BY <1>1 DEF Yes

LEMMA StopOnLeaveIs ==
  ASSUME NEW S, NEW r \in StopOnLeave(S)
  PROVE  \/ r \in S /\ r.left = "no"
         \/ \E p \in S : /\ p.left # "no"
                         /\ \E s \in StopIfFound(p.w) :
                              /\ r.w = s.w /\ r.left = p.left
                              /\ r.yes = s.yes
<1>1. PICK p \in S : r \in IF p.left = "no" THEN {p}
                           ELSE {[s EXCEPT !.left = p.left] :
                                   s \in StopIfFound(p.w)}
  BY DEF StopOnLeave
<1>2. CASE p.left = "no"
  BY <1>1, <1>2
<1>3. CASE p.left # "no"
  <2>1. PICK s \in StopIfFound(p.w) : r = [s EXCEPT !.left = p.left]
    BY <1>1, <1>3
  <2>2. s = [w |-> s.w, left |-> s.left, yes |-> s.yes]
    BY <2>1, StopIfFoundIs
  <2>3. r.w = s.w /\ r.left = p.left /\ r.yes = s.yes
    BY <2>1, <2>2
  <2>4. QED
    BY <1>3, <2>1, <2>3
<1>4. QED
  BY <1>2, <1>3

(* A user agent that waits for SIPSec's answer waits for no transaction.   *)
Calm(z) == z.ua.secwait => z.ua.cur = 0 \/ z.ta[z.ua.cur].over

Over(w, r) ==
  /\ Inv(r.w) /\ OverKept(w, r.w) /\ Calm(r.w)
  /\ r.left \in {"no", "nomem", "other"} /\ (r.left = "no" => r.yes)

LEMMA OverKeptTrans ==
  ASSUME NEW w, NEW v, NEW z, OverKept(w, v), OverKept(v, z)
  PROVE  OverKept(w, z)
BY DEF OverKept

LEMMA StopIsOver ==
  ASSUME NEW w, Core(w), ~w.ua.secwait, NEW r \in Stop(w)
  PROVE  Over(w, r) /\ ~r.w.ua.secwait /\ r.w.ua.stopped
<1>1. /\ r.left = "no" /\ r.yes /\ Inv(r.w) /\ r.w.ua.stopped
      /\ r.w.ta = w.ta
      /\ r.w.ua = IF w.ua.stopped THEN w.ua
                  ELSE [w.ua EXCEPT !.stopped = TRUE]
  BY StopGood
<1>2. w.ua \in UaType
  BY DEF Core, Body, WorldType
<1>3. ~r.w.ua.secwait
  <2> DEFINE u == w.ua
  <2>1. ~u.secwait /\ u \in UaType
    BY <1>2
  <2> HIDE DEF u
  <2>2. ~[u EXCEPT !.stopped = TRUE].secwait
    BY <2>1 DEF UaType
  <2>3. QED
    BY <1>1, <2>1, <2>2 DEF u
<1>4. QED
  BY <1>1, <1>3 DEF Over, OverKept, Calm

LEMMA StopIfFoundIsOver ==
  ASSUME NEW w, Core(w), ~w.ua.secwait, NEW s \in StopIfFound(w), NEW r,
         r.w = s.w, r.left \in {"nomem", "other"}
  PROVE  Over(w, r) /\ ~r.w.ua.secwait
<1>1. Inv(s.w) /\ s.w.ta = w.ta /\ Follows(w.ua, s.w.ua)
  BY StopIfFoundGood
<1>2. ~s.w.ua.secwait
  BY <1>1 DEF Follows
<1>3. QED
  BY <1>1, <1>2 DEF Over, OverKept, Calm

LEMMA TransactionEndsWithoutFinalResponseGood ==
  ASSUME NEW w, Tries(w), NEW why,
         NEW r \in TransactionEndsWithoutFinalResponseL(w, why)
  PROVE  Over(w, r)
<1> DEFINE T == IF ~w.ua.canceled /\ why \in {"timeout", "failure"}
                THEN TryNextAddressL(w, "none", "Resolve", "WaitResponse")
                ELSE No(w)
<1>1. PICK p \in StopOnLeave(T) :
        r \in IF p.left = "no" /\ ~p.yes THEN Stop(p.w) ELSE {p}
  BY DEF TransactionEndsWithoutFinalResponseL, Otherwise
<1>2. \A x \in T : Declines(w, x) \/ Settles(w, x)
  BY TryNextAddressGood DEF No, Declines
<1>0. Core(w) /\ ~w.ua.secwait
  BY DEF Tries, Goes
<1> HIDE DEF T
<1>3. CASE p \in T /\ p.left = "no"
  <2>1. CASE Declines(w, p)
    <3>1. r \in Stop(w)
      BY <1>1, <2>1 DEF Declines
    <3>2. QED
      BY <1>0, <3>1, StopIsOver
  <2>2. CASE Settles(w, p)
    <3>1. /\ Done(p) /\ Inv(p.w) /\ ~p.w.ua.secwait /\ OverKept(w, p.w)
          /\ r = p
      BY <1>1, <1>3, <2>2 DEF Settles, Gone, Done
    <3>2. QED
      BY <3>1 DEF Over, Calm, Done
  <2>3. QED
    BY <1>2, <1>3, <2>1, <2>2
<1>4. CASE \E x \in T : /\ x.left # "no"
                        /\ \E s \in StopIfFound(x.w) :
                             /\ p.w = s.w /\ p.left = x.left
                             /\ p.yes = s.yes
  <2>0. PICK x \in T :
          /\ x.left # "no"
          /\ \E s \in StopIfFound(x.w) : /\ p.w = s.w /\ p.left = x.left
                                         /\ p.yes = s.yes
    BY <1>4
  <2>1. PICK s \in StopIfFound(x.w) :
          x.left # "no" /\ p.w = s.w /\ p.left = x.left
    BY <2>0
  <2>2. Gone(w, x)
    BY <1>2, <2>1 DEF Declines, Settles, Done
  <2>3. /\ Core(x.w) /\ ~x.w.ua.secwait /\ p.left \in {"nomem", "other"}
        /\ OverKept(w, x.w)
    BY <2>1, <2>2 DEF Gone, OverKept
  <2>4. Over(x.w, p)
    BY <2>1, <2>3, StopIfFoundIsOver
  <2>5. r = p
    BY <1>1, <2>3
  <2>6. QED
    BY <2>3, <2>4, <2>5, OverKeptTrans DEF Over
<1>5. QED
  BY <1>1, <1>3, <1>4, StopOnLeaveIs

(* The current transaction has ended.                                      *)
HasEnded(w) ==
  /\ Inv(w) /\ w.ua.cur # 0 /\ w.ta[w.ua.cur].over
  /\ w.ua.state = "WaitResponse" /\ w.ua.msg = "invite" => w.ua.n <= MaxTa

LEMMA TransactionEndsGood ==
  ASSUME NEW w, HasEnded(w), NEW why, NEW r \in TransactionEndsL(w, why)
  PROVE  Over(w, r)
<1>1. /\ Core(w) /\ Steady(w) /\ Kept(w.ua, w.ut) /\ Calm(w) /\ Inv(w)
      /\ w.ua.secwait => w.ua.state = "WaitAuth"
  BY DEF HasEnded, Inv, Rest, Core, Body, Calm, Kept
<1>2. CASE w.ua.state = "WaitResponse"
  <2>1. r \in TransactionEndsWithoutFinalResponseL(w, why)
    BY <1>2 DEF TransactionEndsL
  <2>2. Goes(w, w)
    BY <1>1, <1>2 DEF Kept, Goes
  <2>3. Tries(w)
    BY <1>2, <2>2 DEF Tries, HasEnded, Detachable
  <2>4. QED
    BY <2>1, <2>3, TransactionEndsWithoutFinalResponseGood
<1>3. CASE w.ua.state = "WaitAuth"
  <2>1. PICK p \in RequestDeletionOfTransactionL(w) :
          r \in IF p.left = "no" /\ p.yes
                THEN IgnoreResponseRetransmissionsL(p.w) ELSE {p}
    BY <1>3 DEF TransactionEndsL, Then
  <2>2. /\ Core(p.w) /\ (Steady(w) => Rest(p.w))
        /\ p.w.ta = w.ta
        /\ \/ p.left = "no" /\ p.yes /\ p.w.ua.cur = 0
           \/ p.left = "nomem" /\ p.w = w
    BY <1>1, <2>1, RequestDeletionOfTransactionGood DEF HasEnded
  <2>3. CASE p.left = "nomem" /\ p.w = w
    <3>1. r = p
      BY <2>1, <2>3
    <3>2. QED
      BY <1>1, <2>3, <3>1 DEF Over, OverKept
  <2>4. CASE p.left = "no" /\ p.yes /\ p.w.ua.cur = 0
    <3>1. Reentered(p.w, r.w) /\ r.left = "no" /\ r.yes
      BY <2>1, <2>2, <2>4, IgnoreResponseRetransmissionsGood
    <3>2. QED
      BY <1>1, <2>2, <3>1 DEF Reentered, Over, OverKept, Calm, Inv, Rest
  <2>5. QED
    BY <2>2, <2>3, <2>4
<1>4. CASE w.ua.state = "WaitEnd"
  <2>1. r \in Stop(w)
    BY <1>4 DEF TransactionEndsL
  <2>2. QED
    BY <1>1, <1>4, <2>1, StopIsOver
<1>5. CASE w.ua.state \notin {"WaitResponse", "WaitAuth", "WaitEnd"}
  <2>1. r \in Leave(w, "other")
    BY <1>5 DEF TransactionEndsL
  <2>2. QED
    BY <1>1, <2>1 DEF Leave, Over, OverKept
<1>6. QED
  BY <1>2, <1>3, <1>4, <1>5

(* A transaction the user agent has let go frees itself.                   *)
Frees(w, i, z) ==
  /\ z \in WorldType /\ z.ta = w.ta /\ z.tm = w.tm /\ z.tx = w.tx
  /\ z.ua = w.ua /\ z.ut = w.ut /\ z.hist = w.hist
  /\ z.st.id = w.st.id /\ z.st.rx = w.st.rx /\ z.st.ind = w.st.ind \ {i}
  /\ z.del.gone = w.del.gone
  /\ \/ /\ z.del.doomed = w.del.doomed \cup {i}
        /\ z.del.marked = w.del.marked
     \/ /\ z.del.marked = w.del.marked \cup {i}
        /\ z.del.doomed = w.del.doomed

LEMMA FreesGood ==
  ASSUME NEW w, Inv(w), NEW i \in Ta, w.ta[i].over, w.ta[i].indep,
         w.ta[i].state # "none", i \notin Dying(w.del) \cup w.del.gone,
         NEW z, Frees(w, i, z)
  PROVE  Inv(z)
<1>1. /\ w \in WorldType /\ z \in WorldType /\ Body(w)
      /\ z.ta = w.ta /\ z.tm = w.tm /\ z.tx = w.tx
      /\ z.ua = w.ua /\ z.ut = w.ut /\ z.hist = w.hist
      /\ z.st.id = w.st.id /\ z.st.rx = w.st.rx
      /\ z.st.ind = w.st.ind \ {i} /\ z.del.gone = w.del.gone
      /\ Dying(z.del) = Dying(w.del) \cup {i}
  BY DEF Inv, Core, Body, Frees, Dying
<1>2. \A j : /\ Here(z.ta, z.del, j) <=> Here(w.ta, w.del, j)
             /\ Runs(z.ta, z.del, j) <=> Runs(w.ta, w.del, j)
  BY <1>1 DEF Here, Runs
<1>3. i # 0 /\ 0 = Ua
  BY Ids
<1>4. Ends(z.ua, z.st, z.del, z.hist)
  BY <1>1, <1>3 DEF Body, Ends
<1>5. Limit(z.ua, z.ta, z.del)
  BY <1>1, <1>2 DEF Body, Limit
<1>6. Made(z.ta, z.tm, z.tx, z.ua, z.st, z.del)
  BY <1>1 DEF Body, Made
<1>7. Current(z.ta, z.ua, z.del)
  <2>1. w.ua.cur # 0 => w.ua.cur # i
    BY <1>1 DEF Body, Current
  <2>2. w.ua.held # 0 => w.ua.held # i
    BY <1>1 DEF Body, Current
  <2>3. QED
    BY <1>1, <2>1, <2>2 DEF Body, Current
<1>8. Attached(z.ta, z.ua, z.st, z.del)
  <2>1. ~Runs(w.ta, w.del, i)
    BY DEF Runs
  <2>2. QED
    BY <1>1, <1>2, <2>1 DEF Body, Attached
<1>9. Freeing(z.ta, z.del)
  <2>1. z.del.doomed \cap z.del.marked = {}
    BY <1>1 DEF Frees, Body, Freeing, Dying
  <2>2. QED
    BY <1>1, <2>1 DEF Body, Freeing
<1>10. Sending(z.ta, z.tx, z.ua, z.del)
  BY <1>1 DEF Body, Sending
<1>11. LetGo(z.ta, z.tm, z.tx, z.del)
  BY <1>1, <1>2 DEF Inv, Core, LetGo, Timed
<1>12. Rest(z)
  <2>1. Steady(z)
    BY <1>1 DEF Inv, Rest, Steady
  <2>2. ~z.ua.stopped =>
          CurrentEnds(z.ta, z.tm, z.tx, z.ua, z.del, z.hist)
    BY <1>1, <1>2 DEF Inv, Rest, CurrentEnds
  <2>3. QED
    BY <2>1, <2>2 DEF Rest
<1>13. Body(z)
  BY <1>1, <1>4, <1>5, <1>6, <1>7, <1>8, <1>9, <1>10 DEF Body
<1>14. QED
  BY <1>11, <1>12, <1>13 DEF Inv, Core

LEMMA FreedGood ==
  ASSUME NEW w, Inv(w), NEW i \in Ta, w.ta[i].over, w.ta[i].indep,
         w.ta[i].state # "none", i \notin Dying(w.del) \cup w.del.gone,
         NEW r \in Freed(w, i)
  PROVE  Inv(r.w) /\ Done(r) /\ r.w.ta = w.ta
<1> DEFINE out == [w EXCEPT !.st.ind = @ \ {i}]
           za == [out EXCEPT !.del.doomed = @ \cup {i}]
           zb == [out EXCEPT !.del.marked = @ \cup {i}]
<1>1. w \in WorldType /\ w.st \in StType /\ w.del \in DelType /\ i \in Obj
  BY Ids DEF Inv, Core, Body, WorldType
<1>2. /\ out \in WorldType /\ out.del = w.del /\ out.ta = w.ta
      /\ out.tm = w.tm /\ out.tx = w.tx /\ out.ua = w.ua /\ out.ut = w.ut
      /\ out.hist = w.hist /\ out.st.id = w.st.id /\ out.st.rx = w.st.rx
      /\ out.st.ind = w.st.ind \ {i}
  <2>1. /\ [w.st EXCEPT !.ind = @ \ {i}] \in StType
        /\ [w.st EXCEPT !.ind = @ \ {i}].id = w.st.id
        /\ [w.st EXCEPT !.ind = @ \ {i}].rx = w.st.rx
        /\ [w.st EXCEPT !.ind = @ \ {i}].ind = w.st.ind \ {i}
    BY <1>1 DEF StType
  <2> DEFINE s1 == [w.st EXCEPT !.ind = @ \ {i}]
  <2>2. out = [w EXCEPT !.st = s1]
    OBVIOUS
  <2> HIDE DEF out, s1
  <2>3. /\ out \in WorldType /\ out.del = w.del /\ out.ta = w.ta
        /\ out.tm = w.tm /\ out.tx = w.tx /\ out.ua = w.ua /\ out.ut = w.ut
        /\ out.hist = w.hist /\ out.st = s1
    BY <1>1, <2>1, <2>2 DEF WorldType, s1
  <2>4. QED
    BY <2>1, <2>3 DEF s1
<1>3. r \in Yes(za) \cup Yes(zb)
  BY DEF Freed
<1> HIDE DEF out
<1>4. Frees(w, i, za)
  <2> DEFINE d1 == [w.del EXCEPT !.doomed = @ \cup {i}]
  <2>1. /\ d1 \in DelType /\ d1.doomed = w.del.doomed \cup {i}
        /\ d1.marked = w.del.marked /\ d1.gone = w.del.gone
    BY <1>1 DEF DelType
  <2>2. za = [out EXCEPT !.del = d1]
    BY <1>2
  <2> HIDE DEF za, d1
  <2>3. /\ za \in WorldType /\ za.st = out.st /\ za.ta = out.ta
        /\ za.tm = out.tm /\ za.tx = out.tx /\ za.ua = out.ua
        /\ za.ut = out.ut /\ za.hist = out.hist /\ za.del = d1
    BY <1>2, <2>1, <2>2 DEF WorldType
  <2>4. QED
    BY <1>2, <2>1, <2>3 DEF Frees
<1>5. Frees(w, i, zb)
  <2> DEFINE d1 == [w.del EXCEPT !.marked = @ \cup {i}]
  <2>1. /\ d1 \in DelType /\ d1.marked = w.del.marked \cup {i}
        /\ d1.doomed = w.del.doomed /\ d1.gone = w.del.gone
    BY <1>1 DEF DelType
  <2>2. zb = [out EXCEPT !.del = d1]
    BY <1>2
  <2> HIDE DEF zb, d1
  <2>3. /\ zb \in WorldType /\ zb.st = out.st /\ zb.ta = out.ta
        /\ zb.tm = out.tm /\ zb.tx = out.tx /\ zb.ua = out.ua
        /\ zb.ut = out.ut /\ zb.hist = out.hist /\ zb.del = d1
    BY <1>2, <2>1, <2>2 DEF WorldType
  <2>4. QED
    BY <1>2, <2>1, <2>3 DEF Frees
<1> HIDE DEF za, zb
<1>6. Inv(za) /\ Inv(zb) /\ za.ta = w.ta /\ zb.ta = w.ta
  BY <1>4, <1>5, FreesGood DEF Frees
<1>7. QED
  BY <1>3, <1>6 DEF Yes, Done

LEMMA TerminatedLGood ==
  ASSUME NEW w, NEW i \in Ta, Nearly(w, i), Here(w.ta, w.del, i), NEW why,
         NEW r \in TerminatedL(w, i, why)
  PROVE  /\ Inv(r.w) /\ OverKept(w, r.w) /\ r.w.ta[i].over
         /\ r.left \in {"no", "nomem", "other"} /\ (r.left = "no" => r.yes)
         /\ w.ta[i].over => Done(r) /\ r.w = w
         /\ ~w.ta[i].over =>
              /\ r.w.ta[i].att = w.ta[i].att
              /\ w.ta[i].att => Calm(r.w)
              /\ ~w.ta[i].att => r.left = "no"
<1>1. CASE w.ta[i].over
  <2>1. r \in Yes(w)
    BY <1>1 DEF TerminatedL
  <2>2. Inv(w)
    BY <1>1, NearlyOver
  <2>3. QED
    BY <1>1, <2>1, <2>2 DEF Yes, OverKept, Done
<1>2. CASE ~w.ta[i].over
  <2> DEFINE v == Terminated(w, i)
  <2>1. Runs(w.ta, w.del, i)
    BY <1>2 DEF Runs
  <2>2. /\ Inv(v) /\ v.ta[i].over
        /\ v.ua = w.ua /\ v.st = w.st /\ v.del = w.del /\ v.hist = w.hist
        /\ v.ut = w.ut
        /\ v.ta[i].att = w.ta[i].att /\ v.ta[i].indep = w.ta[i].indep
        /\ \A j \in Ta : j # i => v.ta[j] = w.ta[j]
    BY <2>1, TerminatedGood
  <2>3. OverKept(w, v)
    BY <1>2, <2>2 DEF OverKept
  <2>4. PICK p \in IF v.ta[i].att THEN TransactionEndsL(v, why) ELSE Yes(v) :
          r \in IF p.left = "no" /\ p.yes
                THEN IF p.w.ta[i].indep THEN Freed(p.w, i) ELSE Yes(p.w)
                ELSE {p}
    BY <1>2 DEF TerminatedL, Then
  <2>5. Body(w)
    BY DEF Nearly
  <2>6. /\ i \notin Dying(w.del) \cup w.del.gone
        /\ w.ta[i].att => i = w.ua.cur /\ ~w.ta[i].indep
        /\ ~w.ta[i].att => w.ta[i].indep
    BY <2>1, <2>5, CurrentOrLetGo
  <2> HIDE DEF v
  <2>7. CASE w.ta[i].att
    <3>1. HasEnded(v)
      <4>1. i = v.ua.cur /\ i # 0
        BY <2>2, <2>6, <2>7, Ids
      <4>2. w.ua.state = "WaitResponse" /\ w.ua.msg = "invite"
              => w.ua.n <= MaxTa
        <5>1. /\ w.ua.n \in Nat /\ w.ua.n <= MaxTa + 1 /\ MaxTa \in Nat
              /\ w.ua.msg = "invite" /\ w.ua.n = MaxTa + 1 =>
                   w.ua.state # "WaitResponse"
          BY <2>1, <2>5, <2>7, InviteClientAssumption
          DEF Body, Limit, WorldType, UaType
        <5> DEFINE n == w.ua.n
        <5> HIDE DEF n
        <5>2. /\ n \in Nat /\ n <= MaxTa + 1 /\ MaxTa \in Nat
              /\ w.ua.msg = "invite" /\ n = MaxTa + 1 =>
                   w.ua.state # "WaitResponse"
          BY <5>1 DEF n
        <5>3. w.ua.state = "WaitResponse" /\ w.ua.msg = "invite"
                => n <= MaxTa
          BY <5>2
        <5>4. QED
          BY <5>3 DEF n
      <4>3. QED
        BY <2>2, <4>1, <4>2 DEF HasEnded
    <3>2. p \in TransactionEndsL(v, why)
      BY <2>2, <2>4, <2>7
    <3>3. Over(v, p)
      BY <3>1, <3>2, TransactionEndsGood
    <3>4. p.w.ta[i] = v.ta[i]
      BY <2>2, <3>3 DEF Over, OverKept
    <3>5. r = p \/ r \in Yes(p.w)
      BY <2>2, <2>4, <2>6, <2>7, <3>4
    <3>6. r.w = p.w /\ r.left = p.left /\ (r.left = "no" => r.yes)
      BY <2>4, <3>3, <3>5 DEF Over, Yes
    <3>7. /\ Inv(r.w) /\ OverKept(v, r.w) /\ Calm(r.w)
          /\ r.left \in {"no", "nomem", "other"}
      BY <3>3, <3>6 DEF Over
    <3>8. OverKept(w, r.w)
      BY <2>3, <3>7, OverKeptTrans
    <3>9. r.w.ta[i].over /\ r.w.ta[i].att = w.ta[i].att
      BY <2>2, <3>4, <3>6
    <3>10. QED
      BY <1>2, <2>7, <3>6, <3>7, <3>8, <3>9
  <2>8. CASE ~w.ta[i].att
    <3>1. p.w = v /\ p.left = "no" /\ p.yes
      BY <2>2, <2>4, <2>8 DEF Yes
    <3>2. r \in Freed(v, i)
      BY <2>2, <2>4, <2>6, <2>8, <3>1
    <3>3. v.ta[i].state # "none"
      <4>1. v \in WorldType /\ Body(v)
        BY <2>2 DEF Inv, Core, Body
      <4>2. v.ta[i].state = "none" => v.ta[i] = NoTa
        BY <4>1 DEF Body, Made
      <4>3. QED
        BY <2>2, <4>2 DEF NoTa
    <3>4. Inv(r.w) /\ Done(r) /\ r.w.ta = v.ta
      BY <2>2, <2>6, <2>8, <3>2, <3>3, FreedGood
    <3>5. QED
      BY <1>2, <2>2, <2>3, <2>8, <3>4 DEF Done, OverKept
  <2>9. QED
    BY <2>7, <2>8
<1>3. QED
  BY <1>1, <1>2

(* CTransaction::LeaveOccurred leaves nothing half done.                   *)
LEMMA TaLeaveOccurredGood ==
  ASSUME NEW w, NEW i \in Ta, Nearly(w, i), Here(w.ta, w.del, i),
         w.ta[i].over /\ w.ta[i].att => Calm(w),
         NEW r \in TaLeaveOccurred(w, i)
  PROVE  Inv(r.w)
<1>1. PICK p \in Trap(TerminatedL(w, i, "other")) :
        r \in IF p.left = "no" /\ p.yes
              THEN IF p.w.ta[i].att THEN Stop(p.w) ELSE Yes(p.w)
              ELSE {p}
  BY DEF TaLeaveOccurred, Then
<1>2. PICK q \in TerminatedL(w, i, "other") : p \in Yes(q.w)
  BY <1>1 DEF Trap
<1>3. p.w = q.w /\ p.left = "no" /\ p.yes
  BY <1>2 DEF Yes
<1>4. /\ Inv(q.w)
      /\ w.ta[i].over => q.w = w
      /\ ~w.ta[i].over => /\ q.w.ta[i].att = w.ta[i].att
                          /\ w.ta[i].att => Calm(q.w)
  BY <1>2, TerminatedLGood
<1>5. CASE p.w.ta[i].att
  <2>1. r \in Stop(q.w)
    BY <1>1, <1>3, <1>5
  <2>2. Calm(q.w)
    BY <1>3, <1>4, <1>5
  <2>3. QED
    BY <1>4, <2>1, <2>2, StopGood DEF Calm, Inv
<1>6. CASE ~p.w.ta[i].att
  <2>1. r \in Yes(q.w)
    BY <1>1, <1>3, <1>6
  <2>2. QED
    BY <1>4, <2>1 DEF Yes
<1>7. QED
  BY <1>5, <1>6

(* A response is passed to the owner.                                      *)

(* Where a function leaves because of the owner, of SIPSec, of a timer.    *)
Refuses(r) == r.left \in {"nomem", "other", "dialog"}

(* What the owner is told of.                                              *)
Kind(c) == IF IsError(c) THEN "error" ELSE c

Told(w, c, z) ==
  /\ z \in WorldType /\ z.ta = w.ta /\ z.tm = w.tm /\ z.tx = w.tx
  /\ z.ua = w.ua /\ z.ut = w.ut /\ z.st = w.st /\ z.del = w.del
  /\ z.hist.ended = w.hist.ended /\ z.hist.cleared = w.hist.cleared
  /\ z.hist.heard \subseteq w.hist.heard \cup {Kind(c)}
  /\ z.hist.late => w.hist.late \/ (w.ua.owner /\ w.hist.ended > 0)

LEMMA PassMsgToTransactionOwnerGood ==
  ASSUME NEW w \in WorldType, NEW c \in Responses,
         NEW r \in PassMsgToTransactionOwnerL(w, c)
  PROVE  \/ Refuses(r) /\ r.w = w
         \/ Done(r) /\ Told(w, c, r.w)
<1>1. CASE ~w.ua.owner
  <2>1. r \in Yes(w)
    BY <1>1 DEF PassMsgToTransactionOwnerL
  <2>2. QED
    BY <2>1 DEF Yes, Done, Told
<1>2. CASE w.ua.owner
  <2> DEFINE kind == IF IsError(c) THEN "error" ELSE c
             h1 == [w.hist EXCEPT
                      !.heard = @ \cup {kind},
                      !.late = @ \/ w.hist.ended > 0]
             z == [w EXCEPT !.hist.heard = @ \cup {kind},
                            !.hist.late = @ \/ w.hist.ended > 0]
  <2>1. \/ r \in Yes(z)
        \/ r \in Leave(w, "other") \cup Leave(w, "nomem")
        \/ r \in Leave(w, "dialog")
    BY <1>2 DEF PassMsgToTransactionOwnerL
  <2>2. CASE r \in Yes(z)
    <3>1. w.hist \in HistType
      BY DEF WorldType
    <3>2. kind \in {"prov", "ok", "error"} /\ kind = Kind(c)
      BY DEF IsError, Responses, Kind
    <3> HIDE DEF kind
    <3>3. /\ h1 \in HistType /\ h1.ended = w.hist.ended
          /\ h1.cleared = w.hist.cleared
          /\ h1.heard = w.hist.heard \cup {kind}
          /\ h1.late = (w.hist.late \/ w.hist.ended > 0)
      BY <3>1, <3>2 DEF HistType
    <3>4. z = [w EXCEPT !.hist = h1]
      OBVIOUS
    <3> HIDE DEF z, h1
    <3>5. /\ z \in WorldType /\ z.ta = w.ta /\ z.tm = w.tm /\ z.tx = w.tx
          /\ z.ua = w.ua /\ z.ut = w.ut /\ z.st = w.st /\ z.del = w.del
          /\ z.hist = h1
      BY <3>3, <3>4 DEF WorldType
    <3>6. Told(w, c, z)
      BY <1>2, <3>2, <3>3, <3>5 DEF Told
    <3>7. QED
      BY <2>2, <3>6 DEF Yes, Done
  <2>3. CASE r \notin Yes(z)
    BY <2>1, <2>3 DEF Leave, Refuses
  <2>4. QED
    BY <2>2, <2>3
<1>3. QED
  BY <1>1, <1>2

(* ... as the answer to the request, which may be taken back.              *)
Passed(w, c, z) ==
  /\ z \in WorldType /\ z.ta = w.ta /\ z.tm = w.tm /\ z.tx = w.tx
  /\ z.ua = [w.ua EXCEPT !.final = c # "prov"]
  /\ z.ut = w.ut /\ z.st = w.st /\ z.del = w.del
  /\ z.hist.ended = w.hist.ended /\ z.hist.cleared = w.hist.cleared
  /\ z.hist.heard \subseteq w.hist.heard \cup {Kind(c)}
  /\ z.hist.late => w.hist.late \/ (w.ua.owner /\ w.hist.ended > 0)

LEMMA FinalIs ==
  ASSUME NEW w \in WorldType, NEW b \in BOOLEAN
  PROVE  LET v == [w EXCEPT !.ua.final = b] IN
         /\ v \in WorldType /\ v.ta = w.ta /\ v.tm = w.tm /\ v.tx = w.tx
         /\ v.ua = [w.ua EXCEPT !.final = b] /\ v.ut = w.ut
         /\ v.st = w.st /\ v.del = w.del /\ v.hist = w.hist
         /\ v.ua.owner = w.ua.owner
         /\ ~w.ua.final => RestoreUa(v) = [w EXCEPT !.ut["W"] = "off"]
<1> DEFINE u == w.ua
           u1 == [w.ua EXCEPT !.final = b]
           v == [w EXCEPT !.ua.final = b]
           t1 == [w.ut EXCEPT !["W"] = "off"]
<1>1. u \in UaType
  BY DEF WorldType
<1>2. u1 = [u EXCEPT !.final = b]
  OBVIOUS
<1>3. v = [w EXCEPT !.ua = u1]
  OBVIOUS
<1> HIDE DEF u, v
<1>4. u1 \in UaType /\ u1.owner = u.owner
  BY <1>1, <1>2 DEF UaType
<1>5. ~u.final => [u1 EXCEPT !.final = FALSE] = u
  <2>1. SUFFICES ASSUME ~u.final
                 PROVE  [u1 EXCEPT !.final = FALSE] = u
    OBVIOUS
  <2>2. u.final = FALSE
    BY <1>1, <2>1 DEF UaType
  <2>3. [u1 EXCEPT !.final = FALSE] = [u EXCEPT !.final = FALSE]
    BY <1>1, <1>2 DEF UaType
  <2>4. [u EXCEPT !.final = FALSE] = u
    BY <1>1, <2>2 DEF UaType
  <2>5. QED
    BY <2>3, <2>4
<1> HIDE DEF u1
<1>6. /\ v \in WorldType /\ v.ta = w.ta /\ v.tm = w.tm /\ v.tx = w.tx
      /\ v.ua = u1 /\ v.ut = w.ut
      /\ v.st = w.st /\ v.del = w.del /\ v.hist = w.hist
  BY <1>3, <1>4 DEF WorldType
<1>7. ASSUME ~w.ua.final
      PROVE  RestoreUa(v) = [w EXCEPT !.ut["W"] = "off"]
  <2>1. RestoreUa(v) = [v EXCEPT !.ua = [u1 EXCEPT !.final = FALSE],
                                 !.ut = t1]
    BY <1>6 DEF RestoreUa
  <2>2. RestoreUa(v) = [v EXCEPT !.ua = u, !.ut = t1]
    BY <1>5, <1>7, <2>1 DEF u
  <2>3. [v EXCEPT !.ua = u, !.ut = t1] = [w EXCEPT !.ut = t1]
    BY <1>3 DEF WorldType, u
  <2>4. QED
    BY <2>2, <2>3
<1>8. QED
  BY <1>4, <1>6, <1>7 DEF u, u1, v

LEMMA PassRespToTransactionOwnerGood ==
  ASSUME NEW w \in WorldType, NEW c \in Responses,
         NEW r \in PassRespToTransactionOwnerL(w, c)
  PROVE  \/ w.ua.final /\ r.left = "other" /\ r.w = w
         \/ ~w.ua.final /\ Refuses(r) /\ r.w = [w EXCEPT !.ut["W"] = "off"]
         \/ ~w.ua.final /\ Done(r) /\ Passed(w, c, r.w)
<1>1. CASE w.ua.final
  <2>1. r \in Leave(w, "other")
    BY <1>1 DEF PassRespToTransactionOwnerL, Assert
  <2>2. QED
    BY <1>1, <2>1 DEF Leave
<1>2. CASE ~w.ua.final
  <2> DEFINE b == c # "prov"
             v == [w EXCEPT !.ua.final = b]
  <2>1. r \in OnLeave(PassMsgToTransactionOwnerL(v, c), RestoreUa)
    BY <1>2 DEF PassRespToTransactionOwnerL, Assert
  <2>2. PICK p \in PassMsgToTransactionOwnerL(v, c) :
          r \in IF p.left = "no" THEN {p} ELSE Leave(RestoreUa(p.w), p.left)
    BY <2>1 DEF OnLeave
  <2>3. /\ v \in WorldType /\ v.ta = w.ta /\ v.tm = w.tm /\ v.tx = w.tx
        /\ v.ua = [w.ua EXCEPT !.final = b] /\ v.ut = w.ut
        /\ v.st = w.st /\ v.del = w.del /\ v.hist = w.hist
        /\ v.ua.owner = w.ua.owner
        /\ RestoreUa(v) = [w EXCEPT !.ut["W"] = "off"]
    BY <1>2, FinalIs
  <2> HIDE DEF v
  <2>4. \/ Refuses(p) /\ p.w = v
        \/ Done(p) /\ Told(v, c, p.w)
    BY <2>2, <2>3, PassMsgToTransactionOwnerGood
  <2>5. CASE Refuses(p) /\ p.w = v
    <3>1. r \in Leave(RestoreUa(v), p.left)
      BY <2>2, <2>5 DEF Refuses
    <3>2. r.left = p.left /\ r.w = RestoreUa(v)
      BY <3>1 DEF Leave
    <3>3. QED
      BY <1>2, <2>3, <2>5, <3>2 DEF Refuses
  <2>6. CASE Done(p) /\ Told(v, c, p.w)
    <3>1. r = p
      BY <2>2, <2>6 DEF Done
    <3>2. Passed(w, c, p.w)
      BY <2>3, <2>6 DEF Told, Passed
    <3>3. QED
      BY <1>2, <2>6, <3>1, <3>2
  <2>7. QED
    BY <2>4, <2>5, <2>6
<1>3. QED
  BY <1>1, <1>2

(* A 2xx response is accepted: the current transaction is over.            *)
Accepting(w) ==
  /\ Body(w) /\ Steady(w) /\ ~w.ua.stopped /\ w.ua.state = "WaitResponse"
  /\ \A j \in Ta : j # w.ua.cur => Timed(w.ta, w.tm, w.tx, w.del, j)
  /\ w.ua.cur # 0 => Runs(w.ta, w.del, w.ua.cur)

Accepts(w, z) ==
  LET i == w.ua.cur IN
  /\ z \in WorldType /\ z.tm = w.tm /\ z.ut["S"] = w.ut["S"]
  /\ \A j \in Ta : j # i => z.ta[j] = w.ta[j]
  /\ \A j \in Ta : z.tx[j] = w.tx[j]
  /\ z.tx[Ua] = "idle"
  /\ i # 0 => /\ z.ta[i].state = w.ta[i].state /\ z.ta[i].msg = w.ta[i].msg
              /\ z.ta[i].indep = w.ta[i].indep
              /\ z.ta[i].over /\ ~z.ta[i].att
  /\ z.st.id = "main" /\ z.st.rx = 0 /\ z.st.ind = w.st.ind
  /\ z.hist.ended = w.hist.ended /\ z.hist.cleared = w.hist.cleared
  /\ z.hist.heard \subseteq w.hist.heard \cup {"ok"}
  /\ z.hist.late => w.hist.late \/ (w.ua.owner /\ w.hist.ended > 0)
  /\ z.ua.state = "WaitAck" /\ z.ua.cur = 0
  /\ z.ua.stopped = w.ua.stopped /\ z.ua.owner = w.ua.owner
  /\ z.ua.msg = w.ua.msg /\ z.ua.n = w.ua.n /\ z.ua.stored = w.ua.stored
  /\ z.ua.secwait = w.ua.secwait /\ z.ua.secerr = w.ua.secerr
  /\ z.ua.addrs = w.ua.addrs
  /\ z.del.gone = w.del.gone /\ z.del.marked = w.del.marked
  /\ \/ z.ua.held = 0 /\ z.del.doomed = w.del.doomed \cup ({i} \ {0})
     \/ i # 0 /\ z.ua.held = i /\ z.del.doomed = w.del.doomed

LEMMA AcceptsGood ==
  ASSUME NEW w, Accepting(w), NEW z, Accepts(w, z)
  PROVE  Inv(z) /\ ~z.ua.secwait
<1> DEFINE i == w.ua.cur
<1>1. /\ w \in WorldType /\ w.ua \in UaType /\ w.hist \in HistType
      /\ i \in Ta \cup {0} /\ 0 \notin Ta /\ Ua = 0
  BY Ids DEF Accepting, Body, WorldType, UaType
<1>2. /\ z \in WorldType /\ z.tm = w.tm /\ z.ut["S"] = w.ut["S"]
      /\ \A j \in Ta : j # i => z.ta[j] = w.ta[j]
      /\ \A j \in Ta : z.tx[j] = w.tx[j]
      /\ z.tx[Ua] = "idle"
      /\ i # 0 => /\ z.ta[i].state = w.ta[i].state /\ z.ta[i].msg = w.ta[i].msg
                  /\ z.ta[i].indep = w.ta[i].indep
                  /\ z.ta[i].over /\ ~z.ta[i].att
      /\ z.st.id = "main" /\ z.st.rx = 0 /\ z.st.ind = w.st.ind
  BY DEF Accepts
<1>3. /\ z.hist.ended = w.hist.ended /\ z.hist.cleared = w.hist.cleared
      /\ z.hist.heard \subseteq w.hist.heard \cup {"ok"}
      /\ z.hist.late => w.hist.late \/ (w.ua.owner /\ w.hist.ended > 0)
  BY DEF Accepts
<1>4. /\ z.ua.state = "WaitAck" /\ z.ua.cur = 0
      /\ z.ua.stopped = w.ua.stopped /\ z.ua.owner = w.ua.owner
      /\ z.ua.msg = w.ua.msg /\ z.ua.n = w.ua.n
      /\ z.ua.stored = w.ua.stored
      /\ z.ua.secwait = w.ua.secwait /\ z.ua.secerr = w.ua.secerr
      /\ z.ua.addrs = w.ua.addrs
  BY DEF Accepts
<1>5. /\ z.del.gone = w.del.gone /\ z.del.marked = w.del.marked
      /\ \/ z.ua.held = 0 /\ z.del.doomed = w.del.doomed \cup ({i} \ {0})
         \/ i # 0 /\ z.ua.held = i /\ z.del.doomed = w.del.doomed
  BY DEF Accepts
<1>6. /\ Body(w) /\ Steady(w) /\ ~w.ua.stopped
      /\ w.ua.state = "WaitResponse"
      /\ \A j \in Ta : j # i => Timed(w.ta, w.tm, w.tx, w.del, j)
      /\ i # 0 => Runs(w.ta, w.del, i)
  BY DEF Accepting
<1> HIDE DEF i
<1>7. /\ i # 0 => /\ ~w.ta[i].indep /\ w.ta[i].state # "none"
                  /\ i \notin Dying(w.del) \cup w.del.gone
      /\ Dying(z.del) \subseteq Dying(w.del) \cup ({i} \ {0})
  BY <1>5, <1>6 DEF Body, Current, Dying, Runs, Here, i
<1>8. \A j \in Ta : Runs(z.ta, z.del, j) <=> Runs(w.ta, w.del, j) /\ j # i
  BY <1>1, <1>2, <1>5, <1>6 DEF Runs, Here
<1>9. Ends(z.ua, z.st, z.del, z.hist)
  <2>1. w.hist.ended = 0 /\ Ua \notin Dying(z.del) \cup z.del.gone
    BY <1>1, <1>5, <1>6, <1>7 DEF Body, Ends
  <2>2. QED
    BY <1>2, <1>3, <1>4, <1>6, <2>1 DEF Body, Ends
<1>10. Kept(z.ua, z.ut)
  BY <1>2, <1>4, <1>6 DEF Body, Kept, AckStates
<1>11. Heard(z.ua, z.hist)
  <2>1. "error" \notin w.hist.heard
    BY <1>6 DEF Body, Heard
  <2>2. QED
    BY <1>3, <1>4, <2>1 DEF Heard, AckStates
<1>12. Acks(z.ua, z.tx)
  <2>1. w.ua.msg # "ack"
    BY <1>6 DEF Body, Acks
  <2>2. QED
    BY <1>2, <1>4, <2>1 DEF Acks, AckStates
<1>13. Budget(z.ua)
  BY <1>4, <1>6 DEF Body, Budget
<1>14. Limit(z.ua, z.ta, z.del)
  <2> DEFINE n == w.ua.n
  <2>1. n \in Nat /\ n <= MaxTa /\ MaxTa \in Nat /\ z.ua.n = n
    BY <1>1, <1>4, <1>6, InviteClientAssumption DEF Steady, UaType
  <2> HIDE DEF n
  <2>2. n <= MaxTa + 1 /\ n # MaxTa + 1
    BY <2>1
  <2>3. QED
    BY <2>1, <2>2 DEF Limit
<1>15. Made(z.ta, z.tm, z.tx, z.ua, z.st, z.del)
  <2> SUFFICES ASSUME NEW j \in Ta
               PROVE  /\ j > z.ua.n => z.ta[j].state = "none"
                      /\ z.ta[j].state = "none" =>
                         /\ z.ta[j] = NoTa
                         /\ j \notin Dying(z.del) \cup z.del.gone
                         /\ j # z.ua.cur /\ j # z.ua.held /\ j \notin z.st.ind
                         /\ z.tx[j] = "idle"
                         /\ \A k \in TaTimers : z.tm[j][k] = "off"
    BY DEF Made
  <2>1. /\ j > w.ua.n => w.ta[j].state = "none"
        /\ w.ta[j].state = "none" =>
             /\ w.ta[j] = NoTa /\ j \notin Dying(w.del) \cup w.del.gone
             /\ j # w.ua.cur /\ j # w.ua.held /\ j \notin w.st.ind
             /\ w.tx[j] = "idle"
             /\ \A k \in TaTimers : w.tm[j][k] = "off"
    BY <1>6 DEF Body, Made
  <2>2. CASE j = i
    <3>1. z.ta[j].state # "none" /\ w.ta[j].state # "none"
      BY <1>1, <1>2, <1>7, <2>2
    <3>2. QED
      BY <1>4, <2>1, <3>1
  <2>3. CASE j # i
    <3>1. z.ta[j] = w.ta[j] /\ z.tx[j] = w.tx[j] /\ j # 0
      BY <1>1, <1>2, <2>3
    <3>2. j \in Dying(z.del) => j \in Dying(w.del)
      BY <1>7, <2>3
    <3>3. j # z.ua.held
      BY <1>5, <2>3, <3>1
    <3>4. QED
      BY <1>2, <1>4, <1>5, <2>1, <3>1, <3>2, <3>3
  <2>4. QED
    BY <2>2, <2>3
<1>16. Current(z.ta, z.ua, z.del)
  <2>1. z.ua.held # 0 => /\ z.ua.held = i /\ i # 0
                         /\ z.del.doomed = w.del.doomed
    BY <1>5
  <2>2. z.ua.held # 0 => /\ z.ta[i].over /\ ~z.ta[i].indep
                         /\ i \notin Dying(z.del) \cup z.del.gone
    BY <1>2, <1>5, <1>7, <2>1 DEF Dying
  <2>3. ~w.ua.secwait
    BY <1>6 DEF Body, Kept
  <2>4. QED
    BY <1>4, <2>1, <2>2, <2>3 DEF Current
<1>17. Attached(z.ta, z.ua, z.st, z.del)
  <2> SUFFICES ASSUME NEW j \in Ta, Runs(z.ta, z.del, j)
               PROVE  IF z.ta[j].att THEN j = z.ua.cur
                      ELSE z.ta[j].indep /\ j \in z.st.ind
                           /\ z.ta[j].state = "Completed"
    BY DEF Attached
  <2>1. Runs(w.ta, w.del, j) /\ j # i
    BY <1>8
  <2>2. ~w.ta[j].att /\ w.ta[j].indep /\ j \in w.st.ind
        /\ w.ta[j].state = "Completed"
    BY <1>6, <2>1, CurrentOrLetGo DEF i
  <2>3. QED
    BY <1>2, <2>1, <2>2
<1>18. Acked(z.ta)
  BY <1>1, <1>2, <1>6 DEF Body, Acked
<1>19. Freeing(z.ta, z.del)
  <2>1. /\ w.del.doomed \cap w.del.marked = {}
        /\ Dying(w.del) \cap w.del.gone = {}
        /\ \A j \in Ta : j \in Dying(w.del) => w.ta[j].over
        /\ \A j \in Ta : j \in w.del.gone => w.ta[j].over \/ ~w.ta[j].indep
    BY <1>6 DEF Body, Freeing
  <2>2. z.del.doomed \cap z.del.marked = {}
    BY <1>5, <1>7, <2>1 DEF Dying
  <2>3. Dying(z.del) \cap z.del.gone = {}
    BY <1>5, <1>7, <2>1
  <2>4. \A j \in Ta : j \in Dying(z.del) => z.ta[j].over
    BY <1>1, <1>2, <1>7, <2>1
  <2>5. \A j \in Ta : j \in z.del.gone => z.ta[j].over \/ ~z.ta[j].indep
    BY <1>1, <1>2, <1>5, <2>1
  <2>6. QED
    BY <2>2, <2>3, <2>4, <2>5 DEF Freeing
<1>20. Sending(z.ta, z.tx, z.ua, z.del)
  <2> SUFFICES ASSUME NEW j \in Ta, z.tx[j] # "idle"
               PROVE  z.tx[j] = "ta" /\ z.ta[j].indep /\ ~z.ta[j].over
                      /\ j \notin z.del.gone
    BY <1>2 DEF Sending
  <2>1. w.tx[j] = "ta" /\ w.ta[j].indep /\ ~w.ta[j].over
        /\ j \notin w.del.gone
    BY <1>2, <1>6 DEF Body, Sending
  <2>2. j # i
    BY <1>1, <1>7, <2>1
  <2>3. QED
    BY <1>2, <1>5, <2>1, <2>2
<1>21. LetGo(z.ta, z.tm, z.tx, z.del)
  <2> SUFFICES ASSUME NEW j \in Ta, Runs(z.ta, z.del, j)
               PROVE  Timed(z.ta, z.tm, z.tx, z.del, j)
    BY DEF LetGo, Timed
  <2>1. j # i /\ Runs(w.ta, w.del, j) /\ Timed(w.ta, w.tm, w.tx, w.del, j)
    BY <1>6, <1>8
  <2>2. QED
    BY <1>2, <2>1 DEF Timed
<1>22. Core(z)
  <2>1. Body(z)
    BY <1>2, <1>9, <1>10, <1>11, <1>12, <1>13, <1>14, <1>15, <1>16,
       <1>17, <1>18, <1>19, <1>20 DEF Body
  <2>2. QED
    BY <1>21, <2>1 DEF Core
<1>23. Rest(z)
  BY <1>2, <1>4 DEF Rest, Steady, Fresh, Awaits, CurrentEnds
<1>24. ~z.ua.secwait
  BY <1>4, <1>6 DEF Body, Kept
<1>25. QED
  BY <1>22, <1>23, <1>24 DEF Inv

(* The world with the user agent's part, and what refers to it, replaced.  *)
WithUa(w, u, s, d) == [w EXCEPT !.ua = u, !.st = s, !.del = d]

LEMMA WithUaIs ==
  ASSUME NEW w \in WorldType, NEW u \in UaType, NEW s \in StType,
         NEW d \in DelType
  PROVE  LET z == WithUa(w, u, s, d) IN
         /\ z \in WorldType /\ z.ta = w.ta /\ z.tm = w.tm /\ z.tx = w.tx
         /\ z.ut = w.ut /\ z.hist = w.hist
         /\ z.ua = u /\ z.st = s /\ z.del = d
BY DEF WithUa, WorldType

(* CInviteUAC::StopTransaction.                                            *)
StopsTa(w, z) ==
  LET i == w.ua.cur IN
  /\ z \in WorldType /\ z.tm = w.tm /\ z.ut = w.ut /\ z.hist = w.hist
  /\ \A j \in Ta : j # i => z.ta[j] = w.ta[j]
  /\ \A j \in Ta : z.tx[j] = w.tx[j]
  /\ z.tx[Ua] = IF w.tx[Ua] = "ta" THEN "idle" ELSE w.tx[Ua]
  /\ z.ta[i].state = w.ta[i].state /\ z.ta[i].msg = w.ta[i].msg
  /\ z.ta[i].indep = w.ta[i].indep
  /\ z.ta[i].over /\ ~z.ta[i].att
  /\ z.st = [w.st EXCEPT !.rx = 0]
  /\ \/ /\ z.ua = [w.ua EXCEPT !.cur = 0]
        /\ z.del = [w.del EXCEPT !.doomed = @ \cup {i}]
     \/ /\ z.ua = [w.ua EXCEPT !.cur = 0, !.held = i]
        /\ z.del = w.del

LEMMA StopTransactionIs ==
  ASSUME NEW w \in WorldType, w.st.id = "main", w.ua.held = 0,
         w.ua.cur # 0 => /\ ~w.ta[w.ua.cur].over /\ ~w.ta[w.ua.cur].indep
                         /\ w.ta[w.ua.cur].state # "none",
         NEW r \in StopTransaction(w)
  PROVE  /\ Done(r)
         /\ IF w.ua.cur = 0 THEN r.w = w ELSE StopsTa(w, r.w)
<1>1. CASE w.ua.cur = 0
  BY <1>1 DEF StopTransaction, Yes, Done
<1>2. CASE w.ua.cur # 0
  <2> DEFINE i == w.ua.cur
             a == [w EXCEPT !.ta[i].att = FALSE]
             t == [w.ta[i] EXCEPT !.att = FALSE, !.over = TRUE]
             m == w.tm[i]
             x == IF w.tx[Ua] = "ta" THEN "idle" ELSE w.tx[Ua]
             y == With(w, i, t, m, Ua, x)
             v == [Terminated(a, i) EXCEPT !.ua.cur = 0]
             ra == ClearTransaction([v EXCEPT !.del.doomed = @ \cup {i}])
             rb == ClearTransaction([v EXCEPT !.ua.held = i])
  <2>1. r \in Yes(ra) \cup Yes(rb)
    BY <1>2 DEF StopTransaction
  <2>2. /\ i \in Ta /\ i \in Obj /\ Ua \in Obj /\ 0 \in Obj
        /\ w.ua \in UaType /\ w.st \in StType
        /\ w.del \in DelType /\ w.ta \in [Ta -> TaType] /\ w.ta[i] \in TaType
        /\ w.tm \in [Ta -> [TaTimers -> TimerType]]
        /\ m \in [TaTimers -> TimerType]
        /\ w.tx \in [Obj -> {"idle", "ta", "ua"}]
        /\ x \in {"idle", "ta", "ua"} /\ Ua = 0
    BY <1>2, Ids DEF WorldType, UaType
  <2>3. /\ t \in TaType /\ t.over /\ ~t.att
        /\ t.state = w.ta[i].state /\ t.msg = w.ta[i].msg
        /\ t.indep = w.ta[i].indep
    BY <2>2 DEF TaType
  <2>4. Terminated(a, i) = y
    <3>1. /\ ~a.ta[i].over /\ TxOf(a, i) = Ua
          /\ ~a.ta[i].indep
      BY <1>2, <2>2 DEF TxOf, WorldType, TaType
    <3>2. Terminated(a, i)
            = [a EXCEPT !.ta[i].over = TRUE,
                        !.tx[Ua] = IF @ = "ta" THEN "idle" ELSE @]
      BY <3>1 DEF Terminated
    <3> DEFINE t0 == [w.ta[i] EXCEPT !.att = FALSE]
               ta1 == [w.ta EXCEPT ![i] = t0]
               ta2 == [w.ta EXCEPT ![i] = t]
               tx2 == [w.tx EXCEPT ![Ua] = x]
    <3>3. a = [w EXCEPT !.ta = ta1]
      BY <2>2
    <3>4. [t0 EXCEPT !.over = TRUE] = t
      OBVIOUS
    <3>5. [ta1 EXCEPT ![i].over = TRUE] = ta2
      BY <2>2, <3>4
    <3>6. a.ta = ta1 /\ a.tx = w.tx
      BY <3>3 DEF WorldType
    <3>7. Terminated(a, i) = [a EXCEPT !.ta = ta2, !.tx = tx2]
      BY <3>2, <3>5, <3>6
    <3>8. [w.tm EXCEPT ![i] = m] = w.tm
      BY <2>2
    <3>9. y = [w EXCEPT !.ta = ta2, !.tm = w.tm, !.tx = tx2]
      BY <3>8 DEF With
    <3> HIDE DEF t0, ta1, ta2, tx2, a, y, t, x, m
    <3>10. y = [w EXCEPT !.ta = ta2, !.tx = tx2]
      BY <3>9 DEF WorldType
    <3>11. [a EXCEPT !.ta = ta2, !.tx = tx2]
             = [w EXCEPT !.ta = ta2, !.tx = tx2]
      BY <3>3 DEF WorldType
    <3>12. QED
      BY <3>7, <3>10, <3>11
  <2> HIDE DEF i, t, m, x, a, y
  <2>5. IsWith(w, i, t, m, Ua, x, y)
    BY <2>2, <2>3, WithIs DEF y
  <2>6. /\ y \in WorldType /\ y.ua = w.ua /\ y.ut = w.ut /\ y.st = w.st
        /\ y.del = w.del /\ y.hist = w.hist
        /\ y.ta[i] = t /\ y.tm[i] = m /\ y.tx[Ua] = x
        /\ \A j \in Ta : j # i => y.ta[j] = w.ta[j] /\ y.tm[j] = w.tm[j]
        /\ \A j \in Obj : j # Ua => y.tx[j] = w.tx[j]
    BY <2>5 DEF IsWith
  <2>7. y.tm = w.tm
    <3> DEFINE f == y.tm
               g == w.tm
    <3>1. f \in [Ta -> [TaTimers -> TimerType]]
      BY <2>6 DEF WorldType
    <3>2. g \in [Ta -> [TaTimers -> TimerType]]
      BY DEF WorldType
    <3>3. \A j \in Ta : f[j] = g[j]
      BY <2>6 DEF m
    <3> HIDE DEF f, g
    <3>4. f = g
      BY <3>1, <3>2, <3>3
    <3>5. QED
      BY <3>4 DEF f, g
  <2> DEFINE s == [w.st EXCEPT !.rx = 0]
             uc == [w.ua EXCEPT !.cur = 0]
             ub == [w.ua EXCEPT !.cur = 0, !.held = i]
             d == [w.del EXCEPT !.doomed = @ \cup {i}]
  <2>8. s \in StType /\ d \in DelType
    BY <2>2 DEF StType, DelType
  <2>9. uc \in UaType /\ ub \in UaType
    <3>1. uc \in UaType
      BY <2>2, UaWith
    <3>2. ub = [uc EXCEPT !.held = i]
      OBVIOUS
    <3>3. QED
      BY <2>2, <3>1, <3>2, UaWith
  <2>10. ra = WithUa(y, uc, s, d)
    <3>1. [v EXCEPT !.del.doomed = @ \cup {i}] =
            [y EXCEPT !.ua = uc, !.del = d]
      BY <2>4, <2>6 DEF WorldType
    <3>2. [v EXCEPT !.del.doomed = @ \cup {i}].st = w.st
      BY <2>6, <3>1 DEF WorldType
    <3>3. ra = [[y EXCEPT !.ua = uc, !.del = d] EXCEPT !.st = s]
      BY <2>2, <3>1, <3>2 DEF ClearTransaction
    <3>4. QED
      BY <3>3, <2>6 DEF WithUa, WorldType
  <2>11. rb = [y EXCEPT !.ua = ub, !.st = s]
    <3>1. [v EXCEPT !.ua.held = i] = [y EXCEPT !.ua = ub]
      BY <2>4, <2>6 DEF WorldType
    <3>2. [v EXCEPT !.ua.held = i].st = w.st
      BY <2>6, <3>1 DEF WorldType
    <3>3. rb = [[y EXCEPT !.ua = ub] EXCEPT !.st = s]
      BY <2>2, <3>1, <3>2 DEF ClearTransaction
    <3>4. QED
      BY <3>3, <2>6
  <2> HIDE DEF s, uc, ub, d, v, ra, rb
  <2>12. /\ ra \in WorldType /\ ra.ta = y.ta /\ ra.tm = y.tm /\ ra.tx = y.tx
         /\ ra.ut = y.ut /\ ra.hist = y.hist
         /\ ra.ua = uc /\ ra.st = s /\ ra.del = d
    BY <2>6, <2>8, <2>9, <2>10, WithUaIs
  <2>13. /\ rb \in WorldType /\ rb.ta = y.ta /\ rb.tm = y.tm /\ rb.tx = y.tx
         /\ rb.ut = y.ut /\ rb.hist = y.hist
         /\ rb.ua = ub /\ rb.st = s /\ rb.del = w.del
    BY <2>6, <2>8, <2>9, <2>11 DEF WorldType
  <2>14. \A j \in Ta : j # Ua /\ j \in Obj
    BY Ids
  <2>15. StopsTa(w, ra) /\ StopsTa(w, rb)
    BY <2>3, <2>6, <2>7, <2>12, <2>13, <2>14
    DEF StopsTa, s, uc, ub, d, i, x
  <2>16. QED
    BY <1>2, <2>1, <2>15 DEF Yes, Done
<1>3. QED
  BY <1>1, <1>2

LEMMA AcceptLGood ==
  ASSUME NEW w, Accepting(w), ~w.ua.final, w.ut["W"] = "off",
         NEW r \in AcceptL(w)
  PROVE  \/ Refuses(r) /\ r.w = w
         \/ Done(r) /\ Accepts(w, r.w)
<1> DEFINE i == w.ua.cur
           v == [w EXCEPT !.ut["W"] = "on"]
<1>1. /\ w \in WorldType /\ w.ua \in UaType /\ w.ut \in [UaTimers -> TimerType]
      /\ w.tx \in [Obj -> {"idle", "ta", "ua"}]
      /\ Body(w) /\ w.st.id = "main" /\ w.ua.held = 0
      /\ w.st \in StType /\ w.del \in DelType
      /\ w.ua.state = "WaitResponse"
  BY DEF Accepting, Body, WorldType, Ends, Acks, AckStates
<1>2. i = 0 => w.tx[Ua] = "idle" /\ w.st.rx = 0
  <2>1. w.tx[Ua] \in {"idle", "ta", "ua"}
    BY <1>1, Ids
  <2>2. QED
    BY <1>1, <2>1 DEF Body, Sending, Acks, Accepting, Steady
<1>3. w.tx[Ua] # "ua"
  BY <1>1 DEF Body, Acks
<1>4. i # 0 => /\ ~w.ta[i].over /\ ~w.ta[i].indep /\ w.ta[i].state # "none"
               /\ i \in Ta
  BY <1>1, Ids DEF Accepting, Body, Current, Runs, Here, UaType
<1>5. /\ v \in WorldType /\ v.ta = w.ta /\ v.tm = w.tm /\ v.tx = w.tx
      /\ v.ua = w.ua /\ v.st = w.st /\ v.del = w.del /\ v.hist = w.hist
      /\ v.ut["S"] = w.ut["S"]
      /\ [v EXCEPT !.ut["W"] = "off"] = w
  <2> DEFINE t1 == [w.ut EXCEPT !["W"] = "on"]
  <2>1. /\ t1 \in [UaTimers -> TimerType] /\ t1["S"] = w.ut["S"]
        /\ [t1 EXCEPT !["W"] = "off"] = w.ut
    BY <1>1 DEF UaTimers, TimerType
  <2>2. v = [w EXCEPT !.ut = t1]
    OBVIOUS
  <2> HIDE DEF v, t1
  <2>3. /\ v \in WorldType /\ v.ta = w.ta /\ v.tm = w.tm /\ v.tx = w.tx
        /\ v.ua = w.ua /\ v.st = w.st /\ v.del = w.del /\ v.hist = w.hist
        /\ v.ut = t1
    BY <1>1, <2>1, <2>2 DEF WorldType
  <2>4. [v EXCEPT !.ut["W"] = "off"] = [v EXCEPT !.ut = w.ut]
    BY <2>1, <2>3
  <2>5. [v EXCEPT !.ut = w.ut] = w
    BY <1>1, <2>2 DEF WorldType
  <2>6. QED
    BY <2>1, <2>3, <2>4, <2>5
<1>6. PICK a \in Yes(v) \cup MayLeave("timer", w) :
        r \in IF a.left = "no" /\ a.yes
              THEN Then(PassRespToTransactionOwnerL(a.w, "ok"), LAMBDA b :
                   Then(StopTransaction(b), LAMBDA c :
                     Yes([c EXCEPT !.ua.state = "WaitAck"])))
              ELSE {a}
  BY DEF AcceptL, Then
<1> HIDE DEF v, i
<1>7. CASE a \in MayLeave("timer", w)
  BY <1>6, <1>7 DEF MayLeave, Leave, Refuses
<1>8. CASE a \in Yes(v)
  <2>1. PICK b \in PassRespToTransactionOwnerL(v, "ok") :
          r \in IF b.left = "no" /\ b.yes
                THEN Then(StopTransaction(b.w), LAMBDA c :
                       Yes([c EXCEPT !.ua.state = "WaitAck"]))
                ELSE {b}
    BY <1>6, <1>8 DEF Then, Yes
  <2>2. \/ Refuses(b) /\ b.w = w
        \/ Done(b) /\ Passed(v, "ok", b.w)
    BY <1>5, <2>1, PassRespToTransactionOwnerGood DEF Responses
  <2>3. CASE Refuses(b) /\ b.w = w
    BY <2>1, <2>3 DEF Refuses
  <2>4. CASE Done(b) /\ Passed(v, "ok", b.w)
    <3> DEFINE x == b.w
    <3>1. /\ x \in WorldType /\ x.ta = w.ta /\ x.tm = w.tm /\ x.tx = w.tx
          /\ x.ua = [w.ua EXCEPT !.final = TRUE]
          /\ x.ut["S"] = w.ut["S"] /\ x.st = w.st /\ x.del = w.del
          /\ x.hist.ended = w.hist.ended /\ x.hist.cleared = w.hist.cleared
          /\ x.hist.heard \subseteq w.hist.heard \cup {"ok"}
          /\ x.hist.late => w.hist.late \/ (w.ua.owner /\ w.hist.ended > 0)
      BY <1>5, <2>4 DEF Passed, Kind, IsError
    <3>2. /\ x.ua.cur = w.ua.cur /\ x.ua.held = w.ua.held
          /\ x.ua.state = w.ua.state
          /\ x.ua.stopped = w.ua.stopped /\ x.ua.owner = w.ua.owner
          /\ x.ua.msg = w.ua.msg /\ x.ua.n = w.ua.n
          /\ x.ua.stored = w.ua.stored
          /\ x.ua.secwait = w.ua.secwait /\ x.ua.secerr = w.ua.secerr
          /\ x.ua.addrs = w.ua.addrs
      <4> DEFINE u == w.ua
      <4>1. u \in UaType /\ x.ua = [u EXCEPT !.final = TRUE]
        BY <1>1, <3>1
      <4> HIDE DEF u, x
      <4>2. /\ x.ua.cur = u.cur /\ x.ua.held = u.held
            /\ x.ua.state = u.state
            /\ x.ua.stopped = u.stopped /\ x.ua.owner = u.owner
            /\ x.ua.msg = u.msg /\ x.ua.n = u.n
            /\ x.ua.stored = u.stored
            /\ x.ua.secwait = u.secwait /\ x.ua.secerr = u.secerr
            /\ x.ua.addrs = u.addrs
        BY <4>1 DEF UaType
      <4>3. QED
        BY <4>2 DEF u
    <3>3. PICK c \in StopTransaction(x) :
            r \in IF c.left = "no" /\ c.yes
                  THEN Yes([c.w EXCEPT !.ua.state = "WaitAck"]) ELSE {c}
      BY <2>1, <2>4 DEF Done, Then
    <3> HIDE DEF x
    <3>4. Done(c) /\ IF i = 0 THEN c.w = x ELSE StopsTa(x, c.w)
      <4>1. x \in WorldType /\ x.st.id = "main" /\ x.ua.held = 0
        BY <1>1, <3>1, <3>2
      <4>2. x.ua.cur # 0 => /\ ~x.ta[x.ua.cur].over /\ ~x.ta[x.ua.cur].indep
                            /\ x.ta[x.ua.cur].state # "none"
        BY <1>4, <3>1, <3>2 DEF i
      <4>3. Done(c) /\ IF x.ua.cur = 0 THEN c.w = x ELSE StopsTa(x, c.w)
        BY <3>3, <4>1, <4>2, StopTransactionIs
      <4>4. QED
        BY <3>2, <4>3 DEF i
    <3>5. r \in Yes([c.w EXCEPT !.ua.state = "WaitAck"])
      BY <3>3, <3>4 DEF Done
    <3>6. Done(r) /\ r.w = [c.w EXCEPT !.ua.state = "WaitAck"]
      BY <3>5 DEF Yes, Done
    <3>7. c.w \in WorldType
      BY <3>1, <3>4 DEF StopsTa
    <3>8. Moved(c.w, "WaitAck", r.w)
      BY <3>6, <3>7, MovedIs DEF AckStates
    <3>9. CASE i = 0
      <4>1. c.w = x
        BY <3>4, <3>9
      <4>2. /\ w.ua.cur = 0 /\ {w.ua.cur} \ {0} = {}
        BY <3>9 DEF i
      <4>3. /\ r.w \in WorldType /\ r.w.ta = x.ta /\ r.w.tm = x.tm
            /\ r.w.tx = x.tx /\ r.w.ut = x.ut /\ r.w.st = x.st
            /\ r.w.del = x.del /\ r.w.hist = x.hist
            /\ r.w.ua.state = "WaitAck"
            /\ r.w.ua.stopped = x.ua.stopped /\ r.w.ua.owner = x.ua.owner
            /\ r.w.ua.msg = x.ua.msg /\ r.w.ua.cur = x.ua.cur
            /\ r.w.ua.held = x.ua.held /\ r.w.ua.n = x.ua.n
            /\ r.w.ua.stored = x.ua.stored
            /\ r.w.ua.secwait = x.ua.secwait
            /\ r.w.ua.secerr = x.ua.secerr /\ r.w.ua.addrs = x.ua.addrs
        BY <3>8, <4>1 DEF Moved
      <4>4. /\ w.tx[Ua] = "idle" /\ w.st.rx = 0 /\ w.st.id = "main"
            /\ w.ua.held = 0
            /\ w.del.doomed = w.del.doomed \cup ({w.ua.cur} \ {0})
        BY <1>1, <1>2, <3>9, <4>2
      <4>5. Accepts(w, r.w)
        BY <3>1, <3>2, <4>2, <4>3, <4>4 DEF Accepts
      <4>6. QED
        BY <3>6, <4>5
    <3>10. CASE i # 0
      <4> DEFINE y == c.w
      <4>1. /\ StopsTa(x, y) /\ x.ua.cur = i
        BY <3>2, <3>4, <3>10 DEF i
      <4> HIDE DEF y
      <4>2. /\ y \in WorldType /\ y.tm = w.tm /\ y.ut = x.ut /\ y.hist = x.hist
            /\ \A j \in Ta : j # i => y.ta[j] = w.ta[j]
            /\ \A j \in Ta : y.tx[j] = w.tx[j]
            /\ y.tx[Ua] = IF w.tx[Ua] = "ta" THEN "idle" ELSE w.tx[Ua]
            /\ y.ta[i].state = w.ta[i].state /\ y.ta[i].msg = w.ta[i].msg
            /\ y.ta[i].indep = w.ta[i].indep
            /\ y.ta[i].over /\ ~y.ta[i].att
            /\ y.st = [w.st EXCEPT !.rx = 0]
            /\ \/ /\ y.ua = [x.ua EXCEPT !.cur = 0]
                  /\ y.del = [w.del EXCEPT !.doomed = @ \cup {i}]
               \/ /\ y.ua = [x.ua EXCEPT !.cur = 0, !.held = i]
                  /\ y.del = w.del
        BY <3>1, <4>1 DEF StopsTa
      <4>3. y.tx[Ua] = "idle"
        <5>1. w.tx[Ua] \in {"idle", "ta", "ua"}
          BY <1>1, Ids
        <5>2. QED
          BY <1>3, <4>2, <5>1
      <4>4. /\ y.ua.cur = 0 /\ y.ua.stopped = w.ua.stopped
            /\ y.ua.owner = w.ua.owner
            /\ y.ua.msg = w.ua.msg /\ y.ua.n = w.ua.n
            /\ y.ua.stored = w.ua.stored
            /\ y.ua.secwait = w.ua.secwait /\ y.ua.secerr = w.ua.secerr
            /\ y.ua.addrs = w.ua.addrs
            /\ \/ /\ y.ua.held = 0
                  /\ y.del = [w.del EXCEPT !.doomed = @ \cup {i}]
               \/ /\ y.ua.held = i /\ y.del = w.del
        <5> DEFINE u == x.ua
        <5>1. u \in UaType /\ u.held = 0
          BY <1>1, <3>1, <3>2 DEF WorldType
        <5>2. \/ /\ y.ua = [u EXCEPT !.cur = 0]
                 /\ y.del = [w.del EXCEPT !.doomed = @ \cup {i}]
              \/ /\ y.ua = [u EXCEPT !.cur = 0, !.held = i]
                 /\ y.del = w.del
          BY <4>2
        <5> HIDE DEF u
        <5>3. /\ y.ua.cur = 0 /\ y.ua.stopped = u.stopped
              /\ y.ua.owner = u.owner
              /\ y.ua.msg = u.msg /\ y.ua.n = u.n
              /\ y.ua.stored = u.stored
              /\ y.ua.secwait = u.secwait /\ y.ua.secerr = u.secerr
              /\ y.ua.addrs = u.addrs
              /\ \/ /\ y.ua.held = 0
                    /\ y.del = [w.del EXCEPT !.doomed = @ \cup {i}]
                 \/ /\ y.ua.held = i /\ y.del = w.del
          BY <5>1, <5>2 DEF UaType
        <5>4. QED
          BY <3>2, <5>3 DEF u
      <4>5. /\ y.st.id = "main" /\ y.st.rx = 0 /\ y.st.ind = w.st.ind
        BY <1>1, <4>2 DEF StType
      <4>6. /\ y.del.gone = w.del.gone /\ y.del.marked = w.del.marked
            /\ \/ y.ua.held = 0 /\ y.del.doomed = w.del.doomed \cup {i}
               \/ y.ua.held = i /\ y.del.doomed = w.del.doomed
        BY <1>1, <4>4 DEF DelType
      <4>7. /\ r.w \in WorldType /\ r.w.ta = y.ta /\ r.w.tm = y.tm
            /\ r.w.tx = y.tx /\ r.w.ut = y.ut /\ r.w.st = y.st
            /\ r.w.del = y.del /\ r.w.hist = y.hist
            /\ r.w.ua.state = "WaitAck"
            /\ r.w.ua.stopped = y.ua.stopped /\ r.w.ua.owner = y.ua.owner
            /\ r.w.ua.msg = y.ua.msg /\ r.w.ua.cur = y.ua.cur
            /\ r.w.ua.held = y.ua.held /\ r.w.ua.n = y.ua.n
            /\ r.w.ua.stored = y.ua.stored
            /\ r.w.ua.secwait = y.ua.secwait
            /\ r.w.ua.secerr = y.ua.secerr /\ r.w.ua.addrs = y.ua.addrs
        BY <3>8 DEF Moved, y
      <4>8. w.ua.cur = i /\ {i} \ {0} = {i}
        BY <3>10 DEF i
      <4>9. Accepts(w, r.w)
        BY <3>1, <3>10, <4>2, <4>3, <4>4, <4>5, <4>6, <4>7, <4>8 DEF Accepts
      <4>10. QED
        BY <3>6, <4>9
    <3>11. QED
      BY <3>9, <3>10
  <2>5. QED
    BY <2>2, <2>3, <2>4
<1>9. QED
  BY <1>6, <1>7, <1>8

(* The user agent receives a response that is not an error.                *)
Listens(w, c, z) ==
  /\ Told(w, c, z)
  /\ \/ z = w /\ (w.ua.stopped \/ w.ua.state \in AckStates)
     \/ ~w.ua.stopped /\ (c = "prov" \/ w.ua.state \in AckStates)

Hearing(w) ==
  /\ Body(w) /\ Steady(w)
  /\ ~w.ua.stopped /\ w.ua.state = "WaitResponse" => Accepting(w)

Hears(w, c, r) ==
  \/ Refuses(r) /\ r.w = w
  \/ Done(r) /\ Listens(w, c, r.w)
  \/ Done(r) /\ Accepting(w) /\ Accepts(w, r.w)

LEMMA ListensSelf ==
  ASSUME NEW w \in WorldType, NEW c,
         w.ua.stopped \/ w.ua.state \in AckStates
  PROVE  Listens(w, c, w)
BY DEF Listens, Told

LEMMA StopOnLeaveNo ==
  ASSUME NEW w, NEW r \in StopOnLeave(No(w))
  PROVE  r.left = "no" /\ ~r.yes /\ r.w = w
<1>1. PICK p \in No(w) :
        r \in IF p.left = "no" THEN {p}
              ELSE {[s EXCEPT !.left = p.left] : s \in StopIfFound(p.w)}
  BY DEF StopOnLeave
<1>2. p.left = "no" /\ ~p.yes /\ p.w = w
  BY DEF No
<1>3. QED
  BY <1>1, <1>2

LEMMA ReceiveResponseLHears ==
  ASSUME NEW w, Accepting(w), ~w.ua.final, NEW c \in {"prov", "ok"},
         NEW r \in ReceiveResponseL(w, c)
  PROVE  Hears(w, c, r)
<1>0. w \in WorldType /\ w.ua \in UaType
  BY DEF Accepting, Body, WorldType
<1>1. CASE w.ut["W"] # "off"
  <2>1. r \in Leave(w, "other")
    BY <1>1 DEF ReceiveResponseL, Assert
  <2>2. QED
    BY <2>1 DEF Leave, Hears, Refuses
<1>2. CASE w.ut["W"] = "off"
  <2>1. PICK p \in ShouldUaTryAgainL(w, c) :
          r \in IF p.left = "no" /\ ~p.yes
                THEN IF c = "ok" THEN AcceptL(p.w)
                     ELSE Then(PassRespToTransactionOwnerL(p.w, c), LAMBDA x :
                            Yes(IF c = "prov" THEN x
                                ELSE [x EXCEPT !.ua.state = "WaitEnd"]))
                ELSE {p}
    BY <1>2 DEF ReceiveResponseL, Assert, Otherwise
  <2>2. p.left = "no" /\ ~p.yes /\ p.w = w
    <3> DEFINE T == CASE c = "busy" ->
                           TryNextAddressL(w, c, "Resolve", "WaitResponse")
                      [] c = "auth" /\ Secure /\ ~w.ua.secerr ->
                           Then(FillSecurityParamsL(w), LAMBDA v :
                             UpdateAndSendRequestL(v, "WaitResponse"))
                      [] OTHER -> No(w)
    <3>1. p \in IF w.ua.final \/ ~w.ua.owner THEN No(w) ELSE StopOnLeave(T)
      BY <2>1 DEF ShouldUaTryAgainL, Then
    <3>2. T = No(w)
      <4>1. c # "busy" /\ c # "auth"
        OBVIOUS
      <4>2. QED
        BY <4>1 DEF Then
    <3> HIDE DEF T
    <3>3. p \in No(w) \/ p \in StopOnLeave(No(w))
      BY <3>1, <3>2
    <3>4. CASE p \in No(w)
      BY <3>4 DEF No
    <3>5. CASE p \in StopOnLeave(No(w))
      BY <3>5, StopOnLeaveNo
    <3>6. QED
      BY <3>3, <3>4, <3>5
  <2>3. CASE c = "ok"
    <3>1. r \in AcceptL(w)
      BY <2>1, <2>2, <2>3
    <3>2. QED
      BY <1>2, <3>1, AcceptLGood DEF Hears
  <2>4. CASE c = "prov"
    <3>1. r \in Then(PassRespToTransactionOwnerL(w, c), LAMBDA x : Yes(x))
      BY <2>1, <2>2, <2>4
    <3>2. PICK q \in PassRespToTransactionOwnerL(w, c) :
            r \in IF q.left = "no" /\ q.yes THEN Yes(q.w) ELSE {q}
      BY <3>1 DEF Then
    <3>3. \/ Refuses(q) /\ q.w = [w EXCEPT !.ut["W"] = "off"]
          \/ Done(q) /\ Passed(w, c, q.w)
      BY <1>0, <3>2, PassRespToTransactionOwnerGood DEF Responses
    <3>4. CASE Refuses(q) /\ q.w = [w EXCEPT !.ut["W"] = "off"]
      <4> DEFINE t1 == [w.ut EXCEPT !["W"] = "off"]
      <4>1. t1 = w.ut
        BY <1>0, <1>2 DEF WorldType
      <4>2. q.w = [w EXCEPT !.ut = t1]
        BY <3>4
      <4>3. q.w = w
        BY <1>0, <4>1, <4>2 DEF WorldType
      <4>4. r = q
        BY <3>2, <3>4 DEF Refuses
      <4>5. QED
        BY <3>4, <4>3, <4>4 DEF Hears
    <3>5. CASE Done(q) /\ Passed(w, c, q.w)
      <4>1. Done(r) /\ r.w = q.w
        BY <3>2, <3>5 DEF Yes, Done
      <4>2. q.w.ua = w.ua
        <5> DEFINE u == w.ua
        <5>1. u \in UaType /\ q.w.ua = [u EXCEPT !.final = FALSE]
          BY <1>0, <2>4, <3>5 DEF Passed
        <5>2. ~u.final
          OBVIOUS
        <5> HIDE DEF u
        <5>3. u.final = FALSE
          BY <5>1, <5>2 DEF UaType
        <5>4. [u EXCEPT !.final = FALSE] = u
          BY <5>1, <5>3 DEF UaType
        <5>5. QED
          BY <5>1, <5>4 DEF u
      <4>3. Told(w, c, q.w)
        BY <3>5, <4>2 DEF Passed, Told
      <4>4. ~w.ua.stopped
        BY DEF Accepting
      <4>5. QED
        BY <2>4, <4>1, <4>3, <4>4 DEF Hears, Listens
    <3>6. QED
      BY <3>3, <3>4, <3>5
  <2>5. QED
    BY <2>3, <2>4
<1>3. QED
  BY <1>1, <1>2

LEMMA PassResponseToSIPSecHears ==
  ASSUME NEW w, NEW c \in {"prov", "ok"}, NEW r \in PassResponseToSIPSecL(w, c)
  PROVE  /\ r.w = w
         /\ \/ r.left = "no" /\ ~r.yes
            \/ r.left = "other"
<1>1. c # "auth"
  OBVIOUS
<1>2. r \in No(w) \/ r \in Leave(w, "other")
  BY <1>1 DEF PassResponseToSIPSecL, Assert
<1>3. QED
  BY <1>2 DEF No, Leave

LEMMA WaitResponseReceiveLHears ==
  ASSUME NEW w, Accepting(w), NEW c \in {"prov", "ok"},
         NEW r \in WaitResponseReceiveL(w, c)
  PROVE  Hears(w, c, r)
<1>1. ~IsError(c)
  BY DEF IsError
<1>2. CASE w.ua.final
  <2>1. r \in Leave(w, "other")
    BY <1>2 DEF WaitResponseReceiveL, Assert
  <2>2. QED
    BY <2>1 DEF Leave, Hears, Refuses
<1>3. CASE ~w.ua.final
  <2>1. \E p \in PassResponseToSIPSecL(w, c) :
          \/ p.left # "no" /\ r = p
          \/ p.left = "no" /\ ~p.yes /\ r \in ReceiveResponseL(p.w, c)
    <3>1. PICK p \in PassResponseToSIPSecL(w, c) :
            \/ p.left # "no" /\ r = p
            \/ p.left = "no" /\ p.yes
            \/ p.left = "no" /\ ~p.yes /\ r \in ReceiveResponseL(p.w, c)
      BY <1>1, <1>3 DEF WaitResponseReceiveL, Assert
    <3>2. ~(p.left = "no" /\ p.yes)
      BY <3>1, PassResponseToSIPSecHears
    <3>3. QED
      BY <3>1, <3>2
  <2>2. PICK p \in PassResponseToSIPSecL(w, c) :
          \/ p.left # "no" /\ r = p
          \/ p.left = "no" /\ ~p.yes /\ r \in ReceiveResponseL(p.w, c)
    BY <2>1
  <2>3. p.w = w /\ p.left \in {"no", "other"}
    BY <2>2, PassResponseToSIPSecHears
  <2>4. QED
    BY <1>3, <2>2, <2>3, ReceiveResponseLHears DEF Hears, Refuses
<1>4. QED
  BY <1>2, <1>3

LEMMA UaReceiveLHears ==
  ASSUME NEW w, Hearing(w), NEW c \in {"prov", "ok"},
         NEW r \in UaReceiveL(w, c)
  PROVE  Hears(w, c, r)
<1>0. w \in WorldType
  BY DEF Hearing, Body
<1>1. CASE w.ua.stopped
  <2>1. r \in Yes(w)
    BY <1>1 DEF UaReceiveL
  <2>2. QED
    BY <1>0, <1>1, <2>1, ListensSelf DEF Yes, Done, Hears
<1>2. CASE ~w.ua.stopped /\ w.ua.state = "WaitResponse"
  <2>1. r \in WaitResponseReceiveL(w, c)
    BY <1>2 DEF UaReceiveL, AckStates
  <2>2. QED
    BY <1>2, <2>1, WaitResponseReceiveLHears DEF Hearing
<1>3. CASE ~w.ua.stopped /\ w.ua.state \in AckStates
  <2>1. r \in HandleAdditional2xxL(w, c)
    BY <1>3 DEF UaReceiveL, AckStates
  <2>2. CASE c # "ok"
    <3>1. r \in Yes(w)
      BY <2>1, <2>2 DEF HandleAdditional2xxL
    <3>2. QED
      BY <1>0, <1>3, <3>1, ListensSelf DEF Yes, Done, Hears
  <2>3. CASE c = "ok"
    <3>1. PICK p \in PassResponseToSIPSecL(w, c) :
            r \in IF p.left = "no" /\ ~p.yes
                  THEN PassMsgToTransactionOwnerL(p.w, c) ELSE {p}
      BY <2>1, <2>3 DEF HandleAdditional2xxL, Otherwise
    <3>2. /\ p.w = w
          /\ \/ p.left = "no" /\ ~p.yes
             \/ p.left = "other"
      BY <3>1, PassResponseToSIPSecHears
    <3>3. CASE p.left = "other"
      BY <3>1, <3>2, <3>3 DEF Hears, Refuses
    <3>4. CASE p.left = "no" /\ ~p.yes
      <4>1. r \in PassMsgToTransactionOwnerL(w, c)
        BY <3>1, <3>2, <3>4
      <4>2. \/ Refuses(r) /\ r.w = w
            \/ Done(r) /\ Told(w, c, r.w)
        BY <1>0, <4>1, PassMsgToTransactionOwnerGood DEF Responses
      <4>3. QED
        BY <1>3, <4>2 DEF Hears, Listens
    <3>5. QED
      BY <3>2, <3>3, <3>4
  <2>4. QED
    BY <2>2, <2>3
<1>4. CASE ~w.ua.stopped /\ w.ua.state \notin {"WaitResponse"} \cup AckStates
  <2>1. r \in Leave(w, "other")
    BY <1>4 DEF UaReceiveL
  <2>2. QED
    BY <2>1 DEF Leave, Hears, Refuses
<1>5. QED
  BY <1>1, <1>2, <1>3, <1>4

(* Passing a response on to the owner disturbs nothing.                    *)
LEMMA ListensGood ==
  ASSUME NEW w, Body(w), NEW c \in {"prov", "ok"}, NEW z, Listens(w, c, z)
  PROVE  /\ Body(z) /\ (Steady(w) => Steady(z))
         /\ z.ta = w.ta /\ z.tm = w.tm /\ z.tx = w.tx /\ z.ua = w.ua
         /\ z.st = w.st /\ z.del = w.del
         /\ z.hist.cleared = w.hist.cleared
         /\ \A i \in Ta : Timed(w.ta, w.tm, w.tx, w.del, i) =>
                          Timed(z.ta, z.tm, z.tx, z.del, i)
         /\ CurrentEnds(w.ta, w.tm, w.tx, w.ua, w.del, w.hist) =>
              CurrentEnds(z.ta, z.tm, z.tx, z.ua, z.del, z.hist)
<1>1. /\ z \in WorldType /\ z.ta = w.ta /\ z.tm = w.tm /\ z.tx = w.tx
      /\ z.ua = w.ua /\ z.ut = w.ut /\ z.st = w.st /\ z.del = w.del
      /\ z.hist.ended = w.hist.ended /\ z.hist.cleared = w.hist.cleared
      /\ z.hist.heard \subseteq w.hist.heard \cup {c}
      /\ z.hist.late => w.hist.late \/ (w.ua.owner /\ w.hist.ended > 0)
  BY DEF Listens, Told, Kind, IsError
<1>2. CASE z = w
  BY <1>2
<1>3. CASE ~w.ua.stopped /\ (c = "prov" \/ w.ua.state \in AckStates)
  <2>1. w.hist.ended = 0 /\ w.ua \in UaType
    BY <1>3 DEF Body, Ends, WorldType
  <2>2. UaOnly(w, z)
    <3> DEFINE n == w.ua.n
    <3>1. n \in Nat
      BY <2>1 DEF UaType
    <3> HIDE DEF n
    <3>2. n >= n
      BY <3>1
    <3>3. z.ua.n >= w.ua.n
      BY <1>1, <3>2 DEF n
    <3>4. QED
      BY <1>1, <3>3 DEF UaOnly
  <2>3. Heard(z.ua, z.hist)
    BY <1>1, <1>3 DEF Body, Heard
  <2>4. UaMay(w, z)
    <3>1. z.hist.late => z.ua.secerr
      BY <1>1, <2>1 DEF Body, Ends
    <3>2. w.ua.state = "WaitEnd" /\ w.ua.cur # 0 => Answered(w.ta[w.ua.cur])
      BY DEF Body, Current, Answered
    <3>3. QED
      BY <1>1, <1>3, <2>3, <3>1, <3>2 DEF UaMay, Body
  <2>5. /\ Body(z)
        /\ \A i \in Ta : Timed(w.ta, w.tm, w.tx, w.del, i) =>
                         Timed(z.ta, z.tm, z.tx, z.del, i)
    BY <2>2, <2>4, UaStepGood
  <2>6. QED
    BY <1>1, <2>5 DEF Steady, CurrentEnds
<1>4. QED
  BY <1>2, <1>3 DEF Listens

(* An error response is kept until SIPSec, or a timer, lets the user agent *)
(* go on.                                                                  *)
KeepResp(w, c) ==
  Yes([w EXCEPT !.ua.state = "WaitAuth",
                !.ua.stored = IF @ = "none" THEN c ELSE @])
Later(w, c) == Then(StartTimerSIPSecL(w), LAMBDA v : KeepResp(v, c))

Same(w, z) ==
  /\ z \in WorldType /\ z.ta = w.ta /\ z.tm = w.tm /\ z.tx = w.tx
  /\ z.st = w.st /\ z.del = w.del /\ z.hist = w.hist
  /\ z.ua.stopped = w.ua.stopped /\ z.ua.owner = w.ua.owner
  /\ z.ua.msg = w.ua.msg /\ z.ua.final = w.ua.final
  /\ z.ua.cur = w.ua.cur /\ z.ua.held = w.ua.held /\ z.ua.n = w.ua.n
  /\ z.ua.addrs = w.ua.addrs /\ z.ua.results = w.ua.results
  /\ (w.ua.secerr => z.ua.secerr)
  /\ z.ut["W"] = w.ut["W"]

Unmoved(w, z) ==
  /\ Same(w, z) /\ z.ua.state = w.ua.state /\ z.ua.stored = w.ua.stored
  /\ z.ua.secwait = w.ua.secwait /\ z.ut["S"] = w.ut["S"]

Waits(w, c, z) ==
  /\ Same(w, z) /\ z.ua.state = "WaitAuth"
  /\ z.ua.stored = IF w.ua.stored = "none" THEN c ELSE w.ua.stored
  /\ \/ /\ z.ua.secwait /\ c = "auth" /\ Secure
        /\ z.ut["S"] = w.ut["S"]
     \/ z.ua.secwait = w.ua.secwait /\ z.ut["S"] = "on"

Delays(w, c, r) ==
  \/ r.left \in {"nomem", "other"} /\ Unmoved(w, r.w)
  \/ Done(r) /\ r.w = w
  \/ Done(r) /\ ~w.ua.stopped /\ w.ua.state = "WaitResponse"
     /\ Waits(w, c, r.w)

LEMMA UnmovedSelf ==
  ASSUME NEW w \in WorldType
  PROVE  Unmoved(w, w)
BY DEF Unmoved, Same

LEMMA SecErrIs ==
  ASSUME NEW w \in WorldType
  PROVE  Unmoved(w, [w EXCEPT !.ua.secerr = TRUE])
<1> DEFINE u == w.ua
           u1 == [u EXCEPT !.secerr = TRUE]
           z == [w EXCEPT !.ua.secerr = TRUE]
<1>1. u \in UaType
  BY DEF WorldType
<1>2. z = [w EXCEPT !.ua = u1]
  OBVIOUS
<1> HIDE DEF u
<1>3. /\ u1 \in UaType /\ u1.state = u.state
      /\ u1.stopped = u.stopped /\ u1.owner = u.owner
      /\ u1.msg = u.msg /\ u1.final = u.final
      /\ u1.cur = u.cur /\ u1.held = u.held /\ u1.n = u.n
      /\ u1.stored = u.stored /\ u1.secwait = u.secwait
      /\ u1.secerr /\ u1.addrs = u.addrs
      /\ u1.results = u.results
  BY <1>1 DEF UaType
<1> HIDE DEF u1, z
<1>4. /\ z \in WorldType /\ z.ta = w.ta /\ z.tm = w.tm /\ z.tx = w.tx
      /\ z.ut = w.ut /\ z.st = w.st /\ z.del = w.del /\ z.hist = w.hist
      /\ z.ua = u1
  BY <1>2, <1>3 DEF WorldType
<1>5. QED
  BY <1>3, <1>4 DEF Unmoved, Same, z, u

LEMMA SecWaitIs ==
  ASSUME NEW w \in WorldType
  PROVE  LET z == [w EXCEPT !.ua.secwait = TRUE] IN
         /\ Same(w, z) /\ z.ua.state = w.ua.state
         /\ z.ua.stored = w.ua.stored /\ z.ua.secwait
         /\ z.ut["S"] = w.ut["S"]
<1> DEFINE u == w.ua
           u1 == [u EXCEPT !.secwait = TRUE]
           z == [w EXCEPT !.ua.secwait = TRUE]
<1>1. u \in UaType
  BY DEF WorldType
<1>2. z = [w EXCEPT !.ua = u1]
  OBVIOUS
<1> HIDE DEF u
<1>3. /\ u1 \in UaType /\ u1.state = u.state
      /\ u1.stopped = u.stopped /\ u1.owner = u.owner
      /\ u1.msg = u.msg /\ u1.final = u.final
      /\ u1.cur = u.cur /\ u1.held = u.held /\ u1.n = u.n
      /\ u1.stored = u.stored /\ u1.secwait
      /\ u1.secerr = u.secerr /\ u1.addrs = u.addrs
      /\ u1.results = u.results
  BY <1>1 DEF UaType
<1> HIDE DEF u1, z
<1>4. /\ z \in WorldType /\ z.ta = w.ta /\ z.tm = w.tm /\ z.tx = w.tx
      /\ z.ut = w.ut /\ z.st = w.st /\ z.del = w.del /\ z.hist = w.hist
      /\ z.ua = u1
  BY <1>2, <1>3 DEF WorldType
<1>5. /\ Same(w, z) /\ z.ua.state = w.ua.state
      /\ z.ua.stored = w.ua.stored /\ z.ua.secwait
      /\ z.ut["S"] = w.ut["S"]
  BY <1>3, <1>4 DEF Same, u
<1>6. QED
  BY <1>5 DEF z

LEMMA KeepRespIs ==
  ASSUME NEW w \in WorldType, NEW c \in Responses, NEW r \in KeepResp(w, c)
  PROVE  /\ Done(r) /\ Same(w, r.w) /\ r.w.ua.state = "WaitAuth"
         /\ r.w.ua.stored = IF w.ua.stored = "none" THEN c ELSE w.ua.stored
         /\ r.w.ua.secwait = w.ua.secwait /\ r.w.ut["S"] = w.ut["S"]
<1> DEFINE u == w.ua
           c1 == IF w.ua.stored = "none" THEN c ELSE w.ua.stored
           u1 == [[u EXCEPT !.state = "WaitAuth"] EXCEPT !.stored = c1]
           z == [w EXCEPT !.ua.state = "WaitAuth",
                          !.ua.stored = IF @ = "none" THEN c ELSE @]
<1>1. u \in UaType /\ c1 \in Responses \cup {"none"}
  BY DEF WorldType, UaType
<1>2. z = [w EXCEPT !.ua = u1]
  BY <1>1 DEF WorldType, UaType
<1>3. r \in Yes(z)
  BY DEF KeepResp
<1> HIDE DEF u, c1
<1>4. /\ u1 \in UaType /\ u1.state = "WaitAuth"
      /\ u1.stopped = u.stopped /\ u1.owner = u.owner
      /\ u1.msg = u.msg /\ u1.final = u.final
      /\ u1.cur = u.cur /\ u1.held = u.held /\ u1.n = u.n
      /\ u1.stored = c1 /\ u1.secwait = u.secwait
      /\ u1.secerr = u.secerr /\ u1.addrs = u.addrs
      /\ u1.results = u.results
  BY <1>1 DEF UaType
<1> HIDE DEF u1, z
<1>5. /\ z \in WorldType /\ z.ta = w.ta /\ z.tm = w.tm /\ z.tx = w.tx
      /\ z.ut = w.ut /\ z.st = w.st /\ z.del = w.del /\ z.hist = w.hist
      /\ z.ua = u1
  BY <1>2, <1>4 DEF WorldType
<1>6. Done(r) /\ r.w = z
  BY <1>3 DEF Yes, Done
<1>7. QED
  BY <1>4, <1>5, <1>6 DEF Same, u, c1

LEMMA StartTimerSIPSecIs ==
  ASSUME NEW w \in WorldType, NEW r \in StartTimerSIPSecL(w)
  PROVE  \/ r.left \in {"nomem", "other"} /\ r.w = w
         \/ /\ Done(r) /\ Same(w, r.w) /\ r.w.ua = w.ua
            /\ r.w.ut["S"] = "on"
<1> DEFINE t1 == [w.ut EXCEPT !["S"] = "on"]
           z == [w EXCEPT !.ut["S"] = "on"]
<1>1. r \in Leave(w, "other") \/ r \in Yes(z) \/ r \in MayLeave("timer", w)
  BY DEF StartTimerSIPSecL, Assert
<1>2. /\ t1 \in [UaTimers -> TimerType] /\ t1["S"] = "on"
      /\ t1["W"] = w.ut["W"]
  BY DEF WorldType, UaTimers, TimerType
<1>3. z = [w EXCEPT !.ut = t1]
  OBVIOUS
<1> HIDE DEF z, t1
<1>4. /\ z \in WorldType /\ z.ta = w.ta /\ z.tm = w.tm /\ z.tx = w.tx
      /\ z.ua = w.ua /\ z.st = w.st /\ z.del = w.del /\ z.hist = w.hist
      /\ z.ut = t1
  BY <1>2, <1>3 DEF WorldType
<1>5. CASE r \in Yes(z)
  BY <1>2, <1>4, <1>5 DEF Yes, Done, Same
<1>6. CASE r \notin Yes(z)
  BY <1>1, <1>6 DEF Leave, MayLeave
<1>7. QED
  BY <1>5, <1>6

LEMMA LaterIs ==
  ASSUME NEW w \in WorldType, NEW c \in Responses, NEW r \in Later(w, c)
  PROVE  \/ r.left \in {"nomem", "other"} /\ r.w = w
         \/ Done(r) /\ Waits(w, c, r.w)
<1>1. PICK p \in StartTimerSIPSecL(w) :
        r \in IF p.left = "no" /\ p.yes THEN KeepResp(p.w, c) ELSE {p}
  BY DEF Later, Then
<1>2. CASE p.left \in {"nomem", "other"} /\ p.w = w
  BY <1>1, <1>2
<1>3. CASE Done(p) /\ Same(w, p.w) /\ p.w.ua = w.ua /\ p.w.ut["S"] = "on"
  <2>1. r \in KeepResp(p.w, c) /\ p.w \in WorldType
    BY <1>1, <1>3 DEF Done, Same
  <2>2. /\ Done(r) /\ Same(p.w, r.w) /\ r.w.ua.state = "WaitAuth"
        /\ r.w.ua.stored
             = IF p.w.ua.stored = "none" THEN c ELSE p.w.ua.stored
        /\ r.w.ua.secwait = p.w.ua.secwait /\ r.w.ut["S"] = p.w.ut["S"]
    BY <2>1, KeepRespIs
  <2>3. Same(w, r.w)
    BY <1>3, <2>2 DEF Same
  <2>4. QED
    BY <1>3, <2>2, <2>3 DEF Waits
<1>4. QED
  BY <1>1, <1>2, <1>3, StartTimerSIPSecIs

LEMMA PassResponseToSIPSecIs ==
  ASSUME NEW w, NEW c, NEW r \in PassResponseToSIPSecL(w, c)
  PROVE  \/ r.left = "no" /\ ~r.yes /\ r.w = w
         \/ r.left = "other" /\ r.w = w
         \/ /\ r.left = "no" /\ r.yes /\ c = "auth" /\ Secure
            /\ r.w = [w EXCEPT !.ua.secwait = TRUE]
<1> DEFINE z == [w EXCEPT !.ua.secwait = TRUE]
<1>1. \/ r \in No(w) \/ r \in Leave(w, "other")
      \/ c = "auth" /\ Secure /\ r \in Yes(z)
  BY DEF PassResponseToSIPSecL, Assert
<1> HIDE DEF z
<1>2. \/ r.left = "no" /\ ~r.yes /\ r.w = w
      \/ r.left = "other" /\ r.w = w
      \/ /\ r.left = "no" /\ r.yes /\ c = "auth" /\ Secure
         /\ r.w = z
  BY <1>1 DEF No, Leave, Yes
<1>3. QED
  BY <1>2 DEF z

LEMMA WaitResponseReceiveLDelays ==
  ASSUME NEW w \in WorldType, ~w.ua.stopped, w.ua.state = "WaitResponse",
         NEW c \in {"busy", "auth", "reject"},
         NEW r \in WaitResponseReceiveL(w, c)
  PROVE  Delays(w, c, r)
<1>1. IsError(c) /\ c \in Responses
  BY DEF IsError, Responses
<1>2. CASE w.ua.final
  <2>1. r \in Leave(w, "other")
    BY <1>2 DEF WaitResponseReceiveL, Assert
  <2>2. QED
    BY <2>1, UnmovedSelf DEF Leave, Delays
<1>3. CASE ~w.ua.final
  <2>1. PICK p \in PassResponseToSIPSecL(w, c) :
          \/ p.left # "no" /\ r \in Later([p.w EXCEPT !.ua.secerr = TRUE], c)
          \/ p.left = "no" /\ p.yes /\ r \in KeepResp(p.w, c)
          \/ p.left = "no" /\ ~p.yes /\ r \in Later(p.w, c)
    BY <1>1, <1>3 DEF WaitResponseReceiveL, Assert, Later, KeepResp
  <2>2. CASE p.left = "no" /\ ~p.yes /\ p.w = w
    <3>1. r \in Later(w, c)
      BY <2>1, <2>2
    <3>2. QED
      BY <1>1, <3>1, LaterIs, UnmovedSelf DEF Delays
  <2>3. CASE p.left = "other" /\ p.w = w
    <3> DEFINE v == [w EXCEPT !.ua.secerr = TRUE]
    <3>1. r \in Later(v, c)
      BY <2>1, <2>3
    <3>2. Unmoved(w, v)
      BY SecErrIs
    <3> HIDE DEF v
    <3>3. v \in WorldType
      BY <3>2 DEF Unmoved, Same
    <3>4. CASE r.left \in {"nomem", "other"} /\ r.w = v
      BY <3>2, <3>4 DEF Delays
    <3>5. CASE Done(r) /\ Waits(v, c, r.w)
      <4>1. Waits(w, c, r.w)
        BY <3>2, <3>5 DEF Waits, Unmoved, Same
      <4>2. QED
        BY <3>5, <4>1 DEF Delays
    <3>6. QED
      BY <1>1, <3>1, <3>3, <3>4, <3>5, LaterIs
  <2>4. CASE /\ p.left = "no" /\ p.yes /\ c = "auth" /\ Secure
             /\ p.w = [w EXCEPT !.ua.secwait = TRUE]
    <3>1. r \in KeepResp(p.w, c)
      BY <2>1, <2>4
    <3>2. /\ Same(w, p.w) /\ p.w.ua.state = w.ua.state
          /\ p.w.ua.stored = w.ua.stored /\ p.w.ua.secwait
          /\ p.w.ut["S"] = w.ut["S"]
      BY <2>4, SecWaitIs
    <3>3. p.w \in WorldType
      BY <3>2 DEF Same
    <3>4. /\ Done(r) /\ Same(p.w, r.w) /\ r.w.ua.state = "WaitAuth"
          /\ r.w.ua.stored
               = IF p.w.ua.stored = "none" THEN c ELSE p.w.ua.stored
          /\ r.w.ua.secwait = p.w.ua.secwait /\ r.w.ut["S"] = p.w.ut["S"]
      BY <1>1, <3>1, <3>3, KeepRespIs
    <3>5. Same(w, r.w)
      BY <3>2, <3>4 DEF Same
    <3>6. r.w.ua.secwait
      BY <3>2, <3>4
    <3>7. Waits(w, c, r.w)
      BY <2>4, <3>2, <3>4, <3>5, <3>6 DEF Waits
    <3>8. QED
      BY <3>4, <3>7 DEF Delays
  <2>5. QED
    BY <2>1, <2>2, <2>3, <2>4, PassResponseToSIPSecIs
<1>4. QED
  BY <1>2, <1>3

LEMMA UaReceiveLDelays ==
  ASSUME NEW w \in WorldType, NEW c \in {"busy", "auth", "reject"},
         NEW r \in UaReceiveL(w, c)
  PROVE  Delays(w, c, r)
<1>1. CASE w.ua.stopped
  <2>1. r \in Yes(w)
    BY <1>1 DEF UaReceiveL
  <2>2. QED
    BY <2>1 DEF Yes, Done, Delays
<1>2. CASE ~w.ua.stopped /\ w.ua.state = "WaitResponse"
  <2>1. r \in WaitResponseReceiveL(w, c)
    BY <1>2 DEF UaReceiveL, AckStates
  <2>2. QED
    BY <1>2, <2>1, WaitResponseReceiveLDelays
<1>3. CASE ~w.ua.stopped /\ w.ua.state \in AckStates
  <2>1. r \in HandleAdditional2xxL(w, c)
    BY <1>3 DEF UaReceiveL, AckStates
  <2>2. r \in Yes(w)
    BY <2>1 DEF HandleAdditional2xxL
  <2>3. QED
    BY <2>2 DEF Yes, Done, Delays
<1>4. CASE ~w.ua.stopped /\ w.ua.state \notin {"WaitResponse"} \cup AckStates
  <2>1. r \in Leave(w, "other")
    BY <1>4 DEF UaReceiveL
  <2>2. QED
    BY <2>1, UnmovedSelf DEF Leave, Delays
<1>5. QED
  BY <1>1, <1>2, <1>3, <1>4

(* The user agent has kept a response, or nothing has come of it.          *)
Delaying(w, c) ==
  /\ Body(w) /\ Steady(w)
  /\ ~w.ua.stopped /\ w.ua.state = "WaitResponse" =>
       /\ w.ua.cur # 0 => Answered(w.ta[w.ua.cur])
       /\ c = "auth" /\ Secure => w.ua.n + w.ua.addrs < MaxTa

LEMMA SameIsUaOnly ==
  ASSUME NEW w, Body(w), NEW z, Same(w, z)
  PROVE  UaOnly(w, z)
<1> DEFINE n == w.ua.n
<1>1. n \in Nat
  BY DEF Body, WorldType, UaType
<1> HIDE DEF n
<1>2. n >= n
  BY <1>1
<1>3. z.ua.n >= w.ua.n
  BY <1>2 DEF Same, n
<1>4. QED
  BY <1>3 DEF Same, UaOnly

LEMMA UnmovedGood ==
  ASSUME NEW w, Body(w), NEW z, Unmoved(w, z)
  PROVE  Body(z) /\ (Steady(w) => Steady(z))
<1>1. Same(w, z) /\ UaOnly(w, z)
  BY SameIsUaOnly DEF Unmoved
<1>2. /\ z.ua.state = w.ua.state /\ z.ua.stored = w.ua.stored
      /\ z.ua.secwait = w.ua.secwait /\ z.ut["S"] = w.ut["S"]
      /\ z.ua.stopped = w.ua.stopped /\ z.ua.owner = w.ua.owner
      /\ z.ua.msg = w.ua.msg
      /\ z.ua.cur = w.ua.cur /\ z.ua.held = w.ua.held /\ z.ua.n = w.ua.n
      /\ z.ua.addrs = w.ua.addrs /\ (w.ua.secerr => z.ua.secerr)
      /\ z.ut["W"] = w.ut["W"] /\ z.ta = w.ta /\ z.st = w.st
      /\ z.hist = w.hist
  BY DEF Unmoved, Same
<1>3. UaMay(w, z)
  <2>1. /\ Kept(z.ua, z.ut) /\ Heard(z.ua, z.hist) /\ Acks(z.ua, w.tx)
        /\ Budget(z.ua)
    BY <1>2 DEF Body, Kept, Heard, Acks, Budget
  <2>2. Limit(z.ua, w.ta, w.del)
    BY <1>2 DEF Body, Limit
  <2>3. z.hist.late => z.ua.secerr
    BY <1>2 DEF Body, Ends
  <2>4. /\ z.ua.secwait /\ w.ua.stopped =>
             w.ua.cur = 0 \/ w.ta[w.ua.cur].over
        /\ z.ua.state = "WaitEnd" /\ w.ua.cur # 0 =>
             Answered(w.ta[w.ua.cur])
    BY <1>2 DEF Body, Current, Answered
  <2>5. QED
    BY <2>1, <2>2, <2>3, <2>4 DEF UaMay
<1>4. Body(z)
  BY <1>1, <1>3, UaStepGood
<1>5. Steady(w) => Steady(z)
  BY <1>2 DEF Steady, Fresh, Awaits
<1>6. QED
  BY <1>4, <1>5

LEMMA WaitsGood ==
  ASSUME NEW w, NEW c \in {"busy", "auth", "reject"}, Delaying(w, c),
         ~w.ua.stopped, w.ua.state = "WaitResponse",
         NEW z, Waits(w, c, z)
  PROVE  Body(z) /\ Steady(z)
<1>1. Same(w, z) /\ UaOnly(w, z) /\ Body(w) /\ Steady(w)
  BY SameIsUaOnly DEF Waits, Delaying
<1>2. w.ua.stored = "none" /\ ~w.ua.secwait /\ w.ut["S"] # "on"
      /\ w.ut["W"] = "off"
  BY <1>1 DEF Body, Kept, AckStates
<1>3. /\ z.ua.state = "WaitAuth" /\ z.ua.stored = c
      /\ \/ z.ua.secwait /\ c = "auth" /\ Secure /\ z.ut["S"] # "on"
         \/ ~z.ua.secwait /\ z.ut["S"] = "on"
      /\ z.ut["W"] = "off"
  BY <1>2 DEF Waits, Same
<1>4. /\ z.ua.stopped = w.ua.stopped /\ z.ua.owner = w.ua.owner
      /\ z.ua.msg = w.ua.msg
      /\ z.ua.cur = w.ua.cur /\ z.ua.held = w.ua.held /\ z.ua.n = w.ua.n
      /\ z.ua.addrs = w.ua.addrs /\ (w.ua.secerr => z.ua.secerr)
      /\ z.ta = w.ta /\ z.st = w.st /\ z.hist = w.hist
  BY <1>1 DEF Same
<1>5. UaMay(w, z)
  <2>1. Kept(z.ua, z.ut)
    BY <1>3 DEF Kept, IsError
  <2>2. Heard(z.ua, z.hist)
    <3>1. "ok" \notin w.hist.heard /\ "error" \notin w.hist.heard
      BY <1>1 DEF Body, Heard, AckStates
    <3>2. QED
      BY <1>4, <3>1 DEF Heard
  <2>3. Acks(z.ua, w.tx)
    <3>1. /\ w.ua.msg # "ack" /\ w.ua.held = 0 /\ w.tx[Ua] # "ua"
      BY <1>1 DEF Body, Acks, AckStates
    <3>2. QED
      BY <1>3, <1>4, <3>1 DEF Acks, AckStates
  <2>4. Budget(z.ua)
    BY <1>1, <1>3, <1>4 DEF Body, Budget, Delaying
  <2>5. Limit(z.ua, w.ta, w.del)
    <3> DEFINE n == w.ua.n
    <3>1. n \in Nat /\ n <= MaxTa /\ MaxTa \in Nat /\ z.ua.n = n
      BY <1>1, <1>4, InviteClientAssumption
      DEF Steady, Body, WorldType, UaType
    <3> HIDE DEF n
    <3>2. n <= MaxTa + 1 /\ n # MaxTa + 1
      BY <3>1
    <3>3. QED
      BY <3>1, <3>2 DEF Limit
  <2>6. z.hist.late => z.ua.secerr
    BY <1>1, <1>4 DEF Body, Ends
  <2>7. QED
    BY <1>3, <2>1, <2>2, <2>3, <2>4, <2>5, <2>6 DEF UaMay
<1>6. Body(z)
  BY <1>1, <1>5, UaStepGood
<1>7. Steady(z)
  <2>1. Awaits(z.ta, z.ua)
    BY <1>4 DEF Awaits, Delaying, Answered
  <2>2. QED
    BY <1>1, <1>3, <1>4, <2>1 DEF Steady, Fresh
<1>8. QED
  BY <1>6, <1>7

-----------------------------------------------------------------------------
(* A transaction handles an event.                                         *)

(* What a handler may change of its transaction, timers and transmitter.   *)
Changes(w, i, t, m, k, x) ==
  /\ t \in TaType /\ m \in [TaTimers -> TimerType] /\ k \in {Ua, i}
  /\ w.ta[i].state # "none" /\ t.state # "none"
  /\ t.att = w.ta[i].att /\ t.indep = w.ta[i].indep /\ t.over = w.ta[i].over
  /\ ~t.over /\ ~t.att => t.state = "Completed"
  /\ t.state = "Completed" /\ ~t.over => t.msg = "ack"
  /\ Answered(w.ta[i]) => Answered(t)
  /\ x # w.tx[k] =>
       /\ x \in {"idle", "ta"} /\ (k = Ua => i = w.ua.cur)
       /\ x = "ta" =>
            ~t.over /\ i \notin w.del.gone /\ (k = i => t.indep)

LEMMA ChangesGood ==
  ASSUME NEW w, NEW i \in Ta, Nearly(w, i), NEW t, NEW m, NEW k, NEW x,
         Changes(w, i, t, m, k, x), NEW z, z = With(w, i, t, m, k, x)
  PROVE  Nearly(z, i) /\ IsWith(w, i, t, m, k, x, z)
<1>1. /\ w \in WorldType /\ w.tx \in [Obj -> {"idle", "ta", "ua"}]
      /\ w.ua.cur \in Ta \cup {0} /\ i # Ua /\ i \in Obj /\ Ua \in Obj
      /\ Ua = 0 /\ Body(w) /\ \A j \in Ta : j # Ua /\ j \in Obj
  BY Ids DEF Nearly, Body, WorldType, UaType
<1>2. /\ t \in TaType /\ m \in [TaTimers -> TimerType] /\ k \in {Ua, i}
      /\ w.ta[i].state # "none" /\ t.state # "none"
      /\ t.att = w.ta[i].att /\ t.indep = w.ta[i].indep
      /\ t.over = w.ta[i].over
      /\ ~t.over /\ ~t.att => t.state = "Completed"
      /\ t.state = "Completed" /\ ~t.over => t.msg = "ack"
      /\ Answered(w.ta[i]) => Answered(t)
      /\ x # w.tx[k] =>
           /\ x \in {"idle", "ta"} /\ (k = Ua => i = w.ua.cur)
           /\ x = "ta" =>
                ~t.over /\ i \notin w.del.gone /\ (k = i => t.indep)
  BY DEF Changes
<1>3. x \in {"idle", "ta", "ua"}
  BY <1>1, <1>2
<1>4. IsWith(w, i, t, m, k, x, z)
  BY <1>1, <1>2, <1>3, WithIs
<1>5. /\ z \in WorldType /\ z.ua = w.ua /\ z.ut = w.ut /\ z.st = w.st
      /\ z.del = w.del /\ z.hist = w.hist
      /\ z.ta[i] = t /\ z.tm[i] = m /\ z.tx[k] = x
      /\ \A j \in Ta : j # i => z.ta[j] = w.ta[j] /\ z.tm[j] = w.tm[j]
      /\ \A j \in Obj : j # k => z.tx[j] = w.tx[j]
  BY <1>4 DEF IsWith
<1>6. TaOnly(w, z, i)
  BY <1>1, <1>2, <1>5 DEF TaOnly
<1>7. \A j \in Ta : z.ta[j].over = w.ta[j].over
  BY <1>2, <1>5
<1>8. TaMay(w, z, i)
  <2>1. Sending(w.ta, w.tx, w.ua, w.del)
    BY <1>1 DEF Body
  <2>2. z.tx[Ua] = "ua" => w.tx[Ua] = "ua"
    BY <1>1, <1>2, <1>5
  <2>3. z.tx[Ua] = "ta" => w.ua.cur # 0 /\ ~z.ta[w.ua.cur].over
    <3>1. CASE z.tx[Ua] = w.tx[Ua]
      BY <1>1, <1>7, <2>1, <3>1 DEF Sending
    <3>2. CASE z.tx[Ua] # w.tx[Ua]
      BY <1>1, <1>2, <1>5, <3>2
    <3>3. QED
      BY <3>1, <3>2
  <2>4. z.tx[i] # "idle" => /\ z.tx[i] = "ta" /\ z.ta[i].indep
                            /\ ~z.ta[i].over /\ i \notin w.del.gone
    <3>1. CASE z.tx[i] = w.tx[i]
      BY <1>2, <1>5, <1>7, <2>1, <3>1 DEF Sending
    <3>2. CASE z.tx[i] # w.tx[i]
      BY <1>1, <1>2, <1>5, <3>2
    <3>3. QED
      BY <3>1, <3>2
  <2>5. QED
    BY <1>2, <1>5, <2>2, <2>3, <2>4 DEF TaMay
<1>9. /\ Body(z) /\ Steady(z)
      /\ \A j \in Ta : j # i => Timed(z.ta, z.tm, z.tx, z.del, j)
  BY <1>6, <1>8, TaStepGood DEF Nearly
<1>10. ~z.ua.stopped /\ z.ua.cur # i =>
         CurrentEnds(z.ta, z.tm, z.tx, z.ua, z.del, z.hist)
  <2>1. SUFFICES ASSUME ~z.ua.stopped, z.ua.cur # i, z.ua.cur # 0
                 PROVE  CurrentEnds(z.ta, z.tm, z.tx, z.ua, z.del, z.hist)
    BY DEF CurrentEnds
  <2>2. z.ua.cur \in Ta
    BY <1>1, <1>5, <2>1
  <2>3. z.tx[Ua] = w.tx[Ua]
    BY <1>1, <1>2, <1>5, <2>1
  <2>4. QED
    BY <1>5, <2>1, <2>2, <2>3 DEF Nearly, CurrentEnds, Runs, Here
<1>11. QED
  BY <1>4, <1>9, <1>10 DEF Nearly

(* Nothing is missing of the transaction's own either.                     *)
Whole(w, i) ==
  /\ Timed(w.ta, w.tm, w.tx, w.del, i)
  /\ ~w.ua.stopped /\ w.ua.cur = i =>
       CurrentEnds(w.ta, w.tm, w.tx, w.ua, w.del, w.hist)

LEMMA NearlyWhole ==
  ASSUME NEW w, NEW i \in Ta
  PROVE  Inv(w) <=> Nearly(w, i) /\ Whole(w, i)
<1>1. ASSUME Inv(w)
      PROVE  Nearly(w, i) /\ Whole(w, i)
  BY <1>1 DEF Inv, Core, Rest, LetGo, Nearly, Whole
<1>2. ASSUME Nearly(w, i), Whole(w, i)
      PROVE  Inv(w)
  <2>1. LetGo(w.ta, w.tm, w.tx, w.del)
    BY <1>2 DEF LetGo, Nearly, Whole
  <2>2. ~w.ua.stopped =>
          CurrentEnds(w.ta, w.tm, w.tx, w.ua, w.del, w.hist)
    BY <1>2 DEF Nearly, Whole
  <2>3. QED
    BY <1>2, <2>1, <2>2 DEF Inv, Core, Rest, Nearly
<1>3. QED
  BY <1>1, <1>2

LEMMA SendToTransmitterGood ==
  ASSUME NEW w, NEW i \in Ta, Nearly(w, i), Runs(w.ta, w.del, i),
         NEW r \in SendToTransmitterL(w, i)
  PROVE  /\ r.left \in {"no", "nomem", "other"} /\ (r.left = "no" => r.yes)
         /\ r.left # "no" => r.w = w
         /\ Nearly(r.w, i) /\ (Whole(w, i) => Whole(r.w, i))
         /\ r.w.ta = w.ta /\ r.w.ua = w.ua /\ r.w.del = w.del
         /\ r.left = "no" => /\ r.w.tx[TxOf(w, i)] = "ta"
                             /\ r.w.tm[i] = w.tm[i]
<1> DEFINE k == TxOf(w, i)
           t == w.ta[i]
           m == w.tm[i]
           z == [w EXCEPT !.tx[k] = "ta"]
<1>1. /\ w \in WorldType /\ w.ta \in [Ta -> TaType]
      /\ w.tm \in [Ta -> [TaTimers -> TimerType]]
      /\ t \in TaType /\ m \in [TaTimers -> TimerType]
      /\ Body(w)
  BY DEF Nearly, Body, WorldType
<1>2. r \in Leave(w, "other") \/ r \in Yes(z) \/ r \in MayLeave("send", w)
  BY DEF SendToTransmitterL, Assert
<1>3. z = With(w, i, t, m, k, "ta")
  <2> DEFINE ta1 == [w.ta EXCEPT ![i] = t]
             tm1 == [w.tm EXCEPT ![i] = m]
             tx1 == [w.tx EXCEPT ![k] = "ta"]
  <2>1. ta1 = w.ta /\ tm1 = w.tm
    BY <1>1
  <2>2. /\ With(w, i, t, m, k, "ta")
             = [w EXCEPT !.ta = ta1, !.tm = tm1, !.tx = tx1]
        /\ z = [w EXCEPT !.tx = tx1]
    BY DEF With
  <2> HIDE DEF ta1, tm1, tx1, z, t, m, k
  <2>3. [w EXCEPT !.ta = w.ta, !.tm = w.tm, !.tx = tx1]
          = [w EXCEPT !.tx = tx1]
    BY <1>1 DEF WorldType
  <2>4. QED
    BY <2>1, <2>2, <2>3
<1>4. /\ t.att => i = w.ua.cur /\ ~t.indep
      /\ ~t.att => t.indep /\ t.state = "Completed"
      /\ t.state # "none" /\ ~t.over /\ i \notin w.del.gone
      /\ t.state = "Completed" => t.msg = "ack"
  BY <1>1, CurrentOrLetGo DEF Runs, Here, Body, Acked
<1>5. /\ k = IF t.indep THEN i ELSE Ua
      /\ i # Ua
  BY Ids DEF TxOf
<1>6. Changes(w, i, t, m, k, "ta")
  BY <1>1, <1>4, <1>5 DEF Changes
<1> HIDE DEF z, k, t, m
<1>7. Nearly(z, i) /\ IsWith(w, i, t, m, k, "ta", z)
  BY <1>3, <1>6, ChangesGood
<1>8. /\ z \in WorldType /\ z.ua = w.ua /\ z.del = w.del
      /\ z.hist = w.hist
      /\ z.ta[i] = t /\ z.tm[i] = m /\ z.tx[k] = "ta"
      /\ \A j \in Ta : j # i => z.ta[j] = w.ta[j] /\ z.tm[j] = w.tm[j]
      /\ \A j \in Obj : j # k => z.tx[j] = w.tx[j]
  BY <1>7 DEF IsWith
<1>9. z.ta = w.ta
  <2> DEFINE f == z.ta
             g == w.ta
  <2>1. f \in [Ta -> TaType] /\ g \in [Ta -> TaType]
    BY <1>1, <1>8 DEF WorldType
  <2>2. \A j \in Ta : f[j] = g[j]
    BY <1>8 DEF t
  <2> HIDE DEF f, g
  <2>3. f = g
    BY <2>1, <2>2
  <2>4. QED
    BY <2>3 DEF f, g
<1>10. Whole(w, i) => Whole(z, i)
  <2>1. Timed(w.ta, w.tm, w.tx, w.del, i) => Timed(z.ta, z.tm, z.tx, z.del, i)
    BY <1>5, <1>8, <1>9 DEF Timed, t, m
  <2>2. CurrentEnds(w.ta, w.tm, w.tx, w.ua, w.del, w.hist) /\ w.ua.cur = i
          => CurrentEnds(z.ta, z.tm, z.tx, z.ua, z.del, z.hist)
    <3>1. w.ua.cur = i => k = Ua
      BY <1>4, <1>5, <1>1, CurrentOrLetGo DEF t
    <3>2. QED
      BY <1>8, <1>9, <3>1 DEF CurrentEnds, m
  <2>3. QED
    BY <1>8, <2>1, <2>2 DEF Whole
<1>11. CASE r \in Yes(z)
  BY <1>7, <1>8, <1>9, <1>10, <1>11 DEF Yes, k, m
<1>12. CASE r \notin Yes(z)
  BY <1>2, <1>12 DEF Leave, MayLeave
<1>13. QED
  BY <1>11, <1>12

(* The timers of a transaction change.                                     *)
Ticks(w, i, m, z) ==
  /\ z \in WorldType /\ z.ta = w.ta /\ z.tx = w.tx /\ z.ua = w.ua
  /\ z.ut = w.ut /\ z.st = w.st /\ z.del = w.del /\ z.hist = w.hist
  /\ z.tm = [w.tm EXCEPT ![i] = m] /\ z.tm[i] = m
  /\ \A j \in Ta : j # i => z.tm[j] = w.tm[j]

LEMMA TicksIs ==
  ASSUME NEW w \in WorldType, NEW i \in Ta,
         NEW m \in [TaTimers -> TimerType]
  PROVE  Ticks(w, i, m, [w EXCEPT !.tm[i] = m])
<1> DEFINE m1 == [w.tm EXCEPT ![i] = m]
           z == [w EXCEPT !.tm[i] = m]
<1>1. /\ m1 \in [Ta -> [TaTimers -> TimerType]] /\ m1[i] = m
      /\ \A j \in Ta : j # i => m1[j] = w.tm[j]
  BY DEF WorldType
<1>2. z = [w EXCEPT !.tm = m1]
  OBVIOUS
<1>x. m1 = [w.tm EXCEPT ![i] = m]
  OBVIOUS
<1> HIDE DEF z, m1
<1>3. /\ z \in WorldType /\ z.ta = w.ta /\ z.tx = w.tx /\ z.ua = w.ua
      /\ z.ut = w.ut /\ z.st = w.st /\ z.del = w.del /\ z.hist = w.hist
      /\ z.tm = m1
  BY <1>1, <1>2 DEF WorldType
<1>4. Ticks(w, i, m, z)
  BY <1>1, <1>3, <1>x DEF Ticks
<1>5. QED
  BY <1>4 DEF z

LEMMA TicksGood ==
  ASSUME NEW w, NEW i \in Ta, Nearly(w, i), w.ta[i].state # "none",
         w.ta[i].over \/ i \notin w.del.gone,
         NEW m \in [TaTimers -> TimerType], NEW z, Ticks(w, i, m, z)
  PROVE  Nearly(z, i)
<1> DEFINE t == w.ta[i]
           x == w.tx[Ua]
<1>1. /\ w \in WorldType /\ w.ta \in [Ta -> TaType]
      /\ w.tx \in [Obj -> {"idle", "ta", "ua"}]
      /\ t \in TaType /\ Body(w)
  BY DEF Nearly, Body, WorldType
<1>2. /\ z \in WorldType /\ z.ta = w.ta /\ z.tx = w.tx /\ z.ua = w.ua
      /\ z.ut = w.ut /\ z.st = w.st /\ z.del = w.del /\ z.hist = w.hist
      /\ z.tm = [w.tm EXCEPT ![i] = m]
  BY DEF Ticks
<1>3. /\ t.state # "none"
      /\ ~t.over /\ ~t.att => t.state = "Completed"
      /\ t.state = "Completed" /\ ~t.over => t.msg = "ack"
  BY <1>1 DEF Here, Runs, Body, Acked, Attached
<1>4. Changes(w, i, t, m, Ua, x)
  BY <1>1, <1>3 DEF Changes
<1>5. z = With(w, i, t, m, Ua, x)
  <2> DEFINE ta1 == [w.ta EXCEPT ![i] = t]
             tm1 == [w.tm EXCEPT ![i] = m]
             tx1 == [w.tx EXCEPT ![Ua] = x]
  <2>1. ta1 = w.ta /\ tx1 = w.tx
    BY <1>1
  <2>2. /\ With(w, i, t, m, Ua, x)
             = [w EXCEPT !.ta = ta1, !.tm = tm1, !.tx = tx1]
        /\ z.tm = tm1
    BY <1>2 DEF With
  <2> HIDE DEF ta1, tm1, tx1, t, x
  <2>3. [w EXCEPT !.ta = w.ta, !.tm = tm1, !.tx = w.tx]
          = [w EXCEPT !.tm = tm1]
    BY <1>1 DEF WorldType
  <2>4. z = [w EXCEPT !.tm = tm1]
    BY <1>1, <1>2, <2>2 DEF WorldType
  <2>5. QED
    BY <2>1, <2>2, <2>3, <2>4
<1>6. QED
  BY <1>4, <1>5, ChangesGood

Starts(w, i, k) == [w.tm[i] EXCEPT ![k] = "on"]
Stops(w, i, T) == [k \in TaTimers |-> IF k \in T THEN "off" ELSE w.tm[i][k]]

LEMMA StartIs ==
  ASSUME NEW w \in WorldType, NEW i \in Ta, NEW k \in TaTimers,
         NEW r \in Start(w, i, k)
  PROVE  /\ Starts(w, i, k) \in [TaTimers -> TimerType]
         /\ \/ r.left = "nomem" /\ r.w = w
            \/ Done(r) /\ Ticks(w, i, Starts(w, i, k), r.w)
<1> DEFINE m == Starts(w, i, k)
           z == [w EXCEPT !.tm[i][k] = "on"]
<1>1. w.tm[i] \in [TaTimers -> TimerType]
  BY DEF WorldType
<1>2. m \in [TaTimers -> TimerType]
  BY <1>1 DEF Starts, TimerType
<1>3. r \in Yes(z) \/ r \in MayLeave("timer", w)
  BY DEF Start
<1>4. z = [w EXCEPT !.tm[i] = m]
  BY DEF Starts, WorldType
<1>5. Ticks(w, i, m, z)
  BY <1>2, <1>4, TicksIs
<1> HIDE DEF z, m
<1>6. CASE r \in Yes(z)
  BY <1>2, <1>5, <1>6 DEF Yes, Done, m
<1>7. CASE r \notin Yes(z)
  BY <1>2, <1>3, <1>7 DEF Leave, MayLeave, m
<1>8. QED
  BY <1>6, <1>7

LEMMA StopTimersIs ==
  ASSUME NEW w \in WorldType, NEW i \in Ta, NEW T
  PROVE  /\ Stops(w, i, T) \in [TaTimers -> TimerType]
         /\ Ticks(w, i, Stops(w, i, T), StopTimers(w, i, T))
<1>1. w.tm[i] \in [TaTimers -> TimerType]
      /\ w.tm \in [Ta -> [TaTimers -> TimerType]]
  BY DEF WorldType
<1>2. Stops(w, i, T) \in [TaTimers -> TimerType]
  BY <1>1 DEF Stops, TimerType
<1>3. StopTimers(w, i, T) = [w EXCEPT !.tm[i] = Stops(w, i, T)]
  BY <1>1 DEF StopTimers, Stops, WorldType
<1>4. QED
  BY <1>2, <1>3, TicksIs

(* The transaction's state and timers change, and nothing else.            *)
Turns(w, i, c, m, z) ==
  /\ z \in WorldType /\ z.tx = w.tx /\ z.ua = w.ua
  /\ z.ut = w.ut /\ z.st = w.st /\ z.del = w.del /\ z.hist = w.hist
  /\ z.ta[i] = [w.ta[i] EXCEPT !.state = c] /\ z.tm[i] = m
  /\ \A j \in Ta : j # i => z.ta[j] = w.ta[j] /\ z.tm[j] = w.tm[j]

LEMMA TurnsIs ==
  ASSUME NEW w \in WorldType, NEW i \in Ta, w.ta[i].state # "none",
         NEW c \in {"Calling", "Proceeding", "Completed"}
  PROVE  Turns(w, i, c, w.tm[i], [w EXCEPT !.ta[i].state = c])
<1> DEFINE t1 == [w.ta[i] EXCEPT !.state = c]
           ta1 == [w.ta EXCEPT ![i] = t1]
           z == [w EXCEPT !.ta[i].state = c]
<1>1. /\ w.ta \in [Ta -> TaType] /\ w.ta[i] \in TaType /\ t1 \in TaType
  BY TaWith DEF WorldType
<1>2. t1 = [w.ta[i] EXCEPT !.state = c]
  OBVIOUS
<1>3. z = [w EXCEPT !.ta = ta1]
  BY <1>1 DEF WorldType
<1> HIDE DEF t1, z
<1>4. /\ ta1 \in [Ta -> TaType] /\ ta1[i] = t1
      /\ \A j \in Ta : j # i => ta1[j] = w.ta[j]
  BY <1>1
<1> HIDE DEF ta1
<1>5. /\ z \in WorldType /\ z.ta = ta1 /\ z.tx = w.tx /\ z.ua = w.ua
      /\ z.ut = w.ut /\ z.st = w.st /\ z.del = w.del /\ z.hist = w.hist
      /\ z.tm = w.tm
  BY <1>3, <1>4 DEF WorldType
<1>6. Turns(w, i, c, w.tm[i], z)
  BY <1>2, <1>4, <1>5 DEF Turns
<1>7. QED
  BY <1>6 DEF z

LEMMA TicksTurn ==
  ASSUME NEW w \in WorldType, NEW i \in Ta, NEW m, NEW z, Ticks(w, i, m, z)
  PROVE  Turns(w, i, w.ta[i].state, m, z)
<1>1. w.ta[i] \in TaType
  BY DEF WorldType
<1>2. [w.ta[i] EXCEPT !.state = w.ta[i].state] = w.ta[i]
  BY <1>1 DEF TaType
<1>3. QED
  BY <1>2 DEF Turns, Ticks

LEMMA TurnsTrans ==
  ASSUME NEW w \in WorldType, NEW i \in Ta, NEW c, NEW m, NEW v,
         Turns(w, i, c, m, v), NEW d, NEW k, NEW z, Turns(v, i, d, k, z)
  PROVE  Turns(w, i, d, k, z)
<1> DEFINE t == w.ta[i]
<1>1. t \in TaType
  BY DEF WorldType
<1>2. v.ta[i] = [t EXCEPT !.state = c]
      /\ z.ta[i] = [v.ta[i] EXCEPT !.state = d]
  BY DEF Turns
<1>3. z.ta[i] = [t EXCEPT !.state = d]
  <2> HIDE DEF t
  <2>1. [[t EXCEPT !.state = c] EXCEPT !.state = d] = [t EXCEPT !.state = d]
    BY <1>1 DEF TaType
  <2>2. QED
    BY <1>2, <2>1
<1>4. QED
  BY <1>3 DEF Turns

LEMMA TurnsBack ==
  ASSUME NEW w \in WorldType, NEW i \in Ta, NEW z,
         Turns(w, i, w.ta[i].state, w.tm[i], z)
  PROVE  z = w
<1> DEFINE f == z.ta
           g == w.ta
           h == z.tm
           k == w.tm
<1>1. /\ f \in [Ta -> TaType] /\ g \in [Ta -> TaType]
      /\ h \in [Ta -> [TaTimers -> TimerType]]
      /\ k \in [Ta -> [TaTimers -> TimerType]] /\ w.ta[i] \in TaType
  BY DEF WorldType, Turns
<1>2. [w.ta[i] EXCEPT !.state = w.ta[i].state] = w.ta[i]
  BY <1>1 DEF TaType
<1>3. /\ \A j \in Ta : f[j] = g[j]
      /\ \A j \in Ta : h[j] = k[j]
  BY <1>2 DEF Turns
<1> HIDE DEF f, g, h, k
<1>4. f = g
  BY <1>1, <1>3
<1>5. h = k
  BY <1>1, <1>3
<1>6. QED
  BY <1>4, <1>5 DEF f, g, h, k, WorldType, Turns

LEMMA TurnsGood ==
  ASSUME NEW w, NEW i \in Ta, Nearly(w, i), Runs(w.ta, w.del, i),
         w.ta[i].state \in {"Calling", "Proceeding"},
         NEW c \in {"Calling", "Proceeding"},
         NEW m \in [TaTimers -> TimerType], NEW z, Turns(w, i, c, m, z)
  PROVE  /\ Nearly(z, i) /\ Runs(z.ta, z.del, i) /\ w.ta[i].att
         /\ z.ta[i].state = c /\ z.ta[i].att /\ z.ta[i].msg = w.ta[i].msg
         /\ z.ta[i].udp = w.ta[i].udp
         /\ z.ua.cur = i /\ ~z.ta[i].indep /\ i \notin Dying(z.del)
<1> DEFINE t == [w.ta[i] EXCEPT !.state = c]
           x == w.tx[Ua]
           y == With(w, i, t, m, Ua, x)
<1>1. /\ w \in WorldType /\ w.ta \in [Ta -> TaType] /\ w.ta[i] \in TaType
      /\ w.tx \in [Obj -> {"idle", "ta", "ua"}] /\ Body(w)
  BY DEF Nearly, Body, WorldType
<1>2. /\ w.ta[i].att /\ i = w.ua.cur /\ ~w.ta[i].indep
      /\ i \notin Dying(w.del)
  BY <1>1, CurrentOrLetGo
<1>3. /\ t \in TaType /\ t.state = c /\ t.msg = w.ta[i].msg
      /\ t.over = w.ta[i].over /\ t.att = w.ta[i].att
      /\ t.indep = w.ta[i].indep /\ t.udp = w.ta[i].udp
  <2> DEFINE a == w.ta[i]
  <2>1. a \in TaType
    BY <1>1
  <2>2. t = [a EXCEPT !.state = c]
    OBVIOUS
  <2> HIDE DEF a, t
  <2>3. /\ t \in TaType /\ t.state = c /\ t.msg = a.msg
        /\ t.over = a.over /\ t.att = a.att
        /\ t.indep = a.indep /\ t.udp = a.udp
    BY <2>1, <2>2 DEF TaType
  <2>4. QED
    BY <2>3 DEF a
<1>x. t = [w.ta[i] EXCEPT !.state = c]
  OBVIOUS
<1> HIDE DEF t
<1>4. Changes(w, i, t, m, Ua, x)
  BY <1>1, <1>2, <1>3 DEF Changes, Answered, Runs
<1>5. Nearly(y, i) /\ IsWith(w, i, t, m, Ua, x, y)
  BY <1>4, ChangesGood
<1> HIDE DEF y
<1>6. z = y
  <2>1. /\ y \in WorldType /\ z \in WorldType /\ y.ua = z.ua /\ y.ut = z.ut
        /\ y.st = z.st /\ y.del = z.del /\ y.hist = z.hist
    BY <1>5 DEF IsWith, Turns
  <2> DEFINE f == z.ta
             g == y.ta
             h == z.tm
             k == y.tm
             p == z.tx
             q == y.tx
  <2>2. /\ f \in [Ta -> TaType] /\ g \in [Ta -> TaType]
        /\ h \in [Ta -> [TaTimers -> TimerType]]
        /\ k \in [Ta -> [TaTimers -> TimerType]]
        /\ p \in [Obj -> {"idle", "ta", "ua"}]
        /\ q \in [Obj -> {"idle", "ta", "ua"}]
    BY <2>1 DEF WorldType
  <2>3. /\ \A j \in Ta : f[j] = g[j]
        /\ \A j \in Ta : h[j] = k[j]
        /\ \A j \in Obj : p[j] = q[j]
    BY <1>5, <1>x DEF Turns, IsWith
  <2> HIDE DEF f, g, h, k, p, q
  <2>4. f = g
    BY <2>2, <2>3
  <2>5. h = k
    BY <2>2, <2>3
  <2>6. p = q
    BY <2>2, <2>3
  <2>7. QED
    BY <2>1, <2>4, <2>5, <2>6 DEF WorldType, f, g, h, k, p, q
<1>7. z.ta[i] = t /\ z.del = w.del /\ z.ua = w.ua
  BY <1>x DEF Turns
<1>8. QED
  BY <1>2, <1>3, <1>5, <1>6, <1>7 DEF Runs, Here

LEMMA OverIsMade ==
  ASSUME NEW w, Body(w), NEW i \in Ta, w.ta[i].over
  PROVE  w.ta[i].state # "none"
BY DEF Body, Made, NoTa

LEMMA TicksOver ==
  ASSUME NEW w, Inv(w), NEW i \in Ta, w.ta[i].over,
         NEW m \in [TaTimers -> TimerType], NEW z, Ticks(w, i, m, z)
  PROVE  Inv(z) /\ z.ta = w.ta
<1>1. Nearly(w, i) /\ Body(w)
  BY InvIsNearly DEF Inv, Core
<1>x. w.ta[i].state # "none"
  BY <1>1, OverIsMade
<1>y. z.ta = w.ta
  BY DEF Ticks
<1>2. Nearly(z, i) /\ z.ta = w.ta
  BY <1>1, <1>x, <1>y, TicksGood
<1>3. QED
  BY <1>2, NearlyOver

LEMMA UnmovedInv ==
  ASSUME NEW w, Inv(w), NEW z, Unmoved(w, z)
  PROVE  Inv(z)
<1>1. /\ z.ta = w.ta /\ z.tm = w.tm /\ z.tx = w.tx /\ z.del = w.del
      /\ z.hist = w.hist /\ z.ua.stopped = w.ua.stopped
      /\ z.ua.cur = w.ua.cur
  BY DEF Unmoved, Same
<1>2. Body(z) /\ Steady(z)
  BY UnmovedGood DEF Inv, Core, Rest
<1>3. LetGo(z.ta, z.tm, z.tx, z.del)
  BY <1>1 DEF Inv, Core
<1>4. ~z.ua.stopped =>
        CurrentEnds(z.ta, z.tm, z.tx, z.ua, z.del, z.hist)
  BY <1>1 DEF Inv, Rest, CurrentEnds
<1>5. QED
  BY <1>2, <1>3, <1>4 DEF Inv, Core, Rest

(* An error response: the ACK takes the INVITE's place.                    *)
AckTa(t) == [t EXCEPT !.state = "Completed", !.msg = "ack"]
Acking(w, i) == With(w, i, AckTa(w.ta[i]), w.tm[i], Ua, "idle")

LEMMA AckTaIs ==
  ASSUME NEW t \in TaType
  PROVE  /\ AckTa(t) \in TaType /\ AckTa(t).state = "Completed"
         /\ AckTa(t).msg = "ack" /\ AckTa(t).over = t.over
         /\ AckTa(t).att = t.att /\ AckTa(t).indep = t.indep
         /\ AckTa(t).udp = t.udp
         /\ [[t EXCEPT !.state = "Completed"] EXCEPT !.msg = "ack"] = AckTa(t)
BY DEF AckTa, TaType

LEMMA AckingGood ==
  ASSUME NEW w, NEW i \in Ta, Inv(w), Runs(w.ta, w.del, i),
         w.ta[i].state \in {"Calling", "Proceeding"}
  PROVE  LET z == Acking(w, i) IN
         /\ Nearly(z, i)
         /\ IsWith(w, i, AckTa(w.ta[i]), w.tm[i], Ua, "idle", z)
         /\ Runs(z.ta, z.del, i) /\ z.ua.cur = i
         /\ z.ta[i].att /\ ~z.ta[i].indep /\ z.ta[i].state = "Completed"
         /\ z.tm[i]["B"] # "stale" /\ z.tm[i]["D"] # "stale"
<1> DEFINE z == Acking(w, i)
           t == AckTa(w.ta[i])
<1>1. /\ w \in WorldType /\ w.ta \in [Ta -> TaType] /\ w.ta[i] \in TaType
      /\ w.tm[i] \in [TaTimers -> TimerType] /\ Body(w)
      /\ Timed(w.ta, w.tm, w.tx, w.del, i)
  BY DEF Inv, Core, Body, WorldType, LetGo
<1>2. w.ta[i].att /\ i = w.ua.cur /\ ~w.ta[i].indep
  BY <1>1, CurrentOrLetGo
<1>3. /\ t \in TaType /\ t.state = "Completed" /\ t.msg = "ack"
      /\ t.over = w.ta[i].over /\ t.att = w.ta[i].att
      /\ t.indep = w.ta[i].indep
  BY <1>1, AckTaIs
<1> HIDE DEF t
<1>4. Changes(w, i, t, w.tm[i], Ua, "idle")
  BY <1>1, <1>2, <1>3 DEF Changes, Answered, Runs, Here
<1>5. Nearly(z, i) /\ IsWith(w, i, t, w.tm[i], Ua, "idle", z)
  BY <1>4, InvIsNearly, ChangesGood DEF Acking, t
<1> HIDE DEF z
<1>6. z.ta[i] = t /\ z.del = w.del /\ z.ua = w.ua /\ z.tm[i] = w.tm[i]
  BY <1>5 DEF IsWith
<1>7. QED
  BY <1>1, <1>2, <1>3, <1>5, <1>6 DEF Runs, Here, z, t, Timed

AckGiven(p, i) ==
  [p EXCEPT !.ta[i].msg = "ack", !.tx[TxOf(p, i)] = "idle"]

LEMMA AckGivenIs ==
  ASSUME NEW w \in WorldType, NEW i \in Ta, ~w.ta[i].indep, NEW v,
         Turns(w, i, "Completed", w.tm[i], v), NEW p \in WorldType,
         p.ta = v.ta, p.tm = v.tm, p.tx = v.tx, NEW a, a = Acking(w, i),
         NEW y, y = AckGiven(p, i)
  PROVE  /\ y \in WorldType /\ y.ta = a.ta /\ y.tm = a.tm /\ y.tx = a.tx
         /\ y.ua = p.ua /\ y.ut = p.ut /\ y.st = p.st /\ y.del = p.del
         /\ y.hist = p.hist
<1> DEFINE t == AckTa(w.ta[i])
           s == [p.ta[i] EXCEPT !.msg = "ack"]
           ta1 == [p.ta EXCEPT ![i] = s]
           tx1 == [p.tx EXCEPT ![Ua] = "idle"]
<1>1. /\ w.ta[i] \in TaType /\ w.tm[i] \in [TaTimers -> TimerType]
      /\ p.ta \in [Ta -> TaType] /\ Ua \in Obj
      /\ p.tx \in [Obj -> {"idle", "ta", "ua"}]
  BY Ids DEF WorldType
<1>2. p.ta[i] = [w.ta[i] EXCEPT !.state = "Completed"]
  BY DEF Turns
<1>3. s = t
  BY <1>1, <1>2, AckTaIs
<1>4. /\ t \in TaType /\ t.indep = w.ta[i].indep
      /\ p.ta[i].indep = w.ta[i].indep
  BY <1>1, <1>2, AckTaIs DEF TaType
<1>5. TxOf(p, i) = Ua
  BY <1>4 DEF TxOf
<1>6. y = [p EXCEPT !.ta = ta1, !.tx = tx1]
  BY <1>1, <1>5 DEF AckGiven, WorldType
<1>7. IsWith(w, i, t, w.tm[i], Ua, "idle", a)
  BY <1>1, <1>4, WithIs DEF Acking
<1> HIDE DEF t, s
<1>8. /\ ta1 \in [Ta -> TaType] /\ ta1[i] = t
      /\ \A j \in Ta : j # i => ta1[j] = w.ta[j]
      /\ tx1 \in [Obj -> {"idle", "ta", "ua"}] /\ tx1[Ua] = "idle"
      /\ \A j \in Obj : j # Ua => tx1[j] = w.tx[j]
  BY <1>1, <1>3, <1>4 DEF Turns
<1> HIDE DEF ta1, tx1
<1>9. /\ y \in WorldType /\ y.ta = ta1 /\ y.tm = p.tm /\ y.tx = tx1
      /\ y.ua = p.ua /\ y.ut = p.ut /\ y.st = p.st /\ y.del = p.del
      /\ y.hist = p.hist
  BY <1>6, <1>8 DEF WorldType
<1>10. a.ta = ta1 /\ a.tx = tx1 /\ a.tm = p.tm
  <2> DEFINE f == a.ta
             h == a.tm
             k == p.tm
             q == a.tx
  <2>1. /\ f \in [Ta -> TaType]
        /\ h \in [Ta -> [TaTimers -> TimerType]]
        /\ k \in [Ta -> [TaTimers -> TimerType]]
        /\ q \in [Obj -> {"idle", "ta", "ua"}]
    BY <1>7 DEF WorldType, IsWith
  <2>2. /\ \A j \in Ta : f[j] = ta1[j]
        /\ \A j \in Ta : h[j] = k[j]
        /\ \A j \in Obj : q[j] = tx1[j]
    BY <1>7, <1>8 DEF Turns, IsWith
  <2> HIDE DEF f, h, k, q
  <2>3. f = ta1
    BY <1>8, <2>1, <2>2
  <2>4. h = k
    BY <2>1, <2>2
  <2>5. q = tx1
    BY <1>8, <2>1, <2>2
  <2>6. QED
    BY <2>3, <2>4, <2>5 DEF f, h, k, q
<1>11. QED
  BY <1>9, <1>10

(* What the user agent made of the response leaves the transaction able to *)
(* send the ACK.                                                           *)
LEMMA AckGivenGood ==
  ASSUME NEW w, NEW i \in Ta, Inv(w), Runs(w.ta, w.del, i),
         w.ta[i].state \in {"Calling", "Proceeding"},
         NEW c \in {"busy", "auth", "reject"},
         c = "auth" /\ Secure => w.ua.n + w.ua.addrs < MaxTa,
         NEW v, Turns(w, i, "Completed", w.tm[i], v),
         NEW p, Unmoved(v, p) \/
                (~v.ua.stopped /\ v.ua.state = "WaitResponse"
                   /\ Waits(v, c, p)),
         NEW y, y = AckGiven(p, i)
  PROVE  /\ Nearly(y, i) /\ Runs(y.ta, y.del, i) /\ ~y.ta[i].indep
         /\ y.ta[i].state = "Completed"
         /\ y.tm[i]["B"] # "stale" /\ y.tm[i]["D"] # "stale"
<1> DEFINE a == Acking(w, i)
<1>1. /\ Nearly(a, i) /\ IsWith(w, i, AckTa(w.ta[i]), w.tm[i], Ua, "idle", a)
      /\ Runs(a.ta, a.del, i) /\ a.ua.cur = i
      /\ a.ta[i].att /\ ~a.ta[i].indep /\ a.ta[i].state = "Completed"
      /\ a.tm[i]["B"] # "stale" /\ a.tm[i]["D"] # "stale"
  BY AckingGood
<1>2. a = Acking(w, i)
  OBVIOUS
<1> HIDE DEF a
<1>3. Same(v, p)
  BY DEF Unmoved, Waits
<1>4. w \in WorldType /\ ~w.ta[i].indep
  BY CurrentOrLetGo DEF Inv, Core, Body, Runs
<1>5. p \in WorldType /\ p.ta = v.ta /\ p.tm = v.tm /\ p.tx = v.tx
  BY <1>3 DEF Same
<1>6. /\ y \in WorldType /\ y.ta = a.ta /\ y.tm = a.tm /\ y.tx = a.tx
      /\ y.ua = p.ua /\ y.ut = p.ut /\ y.st = p.st /\ y.del = p.del
      /\ y.hist = p.hist
  BY <1>2, <1>4, <1>5, AckGivenIs
<1>7. /\ v.ua = w.ua /\ v.ut = w.ut /\ v.st = w.st /\ v.del = w.del
      /\ v.hist = w.hist
      /\ a.ua = w.ua /\ a.ut = w.ut /\ a.st = w.st /\ a.del = w.del
      /\ a.hist = w.hist
  BY <1>1 DEF Turns, IsWith
<1>8. Same(a, y)
  BY <1>3, <1>6, <1>7 DEF Same
<1>9. Body(a) /\ Steady(a)
  BY <1>1 DEF Nearly
<1>10. Body(y) /\ Steady(y)
  <2>1. CASE Unmoved(v, p)
    <3>1. Unmoved(a, y)
      BY <1>6, <1>7, <1>8, <2>1 DEF Unmoved
    <3>2. QED
      BY <1>9, <3>1, UnmovedGood
  <2>2. CASE ~v.ua.stopped /\ v.ua.state = "WaitResponse" /\ Waits(v, c, p)
    <3>1. Waits(a, c, y)
      BY <1>6, <1>7, <1>8, <2>2 DEF Waits
    <3>2. Delaying(a, c)
      BY <1>1, <1>7, <1>9 DEF Delaying, Answered
    <3>3. QED
      BY <1>7, <2>2, <3>1, <3>2, WaitsGood
  <2>3. QED
    BY <2>1, <2>2
<1>11. y.del = a.del /\ y.ua.cur = i
  BY <1>1, <1>3, <1>6, <1>7 DEF Same
<1>12. Nearly(y, i)
  BY <1>1, <1>6, <1>10, <1>11 DEF Nearly
<1>13. QED
  BY <1>1, <1>6, <1>11, <1>12

Acknowledges(w, i) ==
  /\ Nearly(w, i)
  /\ \/ w.ta[i].over
     \/ /\ Runs(w.ta, w.del, i) /\ w.ta[i].state = "Completed"
        /\ ~w.ta[i].indep /\ w.tx[Ua] = "ta"
        /\ w.tm[i]["B"] # "stale" /\ w.tm[i]["D"] # "stale"

LEMMA SendAckGood ==
  ASSUME NEW p, NEW i \in Ta, NEW y, y = AckGiven(p, i), Nearly(y, i),
         Runs(y.ta, y.del, i), ~y.ta[i].indep, y.ta[i].state = "Completed",
         y.tm[i]["B"] # "stale", y.tm[i]["D"] # "stale",
         NEW r \in SendAck(p, i)
  PROVE  Done(r) /\ Acknowledges(r.w, i)
<1>1. PICK q \in SendToTransmitterL(y, i) :
        r \in IF q.left = "no" THEN {q}
              ELSE Trap(TerminatedL(q.w, i, "other"))
  BY DEF SendAck, AckGiven
<1>2. /\ (q.left = "no" => q.yes)
      /\ q.left # "no" => q.w = y
      /\ Nearly(q.w, i)
      /\ q.w.ta = y.ta /\ q.w.ua = y.ua /\ q.w.del = y.del
      /\ q.left = "no" => /\ q.w.tx[TxOf(y, i)] = "ta"
                          /\ q.w.tm[i] = y.tm[i]
  BY SendToTransmitterGood
<1>3. CASE q.left = "no"
  <2>1. TxOf(y, i) = Ua
    BY DEF TxOf
  <2>2. r = q
    BY <1>1, <1>3
  <2>3. QED
    BY <1>2, <1>3, <2>1, <2>2 DEF Done, Acknowledges
<1>4. CASE q.left # "no"
  <2>1. q.w = y
    BY <1>2, <1>4
  <2>2. PICK s \in TerminatedL(y, i, "other") : r \in Yes(s.w)
    BY <1>1, <1>4, <2>1 DEF Trap
  <2>3. Here(y.ta, y.del, i)
    BY DEF Runs
  <2>4. Inv(s.w) /\ s.w.ta[i].over
    BY <2>3, TerminatedLGood
  <2>5. Nearly(s.w, i)
    BY <2>4, InvIsNearly
  <2>6. r.w = s.w /\ Done(r)
    BY <2>2 DEF Yes, Done
  <2>7. QED
    BY <2>4, <2>5, <2>6 DEF Acknowledges
<1>5. QED
  BY <1>3, <1>4

LEMMA AcknowledgedGood ==
  ASSUME NEW w, NEW i \in Ta, Acknowledges(w, i), NEW T
  PROVE  Inv(StopTimers(w, i, T))
<1> DEFINE z == StopTimers(w, i, T)
           m == Stops(w, i, T)
<1>1. w \in WorldType /\ w.tm[i] \in [TaTimers -> TimerType]
  BY DEF Acknowledges, Nearly, Body, WorldType
<1>2. m \in [TaTimers -> TimerType] /\ Ticks(w, i, m, z)
  BY <1>1, StopTimersIs
<1>3. \A k \in TaTimers : m[k] = "off" \/ m[k] = w.tm[i][k]
  BY DEF Stops
<1> HIDE DEF z, m
<1>4. CASE w.ta[i].over
  <2>1. Inv(w)
    BY <1>4, NearlyOver DEF Acknowledges
  <2>2. Inv(z)
    BY <1>2, <1>4, <2>1, TicksOver
  <2>3. QED
    BY <2>2 DEF z
<1>5. CASE ~w.ta[i].over
  <2>1. /\ Runs(w.ta, w.del, i) /\ w.ta[i].state = "Completed"
        /\ ~w.ta[i].indep /\ w.tx[Ua] = "ta"
        /\ w.tm[i]["B"] # "stale" /\ w.tm[i]["D"] # "stale"
        /\ Nearly(w, i)
    BY <1>5 DEF Acknowledges
  <2>2. w.ta[i].state # "none" /\ i \notin w.del.gone
    BY <2>1 DEF Runs, Here
  <2>3. Nearly(z, i)
    BY <1>2, <2>1, <2>2, TicksGood
  <2>4. /\ z.ta = w.ta /\ z.tx = w.tx /\ z.ua = w.ua /\ z.del = w.del
        /\ z.hist = w.hist /\ z.tm[i] = m
    BY <1>2 DEF Ticks
  <2>5. m["B"] # "stale" /\ m["D"] # "stale"
    BY <1>3, <2>1 DEF TaTimers
  <2>6. Timed(z.ta, z.tm, z.tx, z.del, i)
    BY <2>1, <2>4, <2>5 DEF Timed
  <2>7. w.ua.cur = i =>
          CurrentEnds(z.ta, z.tm, z.tx, z.ua, z.del, z.hist)
    BY <2>1, <2>4 DEF CurrentEnds
  <2>8. Inv(z)
    BY <2>3, <2>4, <2>6, <2>7, NearlyWhole DEF Whole
  <2>9. QED
    BY <2>8 DEF z
<1>6. QED
  BY <1>4, <1>5

(* Memory ran out for the user agent: the transaction is taken back.       *)
LEMMA RestoredError ==
  ASSUME NEW w \in WorldType, NEW i \in Ta, w.ta[i].state # "none", NEW v,
         Turns(w, i, "Completed", w.tm[i], v), NEW p, Unmoved(v, p)
  PROVE  Unmoved(w, RestoreTa(p, i, w.ta[i].state, {}))
<1> DEFINE s == w.ta[i].state
           q == [p EXCEPT !.ta[i].state = s]
           z == StopTimers(q, i, {})
<1>1. /\ p \in WorldType /\ p.ta = v.ta /\ p.tm = v.tm /\ p.tx = v.tx
      /\ p.st = v.st /\ p.del = v.del /\ p.hist = v.hist
  BY DEF Unmoved, Same
<1>2. /\ w.ta \in [Ta -> TaType] /\ w.ta[i] \in TaType
      /\ v.ta[i] = [w.ta[i] EXCEPT !.state = "Completed"]
  BY DEF Turns, WorldType
<1>3. v.ta[i].state = "Completed"
      /\ s \in {"Calling", "Proceeding", "Completed"}
  BY <1>2 DEF TaType
<1>4. Turns(p, i, s, p.tm[i], q)
  BY <1>1, <1>3, TurnsIs
<1> HIDE DEF q
<1>5. q \in WorldType
  BY <1>4 DEF Turns
<1>6. Ticks(q, i, Stops(q, i, {}), z)
  BY <1>5, StopTimersIs
<1> HIDE DEF z
<1>7. Stops(q, i, {}) = w.tm[i]
  <2> DEFINE f == Stops(q, i, {})
             g == w.tm[i]
  <2>1. g \in [TaTimers -> TimerType]
    BY DEF WorldType
  <2>2. q.tm[i] = g
    BY <1>1, <1>4 DEF Turns
  <2>3. f = [k \in TaTimers |-> g[k]]
    BY <2>2 DEF Stops
  <2> HIDE DEF f, g
  <2>4. f = g
    BY <2>1, <2>3
  <2>5. QED
    BY <2>4 DEF f, g
<1>8. z.tm = w.tm
  <2> DEFINE f == z.tm
             g == w.tm
  <2>1. f \in [Ta -> [TaTimers -> TimerType]]
        /\ g \in [Ta -> [TaTimers -> TimerType]]
    BY <1>6 DEF WorldType, Ticks
  <2>2. \A j \in Ta : f[j] = g[j]
    BY <1>1, <1>4, <1>6, <1>7 DEF Turns, Ticks
  <2> HIDE DEF f, g
  <2>3. f = g
    BY <2>1, <2>2
  <2>4. QED
    BY <2>3 DEF f, g
<1>9. z.ta = w.ta
  <2> DEFINE f == z.ta
             g == w.ta
             t == w.ta[i]
  <2>1. f \in [Ta -> TaType] /\ g \in [Ta -> TaType] /\ t \in TaType
    BY <1>2, <1>6 DEF WorldType, Ticks
  <2>2. [[t EXCEPT !.state = "Completed"] EXCEPT !.state = t.state] = t
    BY <2>1 DEF TaType
  <2>3. f[i] = g[i]
    <3>1. q.ta[i] = [p.ta[i] EXCEPT !.state = s] /\ z.ta = q.ta
      BY <1>4, <1>6 DEF Turns, Ticks
    <3>2. p.ta[i] = [t EXCEPT !.state = "Completed"]
      BY <1>1, <1>2
    <3> HIDE DEF t
    <3>3. q.ta[i] = t
      BY <2>2, <3>1, <3>2 DEF t
    <3>4. QED
      BY <3>1, <3>3 DEF t
  <2>4. \A j \in Ta : f[j] = g[j]
    BY <1>1, <1>4, <1>6, <2>3 DEF Turns, Ticks
  <2> HIDE DEF f, g
  <2>5. f = g
    BY <2>1, <2>4
  <2>6. QED
    BY <2>5 DEF f, g
<1>10. /\ z \in WorldType /\ z.tx = w.tx /\ z.ua = p.ua /\ z.ut = p.ut
       /\ z.st = w.st /\ z.del = w.del /\ z.hist = w.hist
  BY <1>1, <1>4, <1>6 DEF Ticks, Turns
<1>11. v.ua = w.ua /\ v.ut = w.ut
  BY DEF Turns
<1>12. Unmoved(w, z)
  BY <1>8, <1>9, <1>10, <1>11 DEF Unmoved, Same
<1>13. QED
  BY <1>12 DEF RestoreTa, z, q

LEMMA ErrorResponseGood ==
  ASSUME NEW w, NEW i \in Ta, Inv(w), Runs(w.ta, w.del, i),
         w.ta[i].state \in {"Calling", "Proceeding"},
         NEW c \in {"busy", "auth", "reject"},
         c = "auth" /\ Secure => w.ua.n + w.ua.addrs < MaxTa,
         NEW r \in TaReceiveResponseL(w, i, c, w.ta[i].state, {})
  PROVE  \/ r.left \in {"nomem", "other"} /\ Inv(r.w)
            /\ Runs(r.w.ta, r.w.del, i)
         \/ Done(r) /\ Acknowledges(r.w, i)
<1> DEFINE v == [w EXCEPT !.ta[i].state = "Completed"]
<1>1. w \in WorldType /\ w.ta[i].att /\ IsError(c) /\ w.ta[i].state # "none"
  BY CurrentOrLetGo DEF Inv, Core, Body, Runs, Here, IsError
<1>2. Turns(w, i, "Completed", w.tm[i], v)
  BY <1>1, TurnsIs
<1>3. \/ r \in Leave(w, "other")
      \/ r \in MayLeave("alloc", w)
      \/ \E p \in PassResponseToUserAgentL(v, i, c) :
           r \in IF p.left = "nomem"
                 THEN Leave(RestoreTa(p.w, i, w.ta[i].state, {}), "nomem")
                 ELSE SendAck(p.w, i)
  BY <1>1 DEF TaReceiveResponseL, Assert
<1> HIDE DEF v
<1>4. CASE r \in Leave(w, "other") \/ r \in MayLeave("alloc", w)
  BY <1>4 DEF Leave, MayLeave
<1>5. ASSUME NEW p \in PassResponseToUserAgentL(v, i, c),
             r \in IF p.left = "nomem"
                   THEN Leave(RestoreTa(p.w, i, w.ta[i].state, {}), "nomem")
                   ELSE SendAck(p.w, i)
      PROVE  \/ r.left \in {"nomem", "other"} /\ Inv(r.w)
                /\ Runs(r.w.ta, r.w.del, i)
             \/ Done(r) /\ Acknowledges(r.w, i)
  <2>1. v \in WorldType /\ v.ta[i].att
    <3> DEFINE t == w.ta[i]
    <3>1. t \in TaType
      BY <1>1 DEF WorldType
    <3>2. v.ta[i] = [t EXCEPT !.state = "Completed"]
      BY <1>2 DEF Turns
    <3>3. t.att
      BY <1>1
    <3> HIDE DEF t
    <3>4. v.ta[i].att
      BY <3>1, <3>2, <3>3 DEF TaType
    <3>5. QED
      BY <1>2, <3>4 DEF Turns
  <2>2. p \in UaReceiveL(v, c)
    BY <1>5, <2>1 DEF PassResponseToUserAgentL, Assert
  <2>3. Delays(v, c, p)
    BY <2>1, <2>2, UaReceiveLDelays
  <2>4. CASE p.left = "nomem"
    <3>1. Unmoved(v, p.w)
      BY <2>3, <2>4 DEF Delays, Done
    <3>2. r.left = "nomem" /\ r.w = RestoreTa(p.w, i, w.ta[i].state, {})
      BY <1>5, <2>4 DEF Leave
    <3>3. Unmoved(w, r.w)
      BY <1>1, <1>2, <3>1, <3>2, RestoredError
    <3>4. Inv(r.w)
      BY <3>3, UnmovedInv
    <3>5. r.w.ta = w.ta /\ r.w.del = w.del
      BY <3>3 DEF Unmoved, Same
    <3>6. QED
      BY <3>2, <3>4, <3>5
  <2>5. CASE p.left # "nomem"
    <3> DEFINE y == AckGiven(p.w, i)
    <3>1. \/ Unmoved(v, p.w)
          \/ ~v.ua.stopped /\ v.ua.state = "WaitResponse" /\ Waits(v, c, p.w)
      BY <2>1, <2>3, UnmovedSelf DEF Delays
    <3>2. /\ Nearly(y, i) /\ Runs(y.ta, y.del, i) /\ ~y.ta[i].indep
          /\ y.ta[i].state = "Completed"
          /\ y.tm[i]["B"] # "stale" /\ y.tm[i]["D"] # "stale"
      BY <1>2, <3>1, AckGivenGood
    <3>3. r \in SendAck(p.w, i)
      BY <1>5, <2>5
    <3> HIDE DEF y
    <3>4. y = AckGiven(p.w, i)
      BY DEF y
    <3>5. QED
      BY <3>2, <3>3, <3>4, SendAckGood
  <2>6. QED
    BY <2>4, <2>5
<1>6. QED
  BY <1>3, <1>4, <1>5

(* A response that is no error.                                            *)
LEMMA TicksSelf ==
  ASSUME NEW w \in WorldType, NEW i \in Ta
  PROVE  w.tm[i] \in [TaTimers -> TimerType] /\ Ticks(w, i, w.tm[i], w)
BY DEF WorldType, Ticks

LEMMA StartTimerNATIs ==
  ASSUME NEW w \in WorldType, NEW i \in Ta, NEW r \in StartTimerNATL(w, i)
  PROVE  \/ r.left = "nomem" /\ r.w = w
         \/ /\ Done(r)
            /\ \E m \in [TaTimers -> TimerType] :
                 /\ Ticks(w, i, m, r.w)
                 /\ \A k \in TaTimers : k # "N" => m[k] = w.tm[i][k]
<1>1. w.tm[i] \in [TaTimers -> TimerType]
  BY DEF WorldType
<1>2. CASE r \in Start(w, i, "N")
  <2> DEFINE m == Starts(w, i, "N")
  <2>1. "N" \in TaTimers
    BY DEF TaTimers
  <2>2. /\ m \in [TaTimers -> TimerType]
        /\ \/ r.left = "nomem" /\ r.w = w
           \/ Done(r) /\ Ticks(w, i, m, r.w)
    BY <1>2, <2>1, StartIs
  <2>3. \A k \in TaTimers : k # "N" => m[k] = w.tm[i][k]
    BY <1>1 DEF Starts
  <2> HIDE DEF m
  <2>4. QED
    BY <2>2, <2>3
<1>3. CASE r \in Yes(w)
  <2>1. Done(r) /\ r.w = w
    BY <1>3 DEF Yes, Done
  <2>2. QED
    BY <2>1, TicksSelf
<1>4. QED
  BY <1>2, <1>3 DEF StartTimerNATL

First(w, i) ==
  Assert(w.tm[i]["P"] = "off", w, LAMBDA u :
    Then(Start(u, i, "P"), LAMBDA x :
    Then(StartTimerNATL(x, i), LAMBDA y :
      Yes([y EXCEPT !.ta[i].state = "Proceeding"]))))

Proceeds(w, i, r) ==
  \/ /\ r.left \in {"nomem", "other"}
     /\ \E m \in [TaTimers -> TimerType] : Turns(w, i, "Calling", m, r.w)
  \/ /\ Done(r)
     /\ \E m \in [TaTimers -> TimerType] :
          /\ Turns(w, i, "Proceeding", m, r.w) /\ m["P"] = "on"
          /\ \A k \in TaTimers : k \notin {"P", "N"} => m[k] = w.tm[i][k]

LEMMA FirstGood ==
  ASSUME NEW w \in WorldType, NEW i \in Ta, w.ta[i].state = "Calling",
         NEW r \in First(w, i)
  PROVE  Proceeds(w, i, r)
<1>1. w.tm[i] \in [TaTimers -> TimerType]
  BY DEF WorldType
<1>2. Turns(w, i, "Calling", w.tm[i], w)
  BY TicksSelf, TicksTurn
<1>3. CASE w.tm[i]["P"] # "off"
  <2>1. r.left = "other" /\ r.w = w
    BY <1>3 DEF First, Assert, Leave
  <2>2. QED
    BY <1>1, <1>2, <2>1 DEF Proceeds
<1>4. CASE w.tm[i]["P"] = "off"
  <2>1. PICK p \in Start(w, i, "P") :
          r \in IF p.left = "no" /\ p.yes
                THEN Then(StartTimerNATL(p.w, i), LAMBDA y :
                       Yes([y EXCEPT !.ta[i].state = "Proceeding"]))
                ELSE {p}
    BY <1>4 DEF First, Assert, Then
  <2> DEFINE m == Starts(w, i, "P")
  <2>2. "P" \in TaTimers
    BY DEF TaTimers
  <2>3. /\ m \in [TaTimers -> TimerType]
        /\ \/ p.left = "nomem" /\ p.w = w
           \/ Done(p) /\ Ticks(w, i, m, p.w)
    BY <2>1, <2>2, StartIs
  <2>4. m["P"] = "on" /\ \A k \in TaTimers : k # "P" => m[k] = w.tm[i][k]
    BY <1>1, <2>2 DEF Starts
  <2> HIDE DEF m
  <2>5. CASE p.left = "nomem" /\ p.w = w
    <3>1. r = p
      BY <2>1, <2>5
    <3>2. QED
      BY <1>1, <1>2, <2>5, <3>1 DEF Proceeds
  <2>6. CASE Done(p) /\ Ticks(w, i, m, p.w)
    <3>1. PICK q \in StartTimerNATL(p.w, i) :
            r \in IF q.left = "no" /\ q.yes
                  THEN Yes([q.w EXCEPT !.ta[i].state = "Proceeding"])
                  ELSE {q}
      BY <2>1, <2>6 DEF Then, Done
    <3>2. p.w \in WorldType /\ p.w.ta = w.ta /\ p.w.tm[i] = m
      BY <2>6 DEF Ticks
    <3>3. Turns(w, i, "Calling", m, p.w)
      BY <2>6, TicksTurn
    <3>4. CASE q.left = "nomem" /\ q.w = p.w
      <4>1. r = q
        BY <3>1, <3>4
      <4>2. QED
        BY <2>3, <3>3, <3>4, <4>1 DEF Proceeds
    <3>5. ASSUME Done(q), NEW n \in [TaTimers -> TimerType],
                 Ticks(p.w, i, n, q.w),
                 \A k \in TaTimers : k # "N" => n[k] = p.w.tm[i][k]
          PROVE  Proceeds(w, i, r)
      <4> DEFINE z == [q.w EXCEPT !.ta[i].state = "Proceeding"]
      <4>1. r \in Yes(z)
        BY <3>1, <3>5 DEF Done
      <4>2. Turns(w, i, "Calling", n, q.w)
        <5>1. Turns(p.w, i, "Calling", n, q.w)
          BY <3>2, <3>5, TicksTurn
        <5>2. QED
          BY <3>3, <5>1, TurnsTrans
      <4>3. /\ q.w \in WorldType /\ q.w.tm[i] = n
            /\ q.w.ta[i].state # "none"
        BY <3>2, <3>5 DEF Ticks
      <4>4. Turns(q.w, i, "Proceeding", n, z)
        BY <4>3, TurnsIs
      <4> HIDE DEF z
      <4>5. Turns(w, i, "Proceeding", n, z)
        BY <4>2, <4>4, TurnsTrans
      <4>6. /\ n["P"] = "on"
            /\ \A k \in TaTimers : k \notin {"P", "N"} => n[k] = w.tm[i][k]
        BY <2>2, <2>4, <3>2, <3>5
      <4>7. Done(r) /\ r.w = z
        BY <4>1 DEF Yes, Done
      <4>8. QED
        BY <3>5, <4>5, <4>6, <4>7 DEF Proceeds
    <3>6. QED
      BY <3>2, <3>4, <3>5, StartTimerNATIs
  <2>7. QED
    BY <2>3, <2>5, <2>6
<1>5. QED
  BY <1>3, <1>4

LEMMA RunsHears ==
  ASSUME NEW w, NEW i \in Ta, Nearly(w, i), Runs(w.ta, w.del, i), w.ua.cur = i
  PROVE  Hearing(w)
BY DEF Hearing, Accepting, Nearly

(* The user agent has not left: the transaction goes on, or is over.       *)
LEMMA HeardGood ==
  ASSUME NEW w, NEW i \in Ta, Nearly(w, i), Runs(w.ta, w.del, i),
         w.ta[i].state \in {"Calling", "Proceeding"},
         w.tm[i]["B"] # "stale", w.tm[i]["D"] # "stale",
         NEW c \in {"prov", "ok"}, w.ta[i].state = "Calling" => c = "ok",
         w.ta[i].state = "Proceeding" => w.ua.stopped \/ w.tm[i]["P"] = "on",
         NEW v, \/ Listens(w, c, v)
                \/ Accepting(w) /\ Accepts(w, v),
         NEW z, z = v \/ z = StopTimers(v, i, {"A", "B"})
  PROVE  Inv(z)
<1>1. /\ w.ua.cur = i /\ ~w.ta[i].indep /\ Body(w) /\ Steady(w)
      /\ w.ua.cur # 0
  BY Ids, CurrentOrLetGo DEF Nearly
<1> DEFINE m == IF z = v THEN v.tm[i] ELSE Stops(v, i, {"A", "B"})
<1>2. ASSUME v \in WorldType
      PROVE  /\ m \in [TaTimers -> TimerType] /\ Ticks(v, i, m, z)
             /\ \A k \in TaTimers : m[k] = v.tm[i][k] \/ m[k] = "off"
             /\ m["P"] = v.tm[i]["P"]
  <2>1. v.tm[i] \in [TaTimers -> TimerType]
    BY <1>2, TicksSelf
  <2>2. CASE z = v
    BY <1>2, <2>2, TicksSelf
  <2>3. CASE z # v
    <3>1. m = Stops(v, i, {"A", "B"})
      BY <2>3
    <3>2. m \in [TaTimers -> TimerType] /\ Ticks(v, i, m, z)
      BY <1>2, <2>3, <3>1, StopTimersIs
    <3>3. /\ \A k \in TaTimers : m[k] = v.tm[i][k] \/ m[k] = "off"
          /\ m["P"] = v.tm[i]["P"]
      BY <3>1 DEF Stops, TaTimers
    <3>4. QED
      BY <3>2, <3>3
  <2>4. QED
    BY <2>2, <2>3
<1> HIDE DEF m
<1>3. CASE Accepting(w) /\ Accepts(w, v)
  <2>1. Inv(v)
    BY <1>3, AcceptsGood
  <2>2. v.ta[i].over
    BY <1>1, <1>3 DEF Accepts
  <2>3. v \in WorldType
    BY <1>3 DEF Accepts
  <2>4. QED
    BY <1>2, <2>1, <2>2, <2>3, TicksOver
<1>4. CASE Listens(w, c, v)
  <2>1. /\ Body(v) /\ Steady(v)
        /\ v.ta = w.ta /\ v.tm = w.tm /\ v.tx = w.tx /\ v.ua = w.ua
        /\ v.st = w.st /\ v.del = w.del
        /\ \A j \in Ta : Timed(w.ta, w.tm, w.tx, w.del, j) =>
                         Timed(v.ta, v.tm, v.tx, v.del, j)
    BY <1>1, <1>4, ListensGood
  <2>2. Nearly(v, i)
    BY <1>1, <2>1 DEF Nearly
  <2>3. v \in WorldType
    BY <2>1 DEF Body
  <2>4. v.ta[i].state # "none" /\ i \notin v.del.gone
    BY <2>1 DEF Runs, Here
  <2>5. /\ m \in [TaTimers -> TimerType] /\ Ticks(v, i, m, z)
        /\ \A k \in TaTimers : m[k] = v.tm[i][k] \/ m[k] = "off"
        /\ m["P"] = v.tm[i]["P"]
    BY <1>2, <2>3
  <2>6. Nearly(z, i)
    BY <2>2, <2>4, <2>5, TicksGood
  <2>7. z.ta = w.ta /\ z.tx = w.tx /\ z.ua = w.ua /\ z.del = w.del
        /\ z.tm[i] = m
    BY <2>1, <2>5 DEF Ticks
  <2>8. m["B"] # "stale" /\ m["D"] # "stale"
    BY <2>1, <2>5 DEF TaTimers
  <2>9. Timed(z.ta, z.tm, z.tx, z.del, i)
    BY <1>1, <2>7, <2>8 DEF Timed
  <2>10. w.ta[i].state = "Calling" => w.ua.stopped
    <3>1. w.ua.state \notin AckStates
      BY <1>1 DEF Body, Acks
    <3>2. QED
      BY <1>4, <3>1 DEF Listens
  <2>11. ~w.ua.stopped =>
           CurrentEnds(z.ta, z.tm, z.tx, z.ua, z.del, z.hist)
    BY <1>1, <2>1, <2>5, <2>7, <2>10 DEF CurrentEnds
  <2>12. QED
    BY <2>6, <2>7, <2>9, <2>11, NearlyWhole DEF Whole
<1>5. QED
  BY <1>3, <1>4

LEMMA RestoreTaIs ==
  ASSUME NEW w \in WorldType, NEW i \in Ta, w.ta[i].state # "none",
         NEW c \in {"Calling", "Proceeding", "Completed"}, NEW T
  PROVE  /\ Stops(w, i, T) \in [TaTimers -> TimerType]
         /\ Turns(w, i, c, Stops(w, i, T), RestoreTa(w, i, c, T))
<1> DEFINE q == [w EXCEPT !.ta[i].state = c]
           z == StopTimers(q, i, T)
<1>1. Turns(w, i, c, w.tm[i], q)
  BY TurnsIs
<1>2. z = RestoreTa(w, i, c, T)
  BY DEF RestoreTa
<1> HIDE DEF q
<1>3. q \in WorldType /\ q.tm[i] = w.tm[i]
  BY <1>1 DEF Turns
<1>4. /\ Stops(q, i, T) \in [TaTimers -> TimerType]
      /\ Ticks(q, i, Stops(q, i, T), z)
  BY <1>3, StopTimersIs
<1>5. Stops(q, i, T) = Stops(w, i, T)
  BY <1>3 DEF Stops
<1> HIDE DEF z
<1>6. Turns(q, i, q.ta[i].state, Stops(w, i, T), z)
  BY <1>3, <1>4, <1>5, TicksTurn
<1>7. q.ta[i].state = c
  <2> DEFINE t == w.ta[i]
  <2>1. t \in TaType
    BY DEF WorldType
  <2>2. q.ta[i] = [t EXCEPT !.state = c]
    BY <1>1 DEF Turns
  <2> HIDE DEF t
  <2>3. QED
    BY <2>1, <2>2 DEF TaType
<1>8. Turns(w, i, c, Stops(w, i, T), z)
  BY <1>1, <1>6, <1>7, TurnsTrans
<1>9. QED
  BY <1>2, <1>4, <1>5, <1>8

LEMMA ResponseGood ==
  ASSUME NEW w, NEW i \in Ta, Nearly(w, i), Runs(w.ta, w.del, i),
         w.ta[i].state \in {"Calling", "Proceeding"},
         NEW c \in {"prov", "ok"}, NEW back, NEW T,
         NEW r \in TaReceiveResponseL(w, i, c, back, T)
  PROVE  \/ /\ Done(r)
            /\ Listens(w, c, r.w) \/ (Accepting(w) /\ Accepts(w, r.w))
         \/ ~w.ua.stopped /\ Refuses(r) /\ r.w = RestoreTa(w, i, back, T)
<1>1. w.ta[i].att /\ w.ua.cur = i
  BY CurrentOrLetGo DEF Nearly
<1>2. r \in OnLeave(PassResponseToUserAgentL(w, i, c),
                    LAMBDA v : RestoreTa(v, i, back, T))
  BY DEF TaReceiveResponseL, IsError
<1>3. PICK p \in UaReceiveL(w, c) :
        r \in IF p.left = "no" THEN {p}
              ELSE Leave(RestoreTa(p.w, i, back, T), p.left)
  BY <1>1, <1>2 DEF OnLeave, PassResponseToUserAgentL, Assert
<1>4. Hears(w, c, p)
  BY <1>1, <1>3, RunsHears, UaReceiveLHears
<1>5. CASE Refuses(p) /\ p.w = w
  <2>1. r.left = p.left /\ r.w = RestoreTa(w, i, back, T)
    BY <1>3, <1>5 DEF Leave, Refuses
  <2>2. w.ua.stopped => p.left = "no"
    BY <1>3 DEF UaReceiveL, Yes
  <2>3. QED
    BY <1>5, <2>1, <2>2 DEF Refuses
<1>6. CASE Done(p)
  <2>1. r = p
    BY <1>3, <1>6 DEF Done
  <2>2. QED
    BY <1>4, <1>6, <2>1 DEF Hears, Refuses, Done
<1>7. QED
  BY <1>4, <1>5, <1>6 DEF Hears

(* A response, in the transaction: all is well, or the event's handler is  *)
(* left with a transaction that can still be ended; and a response the     *)
(* owner drops has changed nothing.                                        *)
Takes(w, i, r) ==
  \/ r.left = "no" /\ Inv(r.w)
  \/ /\ r.left \in {"nomem", "other"}
     /\ Nearly(r.w, i) /\ Runs(r.w.ta, r.w.del, i)
  \/ r.left = "dialog" /\ r.w = w

LEMMA CallingOf ==
  ASSUME NEW w, NEW i \in Ta, Inv(w), Runs(w.ta, w.del, i)
  PROVE  /\ Nearly(w, i) /\ w \in WorldType
         /\ w.tm[i] \in [TaTimers -> TimerType]
         /\ w.tm[i]["B"] # "stale" /\ w.tm[i]["D"] # "stale"
         /\ w.ta[i].state \in {"Calling", "Proceeding"} =>
              w.ua.cur = i /\ w.ta[i].att
         /\ w.ta[i].state = "Calling" /\ ~w.ua.stopped =>
              w.tm[i]["P"] = "off" /\ w.tm[i]["N"] = "off"
         /\ w.ta[i].state = "Proceeding" /\ ~w.ua.stopped =>
              w.tm[i]["P"] = "on"
<1>1. Nearly(w, i) /\ Whole(w, i) /\ w \in WorldType /\ Body(w)
  BY NearlyWhole DEF Inv, Core, Body
<1>2. w.tm[i] \in [TaTimers -> TimerType]
  BY <1>1 DEF WorldType
<1>3. /\ w.ta[i].att => i = w.ua.cur /\ ~w.ta[i].indep
      /\ ~w.ta[i].att => w.ta[i].state = "Completed"
  BY <1>1, CurrentOrLetGo
<1>4. i # 0
  BY Ids
<1>5. w.tm[i]["B"] # "stale" /\ w.tm[i]["D"] # "stale"
  BY <1>1 DEF Whole, Timed
<1>6. w.ua.cur = i /\ ~w.ua.stopped =>
        /\ w.ta[i].state = "Calling" =>
             w.tm[i]["P"] = "off" /\ w.tm[i]["N"] = "off"
        /\ w.ta[i].state = "Proceeding" => w.tm[i]["P"] = "on"
  BY <1>1, <1>4 DEF Whole, CurrentEnds
<1>7. QED
  BY <1>1, <1>2, <1>3, <1>5, <1>6

LEMMA ProceedingReceiveGood ==
  ASSUME NEW w, NEW i \in Ta, Inv(w), Runs(w.ta, w.del, i),
         w.ta[i].state = "Proceeding", NEW c \in Responses,
         c = "auth" /\ Secure => w.ua.n + w.ua.addrs < MaxTa,
         NEW r \in ProceedingReceiveL(w, i, c)
  PROVE  Takes(w, i, r)
<1>1. PICK p \in TaReceiveResponseL(w, i, c, "Proceeding", {}) :
        r \in IF p.left = "no" /\ p.yes
              THEN Yes(IF IsError(c) THEN StopTimers(p.w, i, {"P", "N"})
                       ELSE p.w)
              ELSE {p}
  BY DEF ProceedingReceiveL, Then
<1>2. Nearly(w, i) /\ w \in WorldType
      /\ w.tm[i] \in [TaTimers -> TimerType]
      /\ w.tm[i]["B"] # "stale" /\ w.tm[i]["D"] # "stale"
      /\ (w.ua.stopped \/ w.tm[i]["P"] = "on")
  BY CallingOf
<1>3. CASE IsError(c)
  <2>1. c \in {"busy", "auth", "reject"}
    BY <1>3 DEF IsError
  <2>2. \/ p.left \in {"nomem", "other"} /\ Inv(p.w)
           /\ Runs(p.w.ta, p.w.del, i)
        \/ Done(p) /\ Acknowledges(p.w, i)
    BY <1>1, <2>1, ErrorResponseGood
  <2>3. CASE p.left \in {"nomem", "other"} /\ Inv(p.w)
             /\ Runs(p.w.ta, p.w.del, i)
    <3>1. r = p
      BY <1>1, <2>3
    <3>2. QED
      BY <2>3, <3>1, InvIsNearly DEF Takes
  <2>4. CASE Done(p) /\ Acknowledges(p.w, i)
    <3>1. r.left = "no" /\ r.w = StopTimers(p.w, i, {"P", "N"})
      BY <1>1, <1>3, <2>4 DEF Done, Yes
    <3>2. QED
      BY <2>4, <3>1, AcknowledgedGood DEF Takes
  <2>5. QED
    BY <2>2, <2>3, <2>4
<1>4. CASE ~IsError(c)
  <2>1. c \in {"prov", "ok"}
    BY <1>4 DEF IsError, Responses
  <2>2. \/ /\ Done(p)
           /\ Listens(w, c, p.w) \/ (Accepting(w) /\ Accepts(w, p.w))
        \/ ~w.ua.stopped /\ Refuses(p)
           /\ p.w = RestoreTa(w, i, "Proceeding", {})
    BY <1>1, <1>2, <2>1, ResponseGood
  <2>3. CASE /\ Done(p)
             /\ Listens(w, c, p.w) \/ (Accepting(w) /\ Accepts(w, p.w))
    <3>1. r.left = "no" /\ r.w = p.w
      BY <1>1, <1>4, <2>3 DEF Done, Yes
    <3>2. Inv(p.w)
      BY <1>2, <2>1, <2>3, HeardGood
    <3>3. QED
      BY <3>1, <3>2 DEF Takes
  <2>4. CASE Refuses(p) /\ p.w = RestoreTa(w, i, "Proceeding", {})
    <3>1. r = p
      BY <1>1, <2>4 DEF Refuses
    <3>2. Turns(w, i, "Proceeding", Stops(w, i, {}), p.w)
      BY <1>2, <2>4, RestoreTaIs
    <3>3. Stops(w, i, {}) = w.tm[i]
      <4> DEFINE g == w.tm[i]
                 f == Stops(w, i, {})
      <4>1. f = [k \in TaTimers |-> g[k]] /\ g \in [TaTimers -> TimerType]
        BY <1>2 DEF Stops
      <4> HIDE DEF f, g
      <4>2. f = g
        BY <4>1
      <4>3. QED
        BY <4>2 DEF f, g
    <3>4. p.w = w
      BY <1>2, <3>2, <3>3, TurnsBack
    <3>5. QED
      BY <1>2, <2>4, <3>1, <3>4 DEF Takes, Refuses
  <2>5. QED
    BY <2>2, <2>3, <2>4
<1>5. QED
  BY <1>3, <1>4

LEMMA RestoredIs ==
  ASSUME NEW w \in WorldType, NEW i \in Ta,
         w.ta[i].state \in {"Calling", "Proceeding"}
  PROVE  RestoreTa(w, i, w.ta[i].state, {}) = w
<1> DEFINE z == RestoreTa(w, i, w.ta[i].state, {})
<1>1. Turns(w, i, w.ta[i].state, Stops(w, i, {}), z)
  BY RestoreTaIs
<1>2. Stops(w, i, {}) = w.tm[i]
  <2> DEFINE g == w.tm[i]
             f == Stops(w, i, {})
  <2>1. f = [k \in TaTimers |-> g[k]] /\ g \in [TaTimers -> TimerType]
    BY DEF Stops, WorldType
  <2> HIDE DEF f, g
  <2>2. f = g
    BY <2>1
  <2>3. QED
    BY <2>2 DEF f, g
<1> HIDE DEF z
<1>3. z = w
  BY <1>1, <1>2, TurnsBack
<1>4. QED
  BY <1>3 DEF z

(* What TRestoreTransactionState takes back is all there was.              *)
LEMMA FirstUndone ==
  ASSUME NEW w \in WorldType, NEW i \in Ta, w.ta[i].state = "Calling",
         w.tm[i]["P"] = "off", w.tm[i]["N"] = "off",
         NEW m \in [TaTimers -> TimerType], NEW v,
         Turns(w, i, "Proceeding", m, v),
         \A k \in TaTimers : k \notin {"P", "N"} => m[k] = w.tm[i][k]
  PROVE  RestoreTa(v, i, "Calling", {"P", "N"}) = w
<1> DEFINE z == RestoreTa(v, i, "Calling", {"P", "N"})
<1>1. /\ v \in WorldType /\ v.tm[i] = m
      /\ v.ta[i] = [w.ta[i] EXCEPT !.state = "Proceeding"]
  BY DEF Turns
<1>2. v.ta[i].state # "none"
  <2> DEFINE t == w.ta[i]
  <2>1. t \in TaType
    BY DEF WorldType
  <2>2. v.ta[i] = [t EXCEPT !.state = "Proceeding"]
    BY <1>1
  <2> HIDE DEF t
  <2>3. v.ta[i].state = "Proceeding"
    BY <2>1, <2>2 DEF TaType
  <2>4. QED
    BY <2>3
<1>3. Turns(v, i, "Calling", Stops(v, i, {"P", "N"}), z)
  BY <1>1, <1>2, RestoreTaIs
<1>4. Stops(v, i, {"P", "N"}) = w.tm[i]
  <2> DEFINE g == w.tm[i]
             f == Stops(v, i, {"P", "N"})
  <2>1. /\ f = [k \in TaTimers |-> IF k \in {"P", "N"} THEN "off" ELSE m[k]]
        /\ g \in [TaTimers -> TimerType]
    BY <1>1 DEF Stops, WorldType
  <2>2. \A k \in TaTimers : f[k] = g[k]
    BY <2>1
  <2> HIDE DEF g
  <2>3. f = g
    BY <2>1, <2>2
  <2>4. QED
    BY <2>3 DEF g
<1> HIDE DEF z
<1>5. Turns(w, i, "Calling", w.tm[i], z)
  BY <1>3, <1>4, TurnsTrans
<1>6. z = w
  BY <1>5, TurnsBack
<1>7. QED
  BY <1>6 DEF z

Rings(v, i, c, T) ==
  Then(TaReceiveResponseL(v, i, c, "Calling", T), LAMBDA u :
    Yes(StopTimers(u, i, {"A", "B"})))

LEMMA RingsOnError ==
  ASSUME NEW w, NEW i \in Ta, Inv(w), Runs(w.ta, w.del, i),
         w.ta[i].state = "Calling", NEW c \in {"busy", "auth", "reject"},
         c = "auth" /\ Secure => w.ua.n + w.ua.addrs < MaxTa,
         NEW r \in Rings(w, i, c, {})
  PROVE  Takes(w, i, r)
<1>1. PICK p \in TaReceiveResponseL(w, i, c, "Calling", {}) :
        r \in IF p.left = "no" /\ p.yes
              THEN Yes(StopTimers(p.w, i, {"A", "B"})) ELSE {p}
  BY DEF Rings, Then
<1>2. \/ p.left \in {"nomem", "other"} /\ Inv(p.w)
         /\ Runs(p.w.ta, p.w.del, i)
      \/ Done(p) /\ Acknowledges(p.w, i)
  BY <1>1, ErrorResponseGood
<1>3. CASE p.left \in {"nomem", "other"} /\ Inv(p.w)
           /\ Runs(p.w.ta, p.w.del, i)
  <2>1. r = p
    BY <1>1, <1>3
  <2>2. QED
    BY <1>3, <2>1, InvIsNearly DEF Takes
<1>4. CASE Done(p) /\ Acknowledges(p.w, i)
  <2>1. r.left = "no" /\ r.w = StopTimers(p.w, i, {"A", "B"})
    BY <1>1, <1>4 DEF Done, Yes
  <2>2. QED
    BY <1>4, <2>1, AcknowledgedGood DEF Takes
<1>5. QED
  BY <1>2, <1>3, <1>4

LEMMA RingsGood ==
  ASSUME NEW w, NEW i \in Ta, Nearly(w, i), Runs(w.ta, w.del, i),
         w.ta[i].state \in {"Calling", "Proceeding"},
         w.tm[i]["B"] # "stale", w.tm[i]["D"] # "stale",
         NEW c \in {"prov", "ok"}, w.ta[i].state = "Calling" => c = "ok",
         w.ta[i].state = "Proceeding" => w.ua.stopped \/ w.tm[i]["P"] = "on",
         NEW T, NEW r \in Rings(w, i, c, T)
  PROVE  \/ r.left = "no" /\ Inv(r.w)
         \/ ~w.ua.stopped /\ Refuses(r) /\ r.w = RestoreTa(w, i, "Calling", T)
<1>1. PICK p \in TaReceiveResponseL(w, i, c, "Calling", T) :
        r \in IF p.left = "no" /\ p.yes
              THEN Yes(StopTimers(p.w, i, {"A", "B"})) ELSE {p}
  BY DEF Rings, Then
<1>2. \/ /\ Done(p)
         /\ Listens(w, c, p.w) \/ (Accepting(w) /\ Accepts(w, p.w))
      \/ ~w.ua.stopped /\ Refuses(p) /\ p.w = RestoreTa(w, i, "Calling", T)
  BY <1>1, ResponseGood
<1>3. CASE /\ Done(p)
           /\ Listens(w, c, p.w) \/ (Accepting(w) /\ Accepts(w, p.w))
  <2>1. r.left = "no" /\ r.w = StopTimers(p.w, i, {"A", "B"})
    BY <1>1, <1>3 DEF Done, Yes
  <2>2. Inv(r.w)
    BY <1>3, <2>1, HeardGood
  <2>3. QED
    BY <2>1, <2>2
<1>4. CASE ~w.ua.stopped /\ Refuses(p) /\ p.w = RestoreTa(w, i, "Calling", T)
  <2>1. r = p
    BY <1>1, <1>4 DEF Refuses
  <2>2. QED
    BY <1>4, <2>1
<1>5. QED
  BY <1>2, <1>3, <1>4

LEMMA CallingReceiveIs ==
  ASSUME NEW w, NEW i, NEW c, NEW r \in CallingReceiveL(w, i, c)
  PROVE  \E p \in IF c = "prov" THEN First(w, i) ELSE Yes(w) :
           r \in IF p.left = "no" /\ p.yes
                 THEN Rings(p.w, i, c, IF c = "prov" THEN {"P", "N"} ELSE {})
                 ELSE {p}
<1> DEFINE T == IF c = "prov" THEN {"P", "N"} ELSE {}
           S == IF c = "prov" THEN First(w, i) ELSE Yes(w)
<1>1. r \in Then(S, LAMBDA v : Rings(v, i, c, T))
  BY DEF CallingReceiveL, Rings, First, Then, Assert
<1> HIDE DEF S, T
<1>2. \E p \in S : r \in IF p.left = "no" /\ p.yes
                         THEN Rings(p.w, i, c, T) ELSE {p}
  BY <1>1 DEF Then
<1>3. QED
  BY <1>2 DEF S, T

LEMMA CallingReceiveGood ==
  ASSUME NEW w, NEW i \in Ta, Inv(w), Runs(w.ta, w.del, i),
         w.ta[i].state = "Calling", NEW c \in Responses,
         c = "auth" /\ Secure => w.ua.n + w.ua.addrs < MaxTa,
         NEW r \in CallingReceiveL(w, i, c)
  PROVE  Takes(w, i, r)
<1>1. /\ Nearly(w, i) /\ w \in WorldType
      /\ w.tm[i] \in [TaTimers -> TimerType]
      /\ w.tm[i]["B"] # "stale" /\ w.tm[i]["D"] # "stale"
      /\ ~w.ua.stopped => w.tm[i]["P"] = "off" /\ w.tm[i]["N"] = "off"
  BY CallingOf
<1>2. CASE c # "prov"
  <2>1. r \in Rings(w, i, c, {})
    <3>1. PICK p \in Yes(w) :
            r \in IF p.left = "no" /\ p.yes THEN Rings(p.w, i, c, {}) ELSE {p}
      BY <1>2, CallingReceiveIs
    <3>2. p.left = "no" /\ p.yes /\ p.w = w
      BY <3>1 DEF Yes
    <3>3. QED
      BY <3>1, <3>2
  <2>2. CASE c = "ok"
    <3>1. \/ r.left = "no" /\ Inv(r.w)
          \/ Refuses(r) /\ r.w = RestoreTa(w, i, "Calling", {})
      BY <1>1, <2>1, <2>2, RingsGood
    <3>2. RestoreTa(w, i, "Calling", {}) = w
      BY <1>1, RestoredIs
    <3>3. QED
      BY <1>1, <3>1, <3>2 DEF Takes, Refuses
  <2>3. CASE c # "ok"
    <3>1. c \in {"busy", "auth", "reject"}
      BY <1>2, <2>3 DEF Responses
    <3>2. QED
      BY <2>1, <3>1, RingsOnError
  <2>4. QED
    BY <2>2, <2>3
<1>3. CASE c = "prov"
  <2>1. PICK p \in First(w, i) :
          r \in IF p.left = "no" /\ p.yes
                THEN Rings(p.w, i, c, {"P", "N"}) ELSE {p}
    BY <1>3, CallingReceiveIs
  <2>2. Proceeds(w, i, p)
    BY <1>1, <2>1, FirstGood
  <2>3. ASSUME p.left \in {"nomem", "other"},
               NEW m \in [TaTimers -> TimerType],
               Turns(w, i, "Calling", m, p.w)
        PROVE  Takes(w, i, r)
    <3>1. r = p
      BY <2>1, <2>3
    <3>2. Nearly(p.w, i) /\ Runs(p.w.ta, p.w.del, i)
      BY <1>1, <2>3, TurnsGood
    <3>3. QED
      BY <2>3, <3>1, <3>2 DEF Takes
  <2>4. ASSUME Done(p), NEW m \in [TaTimers -> TimerType],
               Turns(w, i, "Proceeding", m, p.w), m["P"] = "on",
               \A k \in TaTimers : k \notin {"P", "N"} => m[k] = w.tm[i][k]
        PROVE  Takes(w, i, r)
    <3> DEFINE v == p.w
    <3>1. r \in Rings(v, i, c, {"P", "N"})
      BY <2>1, <2>4 DEF Done
    <3>2. /\ Nearly(v, i) /\ Runs(v.ta, v.del, i)
          /\ v.ta[i].state = "Proceeding"
      BY <1>1, <2>4, TurnsGood
    <3>3. v.tm[i] = m /\ v.ua = w.ua /\ v \in WorldType
      BY <2>4 DEF Turns
    <3>4. v.tm[i]["B"] # "stale" /\ v.tm[i]["D"] # "stale"
      BY <1>1, <2>4, <3>3 DEF TaTimers
    <3>5. \/ r.left = "no" /\ Inv(r.w)
          \/ /\ ~v.ua.stopped /\ Refuses(r)
             /\ r.w = RestoreTa(v, i, "Calling", {"P", "N"})
      BY <1>3, <2>4, <3>1, <3>2, <3>3, <3>4, RingsGood
    <3>6. ~v.ua.stopped => RestoreTa(v, i, "Calling", {"P", "N"}) = w
      BY <1>1, <2>4, <3>3, FirstUndone
    <3>7. QED
      BY <1>1, <3>5, <3>6 DEF Takes, Refuses
  <2>5. QED
    BY <2>2, <2>3, <2>4 DEF Proceeds
<1>4. QED
  BY <1>2, <1>3

LEMMA TaReceiveGood ==
  ASSUME NEW w, NEW i \in Ta, Inv(w), Here(w.ta, w.del, i),
         NEW c \in Responses,
         c = "auth" /\ Secure => w.ua.n + w.ua.addrs < MaxTa,
         NEW r \in TaReceiveL(w, i, c)
  PROVE  Takes(w, i, r)
<1>1. CASE w.ta[i].over
  <2>1. r \in Yes(w)
    BY <1>1 DEF TaReceiveL
  <2>2. QED
    BY <2>1 DEF Yes, Takes
<1>2. CASE ~w.ta[i].over
  <2>1. Runs(w.ta, w.del, i)
    BY <1>2 DEF Runs
  <2>2. w.ta[i].state \in {"Calling", "Proceeding", "Completed"}
    BY DEF Inv, Core, Body, WorldType, TaType, Here
  <2>3. CASE w.ta[i].state = "Calling"
    BY <1>2, <2>1, <2>3, CallingReceiveGood DEF TaReceiveL
  <2>4. CASE w.ta[i].state = "Proceeding"
    BY <1>2, <2>1, <2>4, ProceedingReceiveGood DEF TaReceiveL
  <2>5. CASE w.ta[i].state = "Completed"
    <3>1. r \in CompletedReceiveL(w, i, c)
      BY <1>2, <2>5 DEF TaReceiveL
    <3>2. CASE r \in Yes(w)
      BY <3>2 DEF Yes, Takes
    <3>3. CASE r \in SendToTransmitterL(w, i)
      <4>1. Nearly(w, i) /\ Whole(w, i)
        BY NearlyWhole
      <4>2. /\ r.left \in {"no", "nomem", "other"}
            /\ r.left # "no" => r.w = w
            /\ Nearly(r.w, i) /\ Whole(r.w, i)
        BY <2>1, <3>3, <4>1, SendToTransmitterGood
      <4>3. CASE r.left = "no"
        BY <4>2, <4>3, NearlyWhole DEF Takes
      <4>4. CASE r.left # "no"
        BY <2>1, <4>1, <4>2, <4>4 DEF Takes
      <4>5. QED
        BY <4>3, <4>4
    <3>4. QED
      BY <3>1, <3>2, <3>3 DEF CompletedReceiveL
  <2>6. QED
    BY <2>2, <2>3, <2>4, <2>5
<1>3. QED
  BY <1>1, <1>2

-----------------------------------------------------------------------------
(* Events of a transaction.                                                *)

(* Where the handler of a transaction's event leaves.                      *)
TaLeft(w, i) ==
  \/ Nearly(w, i) /\ Runs(w.ta, w.del, i)
  \/ Inv(w) /\ w.ta[i].over /\ (w.ta[i].att => Calm(w))

LEMMA TaLeftGood ==
  ASSUME NEW w, NEW i \in Ta, TaLeft(w, i), NEW r \in TaLeaveOccurred(w, i)
  PROVE  Inv(r.w)
<1>1. CASE Nearly(w, i) /\ Runs(w.ta, w.del, i)
  <2>1. Here(w.ta, w.del, i) /\ ~w.ta[i].over
    BY <1>1 DEF Runs
  <2>2. QED
    BY <1>1, <2>1, TaLeaveOccurredGood
<1>2. CASE Inv(w) /\ w.ta[i].over /\ (w.ta[i].att => Calm(w))
  <2>1. TerminatedL(w, i, "other") = Yes(w)
    BY <1>2 DEF TerminatedL
  <2>2. PICK p \in Trap(Yes(w)) :
          r \in IF p.left = "no" /\ p.yes
                THEN IF p.w.ta[i].att THEN Stop(p.w) ELSE Yes(p.w)
                ELSE {p}
    BY <2>1 DEF TaLeaveOccurred, Then
  <2>3. p.w = w /\ p.left = "no" /\ p.yes
    BY <2>2 DEF Yes, Trap
  <2>4. CASE w.ta[i].att
    BY <1>2, <2>2, <2>3, <2>4, StopGood DEF Calm, Inv
  <2>5. CASE ~w.ta[i].att
    BY <1>2, <2>2, <2>3, <2>5 DEF Yes
  <2>6. QED
    BY <2>4, <2>5
<1>3. QED
  BY <1>1, <1>2 DEF TaLeft

LEMMA TerminatedLLeft ==
  ASSUME NEW w, NEW i \in Ta, Nearly(w, i), Runs(w.ta, w.del, i), NEW why,
         NEW r \in TerminatedL(w, i, why)
  PROVE  /\ Inv(r.w) /\ r.w.ta[i].over /\ TaLeft(r.w, i)
         /\ r.left \in {"no", "nomem", "other"} /\ (r.left = "no" => r.yes)
<1>1. Here(w.ta, w.del, i) /\ ~w.ta[i].over
  BY DEF Runs
<1>2. /\ Inv(r.w) /\ r.w.ta[i].over
      /\ r.left \in {"no", "nomem", "other"} /\ (r.left = "no" => r.yes)
      /\ r.w.ta[i].att = w.ta[i].att
      /\ w.ta[i].att => Calm(r.w)
  BY <1>1, TerminatedLGood
<1>3. QED
  BY <1>2 DEF TaLeft

(* The timers of a transaction that runs are as they should be.            *)
LEMMA TimersWhole ==
  ASSUME NEW w, NEW i \in Ta, Nearly(w, i), Runs(w.ta, w.del, i),
         NEW m \in [TaTimers -> TimerType], NEW z, Ticks(w, i, m, z),
         m["B"] # "stale", m["D"] # "stale",
         w.ta[i].state = "Calling" /\ ~w.ua.stopped =>
           m["P"] = "off" /\ m["N"] = "off" /\ m["B"] = "on",
         w.ta[i].state = "Proceeding" /\ ~w.ua.stopped => m["P"] = "on",
         w.ta[i].state = "Completed" => m["D"] = "on"
  PROVE  Inv(z)
<1>1. w.ta[i].state # "none" /\ i \notin w.del.gone /\ Body(w)
  BY DEF Runs, Here, Nearly
<1>2. Nearly(z, i)
  BY <1>1, TicksGood
<1>3. z.ta = w.ta /\ z.tx = w.tx /\ z.ua = w.ua /\ z.del = w.del /\ z.tm[i] = m
  BY DEF Ticks
<1>4. w.ta[i].indep => w.ta[i].state = "Completed"
  BY <1>1, CurrentOrLetGo
<1>5. Timed(z.ta, z.tm, z.tx, z.del, i)
  BY <1>3, <1>4 DEF Timed
<1>6. w.ua.cur = i /\ ~w.ua.stopped =>
        CurrentEnds(z.ta, z.tm, z.tx, z.ua, z.del, z.hist)
  BY <1>3 DEF CurrentEnds
<1>7. QED
  BY <1>2, <1>3, <1>5, <1>6, NearlyWhole DEF Whole

LEMMA TicksNearly ==
  ASSUME NEW w, NEW i \in Ta, Nearly(w, i), Runs(w.ta, w.del, i),
         NEW m \in [TaTimers -> TimerType], NEW z, Ticks(w, i, m, z)
  PROVE  /\ Nearly(z, i) /\ Runs(z.ta, z.del, i) /\ z \in WorldType
         /\ z.ta = w.ta /\ z.ua = w.ua /\ z.tm[i] = m
<1>1. w.ta[i].state # "none" /\ i \notin w.del.gone
  BY DEF Runs, Here
<1>2. Nearly(z, i)
  BY <1>1, TicksGood
<1>3. QED
  BY <1>2 DEF Ticks

(* A send of the transaction has completed.                                *)
Sent(w, k, i, z) ==
  /\ Nearly(z, i) /\ Runs(z.ta, z.del, i)
  /\ z.ta = w.ta /\ z.tm = w.tm /\ z.ua = w.ua /\ z.del = w.del
  /\ z.st = w.st /\ z.hist = w.hist /\ z.ut = w.ut

LEMMA SentIs ==
  ASSUME NEW w, Inv(w), NEW k \in Obj, w.tx[k] = "ta",
         NEW i, i = IF k = Ua THEN w.ua.cur ELSE k
  PROVE  i \in Ta /\ Sent(w, k, i, [w EXCEPT !.tx[k] = "idle"])
         /\ Runs(w.ta, w.del, i)
<1> DEFINE z == [w EXCEPT !.tx[k] = "idle"]
<1>1. /\ w \in WorldType /\ w.ta \in [Ta -> TaType]
      /\ w.tm \in [Ta -> [TaTimers -> TimerType]]
      /\ w.tx \in [Obj -> {"idle", "ta", "ua"}] /\ w.ua.cur \in Obj
      /\ Body(w)
  BY DEF Inv, Core, Body, WorldType, UaType
<1>2. i \in Ta /\ ~w.ta[i].over /\ i \notin w.del.gone /\ (k # Ua => k = i)
      /\ (k = i => w.ta[i].indep) /\ (k = Ua => i = w.ua.cur)
  BY <1>1, Ids DEF Body, Sending, Current, Ua
<1>3. w.ta[i].state # "none"
  BY <1>1, <1>2, Ids DEF Body, Made
<1>4. Runs(w.ta, w.del, i)
  BY <1>2, <1>3 DEF Runs, Here
<1> DEFINE t == w.ta[i]
           m == w.tm[i]
<1>5. z = With(w, i, t, m, k, "idle")
  <2> DEFINE ta1 == [w.ta EXCEPT ![i] = t]
             tm1 == [w.tm EXCEPT ![i] = m]
             tx1 == [w.tx EXCEPT ![k] = "idle"]
  <2>1. ta1 = w.ta /\ tm1 = w.tm
    BY <1>1
  <2>2. /\ With(w, i, t, m, k, "idle")
             = [w EXCEPT !.ta = ta1, !.tm = tm1, !.tx = tx1]
        /\ z = [w EXCEPT !.tx = tx1]
    BY DEF With
  <2> HIDE DEF ta1, tm1, tx1, z, t, m
  <2>3. [w EXCEPT !.ta = w.ta, !.tm = w.tm, !.tx = tx1]
          = [w EXCEPT !.tx = tx1]
    BY <1>1 DEF WorldType
  <2>4. QED
    BY <2>1, <2>2, <2>3
<1>6. /\ t \in TaType /\ m \in [TaTimers -> TimerType] /\ k \in {Ua, i}
      /\ ~t.att => t.state = "Completed"
      /\ t.state = "Completed" => t.msg = "ack"
  BY <1>1, <1>2, <1>4 DEF Body, Attached, Acked
<1>7. Changes(w, i, t, m, k, "idle")
  BY <1>2, <1>3, <1>6 DEF Changes
<1> HIDE DEF z
<1>8. Nearly(z, i) /\ IsWith(w, i, t, m, k, "idle", z)
  BY <1>2, <1>5, <1>7, InvIsNearly, ChangesGood
<1>9. z.ta = w.ta /\ z.tm = w.tm
  <2> DEFINE f == z.ta
             g == w.ta
             h == z.tm
             n == w.tm
  <2>1. /\ f \in [Ta -> TaType] /\ g \in [Ta -> TaType]
        /\ h \in [Ta -> [TaTimers -> TimerType]]
        /\ n \in [Ta -> [TaTimers -> TimerType]]
    BY <1>1, <1>8 DEF WorldType, IsWith
  <2>2. (\A j \in Ta : f[j] = g[j]) /\ (\A j \in Ta : h[j] = n[j])
    BY <1>8 DEF IsWith
  <2> HIDE DEF f, g, h, n
  <2>3. f = g
    BY <2>1, <2>2
  <2>4. h = n
    BY <2>1, <2>2
  <2>5. QED
    BY <2>3, <2>4 DEF f, g, h, n
<1>10. Sent(w, k, i, z)
  BY <1>4, <1>8, <1>9 DEF IsWith, Sent
<1>11. QED
  BY <1>2, <1>4, <1>10 DEF z

Completes(w, i, r) ==
  \/ r.left = "no" /\ Inv(r.w)
  \/ /\ r.left \in {"nomem", "other"}
     /\ Nearly(r.w, i) /\ Runs(r.w.ta, r.w.del, i)

Lacks(w, p) == p.left = "nomem" /\ p.w = w

(* Timer B is running.                                                     *)
WithB(w, i, p) ==
  \/ Lacks(w, p)
  \/ /\ Done(p)
     /\ \E m \in [TaTimers -> TimerType] :
          /\ Ticks(w, i, m, p.w) /\ m["B"] = "on"
          /\ \A k \in TaTimers : k # "B" => m[k] = w.tm[i][k]

LEMMA WithBIs ==
  ASSUME NEW w \in WorldType, NEW i \in Ta, w.tm[i]["B"] # "stale",
         NEW p \in IF w.tm[i]["B"] = "off" THEN Start(w, i, "B") ELSE Yes(w)
  PROVE  WithB(w, i, p)
<1>1. /\ w.tm[i] \in [TaTimers -> TimerType] /\ Ticks(w, i, w.tm[i], w)
      /\ "B" \in TaTimers
  BY TicksSelf DEF TaTimers
<1>2. CASE w.tm[i]["B"] = "off"
  <2> DEFINE m == Starts(w, i, "B")
  <2>1. /\ m \in [TaTimers -> TimerType]
        /\ \/ p.left = "nomem" /\ p.w = w
           \/ Done(p) /\ Ticks(w, i, m, p.w)
    BY <1>1, <1>2, StartIs
  <2>2. m["B"] = "on" /\ \A k \in TaTimers : k # "B" => m[k] = w.tm[i][k]
    BY <1>1 DEF Starts
  <2> HIDE DEF m
  <2>3. QED
    BY <2>1, <2>2 DEF WithB, Lacks
<1>3. CASE w.tm[i]["B"] # "off"
  <2>1. Done(p) /\ p.w = w
    BY <1>3 DEF Yes, Done
  <2>2. w.tm[i]["B"] = "on"
    BY <1>1, <1>3 DEF TimerType
  <2>3. QED
    BY <1>1, <2>1, <2>2 DEF WithB
<1>4. QED
  BY <1>2, <1>3

LEMMA SendCompleteCallingGood ==
  ASSUME NEW w, NEW i \in Ta, Nearly(w, i), Runs(w.ta, w.del, i),
         w.ta[i].state = "Calling",
         w.tm[i]["B"] # "stale", w.tm[i]["D"] # "stale",
         ~w.ua.stopped => w.tm[i]["P"] = "off" /\ w.tm[i]["N"] = "off",
         NEW r \in SendCompleteL(w, i)
  PROVE  Completes(w, i, r)
<1>1. w \in WorldType /\ ~w.ta[i].over
  BY DEF Nearly, Body, Runs
<1>2. PICK p \in IF w.tm[i]["B"] = "off" THEN Start(w, i, "B") ELSE Yes(w) :
        r \in IF p.left = "no" /\ p.yes
              THEN IF ~p.w.ta[i].udp THEN Yes(p.w)
                   ELSE IF p.w.tm[i]["A"] = "off" THEN Start(p.w, i, "A")
                        ELSE Leave(p.w, "other")
              ELSE {p}
  BY <1>1 DEF SendCompleteL, Then, Assert
<1>3. WithB(w, i, p)
  BY <1>1, <1>2, WithBIs
<1>4. CASE Lacks(w, p)
  <2>1. r = p
    BY <1>2, <1>4 DEF Lacks
  <2>2. QED
    BY <1>4, <2>1 DEF Lacks, Completes
<1>5. ASSUME Done(p), NEW m \in [TaTimers -> TimerType],
             Ticks(w, i, m, p.w), m["B"] = "on",
             \A k \in TaTimers : k # "B" => m[k] = w.tm[i][k]
      PROVE  Completes(w, i, r)
  <2> DEFINE v == p.w
  <2>1. /\ Nearly(v, i) /\ Runs(v.ta, v.del, i) /\ v \in WorldType
        /\ v.ta = w.ta /\ v.ua = w.ua /\ v.tm[i] = m
    BY <1>5, TicksNearly
  <2>2. /\ m["B"] # "stale" /\ m["D"] # "stale"
        /\ ~w.ua.stopped => m["P"] = "off" /\ m["N"] = "off"
    BY <1>5 DEF TaTimers
  <2>3. Inv(v)
    BY <1>5, <2>2, TimersWhole
  <2>4. CASE r \in Yes(v)
    BY <2>3, <2>4 DEF Yes, Completes
  <2>5. CASE r \in Leave(v, "other")
    BY <2>1, <2>5 DEF Leave, Completes
  <2>6. CASE r \in Start(v, i, "A")
    <3> DEFINE n == Starts(v, i, "A")
    <3>1. "A" \in TaTimers
      BY DEF TaTimers
    <3>2. /\ n \in [TaTimers -> TimerType]
          /\ \/ r.left = "nomem" /\ r.w = v
             \/ Done(r) /\ Ticks(v, i, n, r.w)
      BY <2>1, <2>6, <3>1, StartIs
    <3>3. \A k \in TaTimers : k # "A" => n[k] = m[k]
      BY <2>1 DEF Starts
    <3> HIDE DEF n
    <3>4. CASE r.left = "nomem" /\ r.w = v
      BY <2>1, <3>4 DEF Completes
    <3>5. CASE Done(r) /\ Ticks(v, i, n, r.w)
      <4>1. /\ n["B"] = "on" /\ n["D"] # "stale"
            /\ ~w.ua.stopped => n["P"] = "off" /\ n["N"] = "off"
        BY <1>5, <2>2, <3>3 DEF TaTimers
      <4>2. Inv(r.w)
        BY <2>1, <3>2, <3>5, <4>1, TimersWhole
      <4>3. QED
        BY <3>5, <4>2 DEF Completes, Done
    <3>6. QED
      BY <3>2, <3>4, <3>5
  <2>7. QED
    BY <1>2, <1>5, <2>4, <2>5, <2>6 DEF Done
<1>6. QED
  BY <1>3, <1>4, <1>5 DEF WithB

LEMMA SendCompleteGood ==
  ASSUME NEW w, NEW i \in Ta, Nearly(w, i), Runs(w.ta, w.del, i),
         w.tm[i]["B"] # "stale", w.tm[i]["D"] # "stale",
         w.ta[i].state = "Calling" /\ ~w.ua.stopped =>
           w.tm[i]["P"] = "off" /\ w.tm[i]["N"] = "off",
         w.ta[i].state = "Proceeding" /\ ~w.ua.stopped =>
           w.tm[i]["P"] = "on",
         NEW r \in SendCompleteL(w, i)
  PROVE  Completes(w, i, r)
<1>1. /\ w \in WorldType /\ ~w.ta[i].over
      /\ w.tm[i] \in [TaTimers -> TimerType] /\ Ticks(w, i, w.tm[i], w)
      /\ w.ta[i].state \in {"Calling", "Proceeding", "Completed"}
  BY TicksSelf DEF Nearly, Body, Runs, Here, WorldType, TaType
<1>2. CASE w.ta[i].state = "Calling"
  BY <1>2, SendCompleteCallingGood
<1>3. CASE w.ta[i].state = "Proceeding"
  <2>1. r \in StartTimerNATL(w, i)
    BY <1>1, <1>3 DEF SendCompleteL
  <2>2. CASE r.left = "nomem" /\ r.w = w
    BY <2>2 DEF Completes
  <2>3. ASSUME Done(r), NEW m \in [TaTimers -> TimerType],
               Ticks(w, i, m, r.w),
               \A k \in TaTimers : k # "N" => m[k] = w.tm[i][k]
        PROVE  Completes(w, i, r)
    <3>1. /\ m["B"] # "stale" /\ m["D"] # "stale"
          /\ ~w.ua.stopped => m["P"] = "on"
      BY <1>3, <2>3 DEF TaTimers
    <3>2. Inv(r.w)
      BY <1>3, <2>3, <3>1, TimersWhole
    <3>3. QED
      BY <2>3, <3>2 DEF Completes, Done
  <2>4. QED
    BY <1>1, <2>1, <2>2, <2>3, StartTimerNATIs
<1>4. CASE w.ta[i].state = "Completed"
  <2>1. r \in IF w.tm[i]["D"] = "off" THEN Start(w, i, "D") ELSE Yes(w)
    BY <1>1, <1>4 DEF SendCompleteL
  <2>2. CASE w.tm[i]["D"] = "off"
    <3> DEFINE n == Starts(w, i, "D")
    <3>1. "D" \in TaTimers
      BY DEF TaTimers
    <3>2. /\ n \in [TaTimers -> TimerType]
          /\ \/ r.left = "nomem" /\ r.w = w
             \/ Done(r) /\ Ticks(w, i, n, r.w)
      BY <1>1, <2>1, <2>2, <3>1, StartIs
    <3>3. n["D"] = "on" /\ n["B"] # "stale"
      BY <1>1 DEF Starts, TaTimers
    <3> HIDE DEF n
    <3>4. CASE r.left = "nomem" /\ r.w = w
      BY <3>4 DEF Completes
    <3>5. CASE Done(r) /\ Ticks(w, i, n, r.w)
      <4>1. Inv(r.w)
        BY <1>4, <3>2, <3>3, <3>5, TimersWhole
      <4>2. QED
        BY <3>5, <4>1 DEF Completes, Done
    <3>6. QED
      BY <3>2, <3>4, <3>5
  <2>3. CASE w.tm[i]["D"] # "off"
    <3>1. w.tm[i]["D"] = "on"
      BY <1>1, <2>3 DEF TimerType, TaTimers
    <3>2. Inv(w)
      BY <1>1, <1>4, <3>1, TimersWhole
    <3>3. QED
      BY <2>1, <2>3, <3>2 DEF Yes, Completes
  <2>4. QED
    BY <2>2, <2>3
<1>5. QED
  BY <1>1, <1>2, <1>3, <1>4

(* Timers A and N only send again.                                         *)
LEMMA ResendTimersGood ==
  ASSUME NEW w, NEW i \in Ta, Inv(w), Runs(w.ta, w.del, i),
         NEW m \in [TaTimers -> TimerType], NEW z, Ticks(w, i, m, z),
         m["B"] = w.tm[i]["B"], m["D"] = w.tm[i]["D"], m["P"] = w.tm[i]["P"],
         w.ta[i].state = "Calling" /\ ~w.ua.stopped => m["N"] = "off"
  PROVE  Inv(z)
<1>1. /\ Nearly(w, i) /\ Whole(w, i)
      /\ w.ta[i].state # "none" /\ i \notin w.del.gone
  BY NearlyWhole DEF Runs, Here
<1>2. Nearly(z, i)
  BY <1>1, TicksGood
<1>3. /\ z.ta = w.ta /\ z.tx = w.tx /\ z.ua = w.ua /\ z.del = w.del
      /\ z.hist = w.hist /\ z.tm[i] = m
  BY DEF Ticks
<1>4. Timed(z.ta, z.tm, z.tx, z.del, i)
  BY <1>1, <1>3 DEF Whole, Timed
<1>5. w.ua.cur = i /\ ~w.ua.stopped =>
        CurrentEnds(z.ta, z.tm, z.tx, z.ua, z.del, z.hist)
  BY <1>1, <1>3 DEF Whole, CurrentEnds
<1>6. QED
  BY <1>2, <1>3, <1>4, <1>5, NearlyWhole DEF Whole

Ran(v, i, t) == IF v.tm[i][t] = "stale" THEN StopTimers(v, i, {t}) ELSE v

LEMMA RanOver ==
  ASSUME NEW v, Inv(v), NEW i \in Ta, v.ta[i].over, NEW t \in TaTimers
  PROVE  Inv(Ran(v, i, t))
<1> DEFINE m == Stops(v, i, {t})
           z == StopTimers(v, i, {t})
<1>1. v \in WorldType
  BY DEF Inv, Core, Body
<1>2. m \in [TaTimers -> TimerType] /\ Ticks(v, i, m, z)
  BY <1>1, StopTimersIs
<1> HIDE DEF m, z
<1>3. Inv(z)
  BY <1>2, TicksOver
<1>4. QED
  BY <1>3 DEF Ran, z

LEMMA RanResend ==
  ASSUME NEW v, Inv(v), NEW i \in Ta, Runs(v.ta, v.del, i),
         NEW t \in {"A", "N"}
  PROVE  Inv(Ran(v, i, t))
<1> DEFINE m == Stops(v, i, {t})
           z == StopTimers(v, i, {t})
<1>1. v \in WorldType
  BY DEF Inv, Core, Body
<1>2. m \in [TaTimers -> TimerType] /\ Ticks(v, i, m, z)
  BY <1>1, StopTimersIs
<1>3. /\ m["B"] = v.tm[i]["B"] /\ m["D"] = v.tm[i]["D"]
      /\ m["P"] = v.tm[i]["P"]
      /\ m["N"] = "off" \/ m["N"] = v.tm[i]["N"]
  BY DEF Stops, TaTimers
<1>4. v.ta[i].state = "Calling" /\ ~v.ua.stopped => v.tm[i]["N"] = "off"
  BY CallingOf
<1> HIDE DEF m, z
<1>5. Inv(z)
  BY <1>2, <1>3, <1>4, ResendTimersGood
<1>6. QED
  BY <1>5 DEF Ran, z

LEMMA ExpiresGood ==
  ASSUME NEW w, Inv(w), NEW i \in Ta, Here(w.ta, w.del, i),
         NEW t \in TaTimers, NEW m \in [TaTimers -> TimerType],
         \A k \in TaTimers : k # t => m[k] = w.tm[i][k],
         NEW z, Ticks(w, i, m, z), w.tm[i][t] = "on"
  PROVE  /\ w.ta[i].over => Inv(z)
         /\ ~w.ta[i].over =>
              \A r \in Expired(i, t, z) :
                /\ Inv(r.w)
                /\ r.left = "no" => r.yes /\ Inv(Ran(r.w, i, t))
<1>6. CASE w.ta[i].over
  BY <1>6, TicksOver
<1>7. CASE ~w.ta[i].over
  <2>1. Runs(w.ta, w.del, i)
    BY <1>7 DEF Runs
  <2>2. Nearly(w, i)
    BY InvIsNearly
  <2>3. Nearly(z, i) /\ Runs(z.ta, z.del, i)
    BY <2>1, <2>2, TicksNearly
  <2>4. ASSUME NEW why, NEW r \in TerminatedL(z, i, why)
        PROVE  Inv(r.w) /\ (r.left = "no" => r.yes /\ Inv(Ran(r.w, i, t)))
    <3>1. Inv(r.w) /\ r.w.ta[i].over /\ (r.left = "no" => r.yes)
      BY <2>3, <2>4, TerminatedLLeft
    <3>2. QED
      BY <3>1, RanOver
  <2>5. CASE t \in {"A", "N"}
    <3>1. /\ m["B"] = w.tm[i]["B"] /\ m["D"] = w.tm[i]["D"]
          /\ m["P"] = w.tm[i]["P"]
      BY <2>5 DEF TaTimers
    <3>2. w.ta[i].state = "Calling" /\ ~w.ua.stopped => m["N"] = "off"
      <4>1. w.ta[i].state = "Calling" /\ ~w.ua.stopped => w.tm[i]["N"] = "off"
        BY <2>1, CallingOf
      <4>2. CASE t = "N"
        BY <4>1, <4>2
      <4>3. CASE t = "A"
        BY <4>1, <4>3 DEF TaTimers
      <4>4. QED
        BY <2>5, <4>2, <4>3
    <3>3. Inv(z)
      BY <2>1, <3>1, <3>2, ResendTimersGood
    <3>4. ASSUME NEW r \in Expired(i, t, z)
          PROVE  Inv(r.w) /\ (r.left = "no" => r.yes /\ Inv(Ran(r.w, i, t)))
      <4>1. r \in IF z.tx[TxOf(z, i)] = "idle" THEN SendToTransmitterL(z, i)
                  ELSE Yes(z)
        BY <2>5, <3>4 DEF Expired
      <4>2. CASE r \in Yes(z)
        BY <2>3, <2>5, <3>3, <4>2, RanResend DEF Yes
      <4>3. CASE r \in SendToTransmitterL(z, i)
        <5>1. Whole(z, i)
          BY <3>3, NearlyWhole
        <5>2. /\ (r.left = "no" => r.yes)
              /\ Nearly(r.w, i) /\ Whole(r.w, i)
              /\ r.w.ta = z.ta /\ r.w.del = z.del
          BY <2>3, <4>3, <5>1, SendToTransmitterGood
        <5>3. Inv(r.w) /\ Runs(r.w.ta, r.w.del, i)
          BY <2>3, <5>2, NearlyWhole
        <5>4. QED
          BY <2>5, <5>2, <5>3, RanResend
      <4>4. QED
        BY <4>1, <4>2, <4>3
    <3>5. QED
      BY <1>7, <3>4
  <2>6. CASE t \notin {"A", "N"}
    <3>1. Expired(i, t, z) = TerminatedL(z, i, "timeout")
          \/ Expired(i, t, z) = TerminatedL(z, i, "other")
      BY <2>6 DEF Expired
    <3>2. QED
      BY <1>7, <2>4, <3>1
  <2>7. QED
    BY <2>5, <2>6
<1>8. QED
  BY <1>6, <1>7

-----------------------------------------------------------------------------
(* Every event keeps the invariant.                                        *)

LEMMA BecomesInv ==
  ASSUME NEW STATE S, Becomes(S), \A r \in S : Inv(r.w)
  PROVE  IInv'
<1>1. PICK r \in S :
        World' = [ta |-> r.w.ta, tm |-> r.w.tm, tx |-> r.w.tx, ua |-> r.w.ua,
                  ut |-> r.w.ut, st |-> r.w.st, del |-> r.w.del,
                  hist |-> r.w.hist]
  BY DEF Becomes, World
<1>2. Inv(r.w) /\ r.w \in WorldType
  BY DEF Inv, Core, Body
<1>3. World' = r.w
  <2> DEFINE z == r.w
  <2>1. z = [ta |-> z.ta, tm |-> z.tm, tx |-> z.tx, ua |-> z.ua,
             ut |-> z.ut, st |-> z.st, del |-> z.del, hist |-> z.hist]
    <3>1. z \in WorldType
      BY <1>2
    <3> HIDE DEF z
    <3>2. QED
      BY <3>1 DEF WorldType
  <2>2. QED
    BY <1>1, <2>1
<1>4. IInv' <=> Inv(World')
  BY DEF IInv
<1>5. QED
  BY <1>2, <1>3, <1>4

(* World, field by field.                                                  *)
LEMMA WorldIs ==
  /\ World.ta = ta /\ World.tm = tm /\ World.tx = tx /\ World.ua = ua
  /\ World.ut = ut /\ World.st = st /\ World.del = del /\ World.hist = hist
BY DEF World

TimerRuns(w, i, t) ==
  LET z == [w EXCEPT !.tm[i][t] = "stale"] IN
  IF w.ta[i].over THEN Yes(z)
  ELSE Handled(Then(Expired(i, t, z), LAMBDA v : Yes(Ran(v, i, t))), Ignored)

LEMMA TimerRunsGood ==
  ASSUME NEW w, Inv(w), NEW i \in Ta, Here(w.ta, w.del, i),
         NEW t \in TaTimers, w.tm[i][t] = "on", NEW r \in TimerRuns(w, i, t)
  PROVE  Inv(r.w)
<1> DEFINE z == [w EXCEPT !.tm[i][t] = "stale"]
           m == [w.tm[i] EXCEPT ![t] = "stale"]
<1>1. /\ w \in WorldType /\ w.tm \in [Ta -> [TaTimers -> TimerType]]
      /\ w.tm[i] \in [TaTimers -> TimerType]
  BY DEF Inv, Core, Body, WorldType
<1>2. m \in [TaTimers -> TimerType]
  BY <1>1 DEF TimerType
<1>3. z = [w EXCEPT !.tm[i] = m]
  BY <1>1 DEF WorldType
<1>4. \A k \in TaTimers : k # t => m[k] = w.tm[i][k]
  BY <1>1
<1> HIDE DEF m
<1>5. Ticks(w, i, m, z)
  BY <1>1, <1>2, <1>3, TicksIs
<1>6. r \in IF w.ta[i].over THEN Yes(z)
            ELSE Handled(Then(Expired(i, t, z), LAMBDA v : Yes(Ran(v, i, t))),
                         Ignored)
  BY DEF TimerRuns
<1> HIDE DEF z
<1>7. /\ w.ta[i].over => Inv(z)
      /\ ~w.ta[i].over =>
           \A p \in Expired(i, t, z) :
             /\ Inv(p.w)
             /\ p.left = "no" => p.yes /\ Inv(Ran(p.w, i, t))
  BY <1>2, <1>4, <1>5, ExpiresGood
<1>8. CASE w.ta[i].over
  <2>1. r \in Yes(z)
    BY <1>6, <1>8 DEF Handled, Then
  <2>2. QED
    BY <1>7, <1>8, <2>1 DEF Yes
<1>9. CASE ~w.ta[i].over
  <2> DEFINE F == Then(Expired(i, t, z), LAMBDA v : Yes(Ran(v, i, t)))
  <2>1. r \in Handled(F, Ignored)
    BY <1>6, <1>9 DEF Handled, Then
  <2> HIDE DEF F
  <2>2. PICK q \in F : r \in IF q.left = "no" THEN {q} ELSE Yes(q.w)
    BY <2>1 DEF Handled, Ignored
  <2>3. PICK p \in Expired(i, t, z) :
          q \in IF p.left = "no" /\ p.yes THEN Yes(Ran(p.w, i, t)) ELSE {p}
    BY <2>2 DEF F, Then
  <2>4. /\ Inv(p.w)
        /\ p.left = "no" => p.yes /\ Inv(Ran(p.w, i, t))
    BY <1>7, <1>9, <2>3
  <2>5. Inv(q.w)
    <3>1. CASE p.left = "no"
      <4>1. q \in Yes(Ran(p.w, i, t))
        BY <2>3, <2>4, <3>1
      <4>2. q.w = Ran(p.w, i, t)
        BY <4>1 DEF Yes
      <4>3. QED
        BY <2>4, <3>1, <4>2
    <3>2. CASE p.left # "no"
      BY <2>3, <2>4, <3>2
    <3>3. QED
      BY <3>1, <3>2
  <2>6. r.w = q.w
    BY <2>2 DEF Yes
  <2>7. QED
    BY <2>5, <2>6
<1>10. QED
  BY <1>8, <1>9

LEMMA TaTimerStep ==
  ASSUME IInv, NEW i \in Ta, NEW t \in TaTimers, TaTimer(i, t)
  PROVE  IInv'
<1>1. Becomes(TimerRuns(World, i, t)) /\ TaLives(i) /\ tm[i][t] = "on"
  BY WorldIs DEF TaTimer, TimerRuns, Handled, Then, Ran
<1>2. /\ Inv(World) /\ Here(World.ta, World.del, i)
      /\ World.tm[i][t] = "on"
  BY <1>1, WorldIs DEF IInv, TaLives, Here
<1>3. \A r \in TimerRuns(World, i, t) : Inv(r.w)
  BY <1>2, TimerRunsGood
<1>4. QED
  BY <1>1, <1>3, BecomesInv

(* A send of a transaction ends.                                           *)
SentRuns(w, k, ok) ==
  LET i == IF k = Ua THEN w.ua.cur ELSE k
      z == [w EXCEPT !.tx[k] = "idle"]
  IN Handled(IF ok THEN SendCompleteL(z, i)
             ELSE TerminatedL(z, i, "failure") \cup TerminatedL(z, i, "other"),
             LAMBDA v, why : TaLeaveOccurred(v, i))

LEMMA SentRunsGood ==
  ASSUME NEW w, Inv(w), NEW k \in Obj, w.tx[k] = "ta", NEW ok \in BOOLEAN,
         NEW r \in SentRuns(w, k, ok)
  PROVE  Inv(r.w)
<1> DEFINE i == IF k = Ua THEN w.ua.cur ELSE k
           z == [w EXCEPT !.tx[k] = "idle"]
<1>1. i \in Ta /\ Sent(w, k, i, z) /\ Runs(w.ta, w.del, i)
  BY SentIs
<1>2. PICK p \in IF ok THEN SendCompleteL(z, i)
                 ELSE TerminatedL(z, i, "failure")
                      \cup TerminatedL(z, i, "other") :
        r \in IF p.left = "no" THEN {p} ELSE TaLeaveOccurred(p.w, i)
  BY DEF SentRuns, Handled
<1> HIDE DEF i, z
<1>3. /\ Nearly(z, i) /\ Runs(z.ta, z.del, i) /\ z.ta = w.ta
      /\ z.tm = w.tm /\ z.ua = w.ua
  BY <1>1 DEF Sent
<1>4. (p.left = "no" => Inv(p.w)) /\ (p.left # "no" => TaLeft(p.w, i))
  <2>1. CASE ok
    <3>1. p \in SendCompleteL(z, i)
      BY <1>2, <2>1
    <3>2. /\ z.tm[i]["B"] # "stale" /\ z.tm[i]["D"] # "stale"
          /\ z.ta[i].state = "Calling" /\ ~z.ua.stopped =>
               z.tm[i]["P"] = "off" /\ z.tm[i]["N"] = "off"
          /\ z.ta[i].state = "Proceeding" /\ ~z.ua.stopped =>
               z.tm[i]["P"] = "on"
      BY <1>1, <1>3, CallingOf
    <3>3. Completes(z, i, p)
      BY <1>1, <1>3, <3>1, <3>2, SendCompleteGood
    <3>4. QED
      BY <3>3 DEF Completes, TaLeft
  <2>2. CASE ~ok
    <3>1. PICK why : p \in TerminatedL(z, i, why)
      BY <1>2, <2>2
    <3>2. QED
      BY <1>1, <1>3, <3>1, TerminatedLLeft
  <2>3. QED
    BY <2>1, <2>2
<1>5. CASE p.left = "no"
  BY <1>2, <1>4, <1>5
<1>6. CASE p.left # "no"
  <2>1. r \in TaLeaveOccurred(p.w, i)
    BY <1>2, <1>6
  <2>2. QED
    BY <1>1, <1>4, <1>6, <2>1, TaLeftGood
<1>7. QED
  BY <1>5, <1>6

LEMMA TaSentStep ==
  ASSUME IInv, NEW k \in Obj, NEW ok \in BOOLEAN, TaSent(k, ok)
  PROVE  IInv'
<1>1. Becomes(SentRuns(World, k, ok)) /\ tx[k] = "ta"
  BY WorldIs DEF TaSent, SentRuns, Handled
<1>2. Inv(World) /\ World.tx[k] = "ta"
  BY <1>1, WorldIs DEF IInv
<1>3. \A r \in SentRuns(World, k, ok) : Inv(r.w)
  BY <1>2, SentRunsGood
<1>4. QED
  BY <1>1, <1>3, BecomesInv

(* A response that finds the user agent.                                   *)
Alone(w) == ~w.ua.stopped => w.ua.cur = 0

LEMMA AloneIsWhole ==
  ASSUME NEW w, Body(w), Steady(w), Alone(w),
         \A i \in Ta : Timed(w.ta, w.tm, w.tx, w.del, i)
  PROVE  Inv(w)
BY DEF Alone, Inv, Core, Rest, LetGo, CurrentEnds

LEMMA AloneStops ==
  ASSUME NEW w, Inv(w), Alone(w), NEW r \in Stop(w)
  PROVE  Inv(r.w)
<1>1. Core(w) /\ (~w.ua.stopped => w.ua.cur = 0)
  BY DEF Inv, Alone
<1>2. QED
  BY <1>1, StopGood

LEMMA UaReceiveAlone ==
  ASSUME NEW w, Inv(w), Alone(w), NEW c \in Responses,
         c = "auth" /\ Secure => w.ua.n + w.ua.addrs < MaxTa,
         NEW r \in UaReceiveL(w, c)
  PROVE  /\ Inv(r.w) /\ r.left \in {"no", "nomem", "other", "dialog"}
         /\ r.left # "no" => Alone(r.w)
         /\ r.left = "dialog" => r.w = w
<1>1. /\ Body(w) /\ Steady(w) /\ w \in WorldType
      /\ \A i \in Ta : Timed(w.ta, w.tm, w.tx, w.del, i)
  BY DEF Inv, Core, Rest, Body, LetGo
<1>2. CASE c \in {"prov", "ok"}
  <2>1. Hearing(w)
    BY <1>1 DEF Hearing, Accepting, Alone
  <2>2. Hears(w, c, r)
    BY <1>2, <2>1, UaReceiveLHears
  <2>3. CASE Refuses(r) /\ r.w = w
    BY <2>3 DEF Refuses
  <2>4. CASE Done(r) /\ Listens(w, c, r.w)
    <3>1. /\ Body(r.w) /\ Steady(r.w) /\ r.w.ua = w.ua
          /\ \A i \in Ta : Timed(r.w.ta, r.w.tm, r.w.tx, r.w.del, i)
      BY <1>1, <1>2, <2>4, ListensGood
    <3>2. Alone(r.w)
      BY <3>1 DEF Alone
    <3>3. QED
      BY <2>4, <3>1, <3>2, AloneIsWhole DEF Done
  <2>5. CASE Done(r) /\ Accepting(w) /\ Accepts(w, r.w)
    BY <2>5, AcceptsGood DEF Done
  <2>6. QED
    BY <2>2, <2>3, <2>4, <2>5 DEF Hears
<1>3. CASE c \in {"busy", "auth", "reject"}
  <2>1. Delays(w, c, r)
    BY <1>1, <1>3, UaReceiveLDelays
  <2>2. CASE r.left \in {"nomem", "other"} /\ Unmoved(w, r.w)
    <3>1. Inv(r.w)
      BY <2>2, UnmovedInv
    <3>2. r.w.ua.stopped = w.ua.stopped /\ r.w.ua.cur = w.ua.cur
      BY <2>2 DEF Unmoved, Same
    <3>3. Alone(r.w)
      BY <3>2 DEF Alone
    <3>4. QED
      BY <2>2, <3>1, <3>3
  <2>3. CASE Done(r) /\ r.w = w
    BY <2>3 DEF Done
  <2>4. CASE Done(r) /\ ~w.ua.stopped /\ w.ua.state = "WaitResponse"
             /\ Waits(w, c, r.w)
    <3>1. Delaying(w, c)
      BY <1>1 DEF Delaying, Alone
    <3>2. Body(r.w) /\ Steady(r.w)
      BY <1>3, <2>4, <3>1, WaitsGood
    <3>3. /\ r.w.ta = w.ta /\ r.w.tm = w.tm /\ r.w.tx = w.tx
          /\ r.w.del = w.del /\ r.w.ua.stopped = w.ua.stopped
          /\ r.w.ua.cur = w.ua.cur
      BY <2>4 DEF Waits, Same
    <3>4. Alone(r.w)
      BY <3>3 DEF Alone
    <3>5. \A i \in Ta : Timed(r.w.ta, r.w.tm, r.w.tx, r.w.del, i)
      BY <1>1, <3>3
    <3>6. Inv(r.w)
      BY <3>2, <3>4, <3>5, AloneIsWhole
    <3>7. QED
      BY <2>4, <3>6 DEF Done
  <2>5. QED
    BY <2>1, <2>2, <2>3, <2>4 DEF Delays
<1>4. QED
  BY <1>2, <1>3 DEF Responses

LEMMA FoundIsAlone ==
  ASSUME NEW w, Inv(w), w.st.rx = 0
  PROVE  Alone(w)
BY DEF Inv, Rest, Steady, Alone

(* A response is routed.                                                   *)
RouteRuns(w, b, c, u) ==
  Handled(IF u THEN UaReceiveL(w, c) ELSE TaReceiveL(w, b, c),
          LAMBDA v, why : IF why = "dialog" THEN Yes(v)
                          ELSE IF u THEN Stop(v) ELSE TaLeaveOccurred(v, b))

LEMMA RouteRunsGood ==
  ASSUME NEW w, Inv(w), NEW b \in Ta, Here(w.ta, w.del, b),
         NEW c \in Responses,
         c = "auth" /\ Secure => w.ua.n + w.ua.addrs < MaxTa,
         NEW u, u => Alone(w), NEW r \in RouteRuns(w, b, c, u)
  PROVE  Inv(r.w)
<1>1. PICK p \in IF u THEN UaReceiveL(w, c) ELSE TaReceiveL(w, b, c) :
        r \in IF p.left = "no" THEN {p}
              ELSE IF p.left = "dialog" THEN Yes(p.w)
              ELSE IF u THEN Stop(p.w) ELSE TaLeaveOccurred(p.w, b)
  BY DEF RouteRuns, Handled
<1>2. CASE u
  <2>1. p \in UaReceiveL(w, c)
    BY <1>1, <1>2
  <2>2. /\ Inv(p.w) /\ p.left \in {"no", "nomem", "other", "dialog"}
        /\ p.left # "no" => Alone(p.w)
    BY <1>2, <2>1, UaReceiveAlone
  <2>3. CASE p.left \in {"no", "dialog"}
    BY <1>1, <2>2, <2>3 DEF Yes
  <2>4. CASE p.left \notin {"no", "dialog"}
    <3>1. r \in Stop(p.w)
      BY <1>1, <1>2, <2>4
    <3>2. QED
      BY <2>2, <2>4, <3>1, AloneStops
  <2>5. QED
    BY <2>3, <2>4
<1>3. CASE ~u
  <2>1. p \in TaReceiveL(w, b, c)
    BY <1>1, <1>3
  <2>2. Takes(w, b, p)
    BY <2>1, TaReceiveGood
  <2>3. CASE p.left = "no" /\ Inv(p.w)
    BY <1>1, <2>3
  <2>4. CASE p.left \in {"nomem", "other"} /\ Nearly(p.w, b)
             /\ Runs(p.w.ta, p.w.del, b)
    <3>1. r \in TaLeaveOccurred(p.w, b)
      BY <1>1, <1>3, <2>4
    <3>2. TaLeft(p.w, b)
      BY <2>4 DEF TaLeft
    <3>3. QED
      BY <3>1, <3>2, TaLeftGood
  <2>5. CASE p.left = "dialog" /\ p.w = w
    BY <1>1, <2>5 DEF Yes
  <2>6. QED
    BY <2>2, <2>3, <2>4, <2>5 DEF Takes
<1>4. QED
  BY <1>2, <1>3

LEMMA RespondStep ==
  ASSUME IInv, NEW b \in Ta, NEW c \in Responses, Respond(b, c)
  PROVE  IInv'
<1> DEFINE u == ToUa(b)
<1>1. Becomes(RouteRuns(World, b, c, u)) /\ TaLives(b)
      /\ (c = "auth" /\ Secure => ua.n + ua.addrs < MaxTa)
  BY DEF Respond, Received, RouteRuns, Handled
<1>2. /\ Inv(World) /\ Here(World.ta, World.del, b)
      /\ c = "auth" /\ Secure => World.ua.n + World.ua.addrs < MaxTa
  BY <1>1, WorldIs DEF IInv, TaLives, Here
<1>3. u => Alone(World)
  BY <1>2, WorldIs, FoundIsAlone DEF ToUa, Ua
<1> HIDE DEF u
<1>4. \A r \in RouteRuns(World, b, c, u) : Inv(r.w)
  BY <1>2, <1>3, RouteRunsGood
<1>5. QED
  BY <1>1, <1>4, BecomesInv

-----------------------------------------------------------------------------
(* The response that was kept is answered, or passed on.                   *)

(* SIPSec, or the timer, lets the user agent go on.                        *)
Resumes(w, z) ==
  /\ Same(w, z) /\ z.ua.state = w.ua.state /\ ~z.ua.secwait
  /\ z.ua.stored \in {w.ua.stored, "none"} /\ z.ut["S"] # "on"
  /\ z.ua.secerr = w.ua.secerr

LEMMA ResumesGood ==
  ASSUME NEW w, Inv(w), NEW z, Resumes(w, z)
  PROVE  Inv(z)
<1>0. Body(w) /\ Steady(w) /\ Core(w)
  BY DEF Inv, Core, Rest
<1>1. Same(w, z) /\ UaOnly(w, z)
  BY <1>0, SameIsUaOnly DEF Resumes
<1>2. /\ z.ua.state = w.ua.state /\ z.ua.stored \in {w.ua.stored, "none"}
      /\ ~z.ua.secwait /\ z.ut["S"] # "on" /\ z.ua.secerr = w.ua.secerr
      /\ z.ua.stopped = w.ua.stopped /\ z.ua.owner = w.ua.owner
      /\ z.ua.msg = w.ua.msg
      /\ z.ua.cur = w.ua.cur /\ z.ua.held = w.ua.held /\ z.ua.n = w.ua.n
      /\ z.ua.addrs = w.ua.addrs
      /\ z.ut["W"] = w.ut["W"] /\ z.ta = w.ta /\ z.st = w.st
      /\ z.hist = w.hist /\ z.tm = w.tm /\ z.tx = w.tx /\ z.del = w.del
  BY DEF Resumes, Same
<1>3. UaMay(w, z)
  <2>1. Heard(z.ua, z.hist) /\ Acks(z.ua, w.tx)
    BY <1>0, <1>2 DEF Body, Heard, Acks
  <2>2. Kept(z.ua, z.ut)
    BY <1>0, <1>2 DEF Body, Kept
  <2>3. Budget(z.ua)
    BY <1>0, <1>2 DEF Body, Budget
  <2>4. Limit(z.ua, w.ta, w.del)
    BY <1>0, <1>2 DEF Body, Limit
  <2>5. z.hist.late => z.ua.secerr
    BY <1>0, <1>2 DEF Body, Ends
  <2>6. z.ua.state = "WaitEnd" /\ w.ua.cur # 0 => Answered(w.ta[w.ua.cur])
    BY <1>0, <1>2 DEF Body, Current, Answered
  <2>7. QED
    BY <1>2, <2>1, <2>2, <2>3, <2>4, <2>5, <2>6 DEF UaMay
<1>4. Core(z)
  BY <1>0, <1>1, <1>3, UaStepGood
<1>5. Steady(z)
  BY <1>0, <1>2 DEF Steady, Fresh, Awaits
<1>6. ~z.ua.stopped => CurrentEnds(z.ta, z.tm, z.tx, z.ua, z.del, z.hist)
  BY <1>2 DEF Inv, Rest, CurrentEnds
<1>7. QED
  BY <1>4, <1>5, <1>6 DEF Inv, Rest

Challenged(w, c) ==
  /\ Inv(w) /\ Goes(w, w) /\ w.ua.state = "WaitAuth"
  /\ c \in {"busy", "auth", "reject"}
  /\ w.ua.msg = "invite" => w.ua.n <= MaxTa
  /\ Secure /\ c = "auth" /\ w.ua.msg = "invite" =>
       w.ua.n + w.ua.addrs < MaxTa
  /\ w.ua.stopped => /\ w.ua.cur = 0 \/ w.ta[w.ua.cur].over
                     /\ c = "auth" /\ Secure

LEMMA ChallengedIs ==
  ASSUME NEW w, Inv(w), w.ua.state = "WaitAuth", w.ua.stored # "none",
         w.ua.stopped => w.ua.secwait,
         NEW z, Resumes(w, z), z.ua.stored = "none"
  PROVE  Challenged(z, w.ua.stored)
<1> DEFINE c == w.ua.stored
<1>0. Body(w) /\ Inv(z) /\ Core(z)
  BY ResumesGood DEF Inv, Core
<1>1. /\ z.ua.state = w.ua.state /\ ~z.ua.secwait /\ z.ut["S"] # "on"
      /\ z.ua.stopped = w.ua.stopped /\ z.ua.msg = w.ua.msg
      /\ z.ua.cur = w.ua.cur /\ z.ua.n = w.ua.n /\ z.ua.addrs = w.ua.addrs
      /\ z.ta = w.ta
  BY DEF Resumes, Same
<1>2. c \in {"busy", "auth", "reject"}
  BY <1>0 DEF Body, Kept, IsError
<1>3. Goes(z, z)
  BY <1>0, <1>1 DEF Goes
<1>4. w.ua.msg = "invite" => w.ua.n <= MaxTa
  <2> DEFINE n == w.ua.n
  <2>1. n \in Nat /\ MaxTa \in Nat /\ n <= MaxTa + 1
    BY <1>0, InviteClientAssumption DEF Body, WorldType, UaType, Limit
  <2>2. w.ua.msg = "invite" => n # MaxTa + 1
    BY <1>0 DEF Body, Limit
  <2> HIDE DEF n
  <2>3. w.ua.msg = "invite" => n <= MaxTa
    BY <2>1, <2>2
  <2>4. QED
    BY <2>3 DEF n
<1>5. Secure /\ c = "auth" /\ w.ua.msg = "invite" =>
        w.ua.n + w.ua.addrs < MaxTa
  BY <1>0 DEF Body, Budget
<1>6. w.ua.stopped => /\ w.ua.cur = 0 \/ w.ta[w.ua.cur].over
                      /\ c = "auth" /\ Secure
  BY <1>0 DEF Body, Current, Kept
<1> HIDE DEF c
<1>7. Challenged(z, c)
  BY <1>0, <1>1, <1>2, <1>3, <1>4, <1>5, <1>6 DEF Challenged
<1>8. QED
  BY <1>7 DEF c

LEMMA ChallengedDetachable ==
  ASSUME NEW w, NEW c, Challenged(w, c), w.ua.owner
  PROVE  Detachable(w)
<1>1. /\ Body(w) /\ Steady(w)
      /\ ~w.ua.stopped =>
           CurrentEnds(w.ta, w.tm, w.tx, w.ua, w.del, w.hist)
  BY DEF Challenged, Inv, Core, Rest
<1>2. ASSUME w.ua.cur # 0, ~w.ta[w.ua.cur].over
      PROVE  /\ ~w.ua.stopped /\ w.ta[w.ua.cur].state = "Completed"
             /\ w.tx[Ua] = "idle" => w.tm[w.ua.cur]["D"] = "on"
  <2>1. ~w.ua.stopped
    BY <1>2 DEF Challenged
  <2>2. w.ta[w.ua.cur].state = "Completed"
    BY <1>1, <1>2, <2>1 DEF Steady, Awaits, Challenged
  <2>3. Runs(w.ta, w.del, w.ua.cur) /\ ~w.hist.cleared
    BY <1>1, <1>2, <2>2 DEF Runs, Here, Body, Current, Ends
  <2>4. QED
    BY <1>1, <1>2, <2>1, <2>2, <2>3 DEF CurrentEnds
<1>3. QED
  BY <1>2 DEF Detachable

(* The INVITE is sent again, with an answer to the challenge.              *)
Answers(w) ==
  Then(FillSecurityParamsL(w), LAMBDA v :
    UpdateAndSendRequestL(v, "WaitResponse"))

LEMMA StopDone ==
  ASSUME NEW w, Core(w), ~w.ua.secwait
  PROVE  \A s \in Stop(w) : s.left = "no" /\ s.yes
BY StopGood

LEMMA UpdateOfNone ==
  ASSUME NEW w, w.ua.msg = "none", NEW n, NEW r \in UpdateAndSendRequestL(w, n)
  PROVE  r.left = "other" /\ r.w = w
<1>1. UpdateViaAndCSeqL(w) = Leave(w, "other")
  BY DEF UpdateViaAndCSeqL, Assert
<1> DEFINE F == UpdateViaAndCSeqL(w)
<1>2. \E p \in F : p.left # "no" => r = p
  BY <1>1 DEF UpdateAndSendRequestL, Then, Leave
<1>3. QED
  BY <1>1, <1>2 DEF Leave

LEMMA AnswersGood ==
  ASSUME NEW w, Challenged(w, "auth"), Secure, w.ua.owner,
         NEW r \in Answers(w)
  PROVE  \/ Settles(w, r)
         \/ /\ r.left = "other" /\ Core(r.w) /\ ~r.w.ua.secwait
            /\ r.w.ta = w.ta
<1>0. \A s \in Stop(w) : s.left = "no" /\ s.yes
  <2>1. Core(w) /\ ~w.ua.secwait
    BY DEF Challenged, Goes
  <2>2. QED
    BY <2>1, StopDone
<1>1. PICK p \in FillSecurityParamsL(w) :
        r \in IF p.left = "no" /\ p.yes
              THEN UpdateAndSendRequestL(p.w, "WaitResponse") ELSE {p}
  BY DEF Answers, Then
<1>2. \/ Done(p) /\ p.w = w
      \/ p.left = "other" /\ \E s \in Stop(w) : s.left = "no" => p.w = s.w
  <2>1. p \in Yes(w) \cup (IF "sec" \in Faults
                           THEN Then(Stop(w), LAMBDA v : Leave(v, "other"))
                           ELSE {})
    BY <1>1 DEF FillSecurityParamsL, Then
  <2>2. CASE p \in Yes(w)
    BY <2>2 DEF Yes, Done
  <2>3. CASE p \in Then(Stop(w), LAMBDA v : Leave(v, "other"))
    <3>1. PICK s \in Stop(w) :
            p \in IF s.left = "no" /\ s.yes THEN Leave(s.w, "other") ELSE {s}
      BY <2>3 DEF Then
    <3>2. s.left = "no" /\ s.yes
      BY <1>0
    <3>3. QED
      BY <3>1, <3>2 DEF Leave
  <2>4. QED
    BY <2>1, <2>2, <2>3 DEF Then
<1>3. CASE Done(p) /\ p.w = w
  <2>1. r \in UpdateAndSendRequestL(w, "WaitResponse")
    BY <1>1, <1>3 DEF Done
  <2>2. CASE w.ua.msg = "none"
    <3>1. r.left = "other" /\ r.w = w
      BY <2>1, <2>2, UpdateOfNone
    <3>2. QED
      BY <3>1 DEF Challenged, Goes
  <2>3. CASE w.ua.msg = "invite"
    <3>1. Detachable(w)
      BY ChallengedDetachable
    <3>2. w.ua.n < MaxTa /\
          (w.ua.addrs > 0 => w.ua.n + 1 + w.ua.addrs <= MaxTa)
      <4> DEFINE n == w.ua.n
                 a == w.ua.addrs
      <4>1. n \in Nat /\ a \in Nat /\ MaxTa \in Nat /\ n + a < MaxTa
        BY <2>3, Ids, InviteClientAssumption
        DEF Challenged, Inv, Core, Body, WorldType, UaType
      <4> HIDE DEF n, a
      <4>2. n < MaxTa /\ (a > 0 => n + 1 + a <= MaxTa)
        BY <4>1
      <4>3. QED
        BY <4>2 DEF n, a
    <3>3. Sends(w)
      BY <2>3, <3>1, <3>2 DEF Sends, Challenged
    <3>4. QED
      BY <2>1, <3>3, UpdateAndSendInviteGood
  <2>4. w.ua.msg \in {"none", "invite"}
    <3>1. w.ua.msg \in {"none", "invite", "ack"} /\ Acks(w.ua, w.tx)
          /\ w.ua.state = "WaitAuth"
      BY DEF Challenged, Inv, Core, Body, WorldType, UaType
    <3>2. QED
      BY <3>1 DEF Acks
  <2>5. QED
    BY <2>2, <2>3, <2>4
<1>4. CASE p.left = "other" /\ \E s \in Stop(w) : s.left = "no" => p.w = s.w
  <2>1. PICK s \in Stop(w) : s.left = "no" => p.w = s.w
    BY <1>4
  <2>2. Core(w) /\ ~w.ua.secwait
    BY DEF Challenged, Goes
  <2>3. s.left = "no" /\ s.w.ta = w.ta
    BY <2>1, <2>2, StopGood
  <2>4. Over(w, s) /\ ~s.w.ua.secwait
    BY <2>1, <2>2, StopIsOver
  <2>5. r = p
    BY <1>1, <1>4
  <2>6. QED
    BY <1>4, <2>1, <2>3, <2>4, <2>5 DEF Over, Inv
<1>5. QED
  BY <1>2, <1>3, <1>4

(* Where a function that may stop the user agent leaves.                   *)
Quits(w, r) ==
  /\ r.left \in {"nomem", "other"} /\ Core(r.w) /\ ~r.w.ua.secwait
  /\ OverKept(w, r.w)

LEMMA StopOnLeaveGood ==
  ASSUME NEW w, NEW S,
         \A p \in S : \/ Declines(w, p)
                      \/ Settles(w, p)
                      \/ Quits(w, p),
         NEW r \in StopOnLeave(S)
  PROVE  (r \in S /\ Declines(w, r)) \/ Over(w, r)
<1>1. CASE r \in S /\ r.left = "no"
  <2>1. CASE Declines(w, r)
    BY <1>1, <2>1
  <2>2. CASE ~Declines(w, r)
    <3>1. Done(r) /\ Inv(r.w) /\ ~r.w.ua.secwait /\ OverKept(w, r.w)
      BY <1>1, <2>2 DEF Settles, Gone, Quits
    <3>2. QED
      BY <3>1 DEF Over, Calm, Done
  <2>3. QED
    BY <2>1, <2>2
<1>2. CASE \E p \in S : /\ p.left # "no"
                        /\ \E s \in StopIfFound(p.w) :
                             /\ r.w = s.w /\ r.left = p.left
                             /\ r.yes = s.yes
  <2>0. PICK p \in S :
          /\ p.left # "no"
          /\ \E s \in StopIfFound(p.w) : /\ r.w = s.w /\ r.left = p.left
                                         /\ r.yes = s.yes
    BY <1>2
  <2>1. PICK s \in StopIfFound(p.w) :
          p.left # "no" /\ r.w = s.w /\ r.left = p.left
    BY <2>0
  <2>2. Quits(w, p)
    BY <2>1 DEF Declines, Settles, Done, Gone, Quits, OverKept
  <2>3. Over(p.w, r)
    BY <2>1, <2>2, StopIfFoundIsOver DEF Quits
  <2>4. QED
    BY <2>2, <2>3, OverKeptTrans DEF Over, Quits
<1>3. QED
  BY <1>1, <1>2, StopOnLeaveIs

Retries(w, c) ==
  CASE c = "busy" -> TryNextAddressL(w, c, "Resolve", "WaitResponse")
    [] c = "auth" /\ Secure /\ ~w.ua.secerr -> Answers(w)
    [] OTHER -> No(w)

LEMMA RetriesGood ==
  ASSUME NEW w, NEW c, Challenged(w, c), w.ua.owner, NEW p \in Retries(w, c)
  PROVE  \/ Declines(w, p) /\ (c = "auth" /\ Secure => w.ua.secerr)
         \/ Settles(w, p)
         \/ Quits(w, p)
<1>1. CASE c = "busy"
  <2>1. Tries(w)
    BY ChallengedDetachable DEF Tries, Challenged
  <2>2. p \in TryNextAddressL(w, c, "Resolve", "WaitResponse")
    BY <1>1 DEF Retries
  <2>3. Declines(w, p) \/ Settles(w, p)
    BY <1>1, <2>1, <2>2, TryNextAddressGood
  <2>4. QED
    BY <1>1, <2>3
<1>2. CASE c = "auth" /\ Secure /\ ~w.ua.secerr
  <2>1. p \in Answers(w)
    BY <1>2 DEF Retries
  <2>2. \/ Settles(w, p)
        \/ /\ p.left = "other" /\ Core(p.w) /\ ~p.w.ua.secwait
           /\ p.w.ta = w.ta
    BY <1>2, <2>1, AnswersGood
  <2>3. QED
    BY <2>2 DEF Quits, OverKept
<1>3. CASE ~(c = "busy") /\ ~(c = "auth" /\ Secure /\ ~w.ua.secerr)
  <2>1. p \in No(w)
    BY <1>3 DEF Retries
  <2>2. QED
    BY <1>3, <2>1 DEF No, Declines
<1>4. QED
  BY <1>1, <1>2, <1>3

LEMMA ShouldUaTryAgainGood ==
  ASSUME NEW w, NEW c, Challenged(w, c), NEW r \in ShouldUaTryAgainL(w, c)
  PROVE  \/ /\ Declines(w, r)
            /\ ~w.ua.final /\ w.ua.owner /\ c = "auth" /\ Secure =>
                 w.ua.secerr
         \/ Over(w, r)
<1>1. r \in IF w.ua.final \/ ~w.ua.owner THEN No(w)
            ELSE StopOnLeave(Retries(w, c))
  BY DEF ShouldUaTryAgainL, Retries, Answers, Then
<1>2. CASE w.ua.final \/ ~w.ua.owner
  BY <1>1, <1>2 DEF No, Declines
<1>3. CASE ~w.ua.final /\ w.ua.owner
  <2> DEFINE S == Retries(w, c)
  <2>1. r \in StopOnLeave(S)
    BY <1>1, <1>3
  <2>2. \A p \in S :
          \/ Declines(w, p) /\ (c = "auth" /\ Secure => w.ua.secerr)
          \/ Settles(w, p)
          \/ Quits(w, p)
    BY <1>3, RetriesGood
  <2> HIDE DEF S
  <2>3. \A p \in S : Declines(w, p) \/ Settles(w, p) \/ Quits(w, p)
    BY <2>2
  <2>4. (r \in S /\ Declines(w, r)) \/ Over(w, r)
    BY <2>1, <2>3, StopOnLeaveGood
  <2>5. ASSUME r \in S, Declines(w, r), c = "auth", Secure
        PROVE  w.ua.secerr \/ Over(w, r)
    <3>1. ~Settles(w, r) /\ ~Quits(w, r)
      BY <2>5 DEF Declines, Settles, Quits, Gone, Done
    <3>2. QED
      BY <2>2, <2>5, <3>1
  <2>6. QED
    BY <2>4, <2>5
<1>4. QED
  BY <1>2, <1>3

(* The response is passed on, and the user agent waits for the transaction.*)
LEMMA WaitEndGood ==
  ASSUME NEW w, NEW c, Challenged(w, c), NEW v, Passed(w, c, v), ~w.ua.final,
         w.ua.owner /\ c = "auth" /\ Secure => w.ua.secerr,
         NEW z, z = [v EXCEPT !.ua.state = "WaitEnd"]
  PROVE  Inv(z) /\ ~z.ua.secwait
<1>0. /\ Body(w) /\ Steady(w) /\ Core(w) /\ w \in WorldType
      /\ w.ua.state = "WaitAuth"
      /\ ~w.ua.secwait /\ w.ua.stored = "none" /\ w.ut["S"] # "on"
      /\ ~w.ua.stopped =>
           CurrentEnds(w.ta, w.tm, w.tx, w.ua, w.del, w.hist)
  BY DEF Challenged, Inv, Core, Rest, Goes, Body
<1> DEFINE u == w.ua
           u1 == [u EXCEPT !.final = c # "prov"]
<1>1. u \in UaType /\ v \in WorldType /\ v.ua = u1
  BY <1>0 DEF WorldType, Passed
<1> HIDE DEF u
<1>2. /\ u1.state = u.state /\ u1.stopped = u.stopped /\ u1.owner = u.owner
      /\ u1.msg = u.msg /\ u1.cur = u.cur /\ u1.held = u.held /\ u1.n = u.n
      /\ u1.stored = u.stored /\ u1.secwait = u.secwait
      /\ u1.secerr = u.secerr /\ u1.addrs = u.addrs
  BY <1>1 DEF UaType
<1> HIDE DEF u1
<1>3. Moved(v, "WaitEnd", z)
  BY <1>1, MovedIs
<1>4. /\ z \in WorldType /\ z.ta = w.ta /\ z.tm = w.tm /\ z.tx = w.tx
      /\ z.ut = w.ut /\ z.st = w.st /\ z.del = w.del
      /\ z.hist.ended = w.hist.ended /\ z.hist.cleared = w.hist.cleared
      /\ z.hist.heard \subseteq w.hist.heard \cup {Kind(c)}
      /\ z.hist.late => w.hist.late \/ (w.ua.owner /\ w.hist.ended > 0)
  BY <1>3 DEF Moved, Passed
<1>5. /\ z.ua.state = "WaitEnd"
      /\ z.ua.stopped = w.ua.stopped /\ z.ua.owner = w.ua.owner
      /\ z.ua.msg = w.ua.msg
      /\ z.ua.cur = w.ua.cur /\ z.ua.held = w.ua.held /\ z.ua.n = w.ua.n
      /\ z.ua.stored = w.ua.stored /\ z.ua.secwait = w.ua.secwait
      /\ z.ua.secerr = w.ua.secerr /\ z.ua.addrs = w.ua.addrs
  BY <1>1, <1>2, <1>3 DEF Moved, u
<1>6. UaOnly(w, z)
  <2> DEFINE n == w.ua.n
  <2>1. n \in Nat /\ z.ua.n = n
    BY <1>0, <1>5 DEF WorldType, UaType
  <2> HIDE DEF n
  <2>2. z.ua.n >= n
    BY <2>1
  <2>3. QED
    BY <1>4, <1>5, <2>2 DEF UaOnly, n
<1>7. UaMay(w, z)
  <2>1. Kept(z.ua, z.ut)
    BY <1>0, <1>4, <1>5 DEF Body, Kept, AckStates
  <2>2. Heard(z.ua, z.hist)
    <3>1. "ok" \notin w.hist.heard
      BY <1>0 DEF Body, Heard, AckStates
    <3>2. "ok" # Kind(c)
      BY DEF Kind, IsError, Challenged
    <3>3. QED
      BY <1>4, <1>5, <3>1, <3>2 DEF Heard
  <2>3. Acks(z.ua, w.tx)
    <3>1. w.ua.msg # "ack" /\ w.ua.held = 0 /\ w.tx[Ua] # "ua"
      BY <1>0 DEF Body, Acks, AckStates
    <3>2. QED
      BY <1>5, <3>1 DEF Acks, AckStates
  <2>4. Budget(z.ua)
    BY <1>0, <1>5 DEF Body, Budget
  <2>5. Limit(z.ua, w.ta, w.del)
    <3> DEFINE n == w.ua.n
    <3>1. /\ n \in Nat /\ MaxTa \in Nat /\ z.ua.n = n
          /\ n <= MaxTa + 1
          /\ w.ua.msg = "invite" => n <= MaxTa
      BY <1>0, <1>5, InviteClientAssumption
      DEF Challenged, WorldType, UaType, Body, Limit
    <3> HIDE DEF n
    <3>2. n <= MaxTa + 1 /\ (w.ua.msg = "invite" => n # MaxTa + 1)
      BY <3>1
    <3>3. QED
      BY <1>5, <3>1, <3>2 DEF Limit
  <2>6. z.hist.late => z.ua.secerr
    <3>1. w.hist.late => w.ua.secerr
      BY <1>0 DEF Body, Ends
    <3>2. w.hist.ended > 0 => w.ua.stopped
      BY <1>0 DEF Body, Ends
    <3>3. w.ua.stopped => c = "auth" /\ Secure
      BY DEF Challenged
    <3>4. QED
      BY <1>4, <1>5, <3>1, <3>2, <3>3
  <2>7. w.ua.cur # 0 => Answered(w.ta[w.ua.cur])
    <3>1. CASE w.ua.stopped
      BY <3>1 DEF Challenged, Answered
    <3>2. CASE ~w.ua.stopped
      BY <1>0, <3>2 DEF Steady, Awaits, Answered
    <3>3. QED
      BY <3>1, <3>2
  <2>8. QED
    BY <1>0, <1>5, <2>1, <2>2, <2>3, <2>4, <2>5, <2>6, <2>7 DEF UaMay
<1>8. Core(z)
  BY <1>0, <1>6, <1>7, UaStepGood
<1>9. Steady(z)
  BY <1>0, <1>4, <1>5 DEF Steady, Fresh, Awaits
<1>10. ~z.ua.stopped => CurrentEnds(z.ta, z.tm, z.tx, z.ua, z.del, z.hist)
  BY <1>0, <1>4, <1>5 DEF CurrentEnds
<1>11. QED
  BY <1>0, <1>5, <1>8, <1>9, <1>10 DEF Inv, Rest

PassedOn(w, c) ==
  Then(PassRespToTransactionOwnerL(w, c), LAMBDA x :
    Yes([x EXCEPT !.ua.state = "WaitEnd"]))

LEMMA PassedOnGood ==
  ASSUME NEW w, NEW c, Challenged(w, c),
         ~w.ua.final /\ w.ua.owner /\ c = "auth" /\ Secure => w.ua.secerr,
         NEW r \in PassedOn(w, c)
  PROVE  \/ Done(r) /\ Inv(r.w) /\ ~r.w.ua.secwait
         \/ r.left # "no" /\ r.w = w
<1>0. w \in WorldType /\ w.ut["W"] = "off" /\ c \in Responses
  BY DEF Challenged, Inv, Core, Body, Kept, AckStates, Responses
<1>1. PICK q \in PassRespToTransactionOwnerL(w, c) :
        r \in IF q.left = "no" /\ q.yes
              THEN Yes([q.w EXCEPT !.ua.state = "WaitEnd"]) ELSE {q}
  BY DEF PassedOn, Then
<1>2. \/ w.ua.final /\ q.left = "other" /\ q.w = w
      \/ ~w.ua.final /\ Refuses(q) /\ q.w = [w EXCEPT !.ut["W"] = "off"]
      \/ ~w.ua.final /\ Done(q) /\ Passed(w, c, q.w)
  BY <1>0, <1>1, PassRespToTransactionOwnerGood
<1>3. CASE q.left = "other" /\ q.w = w
  BY <1>1, <1>3
<1>4. CASE Refuses(q) /\ q.w = [w EXCEPT !.ut["W"] = "off"]
  <2> DEFINE t1 == [w.ut EXCEPT !["W"] = "off"]
  <2>1. t1 = w.ut
    BY <1>0 DEF WorldType
  <2>2. q.w = [w EXCEPT !.ut = t1]
    BY <1>4
  <2>3. q.w = w
    BY <1>0, <2>1, <2>2 DEF WorldType
  <2>4. r = q /\ q.left # "no"
    BY <1>1, <1>4 DEF Refuses
  <2>5. QED
    BY <2>3, <2>4
<1>5. CASE ~w.ua.final /\ Done(q) /\ Passed(w, c, q.w)
  <2>1. Done(r) /\ r.w = [q.w EXCEPT !.ua.state = "WaitEnd"]
    BY <1>1, <1>5 DEF Yes, Done
  <2>2. QED
    BY <1>5, <2>1, WaitEndGood
<1>6. QED
  BY <1>2, <1>3, <1>4, <1>5

LEMMA ReceiveResponseLAnswers ==
  ASSUME NEW w, NEW c, Challenged(w, c), NEW r \in ReceiveResponseL(w, c)
  PROVE  \/ Over(w, r)
         \/ Done(r) /\ Inv(r.w) /\ ~r.w.ua.secwait
         \/ r.left # "no" /\ r.w = w
<1>1. w.ut["W"] = "off" /\ c \notin {"ok", "prov"}
  BY DEF Challenged, Inv, Core, Body, Kept, AckStates
<1>2. PICK p \in ShouldUaTryAgainL(w, c) :
        r \in IF p.left = "no" /\ ~p.yes THEN PassedOn(p.w, c) ELSE {p}
  BY <1>1 DEF ReceiveResponseL, Assert, Otherwise, PassedOn, Then
<1>3. \/ /\ Declines(w, p)
         /\ ~w.ua.final /\ w.ua.owner /\ c = "auth" /\ Secure => w.ua.secerr
      \/ Over(w, p)
  BY <1>2, ShouldUaTryAgainGood
<1>4. CASE /\ Declines(w, p)
           /\ ~w.ua.final /\ w.ua.owner /\ c = "auth" /\ Secure =>
                w.ua.secerr
  <2>1. r \in PassedOn(w, c)
    BY <1>2, <1>4 DEF Declines
  <2>2. QED
    BY <1>4, <2>1, PassedOnGood
<1>5. CASE Over(w, p)
  <2>1. r = p
    BY <1>2, <1>5 DEF Over
  <2>2. QED
    BY <1>5, <2>1
<1>6. QED
  BY <1>3, <1>4, <1>5

(* Where a call of SIPSec, or of the timer, may leave.                     *)
Leaving(w) == Core(w) /\ Calm(w)

LEMMA SIPSecCacheUpdatedGood ==
  ASSUME NEW w, Inv(w), NEW z, Resumes(w, z), z.ua.stored = w.ua.stored,
         w.ua.stopped => w.ua.secwait, NEW ok \in BOOLEAN,
         NEW p \in SIPSecCacheUpdatedL(z, ok)
  PROVE  /\ p.left = "no" => Inv(p.w)
         /\ p.left # "no" => Leaving(p.w)
<1>1. /\ Inv(z) /\ Core(z) /\ ~z.ua.secwait /\ z \in WorldType
      /\ z.ua.state = w.ua.state
  BY ResumesGood DEF Inv, Core, Body, Resumes
<1>2. CASE z.ua.state # "WaitAuth"
  <2>1. p \in Yes(z)
    BY <1>2 DEF SIPSecCacheUpdatedL
  <2>2. QED
    BY <1>1, <2>1 DEF Yes
<1>3. CASE z.ua.state = "WaitAuth" /\ z.ua.stored = "none"
  <2>1. p \in Leave(z, "other")
    BY <1>3 DEF SIPSecCacheUpdatedL, Assert
  <2>2. QED
    BY <1>1, <2>1 DEF Leave, Leaving, Calm
<1>4. CASE z.ua.state = "WaitAuth" /\ z.ua.stored # "none" /\ ok
  <2> DEFINE v == [z EXCEPT !.ua.stored = "none"]
             c == w.ua.stored
  <2>1. p \in ReceiveResponseL(v, c)
    BY <1>4 DEF SIPSecCacheUpdatedL, Assert
  <2>2. Stored(z, "none", v)
    BY <1>1, StoredIs
  <2> HIDE DEF v
  <2>3. Resumes(w, v) /\ v.ua.stored = "none"
    BY <2>2 DEF Stored, Resumes, Same
  <2>4. Challenged(v, c)
    BY <1>1, <1>4, <2>3, ChallengedIs
  <2> HIDE DEF c
  <2>5. \/ Over(v, p)
        \/ Done(p) /\ Inv(p.w) /\ ~p.w.ua.secwait
        \/ p.left # "no" /\ p.w = v
    BY <2>1, <2>4, ReceiveResponseLAnswers
  <2>6. Core(v) /\ ~v.ua.secwait
    BY <2>4 DEF Challenged, Goes
  <2>7. CASE Over(v, p)
    BY <2>7 DEF Over, Leaving, Inv
  <2>8. CASE Done(p) /\ Inv(p.w) /\ ~p.w.ua.secwait
    BY <2>8 DEF Done
  <2>9. CASE p.left # "no" /\ p.w = v
    BY <2>6, <2>9 DEF Leaving, Calm
  <2>10. QED
    BY <2>5, <2>7, <2>8, <2>9
<1>5. CASE z.ua.state = "WaitAuth" /\ z.ua.stored # "none" /\ ~ok
  <2>1. p \in Stop(z)
    BY <1>5 DEF SIPSecCacheUpdatedL, Assert
  <2>2. Over(z, p) /\ p.left = "no"
    BY <1>1, <2>1, StopIsOver, StopDone
  <2>3. QED
    BY <2>2 DEF Over
<1>6. QED
  BY <1>2, <1>3, <1>4, <1>5

LEMMA SIPSecReadyGood ==
  ASSUME NEW w, Inv(w), NEW z, Resumes(w, z), z.ua.stored = w.ua.stored,
         w.ua.stopped => w.ua.secwait, NEW ok \in BOOLEAN,
         NEW r \in SIPSecReady(z, ok)
  PROVE  Inv(r.w)
<1> DEFINE S == SIPSecCacheUpdatedL(z, ok)
<1>1. \A p \in S : /\ p.left = "no" => Inv(p.w)
                   /\ p.left # "no" => Leaving(p.w)
  BY SIPSecCacheUpdatedGood
<1>2. r \in StopOnLeave(S)
  BY DEF SIPSecReady
<1> HIDE DEF S
<1>3. CASE r \in S /\ r.left = "no"
  BY <1>1, <1>3
<1>4. CASE \E p \in S : /\ p.left # "no"
                        /\ \E s \in StopIfFound(p.w) :
                             /\ r.w = s.w /\ r.left = p.left
                             /\ r.yes = s.yes
  <2>0. PICK p \in S :
          /\ p.left # "no"
          /\ \E s \in StopIfFound(p.w) : /\ r.w = s.w /\ r.left = p.left
                                         /\ r.yes = s.yes
    BY <1>4
  <2>1. PICK s \in StopIfFound(p.w) : p.left # "no" /\ r.w = s.w
    BY <2>0
  <2>2. /\ Core(p.w)
        /\ p.w.ua.secwait /\ ~p.w.ua.stopped =>
             p.w.ua.cur = 0 \/ p.w.ta[p.w.ua.cur].over
    BY <1>1, <2>1 DEF Leaving, Calm
  <2>3. Inv(s.w)
    BY <2>1, <2>2, StopIfFoundGood
  <2>4. QED
    BY <2>1, <2>3
<1>5. QED
  BY <1>2, <1>3, <1>4, StopOnLeaveIs

(* A timer of the user agent stops.                                        *)
UtOnly(w, z) ==
  /\ z \in WorldType /\ z.ta = w.ta /\ z.tm = w.tm /\ z.tx = w.tx
  /\ z.ua = w.ua /\ z.st = w.st /\ z.del = w.del /\ z.hist = w.hist
  /\ z.ut["S"] = "on" => w.ut["S"] = "on"
  /\ z.ut["W"] # "off" => w.ut["W"] # "off"

LEMMA UtIs ==
  ASSUME NEW w \in WorldType, NEW k \in UaTimers, NEW x \in {"off", "stale"},
         x = "stale" => w.ut[k] # "off"
  PROVE  LET z == [w EXCEPT !.ut[k] = x] IN
         /\ UtOnly(w, z) /\ z.ut[k] = x
         /\ \A j \in UaTimers : j # k => z.ut[j] = w.ut[j]
<1> DEFINE t == [w.ut EXCEPT ![k] = x]
           z == [w EXCEPT !.ut[k] = x]
<1>1. w.ut \in [UaTimers -> TimerType]
  BY DEF WorldType
<1>2. /\ t \in [UaTimers -> TimerType] /\ t[k] = x
      /\ \A j \in UaTimers : j # k => t[j] = w.ut[j]
  BY <1>1 DEF TimerType
<1>3. z = [w EXCEPT !.ut = t]
  OBVIOUS
<1> HIDE DEF t, z
<1>4. /\ z \in WorldType /\ z.ta = w.ta /\ z.tm = w.tm /\ z.tx = w.tx
      /\ z.ua = w.ua /\ z.st = w.st /\ z.del = w.del /\ z.hist = w.hist
      /\ z.ut = t
  BY <1>2, <1>3 DEF WorldType
<1>5. UtOnly(w, z)
  BY <1>2, <1>4 DEF UtOnly, UaTimers
<1>6. /\ UtOnly(w, z) /\ z.ut[k] = x
      /\ \A j \in UaTimers : j # k => z.ut[j] = w.ut[j]
  BY <1>2, <1>4, <1>5
<1>7. QED
  BY <1>6 DEF z

LEMMA UtGood ==
  ASSUME NEW w, Inv(w), NEW z, UtOnly(w, z)
  PROVE  Inv(z)
<1>1. /\ Body(w) /\ Core(w) /\ Steady(w)
      /\ z.ta = w.ta /\ z.tm = w.tm /\ z.tx = w.tx
      /\ z.ua = w.ua /\ z.st = w.st /\ z.del = w.del /\ z.hist = w.hist
      /\ z \in WorldType
  BY DEF Inv, Core, Rest, UtOnly
<1>2. Kept(z.ua, z.ut)
  BY <1>1 DEF UtOnly, Body, Kept
<1>3. Core(z)
  BY <1>1, <1>2 DEF Core, Body
<1>4. Steady(z) /\ (~z.ua.stopped =>
        CurrentEnds(z.ta, z.tm, z.tx, z.ua, z.del, z.hist))
  BY <1>1 DEF Inv, Rest, Steady
<1>5. QED
  BY <1>3, <1>4 DEF Inv, Rest

LEMMA SecWaitOffIs ==
  ASSUME NEW w \in WorldType
  PROVE  LET z == [w EXCEPT !.ua.secwait = FALSE] IN
         /\ Same(w, z) /\ z.ua.state = w.ua.state
         /\ z.ua.stored = w.ua.stored /\ ~z.ua.secwait
         /\ z.ut["S"] = w.ut["S"] /\ z.ua.secerr = w.ua.secerr
<1> DEFINE u == w.ua
           u1 == [u EXCEPT !.secwait = FALSE]
           z == [w EXCEPT !.ua.secwait = FALSE]
<1>1. u \in UaType
  BY DEF WorldType
<1>2. z = [w EXCEPT !.ua = u1]
  OBVIOUS
<1> HIDE DEF u
<1>3. /\ u1 \in UaType /\ u1.state = u.state
      /\ u1.stopped = u.stopped /\ u1.owner = u.owner
      /\ u1.msg = u.msg /\ u1.final = u.final
      /\ u1.cur = u.cur /\ u1.held = u.held /\ u1.n = u.n
      /\ u1.stored = u.stored /\ ~u1.secwait
      /\ u1.secerr = u.secerr /\ u1.addrs = u.addrs
      /\ u1.results = u.results
  BY <1>1 DEF UaType
<1> HIDE DEF u1, z
<1>4. /\ z \in WorldType /\ z.ta = w.ta /\ z.tm = w.tm /\ z.tx = w.tx
      /\ z.ut = w.ut /\ z.st = w.st /\ z.del = w.del /\ z.hist = w.hist
      /\ z.ua = u1
  BY <1>2, <1>3 DEF WorldType
<1>5. /\ Same(w, z) /\ z.ua.state = w.ua.state
      /\ z.ua.stored = w.ua.stored /\ ~z.ua.secwait
      /\ z.ut["S"] = w.ut["S"] /\ z.ua.secerr = w.ua.secerr
  BY <1>3, <1>4 DEF Same, u
<1>6. QED
  BY <1>5 DEF z

(* SIPSec answers.                                                         *)
SIPSecRuns(w, ok) ==
  Handled(SIPSecReady([w EXCEPT !.ua.secwait = FALSE], ok), Ignored)

LEMMA SIPSecRunsGood ==
  ASSUME NEW w, Inv(w), w.ua.secwait, NEW ok \in BOOLEAN,
         NEW r \in SIPSecRuns(w, ok)
  PROVE  Inv(r.w)
<1> DEFINE z == [w EXCEPT !.ua.secwait = FALSE]
<1>1. w \in WorldType /\ w.ut["S"] # "on"
  BY DEF Inv, Core, Body, Kept
<1>2. Resumes(w, z) /\ z.ua.stored = w.ua.stored
  BY <1>1, SecWaitOffIs DEF Resumes
<1>3. PICK p \in SIPSecReady(z, ok) :
        r \in IF p.left = "no" THEN {p} ELSE Yes(p.w)
  BY DEF SIPSecRuns, Handled, Ignored
<1> HIDE DEF z
<1>4. Inv(p.w)
  BY <1>2, <1>3, SIPSecReadyGood
<1>5. QED
  BY <1>3, <1>4 DEF Yes

LEMMA SIPSecAnswersStep ==
  ASSUME IInv, NEW ok \in BOOLEAN, SIPSecAnswers(ok)
  PROVE  IInv'
<1>1. Becomes(SIPSecRuns(World, ok)) /\ ua.secwait
  BY DEF SIPSecAnswers, SIPSecRuns, Handled, Ignored
<1>2. Inv(World) /\ World.ua.secwait
  BY <1>1, WorldIs DEF IInv
<1>3. \A r \in SIPSecRuns(World, ok) : Inv(r.w)
  BY <1>2, SIPSecRunsGood
<1>4. QED
  BY <1>1, <1>3, BecomesInv

(* The timer that stands in for it expires.                                *)
SIPSecTimerRuns(w) ==
  LET z == [w EXCEPT !.ut["S"] = "stale"] IN
  IF w.ua.stopped \/ w.ua.state \notin AckStates \cup {"WaitAuth"} THEN Yes(z)
  ELSE Handled(Then(SIPSecReady(z, TRUE), LAMBDA v :
                 Yes([v EXCEPT !.ut["S"] = "off"])), Ignored)

LEMMA SIPSecTimerRunsGood ==
  ASSUME NEW w, Inv(w), w.ut["S"] = "on", NEW r \in SIPSecTimerRuns(w)
  PROVE  Inv(r.w)
<1> DEFINE z == [w EXCEPT !.ut["S"] = "stale"]
<1>1. /\ w \in WorldType /\ ~w.ua.secwait
      /\ "S" \in UaTimers /\ "W" \in UaTimers /\ "S" # "W"
  BY DEF Inv, Core, Body, Kept, UaTimers
<1>2. UtOnly(w, z) /\ z.ut["S"] = "stale" /\ z.ut["W"] = w.ut["W"]
  BY <1>1, UtIs
<1>3. r \in IF w.ua.stopped \/ w.ua.state \notin AckStates \cup {"WaitAuth"}
            THEN Yes(z)
            ELSE Handled(Then(SIPSecReady(z, TRUE), LAMBDA v :
                           Yes([v EXCEPT !.ut["S"] = "off"])), Ignored)
  BY DEF SIPSecTimerRuns
<1> HIDE DEF z
<1>4. Inv(z)
  BY <1>2, UtGood
<1>5. Resumes(w, z) /\ z.ua.stored = w.ua.stored
  BY <1>1, <1>2 DEF UtOnly, Resumes, Same
<1>6. CASE w.ua.stopped \/ w.ua.state \notin AckStates \cup {"WaitAuth"}
  <2>1. r \in Yes(z)
    BY <1>3, <1>6 DEF Handled, Then
  <2>2. QED
    BY <1>4, <2>1 DEF Yes
<1>7. CASE ~(w.ua.stopped \/ w.ua.state \notin AckStates \cup {"WaitAuth"})
  <2> DEFINE F == Then(SIPSecReady(z, TRUE), LAMBDA v :
                    Yes([v EXCEPT !.ut["S"] = "off"]))
  <2>1. r \in Handled(F, Ignored)
    BY <1>3, <1>7 DEF Handled, Then
  <2> HIDE DEF F
  <2>2. PICK q \in F : r \in IF q.left = "no" THEN {q} ELSE Yes(q.w)
    BY <2>1 DEF Handled, Ignored
  <2>3. PICK p \in SIPSecReady(z, TRUE) :
          q \in IF p.left = "no" /\ p.yes
                THEN Yes([p.w EXCEPT !.ut["S"] = "off"]) ELSE {p}
    BY <2>2 DEF F, Then
  <2>4. Inv(p.w)
    BY <1>5, <1>7, <2>3, SIPSecReadyGood
  <2>5. p.w \in WorldType
    BY <2>4 DEF Inv, Core, Body
  <2>6. Inv([p.w EXCEPT !.ut["S"] = "off"])
    <3> DEFINE y == [p.w EXCEPT !.ut["S"] = "off"]
    <3>1. UtOnly(p.w, y)
      BY <1>1, <2>5, UtIs
    <3> HIDE DEF y
    <3>2. Inv(y)
      BY <2>4, <3>1, UtGood
    <3>3. QED
      BY <3>2 DEF y
  <2>7. Inv(q.w)
    BY <2>3, <2>4, <2>6 DEF Yes
  <2>8. r.w = q.w
    BY <2>2 DEF Yes
  <2>9. QED
    BY <2>7, <2>8
<1>8. QED
  BY <1>6, <1>7

LEMMA SIPSecTimerStep ==
  ASSUME IInv, SIPSecTimer
  PROVE  IInv'
<1>1. Becomes(SIPSecTimerRuns(World)) /\ ut["S"] = "on"
  BY WorldIs DEF SIPSecTimer, SIPSecTimerRuns, Handled, Then, Ignored
<1>2. Inv(World) /\ World.ut["S"] = "on"
  BY <1>1, WorldIs DEF IInv
<1>3. \A r \in SIPSecTimerRuns(World) : Inv(r.w)
  BY <1>2, SIPSecTimerRunsGood
<1>4. QED
  BY <1>1, <1>3, BecomesInv

-----------------------------------------------------------------------------
(* The user agent's timer, its resolver and its owner.                     *)

LEMMA EditGood ==
  ASSUME NEW w, Inv(w), NEW z, UaOnly(w, z), UaMay(w, z), Steady(z)
  PROVE  Inv(z)
<1>1. Core(w) /\ Body(w)
  BY DEF Inv, Core
<1>2. Core(z)
  BY <1>1, UaStepGood
<1>3. ~z.ua.stopped => CurrentEnds(z.ta, z.tm, z.tx, z.ua, z.del, z.hist)
  BY DEF UaOnly, Inv, Rest, CurrentEnds
<1>4. QED
  BY <1>2, <1>3 DEF Inv, Rest

(* No ACK came.                                                            *)
Wait2xxRuns(w) ==
  IF w.ua.stopped THEN Yes([w EXCEPT !.ut["W"] = "stale"])
  ELSE Then(Stop([w EXCEPT !.ut["W"] = "stale"]), LAMBDA v :
         Yes([v EXCEPT !.ut["W"] = "off"]))

LEMMA Wait2xxRunsGood ==
  ASSUME NEW w, Inv(w), w.ut["W"] = "on", NEW r \in Wait2xxRuns(w)
  PROVE  Inv(r.w)
<1> DEFINE z == [w EXCEPT !.ut["W"] = "stale"]
<1>1. /\ w \in WorldType /\ ~w.ua.secwait /\ "W" \in UaTimers
  BY DEF Inv, Core, Body, Kept, UaTimers, AckStates
<1>2. UtOnly(w, z)
  BY <1>1, UtIs
<1>3. r \in IF w.ua.stopped THEN Yes(z)
            ELSE Then(Stop(z), LAMBDA v : Yes([v EXCEPT !.ut["W"] = "off"]))
  BY DEF Wait2xxRuns
<1> HIDE DEF z
<1>4. Inv(z) /\ ~z.ua.secwait /\ Core(z)
  BY <1>1, <1>2, UtGood DEF UtOnly, Inv
<1>5. CASE w.ua.stopped
  <2>1. r \in Yes(z)
    BY <1>3, <1>5 DEF Then
  <2>2. QED
    BY <1>4, <2>1 DEF Yes
<1>6. CASE ~w.ua.stopped
  <2>1. PICK p \in Stop(z) :
          r \in IF p.left = "no" /\ p.yes
                THEN Yes([p.w EXCEPT !.ut["W"] = "off"]) ELSE {p}
    BY <1>3, <1>6 DEF Then
  <2>2. Inv(p.w)
    BY <1>4, <2>1, StopIsOver DEF Over
  <2>3. p.w \in WorldType
    BY <2>2 DEF Inv, Core, Body
  <2>4. Inv([p.w EXCEPT !.ut["W"] = "off"])
    <3> DEFINE y == [p.w EXCEPT !.ut["W"] = "off"]
    <3>1. UtOnly(p.w, y)
      BY <1>1, <2>3, UtIs
    <3> HIDE DEF y
    <3>2. Inv(y)
      BY <2>2, <3>1, UtGood
    <3>3. QED
      BY <3>2 DEF y
  <2>5. QED
    BY <2>1, <2>2, <2>4 DEF Yes
<1>7. QED
  BY <1>5, <1>6

LEMMA Wait2xxTimerStep ==
  ASSUME IInv, Wait2xxTimer
  PROVE  IInv'
<1>1. Becomes(Wait2xxRuns(World)) /\ ut["W"] = "on"
  BY WorldIs DEF Wait2xxTimer, Wait2xxRuns, Then
<1>2. Inv(World) /\ World.ut["W"] = "on"
  BY <1>1, WorldIs DEF IInv
<1>3. \A r \in Wait2xxRuns(World) : Inv(r.w)
  BY <1>2, Wait2xxRunsGood
<1>4. QED
  BY <1>1, <1>3, BecomesInv

(* A CANCEL leaves a mark only.                                            *)
CancelRuns(w) == Yes([w EXCEPT !.ua.canceled = TRUE])

LEMMA CanceledGood ==
  ASSUME NEW w, Inv(w), NEW r \in CancelRuns(w)
  PROVE  Inv(r.w)
<1> DEFINE u == w.ua
           u1 == [u EXCEPT !.canceled = TRUE]
           z == [w EXCEPT !.ua.canceled = TRUE]
<1>0. r \in Yes(z)
  BY DEF CancelRuns
<1>1. w \in WorldType /\ u \in UaType
  BY DEF Inv, Core, Body, WorldType
<1>2. z = [w EXCEPT !.ua = u1]
  OBVIOUS
<1> HIDE DEF u
<1>3. /\ u1 \in UaType /\ u1.state = u.state
      /\ u1.stopped = u.stopped /\ u1.owner = u.owner
      /\ u1.msg = u.msg /\ u1.final = u.final
      /\ u1.cur = u.cur /\ u1.held = u.held /\ u1.n = u.n
      /\ u1.stored = u.stored /\ u1.secwait = u.secwait
      /\ u1.secerr = u.secerr /\ u1.addrs = u.addrs
      /\ u1.results = u.results
  BY <1>1 DEF UaType
<1> HIDE DEF u1, z
<1>4. /\ z \in WorldType /\ z.ta = w.ta /\ z.tm = w.tm /\ z.tx = w.tx
      /\ z.ut = w.ut /\ z.st = w.st /\ z.del = w.del /\ z.hist = w.hist
      /\ z.ua = u1
  BY <1>1, <1>2, <1>3 DEF WorldType
<1>5. Unmoved(w, z)
  BY <1>3, <1>4 DEF Unmoved, Same, u
<1>6. Inv(z)
  BY <1>5, UnmovedInv
<1>7. QED
  BY <1>0, <1>6 DEF Yes

LEMMA AppCancelsStep ==
  ASSUME IInv, AppCancels
  PROVE  IInv'
<1>1. Becomes(CancelRuns(World))
  BY DEF AppCancels, CancelRuns
<1>2. Inv(World)
  BY DEF IInv
<1>3. \A r \in CancelRuns(World) : Inv(r.w)
  BY <1>2, CanceledGood
<1>4. QED
  BY <1>1, <1>3, BecomesInv

(* What is doomed, or marked in the store, is freed.                       *)
LEMMA FreedRunsGood ==
  ASSUME NEW w, Inv(w), NEW S, S = w.del.doomed \/ S = w.del.marked,
         NEW r \in Yes(Destroyed(w, S))
  PROVE  Inv(r.w)
<1>1. Core(w) /\ Rest(w) /\ S \in SUBSET Obj
  BY DEF Inv, Core, Body, WorldType, DelType
<1>2. \A k \in S : k \in Dying(w.del)
  BY DEF Dying
<1>3. Core(Destroyed(w, S)) /\ Rest(Destroyed(w, S))
  BY <1>1, <1>2, DestroyedGood
<1>4. QED
  BY <1>3 DEF Inv, Yes

LEMMA DeletionsStep ==
  ASSUME IInv, DeleteMgrRuns \/ StoreFreesMarked
  PROVE  IInv'
<1>1. /\ Inv(World) /\ World.del = del
  BY WorldIs DEF IInv
<1>2. PICK S \in {del.doomed, del.marked} :
        Becomes(Yes(Destroyed(World, S)))
  BY DEF DeleteMgrRuns, StoreFreesMarked
<1>3. \A r \in Yes(Destroyed(World, S)) : Inv(r.w)
  BY <1>1, <1>2, FreedRunsGood
<1>4. QED
  BY <1>2, <1>3, BecomesInv

(* The resolver has found addresses.                                       *)
FoundIn(w, a) == [w EXCEPT !.ua.stored = "none", !.ua.results = TRUE,
                           !.ua.addrs = a]

LEMMA FoundIs ==
  ASSUME NEW w, Inv(w), ~w.ua.stopped,
         w.ua.state \in {"Resolve", "ResolveAck"},
         NEW a \in Obj, w.ua.msg = "invite" => w.ua.n + a <= MaxTa
  PROVE  LET z == FoundIn(w, a) IN
         /\ Inv(z) /\ z.ta = w.ta /\ z.tm = w.tm /\ z.tx = w.tx
         /\ z.ua.stored = "none" /\ z.ua.state = w.ua.state
         /\ ~z.ua.stopped /\ z.ua.msg = w.ua.msg /\ z.ua.n = w.ua.n
         /\ z.ua.owner = w.ua.owner
<1> DEFINE u == w.ua
           u1 == [u EXCEPT !.stored = "none", !.results = TRUE, !.addrs = a]
           z == FoundIn(w, a)
<1>1. /\ w \in WorldType /\ u \in UaType /\ ~u.stopped
      /\ Body(w) /\ Steady(w)
  BY DEF Inv, Core, Rest, Body, WorldType
<1>2. z = [w EXCEPT !.ua = u1]
  BY DEF FoundIn
<1> HIDE DEF u
<1>3. /\ u1 \in UaType /\ u1.state = u.state
      /\ u1.stopped = u.stopped /\ u1.owner = u.owner
      /\ u1.msg = u.msg /\ u1.final = u.final
      /\ u1.cur = u.cur /\ u1.held = u.held /\ u1.n = u.n
      /\ u1.stored = "none" /\ u1.secwait = u.secwait
      /\ u1.secerr = u.secerr /\ u1.addrs = a
  BY <1>1 DEF UaType
<1> HIDE DEF u1, z
<1>4. /\ z \in WorldType /\ z.ta = w.ta /\ z.tm = w.tm /\ z.tx = w.tx
      /\ z.ut = w.ut /\ z.st = w.st /\ z.del = w.del /\ z.hist = w.hist
      /\ z.ua = u1
  BY <1>1, <1>2, <1>3 DEF WorldType
<1>5. /\ z.ua.state = w.ua.state /\ z.ua.stopped = w.ua.stopped
      /\ z.ua.owner = w.ua.owner /\ z.ua.msg = w.ua.msg
      /\ z.ua.cur = w.ua.cur /\ z.ua.held = w.ua.held /\ z.ua.n = w.ua.n
      /\ z.ua.stored = "none" /\ z.ua.secwait = w.ua.secwait
      /\ z.ua.secerr = w.ua.secerr /\ z.ua.addrs = a
  BY <1>3, <1>4 DEF u
<1>6. UaOnly(w, z)
  <2> DEFINE n == w.ua.n
  <2>1. n \in Nat /\ z.ua.n = n
    BY <1>1, <1>5 DEF WorldType, UaType
  <2> HIDE DEF n
  <2>2. z.ua.n >= n
    BY <2>1
  <2>3. QED
    BY <1>4, <1>5, <2>2 DEF UaOnly, n
<1>7. UaMay(w, z)
  <2>1. Heard(z.ua, z.hist) /\ Acks(z.ua, w.tx) /\ Kept(z.ua, z.ut)
    BY <1>1, <1>4, <1>5 DEF Body, Heard, Acks, Kept
  <2>2. Budget(z.ua)
    BY <1>5 DEF Budget
  <2>3. Limit(z.ua, w.ta, w.del)
    BY <1>1, <1>5 DEF Body, Limit
  <2>4. z.hist.late => z.ua.secerr
    BY <1>1, <1>4, <1>5 DEF Body, Ends
  <2>5. QED
    BY <1>5, <2>1, <2>2, <2>3, <2>4 DEF UaMay
<1>8. Steady(z)
  BY <1>1, <1>4, <1>5 DEF Steady, Fresh, Awaits
<1>9. Inv(z)
  BY <1>6, <1>7, <1>8, EditGood
<1>10. QED
  BY <1>4, <1>5, <1>9 DEF z

(* Without an owner there is nothing to answer a challenge with.           *)
LEMMA FillSecurityParamsGood ==
  ASSUME NEW w, Core(w), ~w.ua.secwait, NEW r \in FillSecurityParamsL(w)
  PROVE  \/ Done(r) /\ r.w = w /\ w.ua.owner
         \/ /\ r.left = "no" /\ ~r.yes /\ Inv(r.w)
            /\ r.w.ua.stopped /\ r.w.ua.state = w.ua.state
         \/ r.left = "other" /\ Inv(r.w) /\ ~r.w.ua.secwait
<1>1. \A s \in Stop(w) : /\ s.left = "no" /\ s.yes
                         /\ Inv(s.w) /\ ~s.w.ua.secwait /\ s.w.ua.stopped
                         /\ s.w.ua.state = w.ua.state
  <2>1. ASSUME NEW s \in Stop(w)
        PROVE  s.w.ua.state = w.ua.state
    <3> DEFINE u == w.ua
    <3>1. /\ s.w.ua = u \/ s.w.ua = [u EXCEPT !.stopped = TRUE]
          /\ u \in UaType
      BY StopGood DEF Core, Body, WorldType
    <3> HIDE DEF u
    <3>2. s.w.ua.state = u.state
      BY <3>1 DEF UaType
    <3>3. QED
      BY <3>2 DEF u
  <2>2. QED
    BY <2>1, StopDone, StopIsOver DEF Over
<1>2. CASE ~w.ua.owner
  <2>1. r \in Then(Stop(w), No)
    BY <1>2 DEF FillSecurityParamsL, Then
  <2>2. PICK s \in Stop(w) :
          r \in IF s.left = "no" /\ s.yes THEN No(s.w) ELSE {s}
    BY <2>1 DEF Then
  <2>3. QED
    BY <1>1, <2>2 DEF No
<1>3. CASE w.ua.owner
  <2>1. \/ r \in Yes(w)
        \/ r \in Then(Stop(w), LAMBDA v : Leave(v, "other"))
    BY <1>3 DEF FillSecurityParamsL, Then
  <2>2. CASE r \in Yes(w)
    BY <1>3, <2>2 DEF Yes, Done
  <2>3. CASE r \in Then(Stop(w), LAMBDA v : Leave(v, "other"))
    <3>1. PICK s \in Stop(w) :
            r \in IF s.left = "no" /\ s.yes THEN Leave(s.w, "other") ELSE {s}
      BY <2>3 DEF Then
    <3>2. QED
      BY <1>1, <3>1 DEF Leave
  <2>4. QED
    BY <2>1, <2>2, <2>3 DEF Then
<1>4. QED
  BY <1>2, <1>3

(* The INVITE is sent for the first time, or to the addresses found again. *)
Assigned(v) ==
  Then(FillSecurityParamsL(v), LAMBDA a :
  Then(CreateTransactionL(a), LAMBDA b : GivenOn(b, FALSE)))

LEMMA GivenOnNone ==
  ASSUME NEW w, Core(w), ~w.ua.secwait, w.ua.msg = "none",
         NEW r \in GivenOn(w, FALSE)
  PROVE  r.left \in {"nomem", "other"} /\ Core(r.w) /\ ~r.w.ua.secwait
<1>1. PICK p \in UpdateInfoToStoreL(w, FALSE) :
        r \in IF p.left = "no" /\ p.yes
              THEN Then(SendRequestToNetworkL(p.w), LAMBDA d :
                     Yes([d EXCEPT !.ua.state = "WaitResponse"]))
              ELSE {p}
  BY DEF GivenOn, Then
<1>2. \/ Done(p) /\ StoreOnly(w, p.w)
      \/ LeftIn(w, p)
  BY <1>1, UpdateInfoToStoreGood
<1>3. CASE Done(p) /\ StoreOnly(w, p.w)
  <2>1. Core(p.w) /\ p.w.ua = w.ua
    BY <1>3 DEF StoreOnly
  <2>2. r \in Then(SendRequestToNetworkL(p.w), LAMBDA d :
                     Yes([d EXCEPT !.ua.state = "WaitResponse"]))
    BY <1>1, <1>3 DEF Done, Then
  <2>3. PICK q \in SendRequestToNetworkL(p.w) : q.left # "no" => r = q
    BY <2>2 DEF Then
  <2>4. SendRequestToNetworkL(p.w) = Leave(p.w, "other")
    BY <2>1 DEF SendRequestToNetworkL
  <2>5. QED
    BY <2>1, <2>3, <2>4 DEF Leave
<1>4. CASE LeftIn(w, p)
  <2>1. r = p
    BY <1>1, <1>4 DEF LeftIn
  <2>2. QED
    BY <1>4, <2>1 DEF LeftIn, Keeps, Follows
<1>5. QED
  BY <1>2, <1>3, <1>4

LEMMA FirstPrepared ==
  ASSUME NEW v, Inv(v), ~v.ua.stopped, v.ua.state = "Resolve",
         v.ua.stored = "none", v.ua.msg = "invite", v.ua.n \in Ta,
         NEW z, Creates(v, z)
  PROVE  Prepared(z)
<1>1. /\ Core(v) /\ v \in WorldType /\ v.ua \in UaType /\ v.ua.n \in Ta
      /\ v.ua.n # 0 /\ v.ua.n \in Obj
      /\ v.ta[v.ua.n].state = "none" /\ z.ua = [v.ua EXCEPT !.cur = v.ua.n]
      /\ Core(z)
      /\ z.ta[v.ua.n].state = "Calling" /\ ~z.ta[v.ua.n].over
      /\ z.tm = v.tm /\ z.tx[Ua] = "idle" /\ z.ut = v.ut
      /\ ~v.ua.secwait /\ v.ut["S"] # "on"
  BY Ids DEF Inv, Creates, Core, Body, WorldType, Rest, Steady, Fresh, Kept
<1>2. /\ z.ua.cur = v.ua.n /\ z.ua.msg = v.ua.msg /\ z.ua.n = v.ua.n
      /\ z.ua.secwait = v.ua.secwait /\ z.ua.stored = v.ua.stored
      /\ z.ua.state = v.ua.state
  <2> DEFINE u == v.ua
  <2>1. u \in UaType /\ z.ua = [u EXCEPT !.cur = u.n]
    BY <1>1
  <2> HIDE DEF u
  <2>2. /\ z.ua.cur = u.n /\ z.ua.msg = u.msg /\ z.ua.n = u.n
        /\ z.ua.secwait = u.secwait /\ z.ua.stored = u.stored
        /\ z.ua.state = u.state
    BY <2>1 DEF UaType
  <2>3. QED
    BY <2>2 DEF u
<1>3. \A k \in TaTimers : v.tm[v.ua.n][k] = "off"
  BY <1>1 DEF Core, Body, Made
<1>4. v.ua.n <= MaxTa
  BY <1>1, InviteClientAssumption DEF Ta
<1>5. Ready(z)
  BY <1>1, <1>2 DEF Ready
<1>6. QED
  BY <1>1, <1>2, <1>3, <1>4, <1>5 DEF Prepared, TaTimers

(* Where the resolver's callback leaves, or is done.                       *)
Ended(r) ==
  \/ r.left = "no" /\ Inv(r.w)
  \/ r.left \in {"nomem", "other"} /\ Core(r.w) /\ ~r.w.ua.secwait

LEMMA AssignedGood ==
  ASSUME NEW v, Inv(v), ~v.ua.stopped, v.ua.state = "Resolve",
         v.ua.stored = "none", v.ua.n \in Ta, NEW r \in Assigned(v)
  PROVE  Ended(r)
<1>0. /\ Core(v) /\ ~v.ua.secwait /\ v.ua.msg \in {"none", "invite"}
      /\ v.ua.cur = 0 /\ v.ta[v.ua.n].state = "none"
  BY DEF Inv, Core, Rest, Body, Kept, WorldType, UaType, Steady, Fresh
<1>1. PICK p \in FillSecurityParamsL(v) :
        r \in IF p.left = "no" /\ p.yes
              THEN Then(CreateTransactionL(p.w), LAMBDA b : GivenOn(b, FALSE))
              ELSE {p}
  BY DEF Assigned, Then
<1>2. \/ Done(p) /\ p.w = v
      \/ p.left = "no" /\ ~p.yes /\ Inv(p.w)
      \/ p.left = "other" /\ Inv(p.w) /\ ~p.w.ua.secwait
  BY <1>0, <1>1, FillSecurityParamsGood
<1>3. CASE Done(p) /\ p.w = v
  <2>1. r \in Then(CreateTransactionL(v), LAMBDA b : GivenOn(b, FALSE))
    BY <1>1, <1>3 DEF Done, Then
  <2>2. PICK q \in CreateTransactionL(v) :
          r \in IF q.left = "no" /\ q.yes THEN GivenOn(q.w, FALSE) ELSE {q}
    BY <2>1 DEF Then
  <2>3. MayCreate(v)
    BY <1>0 DEF MayCreate
  <2>4. \/ q.left = "nomem" /\ q.w = v
        \/ Done(q) /\ Creates(v, q.w)
    BY <2>2, <2>3, CreateTransactionGood
  <2>5. CASE q.left = "nomem" /\ q.w = v
    BY <1>0, <2>2, <2>5 DEF Ended
  <2>6. CASE Done(q) /\ Creates(v, q.w)
    <3>1. r \in GivenOn(q.w, FALSE)
      BY <2>2, <2>6 DEF Done
    <3>2. CASE v.ua.msg = "invite"
      <4>1. Settles(q.w, r)
        BY <2>6, <3>1, <3>2, FirstPrepared, GivenOnGood
      <4>2. QED
        BY <4>1 DEF Settles, Gone, Done, Ended
    <3>3. CASE v.ua.msg = "none"
      <4>1. Core(q.w) /\ q.w.ua = [v.ua EXCEPT !.cur = v.ua.n]
        BY <2>6 DEF Creates
      <4>2. q.w.ua.msg = "none" /\ ~q.w.ua.secwait
        <5> DEFINE u == v.ua
        <5>1. u \in UaType /\ q.w.ua = [u EXCEPT !.cur = u.n]
          BY <1>0, <4>1 DEF Core, Body, WorldType
        <5>2. u.msg = "none" /\ ~u.secwait
          BY <1>0, <3>3
        <5> HIDE DEF u
        <5>3. QED
          BY <5>1, <5>2 DEF UaType
      <4>3. QED
        BY <3>1, <4>1, <4>2, GivenOnNone DEF Ended
    <3>4. QED
      BY <1>0, <3>2, <3>3
  <2>7. QED
    BY <2>4, <2>5, <2>6
<1>4. CASE p.left = "no" /\ ~p.yes /\ Inv(p.w)
  BY <1>1, <1>4 DEF Ended
<1>5. CASE p.left = "other" /\ Inv(p.w) /\ ~p.w.ua.secwait
  <2>1. r = p /\ Core(p.w)
    BY <1>1, <1>5 DEF Inv
  <2>2. QED
    BY <1>5, <2>1 DEF Ended
<1>6. QED
  BY <1>2, <1>3, <1>4, <1>5

(* What it left with ends the user agent.                                  *)
LEMMA StopOnGood ==
  ASSUME NEW p, Ended(p), NEW r,
         r \in IF p.left = "no" THEN {p} ELSE StopOn(p.w, p.left)
  PROVE  Inv(r.w)
<1>1. CASE p.left = "no"
  BY <1>1 DEF Ended
<1>2. CASE p.left # "no"
  <2>1. /\ p.left # "dialog" /\ Core(p.w) /\ ~p.w.ua.secwait
    BY <1>2 DEF Ended
  <2>2. r \in Stop(p.w)
    BY <1>2, <2>1 DEF StopOn
  <2>3. QED
    BY <2>1, <2>2, StopIsOver DEF Over
<1>3. QED
  BY <1>1, <1>2

ResolvedRuns(w, a) == Handled(Assigned(FoundIn(w, a)), StopOn)

LEMMA ResolvedRunsGood ==
  ASSUME NEW w, Inv(w), ~w.ua.stopped, w.ua.state = "Resolve",
         NEW a \in Obj, w.ua.n + a <= MaxTa, NEW r \in ResolvedRuns(w, a)
  PROVE  Inv(r.w)
<1> DEFINE v == FoundIn(w, a)
<1>1. /\ Inv(v) /\ ~v.ua.stopped /\ v.ua.state = "Resolve"
      /\ v.ua.stored = "none" /\ v.ua.n = w.ua.n
  BY FoundIs
<1>2. PICK p \in Assigned(v) :
        r \in IF p.left = "no" THEN {p} ELSE StopOn(p.w, p.left)
  BY DEF ResolvedRuns, Handled
<1> HIDE DEF v
<1>3. v.ua.n \in Ta
  <2> DEFINE n == w.ua.n
  <2>1. /\ n \in Nat \ {0} /\ a \in Nat /\ MaxTa \in Nat /\ n + a <= MaxTa
    BY Ids, InviteClientAssumption DEF Inv, Core, Body, WorldType, UaType
  <2> HIDE DEF n
  <2>2. n \in Ta
    BY <2>1 DEF Ta
  <2>3. QED
    BY <1>1, <2>2 DEF n
<1>4. Ended(p)
  BY <1>1, <1>2, <1>3, AssignedGood
<1>5. QED
  BY <1>2, <1>4, StopOnGood

LEMMA ResolvedStep ==
  ASSUME IInv, NEW a \in 0..MaxTa, Resolved(a)
  PROVE  IInv'
<1>1. /\ Becomes(ResolvedRuns(World, a)) /\ ~ua.stopped
      /\ ua.state = "Resolve" /\ ua.n + a <= MaxTa
  BY DEF Resolved, ResolvedRuns, Assigned, GivenOn, Found, FoundIn, Handled,
         Then
<1>2. /\ Inv(World) /\ ~World.ua.stopped /\ World.ua.state = "Resolve"
      /\ World.ua.n + a <= MaxTa /\ a \in Obj
  BY <1>1, WorldIs, InviteClientAssumption DEF IInv, Obj, Ta, Ua
<1>3. \A r \in ResolvedRuns(World, a) : Inv(r.w)
  BY <1>2, ResolvedRunsGood
<1>4. QED
  BY <1>1, <1>3, BecomesInv

=============================================================================
