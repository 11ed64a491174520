------------------------- MODULE Registration_proofs -------------------------
(***************************************************************************)
(* Proofs that the invariants of Registration hold for every set of        *)
(* contacts, owners, addresses of record, remote targets, number of        *)
(* bindings and choice of failures.                                        *)
(*                                                                         *)
(* A handler is an operator from state to state, so the inductive          *)
(* invariant is a predicate Good of such a state.  It has a part for the   *)
(* registrars, which bindings share, and a part for each binding with its  *)
(* refreshes and transactions.  The part of a binding is again two: Sound, *)
(* what holds in the middle of a handler too, and Duty, what holds when a  *)
(* handler returns.  Mid says that a handler of binding i is at work: all  *)
(* else is as between handlers.  There is a lemma for each operator, about *)
(* Mid, and one for each action, which ends with Good.                     *)
(***************************************************************************)
EXTENDS Registration, FiniteSetTheorems, WellFoundedInduction, TLAPS

Binding ==
    [life : {"none", "stored", "dying"}, st : RegistrationStates,
     contact : Contacts \cup {0}, refreshing : BOOLEAN,
     reg : RegistrarIds \cup {0}, ta : TaIds \cup {0},
     retry : TaIds \cup {0}, refresh : RefreshIds \cup {0},
     timer : BOOLEAN, zero : BOOLEAN, ends : 0 .. 2, flow : BOOLEAN]

Refresh == [life : {"none", "stored"}, owner : BindingIds \cup {0},
            ta : TaIds \cup {0}, timer : BOOLEAN]

TaOwner == {Nobody} \cup {B(i) : i \in BindingIds}
                    \cup {R(j) : j \in RefreshIds}

Targets == {Target[c] : c \in Contacts}

AnyRegistrar == [place : 0 .. MaxBindings, target : Targets \cup {"none"},
                 ids : SUBSET BindingIds, ahead : 0 .. 1]

State == [bind : [BindingIds -> Binding], refr : [RefreshIds -> Refresh],
          ta : [TaIds -> TaOwner], regs : [RegistrarIds -> AnyRegistrar],
          grows : BOOLEAN, left : BOOLEAN]

(***************************************************************************)
(* The registrars: they list the stored bindings that point to them, and   *)
(* exist as long as they list one.                                         *)
(***************************************************************************)
RegsOK(s) ==
    /\ \A r \in RegistrarIds :
         \/ s.regs[r] = NoRegistrar
         \/ /\ s.regs[r].place # 0
            /\ s.regs[r].target \in Targets
            /\ s.regs[r].ids # {}
    /\ \A r \in RegistrarIds : \A k \in s.regs[r].ids :
         s.bind[k].life = "stored" /\ s.bind[k].reg = r
    /\ \A k \in BindingIds : s.bind[k].reg # 0 =>
         s.bind[k].life = "stored" /\ k \in s.regs[s.bind[k].reg].ids

(***************************************************************************)
(* What belongs to binding i, at any time.                                 *)
(***************************************************************************)
BindingSound(s, i) ==
    /\ s.bind[i].life = "none" => s.bind[i] = NoBinding
    /\ s.bind[i].life # "none" => s.bind[i].contact \in Contacts
    /\ s.bind[i].life = "dying" => s.bind[i].reg = 0
    /\ s.bind[i].ta \in TaIdsOf(i) \cup {0}
    /\ s.bind[i].retry \in TaIdsOf(i) \cup {0}
    /\ s.bind[i].timer => ~s.bind[i].refreshing
    /\ ~s.bind[i].flow =>
         /\ s.bind[i].ends <= 1
         /\ s.bind[i].life = "stored" => s.bind[i].ends = 0

RefreshSound(s, i) ==
    \A j \in RefreshIdsOf(i) :
        \/ s.refr[j] = NoRefresh
        \/ /\ s.refr[j].life = "stored"
           /\ s.refr[j].owner = i
           /\ s.refr[j].ta \in TaIdsOf(i)
           /\ s.bind[i].life # "none"
           /\ s.bind[i].refreshing
           /\ s.bind[i].refresh = j

TaSound(s, i) ==
    \A t \in TaIdsOf(i) :
        \/ s.ta[t] = Nobody
        \/ /\ s.ta[t] = B(i)
           /\ ~s.bind[i].refreshing
           /\ s.bind[i].life # "none"
           /\ s.bind[i].life = "stored" =>
                t \in {s.bind[i].ta, s.bind[i].retry}
        \/ \E j \in RefreshIdsOf(i) :
             /\ s.ta[t] = R(j)
             /\ s.refr[j].life = "stored"
             /\ s.refr[j].ta = t

Sound(s, i) == BindingSound(s, i) /\ RefreshSound(s, i) /\ TaSound(s, i)

(***************************************************************************)
(* What a stored binding has when no handler is at work on it.             *)
(***************************************************************************)
HasRefresh(s, i) ==
    /\ s.bind[i].refreshing
    /\ s.bind[i].refresh \in RefreshIdsOf(i)
    /\ s.refr[s.bind[i].refresh].life = "stored"

Waits(s, i) ==
    /\ s.bind[i].ta # 0
    /\ \/ ~s.bind[i].refreshing /\ s.ta[s.bind[i].ta] = B(i)
       \/ /\ HasRefresh(s, i)
          /\ s.refr[s.bind[i].refresh].ta = s.bind[i].ta
          /\ ~s.refr[s.bind[i].refresh].timer
          /\ s.ta[s.bind[i].ta] = R(s.bind[i].refresh)

Kept(s, i) ==
    \/ ~s.bind[i].refreshing /\ s.bind[i].timer
    \/ /\ HasRefresh(s, i)
       /\ \/ s.refr[s.bind[i].refresh].timer
          \/ s.ta[s.refr[s.bind[i].refresh].ta] = R(s.bind[i].refresh)

Idle(s, i) ==
    /\ \A j \in RefreshIdsOf(i) : s.refr[j] = NoRefresh
    /\ \A t \in TaIdsOf(i) : s.ta[t] = Nobody

Duty(s, i) ==
    /\ s.bind[i].life # "stored" =>
         \A j \in RefreshIdsOf(i) : s.refr[j] = NoRefresh
    /\ \A t \in TaIdsOf(i), j \in RefreshIdsOf(i) :
         s.ta[t] = R(j) => ~s.refr[j].timer
    /\ s.bind[i].life = "stored" =>
         /\ s.bind[i].st \in {"registering", "updating", "unregistering"} =>
              /\ Waits(s, i)
              /\ \A t \in TaIdsOf(i) : s.ta[t] = B(i) => t = s.bind[i].ta
         /\ s.bind[i].st = "registered" =>
              /\ Kept(s, i)
              /\ \A t \in TaIdsOf(i) : s.ta[t] # B(i)
         /\ s.bind[i].st = "retrying" =>
              \A t \in TaIdsOf(i) : s.ta[t] = B(i) => t = s.bind[i].retry
         /\ s.bind[i].st \in {"registered", "updating", "unregistering"} =>
              s.bind[i].reg # 0
         /\ s.bind[i].zero => s.bind[i].st \in {"unregistering",
                                                "unregistered"}
         /\ s.bind[i].st = "unregistering" => s.bind[i].zero

(***************************************************************************)
(* The inductive invariant.                                                *)
(***************************************************************************)
Mid(s, i) ==
    /\ s \in State /\ s.grows /\ RegsOK(s)
    /\ \A k \in BindingIds : Sound(s, k)
    /\ \A k \in BindingIds \ {i} : Duty(s, k)

Good(s) ==
    /\ s \in State /\ s.grows /\ RegsOK(s)
    /\ \A k \in BindingIds : Sound(s, k) /\ Duty(s, k)

IInv == Good(Here) /\ early \in [TaIds -> BOOLEAN]

-----------------------------------------------------------------------------
(* Ids.                                                                    *)

(* Each binding has transaction and refresh ids of its own.                *)
LEMMA IdsApart ==
  ASSUME NEW i \in BindingIds
  PROVE  /\ TaIdsOf(i) \subseteq TaIds /\ 0 \notin TaIds
         /\ RefreshIdsOf(i) \subseteq RefreshIds /\ 0 \notin RefreshIds
         /\ \A k \in BindingIds : k # i =>
              /\ \A t \in TaIdsOf(i) : t \notin TaIdsOf(k)
              /\ \A j \in RefreshIdsOf(i) : j \notin RefreshIdsOf(k)
  BY RegistrationAssumption
     DEF BindingIds, TaIdsOf, TaIds, RefreshIdsOf, RefreshIds

LEMMA IdsCovered ==
  /\ \A t \in TaIds : \E i \in BindingIds : t \in TaIdsOf(i)
  /\ \A j \in RefreshIds : \E i \in BindingIds : j \in RefreshIdsOf(i)
<1>1. ASSUME NEW t \in TaIds
      PROVE  \E i \in BindingIds : t \in TaIdsOf(i)
  <2> DEFINE i == (t + 3) \div 4
  <2>1. i \in BindingIds /\ t \in TaIdsOf(i)
    BY <1>1, RegistrationAssumption DEF BindingIds, TaIds, TaIdsOf
  <2>2. QED
    BY <2>1
<1>2. ASSUME NEW j \in RefreshIds
      PROVE  \E i \in BindingIds : j \in RefreshIdsOf(i)
  <2> DEFINE i == (j + 1) \div 2
  <2>1. i \in BindingIds /\ j \in RefreshIdsOf(i)
    BY <1>2, RegistrationAssumption DEF BindingIds, RefreshIds, RefreshIdsOf
  <2>2. QED
    BY <2>1
<1>3. QED
  BY <1>1, <1>2

LEMMA OwnersApart ==
  /\ \A i : B(i) # Nobody /\ R(i) # Nobody
  /\ \A i, j : B(i) # R(j)
  /\ \A i, j : B(i) = B(j) => i = j
  /\ \A i, j : R(i) = R(j) => i = j
  BY DEF B, R, Nobody

-----------------------------------------------------------------------------
(* A handler of one binding leaves the others alone.                       *)

LocalSame(s, r, k) ==
    /\ r.bind[k] = s.bind[k]
    /\ \A j \in RefreshIdsOf(k) : r.refr[j] = s.refr[j]
    /\ \A t \in TaIdsOf(k) : r.ta[t] = s.ta[t]

Touches(s, r, i) == \A k \in BindingIds \ {i} : LocalSame(s, r, k)

LEMMA SoundOfSame ==
  ASSUME NEW s \in State, NEW r \in State, NEW k \in BindingIds,
         LocalSame(s, r, k), Sound(s, k)
  PROVE  Sound(r, k)
<1>1. BindingSound(r, k)
  BY DEF LocalSame, Sound, BindingSound
<1>2. RefreshSound(r, k)
  BY DEF LocalSame, Sound, RefreshSound
<1>3. TaSound(r, k)
  BY DEF LocalSame, Sound, TaSound
<1>4. QED
  BY <1>1, <1>2, <1>3 DEF Sound

LEMMA DutyOfSame ==
  ASSUME NEW s \in State, NEW r \in State, NEW k \in BindingIds,
         LocalSame(s, r, k), Sound(s, k), Duty(s, k)
  PROVE  Duty(r, k)
<1>1. HasRefresh(s, k) => s.refr[s.bind[k].refresh].ta \in TaIdsOf(k)
  BY DEF HasRefresh, Sound, RefreshSound, NoRefresh
<1>2. s.bind[k].ta # 0 => s.bind[k].ta \in TaIdsOf(k)
  BY DEF Sound, BindingSound
<1>3. HasRefresh(s, k) => HasRefresh(r, k)
  BY DEF HasRefresh, LocalSame
<1>4. Waits(s, k) => Waits(r, k)
  BY <1>2, <1>3 DEF Waits, LocalSame, HasRefresh
<1>5. Kept(s, k) => Kept(r, k)
  BY <1>1, <1>3 DEF Kept, LocalSame, HasRefresh
<1>6. QED
  BY <1>4, <1>5 DEF Duty, LocalSame

(* What an operator at work on binding i has to keep.                      *)
LEMMA MidOf ==
  ASSUME NEW i \in BindingIds, NEW s \in State, NEW r \in State,
         Mid(s, i), Touches(s, r, i), r.grows, RegsOK(r), Sound(r, i)
  PROVE  Mid(r, i)
<1>1. ASSUME NEW k \in BindingIds, k # i
      PROVE  Sound(r, k) /\ Duty(r, k)
  BY <1>1, SoundOfSame, DutyOfSame DEF Mid, Touches
<1>2. QED
  BY <1>1 DEF Mid

LEMMA GoodOf ==
  ASSUME NEW i \in BindingIds, NEW s \in State, Mid(s, i), Duty(s, i)
  PROVE  Good(s)
  BY DEF Mid, Good

LEMMA MidOfGood ==
  ASSUME NEW i \in BindingIds, NEW s \in State, Good(s)
  PROVE  Mid(s, i) /\ Duty(s, i)
  BY DEF Mid, Good

(* The registrars see only which bindings are stored, and their pointers.  *)
LEMMA RegsOfSame ==
  ASSUME NEW s \in State, NEW r \in State, RegsOK(s), r.regs = s.regs,
         \A k \in BindingIds : /\ r.bind[k].life = s.bind[k].life
                               /\ r.bind[k].reg = s.bind[k].reg
  PROVE  RegsOK(r)
  BY DEF RegsOK, State, AnyRegistrar

-----------------------------------------------------------------------------
(* Transactions and refreshes that go.                                     *)

LEMMA ClearTaMid ==
  ASSUME NEW i \in BindingIds, NEW s \in State, NEW t \in TaIdsOf(i) \cup {0},
         Mid(s, i)
  PROVE  /\ ClearTa(s, t) \in State /\ Mid(ClearTa(s, t), i)
         /\ ClearTa(s, t).bind = s.bind /\ ClearTa(s, t).refr = s.refr
         /\ ClearTa(s, t).regs = s.regs /\ ClearTa(s, t).left = s.left
         /\ \A u \in TaIds :
              ClearTa(s, t).ta[u] = IF u = t THEN Nobody ELSE s.ta[u]
<1> DEFINE r == ClearTa(s, t)
<1>1. CASE t = 0
  BY <1>1, IdsApart DEF ClearTa
<1>2. CASE t \in TaIdsOf(i)
  <2>1. r = [s EXCEPT !.ta[t] = Nobody]
    BY <1>2, IdsApart DEF ClearTa
  <2>2. r \in State
    BY <2>1 DEF State, TaOwner
  <2>3. /\ r.bind = s.bind /\ r.refr = s.refr /\ r.regs = s.regs
        /\ r.left = s.left /\ r.grows = s.grows
        /\ \A u \in TaIds : r.ta[u] = IF u = t THEN Nobody ELSE s.ta[u]
    BY <1>2, <2>1, IdsApart DEF State
  <2> HIDE DEF r
  <2>4. Touches(s, r, i)
    BY <1>2, <2>3, IdsApart DEF Touches, LocalSame
  <2>5. Sound(r, i)
    BY <2>3, IdsApart DEF Mid, Sound, BindingSound, RefreshSound, TaSound
  <2>6. RegsOK(r)
    BY <2>2, <2>3, RegsOfSame DEF Mid
  <2>7. Mid(r, i)
    BY <2>2, <2>3, <2>4, <2>5, <2>6, MidOf DEF Mid
  <2>8. QED
    BY <2>2, <2>3, <2>7 DEF r
<1>3. QED
  BY <1>1, <1>2

LEMMA RemoveRefreshMid ==
  ASSUME NEW i \in BindingIds, NEW s \in State, NEW j \in RefreshIdsOf(i),
         Mid(s, i), s.refr[j].life = "stored"
  PROVE  /\ RemoveRefreshBy(s, j) \in State /\ Mid(RemoveRefreshBy(s, j), i)
         /\ RemoveRefreshBy(s, j).bind = s.bind
         /\ RemoveRefreshBy(s, j).regs = s.regs
         /\ RemoveRefreshBy(s, j).left = s.left
         /\ Idle(RemoveRefreshBy(s, j), i)
<1> DEFINE r == RemoveRefreshBy(s, j)
<1>1. r = [s EXCEPT !.ta = [t \in TaIds |-> IF s.ta[t] = R(j) THEN Nobody
                                            ELSE s.ta[t]],
                    !.refr[j] = NoRefresh]
  BY DEF RemoveRefreshBy, ClearOwner, State
<1>2. j \in RefreshIds /\ RefreshIdsOf(i) \subseteq RefreshIds
      /\ TaIdsOf(i) \subseteq TaIds
  BY IdsApart
<1>3. r \in State
  <2>1. NoRefresh \in Refresh
    BY DEF NoRefresh, Refresh
  <2>2. Nobody \in TaOwner
    BY DEF TaOwner
  <2>3. [t \in TaIds |-> IF s.ta[t] = R(j) THEN Nobody ELSE s.ta[t]]
          \in [TaIds -> TaOwner]
    BY <2>2 DEF State
  <2>4. [s.refr EXCEPT ![j] = NoRefresh] \in [RefreshIds -> Refresh]
    BY <2>1 DEF State
  <2>5. QED
    BY <1>1, <2>3, <2>4 DEF State
<1>4. /\ r.bind = s.bind /\ r.regs = s.regs
      /\ r.left = s.left /\ r.grows = s.grows
      /\ \A k \in RefreshIds : r.refr[k] = IF k = j THEN NoRefresh
                                           ELSE s.refr[k]
      /\ \A t \in TaIds : r.ta[t] = IF s.ta[t] = R(j) THEN Nobody
                                    ELSE s.ta[t]
  BY <1>1, <1>2 DEF State
<1> HIDE DEF r
<1>5. /\ s.bind[i].refreshing /\ s.bind[i].refresh = j
      /\ \A k \in RefreshIdsOf(i) : k # j => s.refr[k] = NoRefresh
  BY DEF Mid, Sound, RefreshSound, NoRefresh
<1>6. Idle(r, i)
  <2>1. ASSUME NEW t \in TaIdsOf(i)
        PROVE  s.ta[t] = Nobody \/ s.ta[t] = R(j)
    BY <1>2, <1>5 DEF Mid, Sound, TaSound, NoRefresh
  <2>2. QED
    BY <1>2, <1>4, <1>5, <2>1 DEF Idle
<1>7. Touches(s, r, i)
  <2> SUFFICES ASSUME NEW k \in BindingIds, k # i
               PROVE  LocalSame(s, r, k)
    BY DEF Touches
  <2>1. ASSUME NEW t \in TaIdsOf(k)
        PROVE  t \in TaIds /\ s.ta[t] # R(j)
    <3>1. ~ \E m \in RefreshIdsOf(k) : m = j
      BY IdsApart
    <3>2. QED
      BY <3>1, IdsApart, OwnersApart DEF Mid, Sound, TaSound
  <2>2. QED
    BY <1>4, <2>1, IdsApart DEF LocalSame
<1>8. Sound(r, i)
  BY <1>4, <1>6 DEF Mid, Sound, BindingSound, RefreshSound, TaSound, Idle
<1>9. RegsOK(r)
  BY <1>3, <1>4, RegsOfSame DEF Mid
<1>10. Mid(r, i)
  BY <1>3, <1>4, <1>7, <1>8, <1>9, MidOf DEF Mid
<1>11. QED
  BY <1>3, <1>4, <1>6, <1>10 DEF r

(* A binding with refreshing that has no refresh has no transaction.       *)
LEMMA NoRefreshIdle ==
  ASSUME NEW i \in BindingIds, NEW s \in State, Sound(s, i),
         s.bind[i].refreshing, \A j \in RefreshIdsOf(i) : s.refr[j] = NoRefresh
  PROVE  Idle(s, i)
  BY DEF Sound, TaSound, Idle, NoRefresh

LEMMA OneElement ==
  ASSUME NEW S \in SUBSET Nat, NEW x \in S, \A y \in S : y = x
  PROVE  Least(S) = x
<1>1. \E z \in S : \A y \in S : z <= y
  OBVIOUS
<1>2. Least(S) \in S
  BY <1>1 DEF Least
<1>3. QED
  BY <1>2

LEMMA ClearRefreshMid ==
  ASSUME NEW i \in BindingIds, NEW s \in State, Mid(s, i),
         s.bind[i].refreshing
  PROVE  /\ ClearRefreshOwner(s, i) \in State
         /\ Mid(ClearRefreshOwner(s, i), i)
         /\ ClearRefreshOwner(s, i).bind = s.bind
         /\ ClearRefreshOwner(s, i).regs = s.regs
         /\ ClearRefreshOwner(s, i).left = s.left
         /\ Idle(ClearRefreshOwner(s, i), i)
<1>1. CASE FindRefresh(s, i) = {}
  <2>1. \A j \in RefreshIdsOf(i) : s.refr[j] = NoRefresh
    BY <1>1, IdsApart DEF FindRefresh, Mid, Sound, RefreshSound
  <2>2. Idle(s, i)
    BY <2>1, NoRefreshIdle DEF Mid
  <2>3. QED
    BY <1>1, <2>2 DEF ClearRefreshOwner
<1>2. ASSUME NEW j \in FindRefresh(s, i)
      PROVE  /\ Least(FindRefresh(s, i)) = j /\ j \in RefreshIdsOf(i)
             /\ s.refr[j].life = "stored"
  <2>1. /\ j \in RefreshIds /\ s.refr[j].life = "stored"
        /\ s.refr[j].owner = i /\ j = s.bind[i].refresh
    BY <1>2 DEF FindRefresh
  <2>2. PICK k \in BindingIds : j \in RefreshIdsOf(k)
    BY <2>1, IdsCovered
  <2>3. k = i
    BY <2>1, <2>2 DEF Mid, Sound, RefreshSound, NoRefresh
  <2>4. FindRefresh(s, i) \in SUBSET Nat
    BY RegistrationAssumption DEF FindRefresh, RefreshIds
  <2>5. \A y \in FindRefresh(s, i) : y = j
    BY <2>1 DEF FindRefresh
  <2>6. QED
    BY <2>1, <2>2, <2>3, <2>4, <2>5, OneElement
<1>3. ASSUME NEW j \in FindRefresh(s, i)
      PROVE  ClearRefreshOwner(s, i) = RemoveRefreshBy(s, j)
  BY <1>2 DEF ClearRefreshOwner
<1>4. CASE FindRefresh(s, i) # {}
  BY <1>2, <1>3, <1>4, RemoveRefreshMid
<1>5. QED
  BY <1>1, <1>4

(* SelfDetach: a binding with refreshing is idle then, one without loses   *)
(* its current transaction.                                                *)
LEMMA SelfDetachMid ==
  ASSUME NEW i \in BindingIds, NEW s \in State, Mid(s, i)
  PROVE  /\ SelfDetach(s, i) \in State /\ Mid(SelfDetach(s, i), i)
         /\ SelfDetach(s, i).bind = s.bind
         /\ SelfDetach(s, i).regs = s.regs
         /\ SelfDetach(s, i).left = s.left
         /\ \A j \in RefreshIdsOf(i) : SelfDetach(s, i).refr[j] = NoRefresh
         /\ s.bind[i].refreshing => Idle(SelfDetach(s, i), i)
         /\ ~s.bind[i].refreshing =>
              \A t \in TaIdsOf(i) :
                SelfDetach(s, i).ta[t] = IF t = s.bind[i].ta THEN Nobody
                                         ELSE s.ta[t]
<1>1. CASE s.bind[i].refreshing
  BY <1>1, ClearRefreshMid DEF SelfDetach, Idle
<1>2. CASE ~s.bind[i].refreshing
  <2>1. s.bind[i].ta \in TaIdsOf(i) \cup {0}
    BY DEF Mid, Sound, BindingSound
  <2>2. \A j \in RefreshIdsOf(i) : s.refr[j] = NoRefresh
    BY <1>2 DEF Mid, Sound, RefreshSound
  <2>3. SelfDetach(s, i) = ClearTa(s, s.bind[i].ta)
    BY <1>2 DEF SelfDetach
  <2> DEFINE r == ClearTa(s, s.bind[i].ta)
  <2>4. /\ r \in State /\ Mid(r, i) /\ r.bind = s.bind
        /\ r.refr = s.refr /\ r.regs = s.regs /\ r.left = s.left
        /\ \A u \in TaIds :
             r.ta[u] = IF u = s.bind[i].ta THEN Nobody ELSE s.ta[u]
    BY <2>1, ClearTaMid
  <2>5. SelfDetach(s, i) = r
    BY <2>3
  <2>6. \A t \in TaIdsOf(i) : t \in TaIds
    BY IdsApart
  <2> HIDE DEF r
  <2>7. \A t \in TaIdsOf(i) :
          r.ta[t] = IF t = s.bind[i].ta THEN Nobody ELSE s.ta[t]
    BY <2>4, <2>6
  <2>8. \A j \in RefreshIdsOf(i) : r.refr[j] = NoRefresh
    BY <2>2, <2>4
  <2>9. QED
    BY <1>2, <2>4, <2>5, <2>7, <2>8
<1>3. QED
  BY <1>1, <1>2

-----------------------------------------------------------------------------
(* Registrars.                                                             *)

LEMMA RegistrarIdsFinite ==
  IsFiniteSet(RegistrarIds) /\ Cardinality(RegistrarIds) = MaxBindings
<1>1. MaxBindings \in Int /\ 1 \in Int /\ ~(1 > MaxBindings)
  BY RegistrationAssumption
<1>2. /\ IsFiniteSet(1 .. MaxBindings)
      /\ Cardinality(1 .. MaxBindings) =
           IF 1 > MaxBindings THEN 0 ELSE MaxBindings - 1 + 1
  BY <1>1, FS_Interval, Zenon
<1>3. QED
  BY <1>1, <1>2 DEF RegistrarIds

(* A set of registrars is finite, and not larger than the bound.           *)
LEMMA SomeRegistrars ==
  ASSUME NEW S \in SUBSET RegistrarIds
  PROVE  /\ IsFiniteSet(S) /\ Cardinality(S) \in 0 .. MaxBindings
         /\ S # {} => Cardinality(S) # 0
         /\ Cardinality(S) = MaxBindings => S = RegistrarIds
<1>1. /\ IsFiniteSet(S) /\ Cardinality(S) <= Cardinality(RegistrarIds)
      /\ Cardinality(RegistrarIds) = Cardinality(S) => RegistrarIds = S
  BY RegistrarIdsFinite, FS_Subset, Zenon
<1>2. Cardinality(S) \in Nat
  BY <1>1, FS_CardinalityType
<1>3. S # {} => Cardinality(S) # 0
  BY <1>1, FS_EmptySet
<1>4. QED
  BY <1>1, <1>2, <1>3, RegistrarIdsFinite, RegistrationAssumption

(* Registrars without bindings go, the others keep all but their place.    *)
LEMMA WithBindingsFacts ==
  ASSUME NEW g \in [RegistrarIds -> AnyRegistrar]
  PROVE  /\ WithBindings(g) \in [RegistrarIds -> AnyRegistrar]
         /\ \A r \in RegistrarIds :
              IF g[r].ids = {} THEN WithBindings(g)[r] = NoRegistrar
              ELSE /\ WithBindings(g)[r].ids = g[r].ids
                   /\ WithBindings(g)[r].target = g[r].target
                   /\ WithBindings(g)[r].ahead = g[r].ahead
                   /\ WithBindings(g)[r].place # 0
<1> DEFINE used == {r \in RegistrarIds : g[r].ids # {}}
           ahead(r) == {q \in used : g[q].place <= g[r].place}
           h == WithBindings(g)
<1>1. h = [r \in RegistrarIds |->
             IF r \in used
             THEN [g[r] EXCEPT !.place = Cardinality(ahead(r))]
             ELSE NoRegistrar]
  BY DEF WithBindings
<1>2. ASSUME NEW r \in used
      PROVE  Cardinality(ahead(r)) \in 1 .. MaxBindings
  <2>1. ahead(r) \in SUBSET RegistrarIds /\ r \in ahead(r)
    BY DEF AnyRegistrar
  <2>2. ahead(r) # {}
    BY <2>1
  <2> HIDE DEF ahead
  <2>3. QED
    BY <2>1, <2>2, SomeRegistrars, RegistrationAssumption
<1> HIDE DEF h, ahead
<1>3. ASSUME NEW r \in RegistrarIds, g[r].ids # {}
      PROVE  /\ h[r] \in AnyRegistrar
             /\ h[r].ids = g[r].ids /\ h[r].target = g[r].target
             /\ h[r].ahead = g[r].ahead /\ h[r].place # 0
  <2>1. r \in used
    BY <1>3
  <2>2. h[r] = [g[r] EXCEPT !.place = Cardinality(ahead(r))]
    BY <1>1, <2>1
  <2>3. Cardinality(ahead(r)) \in 1 .. MaxBindings
    BY <1>2, <2>1
  <2>4. g[r] \in AnyRegistrar
    OBVIOUS
  <2>5. QED
    BY <2>2, <2>3, <2>4, RegistrationAssumption DEF AnyRegistrar
<1>4. NoRegistrar \in AnyRegistrar
  BY RegistrationAssumption DEF NoRegistrar, AnyRegistrar
<1>5. ASSUME NEW r \in RegistrarIds, g[r].ids = {}
      PROVE  h[r] = NoRegistrar
  BY <1>1, <1>5
<1>6. h \in [RegistrarIds -> AnyRegistrar]
  <2>1. \A r \in RegistrarIds : h[r] \in AnyRegistrar
    BY <1>3, <1>4, <1>5
  <2>2. DOMAIN h = RegistrarIds /\ h = [r \in RegistrarIds |-> h[r]]
    BY <1>1
  <2>3. QED
    BY <2>1, <2>2
<1>7. QED
  BY <1>3, <1>5, <1>6 DEF h

(* The registrars after the bindings in I left them.                       *)
LEMMA RegsWithout ==
  ASSUME NEW s \in State, NEW r \in State, NEW I \in SUBSET BindingIds,
         RegsOK(s),
         NEW left \in [RegistrarIds -> AnyRegistrar],
         r.regs = WithBindings(left),
         \A q \in RegistrarIds : /\ left[q].ids = s.regs[q].ids \ I
                                 /\ left[q].target = s.regs[q].target,
         \A k \in I : r.bind[k].reg = 0,
         \A k \in BindingIds \ I : /\ r.bind[k].life = s.bind[k].life
                                   /\ r.bind[k].reg = s.bind[k].reg
  PROVE  RegsOK(r)
<1>1. ASSUME NEW q \in RegistrarIds
      PROVE  /\ r.regs[q].ids = s.regs[q].ids \ I
             /\ \/ r.regs[q] = NoRegistrar
                \/ /\ r.regs[q].place # 0
                   /\ r.regs[q].target \in Targets
                   /\ r.regs[q].ids # {}
  <2>1. CASE left[q].ids = {}
    BY <2>1, WithBindingsFacts DEF NoRegistrar
  <2>2. CASE left[q].ids # {}
    <3>1. s.regs[q].target \in Targets
      BY <2>2 DEF RegsOK, NoRegistrar
    <3>2. QED
      BY <2>2, <3>1, WithBindingsFacts
  <2>3. QED
    BY <2>1, <2>2
<1>2. \A q \in RegistrarIds : s.regs[q].ids \subseteq BindingIds
  BY DEF State, AnyRegistrar
<1>3. ASSUME NEW q \in RegistrarIds, NEW k \in r.regs[q].ids
      PROVE  r.bind[k].life = "stored" /\ r.bind[k].reg = q
  BY <1>1, <1>2 DEF RegsOK
<1>4. ASSUME NEW k \in BindingIds, r.bind[k].reg # 0
      PROVE  /\ r.bind[k].life = "stored"
             /\ k \in r.regs[r.bind[k].reg].ids
  <2>1. k \notin I
    BY <1>4
  <2>2. r.bind[k].reg \in RegistrarIds
    BY <1>4 DEF State, Binding
  <2>3. QED
    BY <1>1, <1>4, <2>1, <2>2 DEF RegsOK
<1>5. QED
  BY <1>1, <1>3, <1>4 DEF RegsOK

(* RemoveBinding of a stored binding.                                      *)
LEMMA RemoveBindingMid ==
  ASSUME NEW i \in BindingIds, NEW s \in State, Mid(s, i),
         s.bind[i].life = "stored"
  PROVE  /\ RemoveBinding(s, i) \in State
         /\ RegsOK(RemoveBinding(s, i))
         /\ RemoveBinding(s, i).bind =
              [s.bind EXCEPT ![i].life = "dying", ![i].reg = 0]
         /\ RemoveBinding(s, i).refr = s.refr
         /\ RemoveBinding(s, i).ta = s.ta
         /\ RemoveBinding(s, i).left = s.left
         /\ RemoveBinding(s, i).grows = s.grows
<1> DEFINE reg == s.bind[i].reg
           left == IF reg = 0 THEN s.regs
                   ELSE [s.regs EXCEPT ![reg].ids = @ \ {i}]
           b == [s.bind EXCEPT ![i].life = "dying", ![i].reg = 0]
           r == RemoveBinding(s, i)
<1>1. reg \in RegistrarIds \cup {0}
  BY DEF State, Binding
<1>2. left \in [RegistrarIds -> AnyRegistrar]
  BY <1>1 DEF State, AnyRegistrar
<1>3. \A q \in RegistrarIds : /\ left[q].ids = s.regs[q].ids \ {i}
                              /\ left[q].target = s.regs[q].target
  <2>1. \A q \in RegistrarIds : i \in s.regs[q].ids => q = reg
    BY DEF RegsOK, Mid
  <2>2. CASE reg = 0
    BY <2>1, <2>2, RegistrationAssumption DEF State, AnyRegistrar, RegistrarIds
  <2>3. CASE reg \in RegistrarIds
    <3>1. reg # 0
      BY <2>3 DEF RegistrarIds
    <3>2. left = [s.regs EXCEPT ![reg].ids = @ \ {i}]
      BY <3>1
    <3> HIDE DEF left, reg
    <3>3. ASSUME NEW q \in RegistrarIds
          PROVE  /\ left[q].ids = s.regs[q].ids \ {i}
                 /\ left[q].target = s.regs[q].target
      <4>1. s.regs \in [RegistrarIds -> AnyRegistrar]
        BY DEF State
      <4>2. CASE q = reg
        BY <3>2, <4>1, <4>2 DEF AnyRegistrar
      <4>3. CASE q # reg
        BY <2>1, <3>2, <4>1, <4>3 DEF AnyRegistrar
      <4>4. QED
        BY <4>2, <4>3
    <3>4. QED
      BY <3>3
  <2>4. QED
    BY <1>1, <2>2, <2>3
<1>4. b \in [BindingIds -> Binding]
  BY DEF State, Binding
<1>5. CASE reg = 0
  <2>1. r = [s EXCEPT !.bind = b]
    BY <1>5 DEF RemoveBinding, BindingRemoved
  <2>2. /\ r \in State /\ r.bind = b /\ r.refr = s.refr /\ r.ta = s.ta
        /\ r.left = s.left /\ r.grows = s.grows /\ r.regs = s.regs
    BY <1>4, <2>1 DEF State
  <2>3. RegsOK(r)
    <3>1. \A k \in BindingIds : k # i => r.bind[k] = s.bind[k]
      BY <2>2 DEF State
    <3>2. r.bind[i].reg = 0
      BY <2>2 DEF State, Binding
    <3>3. \A q \in RegistrarIds : i \notin s.regs[q].ids
      BY <1>3, <1>5 DEF State, AnyRegistrar, RegsOK, Mid
    <3>4. QED
      BY <2>2, <3>1, <3>2, <3>3 DEF RegsOK, Mid, State, AnyRegistrar
  <2>4. QED
    BY <2>2, <2>3
<1>6. CASE reg # 0
  <2>1. r = [s EXCEPT !.regs = WithBindings(left), !.bind = b]
    BY <1>6 DEF RemoveBinding, BindingRemoved, State
  <2>2. WithBindings(left) \in [RegistrarIds -> AnyRegistrar]
    BY <1>2, WithBindingsFacts
  <2> HIDE DEF left
  <2>3. /\ r \in State /\ r.bind = b /\ r.refr = s.refr /\ r.ta = s.ta
        /\ r.left = s.left /\ r.grows = s.grows
        /\ r.regs = WithBindings(left)
    BY <1>4, <2>1, <2>2 DEF State
  <2> HIDE DEF r
  <2>4. \A k \in {i} : r.bind[k].reg = 0
    BY <2>3 DEF State, Binding
  <2>5. \A k \in BindingIds \ {i} : /\ r.bind[k].life = s.bind[k].life
                                    /\ r.bind[k].reg = s.bind[k].reg
    BY <2>3 DEF State
  <2>6. RegsOK(s) /\ {i} \in SUBSET BindingIds /\ r \in State
        /\ r.regs = WithBindings(left)
    BY <2>3 DEF Mid
  <2>7. RegsOK(r)
    BY <1>2, <1>3, <2>4, <2>5, <2>6, RegsWithout, Zenon
  <2>8. QED
    BY <2>3, <2>7 DEF r
<1>7. QED
  BY <1>5, <1>6

-----------------------------------------------------------------------------
(* The end of a registration.                                              *)

(* A handler changes its binding, and no refresh or transaction.           *)
LEMMA MidOfBind ==
  ASSUME NEW i \in BindingIds, NEW s \in State, NEW r \in State, Mid(s, i),
         r.refr = s.refr, r.ta = s.ta, r.grows, RegsOK(r),
         \A k \in BindingIds : k # i => r.bind[k] = s.bind[k],
         BindingSound(r, i), r.bind[i].life # "none",
         r.bind[i].refreshing = s.bind[i].refreshing,
         s.bind[i].refreshing => r.bind[i].refresh = s.bind[i].refresh,
         r.bind[i].life = "stored" =>
           /\ s.bind[i].life = "stored"
           /\ r.bind[i].ta = s.bind[i].ta
           /\ r.bind[i].retry = s.bind[i].retry
  PROVE  Mid(r, i)
<1>1. Touches(s, r, i)
  BY DEF Touches, LocalSame
<1>2. RefreshSound(r, i)
  BY DEF RefreshSound, Mid, Sound
<1>3. TaSound(r, i)
  BY DEF TaSound, Mid, Sound
<1>4. QED
  BY <1>1, <1>2, <1>3, MidOf DEF Sound

LEMMA GoodOfGone ==
  ASSUME NEW i \in BindingIds, NEW s \in State, Mid(s, i),
         s.bind[i].life # "stored",
         \A j \in RefreshIdsOf(i) : s.refr[j] = NoRefresh
  PROVE  Good(s)
<1>1. \A t \in TaIdsOf(i), j \in RefreshIdsOf(i) : s.ta[t] # R(j)
  BY OwnersApart DEF Mid, Sound, TaSound, NoRefresh
<1>2. QED
  BY <1>1, GoodOf DEF Duty

LEMMA ToldRemovedMid ==
  ASSUME NEW i \in BindingIds, NEW s \in State, Mid(s, i),
         s.bind[i].life = "stored"
  PROVE  /\ Told(RemoveBinding(s, i), i) \in State
         /\ Mid(Told(RemoveBinding(s, i), i), i)
         /\ Told(RemoveBinding(s, i), i).bind[i].life = "dying"
         /\ Told(RemoveBinding(s, i), i).refr = s.refr
         /\ Told(RemoveBinding(s, i), i).ta = s.ta
         /\ Told(RemoveBinding(s, i), i).left = s.left
<1> DEFINE u == RemoveBinding(s, i)
           n == IF u.bind[i].ends = 2 THEN 2 ELSE u.bind[i].ends + 1
           r == Told(u, i)
<1>1. /\ u \in State /\ RegsOK(u)
      /\ u.bind = [s.bind EXCEPT ![i].life = "dying", ![i].reg = 0]
      /\ u.refr = s.refr /\ u.ta = s.ta /\ u.left = s.left
      /\ u.grows = s.grows
  BY RemoveBindingMid
<1> HIDE DEF u
<1>2. r = [u EXCEPT !.bind[i].ends = n]
  BY DEF Told
<1>3. s.bind \in [BindingIds -> Binding] /\ u.bind \in [BindingIds -> Binding]
  BY <1>1 DEF State
<1>4. u.bind[i].ends = s.bind[i].ends /\ s.bind[i].ends \in 0 .. 2
  BY <1>1, <1>3 DEF Binding
<1>5. n \in 0 .. 2
  BY <1>4
<1>6. [u.bind EXCEPT ![i].ends = n] \in [BindingIds -> Binding]
  BY <1>3, <1>5 DEF Binding
<1>7. /\ r \in State /\ r.refr = s.refr /\ r.ta = s.ta /\ r.left = s.left
      /\ r.grows = s.grows /\ r.regs = u.regs
      /\ r.bind = [u.bind EXCEPT ![i].ends = n]
  BY <1>1, <1>2, <1>6 DEF State
<1>8. /\ \A k \in BindingIds : k # i => r.bind[k] = s.bind[k]
      /\ r.bind[i] = [s.bind[i] EXCEPT !.life = "dying", !.reg = 0,
                                       !.ends = n]
  <2> HIDE DEF r, n
  <2>1. u.bind[i] = [s.bind[i] EXCEPT !.life = "dying", !.reg = 0]
    BY <1>1, <1>3 DEF Binding
  <2>2. r.bind[i] = [u.bind[i] EXCEPT !.ends = n]
    BY <1>3, <1>7 DEF Binding
  <2>3. \A k \in BindingIds : k # i => r.bind[k] = s.bind[k]
    BY <1>1, <1>3, <1>7 DEF Binding
  <2>4. s.bind[i] \in Binding
    BY <1>3
  <2>5. QED
    BY <2>1, <2>2, <2>3, <2>4 DEF Binding
<1>9. /\ r.bind[i].life = "dying" /\ r.bind[i].reg = 0
      /\ r.bind[i].ends = n
      /\ r.bind[i].contact = s.bind[i].contact
      /\ r.bind[i].ta = s.bind[i].ta /\ r.bind[i].retry = s.bind[i].retry
      /\ r.bind[i].flow = s.bind[i].flow
      /\ r.bind[i].refreshing = s.bind[i].refreshing
      /\ r.bind[i].timer = s.bind[i].timer
      /\ r.bind[i].refresh = s.bind[i].refresh
  BY <1>3, <1>8 DEF Binding
<1>10. RegsOK(r)
  <2>1. \A k \in BindingIds : /\ r.bind[k].life = u.bind[k].life
                              /\ r.bind[k].reg = u.bind[k].reg
    BY <1>3, <1>7 DEF Binding
  <2>2. QED
    BY <1>1, <1>7, <2>1, RegsOfSame
<1> HIDE DEF r, n
<1>11. ~s.bind[i].flow => n <= 1
  BY <1>4 DEF n, Mid, Sound, BindingSound
<1>12. BindingSound(r, i)
  BY <1>9, <1>11 DEF BindingSound, Mid, Sound
<1>13. Mid(r, i)
  BY <1>7, <1>8, <1>9, <1>10, <1>12, MidOfBind DEF Mid
<1>14. QED
  BY <1>7, <1>9, <1>13 DEF r, u

(* A new value of iCurrentState.                                           *)
LEMMA StateMid ==
  ASSUME NEW i \in BindingIds, NEW s \in State, Mid(s, i),
         NEW st \in RegistrationStates, s.bind[i].life # "none"
  PROVE  /\ [s EXCEPT !.bind[i].st = st] \in State
         /\ Mid([s EXCEPT !.bind[i].st = st], i)
         /\ [s EXCEPT !.bind[i].st = st].bind =
              [s.bind EXCEPT ![i].st = st]
         /\ [s EXCEPT !.bind[i].st = st].refr = s.refr
         /\ [s EXCEPT !.bind[i].st = st].ta = s.ta
         /\ [s EXCEPT !.bind[i].st = st].regs = s.regs
         /\ [s EXCEPT !.bind[i].st = st].left = s.left
<1> DEFINE r == [s EXCEPT !.bind[i].st = st]
<1>1. s.bind \in [BindingIds -> Binding]
  BY DEF State
<1>2. [s.bind EXCEPT ![i].st = st] \in [BindingIds -> Binding]
  BY <1>1 DEF Binding
<1>3. /\ r \in State /\ r.refr = s.refr /\ r.ta = s.ta /\ r.left = s.left
      /\ r.grows = s.grows /\ r.regs = s.regs
      /\ r.bind = [s.bind EXCEPT ![i].st = st]
  BY <1>2 DEF State
<1> HIDE DEF r
<1>4. /\ \A k \in BindingIds : k # i => r.bind[k] = s.bind[k]
      /\ r.bind[i] = [s.bind[i] EXCEPT !.st = st]
  BY <1>1, <1>3 DEF Binding
<1>5. /\ r.bind[i].life = s.bind[i].life /\ r.bind[i].reg = s.bind[i].reg
      /\ r.bind[i].ends = s.bind[i].ends
      /\ r.bind[i].contact = s.bind[i].contact
      /\ r.bind[i].ta = s.bind[i].ta /\ r.bind[i].retry = s.bind[i].retry
      /\ r.bind[i].flow = s.bind[i].flow
      /\ r.bind[i].refreshing = s.bind[i].refreshing
      /\ r.bind[i].timer = s.bind[i].timer
      /\ r.bind[i].refresh = s.bind[i].refresh
  BY <1>1, <1>4 DEF Binding
<1>6. RegsOK(r)
  BY <1>3, <1>4, <1>5, RegsOfSame DEF Mid
<1>7. BindingSound(r, i)
  BY <1>5 DEF BindingSound, Mid, Sound
<1>8. Mid(r, i)
  BY <1>3, <1>4, <1>5, <1>6, <1>7, MidOfBind DEF Mid
<1>9. QED
  BY <1>3, <1>8 DEF r

LEMMA LeftMid ==
  ASSUME NEW i \in BindingIds, NEW s \in State, NEW left \in BOOLEAN
  PROVE  /\ [s EXCEPT !.left = left] \in State
         /\ Mid(s, i) => Mid([s EXCEPT !.left = left], i)
         /\ Good(s) => Good([s EXCEPT !.left = left])
         /\ [s EXCEPT !.left = left].bind = s.bind
         /\ [s EXCEPT !.left = left].refr = s.refr
         /\ [s EXCEPT !.left = left].ta = s.ta
         /\ [s EXCEPT !.left = left].regs = s.regs
         /\ [s EXCEPT !.left = left].left = left
<1> DEFINE r == [s EXCEPT !.left = left]
<1>1. /\ r \in State /\ r.bind = s.bind /\ r.refr = s.refr /\ r.ta = s.ta
      /\ r.grows = s.grows /\ r.regs = s.regs /\ r.left = left
  BY DEF State
<1> HIDE DEF r
<1>2. \A k \in BindingIds : LocalSame(s, r, k)
  BY <1>1 DEF LocalSame
<1>3. RegsOK(s) => RegsOK(r)
  BY <1>1, RegsOfSame
<1>4. /\ Mid(s, i) => Mid(r, i)
      /\ Good(s) => Good(r)
  BY <1>1, <1>2, <1>3, SoundOfSame, DutyOfSame DEF Mid, Good
<1>5. QED
  BY <1>1, <1>4 DEF r

LEMMA PassErrorGood ==
  ASSUME NEW i \in BindingIds, NEW s \in State, Mid(s, i),
         s.bind[i].life = "stored"
  PROVE  /\ PassError(s, i) \in State /\ Good(PassError(s, i))
         /\ PassError(s, i).left = s.left
         /\ PassError(s, i).bind[i].life # "stored"
<1> DEFINE u == Told(RemoveBinding(s, i), i)
           v == SelfDetach(u, i)
<1>1. /\ u \in State /\ Mid(u, i) /\ u.bind[i].life = "dying"
      /\ u.left = s.left
  BY ToldRemovedMid
<1> HIDE DEF u
<1>2. /\ v \in State /\ Mid(v, i) /\ v.bind = u.bind /\ v.left = u.left
      /\ \A j \in RefreshIdsOf(i) : v.refr[j] = NoRefresh
  BY <1>1, SelfDetachMid
<1> HIDE DEF v
<1> DEFINE r == [v EXCEPT !.bind[i].st = "unregistered"]
<1>3. /\ r \in State /\ Mid(r, i) /\ r.left = v.left /\ r.refr = v.refr
      /\ r.bind = [v.bind EXCEPT ![i].st = "unregistered"]
  BY <1>1, <1>2, StateMid DEF RegistrationStates
<1>4. PassError(s, i) = r
  BY DEF PassError, u, v
<1> HIDE DEF r
<1>5. r.bind[i].life = "dying"
  BY <1>1, <1>2, <1>3 DEF State, Binding
<1>6. Good(r)
  BY <1>2, <1>3, <1>5, GoodOfGone
<1>7. QED
  BY <1>1, <1>2, <1>3, <1>4, <1>5, <1>6

(* RemoveBinding alone.                                                    *)
LEMMA RemovedMid ==
  ASSUME NEW i \in BindingIds, NEW s \in State, Mid(s, i),
         s.bind[i].life = "stored"
  PROVE  Mid(RemoveBinding(s, i), i)
         /\ RemoveBinding(s, i).bind[i].life = "dying"
<1> DEFINE r == RemoveBinding(s, i)
<1>1. /\ r \in State /\ RegsOK(r)
      /\ r.bind = [s.bind EXCEPT ![i].life = "dying", ![i].reg = 0]
      /\ r.refr = s.refr /\ r.ta = s.ta /\ r.left = s.left
      /\ r.grows = s.grows
  BY RemoveBindingMid
<1> HIDE DEF r
<1>2. s.bind \in [BindingIds -> Binding]
  BY DEF State
<1>3. /\ \A k \in BindingIds : k # i => r.bind[k] = s.bind[k]
      /\ r.bind[i] = [s.bind[i] EXCEPT !.life = "dying", !.reg = 0]
  BY <1>1, <1>2 DEF Binding
<1>4. /\ r.bind[i].life = "dying" /\ r.bind[i].reg = 0
      /\ r.bind[i].ends = s.bind[i].ends
      /\ r.bind[i].contact = s.bind[i].contact
      /\ r.bind[i].ta = s.bind[i].ta /\ r.bind[i].retry = s.bind[i].retry
      /\ r.bind[i].flow = s.bind[i].flow
      /\ r.bind[i].refreshing = s.bind[i].refreshing
      /\ r.bind[i].timer = s.bind[i].timer
      /\ r.bind[i].refresh = s.bind[i].refresh
  BY <1>2, <1>3 DEF Binding
<1>5. BindingSound(r, i)
  BY <1>4 DEF BindingSound, Mid, Sound
<1>6. Mid(r, i)
  BY <1>1, <1>3, <1>4, <1>5, MidOfBind DEF Mid
<1>7. QED
  BY <1>4, <1>6 DEF r

LEMMA PassErrorResponseMid ==
  ASSUME NEW i \in BindingIds, NEW s \in State, Mid(s, i),
         s.bind[i].life = "stored", NEW accept \in BOOLEAN,
         \A j \in RefreshIdsOf(i) : s.refr[j] = NoRefresh
  PROVE  /\ PassErrorResponseL(s, i, accept) \in State
         /\ Good(PassErrorResponseL(s, i, accept))
         /\ PassErrorResponseL(s, i, accept).bind[i].life # "stored"
<1>1. CASE accept
  BY <1>1, PassErrorGood DEF PassErrorResponseL
<1>2. CASE ~accept
  <2> DEFINE u == RemoveBinding(s, i)
             r == [u EXCEPT !.left = TRUE]
  <2>1. u \in State /\ Mid(u, i) /\ u.bind[i].life = "dying"
        /\ u.refr = s.refr
    BY RemoveBindingMid, RemovedMid
  <2>2. Good(u)
    BY <2>1, GoodOfGone
  <2> HIDE DEF u
  <2>3. r \in State /\ Good(r) /\ r.bind = u.bind
    BY <2>1, <2>2, LeftMid
  <2>4. QED
    BY <1>2, <2>1, <2>3 DEF PassErrorResponseL, u
<1>3. QED
  BY <1>1, <1>2

LEMMA EndedWithErrorMid ==
  ASSUME NEW i \in BindingIds, NEW s \in State, Mid(s, i)
  PROVE  /\ EndedWithError(s, i) \in State /\ Mid(EndedWithError(s, i), i)
         /\ EndedWithError(s, i).bind[i].life # "stored"
         /\ EndedWithError(s, i).refr = s.refr
         /\ EndedWithError(s, i).ta = s.ta
         /\ EndedWithError(s, i).left = s.left
<1>1. CASE s.bind[i].life # "stored"
  BY <1>1 DEF EndedWithError
<1>2. CASE s.bind[i].life = "stored"
  <2> DEFINE u == Told(RemoveBinding(s, i), i)
             r == [u EXCEPT !.bind[i].st = "unregistered"]
  <2>1. /\ u \in State /\ Mid(u, i) /\ u.bind[i].life = "dying"
        /\ u.refr = s.refr /\ u.ta = s.ta /\ u.left = s.left
    BY <1>2, ToldRemovedMid
  <2> HIDE DEF u
  <2>2. /\ r \in State /\ Mid(r, i) /\ r.left = u.left /\ r.refr = u.refr
        /\ r.ta = u.ta /\ r.bind = [u.bind EXCEPT ![i].st = "unregistered"]
    BY <2>1, StateMid DEF RegistrationStates
  <2>3. r.bind[i].life = "dying"
    BY <2>1, <2>2 DEF State, Binding
  <2>4. EndedWithError(s, i) = r
    BY <1>2 DEF EndedWithError, u
  <2> HIDE DEF r
  <2>5. QED
    BY <2>1, <2>2, <2>3, <2>4
<1>3. QED
  BY <1>1, <1>2

-----------------------------------------------------------------------------
(* An accepted 2xx.                                                        *)

(* A nonempty set of natural numbers has a least element.                  *)
LEMMA LeastIn ==
  ASSUME NEW T \in SUBSET Nat, T # {}
  PROVE  Least(T) \in T /\ \A y \in T : Least(T) <= y
<1>1. PICK x \in T : \A y \in T : <<y, x>> \notin OpToRel(<, Nat)
  BY NatLessThanWellFounded, WFMin, Zenon
<1>2. ASSUME NEW y \in T
      PROVE  x <= y
  <2>1. <<y, x>> \in Nat \X Nat
    OBVIOUS
  <2>2. ~(y < x)
    BY <1>1, <2>1 DEF OpToRel
  <2>3. x \in Nat /\ y \in Nat
    OBVIOUS
  <2>4. QED
    BY <2>2, <2>3
<1>3. \E z \in T : \A y \in T : z <= y
  BY <1>2
<1>4. QED
  BY <1>3 DEF Least

(* Each registrar lists a binding that no other lists: with one binding    *)
(* that has none there is room for another registrar.                      *)
LEMMA RoomForRegistrar ==
  ASSUME NEW i \in BindingIds, NEW s \in State, RegsOK(s),
         s.bind[i].reg = 0
  PROVE  Registrars(s) # RegistrarIds
<1> SUFFICES ASSUME Registrars(s) = RegistrarIds
             PROVE  FALSE
  OBVIOUS
<1> DEFINE f == [r \in RegistrarIds |-> CHOOSE k : k \in s.regs[r].ids]
           others == RegistrarIds \ {i}
<1>1. ASSUME NEW r \in RegistrarIds
      PROVE  /\ f[r] \in others /\ s.bind[f[r]].reg = r
  <2>1. s.regs[r].place # 0
    BY DEF Registrars
  <2>2. s.regs[r].ids # {}
    BY <2>1 DEF RegsOK, NoRegistrar
  <2>3. f[r] \in s.regs[r].ids
    BY <2>2
  <2>4. f[r] \in BindingIds /\ s.bind[f[r]].reg = r
    BY <2>3 DEF RegsOK, State, AnyRegistrar
  <2>5. f[r] # i
    <3>1. r # 0
      BY RegistrationAssumption DEF RegistrarIds
    <3>2. QED
      BY <2>4, <3>1
  <2>6. QED
    BY <2>4, <2>5 DEF RegistrarIds, BindingIds
<1>2. f \in [RegistrarIds -> others]
  BY <1>1
<1>3. i \in RegistrarIds
  BY DEF BindingIds, RegistrarIds
<1>4. /\ IsFiniteSet(others)
      /\ Cardinality(others) = Cardinality(RegistrarIds) - 1
  BY <1>3, RegistrarIdsFinite, FS_RemoveElement
<1>5. Cardinality(others) < Cardinality(RegistrarIds)
  BY <1>4, RegistrarIdsFinite, RegistrationAssumption
<1> HIDE DEF f, others
<1>6. \E r, q \in RegistrarIds : r # q /\ f[r] = f[q]
  BY <1>2, <1>4, <1>5, RegistrarIdsFinite, FS_PigeonHole
<1>7. QED
  BY <1>1, <1>6

(* CreateRegistrarL.                                                       *)
LEMMA CreateRegistrarMid ==
  ASSUME NEW i \in BindingIds, NEW s \in State, Mid(s, i),
         s.bind[i].life = "stored", s.bind[i].reg = 0
  PROVE  \E new \in RegistrarIds :
           /\ CreateRegistrarL(s, i) \in State
           /\ RegsOK(CreateRegistrarL(s, i))
           /\ CreateRegistrarL(s, i).bind = [s.bind EXCEPT ![i].reg = new]
           /\ CreateRegistrarL(s, i).refr = s.refr
           /\ CreateRegistrarL(s, i).ta = s.ta
           /\ CreateRegistrarL(s, i).left = s.left
           /\ CreateRegistrarL(s, i).grows = s.grows
<1> DEFINE free == RegistrarIds \ Registrars(s)
           new == Least(free)
           g == NewRegistrar(s, i)
           r == CreateRegistrarL(s, i)
<1>1. RegsOK(s)
  BY DEF Mid
<1>2. Registrars(s) \in SUBSET RegistrarIds
  BY DEF Registrars
<1>3. Registrars(s) # RegistrarIds
  BY <1>1, RoomForRegistrar
<1>4. new \in RegistrarIds /\ s.regs[new].place = 0
  <2>1. free # {} /\ free \in SUBSET Nat
    <3>1. RegistrarIds \in SUBSET Nat
      BY RegistrationAssumption DEF RegistrarIds
    <3>2. QED
      BY <1>2, <1>3, <3>1
  <2>2. new \in free
    BY <2>1, LeastIn
  <2>3. QED
    BY <2>2 DEF Registrars
<1> HIDE DEF new
<1>5. /\ g \in AnyRegistrar /\ g.place # 0 /\ g.target \in Targets
      /\ g.ids = {i}
  <2>1. Cardinality(Registrars(s)) + 1 \in 1 .. MaxBindings
    BY <1>2, <1>3, SomeRegistrars, RegistrationAssumption
  <2>2. s.bind[i].contact \in Contacts
    BY DEF Mid, Sound, BindingSound
  <2>3. QED
    BY <2>1, <2>2 DEF NewRegistrar, AnyRegistrar, Targets
<1>6. r = [s EXCEPT !.regs[new] = g, !.bind[i].reg = new]
  BY DEF CreateRegistrarL, new
<1> HIDE DEF g, r
<1>7. s.regs \in [RegistrarIds -> AnyRegistrar]
      /\ s.bind \in [BindingIds -> Binding]
  BY DEF State
<1>8. /\ [s.regs EXCEPT ![new] = g] \in [RegistrarIds -> AnyRegistrar]
      /\ [s.bind EXCEPT ![i].reg = new] \in [BindingIds -> Binding]
  BY <1>4, <1>5, <1>7 DEF Binding
<1>9. /\ r \in State /\ r.refr = s.refr /\ r.ta = s.ta /\ r.left = s.left
      /\ r.grows = s.grows
      /\ r.regs = [s.regs EXCEPT ![new] = g]
      /\ r.bind = [s.bind EXCEPT ![i].reg = new]
  BY <1>6, <1>8 DEF State
<1>10. /\ \A k \in BindingIds : k # i => r.bind[k] = s.bind[k]
       /\ r.bind[i].life = "stored" /\ r.bind[i].reg = new
       /\ \A q \in RegistrarIds : q # new => r.regs[q] = s.regs[q]
       /\ r.regs[new] = g
  BY <1>4, <1>7, <1>9 DEF Binding
<1>11. s.regs[new] = NoRegistrar
  BY <1>1, <1>4 DEF RegsOK
<1>12. RegsOK(r)
  <2>1. ASSUME NEW q \in RegistrarIds
        PROVE  \/ r.regs[q] = NoRegistrar
               \/ /\ r.regs[q].place # 0
                  /\ r.regs[q].target \in Targets
                  /\ r.regs[q].ids # {}
    BY <1>1, <1>5, <1>10 DEF RegsOK
  <2>2. ASSUME NEW q \in RegistrarIds, NEW k \in r.regs[q].ids
        PROVE  r.bind[k].life = "stored" /\ r.bind[k].reg = q
    <3>1. CASE q = new
      BY <1>5, <1>10, <2>2, <3>1
    <3>2. CASE q # new
      <4>1. k \in s.regs[q].ids /\ k \in BindingIds
        BY <1>7, <1>10, <2>2, <3>2 DEF AnyRegistrar
      <4>2. s.bind[k].life = "stored" /\ s.bind[k].reg = q
        BY <1>1, <4>1 DEF RegsOK
      <4>3. k # i
        BY <4>2 DEF RegistrarIds
      <4>4. QED
        BY <1>10, <4>1, <4>2, <4>3
    <3>3. QED
      BY <3>1, <3>2
  <2>3. ASSUME NEW k \in BindingIds, r.bind[k].reg # 0
        PROVE  /\ r.bind[k].life = "stored"
               /\ k \in r.regs[r.bind[k].reg].ids
    <3>1. CASE k = i
      BY <1>5, <1>10, <3>1
    <3>2. CASE k # i
      <4>1. /\ s.bind[k].life = "stored"
            /\ k \in s.regs[s.bind[k].reg].ids
            /\ s.bind[k].reg \in RegistrarIds
        BY <1>1, <1>7, <1>10, <2>3, <3>2 DEF RegsOK, Binding
      <4>2. s.bind[k].reg # new
        BY <1>11, <4>1 DEF NoRegistrar
      <4>3. QED
        BY <1>10, <3>2, <4>1, <4>2
    <3>3. QED
      BY <3>1, <3>2
  <2>4. QED
    BY <2>1, <2>2, <2>3 DEF RegsOK
<1>13. QED
  BY <1>4, <1>9, <1>12 DEF r

LEMMA Received2XXMid ==
  ASSUME NEW i \in BindingIds, NEW s \in State, Mid(s, i),
         s.bind[i].life = "stored"
  PROVE  /\ Received2XXResponseL(s, i) \in State
         /\ Mid(Received2XXResponseL(s, i), i)
         /\ Received2XXResponseL(s, i).refr = s.refr
         /\ Received2XXResponseL(s, i).ta = s.ta
         /\ Received2XXResponseL(s, i).left = s.left
         /\ \E reg \in RegistrarIds :
              Received2XXResponseL(s, i).bind[i] =
                [s.bind[i] EXCEPT !.reg = reg,
                                  !.timer = ~s.bind[i].refreshing]
<1> DEFINE u == IF s.bind[i].reg = 0 THEN CreateRegistrarL(s, i) ELSE s
           r == Received2XXResponseL(s, i)
<1>1. s.bind \in [BindingIds -> Binding]
  BY DEF State
<1>2. \E reg \in RegistrarIds :
        /\ u \in State /\ RegsOK(u)
        /\ u.bind = [s.bind EXCEPT ![i].reg = reg]
        /\ u.refr = s.refr /\ u.ta = s.ta /\ u.left = s.left
        /\ u.grows = s.grows
  <2>1. CASE s.bind[i].reg = 0
    <3>1. u = CreateRegistrarL(s, i)
      BY <2>1
    <3> HIDE DEF u
    <3>2. QED
      BY <2>1, <3>1, CreateRegistrarMid
  <2>2. CASE s.bind[i].reg # 0
    <3>1. s.bind[i].reg \in RegistrarIds
      BY <1>1, <2>2 DEF Binding
    <3>2. s.bind = [s.bind EXCEPT ![i].reg = s.bind[i].reg]
      BY <1>1 DEF Binding
    <3>3. QED
      BY <2>2, <3>1, <3>2 DEF Mid
  <2>3. QED
    BY <2>1, <2>2
<1>3. PICK reg \in RegistrarIds :
        /\ u \in State /\ RegsOK(u)
        /\ u.bind = [s.bind EXCEPT ![i].reg = reg]
        /\ u.refr = s.refr /\ u.ta = s.ta /\ u.left = s.left
        /\ u.grows = s.grows
  BY <1>2
<1> HIDE DEF u
<1>4. r = [u EXCEPT !.bind[i].timer = ~s.bind[i].refreshing]
  BY DEF Received2XXResponseL, u
<1> DEFINE b == [u.bind EXCEPT ![i].timer = ~s.bind[i].refreshing]
<1>5. u.bind \in [BindingIds -> Binding]
  BY <1>3 DEF State
<1>6. b \in [BindingIds -> Binding]
  <2> DEFINE x == ~s.bind[i].refreshing
  <2>1. x \in BOOLEAN
    OBVIOUS
  <2> HIDE DEF x
  <2>2. [u.bind EXCEPT ![i].timer = x] \in [BindingIds -> Binding]
    BY <1>5, <2>1 DEF Binding
  <2>3. QED
    BY <2>2 DEF x
<1>7. /\ r \in State /\ r.refr = s.refr /\ r.ta = s.ta /\ r.left = s.left
      /\ r.grows = s.grows /\ r.regs = u.regs /\ r.bind = b
  BY <1>3, <1>4, <1>6 DEF State
<1> HIDE DEF r
<1>8. r.bind[i] = [s.bind[i] EXCEPT !.reg = reg,
                                    !.timer = ~s.bind[i].refreshing]
  <2>1. u.bind[i] = [s.bind[i] EXCEPT !.reg = reg]
    BY <1>1, <1>3
  <2>2. r.bind[i] = [u.bind[i] EXCEPT !.timer = ~s.bind[i].refreshing]
    BY <1>5, <1>7
  <2>3. s.bind[i] \in Binding
    BY <1>1
  <2>4. QED
    BY <2>1, <2>2, <2>3 DEF Binding
<1>9. /\ r.bind[i].life = s.bind[i].life
      /\ r.bind[i].ends = s.bind[i].ends
      /\ r.bind[i].contact = s.bind[i].contact
      /\ r.bind[i].ta = s.bind[i].ta /\ r.bind[i].retry = s.bind[i].retry
      /\ r.bind[i].flow = s.bind[i].flow
      /\ r.bind[i].refreshing = s.bind[i].refreshing
      /\ r.bind[i].refresh = s.bind[i].refresh
  BY <1>1, <1>8 DEF Binding
<1>10. r.bind[i].timer => ~r.bind[i].refreshing
  <2> DEFINE x == ~s.bind[i].refreshing
  <2>1. r.bind[i] = [s.bind[i] EXCEPT !.reg = reg, !.timer = x]
    BY <1>8
  <2>2. s.bind[i] \in Binding
    BY <1>1
  <2> HIDE DEF x
  <2>3. r.bind[i].timer = x
    BY <2>1, <2>2 DEF Binding
  <2>4. QED
    BY <1>9, <2>3 DEF x
<1>11. \A k \in BindingIds : k # i => r.bind[k] = s.bind[k]
  BY <1>1, <1>3, <1>5, <1>7
<1>12. \A k \in BindingIds : /\ r.bind[k].life = u.bind[k].life
                             /\ r.bind[k].reg = u.bind[k].reg
  BY <1>5, <1>7 DEF Binding
<1>13. RegsOK(r)
  BY <1>3, <1>7, <1>12, RegsOfSame
<1>14. BindingSound(r, i)
  BY <1>9, <1>10 DEF BindingSound, Mid, Sound
<1>15. Mid(r, i)
  BY <1>7, <1>9, <1>11, <1>13, <1>14, MidOfBind DEF Mid
<1>16. QED
  BY <1>7, <1>8, <1>15 DEF r

-----------------------------------------------------------------------------
(* CSeq numbers.                                                           *)

(* The next REGISTER of binding i gets a number that is new.               *)
Ahead(s, i) == s.bind[i].reg # 0 => s.regs[s.bind[i].reg].ahead = 1

LEMMA RegsOfAhead ==
  ASSUME NEW i \in BindingIds, NEW s \in State, NEW r \in State, RegsOK(s),
         s.bind[i].reg # 0, r.bind = s.bind, NEW n \in 0 .. 1,
         r.regs = [s.regs EXCEPT ![s.bind[i].reg].ahead = n]
  PROVE  RegsOK(r)
<1> DEFINE reg == s.bind[i].reg
<1>1. reg \in RegistrarIds
  BY DEF State, Binding
<1>2. s.regs \in [RegistrarIds -> AnyRegistrar]
  BY DEF State
<1>3. i \in s.regs[reg].ids
  BY DEF RegsOK
<1> HIDE DEF reg
<1>4. r.regs = [s.regs EXCEPT ![reg].ahead = n]
  BY DEF reg
<1>5. s.regs[reg] # NoRegistrar
  BY <1>3 DEF NoRegistrar
<1>6. \A q \in RegistrarIds :
        /\ q # reg => r.regs[q] = s.regs[q]
        /\ r.regs[q].ids = s.regs[q].ids
        /\ r.regs[q].place = s.regs[q].place
        /\ r.regs[q].target = s.regs[q].target
  BY <1>1, <1>2, <1>4 DEF AnyRegistrar
<1>7. \A q \in RegistrarIds :
        \/ r.regs[q] = NoRegistrar
        \/ /\ r.regs[q].place # 0
           /\ r.regs[q].target \in Targets
           /\ r.regs[q].ids # {}
  BY <1>5, <1>6 DEF RegsOK
<1>8. ASSUME NEW q \in RegistrarIds, NEW k \in r.regs[q].ids
      PROVE  r.bind[k].life = "stored" /\ r.bind[k].reg = q
  <2>1. k \in s.regs[q].ids
    BY <1>6
  <2>2. s.bind[k].life = "stored" /\ s.bind[k].reg = q
    BY <2>1 DEF RegsOK
  <2>3. QED
    BY <2>2
<1>9. ASSUME NEW k \in BindingIds, r.bind[k].reg # 0
      PROVE  /\ r.bind[k].life = "stored"
             /\ k \in r.regs[r.bind[k].reg].ids
  <2>1. s.bind[k].reg \in RegistrarIds
    BY <1>9 DEF State, Binding
  <2>2. QED
    BY <1>6, <1>9, <2>1 DEF RegsOK
<1>10. QED
  BY <1>7, <1>8, <1>9 DEF RegsOK

LEMMA NextCSeqFacts ==
  ASSUME NEW i \in BindingIds, NEW s \in State, RegsOK(s)
  PROVE  /\ NextCSeq(s, i) \in State /\ RegsOK(NextCSeq(s, i))
         /\ NextCSeq(s, i).bind = s.bind /\ NextCSeq(s, i).refr = s.refr
         /\ NextCSeq(s, i).ta = s.ta /\ NextCSeq(s, i).left = s.left
         /\ NextCSeq(s, i).grows = s.grows
         /\ Ahead(NextCSeq(s, i), i)
<1> DEFINE reg == s.bind[i].reg
           r == NextCSeq(s, i)
<1>1. CASE reg = 0
  BY <1>1 DEF NextCSeq, Ahead
<1>2. CASE reg # 0
  <2>1. reg \in RegistrarIds
    BY <1>2 DEF State, Binding
  <2>2. s.regs \in [RegistrarIds -> AnyRegistrar]
    BY DEF State
  <2>3. [s.regs EXCEPT ![reg].ahead = 1] \in [RegistrarIds -> AnyRegistrar]
    BY <2>1, <2>2 DEF AnyRegistrar
  <2>4. r = [s EXCEPT !.regs[reg].ahead = 1]
    BY <1>2 DEF NextCSeq, IncreaseCSeqNumber
  <2>5. /\ r \in State /\ r.bind = s.bind /\ r.refr = s.refr
        /\ r.ta = s.ta /\ r.left = s.left /\ r.grows = s.grows
        /\ r.regs = [s.regs EXCEPT ![reg].ahead = 1]
    BY <2>3, <2>4 DEF State
  <2> HIDE DEF r
  <2>6. RegsOK(r)
    <3>1. 1 \in 0 .. 1
      OBVIOUS
    <3>2. QED
      BY <1>2, <2>5, <3>1, RegsOfAhead, Zenon
  <2>7. Ahead(r, i)
    BY <2>1, <2>2, <2>5 DEF Ahead, AnyRegistrar
  <2>8. QED
    BY <2>5, <2>6, <2>7 DEF r
<1>3. QED
  BY <1>1, <1>2

LEMMA NumberedFacts ==
  ASSUME NEW i \in BindingIds, NEW s \in State, RegsOK(s), s.grows,
         Ahead(s, i)
  PROVE  /\ Numbered(s, i) \in State /\ RegsOK(Numbered(s, i))
         /\ Numbered(s, i).bind = s.bind /\ Numbered(s, i).refr = s.refr
         /\ Numbered(s, i).ta = s.ta /\ Numbered(s, i).left = s.left
         /\ Numbered(s, i).grows
<1> DEFINE reg == s.bind[i].reg
           r == Numbered(s, i)
<1>1. CASE reg = 0
  BY <1>1 DEF Numbered
<1>2. CASE reg # 0
  <2>1. reg \in RegistrarIds
    BY <1>2 DEF State, Binding
  <2>2. s.regs \in [RegistrarIds -> AnyRegistrar]
    BY DEF State
  <2>3. [s.regs EXCEPT ![reg].ahead = 0] \in [RegistrarIds -> AnyRegistrar]
    BY <2>1, <2>2 DEF AnyRegistrar
  <2>4. s.regs[reg].ahead > 0
    BY <1>2 DEF Ahead
  <2>5. r = [s EXCEPT !.regs[reg].ahead = 0,
                      !.grows = s.grows /\ s.regs[reg].ahead > 0]
    BY <1>2 DEF Numbered
  <2>6. /\ r \in State /\ r.bind = s.bind /\ r.refr = s.refr
        /\ r.ta = s.ta /\ r.left = s.left /\ r.grows
        /\ r.regs = [s.regs EXCEPT ![reg].ahead = 0]
    BY <2>3, <2>4, <2>5 DEF State
  <2> HIDE DEF r
  <2>7. RegsOK(r)
    <3>1. 0 \in 0 .. 1
      OBVIOUS
    <3>2. QED
      BY <1>2, <2>6, <3>1, RegsOfAhead, Zenon
  <2>8. QED
    BY <2>6, <2>7 DEF r
<1>3. QED
  BY <1>1, <1>2

(* Only the registrars change.                                             *)
LEMMA MidOfRegs ==
  ASSUME NEW i \in BindingIds, NEW s \in State, NEW r \in State,
         r.bind = s.bind, r.refr = s.refr, r.ta = s.ta,
         RegsOK(r), r.grows
  PROVE  /\ Mid(s, i) => Mid(r, i)
         /\ Duty(s, i) => Duty(r, i)
<1>1. \A k \in BindingIds : LocalSame(s, r, k)
  BY DEF LocalSame
<1>2. ASSUME Mid(s, i)
      PROVE  Mid(r, i)
  <2>1. ASSUME NEW k \in BindingIds
        PROVE  Sound(r, k)
    BY <1>1, <1>2, SoundOfSame DEF Mid
  <2>2. ASSUME NEW k \in BindingIds \ {i}
        PROVE  Duty(r, k)
    BY <1>1, <1>2, DutyOfSame DEF Mid
  <2>3. QED
    BY <2>1, <2>2 DEF Mid
<1>3. ASSUME Duty(s, i)
      PROVE  Duty(r, i)
  BY <1>3 DEF Duty, Waits, Kept, HasRefresh
<1>4. QED
  BY <1>2, <1>3

-----------------------------------------------------------------------------
(* New transactions and refreshes.                                         *)

(* There is a free transaction id unless four of them are in use.          *)
LEMMA FreshTaIn ==
  ASSUME NEW i \in BindingIds, NEW s \in State,
         NEW a \in TaIds \cup {0}, NEW b \in TaIds \cup {0},
         NEW c \in TaIds \cup {0},
         \A t \in TaIdsOf(i) : t \notin {a, b, c} =>
           /\ s.ta[t] = Nobody
           /\ t \notin {s.bind[i].ta, s.bind[i].retry}
           /\ \A j \in RefreshIdsOf(i) : t # s.refr[j].ta
  PROVE  /\ FreshTa(s, i) \in TaIdsOf(i)
         /\ s.ta[FreshTa(s, i)] = Nobody
         /\ FreshTa(s, i) \notin {s.bind[i].ta, s.bind[i].retry}
         /\ \A j \in RefreshIdsOf(i) : FreshTa(s, i) # s.refr[j].ta
<1> DEFINE T == {t \in TaIdsOf(i) :
                   /\ s.ta[t] = Nobody
                   /\ t \notin {s.bind[i].ta, s.bind[i].retry}
                   /\ \A j \in RefreshIdsOf(i) : t # s.refr[j].ta}
<1>1. /\ 4 * i \in TaIdsOf(i) /\ 4 * i - 1 \in TaIdsOf(i)
      /\ 4 * i - 2 \in TaIdsOf(i) /\ 4 * i - 3 \in TaIdsOf(i)
      /\ TaIdsOf(i) \in SUBSET Nat
      /\ 4 * i \in Int
  BY RegistrationAssumption DEF TaIdsOf, BindingIds
<1>2. \E t \in TaIdsOf(i) : t \notin {a, b, c}
  <2>1. /\ 4 * i # 4 * i - 1 /\ 4 * i # 4 * i - 2 /\ 4 * i # 4 * i - 3
        /\ 4 * i - 1 # 4 * i - 2 /\ 4 * i - 1 # 4 * i - 3
        /\ 4 * i - 2 # 4 * i - 3
    BY <1>1
  <2> DEFINE p == 4 * i
             q == 4 * i - 1
             u == 4 * i - 2
             v == 4 * i - 3
  <2>2. /\ p \in TaIdsOf(i) /\ q \in TaIdsOf(i)
        /\ u \in TaIdsOf(i) /\ v \in TaIdsOf(i)
        /\ p # q /\ p # u /\ p # v /\ q # u /\ q # v /\ u # v
    BY <1>1, <2>1
  <2> HIDE DEF p, q, u, v
  <2>3. QED
    BY <2>2
<1>3. T # {} /\ T \in SUBSET Nat
  BY <1>1, <1>2
<1>4. Least(T) \in T
  BY <1>3, LeastIn
<1>5. FreshTa(s, i) = Least(T)
  BY DEF FreshTa
<1> HIDE DEF T
<1>6. FreshTa(s, i) \in T
  BY <1>4, <1>5
<1>7. QED
  BY <1>6 DEF T

LEMMA FreshRefreshIn ==
  ASSUME NEW i \in BindingIds, NEW s \in State,
         \A j \in RefreshIdsOf(i) : s.refr[j] = NoRefresh
  PROVE  FreshRefresh(s, i) \in RefreshIdsOf(i)
<1> DEFINE T == {j \in RefreshIdsOf(i) : s.refr[j].life = "none"}
<1>1. 2 * i \in RefreshIdsOf(i) /\ RefreshIdsOf(i) \in SUBSET Nat
  BY RegistrationAssumption DEF RefreshIdsOf, BindingIds
<1>2. T # {} /\ T \in SUBSET Nat
  BY <1>1 DEF NoRefresh
<1>3. Least(T) \in T
  BY <1>2, LeastIn
<1>4. QED
  BY <1>3 DEF FreshRefresh

LEMMA IdleFresh ==
  ASSUME NEW i \in BindingIds, NEW s \in State, Idle(s, i)
  PROVE  FreshTa(s, i) \in TaIdsOf(i)
<1> DEFINE a == s.bind[i].ta
           b == s.bind[i].retry
           c == 0
<1>1. \A t \in TaIdsOf(i) : t \notin {a, b, c} =>
        /\ s.ta[t] = Nobody
        /\ t \notin {s.bind[i].ta, s.bind[i].retry}
        /\ \A j \in RefreshIdsOf(i) : t # s.refr[j].ta
  BY DEF Idle, NoRefresh
<1>2. /\ a \in TaIds \cup {0} /\ b \in TaIds \cup {0}
      /\ c \in TaIds \cup {0}
  BY DEF State, Binding
<1> HIDE DEF a, b, c
<1>3. QED
  BY <1>1, <1>2, FreshTaIn

-----------------------------------------------------------------------------
(* A REGISTER of a binding that has no other request.                      *)

(* A binding whose only transaction is t, its own or that of refresh j.    *)
OwnsOnly(r, i, t) ==
    /\ \A j \in RefreshIdsOf(i) : r.refr[j] = NoRefresh
    /\ \A u \in TaIdsOf(i) : r.ta[u] = IF u = t THEN B(i) ELSE Nobody

RefreshOwnsOnly(r, i, j, t) ==
    /\ r.refr[j] = [life |-> "stored", owner |-> i, ta |-> t, timer |-> FALSE]
    /\ \A k \in RefreshIdsOf(i) : k # j => r.refr[k] = NoRefresh
    /\ \A u \in TaIdsOf(i) : r.ta[u] = IF u = t THEN R(j) ELSE Nobody

LEMMA SentGood ==
  ASSUME NEW i \in BindingIds, NEW s \in State, NEW r \in State, Mid(s, i),
         Touches(s, r, i), RegsOK(r), r.grows,
         NEW t \in TaIdsOf(i), NEW j \in RefreshIdsOf(i),
         IF r.bind[i].refreshing
         THEN r.bind[i].refresh = j /\ RefreshOwnsOnly(r, i, j, t)
         ELSE OwnsOnly(r, i, t),
         BindingSound(r, i), r.bind[i].life = "stored",
         IF r.bind[i].st = "retrying" THEN r.bind[i].retry = t
         ELSE r.bind[i].ta = t,
         \/ r.bind[i].st \in {"registering", "retrying"} /\ ~r.bind[i].zero
         \/ r.bind[i].st = "updating" /\ ~r.bind[i].zero /\ r.bind[i].reg # 0
         \/ r.bind[i].st = "unregistering" /\ r.bind[i].zero
            /\ r.bind[i].reg # 0
  PROVE  Good(r)
<1>1. /\ t # 0 /\ TaIdsOf(i) \subseteq TaIds
      /\ RefreshIdsOf(i) \subseteq RefreshIds
  BY IdsApart
<1>2. CASE ~r.bind[i].refreshing
  <2>1. OwnsOnly(r, i, t)
    BY <1>2
  <2>2. RefreshSound(r, i)
    BY <2>1 DEF OwnsOnly, RefreshSound
  <2>3. TaSound(r, i)
    BY <1>2, <2>1 DEF OwnsOnly, TaSound
  <2>4. Mid(r, i)
    BY <2>2, <2>3, MidOf DEF Sound
  <2>5. r.bind[i].st # "retrying" => Waits(r, i)
    BY <1>1, <1>2, <2>1 DEF OwnsOnly, Waits
  <2>6. \A u \in TaIdsOf(i) : r.ta[u] = B(i) => u = t
    BY <2>1, OwnersApart DEF OwnsOnly
  <2>7. \A u \in TaIdsOf(i), k \in RefreshIdsOf(i) : r.ta[u] # R(k)
    BY <2>1, OwnersApart DEF OwnsOnly
  <2>8. Duty(r, i)
    BY <2>5, <2>6, <2>7 DEF Duty
  <2>9. QED
    BY <2>4, <2>8, GoodOf
<1>3. CASE r.bind[i].refreshing
  <2>1. r.bind[i].refresh = j /\ RefreshOwnsOnly(r, i, j, t)
    BY <1>3
  <2>2. RefreshSound(r, i)
    BY <1>3, <2>1 DEF RefreshOwnsOnly, RefreshSound
  <2>3. TaSound(r, i)
    BY <2>1 DEF RefreshOwnsOnly, TaSound
  <2>4. Mid(r, i)
    BY <2>2, <2>3, MidOf DEF Sound
  <2>5. HasRefresh(r, i)
    BY <1>3, <2>1 DEF HasRefresh, RefreshOwnsOnly
  <2>6. r.bind[i].st # "retrying" => Waits(r, i)
    BY <1>1, <2>1, <2>5 DEF RefreshOwnsOnly, Waits
  <2>7. \A u \in TaIdsOf(i) : r.ta[u] # B(i)
    BY <2>1, OwnersApart DEF RefreshOwnsOnly
  <2>8. \A u \in TaIdsOf(i), k \in RefreshIdsOf(i) :
          r.ta[u] = R(k) => ~r.refr[k].timer
    BY <2>1, OwnersApart DEF RefreshOwnsOnly, NoRefresh
  <2>9. Duty(r, i)
    BY <2>6, <2>7, <2>8 DEF Duty
  <2>10. QED
    BY <2>4, <2>9, GoodOf
<1>4. QED
  BY <1>2, <1>3

(* The request that leaves in a new transaction.                           *)
LEMMA SentByFacts ==
  ASSUME NEW i \in BindingIds, NEW s \in State, NEW t \in TaIdsOf(i)
  PROVE  /\ SentBy(s, t, B(i)) \in State
         /\ SentBy(s, t, B(i)).bind = s.bind
         /\ SentBy(s, t, B(i)).refr = s.refr
         /\ SentBy(s, t, B(i)).regs = s.regs
         /\ SentBy(s, t, B(i)).grows = s.grows
         /\ SentBy(s, t, B(i)).left = s.left
         /\ SentBy(s, t, B(i)).ta = [s.ta EXCEPT ![t] = B(i)]
<1>1. t \in TaIds /\ B(i) \in TaOwner
  BY IdsApart DEF TaOwner
<1>2. [s.ta EXCEPT ![t] = B(i)] \in [TaIds -> TaOwner]
  BY <1>1 DEF State
<1>3. QED
  BY <1>2 DEF SentBy, State

LEMMA RefreshFacts ==
  ASSUME NEW i \in BindingIds, NEW s \in State, Idle(s, i)
  PROVE  \E j \in RefreshIdsOf(i) :
           LET t == FreshTa(s, i)
               r == RefreshL(s, i)
           IN  /\ r \in State
               /\ r.bind = [s.bind EXCEPT ![i].refresh = j]
               /\ r.refr = [s.refr EXCEPT ![j] =
                              [life |-> "stored", owner |-> i, ta |-> t,
                               timer |-> FALSE]]
               /\ r.ta = [s.ta EXCEPT ![t] = R(j)]
               /\ r.regs = s.regs /\ r.grows = s.grows /\ r.left = s.left
<1> DEFINE j == FreshRefresh(s, i)
           t == FreshTa(s, i)
           f == [life |-> "stored", owner |-> i, ta |-> t, timer |-> FALSE]
           r == RefreshL(s, i)
<1>1. j \in RefreshIdsOf(i) /\ t \in TaIdsOf(i)
  BY FreshRefreshIn, IdleFresh DEF Idle
<1>2. j \in RefreshIds /\ t \in TaIds
  BY <1>1, IdsApart
<1>3. r = [s EXCEPT !.ta[t] = R(j), !.refr[j] = f, !.bind[i].refresh = j]
  BY DEF RefreshL, SentBy, State
<1> HIDE DEF j, t, r
<1>4. R(j) \in TaOwner /\ f \in Refresh
  BY <1>2 DEF TaOwner, Refresh
<1> HIDE DEF f
<1>5. /\ [s.ta EXCEPT ![t] = R(j)] \in [TaIds -> TaOwner]
      /\ [s.refr EXCEPT ![j] = f] \in [RefreshIds -> Refresh]
      /\ [s.bind EXCEPT ![i].refresh = j] \in [BindingIds -> Binding]
  BY <1>2, <1>4 DEF State, Binding
<1>6. /\ r \in State
      /\ r.bind = [s.bind EXCEPT ![i].refresh = j]
      /\ r.refr = [s.refr EXCEPT ![j] = f]
      /\ r.ta = [s.ta EXCEPT ![t] = R(j)]
      /\ r.regs = s.regs /\ r.grows = s.grows /\ r.left = s.left
  BY <1>3, <1>5 DEF State
<1>7. QED
  BY <1>1, <1>6 DEF r, f, t

(* iTransactionId or iRetryTransactionId takes the new transaction.        *)
TakenTa(s, i, t) ==
    IF s.bind[i].st = "retrying" THEN [s EXCEPT !.bind[i].retry = t]
    ELSE [s EXCEPT !.bind[i].ta = t]

LEMMA TaTaken ==
  ASSUME NEW i \in BindingIds, NEW s \in State, NEW t \in TaIdsOf(i),
         RegsOK(s)
  PROVE  /\ TakenTa(s, i, t) \in State /\ RegsOK(TakenTa(s, i, t))
         /\ TakenTa(s, i, t).refr = s.refr /\ TakenTa(s, i, t).ta = s.ta
         /\ TakenTa(s, i, t).regs = s.regs
         /\ TakenTa(s, i, t).grows = s.grows
         /\ TakenTa(s, i, t).left = s.left
         /\ \A k \in BindingIds :
              k # i => TakenTa(s, i, t).bind[k] = s.bind[k]
         /\ TakenTa(s, i, t).bind[i] =
              IF s.bind[i].st = "retrying"
              THEN [s.bind[i] EXCEPT !.retry = t]
              ELSE [s.bind[i] EXCEPT !.ta = t]
<1> DEFINE r == TakenTa(s, i, t)
           b == IF s.bind[i].st = "retrying"
                THEN [s.bind[i] EXCEPT !.retry = t]
                ELSE [s.bind[i] EXCEPT !.ta = t]
<1>1. t \in TaIds /\ s.bind \in [BindingIds -> Binding]
  BY IdsApart DEF State
<1>2. b \in Binding /\ b.life = s.bind[i].life /\ b.reg = s.bind[i].reg
  BY <1>1 DEF Binding
<1>3. r = [s EXCEPT !.bind[i] = b]
  BY DEF TakenTa
<1> HIDE DEF r, b
<1>4. [s.bind EXCEPT ![i] = b] \in [BindingIds -> Binding]
  BY <1>1, <1>2
<1>5. /\ r \in State /\ r.refr = s.refr /\ r.ta = s.ta /\ r.regs = s.regs
      /\ r.grows = s.grows /\ r.left = s.left
      /\ r.bind = [s.bind EXCEPT ![i] = b]
  BY <1>3, <1>4 DEF State
<1>6. r.bind[i] = b /\ \A k \in BindingIds : k # i => r.bind[k] = s.bind[k]
  BY <1>1, <1>5
<1>7. RegsOK(r)
  BY <1>2, <1>5, <1>6, RegsOfSame
<1>8. QED
  BY <1>5, <1>6, <1>7 DEF r, b

(* DoRegisterL of an idle binding.                                         *)
LEMMA DoRegisterGood ==
  ASSUME NEW i \in BindingIds, NEW s \in State, Mid(s, i), Idle(s, i),
         Ahead(s, i), s.bind[i].life = "stored", ~s.bind[i].zero,
         s.bind[i].st \in {"registering", "retrying"}
  PROVE  /\ DoRegisterL(s, i) \in State /\ Good(DoRegisterL(s, i))
         /\ DoRegisterL(s, i).left = s.left
<1> DEFINE t == FreshTa(s, i)
           sent == IF s.bind[i].refreshing THEN RefreshL(s, i)
                   ELSE SentBy(s, t, B(i))
           n == Numbered(sent, i)
           r == TakenTa(n, i, t)
<1>1. t \in TaIdsOf(i)
  BY IdleFresh
<1>2. s.bind \in [BindingIds -> Binding] /\ RegsOK(s) /\ s.grows
  BY DEF State, Mid
<1>3. \E j \in RefreshIdsOf(i) :
        /\ sent \in State
        /\ sent.bind = IF s.bind[i].refreshing
                       THEN [s.bind EXCEPT ![i].refresh = j] ELSE s.bind
        /\ sent.refr = IF s.bind[i].refreshing
                       THEN [s.refr EXCEPT ![j] =
                               [life |-> "stored", owner |-> i, ta |-> t,
                                timer |-> FALSE]]
                       ELSE s.refr
        /\ sent.ta = [s.ta EXCEPT ![t] = IF s.bind[i].refreshing THEN R(j)
                                         ELSE B(i)]
        /\ sent.regs = s.regs /\ sent.grows = s.grows /\ sent.left = s.left
  <2>1. CASE s.bind[i].refreshing
    <3>1. sent = RefreshL(s, i)
      BY <2>1
    <3> HIDE DEF sent
    <3>2. QED
      BY <2>1, <3>1, RefreshFacts
  <2>2. CASE ~s.bind[i].refreshing
    <3>1. sent = SentBy(s, t, B(i)) /\ 2 * i \in RefreshIdsOf(i)
      BY <2>2, RegistrationAssumption DEF RefreshIdsOf, BindingIds
    <3> HIDE DEF sent, t
    <3>2. QED
      BY <1>1, <2>2, <3>1, SentByFacts
  <2>3. QED
    BY <2>1, <2>2
<1>4. PICK j \in RefreshIdsOf(i) :
        /\ sent \in State
        /\ sent.bind = IF s.bind[i].refreshing
                       THEN [s.bind EXCEPT ![i].refresh = j] ELSE s.bind
        /\ sent.refr = IF s.bind[i].refreshing
                       THEN [s.refr EXCEPT ![j] =
                               [life |-> "stored", owner |-> i, ta |-> t,
                                timer |-> FALSE]]
                       ELSE s.refr
        /\ sent.ta = [s.ta EXCEPT ![t] = IF s.bind[i].refreshing THEN R(j)
                                         ELSE B(i)]
        /\ sent.regs = s.regs /\ sent.grows = s.grows /\ sent.left = s.left
  BY <1>3
<1> HIDE DEF t, sent
<1>5. /\ \A k \in BindingIds : k # i => sent.bind[k] = s.bind[k]
      /\ sent.bind[i] = IF s.bind[i].refreshing
                        THEN [s.bind[i] EXCEPT !.refresh = j]
                        ELSE s.bind[i]
  BY <1>2, <1>4
<1>6. /\ sent.bind[i].life = s.bind[i].life
      /\ sent.bind[i].reg = s.bind[i].reg
      /\ sent.bind[i].st = s.bind[i].st
      /\ sent.bind[i].zero = s.bind[i].zero
      /\ sent.bind[i].ends = s.bind[i].ends
      /\ sent.bind[i].flow = s.bind[i].flow
      /\ sent.bind[i].contact = s.bind[i].contact
      /\ sent.bind[i].refreshing = s.bind[i].refreshing
      /\ sent.bind[i].timer = s.bind[i].timer
      /\ sent.bind[i].ta = s.bind[i].ta
      /\ sent.bind[i].retry = s.bind[i].retry
      /\ s.bind[i].refreshing => sent.bind[i].refresh = j
  BY <1>2, <1>5 DEF Binding
<1>7. RegsOK(sent) /\ Ahead(sent, i) /\ sent.grows
  BY <1>2, <1>4, <1>5, <1>6, RegsOfSame DEF Ahead
<1>8. /\ n \in State /\ RegsOK(n) /\ n.bind = sent.bind
      /\ n.refr = sent.refr /\ n.ta = sent.ta /\ n.left = sent.left
      /\ n.grows
  BY <1>4, <1>7, NumberedFacts
<1> HIDE DEF n
<1>9. /\ r \in State /\ RegsOK(r)
      /\ r.refr = n.refr /\ r.ta = n.ta /\ r.grows = n.grows
      /\ r.left = n.left
      /\ \A k \in BindingIds : k # i => r.bind[k] = n.bind[k]
      /\ r.bind[i] = IF n.bind[i].st = "retrying"
                     THEN [n.bind[i] EXCEPT !.retry = t]
                     ELSE [n.bind[i] EXCEPT !.ta = t]
  <2>1. n \in State /\ RegsOK(n)
    BY <1>8
  <2> HIDE DEF r
  <2>2. r = TakenTa(n, i, t)
    BY DEF r
  <2>3. /\ TakenTa(n, i, t) \in State /\ RegsOK(TakenTa(n, i, t))
        /\ TakenTa(n, i, t).refr = n.refr /\ TakenTa(n, i, t).ta = n.ta
        /\ TakenTa(n, i, t).grows = n.grows
        /\ TakenTa(n, i, t).left = n.left
        /\ \A k \in BindingIds :
             k # i => TakenTa(n, i, t).bind[k] = n.bind[k]
        /\ TakenTa(n, i, t).bind[i] =
             IF n.bind[i].st = "retrying"
             THEN [n.bind[i] EXCEPT !.retry = t]
             ELSE [n.bind[i] EXCEPT !.ta = t]
    BY <1>1, <2>1, TaTaken
  <2>4. QED
    BY <2>2, <2>3
<1>10. DoRegisterL(s, i) = r
  BY <1>6, <1>8 DEF DoRegisterL, TakenTa, t, sent, n
<1> HIDE DEF r
<1>11. n.bind[i] \in Binding
  BY <1>8 DEF State
<1>12. /\ r.bind[i].life = "stored"
       /\ r.bind[i].reg = s.bind[i].reg
       /\ r.bind[i].st = s.bind[i].st
       /\ r.bind[i].zero = s.bind[i].zero
       /\ r.bind[i].ends = s.bind[i].ends
       /\ r.bind[i].flow = s.bind[i].flow
       /\ r.bind[i].contact = s.bind[i].contact
       /\ r.bind[i].refreshing = s.bind[i].refreshing
       /\ r.bind[i].timer = s.bind[i].timer
       /\ s.bind[i].refreshing => r.bind[i].refresh = j
       /\ r.bind[i].ta \in {t, s.bind[i].ta}
       /\ r.bind[i].retry \in {t, s.bind[i].retry}
       /\ IF r.bind[i].st = "retrying" THEN r.bind[i].retry = t
          ELSE r.bind[i].ta = t
  <2>1. r.bind[i].timer = n.bind[i].timer
    BY <1>9, <1>11 DEF Binding
  <2>2. QED
    BY <1>6, <1>8, <1>9, <1>11, <2>1 DEF Binding
<1>13. t \in TaIds /\ j \in RefreshIds /\ TaIdsOf(i) \subseteq TaIds
       /\ RefreshIdsOf(i) \subseteq RefreshIds
  BY <1>1, IdsApart
<1>14. BindingSound(r, i)
  BY <1>1, <1>12 DEF BindingSound, Mid, Sound
<1>15. \A u \in TaIds :
         r.ta[u] = IF u = t THEN IF s.bind[i].refreshing THEN R(j) ELSE B(i)
                   ELSE s.ta[u]
  BY <1>4, <1>8, <1>9, <1>13 DEF State
<1>16. \A k \in RefreshIds :
         r.refr[k] = IF k = j /\ s.bind[i].refreshing
                     THEN [life |-> "stored", owner |-> i, ta |-> t,
                           timer |-> FALSE]
                     ELSE s.refr[k]
  BY <1>4, <1>8, <1>9, <1>13 DEF State
<1>17. Touches(s, r, i)
  BY <1>1, <1>5, <1>8, <1>9, <1>15, <1>16, IdsApart DEF Touches, LocalSame
<1>18. IF r.bind[i].refreshing
       THEN r.bind[i].refresh = j /\ RefreshOwnsOnly(r, i, j, t)
       ELSE OwnsOnly(r, i, t)
  BY <1>12, <1>13, <1>15, <1>16 DEF Idle, RefreshOwnsOnly, OwnsOnly
<1>19. Good(r)
  BY <1>1, <1>8, <1>9, <1>12, <1>14, <1>17, <1>18, SentGood
<1>20. QED
  BY <1>4, <1>8, <1>9, <1>10, <1>19

-----------------------------------------------------------------------------
(* The states' ReceiveL.                                                   *)

(* Without refreshes only the binding itself has transactions.             *)
LEMMA OwnTransactions ==
  ASSUME NEW i \in BindingIds, NEW s \in State, Mid(s, i),
         ~s.bind[i].refreshing
  PROVE  /\ \A j \in RefreshIdsOf(i) : s.refr[j] = NoRefresh
         /\ \A t \in TaIdsOf(i) : s.ta[t] \in {Nobody, B(i)}
  BY DEF Mid, Sound, RefreshSound, TaSound, NoRefresh

(* What RetryL does before it sends: the binding is idle then.             *)
Alone(s, i) == [SelfDetach(s, i) EXCEPT !.bind[i].refresh = 0,
                                        !.bind[i].st = "retrying"]

LEMMA AloneMid ==
  ASSUME NEW i \in BindingIds, NEW s \in State, Mid(s, i),
         s.bind[i].life = "stored",
         \A t \in TaIdsOf(i) : s.ta[t] = B(i) => t = s.bind[i].ta
  PROVE  /\ Alone(s, i) \in State /\ Mid(Alone(s, i), i)
         /\ Idle(Alone(s, i), i)
         /\ Alone(s, i).bind[i] = [s.bind[i] EXCEPT !.refresh = 0,
                                                    !.st = "retrying"]
         /\ Alone(s, i).left = s.left
<1> DEFINE u == SelfDetach(s, i)
           r == Alone(s, i)
           b == [s.bind[i] EXCEPT !.refresh = 0, !.st = "retrying"]
<1>1. /\ u \in State /\ Mid(u, i) /\ u.bind = s.bind /\ u.left = s.left
      /\ u.regs = s.regs
      /\ \A j \in RefreshIdsOf(i) : u.refr[j] = NoRefresh
      /\ s.bind[i].refreshing => Idle(u, i)
      /\ ~s.bind[i].refreshing =>
           \A t \in TaIdsOf(i) :
             u.ta[t] = IF t = s.bind[i].ta THEN Nobody ELSE s.ta[t]
  BY SelfDetachMid
<1>2. Idle(u, i)
  BY <1>1, OwnTransactions DEF Idle
<1>3. r = [u EXCEPT !.bind[i].refresh = 0, !.bind[i].st = "retrying"]
  BY DEF Alone
<1> HIDE DEF u, r
<1>4. s.bind \in [BindingIds -> Binding]
  BY DEF State
<1>5. b \in Binding
  BY <1>4 DEF Binding, RegistrationStates
<1>6. [u.bind EXCEPT ![i].refresh = 0, ![i].st = "retrying"] =
        [s.bind EXCEPT ![i] = b]
  BY <1>1, <1>4 DEF Binding
<1>7. /\ b.life = s.bind[i].life /\ b.reg = s.bind[i].reg
      /\ b.ends = s.bind[i].ends /\ b.flow = s.bind[i].flow
      /\ b.contact = s.bind[i].contact
      /\ b.ta = s.bind[i].ta /\ b.retry = s.bind[i].retry
      /\ b.timer = s.bind[i].timer
      /\ b.refreshing = s.bind[i].refreshing
  BY <1>4 DEF Binding
<1> HIDE DEF b
<1>8. [s.bind EXCEPT ![i] = b] \in [BindingIds -> Binding]
  BY <1>4, <1>5
<1>9. /\ r \in State /\ r.bind = [s.bind EXCEPT ![i] = b]
      /\ r.refr = u.refr /\ r.ta = u.ta /\ r.regs = u.regs
      /\ r.left = u.left /\ r.grows = u.grows
  BY <1>1, <1>3, <1>6, <1>8 DEF State
<1>10. r.bind[i] = b /\ \A k \in BindingIds : k # i => r.bind[k] = u.bind[k]
  BY <1>1, <1>4, <1>9
<1>11. RegsOK(r)
  <2>1. \A k \in BindingIds : /\ r.bind[k].life = u.bind[k].life
                              /\ r.bind[k].reg = u.bind[k].reg
    BY <1>1, <1>7, <1>10
  <2>2. RegsOK(u)
    BY <1>1 DEF Mid
  <2>3. QED
    BY <1>1, <1>9, <2>1, <2>2, RegsOfSame
<1>12. Touches(u, r, i)
  BY <1>9, <1>10 DEF Touches, LocalSame
<1>13. Idle(r, i)
  BY <1>2, <1>9 DEF Idle
<1>14. Sound(r, i)
  <2>1. BindingSound(r, i)
    BY <1>7, <1>10 DEF BindingSound, Mid, Sound
  <2>2. RefreshSound(r, i) /\ TaSound(r, i)
    BY <1>13 DEF Idle, RefreshSound, TaSound
  <2>3. QED
    BY <2>1, <2>2 DEF Sound
<1>15. Mid(r, i)
  BY <1>1, <1>9, <1>11, <1>12, <1>14, MidOf DEF Mid
<1>16. QED
  BY <1>1, <1>9, <1>10, <1>13, <1>15 DEF r, b

LEMMA RetryGood ==
  ASSUME NEW i \in BindingIds, NEW s \in State, Mid(s, i),
         s.bind[i].life = "stored", ~s.bind[i].zero,
         \A t \in TaIdsOf(i) : s.ta[t] = B(i) => t = s.bind[i].ta,
         NEW sent \in BOOLEAN
  PROVE  /\ RetryL(s, i, sent) \in State /\ Good(RetryL(s, i, sent))
         /\ sent => RetryL(s, i, sent).left = s.left
         /\ ~sent => Idle(RetryL(s, i, sent), i)
<1> DEFINE u == Alone(s, i)
           n == NextCSeq(u, i)
<1>1. /\ u \in State /\ Mid(u, i) /\ Idle(u, i) /\ u.left = s.left
      /\ u.bind[i] = [s.bind[i] EXCEPT !.refresh = 0, !.st = "retrying"]
  BY AloneMid
<1>2. RetryL(s, i, sent) = IF sent THEN DoRegisterL(n, i)
                           ELSE [n EXCEPT !.left = TRUE]
  BY DEF RetryL, Alone
<1> HIDE DEF u
<1>3. /\ u.bind[i].life = "stored" /\ u.bind[i].st = "retrying"
      /\ ~u.bind[i].zero
  BY <1>1 DEF State, Binding
<1>4. RegsOK(u) /\ u.grows
  BY <1>1 DEF Mid
<1>5. /\ n \in State /\ RegsOK(n) /\ n.bind = u.bind /\ n.refr = u.refr
      /\ n.ta = u.ta /\ n.left = u.left /\ n.grows = u.grows
      /\ Ahead(n, i)
  BY <1>1, <1>4, NextCSeqFacts
<1> HIDE DEF n
<1>6. Mid(n, i) /\ Idle(n, i)
  <2>1. Mid(n, i)
    BY <1>1, <1>4, <1>5, MidOfRegs
  <2>2. QED
    BY <1>1, <1>5, <2>1 DEF Idle
<1>7. CASE sent
  <2>1. /\ n.bind[i].life = "stored" /\ n.bind[i].st = "retrying"
        /\ ~n.bind[i].zero
    BY <1>3, <1>5
  <2>2. /\ DoRegisterL(n, i) \in State /\ Good(DoRegisterL(n, i))
        /\ DoRegisterL(n, i).left = n.left
    BY <1>5, <1>6, <2>1, DoRegisterGood
  <2>3. QED
    BY <1>1, <1>2, <1>5, <1>7, <2>2
<1>8. CASE ~sent
  <2>1. Duty(n, i)
    BY <1>3, <1>5, <1>6, OwnersApart DEF Duty, Idle
  <2>2. Good(n)
    BY <1>5, <1>6, <2>1, GoodOf
  <2> DEFINE r == [n EXCEPT !.left = TRUE]
  <2>3. r \in State /\ Good(r) /\ r.refr = n.refr /\ r.ta = n.ta
    BY <1>5, <2>2, LeftMid
  <2>4. RetryL(s, i, sent) = r
    BY <1>2, <1>8
  <2> HIDE DEF r
  <2>5. Idle(r, i)
    BY <1>6, <2>3 DEF Idle
  <2>6. QED
    BY <1>8, <2>3, <2>4, <2>5
<1>9. QED
  BY <1>7, <1>8

(* RegisteredL: what is left of the transactions, and what is new in the   *)
(* binding.                                                                *)
IsRegistered(s, r, i, accept) ==
    LET t == IF s.bind[i].st = "retrying" THEN s.bind[i].retry
             ELSE s.bind[i].ta
    IN  /\ r \in State /\ Mid(r, i) /\ r.refr = s.refr
        /\ r.left = IF accept THEN s.left ELSE TRUE
        /\ r.bind[i].life = "stored"
        /\ r.bind[i].st = IF accept THEN "registered" ELSE s.bind[i].st
        /\ r.bind[i].reg # 0
        /\ r.bind[i].timer = ~s.bind[i].refreshing
        /\ r.bind[i].zero = s.bind[i].zero
        /\ r.bind[i].refreshing = s.bind[i].refreshing
        /\ r.bind[i].refresh = s.bind[i].refresh
        /\ r.bind[i].ta = s.bind[i].ta
        /\ r.bind[i].retry = s.bind[i].retry
        /\ \A u \in TaIdsOf(i) :
             r.ta[u] = IF accept /\ ~s.bind[i].refreshing /\ u = t
                       THEN Nobody ELSE s.ta[u]

LEMMA RegisteredMid ==
  ASSUME NEW i \in BindingIds, NEW s \in State, Mid(s, i),
         s.bind[i].life = "stored", NEW accept \in BOOLEAN
  PROVE  IsRegistered(s, RegisteredL(s, i, accept), i, accept)
<1> DEFINE known == Received2XXResponseL(s, i)
           t == IF s.bind[i].st = "retrying" THEN s.bind[i].retry
                ELSE s.bind[i].ta
           det == IF s.bind[i].refreshing THEN known ELSE ClearTa(known, t)
           r == RegisteredL(s, i, accept)
<1>1. /\ known \in State /\ Mid(known, i) /\ known.refr = s.refr
      /\ known.ta = s.ta /\ known.left = s.left
      /\ \E reg \in RegistrarIds :
           known.bind[i] = [s.bind[i] EXCEPT !.reg = reg,
                                  !.timer = ~s.bind[i].refreshing]
  BY Received2XXMid
<1>2. PICK reg \in RegistrarIds :
        known.bind[i] = [s.bind[i] EXCEPT !.reg = reg,
                                          !.timer = ~s.bind[i].refreshing]
  BY <1>1
<1>3. r = IF accept THEN [det EXCEPT !.bind[i].st = "registered"]
          ELSE [known EXCEPT !.left = TRUE]
  BY DEF RegisteredL
<1> HIDE DEF known, r
<1>4. s.bind[i] \in Binding
  BY DEF State
<1>5. t \in TaIdsOf(i) \cup {0}
  BY DEF Mid, Sound, BindingSound
<1> HIDE DEF t
<1>6. /\ known.bind[i].life = "stored" /\ known.bind[i].st = s.bind[i].st
      /\ known.bind[i].reg # 0
      /\ known.bind[i].timer = ~s.bind[i].refreshing
      /\ known.bind[i].zero = s.bind[i].zero
      /\ known.bind[i].refreshing = s.bind[i].refreshing
      /\ known.bind[i].refresh = s.bind[i].refresh
      /\ known.bind[i].ta = s.bind[i].ta
      /\ known.bind[i].retry = s.bind[i].retry
  BY <1>2, <1>4 DEF Binding, RegistrarIds
<1>7. /\ det \in State /\ Mid(det, i) /\ det.refr = s.refr
      /\ det.bind = known.bind /\ det.left = s.left
      /\ \A u \in TaIdsOf(i) :
           det.ta[u] = IF ~s.bind[i].refreshing /\ u = t THEN Nobody
                       ELSE s.ta[u]
  <2>1. CASE s.bind[i].refreshing
    BY <1>1, <2>1
  <2>2. CASE ~s.bind[i].refreshing
    <3>1. det = ClearTa(known, t)
      BY <2>2
    <3> HIDE DEF det
    <3>2. /\ det \in State /\ Mid(det, i) /\ det.refr = known.refr
          /\ det.bind = known.bind /\ det.left = known.left
          /\ \A u \in TaIds :
               det.ta[u] = IF u = t THEN Nobody ELSE known.ta[u]
      BY <1>1, <1>5, <3>1, ClearTaMid
    <3>3. \A u \in TaIdsOf(i) : u \in TaIds
      BY IdsApart
    <3>4. QED
      BY <1>1, <2>2, <3>2, <3>3
  <2>3. QED
    BY <2>1, <2>2
<1> HIDE DEF det
<1>8. CASE accept
  <2>1. /\ r \in State /\ Mid(r, i) /\ r.refr = det.refr /\ r.ta = det.ta
        /\ r.left = det.left
        /\ r.bind = [det.bind EXCEPT ![i].st = "registered"]
    <3>1. "registered" \in RegistrationStates /\ det.bind[i].life # "none"
      BY <1>6, <1>7 DEF RegistrationStates
    <3>2. r = [det EXCEPT !.bind[i].st = "registered"]
      BY <1>3, <1>8
    <3>3. QED
      BY <1>7, <3>1, <3>2, StateMid
  <2>2. r.bind[i] = [known.bind[i] EXCEPT !.st = "registered"]
    BY <1>7, <2>1 DEF State
  <2>3. known.bind[i] \in Binding
    BY <1>1 DEF State
  <2>4. /\ r.bind[i].life = "stored" /\ r.bind[i].st = "registered"
        /\ r.bind[i].reg # 0
        /\ r.bind[i].timer = ~s.bind[i].refreshing
        /\ r.bind[i].zero = s.bind[i].zero
        /\ r.bind[i].refreshing = s.bind[i].refreshing
        /\ r.bind[i].refresh = s.bind[i].refresh
        /\ r.bind[i].ta = s.bind[i].ta
        /\ r.bind[i].retry = s.bind[i].retry
    BY <1>6, <2>2, <2>3 DEF Binding
  <2>5. \A u \in TaIdsOf(i) :
          r.ta[u] = IF ~s.bind[i].refreshing /\ u = t THEN Nobody
                    ELSE s.ta[u]
    BY <1>7, <2>1
  <2>6. r.refr = s.refr /\ r.left = s.left
    BY <1>7, <2>1
  <2>7. QED
    BY <1>8, <2>1, <2>4, <2>5, <2>6 DEF r, t, IsRegistered
<1>9. CASE ~accept
  <2>1. r = [known EXCEPT !.left = TRUE]
    BY <1>3, <1>9
  <2>2. /\ r \in State /\ Mid(r, i) /\ r.refr = s.refr /\ r.ta = s.ta
        /\ r.left = TRUE /\ r.bind = known.bind
    BY <1>1, <2>1, LeftMid
  <2>3. QED
    BY <1>6, <1>9, <2>2 DEF r, t, IsRegistered
<1>10. QED
  BY <1>8, <1>9

-----------------------------------------------------------------------------
(* Responses and errors for a binding without refreshing.                  *)

(* A transaction of a removed binding, or of one that expects nothing of   *)
(* it, is let go.                                                          *)
LEMMA ClearedGood ==
  ASSUME NEW i \in BindingIds, NEW s \in State, Mid(s, i),
         ~s.bind[i].refreshing, NEW t \in TaIdsOf(i),
         s.bind[i].life = "stored" =>
           /\ s.bind[i].st \in {"retrying", "unregistered"}
           /\ s.bind[i].st = "retrying" =>
                /\ ~s.bind[i].zero
                /\ \A u \in TaIdsOf(i) :
                     s.ta[u] = B(i) => u \in {t, s.bind[i].retry}
  PROVE  ClearTa(s, t) \in State /\ Good(ClearTa(s, t))
<1> DEFINE r == ClearTa(s, t)
<1>1. /\ r \in State /\ Mid(r, i) /\ r.bind = s.bind /\ r.refr = s.refr
      /\ \A u \in TaIds : r.ta[u] = IF u = t THEN Nobody ELSE s.ta[u]
  BY ClearTaMid
<1> HIDE DEF r
<1>2. /\ \A j \in RefreshIdsOf(i) : r.refr[j] = NoRefresh
      /\ \A u \in TaIdsOf(i) : r.ta[u] \in {Nobody, B(i)}
  BY <1>1, OwnTransactions
<1>3. \A u \in TaIdsOf(i), j \in RefreshIdsOf(i) : r.ta[u] # R(j)
  BY <1>2, OwnersApart
<1>4. \A u \in TaIdsOf(i) :
        r.ta[u] = IF u = t THEN Nobody ELSE s.ta[u]
  BY <1>1, IdsApart
<1>5. Duty(r, i)
  BY <1>1, <1>2, <1>3, <1>4, OwnersApart DEF Duty
<1>6. QED
  BY <1>1, <1>5, GoodOf DEF r

LEMMA BindingEndedGood ==
  ASSUME NEW i \in BindingIds, NEW s \in State, Mid(s, i),
         ~s.bind[i].refreshing, NEW t \in TaIdsOf(i),
         s.bind[i].life = "stored" /\ t # s.bind[i].ta =>
           /\ s.bind[i].st \in {"retrying", "unregistered"}
           /\ s.bind[i].st = "retrying" =>
                /\ ~s.bind[i].zero
                /\ \A u \in TaIdsOf(i) :
                     s.ta[u] = B(i) => u \in {t, s.bind[i].retry}
  PROVE  /\ ClearTa(BindingEnded(s, i, t), t) \in State
         /\ Good(ClearTa(BindingEnded(s, i, t), t))
<1>1. CASE t # s.bind[i].ta
  BY <1>1, ClearedGood DEF BindingEnded
<1>2. CASE t = s.bind[i].ta
  <2> DEFINE u == EndedWithError(s, i)
             r == ClearTa(u, t)
  <2>1. /\ u \in State /\ Mid(u, i) /\ u.bind[i].life # "stored"
        /\ u.refr = s.refr
    BY EndedWithErrorMid
  <2>2. BindingEnded(s, i, t) = u
    BY <1>2 DEF BindingEnded
  <2> HIDE DEF u
  <2>3. /\ r \in State /\ Mid(r, i) /\ r.bind = u.bind /\ r.refr = u.refr
    BY <2>1, ClearTaMid
  <2>4. \A j \in RefreshIdsOf(i) : r.refr[j] = NoRefresh
    BY <2>1, <2>3, OwnTransactions
  <2> HIDE DEF r
  <2>5. Good(r)
    BY <2>1, <2>3, <2>4, GoodOfGone
  <2>6. QED
    BY <2>2, <2>3, <2>5 DEF r
<1>3. QED
  BY <1>1, <1>2

Ended(r, i, t) ==
    IF r.left /\ r.ta[t] # Nobody THEN ClearTa(BindingEnded(r, i, t), t)
    ELSE r

(* A handler that returned properly, or whose binding expects nothing.     *)
LEMMA EndedGood ==
  ASSUME NEW i \in BindingIds, NEW s \in State, Good(s),
         NEW t \in TaIdsOf(i),
         s.bind[i].life = "stored" /\ s.left =>
           \/ s.bind[i].st = "unregistered" /\ ~s.bind[i].refreshing
           \/ s.ta[t] = Nobody
  PROVE  Ended(s, i, t) \in State /\ Good(Ended(s, i, t))
<1>1. Mid(s, i) /\ Duty(s, i)
  BY MidOfGood
<1>2. CASE ~(s.left /\ s.ta[t] # Nobody)
  BY <1>2 DEF Ended
<1>3. CASE s.left /\ s.ta[t] # Nobody /\ s.bind[i].life = "stored"
  <2>1. /\ ClearTa(BindingEnded(s, i, t), t) \in State
        /\ Good(ClearTa(BindingEnded(s, i, t), t))
    BY <1>1, <1>3, BindingEndedGood
  <2>2. QED
    BY <1>3, <2>1 DEF Ended
<1>4. CASE s.left /\ s.ta[t] # Nobody /\ s.bind[i].life # "stored"
  <2> DEFINE r == ClearTa(s, t)
  <2>1. Ended(s, i, t) = r
    BY <1>4 DEF Ended, BindingEnded, EndedWithError
  <2>2. /\ r \in State /\ Mid(r, i) /\ r.bind = s.bind /\ r.refr = s.refr
    BY <1>1, ClearTaMid
  <2> HIDE DEF r
  <2>3. Good(r)
    BY <1>1, <1>4, <2>2, GoodOfGone DEF Duty
  <2>4. QED
    BY <2>1, <2>2, <2>3
<1>5. QED
  BY <1>2, <1>3, <1>4

(* The 2xx of a registration that is not refreshed.                        *)
LEMMA RegisteredEnded ==
  ASSUME NEW i \in BindingIds, NEW s \in State, Mid(s, i), Duty(s, i),
         ~s.left, s.bind[i].life = "stored", ~s.bind[i].refreshing,
         s.bind[i].st \in {"registering", "updating", "retrying"},
         NEW t \in TaIdsOf(i), s.ta[t] = B(i), NEW accept \in BOOLEAN
  PROVE  /\ Ended(RegisteredL(s, i, accept), i, t) \in State
         /\ Good(Ended(RegisteredL(s, i, accept), i, t))
<1> DEFINE r == RegisteredL(s, i, accept)
           his == IF s.bind[i].st = "retrying" THEN s.bind[i].retry
                  ELSE s.bind[i].ta
<1>1. /\ r \in State /\ Mid(r, i) /\ r.refr = s.refr
      /\ r.left = IF accept THEN s.left ELSE TRUE
      /\ r.bind[i].life = "stored"
      /\ r.bind[i].st = IF accept THEN "registered" ELSE s.bind[i].st
      /\ r.bind[i].reg # 0
      /\ r.bind[i].timer = ~s.bind[i].refreshing
      /\ r.bind[i].zero = s.bind[i].zero
      /\ r.bind[i].refreshing = s.bind[i].refreshing
      /\ r.bind[i].ta = s.bind[i].ta
      /\ r.bind[i].retry = s.bind[i].retry
      /\ \A u \in TaIdsOf(i) :
           r.ta[u] = IF accept /\ ~s.bind[i].refreshing /\ u = his
                     THEN Nobody ELSE s.ta[u]
  <2>1. IsRegistered(s, r, i, accept)
    BY RegisteredMid
  <2> HIDE DEF r
  <2>2. QED
    BY <2>1 DEF IsRegistered
<1> HIDE DEF r
<1>2. \A u \in TaIdsOf(i) : s.ta[u] = B(i) => u = his
  BY DEF Duty
<1>3. ~s.bind[i].zero
  BY DEF Duty
<1>4. /\ \A j \in RefreshIdsOf(i) : r.refr[j] = NoRefresh
      /\ \A u \in TaIdsOf(i) : r.ta[u] \in {Nobody, B(i)}
  BY <1>1, OwnTransactions
<1>5. CASE accept
  <2>1. \A u \in TaIdsOf(i) : r.ta[u] = Nobody
    BY <1>1, <1>2, <1>4, <1>5
  <2>2. Kept(r, i)
    BY <1>1 DEF Kept
  <2>3. Duty(r, i)
    BY <1>1, <1>3, <1>5, <2>1, <2>2, OwnersApart DEF Duty
  <2>4. Good(r)
    BY <1>1, <2>3, GoodOf
  <2>5. Ended(r, i, t) = r
    BY <1>1, <1>5 DEF Ended
  <2>6. QED
    BY <1>1, <2>4, <2>5 DEF r
<1>6. CASE ~accept
  <2>1. r.ta[t] # Nobody /\ r.left
    BY <1>1, <1>6, OwnersApart
  <2>2. t # r.bind[i].ta =>
          /\ r.bind[i].st = "retrying" /\ ~r.bind[i].zero
          /\ \A u \in TaIdsOf(i) : r.ta[u] = B(i) => u = r.bind[i].retry
    BY <1>1, <1>2, <1>3, <1>6
  <2>3. /\ ClearTa(BindingEnded(r, i, t), t) \in State
        /\ Good(ClearTa(BindingEnded(r, i, t), t))
    BY <1>1, <2>2, BindingEndedGood
  <2>4. QED
    BY <2>1, <2>3 DEF Ended, r
<1>7. QED
  BY <1>5, <1>6

(* The 423 of a registration that is not refreshed.                        *)
LEMMA RetryEnded ==
  ASSUME NEW i \in BindingIds, NEW s \in State, Mid(s, i), Duty(s, i),
         ~s.left, s.bind[i].life = "stored", ~s.bind[i].refreshing,
         s.bind[i].st \in {"registering", "updating"},
         NEW t \in TaIdsOf(i), NEW sent \in BOOLEAN
  PROVE  /\ Ended(RetryL(s, i, sent), i, t) \in State
         /\ Good(Ended(RetryL(s, i, sent), i, t))
<1> DEFINE r == RetryL(s, i, sent)
<1>1. ~s.bind[i].zero
      /\ \A u \in TaIdsOf(i) : s.ta[u] = B(i) => u = s.bind[i].ta
  BY DEF Duty
<1>2. /\ r \in State /\ Good(r)
      /\ sent => r.left = s.left
      /\ ~sent => Idle(r, i)
  BY <1>1, RetryGood
<1> HIDE DEF r
<1>3. ~(r.left /\ r.ta[t] # Nobody)
  BY <1>2 DEF Idle
<1>4. QED
  BY <1>2, <1>3 DEF Ended, r

LEMMA BindingReceiveGood ==
  ASSUME NEW i \in BindingIds, NEW s \in State, Good(s), ~s.left,
         s.bind[i].life = "stored", NEW t \in TaIdsOf(i), s.ta[t] = B(i),
         NEW d \in Deliveries
  PROVE  /\ BindingReceiveL(s, i, t, d) \in State
         /\ Good(BindingReceiveL(s, i, t, d))
<1> DEFINE r == StateReceiveL(s, i, d)
           st == s.bind[i].st
<1>1. BindingReceiveL(s, i, t, d) = Ended(r, i, t)
  BY DEF BindingReceiveL, Ended
<1>2. Mid(s, i) /\ Duty(s, i)
  BY MidOfGood
<1>3. ~s.bind[i].refreshing /\ t \in {s.bind[i].ta, s.bind[i].retry}
  BY <1>2, OwnersApart DEF Mid, Sound, TaSound
<1>4. /\ \A j \in RefreshIdsOf(i) : s.refr[j] = NoRefresh
      /\ \A u \in TaIdsOf(i) : s.ta[u] \in {Nobody, B(i)}
  BY <1>2, <1>3, OwnTransactions
<1>5. /\ st \in RegistrationStates /\ st # "registered"
      /\ d.accept \in BOOLEAN /\ d.sent \in BOOLEAN
      /\ d.response \in Responses
  <2>1. st \in RegistrationStates
    BY DEF State, Binding
  <2>2. st # "registered"
    BY <1>2 DEF Duty
  <2>3. QED
    BY <2>1, <2>2 DEF Deliveries, MaySucceed
<1>6. CASE st = "unregistered"
  <2>1. r = [s EXCEPT !.left = TRUE]
    BY <1>6 DEF StateReceiveL
  <2> HIDE DEF r
  <2>2. r \in State /\ Good(r) /\ r.bind = s.bind
    BY <2>1, LeftMid
  <2>3. QED
    BY <1>1, <1>3, <1>6, <2>2, EndedGood
<1>7. ASSUME r = PassErrorResponseL(s, i, d.accept) \/ r = PassError(s, i)
      PROVE  Ended(r, i, t) \in State /\ Good(Ended(r, i, t))
  <2> HIDE DEF r
  <2>1. r \in State /\ Good(r)
    BY <1>2, <1>4, <1>5, <1>7, PassErrorResponseMid, PassErrorGood
  <2>2. r.bind[i].life # "stored"
    BY <1>2, <1>4, <1>5, <1>7, PassErrorResponseMid, PassErrorGood
  <2>3. QED
    BY <2>1, <2>2, EndedGood
<1>8. CASE st = "unregistering"
  BY <1>1, <1>7, <1>8 DEF StateReceiveL
<1>9. CASE st \notin {"unregistered", "unregistering"}
  <2>1. CASE d.response = "rejected"
    BY <1>1, <1>7, <1>9, <2>1 DEF StateReceiveL
  <2>2. CASE d.response = "ok"
    <3>1. r = RegisteredL(s, i, d.accept)
      BY <1>5, <1>9, <2>2 DEF StateReceiveL
    <3> HIDE DEF r
    <3>2. st \in {"registering", "updating", "retrying"}
      BY <1>5, <1>9 DEF RegistrationStates
    <3>3. /\ Ended(RegisteredL(s, i, d.accept), i, t) \in State
          /\ Good(Ended(RegisteredL(s, i, d.accept), i, t))
      BY <1>2, <1>3, <1>5, <3>2, RegisteredEnded
    <3>4. QED
      BY <1>1, <3>1, <3>3
  <2>3. CASE d.response = "tooBrief" /\ st # "retrying"
    <3>1. r = RetryL(s, i, d.sent)
      BY <1>9, <2>3 DEF StateReceiveL
    <3> HIDE DEF r
    <3>2. st \in {"registering", "updating"}
      BY <1>5, <1>9, <2>3 DEF RegistrationStates
    <3>3. /\ Ended(RetryL(s, i, d.sent), i, t) \in State
          /\ Good(Ended(RetryL(s, i, d.sent), i, t))
      BY <1>2, <1>3, <1>5, <3>2, RetryEnded
    <3>4. QED
      BY <1>1, <3>1, <3>3
  <2>4. CASE d.response = "tooBrief" /\ st = "retrying"
    BY <1>1, <1>7, <1>9, <2>4 DEF StateReceiveL
  <2>5. CASE d.response = "error"
    BY <1>1, <1>7, <1>9, <2>5 DEF StateReceiveL
  <2>6. d.response \in {"ok", "rejected", "tooBrief", "error"}
    BY <1>5 DEF Responses
  <2>7. CASE d.response = "tooBrief"
    BY <2>3, <2>4, <2>7
  <2>8. QED
    BY <2>1, <2>2, <2>5, <2>6, <2>7
<1>10. QED
  BY <1>1, <1>6, <1>8, <1>9

-----------------------------------------------------------------------------
(* Responses and errors for a binding with refreshing.                     *)

(* The transaction id of a binding with refreshing is free to change.      *)
LEMMA TaMid ==
  ASSUME NEW i \in BindingIds, NEW s \in State, Mid(s, i),
         s.bind[i].life = "stored", s.bind[i].refreshing,
         NEW t \in TaIdsOf(i)
  PROVE  /\ [s EXCEPT !.bind[i].ta = t] \in State
         /\ Mid([s EXCEPT !.bind[i].ta = t], i)
         /\ [s EXCEPT !.bind[i].ta = t].refr = s.refr
         /\ [s EXCEPT !.bind[i].ta = t].ta = s.ta
         /\ [s EXCEPT !.bind[i].ta = t].left = s.left
         /\ [s EXCEPT !.bind[i].ta = t].bind[i] =
              [s.bind[i] EXCEPT !.ta = t]
<1> DEFINE r == [s EXCEPT !.bind[i].ta = t]
           b == [s.bind[i] EXCEPT !.ta = t]
<1>1. t \in TaIds
  BY IdsApart
<1>2. s.bind[i] \in Binding
  BY DEF State
<1>3. /\ r.bind = [s.bind EXCEPT ![i] = b]
      /\ r.refr = s.refr /\ r.ta = s.ta /\ r.regs = s.regs
      /\ r.left = s.left /\ r.grows = s.grows
  BY DEF State
<1>4. /\ b \in Binding
      /\ b.life = s.bind[i].life /\ b.reg = s.bind[i].reg
      /\ b.ta = t /\ b.retry = s.bind[i].retry
      /\ b.refreshing = s.bind[i].refreshing
      /\ b.timer = s.bind[i].timer
      /\ b.refresh = s.bind[i].refresh
      /\ b.contact = s.bind[i].contact
      /\ b.flow = s.bind[i].flow /\ b.ends = s.bind[i].ends
  BY <1>1, <1>2 DEF Binding
<1>5. r \in State
  <2>1. r = [s EXCEPT !.bind = [s.bind EXCEPT ![i] = b]]
    BY DEF State
  <2>2. [s.bind EXCEPT ![i] = b] \in [BindingIds -> Binding]
    BY <1>4 DEF State
  <2>3. QED
    BY <2>1, <2>2 DEF State
<1> HIDE DEF r, b
<1>6. /\ r.bind[i] = b
      /\ \A k \in BindingIds : k # i => r.bind[k] = s.bind[k]
  BY <1>3 DEF State
<1>7. /\ r.bind[i].life = s.bind[i].life /\ r.bind[i].reg = s.bind[i].reg
      /\ r.bind[i].ta = t /\ r.bind[i].retry = s.bind[i].retry
      /\ r.bind[i].refreshing = s.bind[i].refreshing
      /\ r.bind[i].timer = s.bind[i].timer
      /\ r.bind[i].refresh = s.bind[i].refresh
      /\ r.bind[i].contact = s.bind[i].contact
      /\ r.bind[i].flow = s.bind[i].flow /\ r.bind[i].ends = s.bind[i].ends
  BY <1>4, <1>6
<1>8. \A k \in BindingIds : /\ r.bind[k].life = s.bind[k].life
                            /\ r.bind[k].reg = s.bind[k].reg
  BY <1>6, <1>7
<1>9. RegsOK(r)
  BY <1>3, <1>5, <1>8, RegsOfSame DEF Mid
<1>10. Touches(s, r, i)
  BY <1>3, <1>6 DEF Touches, LocalSame
<1>11. BindingSound(r, i)
  BY <1>7 DEF Mid, Sound, BindingSound
<1>12. RefreshSound(r, i)
  <2>1. r.bind[i].refreshing
    BY <1>7
  <2>2. QED
    BY <1>3, <1>7, <2>1 DEF Mid, Sound, RefreshSound
<1>13. TaSound(r, i)
  BY <1>3, <1>7 DEF Mid, Sound, TaSound
<1>14. Mid(r, i)
  BY <1>3, <1>5, <1>9, <1>10, <1>11, <1>12, <1>13, MidOf DEF Mid, Sound
<1>15. QED
  BY <1>3, <1>5, <1>6, <1>14 DEF r, b

(* So is the timer of a refresh, for the time of a handler.                *)
LEMMA TimerMid ==
  ASSUME NEW i \in BindingIds, NEW s \in State, Mid(s, i),
         NEW j \in RefreshIdsOf(i), s.refr[j].life = "stored",
         NEW on \in BOOLEAN
  PROVE  /\ [s EXCEPT !.refr[j].timer = on] \in State
         /\ Mid([s EXCEPT !.refr[j].timer = on], i)
         /\ [s EXCEPT !.refr[j].timer = on].bind = s.bind
         /\ [s EXCEPT !.refr[j].timer = on].ta = s.ta
         /\ [s EXCEPT !.refr[j].timer = on].left = s.left
         /\ [s EXCEPT !.refr[j].timer = on].refr[j] =
              [s.refr[j] EXCEPT !.timer = on]
         /\ \A k \in RefreshIdsOf(i) : k # j =>
              [s EXCEPT !.refr[j].timer = on].refr[k] = s.refr[k]
<1> DEFINE r == [s EXCEPT !.refr[j].timer = on]
           f == [s.refr[j] EXCEPT !.timer = on]
<1>1. j \in RefreshIds /\ RefreshIdsOf(i) \subseteq RefreshIds
  BY IdsApart
<1>2. s.refr[j] \in Refresh
  BY <1>1 DEF State
<1>3. f \in Refresh /\ f.life = s.refr[j].life /\ f.ta = s.refr[j].ta
      /\ f.owner = s.refr[j].owner
  BY <1>2 DEF Refresh
<1>4. r = [s EXCEPT !.refr = [s.refr EXCEPT ![j] = f]]
  BY <1>1 DEF State
<1> HIDE DEF f
<1>5. /\ r.refr = [s.refr EXCEPT ![j] = f]
      /\ r.bind = s.bind /\ r.ta = s.ta /\ r.regs = s.regs
      /\ r.left = s.left /\ r.grows = s.grows
  BY <1>4 DEF State
<1>6. r \in State
  BY <1>1, <1>3, <1>4 DEF State
<1> HIDE DEF r
<1>7. r.refr[j] = f /\ \A k \in RefreshIds : k # j => r.refr[k] = s.refr[k]
  BY <1>1, <1>5 DEF State
<1>8. RegsOK(r)
  BY <1>5, <1>6, RegsOfSame DEF Mid
<1>9. Touches(s, r, i)
  BY <1>5, <1>7, IdsApart DEF Touches, LocalSame
<1>10. BindingSound(r, i)
  BY <1>5 DEF Mid, Sound, BindingSound
<1>11. s.refr[j] # NoRefresh
  BY DEF NoRefresh
<1>12. RefreshSound(r, i)
  BY <1>1, <1>3, <1>5, <1>7, <1>11 DEF Mid, Sound, RefreshSound
<1>13. TaSound(r, i)
  BY <1>1, <1>3, <1>5, <1>7, <1>11 DEF Mid, Sound, TaSound
<1>14. Mid(r, i)
  BY <1>5, <1>6, <1>8, <1>9, <1>10, <1>12, <1>13, MidOf DEF Mid, Sound
<1>15. QED
  BY <1>1, <1>5, <1>6, <1>7, <1>14 DEF r, f

(* A binding that has nothing, and needs nothing.                          *)
LEMMA IdleGood ==
  ASSUME NEW i \in BindingIds, NEW s \in State, Mid(s, i), Idle(s, i),
         s.bind[i].life = "stored" =>
           /\ s.bind[i].st \in {"retrying", "unregistered"}
           /\ s.bind[i].st = "retrying" => ~s.bind[i].zero
  PROVE  Good(s)
<1>1. Duty(s, i)
  BY OwnersApart DEF Duty, Idle
<1>2. QED
  BY <1>1, GoodOf

LEMMA RefreshEndedGood ==
  ASSUME NEW i \in BindingIds, NEW s \in State, Mid(s, i),
         NEW j \in RefreshIdsOf(i), s.refr[j].life = "stored",
         NEW t \in TaIdsOf(i), s.bind[i].life = "stored",
         ~RefreshErrorKnown(s, i, t) =>
           /\ s.bind[i].st \in {"retrying", "unregistered"}
           /\ s.bind[i].st = "retrying" => ~s.bind[i].zero
  PROVE  /\ RefreshEnded(s, j, t) \in State
         /\ Good(RefreshEnded(s, j, t))
<1> DEFINE e == RefreshError(s, i, t)
<1>1. s.refr[j].owner = i /\ s.bind[i].refreshing
  BY DEF Mid, Sound, RefreshSound, NoRefresh
<1>2. RefreshEnded(s, j, t) = RemoveRefreshBy(e, j)
  BY <1>1 DEF RefreshEnded
<1>3. /\ e \in State /\ Mid(e, i) /\ e.refr = s.refr
      /\ \/ e.bind[i].life # "stored"
         \/ ~RefreshErrorKnown(s, i, t) /\ e = s
  <2>1. CASE ~RefreshErrorKnown(s, i, t)
    BY <2>1 DEF RefreshError
  <2>2. CASE RefreshErrorKnown(s, i, t)
    <3> DEFINE u == [s EXCEPT !.bind[i].ta = t]
    <3>1. e = EndedWithError(u, i)
      BY <2>2 DEF RefreshError
    <3>2. u \in State /\ Mid(u, i)
      BY <1>1, TaMid, Zenon
    <3>3. u.refr = s.refr
      BY DEF State
    <3> HIDE DEF u, e
    <3>4. /\ e \in State /\ Mid(e, i) /\ e.bind[i].life # "stored"
          /\ e.refr = u.refr
      BY <3>1, <3>2, EndedWithErrorMid
    <3>5. QED
      BY <3>3, <3>4
  <2>3. QED
    BY <2>1, <2>2
<1> HIDE DEF e
<1> DEFINE r == RemoveRefreshBy(e, j)
<1>4. /\ r \in State /\ Mid(r, i) /\ r.bind = e.bind /\ Idle(r, i)
  BY <1>3, RemoveRefreshMid
<1> HIDE DEF r
<1>5. r.bind[i].life = "stored" =>
        /\ r.bind[i].st \in {"retrying", "unregistered"}
        /\ r.bind[i].st = "retrying" => ~r.bind[i].zero
  BY <1>3, <1>4
<1>6. Good(r)
  BY <1>4, <1>5, IdleGood
<1>7. QED
  BY <1>2, <1>4, <1>6 DEF r

(* What is known when the transaction of a refresh reports to it.          *)
Reports(s, i, j, t) ==
    /\ s.ta[t] = R(j)
    /\ s.refr[j].life = "stored"
    /\ s.refr[j].owner = i
    /\ s.refr[j].ta = t
    /\ ~s.refr[j].timer
    /\ s.bind[i].life = "stored"
    /\ s.bind[i].refreshing
    /\ s.bind[i].refresh = j
    /\ s.bind[i].st \in {"registering", "updating", "unregistering"} =>
         t = s.bind[i].ta

LEMMA RefreshReports ==
  ASSUME NEW s \in State, Good(s), NEW j \in RefreshIds, NEW t \in TaIds,
         s.ta[t] = R(j)
  PROVE  \E i \in BindingIds :
           j \in RefreshIdsOf(i) /\ t \in TaIdsOf(i) /\ Reports(s, i, j, t)
<1>1. PICK i \in BindingIds : t \in TaIdsOf(i)
  BY IdsCovered
<1>2. Mid(s, i) /\ Duty(s, i)
  BY MidOfGood
<1>3. PICK k \in RefreshIdsOf(i) : /\ s.ta[t] = R(k)
                                   /\ s.refr[k].life = "stored"
                                   /\ s.refr[k].ta = t
  BY <1>1, <1>2, OwnersApart DEF Mid, Sound, TaSound
<1>4. k = j
  BY <1>3, OwnersApart
<1>5. s.refr[j] # NoRefresh
  BY <1>3, <1>4 DEF NoRefresh
<1>6. /\ s.refr[j].owner = i /\ s.bind[i].refreshing
      /\ s.bind[i].refresh = j
  BY <1>2, <1>3, <1>4, <1>5 DEF Mid, Sound, RefreshSound
<1>7. s.bind[i].life = "stored" /\ ~s.refr[j].timer
  BY <1>1, <1>2, <1>3, <1>4, <1>5 DEF Duty
<1>8. s.bind[i].st \in {"registering", "updating", "unregistering"} =>
         t = s.bind[i].ta
  BY <1>2, <1>3, <1>4, <1>6, <1>7 DEF Duty, Waits
<1>9. QED
  BY <1>1, <1>3, <1>4, <1>6, <1>7, <1>8 DEF Reports

(* A refresh that has gone leaves the rest to its binding.                 *)
LEMMA IdleStateReceive ==
  ASSUME NEW i \in BindingIds, NEW s \in State, Mid(s, i), Idle(s, i),
         s.bind[i].life = "stored",
         s.bind[i].zero => s.bind[i].st \in {"unregistering", "unregistered"},
         NEW d \in Deliveries,
         \/ d.response \in {"tooBrief", "error"}
         \/ s.bind[i].st \in {"unregistering", "unregistered"}
  PROVE  /\ StateReceiveL(s, i, d) \in State
         /\ Good(StateReceiveL(s, i, d))
<1> DEFINE r == StateReceiveL(s, i, d)
           st == s.bind[i].st
<1>1. /\ d.accept \in BOOLEAN /\ d.sent \in BOOLEAN
  BY DEF Deliveries, MaySucceed
<1>2. \A j \in RefreshIdsOf(i) : s.refr[j] = NoRefresh
  BY DEF Idle
<1>3. CASE st = "unregistered"
  <2>1. r = [s EXCEPT !.left = TRUE]
    BY <1>3 DEF StateReceiveL
  <2>2. Good(s)
    BY <1>3, IdleGood
  <2>3. QED
    BY <2>1, <2>2, LeftMid
<1>4. ASSUME r = PassErrorResponseL(s, i, d.accept)
      PROVE  r \in State /\ Good(r)
  BY <1>1, <1>2, <1>4, PassErrorResponseMid
<1>5. CASE st = "unregistering"
  BY <1>4, <1>5 DEF StateReceiveL
<1>6. CASE st \notin {"unregistered", "unregistering"}
  <2>1. CASE d.response = "tooBrief" /\ st # "retrying"
    <3>1. r = RetryL(s, i, d.sent)
      BY <1>6, <2>1 DEF StateReceiveL
    <3> HIDE DEF r
    <3>2. \A t \in TaIdsOf(i) : s.ta[t] = B(i) => t = s.bind[i].ta
      BY OwnersApart DEF Idle
    <3>3. RetryL(s, i, d.sent) \in State /\ Good(RetryL(s, i, d.sent))
      BY <1>1, <1>6, <3>2, RetryGood
    <3>4. QED
      BY <3>1, <3>3 DEF r
  <2>2. CASE d.response = "tooBrief" /\ st = "retrying"
    BY <1>4, <1>6, <2>2 DEF StateReceiveL
  <2>3. CASE d.response = "error"
    BY <1>4, <1>6, <2>3 DEF StateReceiveL
  <2>4. CASE d.response = "tooBrief"
    BY <2>1, <2>2, <2>4
  <2>5. d.response \in {"tooBrief", "error"}
    BY <1>6
  <2>6. QED
    BY <2>3, <2>4, <2>5
<1>7. QED
  BY <1>3, <1>5, <1>6

LEMMA IdleReceive ==
  ASSUME NEW i \in BindingIds, NEW s \in State, Mid(s, i), Idle(s, i),
         s.bind[i].life = "stored", s.bind[i].refreshing,
         s.bind[i].zero => s.bind[i].st \in {"unregistering", "unregistered"},
         NEW t \in TaIdsOf(i), NEW d \in Deliveries,
         s.bind[i].st \in {"registering", "updating", "unregistering"} =>
           t = s.bind[i].ta,
         \/ d.response \in {"tooBrief", "error"}
         \/ s.bind[i].st \in {"unregistering", "unregistered"}
  PROVE  /\ RefreshReceivedL(s, i, t, d) \in State
         /\ Good(RefreshReceivedL(s, i, t, d))
<1>1. CASE s.bind[i].st = "registered"
  <2> DEFINE u == [s EXCEPT !.bind[i].ta = t]
  <2>1. RefreshReceivedL(s, i, t, d) = StateReceiveL(u, i, d)
    BY <1>1 DEF RefreshReceivedL
  <2>2. /\ u \in State /\ Mid(u, i) /\ u.refr = s.refr /\ u.ta = s.ta
        /\ u.bind[i] = [s.bind[i] EXCEPT !.ta = t]
    BY TaMid, Zenon
  <2> HIDE DEF u
  <2>3. s.bind[i] \in Binding
    BY DEF State
  <2>4. /\ u.bind[i].life = s.bind[i].life /\ u.bind[i].st = s.bind[i].st
        /\ u.bind[i].zero = s.bind[i].zero
    BY <2>2, <2>3 DEF Binding
  <2>5. Idle(u, i)
    BY <2>2 DEF Idle
  <2>6. ~u.bind[i].zero
    BY <1>1, <2>4
  <2>7. StateReceiveL(u, i, d) \in State /\ Good(StateReceiveL(u, i, d))
    BY <1>1, <2>2, <2>4, <2>5, <2>6, IdleStateReceive
  <2>8. QED
    BY <2>1, <2>7
<1>2. CASE s.bind[i].st # "registered" /\ t \in {s.bind[i].ta, s.bind[i].retry}
  <2>1. RefreshReceivedL(s, i, t, d) = StateReceiveL(s, i, d)
    BY <1>2 DEF RefreshReceivedL
  <2>2. QED
    BY <2>1, IdleStateReceive
<1>3. CASE /\ s.bind[i].st # "registered"
           /\ t \notin {s.bind[i].ta, s.bind[i].retry}
  <2>1. RefreshReceivedL(s, i, t, d) = [s EXCEPT !.left = TRUE]
    BY <1>3 DEF RefreshReceivedL
  <2>2. s.bind[i].st \in {"retrying", "unregistered"}
    <3>1. s.bind[i].st \in RegistrationStates
      BY DEF State, Binding
    <3>2. QED
      BY <1>3, <3>1 DEF RegistrationStates
  <2>3. Good(s)
    BY <2>2, IdleGood
  <2>4. QED
    BY <2>1, <2>3, LeftMid
<1>4. QED
  BY <1>1, <1>2, <1>3

(* The refresh goes, and the binding gets the response.                    *)
LEMMA RemovedReceive ==
  ASSUME NEW i \in BindingIds, NEW s \in State, Good(s),
         NEW j \in RefreshIdsOf(i), NEW t \in TaIdsOf(i),
         Reports(s, i, j, t), NEW d \in Deliveries,
         d.response \in {"tooBrief", "error"} \/ s.bind[i].zero
  PROVE  /\ RefreshReceivedL(RemoveRefreshBy(s, j), i, t, d) \in State
         /\ Good(RefreshReceivedL(RemoveRefreshBy(s, j), i, t, d))
<1> DEFINE r == RemoveRefreshBy(s, j)
<1>1. Mid(s, i) /\ Duty(s, i)
  BY MidOfGood
<1>2. /\ r \in State /\ Mid(r, i) /\ r.bind = s.bind /\ Idle(r, i)
  BY <1>1, RemoveRefreshMid DEF Reports
<1> HIDE DEF r
<1>3. s.bind[i].zero => s.bind[i].st \in {"unregistering", "unregistered"}
  BY <1>1 DEF Duty, Reports
<1>4. /\ r.bind[i].life = "stored" /\ r.bind[i].refreshing
      /\ r.bind[i].st \in {"registering", "updating", "unregistering"} =>
           t = r.bind[i].ta
      /\ r.bind[i].zero => r.bind[i].st \in {"unregistering", "unregistered"}
      /\ \/ d.response \in {"tooBrief", "error"}
         \/ r.bind[i].st \in {"unregistering", "unregistered"}
  BY <1>2, <1>3 DEF Reports
<1>5. QED
  BY <1>2, <1>4, IdleReceive DEF r

LEMMA ReceivedErrorGood ==
  ASSUME NEW i \in BindingIds, NEW s \in State, Good(s),
         NEW j \in RefreshIdsOf(i), NEW t \in TaIdsOf(i),
         Reports(s, i, j, t), NEW d \in Deliveries,
         d.response \notin {"ok", "rejected"}
  PROVE  /\ ReceivedErrorResponseL(s, j, t, d) \in State
         /\ Good(ReceivedErrorResponseL(s, j, t, d))
<1>1. d.response \in {"tooBrief", "error"}
  BY DEF Deliveries, Responses
<1>2. ReceivedErrorResponseL(s, j, t, d) =
        RefreshReceivedL(RemoveRefreshBy(s, j), i, t, d)
  BY DEF ReceivedErrorResponseL, Reports
<1>3. QED
  BY <1>1, <1>2, RemovedReceive

(* The 2xx of a refresh: it runs its timer, and the transaction ends.      *)
LEMMA TimedGood ==
  ASSUME NEW i \in BindingIds, NEW s \in State, Mid(s, i),
         s.bind[i].life = "stored", s.bind[i].st = "registered",
         s.bind[i].reg # 0, ~s.bind[i].zero, s.bind[i].refreshing,
         NEW j \in RefreshIdsOf(i), NEW t \in TaIdsOf(i),
         s.bind[i].refresh = j, s.refr[j].life = "stored",
         s.refr[j].ta = t, s.refr[j].timer
  PROVE  ClearTa(s, t) \in State /\ Good(ClearTa(s, t))
<1> DEFINE r == ClearTa(s, t)
<1>1. /\ r \in State /\ Mid(r, i) /\ r.bind = s.bind /\ r.refr = s.refr
      /\ \A u \in TaIdsOf(i) : r.ta[u] = IF u = t THEN Nobody ELSE s.ta[u]
  BY ClearTaMid, IdsApart
<1> HIDE DEF r
<1>2. \A k \in RefreshIdsOf(i) : k # j => r.refr[k] = NoRefresh
  BY <1>1 DEF Mid, Sound, RefreshSound
<1>3. Kept(r, i)
  BY <1>1 DEF Kept, HasRefresh
<1>4. ASSUME NEW u \in TaIdsOf(i)
      PROVE  r.ta[u] = Nobody
  <2>1. \/ r.ta[u] = Nobody
        \/ \E k \in RefreshIdsOf(i) : /\ r.refr[k].life = "stored"
                                      /\ r.refr[k].ta = u
    BY <1>1 DEF Mid, Sound, TaSound
  <2>2. CASE r.ta[u] # Nobody
    <3>1. PICK k \in RefreshIdsOf(i) : /\ r.refr[k].life = "stored"
                                       /\ r.refr[k].ta = u
      BY <2>1, <2>2
    <3>2. k = j
      BY <1>2, <3>1 DEF NoRefresh
    <3>3. u = t
      BY <1>1, <3>1, <3>2
    <3>4. QED
      BY <1>1, <3>3
  <2>3. QED
    BY <2>2
<1>5. Duty(r, i)
  BY <1>1, <1>3, <1>4, OwnersApart DEF Duty
<1>6. QED
  BY <1>1, <1>5, GoodOf DEF r

LEMMA GoneCleared ==
  ASSUME NEW i \in BindingIds, NEW s \in State, Good(s),
         s.bind[i].life # "stored", NEW t \in TaIdsOf(i)
  PROVE  ClearTa(s, t) \in State /\ Good(ClearTa(s, t))
<1> DEFINE r == ClearTa(s, t)
<1>1. Mid(s, i) /\ Duty(s, i)
  BY MidOfGood
<1>2. /\ r \in State /\ Mid(r, i) /\ r.bind = s.bind /\ r.refr = s.refr
  BY <1>1, ClearTaMid
<1>3. \A j \in RefreshIdsOf(i) : s.refr[j] = NoRefresh
  BY <1>1 DEF Duty
<1> HIDE DEF r
<1>4. Good(r)
  BY <1>2, <1>3, GoodOfGone
<1>5. QED
  BY <1>2, <1>4 DEF r

LEMMA LeftEnded ==
  ASSUME NEW i \in BindingIds, NEW s \in State, Mid(s, i),
         NEW j \in RefreshIdsOf(i), s.refr[j].life = "stored",
         NEW t \in TaIdsOf(i), s.bind[i].life = "stored",
         ~RefreshErrorKnown(s, i, t) =>
           /\ s.bind[i].st \in {"retrying", "unregistered"}
           /\ s.bind[i].st = "retrying" => ~s.bind[i].zero
  PROVE  LET r == RefreshEnded([s EXCEPT !.refr[j].timer = FALSE], j, t)
         IN  r \in State /\ Good(r)
<1> DEFINE u == [s EXCEPT !.refr[j].timer = FALSE]
<1>1. /\ u \in State /\ Mid(u, i) /\ u.bind = s.bind
      /\ u.refr[j] = [s.refr[j] EXCEPT !.timer = FALSE]
  BY TimerMid, Zenon
<1> HIDE DEF u
<1>2. j \in RefreshIds
  BY IdsApart
<1>3. s.refr[j] \in Refresh
  BY <1>2 DEF State
<1>4. u.refr[j].life = "stored"
  BY <1>1, <1>3 DEF Refresh
<1>5. RefreshErrorKnown(u, i, t) <=> RefreshErrorKnown(s, i, t)
  BY <1>1 DEF RefreshErrorKnown
<1>6. RefreshEnded(u, j, t) \in State /\ Good(RefreshEnded(u, j, t))
  BY <1>1, <1>4, <1>5, RefreshEndedGood
<1>7. QED
  BY <1>6 DEF u

(* What follows the response in Received200ClassResponseL.                 *)
After200(p, j, t) ==
    IF p.left THEN RefreshEnded([p EXCEPT !.refr[j].timer = FALSE], j, t)
    ELSE ClearTa(p, t)

(* A refresh with its timer on, at the time of the 2xx.                    *)
Timed(s, i, j, t) ==
    /\ Mid(s, i)
    /\ ~s.left
    /\ s.bind[i].life = "stored"
    /\ s.bind[i].refreshing
    /\ s.bind[i].refresh = j
    /\ ~s.bind[i].zero
    /\ s.bind[i].st # "unregistering"
    /\ s.refr[j].life = "stored"
    /\ s.refr[j].ta = t
    /\ s.refr[j].timer

LEMMA TimedLeft ==
  ASSUME NEW i \in BindingIds, NEW s \in State,
         NEW j \in RefreshIdsOf(i), NEW t \in TaIdsOf(i),
         Timed(s, i, j, t),
         ~RefreshErrorKnown(s, i, t) =>
           s.bind[i].st \in {"retrying", "unregistered"},
         NEW p, p = [s EXCEPT !.left = TRUE]
  PROVE  After200(p, j, t) \in State /\ Good(After200(p, j, t))
<1>1. /\ p \in State /\ Mid(p, i) /\ p.bind = s.bind /\ p.refr = s.refr
      /\ p.left
  BY LeftMid DEF Timed
<1>2. RefreshErrorKnown(p, i, t) <=> RefreshErrorKnown(s, i, t)
  BY <1>1 DEF RefreshErrorKnown
<1>3. LET r == RefreshEnded([p EXCEPT !.refr[j].timer = FALSE], j, t)
      IN  r \in State /\ Good(r)
  BY <1>1, <1>2, LeftEnded DEF Timed
<1>4. QED
  BY <1>1, <1>3 DEF After200

LEMMA TimedRejected ==
  ASSUME NEW i \in BindingIds, NEW s \in State,
         NEW j \in RefreshIdsOf(i), NEW t \in TaIdsOf(i),
         Timed(s, i, j, t)
  PROVE  /\ After200(PassError(s, i), j, t) \in State
         /\ Good(After200(PassError(s, i), j, t))
<1> DEFINE p == PassError(s, i)
<1>1. /\ p \in State /\ Good(p) /\ p.left = s.left
      /\ p.bind[i].life # "stored"
  BY PassErrorGood DEF Timed
<1> HIDE DEF p
<1>2. After200(p, j, t) = ClearTa(p, t)
  BY <1>1 DEF After200, Timed
<1>3. QED
  BY <1>1, <1>2, GoneCleared DEF p

LEMMA TimedRegistered ==
  ASSUME NEW i \in BindingIds, NEW s \in State,
         NEW j \in RefreshIdsOf(i), NEW t \in TaIdsOf(i),
         Timed(s, i, j, t), NEW accept \in BOOLEAN,
         s.bind[i].st \in {"registering", "updating"} => t = s.bind[i].ta,
         s.bind[i].st \in {"registering", "updating", "retrying"}
  PROVE  LET p == RegisteredL(s, i, accept)
         IN  After200(p, j, t) \in State /\ Good(After200(p, j, t))
<1> DEFINE p == RegisteredL(s, i, accept)
<1>1. Mid(s, i) /\ s.bind[i].life = "stored"
  BY DEF Timed
<1>2. /\ p \in State /\ Mid(p, i) /\ p.refr = s.refr
      /\ p.left = IF accept THEN s.left ELSE TRUE
      /\ p.bind[i].life = "stored"
      /\ p.bind[i].st = IF accept THEN "registered" ELSE s.bind[i].st
      /\ p.bind[i].reg # 0
      /\ p.bind[i].timer = ~s.bind[i].refreshing
      /\ p.bind[i].zero = s.bind[i].zero
      /\ p.bind[i].refreshing = s.bind[i].refreshing
      /\ p.bind[i].refresh = s.bind[i].refresh
      /\ p.bind[i].ta = s.bind[i].ta
      /\ p.bind[i].retry = s.bind[i].retry
  <2>1. IsRegistered(s, p, i, accept)
    BY <1>1, RegisteredMid
  <2> HIDE DEF p
  <2>2. QED
    BY <2>1 DEF IsRegistered
<1> HIDE DEF p
<1>3. CASE accept
  <2>1. ClearTa(p, t) \in State /\ Good(ClearTa(p, t))
    BY <1>2, <1>3, TimedGood DEF Timed
  <2>2. QED
    BY <1>2, <1>3, <2>1 DEF After200, Timed, p
<1>4. CASE ~accept
  <2>1. ~RefreshErrorKnown(p, i, t) =>
          /\ p.bind[i].st \in {"retrying", "unregistered"}
          /\ p.bind[i].st = "retrying" => ~p.bind[i].zero
    <3>1. ~p.bind[i].zero
      BY <1>2 DEF Timed
    <3>2. ~RefreshErrorKnown(p, i, t) => p.bind[i].st = "retrying"
      BY <1>2, <1>4 DEF RefreshErrorKnown
    <3>3. QED
      BY <3>1, <3>2
  <2>2. p.refr[j].life = "stored"
    BY <1>2 DEF Timed
  <2>3. LET r == RefreshEnded([p EXCEPT !.refr[j].timer = FALSE], j, t)
        IN  r \in State /\ Good(r)
    BY <1>2, <2>1, <2>2, LeftEnded
  <2>4. QED
    BY <1>2, <1>4, <2>3 DEF After200, p
<1>5. QED
  BY <1>3, <1>4

LEMMA TimedRefreshed ==
  ASSUME NEW i \in BindingIds, NEW s \in State,
         NEW j \in RefreshIdsOf(i), NEW t \in TaIdsOf(i),
         Timed(s, i, j, t), s.bind[i].st = "registered"
  PROVE  LET p == Received2XXResponseL(s, i)
         IN  After200(p, j, t) \in State /\ Good(After200(p, j, t))
<1> DEFINE p == Received2XXResponseL(s, i)
<1>1. /\ p \in State /\ Mid(p, i) /\ p.refr = s.refr /\ p.left = s.left
      /\ \E reg \in RegistrarIds :
           p.bind[i] = [s.bind[i] EXCEPT !.reg = reg,
                                         !.timer = ~s.bind[i].refreshing]
  BY Received2XXMid DEF Timed
<1> HIDE DEF p
<1>2. PICK reg \in RegistrarIds :
        p.bind[i] = [s.bind[i] EXCEPT !.reg = reg,
                                      !.timer = ~s.bind[i].refreshing]
  BY <1>1
<1>3. s.bind[i] \in Binding
  BY DEF State
<1> DEFINE on == ~s.bind[i].refreshing
<1>4. p.bind[i] = [s.bind[i] EXCEPT !.reg = reg, !.timer = on]
  BY <1>2
<1> HIDE DEF on
<1>5. /\ p.bind[i].life = "stored" /\ p.bind[i].st = "registered"
      /\ p.bind[i].reg # 0 /\ ~p.bind[i].zero /\ p.bind[i].refreshing
      /\ p.bind[i].refresh = j
  BY <1>3, <1>4 DEF Binding, Timed, RegistrarIds
<1>6. ClearTa(p, t) \in State /\ Good(ClearTa(p, t))
  BY <1>1, <1>5, TimedGood DEF Timed
<1>7. QED
  BY <1>1, <1>6 DEF After200, Timed, p

LEMMA TimedReceive ==
  ASSUME NEW i \in BindingIds, NEW s \in State,
         NEW j \in RefreshIdsOf(i), NEW t \in TaIdsOf(i),
         Timed(s, i, j, t),
         s.bind[i].st \in {"registering", "updating"} => t = s.bind[i].ta,
         NEW d \in Deliveries, d.response \in {"ok", "rejected"}
  PROVE  LET p == RefreshReceivedL(s, i, t, d)
         IN  After200(p, j, t) \in State /\ Good(After200(p, j, t))
<1> DEFINE p == RefreshReceivedL(s, i, t, d)
           st == s.bind[i].st
<1>1. d.accept \in BOOLEAN
  BY DEF Deliveries, MaySucceed
<1>2. st \in RegistrationStates \ {"unregistering"}
  BY DEF State, Binding, Timed
<1>3. CASE st = "registered"
  <2> DEFINE u == [s EXCEPT !.bind[i].ta = t]
  <2>1. p = StateReceiveL(u, i, d)
    BY <1>3 DEF RefreshReceivedL
  <2>2. /\ u \in State /\ Mid(u, i) /\ u.refr = s.refr /\ u.ta = s.ta
        /\ u.bind[i] = [s.bind[i] EXCEPT !.ta = t] /\ u.left = s.left
    <3>1. /\ Mid(s, i) /\ s.bind[i].life = "stored"
          /\ s.bind[i].refreshing
      BY DEF Timed
    <3>2. u.left = s.left
      BY DEF State
    <3>3. QED
      BY <3>1, <3>2, TaMid, Zenon
  <2> HIDE DEF u, p
  <2>3. s.bind[i] \in Binding
    BY DEF State
  <2>4. /\ u.bind[i].life = s.bind[i].life /\ u.bind[i].st = s.bind[i].st
        /\ u.bind[i].zero = s.bind[i].zero
        /\ u.bind[i].refreshing = s.bind[i].refreshing
        /\ u.bind[i].refresh = s.bind[i].refresh
    BY <2>2, <2>3 DEF Binding
  <2>5. Timed(u, i, j, t)
    BY <2>2, <2>4 DEF Timed
  <2>6. CASE d.response = "rejected"
    <3>1. p = PassError(u, i)
      BY <1>3, <2>1, <2>4, <2>6 DEF StateReceiveL
    <3>2. QED
      BY <2>2, <2>5, <3>1, TimedRejected DEF p
  <2>7. CASE d.response = "ok"
    <3>1. p = Received2XXResponseL(u, i)
      BY <1>3, <2>1, <2>4, <2>7 DEF StateReceiveL
    <3>2. QED
      BY <1>3, <2>2, <2>4, <2>5, <3>1, TimedRefreshed DEF p
  <2>8. QED
    BY <2>6, <2>7
<1>4. CASE st # "registered" /\ t \in {s.bind[i].ta, s.bind[i].retry}
  <2>1. p = StateReceiveL(s, i, d)
    BY <1>4 DEF RefreshReceivedL
  <2> HIDE DEF p
  <2>2. CASE st = "unregistered"
    <3>1. p = [s EXCEPT !.left = TRUE]
      BY <2>1, <2>2 DEF StateReceiveL
    <3>2. After200(p, j, t) \in State /\ Good(After200(p, j, t))
      BY <2>2, <3>1, TimedLeft
    <3>3. QED
      BY <3>2 DEF p
  <2>3. CASE st # "unregistered" /\ d.response = "rejected"
    <3>1. p = PassError(s, i)
      BY <1>2, <2>1, <2>3 DEF StateReceiveL
    <3>2. QED
      BY <3>1, TimedRejected DEF p
  <2>4. CASE st # "unregistered" /\ d.response = "ok"
    <3>1. p = RegisteredL(s, i, d.accept)
      BY <1>2, <1>4, <2>1, <2>4 DEF StateReceiveL
    <3>2. st \in {"registering", "updating", "retrying"}
      BY <1>2, <1>4, <2>4 DEF RegistrationStates
    <3>3. QED
      BY <1>1, <3>1, <3>2, TimedRegistered DEF p
  <2>5. QED
    BY <2>2, <2>3, <2>4
<1>5. CASE st # "registered" /\ t \notin {s.bind[i].ta, s.bind[i].retry}
  <2>1. p = [s EXCEPT !.left = TRUE]
    BY <1>5 DEF RefreshReceivedL
  <2>2. st \in {"retrying", "unregistered"}
    BY <1>2, <1>5 DEF RegistrationStates
  <2> HIDE DEF p
  <2>3. After200(p, j, t) \in State /\ Good(After200(p, j, t))
    BY <2>1, <2>2, TimedLeft
  <2>4. QED
    BY <2>3 DEF p
<1>6. QED
  BY <1>3, <1>4, <1>5

LEMMA Received200Good ==
  ASSUME NEW i \in BindingIds, NEW s \in State, Good(s), ~s.left,
         NEW j \in RefreshIdsOf(i), NEW t \in TaIdsOf(i),
         Reports(s, i, j, t), NEW d \in Deliveries,
         d.response \in {"ok", "rejected"}
  PROVE  /\ Received200ClassResponseL(s, j, t, d) \in State
         /\ Good(Received200ClassResponseL(s, j, t, d))
<1>1. CASE s.bind[i].zero
  <2>1. Received200ClassResponseL(s, j, t, d) =
          RefreshReceivedL(RemoveRefreshBy(s, j), i, t, d)
    BY <1>1 DEF Received200ClassResponseL, Reports
  <2>2. QED
    BY <1>1, <2>1, RemovedReceive
<1>2. CASE ~s.bind[i].zero
  <2> DEFINE u == [s EXCEPT !.refr[j].timer = TRUE]
  <2>1. Received200ClassResponseL(s, j, t, d) =
          After200(RefreshReceivedL(u, i, t, d), j, t)
    BY <1>2 DEF Received200ClassResponseL, Reports, After200
  <2>2. Mid(s, i) /\ Duty(s, i)
    BY MidOfGood
  <2>3. s.refr[j].life = "stored"
    BY DEF Reports
  <2>4. /\ u \in State /\ Mid(u, i) /\ u.bind = s.bind /\ u.left = s.left
        /\ u.refr[j] = [s.refr[j] EXCEPT !.timer = TRUE]
    <3>1. TRUE \in BOOLEAN
      OBVIOUS
    <3>2. u.left = s.left
      BY DEF State
    <3>3. QED
      BY <2>2, <2>3, <3>1, <3>2, TimerMid, Zenon
  <2> HIDE DEF u
  <2>5. j \in RefreshIds
    BY IdsApart
  <2>6. s.refr[j] \in Refresh
    BY <2>5 DEF State
  <2>7. u.refr[j].life = "stored" /\ u.refr[j].ta = t /\ u.refr[j].timer
    BY <2>4, <2>6 DEF Refresh, Reports
  <2>8. Timed(u, i, j, t)
    BY <1>2, <2>2, <2>4, <2>7 DEF Timed, Reports, Duty
  <2>9. u.bind[i].st \in {"registering", "updating"} => t = u.bind[i].ta
    BY <2>4 DEF Reports
  <2>10. QED
    BY <2>1, <2>4, <2>8, <2>9, TimedReceive
<1>3. QED
  BY <1>1, <1>2

-----------------------------------------------------------------------------
(* A new request in the place of an old one.                               *)

LEMMA RefreshRecord ==
  ASSUME NEW g \in Refresh, NEW t \in TaIds, NEW off \in BOOLEAN
  PROVE  [g EXCEPT !.ta = t, !.timer = off] =
           [life |-> g.life, owner |-> g.owner, ta |-> t, timer |-> off]
<1> DEFINE x == [g EXCEPT !.ta = t, !.timer = off]
           y == [life |-> g.life, owner |-> g.owner, ta |-> t, timer |-> off]
<1>1. /\ x \in Refresh /\ x.life = g.life /\ x.owner = g.owner
      /\ x.ta = t /\ x.timer = off
  BY DEF Refresh
<1>2. /\ y \in Refresh /\ y.life = g.life /\ y.owner = g.owner
      /\ y.ta = t /\ y.timer = off
  BY DEF Refresh
<1> HIDE DEF x, y
<1>3. x = y
  BY <1>1, <1>2 DEF Refresh
<1>4. QED
  BY <1>3 DEF x, y

LEMMA SendUpdateFacts ==
  ASSUME NEW i \in BindingIds, NEW s \in State, Mid(s, i),
         NEW j \in RefreshIdsOf(i), s.refr[j].life = "stored"
  PROVE  \E t \in TaIdsOf(i) :
           LET r == SendUpdateRequestL(s, j)
           IN  /\ r \in State
               /\ r.bind = s.bind /\ r.regs = s.regs
               /\ r.grows = s.grows /\ r.left = s.left
               /\ r.refr[j].ta = t
               /\ RefreshOwnsOnly(r, i, j, t)
               /\ Touches(s, r, i)
<1>1. /\ s.refr[j].owner = i /\ s.bind[i].refreshing
      /\ s.bind[i].refresh = j /\ s.refr[j].ta \in TaIdsOf(i)
      /\ \A k \in RefreshIdsOf(i) : k # j => s.refr[k] = NoRefresh
  BY DEF Mid, Sound, RefreshSound, NoRefresh
<1>2. j \in RefreshIds /\ 0 \notin TaIds /\ TaIdsOf(i) \subseteq TaIds
      /\ RefreshIdsOf(i) \subseteq RefreshIds
  BY IdsApart
<1> DEFINE old == s.refr[j].ta
           free == ClearTa(s, old)
           t == FreshTa(free, i)
           sent == SentBy(free, t, R(j))
           r == SendUpdateRequestL(s, j)
<1>3. r = [sent EXCEPT !.refr[j].ta = t, !.refr[j].timer = FALSE]
  BY <1>1 DEF SendUpdateRequestL
<1> HIDE DEF r
<1>4. /\ free \in State /\ Mid(free, i)
      /\ free.bind = s.bind /\ free.refr = s.refr
      /\ free.regs = s.regs /\ free.left = s.left
      /\ \A u \in TaIds : free.ta[u] = IF u = old THEN Nobody ELSE s.ta[u]
  BY <1>1, ClearTaMid
<1>5. free = [s EXCEPT !.ta[old] = Nobody]
  BY <1>1, <1>2 DEF ClearTa
<1>6. free.grows = s.grows
  BY <1>5 DEF State
<1> HIDE DEF free
<1>7. ASSUME NEW u \in TaIdsOf(i)
      PROVE  free.ta[u] = Nobody
  <2>1. CASE u = old
    BY <1>2, <1>4, <2>1
  <2>2. CASE u # old
    <3>1. \/ s.ta[u] = Nobody
          \/ \E k \in RefreshIdsOf(i) : /\ s.refr[k].life = "stored"
                                        /\ s.refr[k].ta = u
      BY <1>1 DEF Mid, Sound, TaSound
    <3>2. s.ta[u] = Nobody
      BY <1>1, <2>2, <3>1 DEF NoRefresh
    <3>3. QED
      BY <1>2, <1>4, <2>2, <3>2
  <2>3. QED
    BY <2>1, <2>2
<1>8. t \in TaIdsOf(i)
  <2>1. /\ s.bind[i].ta \in TaIds \cup {0}
        /\ s.bind[i].retry \in TaIds \cup {0}
    BY DEF State, Binding
  <2>2. old \in TaIds \cup {0}
    BY <1>1, <1>2
  <2>3. \A u \in TaIdsOf(i) :
          u \notin {s.bind[i].ta, s.bind[i].retry, old} =>
            /\ free.ta[u] = Nobody
            /\ u \notin {free.bind[i].ta, free.bind[i].retry}
            /\ \A k \in RefreshIdsOf(i) : u # free.refr[k].ta
    BY <1>1, <1>2, <1>4, <1>7 DEF NoRefresh
  <2> DEFINE a == s.bind[i].ta
             b == s.bind[i].retry
  <2> HIDE DEF a, b, old
  <2>4. \A u \in TaIdsOf(i) : u \notin {a, b, old} =>
          /\ free.ta[u] = Nobody
          /\ u \notin {free.bind[i].ta, free.bind[i].retry}
          /\ \A k \in RefreshIdsOf(i) : u # free.refr[k].ta
    BY <2>3 DEF a, b
  <2>5. a \in TaIds \cup {0} /\ b \in TaIds \cup {0}
    BY <2>1 DEF a, b
  <2>6. QED
    BY <1>4, <2>2, <2>4, <2>5, FreshTaIn
<1> HIDE DEF t
<1>9. R(j) \in TaOwner
  BY <1>2 DEF TaOwner
<1>10. /\ sent \in State /\ sent.bind = free.bind
       /\ sent.refr = free.refr /\ sent.regs = free.regs
       /\ sent.grows = free.grows /\ sent.left = free.left
       /\ sent.ta = [free.ta EXCEPT ![t] = R(j)]
  BY <1>2, <1>4, <1>8, <1>9 DEF SentBy, State
<1> HIDE DEF sent
<1> DEFINE off == FALSE
           g == s.refr[j]
           f == [life |-> "stored", owner |-> i, ta |-> t, timer |-> off]
<1>11. off \in BOOLEAN /\ ~off
  OBVIOUS
<1>12. r = [sent EXCEPT !.refr = [s.refr EXCEPT ![j] = f]]
  <2>1. r = [sent EXCEPT !.refr[j].ta = t, !.refr[j].timer = off]
    BY <1>3
  <2> HIDE DEF off
  <2>2. r = [sent EXCEPT !.refr =
                [s.refr EXCEPT ![j].ta = t, ![j].timer = off]]
    <3>1. sent.refr = s.refr
      BY <1>4, <1>10
    <3>2. QED
      BY <2>1, <3>1
  <2>3. [s.refr EXCEPT ![j].ta = t, ![j].timer = off] =
          [s.refr EXCEPT ![j] = [g EXCEPT !.ta = t, !.timer = off]]
    BY <1>2 DEF State
  <2>4. g \in Refresh
    BY <1>2 DEF State
  <2>5. [g EXCEPT !.ta = t, !.timer = off] = f
    <3>1. g.life = "stored" /\ g.owner = i /\ t \in TaIds
      BY <1>1, <1>2, <1>8
    <3> HIDE DEF g
    <3>2. [g EXCEPT !.ta = t, !.timer = off] =
            [life |-> g.life, owner |-> g.owner, ta |-> t, timer |-> off]
      BY <1>11, <2>4, <3>1, RefreshRecord
    <3>3. QED
      BY <3>1, <3>2
  <2>6. QED
    BY <2>2, <2>3, <2>5
<1> HIDE DEF off
<1>13. f \in Refresh
  BY <1>2, <1>8, <1>11 DEF Refresh
<1>14. [s.refr EXCEPT ![j] = f] \in [RefreshIds -> Refresh]
  BY <1>13 DEF State
<1>15. /\ r \in State /\ r.bind = s.bind /\ r.regs = s.regs
       /\ r.grows = s.grows /\ r.left = s.left
       /\ r.refr = [s.refr EXCEPT ![j] = f]
       /\ r.ta = [free.ta EXCEPT ![t] = R(j)]
  BY <1>4, <1>6, <1>10, <1>12, <1>14 DEF State
<1>16. /\ r.refr[j] = f
       /\ \A k \in RefreshIds : k # j => r.refr[k] = s.refr[k]
       /\ \A u \in TaIds : r.ta[u] = IF u = t THEN R(j) ELSE free.ta[u]
  BY <1>2, <1>4, <1>8, <1>15 DEF State
<1>17. RefreshOwnsOnly(r, i, j, t)
  <2>1. r.refr[j] = [life |-> "stored", owner |-> i, ta |-> t,
                     timer |-> FALSE]
    BY <1>16 DEF off
  <2>2. QED
    BY <1>1, <1>2, <1>7, <1>16, <2>1 DEF RefreshOwnsOnly
<1>18. Touches(s, r, i)
  <2> SUFFICES ASSUME NEW k \in BindingIds, k # i
               PROVE  LocalSame(s, r, k)
    BY DEF Touches
  <2>1. \A m \in RefreshIdsOf(k) : m \in RefreshIds /\ m # j
    BY IdsApart
  <2>2. \A u \in TaIdsOf(k) : u \in TaIds /\ u # t /\ u # old
    BY <1>1, <1>8, IdsApart
  <2>3. QED
    BY <1>4, <1>15, <1>16, <2>1, <2>2 DEF LocalSame
<1>19. r.refr[j].ta = t
  BY <1>16
<1>20. QED
  BY <1>8, <1>15, <1>17, <1>18, <1>19 DEF r

(* UpdateL and UnregisterL of a registered binding.                        *)
SendsAgain(s, i) ==
    /\ Mid(s, i)
    /\ s.bind[i].life = "stored"
    /\ s.bind[i].reg # 0
    /\ Ahead(s, i)
    /\ \/ s.bind[i].st = "updating" /\ ~s.bind[i].zero
       \/ s.bind[i].st = "unregistering" /\ s.bind[i].zero

(* What becomes of the binding, and of the registrars when it is sent.     *)
LEMMA NumberedSentGood ==
  ASSUME NEW i \in BindingIds, NEW s \in State, SendsAgain(s, i),
         NEW r \in State, Touches(s, r, i), r.regs = s.regs,
         r.grows = s.grows, NEW on \in BOOLEAN,
         on => ~s.bind[i].refreshing,
         NEW t \in TaIdsOf(i), NEW j \in RefreshIdsOf(i),
         r.bind[i] = [s.bind[i] EXCEPT !.ta = t, !.timer = on],
         IF s.bind[i].refreshing
         THEN s.bind[i].refresh = j /\ RefreshOwnsOnly(r, i, j, t)
         ELSE OwnsOnly(r, i, t)
  PROVE  Numbered(r, i) \in State /\ Good(Numbered(r, i))
<1> DEFINE b == [s.bind[i] EXCEPT !.ta = t, !.timer = on]
           n == Numbered(r, i)
<1>1. s.bind[i] \in Binding
  BY DEF State
<1>2. /\ b.life = s.bind[i].life /\ b.st = s.bind[i].st
      /\ b.contact = s.bind[i].contact
      /\ b.refreshing = s.bind[i].refreshing /\ b.timer = on
      /\ b.refresh = s.bind[i].refresh /\ b.reg = s.bind[i].reg
      /\ b.ta = t /\ b.retry = s.bind[i].retry
      /\ b.zero = s.bind[i].zero
      /\ b.ends = s.bind[i].ends /\ b.flow = s.bind[i].flow
  BY <1>1 DEF Binding
<1>3. r.bind[i] = b
  OBVIOUS
<1> HIDE DEF b, n
<1>4. \A k \in BindingIds : /\ r.bind[k].life = s.bind[k].life
                            /\ r.bind[k].reg = s.bind[k].reg
  BY <1>2, <1>3 DEF Touches, LocalSame
<1>5. RegsOK(r)
  BY <1>4, RegsOfSame DEF SendsAgain, Mid
<1>6. Ahead(r, i) /\ r.grows
  BY <1>4 DEF Ahead, SendsAgain, Mid
<1>7. /\ n \in State /\ RegsOK(n)
      /\ n.bind = r.bind /\ n.refr = r.refr /\ n.ta = r.ta /\ n.grows
  BY <1>5, <1>6, NumberedFacts DEF n
<1>8. Touches(s, n, i)
  BY <1>7 DEF Touches, LocalSame
<1>9. BindingSound(n, i)
  BY <1>2, <1>3, <1>7 DEF BindingSound, Mid, Sound, SendsAgain
<1>10. IF n.bind[i].refreshing
       THEN n.bind[i].refresh = j /\ RefreshOwnsOnly(n, i, j, t)
       ELSE OwnsOnly(n, i, t)
  <2>1. RefreshOwnsOnly(r, i, j, t) => RefreshOwnsOnly(n, i, j, t)
    BY <1>7 DEF RefreshOwnsOnly
  <2>2. OwnsOnly(r, i, t) => OwnsOnly(n, i, t)
    BY <1>7 DEF OwnsOnly
  <2>3. n.bind[i].refreshing = s.bind[i].refreshing
        /\ n.bind[i].refresh = s.bind[i].refresh
    BY <1>2, <1>3, <1>7
  <2>4. QED
    BY <2>1, <2>2, <2>3
<1>11. /\ n.bind[i].life = "stored" /\ n.bind[i].reg # 0
       /\ n.bind[i].st # "retrying" /\ n.bind[i].ta = t
       /\ \/ n.bind[i].st = "updating" /\ ~n.bind[i].zero
          \/ n.bind[i].st = "unregistering" /\ n.bind[i].zero
  BY <1>2, <1>3, <1>7 DEF SendsAgain
<1>12. Good(n)
  BY <1>7, <1>8, <1>9, <1>10, <1>11, SentGood DEF SendsAgain
<1>13. QED
  BY <1>7, <1>12 DEF n

LEMMA SendAgainGood ==
  ASSUME NEW i \in BindingIds, NEW s \in State, SendsAgain(s, i),
         IF s.bind[i].refreshing THEN FindRefresh(s, i) # {} ELSE Idle(s, i)
  PROVE  SendAgainL(s, i) \in State /\ Good(SendAgainL(s, i))
<1>1. s.bind[i] \in Binding
  BY DEF State
<1>2. CASE s.bind[i].refreshing
  <2>1. PICK j \in FindRefresh(s, i) : Least(FindRefresh(s, i)) = j
    <3>1. FindRefresh(s, i) \in SUBSET Nat
      BY RegistrationAssumption DEF FindRefresh, RefreshIds
    <3>2. QED
      BY <1>2, <3>1, LeastIn
  <2>2. /\ j \in RefreshIdsOf(i) /\ s.refr[j].life = "stored"
        /\ s.bind[i].refresh = j
    <3>1. /\ j \in RefreshIds /\ s.refr[j].life = "stored"
          /\ s.refr[j].owner = i /\ j = s.bind[i].refresh
      BY <2>1 DEF FindRefresh
    <3>2. PICK k \in BindingIds : j \in RefreshIdsOf(k)
      BY <3>1, IdsCovered
    <3>3. k = i
      BY <3>1, <3>2 DEF SendsAgain, Mid, Sound, RefreshSound, NoRefresh
    <3>4. QED
      BY <3>1, <3>2, <3>3
  <2> DEFINE u == SendUpdateRequestL(s, j)
             t == u.refr[j].ta
             r == [u EXCEPT !.bind[i].ta = t]
  <2>3. SendAgainL(s, i) = Numbered(r, i)
    BY <1>2, <2>1 DEF SendAgainL
  <2>4. /\ u \in State /\ u.bind = s.bind /\ u.regs = s.regs
        /\ u.grows = s.grows /\ t \in TaIdsOf(i)
        /\ RefreshOwnsOnly(u, i, j, t) /\ Touches(s, u, i)
    BY <2>2, SendUpdateFacts DEF SendsAgain
  <2> HIDE DEF u, t
  <2> DEFINE b == [s.bind[i] EXCEPT !.ta = t]
  <2>5. t \in TaIds
    BY <2>4, IdsApart
  <2>6. b \in Binding
    BY <1>1, <2>5 DEF Binding
  <2>7. r = [u EXCEPT !.bind = [s.bind EXCEPT ![i] = b]]
    BY <2>4 DEF State
  <2> HIDE DEF r, b
  <2>8. [s.bind EXCEPT ![i] = b] \in [BindingIds -> Binding]
    BY <2>6 DEF State
  <2>9. /\ r \in State /\ r.refr = u.refr /\ r.ta = u.ta
        /\ r.regs = s.regs /\ r.grows = s.grows
        /\ r.bind = [s.bind EXCEPT ![i] = b]
    BY <2>4, <2>7, <2>8 DEF State
  <2>10. r.bind[i] = b /\ \A k \in BindingIds : k # i => r.bind[k] = s.bind[k]
    BY <2>9 DEF State
  <2>11. Touches(s, r, i)
    BY <2>4, <2>9, <2>10 DEF Touches, LocalSame
  <2>12. RefreshOwnsOnly(r, i, j, t)
    BY <2>4, <2>9 DEF RefreshOwnsOnly
  <2> DEFINE on == s.bind[i].timer
  <2>13. on \in BOOLEAN /\ (on => ~s.bind[i].refreshing)
    BY <1>1 DEF Binding, SendsAgain, Mid, Sound, BindingSound
  <2>14. [s.bind[i] EXCEPT !.ta = t, !.timer = on] = b
    BY <1>1 DEF Binding, b
  <2> HIDE DEF on
  <2>15. Numbered(r, i) \in State /\ Good(Numbered(r, i))
    <3>1. r.bind[i] = [s.bind[i] EXCEPT !.ta = t, !.timer = on]
      BY <2>10, <2>14
    <3>2. IF s.bind[i].refreshing
          THEN s.bind[i].refresh = j /\ RefreshOwnsOnly(r, i, j, t)
          ELSE OwnsOnly(r, i, t)
      BY <1>2, <2>2, <2>12
    <3>3. QED
      BY <2>2, <2>4, <2>9, <2>11, <2>13, <3>1, <3>2, NumberedSentGood
  <2>16. QED
    BY <2>3, <2>15
<1>3. CASE ~s.bind[i].refreshing
  <2> DEFINE t == FreshTa(s, i)
             u == SentBy(s, t, B(i))
             b == [s.bind[i] EXCEPT !.ta = t, !.timer = FALSE]
             r == [u EXCEPT !.bind[i].ta = t, !.bind[i].timer = FALSE]
  <2>1. SendAgainL(s, i) = Numbered(r, i)
    BY <1>3 DEF SendAgainL
  <2>2. t \in TaIdsOf(i)
    BY <1>3, IdleFresh
  <2> HIDE DEF t
  <2>3. /\ u \in State /\ u.bind = s.bind /\ u.refr = s.refr
        /\ u.regs = s.regs /\ u.grows = s.grows
        /\ u.ta = [s.ta EXCEPT ![t] = B(i)]
    BY <2>2, SentByFacts
  <2> HIDE DEF u
  <2>4. t \in TaIds
    BY <2>2, IdsApart
  <2>5. b \in Binding
    BY <1>1, <2>4 DEF Binding
  <2>6. r = [u EXCEPT !.bind = [s.bind EXCEPT ![i] = b]]
    <3>1. [s.bind EXCEPT ![i].ta = t, ![i].timer = FALSE] =
            [s.bind EXCEPT ![i] = b]
      BY DEF State
    <3>2. r = [u EXCEPT !.bind =
                 [s.bind EXCEPT ![i].ta = t, ![i].timer = FALSE]]
      BY <2>3 DEF State
    <3>3. QED
      BY <3>1, <3>2
  <2>7. [s.bind EXCEPT ![i] = b] \in [BindingIds -> Binding]
    BY <2>5 DEF State
  <2> HIDE DEF r, b
  <2>8. /\ r \in State /\ r.refr = s.refr
        /\ r.ta = [s.ta EXCEPT ![t] = B(i)]
        /\ r.regs = s.regs /\ r.grows = s.grows
        /\ r.bind = [s.bind EXCEPT ![i] = b]
    BY <2>3, <2>6, <2>7 DEF State
  <2>9. /\ r.bind[i] = b
        /\ \A k \in BindingIds : k # i => r.bind[k] = s.bind[k]
        /\ \A v \in TaIds : r.ta[v] = IF v = t THEN B(i) ELSE s.ta[v]
    BY <2>4, <2>8 DEF State
  <2>10. Touches(s, r, i)
    BY <2>2, <2>8, <2>9, IdsApart DEF Touches, LocalSame
  <2>11. OwnsOnly(r, i, t)
    BY <1>3, <2>8, <2>9, IdsApart DEF OwnsOnly, Idle
  <2>12. PICK j \in RefreshIdsOf(i) : TRUE
    BY RegistrationAssumption DEF RefreshIdsOf, BindingIds
  <2>13. FALSE \in BOOLEAN
    OBVIOUS
  <2>14. r.bind[i] = [s.bind[i] EXCEPT !.ta = t, !.timer = FALSE]
    BY <2>9 DEF b
  <2>15. Numbered(r, i) \in State /\ Good(Numbered(r, i))
    BY <1>3, <2>2, <2>8, <2>10, <2>11, <2>13, <2>14, NumberedSentGood
  <2>16. QED
    BY <2>1, <2>15
<1>4. QED
  BY <1>2, <1>3

-----------------------------------------------------------------------------
(* Bindings that come and go.                                              *)

LEMMA FindRegistrarIn ==
  ASSUME NEW s \in State, NEW target
  PROVE  LET r == FindRegistrar(s, target)
         IN  r = 0 \/ /\ r \in RegistrarIds
                      /\ s.regs[r].place # 0
                      /\ s.regs[r].target = target
<1> DEFINE at == {r \in Registrars(s) : s.regs[r].target = target}
           gap(q) == MaxBindings - s.regs[q].place
           gaps == {gap(q) : q \in at}
<1>1. \A q \in at : /\ q \in RegistrarIds /\ s.regs[q].place # 0
                    /\ s.regs[q].target = target
  BY DEF Registrars
<1>2. ASSUME NEW q \in at
      PROVE  s.regs[q].place \in 0 .. MaxBindings /\ gap(q) \in Nat
  <2>1. s.regs[q] \in AnyRegistrar
    BY <1>1 DEF State
  <2>2. s.regs[q].place \in 0 .. MaxBindings
    BY <2>1 DEF AnyRegistrar
  <2>3. QED
    BY <2>2, RegistrationAssumption
<1>3. CASE at = {}
  <2>1. FindRegistrar(s, target) = 0
    BY <1>3 DEF FindRegistrar
  <2>2. QED
    BY <2>1
<1>4. CASE at # {}
  <2>1. gaps \in SUBSET Nat /\ gaps # {}
    BY <1>2, <1>4
  <2>2. Least(gaps) \in gaps /\ \A y \in gaps : Least(gaps) <= y
    <3> HIDE DEF gaps
    <3>1. QED
      BY <2>1, LeastIn
  <2>3. PICK r \in at : Least(gaps) = gap(r)
    BY <2>2
  <2>4. ASSUME NEW q \in at
        PROVE  s.regs[q].place <= s.regs[r].place
    <3>1. gap(q) \in gaps
      OBVIOUS
    <3>2. gap(r) <= gap(q)
      <4> HIDE DEF gap, gaps
      <4>1. QED
        BY <2>2, <2>3, <3>1
    <3>3. QED
      BY <1>2, <3>2, RegistrationAssumption
  <2>5. FindRegistrar(s, target) =
          CHOOSE p \in at : \A q \in at : s.regs[q].place <= s.regs[p].place
    BY <1>4 DEF FindRegistrar
  <2> HIDE DEF at
  <2>6. FindRegistrar(s, target) \in at
    BY <2>4, <2>5
  <2>7. QED
    BY <1>1, <2>6
<1>5. QED
  BY <1>3, <1>4

(* No binding, no refresh, no transaction.                                 *)
LEMMA NoneIdle ==
  ASSUME NEW i \in BindingIds, NEW s \in State, Good(s),
         s.bind[i].life = "none"
  PROVE  Idle(s, i)
<1>1. \A j \in RefreshIdsOf(i) : s.refr[j] = NoRefresh
  BY DEF Good, Duty
<1>2. \A t \in TaIdsOf(i) : s.ta[t] = Nobody
  BY <1>1 DEF Good, Sound, TaSound, NoRefresh
<1>3. QED
  BY <1>1, <1>2 DEF Idle

LEMMA ConstructedMid ==
  ASSUME NEW i \in BindingIds, NEW s \in State, Good(s),
         s.bind[i].life = "none", NEW c \in Contacts,
         NEW refreshing \in BOOLEAN
  PROVE  LET n == Constructed(s, i, c, refreshing)
         IN  /\ n \in State /\ Mid(n, i) /\ Idle(n, i) /\ Ahead(n, i)
             /\ n.bind[i].life = "stored" /\ ~n.bind[i].zero
             /\ n.bind[i].st = "registering"
<1> DEFINE r == FindRegistrar(s, Target[c])
           b == [NoBinding EXCEPT !.life = "stored", !.st = "registering",
                     !.contact = c, !.refreshing = refreshing, !.reg = r]
           new == [s EXCEPT !.bind[i] = b]
           u == AddRegistrationIdL(new, r, i)
           n == NextCSeq(u, i)
<1>1. Constructed(s, i, c, refreshing) = n
  BY DEF Constructed
<1>2. \/ r = 0
      \/ r \in RegistrarIds /\ s.regs[r].place # 0
  BY FindRegistrarIn
<1> HIDE DEF r
<1>3. 0 \notin RegistrarIds
  BY DEF RegistrarIds
<1>4. Mid(s, i) /\ Idle(s, i)
  BY MidOfGood, NoneIdle
<1>5. /\ b \in Binding
      /\ b.life = "stored" /\ b.st = "registering" /\ b.contact = c
      /\ b.refreshing = refreshing /\ b.reg = r /\ b.ta = 0 /\ b.retry = 0
      /\ ~b.timer /\ ~b.zero /\ b.ends = 0 /\ ~b.flow
  <2>1. /\ NoBinding \in Binding
        /\ NoBinding.ta = 0 /\ NoBinding.retry = 0 /\ NoBinding.ends = 0
        /\ ~NoBinding.timer /\ ~NoBinding.zero /\ ~NoBinding.flow
    BY DEF NoBinding, Binding, RegistrationStates
  <2>2. "registering" \in RegistrationStates
    BY DEF RegistrationStates
  <2>3. QED
    BY <1>2, <2>1, <2>2 DEF Binding
<1> HIDE DEF b
<1>6. /\ new \in State /\ new.refr = s.refr /\ new.ta = s.ta
      /\ new.regs = s.regs /\ new.grows = s.grows
      /\ new.bind = [s.bind EXCEPT ![i] = b]
  BY <1>5 DEF State
<1> HIDE DEF new
<1>7. /\ u \in State /\ u.bind = new.bind /\ u.refr = s.refr /\ u.ta = s.ta
      /\ u.grows = s.grows
      /\ r = 0 => u.regs = s.regs
      /\ r # 0 => u.regs = [s.regs EXCEPT ![r].ids = @ \cup {i}]
  <2>1. CASE r = 0
    BY <1>6, <2>1 DEF AddRegistrationIdL
  <2>2. CASE r # 0
    <3> DEFINE g == [s.regs EXCEPT ![r].ids = @ \cup {i}]
    <3>1. u = [new EXCEPT !.regs = g]
      BY <1>6, <2>2 DEF AddRegistrationIdL, State
    <3>2. s.regs[r] \in AnyRegistrar
      BY <1>2, <2>2 DEF State
    <3>3. [s.regs[r] EXCEPT !.ids = @ \cup {i}] \in AnyRegistrar
      BY <3>2 DEF AnyRegistrar
    <3>4. g \in [RegistrarIds -> AnyRegistrar]
      BY <1>2, <2>2, <3>3 DEF State
    <3> HIDE DEF g
    <3>5. /\ u \in State /\ u.bind = new.bind /\ u.refr = new.refr
          /\ u.ta = new.ta /\ u.grows = new.grows /\ u.regs = g
      BY <1>6, <3>1, <3>4 DEF State
    <3>6. QED
      BY <1>6, <2>2, <3>5 DEF g
  <2>3. QED
    BY <2>1, <2>2
<1> HIDE DEF u
<1>8. /\ u.bind[i] = b
      /\ \A k \in BindingIds : k # i => u.bind[k] = s.bind[k]
  BY <1>6, <1>7 DEF State
<1>9. \A q \in RegistrarIds :
        /\ u.regs[q].ids = IF q = r THEN s.regs[q].ids \cup {i}
                           ELSE s.regs[q].ids
        /\ u.regs[q].place = s.regs[q].place
        /\ u.regs[q].target = s.regs[q].target
        /\ q # r => u.regs[q] = s.regs[q]
  <2>1. \A q \in RegistrarIds : s.regs[q] \in AnyRegistrar
    BY DEF State
  <2>2. CASE r = 0
    BY <1>3, <1>7, <2>2
  <2>3. CASE r # 0
    <3> DEFINE g == [s.regs[r] EXCEPT !.ids = @ \cup {i}]
    <3>1. u.regs = [s.regs EXCEPT ![r] = g]
      BY <1>7, <2>3
    <3>2. /\ g.ids = s.regs[r].ids \cup {i}
          /\ g.place = s.regs[r].place /\ g.target = s.regs[r].target
      BY <1>2, <2>1, <2>3 DEF AnyRegistrar
    <3> HIDE DEF g
    <3>3. \A q \in RegistrarIds :
            u.regs[q] = IF q = r THEN g ELSE s.regs[q]
      BY <1>2, <2>3, <3>1 DEF State
    <3>4. QED
      BY <3>2, <3>3
  <2>4. QED
    BY <2>2, <2>3
<1>10. RegsOK(u)
  <2>1. ASSUME NEW q \in RegistrarIds
        PROVE  \/ u.regs[q] = NoRegistrar
               \/ /\ u.regs[q].place # 0
                  /\ u.regs[q].target \in Targets
                  /\ u.regs[q].ids # {}
    <3>1. CASE q = r
      <4>1. s.regs[q] # NoRegistrar
        BY <1>2, <1>3, <3>1 DEF NoRegistrar
      <4>2. s.regs[q].target \in Targets
        BY <4>1 DEF Good, RegsOK
      <4>3. i \in u.regs[q].ids /\ u.regs[q].place # 0
        BY <1>2, <1>3, <1>9, <3>1
      <4>4. QED
        BY <1>9, <4>2, <4>3
    <3>2. CASE q # r
      <4>1. u.regs[q] = s.regs[q]
        BY <1>9, <3>2
      <4>2. \/ s.regs[q] = NoRegistrar
            \/ /\ s.regs[q].place # 0
               /\ s.regs[q].target \in Targets
               /\ s.regs[q].ids # {}
        BY DEF Good, RegsOK
      <4>3. QED
        BY <4>1, <4>2
    <3>3. QED
      BY <3>1, <3>2
  <2>2. ASSUME NEW q \in RegistrarIds, NEW k \in u.regs[q].ids
        PROVE  u.bind[k].life = "stored" /\ u.bind[k].reg = q
    <3>1. u.regs[q] \in AnyRegistrar
      BY <1>7 DEF State
    <3>2. k \in BindingIds
      BY <3>1 DEF AnyRegistrar
    <3>3. i \notin s.regs[q].ids
      BY DEF Good, RegsOK
    <3>4. CASE k = i
      BY <1>5, <1>8, <1>9, <3>3, <3>4
    <3>5. CASE k # i
      <4>1. k \in s.regs[q].ids
        BY <1>9, <3>5
      <4>2. QED
        BY <1>8, <3>2, <3>5, <4>1 DEF Good, RegsOK
    <3>6. QED
      BY <3>4, <3>5
  <2>3. ASSUME NEW k \in BindingIds, u.bind[k].reg # 0
        PROVE  /\ u.bind[k].life = "stored"
               /\ k \in u.regs[u.bind[k].reg].ids
    <3>1. CASE k = i
      BY <1>2, <1>5, <1>8, <1>9, <2>3, <3>1
    <3>2. CASE k # i
      <4>1. /\ s.bind[k].reg # 0 /\ u.bind[k] = s.bind[k]
            /\ s.bind[k].reg \in RegistrarIds
        BY <1>8, <2>3, <3>2 DEF State, Binding
      <4>2. s.bind[k].life = "stored" /\ k \in s.regs[s.bind[k].reg].ids
        BY <4>1 DEF Good, RegsOK
      <4>3. QED
        BY <1>9, <4>1, <4>2
    <3>3. QED
      BY <3>1, <3>2
  <2>4. QED
    BY <2>1, <2>2, <2>3 DEF RegsOK
<1>11. Touches(s, u, i)
  BY <1>7, <1>8 DEF Touches, LocalSame
<1>12. Sound(u, i)
  <2>1. BindingSound(u, i)
    BY <1>5, <1>8 DEF BindingSound
  <2>2. RefreshSound(u, i)
    BY <1>4, <1>7 DEF RefreshSound, Idle
  <2>3. TaSound(u, i)
    BY <1>4, <1>7 DEF TaSound, Idle
  <2>4. QED
    BY <2>1, <2>2, <2>3 DEF Sound
<1>13. Mid(u, i)
  BY <1>4, <1>7, <1>10, <1>11, <1>12, MidOf DEF Mid
<1>14. /\ n \in State /\ RegsOK(n) /\ n.bind = u.bind /\ n.refr = u.refr
       /\ n.ta = u.ta /\ n.grows = u.grows /\ Ahead(n, i)
  BY <1>7, <1>10, NextCSeqFacts
<1> HIDE DEF n
<1>15. Mid(n, i)
  BY <1>7, <1>13, <1>14, MidOfRegs DEF Mid
<1>16. Idle(n, i)
  BY <1>4, <1>7, <1>14 DEF Idle
<1>17. QED
  BY <1>1, <1>5, <1>8, <1>14, <1>15, <1>16

LEMMA DeletedGood ==
  ASSUME NEW s \in State, NEW I \in SUBSET BindingIds,
         s.grows, RegsOK(s),
         \A k \in BindingIds : Sound(s, k),
         \A k \in BindingIds \ I : Duty(s, k)
  PROVE  DeleteBindings(s, I) \in State /\ Good(DeleteBindings(s, I))
<1> DEFINE mine == {j \in RefreshIds : s.refr[j].owner \in I}
           lost == {B(i) : i \in I} \cup {R(j) : j \in mine}
           left == [q \in RegistrarIds |-> [s.regs[q] EXCEPT !.ids = @ \ I]]
           tas == [t \in TaIds |-> IF s.ta[t] \in lost THEN Nobody
                                   ELSE s.ta[t]]
           refs == [j \in RefreshIds |-> IF j \in mine THEN NoRefresh
                                         ELSE s.refr[j]]
           binds == [i \in BindingIds |-> IF i \in I THEN NoBinding
                                          ELSE s.bind[i]]
           r == DeleteBindings(s, I)
<1>1. r = [s EXCEPT !.ta = tas, !.refr = refs,
                    !.regs = WithBindings(left), !.bind = binds]
  BY DEF DeleteBindings, State
<1>2. left \in [RegistrarIds -> AnyRegistrar]
      /\ \A q \in RegistrarIds : /\ left[q].ids = s.regs[q].ids \ I
                                 /\ left[q].target = s.regs[q].target
  <2>1. \A q \in RegistrarIds :
          LET g == [s.regs[q] EXCEPT !.ids = @ \ I]
          IN  /\ g \in AnyRegistrar
              /\ g.ids = s.regs[q].ids \ I
              /\ g.target = s.regs[q].target
    BY DEF State, AnyRegistrar
  <2>2. QED
    BY <2>1
<1>3. WithBindings(left) \in [RegistrarIds -> AnyRegistrar]
  BY <1>2, WithBindingsFacts
<1>4. tas \in [TaIds -> TaOwner]
  BY DEF State, TaOwner
<1>5. refs \in [RefreshIds -> Refresh]
  <2>1. NoRefresh \in Refresh
    BY DEF NoRefresh, Refresh
  <2>2. QED
    BY <2>1 DEF State
<1>6. binds \in [BindingIds -> Binding]
  <2>1. NoBinding \in Binding
    BY DEF NoBinding, Binding, RegistrationStates
  <2>2. QED
    BY <2>1 DEF State
<1> DEFINE regs2 == WithBindings(left)
<1> HIDE DEF mine, r, regs2
<1>7. /\ \A t \in TaIds : tas[t] = IF s.ta[t] \in lost THEN Nobody
                                   ELSE s.ta[t]
      /\ \A j \in RefreshIds : refs[j] = IF j \in mine THEN NoRefresh
                                         ELSE s.refr[j]
      /\ \A k \in BindingIds : binds[k] = IF k \in I THEN NoBinding
                                          ELSE s.bind[k]
  OBVIOUS
<1> HIDE DEF tas, refs, binds
<1>8. /\ r \in State /\ r.ta = tas /\ r.refr = refs /\ r.bind = binds
      /\ r.regs = regs2 /\ r.grows = s.grows
  BY <1>1, <1>3, <1>4, <1>5, <1>6 DEF State, regs2
<1>9. RegsOK(r)
  <2>1. \A k \in I : r.bind[k].reg = 0
    BY <1>7, <1>8 DEF NoBinding
  <2>2. \A k \in BindingIds \ I : /\ r.bind[k].life = s.bind[k].life
                                  /\ r.bind[k].reg = s.bind[k].reg
    BY <1>7, <1>8
  <2>3. r.regs = WithBindings(left)
    BY <1>8 DEF regs2
  <2> HIDE DEF left
  <2>4. QED
    BY <1>2, <1>8, <2>1, <2>2, <2>3, RegsWithout
<1>10. 0 \notin I
  BY DEF BindingIds
<1>11. ASSUME NEW k \in I
       PROVE  Sound(r, k) /\ Duty(r, k)
  <2>1. ASSUME NEW j \in RefreshIdsOf(k)
        PROVE  /\ s.refr[j] # NoRefresh => j \in mine
               /\ r.refr[j] = NoRefresh
    <3>1. j \in RefreshIds
      BY IdsApart
    <3>2. s.refr[j] # NoRefresh => j \in mine
      BY <3>1 DEF Sound, RefreshSound, mine
    <3>3. QED
      BY <1>7, <1>8, <3>1, <3>2
  <2>2. ASSUME NEW t \in TaIdsOf(k)
        PROVE  r.ta[t] = Nobody
    <3>1. t \in TaIds
      BY IdsApart
    <3>2. \/ s.ta[t] = Nobody \/ s.ta[t] = B(k)
          \/ \E j \in RefreshIdsOf(k) : s.ta[t] = R(j) /\ j \in mine
      BY <2>1 DEF Sound, TaSound, NoRefresh
    <3>3. s.ta[t] = Nobody \/ s.ta[t] \in lost
      BY <3>2
    <3>4. QED
      BY <1>7, <1>8, <3>1, <3>3
  <2>3. r.bind[k] = NoBinding
    BY <1>7, <1>8
  <2>4. BindingSound(r, k)
    BY <2>3 DEF BindingSound, NoBinding
  <2>5. RefreshSound(r, k)
    BY <2>1 DEF RefreshSound
  <2>6. TaSound(r, k)
    BY <2>2 DEF TaSound
  <2>7. Duty(r, k)
    BY <2>1, <2>2, <2>3, OwnersApart DEF Duty, NoBinding
  <2>8. QED
    BY <2>4, <2>5, <2>6, <2>7 DEF Sound
<1>12. ASSUME NEW k \in BindingIds \ I
       PROVE  Sound(r, k) /\ Duty(r, k)
  <2>1. ASSUME NEW j \in RefreshIdsOf(k)
        PROVE  j \notin mine /\ r.refr[j] = s.refr[j]
    <3>1. j \in RefreshIds
      BY IdsApart
    <3>2. s.refr[j].owner = 0 \/ s.refr[j].owner = k
      BY DEF Sound, RefreshSound, NoRefresh
    <3>3. QED
      BY <1>7, <1>8, <1>10, <3>1, <3>2 DEF mine
  <2>2. ASSUME NEW t \in TaIdsOf(k)
        PROVE  r.ta[t] = s.ta[t]
    <3>1. t \in TaIds
      BY IdsApart
    <3>2. \/ s.ta[t] = Nobody \/ s.ta[t] = B(k)
          \/ \E j \in RefreshIdsOf(k) : s.ta[t] = R(j)
      BY DEF Sound, TaSound
    <3>3. s.ta[t] \notin lost
      BY <2>1, <3>2, OwnersApart
    <3>4. QED
      BY <1>7, <1>8, <3>1, <3>3
  <2>3. r.bind[k] = s.bind[k]
    BY <1>7, <1>8
  <2>4. LocalSame(s, r, k)
    BY <2>1, <2>2, <2>3 DEF LocalSame
  <2>5. QED
    BY <1>8, <2>4, SoundOfSame, DutyOfSame
<1>13. \A k \in BindingIds : Sound(r, k) /\ Duty(r, k)
  BY <1>11, <1>12
<1>14. QED
  BY <1>8, <1>9, <1>13 DEF Good, r

(* Good bindings, all of them or all but one that goes.                    *)
LEMMA DeletedOfGood ==
  ASSUME NEW s \in State, Good(s), NEW I \in SUBSET BindingIds
  PROVE  DeleteBindings(s, I) \in State /\ Good(DeleteBindings(s, I))
  BY DeletedGood DEF Good

LEMMA DeletedOfMid ==
  ASSUME NEW i \in BindingIds, NEW s \in State, Mid(s, i)
  PROVE  DeleteBindings(s, {i}) \in State /\ Good(DeleteBindings(s, {i}))
<1>1. {i} \in SUBSET BindingIds
  OBVIOUS
<1>2. QED
  BY <1>1, DeletedGood DEF Mid

-----------------------------------------------------------------------------
(* From states to steps.                                                   *)

LEMMA KnownIs ==
  ASSUME NEW i \in BindingIds, NEW s \in State, NEW t \in TaIds \cup {0}
  PROVE  /\ Known(s, i, t) \in {t, 0}
         /\ t # 0 /\ s.ta[t] # Nobody => Known(s, i, t) = t
  BY DEF Known

(* What Become forgets means nothing to the binding.                       *)
Forgets(s, r) ==
    /\ r.refr = s.refr /\ r.ta = s.ta /\ r.regs = s.regs
    /\ r.grows = s.grows
    /\ \A k \in BindingIds :
         r.bind[k] = [s.bind[k] EXCEPT !.ta = Known(s, k, @),
                                       !.retry = Known(s, k, @)]

LEMMA ForgetsGood ==
  ASSUME NEW s \in State, Good(s), NEW r \in State, Forgets(s, r)
  PROVE  Good(r)
<1>1. ASSUME NEW k \in BindingIds
      PROVE  /\ r.bind[k].life = s.bind[k].life
             /\ r.bind[k].st = s.bind[k].st
             /\ r.bind[k].contact = s.bind[k].contact
             /\ r.bind[k].refreshing = s.bind[k].refreshing
             /\ r.bind[k].reg = s.bind[k].reg
             /\ r.bind[k].refresh = s.bind[k].refresh
             /\ r.bind[k].timer = s.bind[k].timer
             /\ r.bind[k].zero = s.bind[k].zero
             /\ r.bind[k].ends = s.bind[k].ends
             /\ r.bind[k].flow = s.bind[k].flow
             /\ r.bind[k].ta = Known(s, k, s.bind[k].ta)
             /\ r.bind[k].retry = Known(s, k, s.bind[k].retry)
  <2>1. s.bind[k] \in Binding
    BY DEF State
  <2> DEFINE a == Known(s, k, s.bind[k].ta)
             b == Known(s, k, s.bind[k].retry)
  <2>2. r.bind[k] = [s.bind[k] EXCEPT !.ta = a, !.retry = b]
    BY DEF Forgets
  <2> HIDE DEF a, b
  <2>3. QED
    BY <2>1, <2>2 DEF Binding, a, b
<1>2. /\ r.refr = s.refr /\ r.ta = s.ta /\ r.regs = s.regs
      /\ r.grows = s.grows
  BY DEF Forgets
<1>3. RegsOK(r)
  BY <1>1, <1>2, RegsOfSame DEF Good
<1>4. ASSUME NEW k \in BindingIds
      PROVE  Sound(r, k) /\ Duty(r, k)
  <2>1. Sound(s, k) /\ Duty(s, k)
    BY DEF Good
  <2>2. /\ s.bind[k].ta \in TaIdsOf(k) \cup {0}
        /\ s.bind[k].retry \in TaIdsOf(k) \cup {0}
        /\ TaIdsOf(k) \subseteq TaIds /\ 0 \notin TaIds
    BY <2>1, IdsApart DEF Sound, BindingSound
  <2>3. /\ r.bind[k].ta \in {s.bind[k].ta, 0}
        /\ r.bind[k].retry \in {s.bind[k].retry, 0}
        /\ \A t \in TaIdsOf(k) : s.ta[t] # Nobody =>
             /\ t = s.bind[k].ta => r.bind[k].ta = t
             /\ t = s.bind[k].retry => r.bind[k].retry = t
    BY <1>1, <2>2, KnownIs
  <2>4. s.bind[k].life = "none" => r.bind[k] = NoBinding
    <3> SUFFICES ASSUME s.bind[k].life = "none"
                 PROVE  r.bind[k] = NoBinding
      OBVIOUS
    <3>1. s.bind[k] = NoBinding
      BY <2>1 DEF Sound, BindingSound
    <3>2. s.bind[k].ta = 0 /\ s.bind[k].retry = 0
      BY <3>1 DEF NoBinding
    <3>3. r.bind[k].ta = s.bind[k].ta /\ r.bind[k].retry = s.bind[k].retry
      BY <2>3, <3>2
    <3>4. r.bind[k] \in Binding /\ s.bind[k] \in Binding
      BY DEF State
    <3>5. r.bind[k] = s.bind[k]
      BY <1>1, <3>3, <3>4 DEF Binding
    <3>6. QED
      BY <3>1, <3>5
  <2>5. BindingSound(r, k)
    BY <1>1, <2>1, <2>2, <2>3, <2>4 DEF Sound, BindingSound
  <2>6. RefreshSound(r, k)
    BY <1>1, <1>2, <2>1 DEF Sound, RefreshSound
  <2>7. TaSound(r, k)
    <3> SUFFICES ASSUME NEW t \in TaIdsOf(k), s.ta[t] = B(k)
                 PROVE  /\ ~r.bind[k].refreshing
                        /\ r.bind[k].life # "none"
                        /\ r.bind[k].life = "stored" =>
                             t \in {r.bind[k].ta, r.bind[k].retry}
      BY <1>2, <2>1 DEF Sound, TaSound
    <3>1. /\ ~s.bind[k].refreshing /\ s.bind[k].life # "none"
          /\ s.bind[k].life = "stored" =>
               t \in {s.bind[k].ta, s.bind[k].retry}
      BY <2>1, OwnersApart DEF Sound, TaSound
    <3>2. s.ta[t] # Nobody
      BY OwnersApart
    <3>3. QED
      BY <1>1, <2>3, <3>1, <3>2
  <2>8. HasRefresh(r, k) <=> HasRefresh(s, k)
    BY <1>1, <1>2 DEF HasRefresh
  <2>9. Kept(s, k) => Kept(r, k)
    BY <1>1, <1>2, <2>8 DEF Kept
  <2>10. Waits(s, k) => Waits(r, k)
    <3> SUFFICES ASSUME Waits(s, k)
                 PROVE  Waits(r, k)
      OBVIOUS
    <3>1. s.bind[k].ta \in TaIdsOf(k) /\ s.ta[s.bind[k].ta] # Nobody
      BY <2>2, OwnersApart DEF Waits
    <3>2. r.bind[k].ta = s.bind[k].ta
      BY <2>3, <3>1
    <3>3. QED
      BY <1>1, <1>2, <2>8, <3>2 DEF Waits
  <2>11. \A t \in TaIdsOf(k) : s.ta[t] = B(k) =>
           /\ t = s.bind[k].ta => t = r.bind[k].ta
           /\ t = s.bind[k].retry => t = r.bind[k].retry
    BY <2>3, OwnersApart
  <2>12. Duty(r, k)
    BY <1>1, <1>2, <2>1, <2>9, <2>10, <2>11 DEF Duty
  <2>13. QED
    BY <2>5, <2>6, <2>7, <2>12 DEF Sound
<1>5. QED
  BY <1>2, <1>3, <1>4 DEF Good

LEMMA BecomesGood ==
  ASSUME NEW s \in State, Good(s), NEW renewed, Becomes(s, renewed)
  PROVE  IInv'
<1> DEFINE n == [bind |-> bind', refr |-> refr', ta |-> ta', regs |-> regs',
                 grows |-> grows', left |-> FALSE]
           binds == [i \in BindingIds |->
                       [s.bind[i] EXCEPT !.ta = Known(s, i, @),
                                         !.retry = Known(s, i, @)]]
<1>1. /\ bind' = binds /\ refr' = s.refr /\ ta' = s.ta /\ regs' = s.regs
      /\ grows' = s.grows
      /\ early' = [t \in TaIds |->
                     early[t] /\ t \notin renewed /\ ta'[t] = ta[t]]
  BY DEF Becomes
<1>2. \A k \in BindingIds : binds[k] \in Binding
  <2> SUFFICES ASSUME NEW k \in BindingIds
               PROVE  binds[k] \in Binding
    OBVIOUS
  <2>1. s.bind[k] \in Binding
    BY DEF State
  <2>2. /\ Known(s, k, s.bind[k].ta) \in TaIds \cup {0}
        /\ Known(s, k, s.bind[k].retry) \in TaIds \cup {0}
    BY <2>1, KnownIs DEF Binding
  <2>3. QED
    BY <2>1, <2>2 DEF Binding
<1>3. binds \in [BindingIds -> Binding]
  BY <1>2
<1>4. \A k \in BindingIds :
        binds[k] = [s.bind[k] EXCEPT !.ta = Known(s, k, @),
                                     !.retry = Known(s, k, @)]
  OBVIOUS
<1> HIDE DEF binds
<1>5. /\ n.bind = binds /\ n.refr = s.refr /\ n.ta = s.ta /\ n.regs = s.regs
      /\ n.grows = s.grows
  BY <1>1
<1>6. n \in State
  BY <1>1, <1>3 DEF State
<1>7. Forgets(s, n)
  BY <1>4, <1>5 DEF Forgets
<1> HIDE DEF n
<1>8. Good(n)
  BY <1>6, <1>7, ForgetsGood
<1>9. early' \in [TaIds -> BOOLEAN]
  BY <1>1
<1>10. QED
  BY <1>8, <1>9 DEF IInv, Here, n

LEMMA BecomeGood ==
  ASSUME NEW s \in State, Good(s), Become(s)
  PROVE  IInv'
  BY BecomesGood DEF Become

LEMMA HereFacts ==
  ASSUME IInv
  PROVE  /\ Here \in State /\ Good(Here) /\ ~Here.left
         /\ Here.bind = bind /\ Here.refr = refr /\ Here.ta = ta
         /\ Here.regs = regs /\ Here.grows = grows
  BY DEF IInv, Good, Here

-----------------------------------------------------------------------------
(* A binding that changes no more than its own state, timer and history.   *)

WithBinding(s, i, b) == [s EXCEPT !.bind = [s.bind EXCEPT ![i] = b]]

KeepsIds(b, old) ==
    /\ b.life = old.life
    /\ b.life # "none"
    /\ b.contact = old.contact
    /\ b.refreshing = old.refreshing
    /\ b.reg = old.reg
    /\ b.ta = old.ta
    /\ b.retry = old.retry
    /\ b.refresh = old.refresh
    /\ b.timer => ~b.refreshing
    /\ ~b.flow => ~old.flow /\ b.ends = old.ends

LEMMA BindMid ==
  ASSUME NEW i \in BindingIds, NEW s \in State, Mid(s, i), NEW b \in Binding,
         KeepsIds(b, s.bind[i])
  PROVE  /\ WithBinding(s, i, b) \in State /\ Mid(WithBinding(s, i, b), i)
         /\ WithBinding(s, i, b).bind[i] = b
         /\ WithBinding(s, i, b).refr = s.refr
         /\ WithBinding(s, i, b).ta = s.ta
         /\ WithBinding(s, i, b).regs = s.regs
         /\ WithBinding(s, i, b).left = s.left
<1> DEFINE r == WithBinding(s, i, b)
<1>1. [s.bind EXCEPT ![i] = b] \in [BindingIds -> Binding]
  BY DEF State
<1>2. /\ r \in State /\ r.bind = [s.bind EXCEPT ![i] = b]
      /\ r.refr = s.refr /\ r.ta = s.ta /\ r.regs = s.regs
      /\ r.grows = s.grows /\ r.left = s.left
  BY <1>1 DEF WithBinding, State
<1> HIDE DEF r
<1>3. /\ r.bind[i] = b
      /\ \A k \in BindingIds : k # i => r.bind[k] = s.bind[k]
  BY <1>2 DEF State
<1>4. \A k \in BindingIds : /\ r.bind[k].life = s.bind[k].life
                            /\ r.bind[k].reg = s.bind[k].reg
  BY <1>3 DEF KeepsIds
<1>5. RegsOK(r)
  BY <1>2, <1>4, RegsOfSame DEF Mid
<1>6. BindingSound(r, i)
  BY <1>3 DEF KeepsIds, Mid, Sound, BindingSound
<1>7. Mid(r, i)
  BY <1>2, <1>3, <1>5, <1>6, MidOfBind DEF KeepsIds, Mid
<1>8. QED
  BY <1>2, <1>3, <1>7 DEF r

-----------------------------------------------------------------------------
(* The API keeps the invariant.                                            *)

LEMMA DeletedKept ==
  ASSUME IInv, NEW I \in SUBSET BindingIds, Become(DeleteBindings(Here, I))
  PROVE  IInv'
<1>1. Here \in State /\ Good(Here)
  BY HereFacts
<1>2. DeleteBindings(Here, I) \in State /\ Good(DeleteBindings(Here, I))
  BY <1>1, DeletedOfGood
<1>3. QED
  BY <1>2, BecomeGood

LEMMA SentOrNot ==
  ASSUME NEW fault, NEW sent \in MaySucceed(fault)
  PROVE  sent \in BOOLEAN
  BY DEF MaySucceed

LEMMA RegisterKept ==
  ASSUME IInv, NEW c \in Contacts, NEW refreshing \in BOOLEAN,
         RegisterL(c, refreshing)
  PROVE  IInv'
<1> DEFINE free == {k \in BindingIds : bind[k].life = "none"}
           i == Least(free)
           n == Constructed(Here, i, c, refreshing)
<1>1. Here \in State /\ Good(Here) /\ Here.bind = bind
  BY HereFacts
<1>2. PICK sent \in MaySucceed("send") :
        Become(IF sent THEN DoRegisterL(n, i) ELSE DeleteBindings(n, {i}))
  BY DEF RegisterL
<1>3. i \in BindingIds /\ Here.bind[i].life = "none"
  <2>1. free \in SUBSET Nat /\ free # {}
    BY RegistrationAssumption DEF RegisterL, BindingIds
  <2>2. Least(free) \in free
    BY <2>1, LeastIn
  <2>3. QED
    BY <1>1, <2>2
<1> HIDE DEF i
<1>4. /\ n \in State /\ Mid(n, i) /\ Idle(n, i) /\ Ahead(n, i)
      /\ n.bind[i].life = "stored" /\ ~n.bind[i].zero
      /\ n.bind[i].st = "registering"
  BY <1>1, <1>3, ConstructedMid
<1> HIDE DEF n
<1>5. DoRegisterL(n, i) \in State /\ Good(DoRegisterL(n, i))
  BY <1>3, <1>4, DoRegisterGood
<1>6. DeleteBindings(n, {i}) \in State /\ Good(DeleteBindings(n, {i}))
  BY <1>3, <1>4, DeletedOfMid
<1>7. CASE sent
  BY <1>2, <1>5, <1>7, BecomeGood
<1>8. CASE ~sent
  BY <1>2, <1>6, <1>8, BecomeGood
<1>9. QED
  BY <1>7, <1>8

(* UpdateRegistrationL and UnRegisterL, which differ in the binding b.     *)
LEMMA SendAgainKept ==
  ASSUME IInv, NEW i \in BindingIds, bind[i].life = "stored",
         NEW b \in Binding, KeepsIds(b, bind[i]),
         \/ b.st = "updating" /\ b.zero = bind[i].zero
         \/ b.st = "unregistering" /\ b.zero,
         NEW sent \in BOOLEAN,
         LET next == WithBinding(NextCSeq(Here, i), i, b)
         IN  Become(IF MaySendAgain(i) /\ sent THEN SendAgainL(next, i)
                    ELSE DeleteBindings(next, {i}))
  PROVE  IInv'
<1> DEFINE n == NextCSeq(Here, i)
           r == WithBinding(n, i, b)
<1>1. Here \in State /\ Good(Here) /\ Here.bind = bind
  BY HereFacts
<1>2. Mid(Here, i) /\ Duty(Here, i)
  BY <1>1, MidOfGood
<1>3. /\ n \in State /\ RegsOK(n) /\ n.bind = Here.bind
      /\ n.refr = Here.refr /\ n.ta = Here.ta /\ n.grows = Here.grows
      /\ Ahead(n, i)
  BY <1>1, <1>2, NextCSeqFacts DEF Mid
<1>4. Become(IF MaySendAgain(i) /\ sent THEN SendAgainL(r, i)
             ELSE DeleteBindings(r, {i}))
  OBVIOUS
<1> HIDE DEF n
<1>5. Mid(n, i)
  BY <1>1, <1>2, <1>3, MidOfRegs DEF Mid
<1>6. /\ r \in State /\ Mid(r, i) /\ r.bind[i] = b
      /\ r.refr = Here.refr /\ r.ta = Here.ta /\ r.regs = n.regs
  BY <1>1, <1>3, <1>5, BindMid
<1> HIDE DEF r
<1>7. CASE ~(MaySendAgain(i) /\ sent)
  <2>1. DeleteBindings(r, {i}) \in State /\ Good(DeleteBindings(r, {i}))
    BY <1>6, DeletedOfMid
  <2>2. QED
    BY <1>4, <1>7, <2>1, BecomeGood
<1>8. CASE MaySendAgain(i) /\ sent
  <2>1. /\ bind[i].st = "registered"
        /\ bind[i].refreshing => FindRefresh(Here, i) # {}
    BY <1>8 DEF MaySendAgain
  <2>2. /\ bind[i].reg # 0 /\ ~bind[i].zero
        /\ \A t \in TaIdsOf(i) : Here.ta[t] # B(i)
    BY <1>1, <1>2, <2>1 DEF Duty
  <2>3. SendsAgain(r, i)
    <3>1. Ahead(r, i)
      BY <1>1, <1>3, <1>6 DEF Ahead, KeepsIds
    <3>2. r.bind[i].life = "stored" /\ r.bind[i].reg # 0
      BY <1>6, <2>2 DEF KeepsIds
    <3>3. \/ r.bind[i].st = "updating" /\ ~r.bind[i].zero
          \/ r.bind[i].st = "unregistering" /\ r.bind[i].zero
      BY <1>6, <2>2
    <3>4. QED
      BY <1>6, <3>1, <3>2, <3>3 DEF SendsAgain
  <2>4. r.bind[i].refreshing => FindRefresh(r, i) # {}
    BY <1>1, <1>6, <2>1 DEF FindRefresh, KeepsIds
  <2>5. ~r.bind[i].refreshing => Idle(r, i)
    <3>1. ~Here.bind[i].refreshing => Idle(Here, i)
      BY <1>1, <1>2, <2>2, OwnTransactions DEF Idle
    <3>2. QED
      BY <1>1, <1>6, <3>1 DEF Idle, KeepsIds
  <2>6. SendAgainL(r, i) \in State /\ Good(SendAgainL(r, i))
    BY <1>6, <2>3, <2>4, <2>5, SendAgainGood
  <2>7. QED
    BY <1>4, <1>8, <2>6, BecomeGood
<1>9. QED
  BY <1>7, <1>8

LEMMA UpdateKept ==
  ASSUME IInv, NEW i \in BindingIds, UpdateRegistrationL(i)
  PROVE  IInv'
<1> DEFINE n == NextCSeq(Here, i)
           b == [bind[i] EXCEPT !.st = "updating"]
<1>1. Here \in State /\ Good(Here) /\ Here.bind = bind
  BY HereFacts
<1>2. n \in State /\ n.bind = bind
  BY <1>1, NextCSeqFacts DEF Good
<1>3. bind[i].life = "stored" /\ bind[i] \in Binding
  BY <1>1 DEF UpdateRegistrationL, Stored, State
<1>4. b \in Binding /\ KeepsIds(b, bind[i])
  BY <1>1, <1>3 DEF Binding, RegistrationStates, KeepsIds, Good, Sound,
                    BindingSound
<1>5. b.st = "updating" /\ b.zero = bind[i].zero
  BY <1>3 DEF Binding
<1>6. PICK sent \in MaySucceed("send") :
        LET next == [n EXCEPT !.bind[i].st = "updating"]
        IN  Become(IF MaySendAgain(i) /\ sent THEN SendAgainL(next, i)
                   ELSE DeleteBindings(next, {i}))
  BY DEF UpdateRegistrationL
<1> HIDE DEF n
<1>7. [n EXCEPT !.bind[i].st = "updating"] = WithBinding(n, i, b)
  BY <1>2 DEF WithBinding, State
<1>8. sent \in BOOLEAN
  BY SentOrNot
<1>9. LET next == WithBinding(n, i, b)
      IN  Become(IF MaySendAgain(i) /\ sent THEN SendAgainL(next, i)
                 ELSE DeleteBindings(next, {i}))
  BY <1>6, <1>7
<1> HIDE DEF b
<1>10. QED
  BY <1>3, <1>4, <1>5, <1>8, <1>9, SendAgainKept DEF n

LEMMA UnRegisterKept ==
  ASSUME IInv, NEW i \in BindingIds, UnRegisterL(i)
  PROVE  IInv'
<1> DEFINE n == NextCSeq(Here, i)
           on == TRUE
           b == [bind[i] EXCEPT !.st = "unregistering", !.zero = on]
<1>1. Here \in State /\ Good(Here) /\ Here.bind = bind
  BY HereFacts
<1>2. n \in State /\ n.bind = bind
  BY <1>1, NextCSeqFacts DEF Good
<1>3. bind[i].life = "stored" /\ bind[i] \in Binding
  BY <1>1 DEF UnRegisterL, Stored, State
<1>4. PICK sent \in MaySucceed("send") :
        LET next == [n EXCEPT !.bind[i].st = "unregistering",
                              !.bind[i].zero = on]
        IN  Become(IF MaySendAgain(i) /\ sent THEN SendAgainL(next, i)
                   ELSE DeleteBindings(next, {i}))
  BY DEF UnRegisterL
<1>5. on \in BOOLEAN /\ on
  OBVIOUS
<1> HIDE DEF n, on
<1>6. b \in Binding /\ KeepsIds(b, bind[i])
  BY <1>1, <1>3, <1>5 DEF Binding, RegistrationStates, KeepsIds, Good, Sound,
                          BindingSound
<1>7. b.st = "unregistering" /\ b.zero
  BY <1>3, <1>5 DEF Binding
<1>8. [n EXCEPT !.bind[i].st = "unregistering", !.bind[i].zero = on] =
        WithBinding(n, i, b)
  <2>1. [n.bind EXCEPT ![i].st = "unregistering", ![i].zero = on] =
          [n.bind EXCEPT ![i] = b]
    BY <1>2, <1>3 DEF State
  <2>2. [n EXCEPT !.bind[i].st = "unregistering", !.bind[i].zero = on] =
          [n EXCEPT !.bind = [n.bind EXCEPT ![i].st = "unregistering",
                                            ![i].zero = on]]
    BY <1>2 DEF State
  <2>3. QED
    BY <2>1, <2>2 DEF WithBinding
<1>9. sent \in BOOLEAN
  BY SentOrNot
<1>10. LET next == WithBinding(n, i, b)
       IN  Become(IF MaySendAgain(i) /\ sent THEN SendAgainL(next, i)
                  ELSE DeleteBindings(next, {i}))
  BY <1>4, <1>8
<1> HIDE DEF b
<1>11. QED
  BY <1>3, <1>6, <1>7, <1>9, <1>10, SendAgainKept DEF n

LEMMA ApiKept ==
  ASSUME IInv, Api
  PROVE  IInv'
<1>1. ASSUME NEW i \in BindingIds, TerminateRegistration(i)
      PROVE  IInv'
  <2>1. {i} \in SUBSET BindingIds
    OBVIOUS
  <2>2. QED
    BY <1>1, <2>1, DeletedKept DEF TerminateRegistration
<1>2. ASSUME NEW o, ClearRegistrationOwner(o)
      PROVE  IInv'
  <2> DEFINE his == {i \in Stored(Here) : Owner[bind[i].contact] = o}
  <2>1. his \in SUBSET BindingIds
    BY DEF Stored
  <2>2. Become(DeleteBindings(Here, his))
    BY <1>2 DEF ClearRegistrationOwner
  <2> HIDE DEF his
  <2>3. QED
    BY <2>1, <2>2, DeletedKept
<1>3. QED
  BY <1>1, <1>2, RegisterKept, UpdateKept, UnRegisterKept DEF Api

-----------------------------------------------------------------------------
(* Transactions that report keep the invariant.                            *)

LEMMA OwnTa ==
  ASSUME NEW s \in State, Good(s), NEW i \in BindingIds, NEW t \in TaIds,
         s.ta[t] = B(i)
  PROVE  t \in TaIdsOf(i) /\ ~s.bind[i].refreshing
         /\ s.bind[i].life # "none"
<1>1. PICK k \in BindingIds : t \in TaIdsOf(k)
  BY IdsCovered
<1>2. s.ta[t] = B(k) /\ ~s.bind[k].refreshing /\ s.bind[k].life # "none"
  BY <1>1, OwnersApart DEF Good, Sound, TaSound
<1>3. k = i
  BY <1>2, OwnersApart
<1>4. QED
  BY <1>1, <1>2, <1>3

LEMMA BindingAnsweredKept ==
  ASSUME IInv, NEW t \in TaIds, BindingAnswered(t)
  PROVE  IInv'
<1>1. Here \in State /\ Good(Here) /\ ~Here.left /\ Here.ta = ta
  BY HereFacts
<1>2. PICK i \in Stored(Here) :
        /\ ta[t] = B(i)
        /\ \E d \in Deliveries : Become(BindingReceiveL(Here, i, t, d))
  BY DEF BindingAnswered
<1>3. PICK d \in Deliveries : Become(BindingReceiveL(Here, i, t, d))
  BY <1>2
<1>4. i \in BindingIds /\ Here.bind[i].life = "stored"
  BY DEF Stored
<1>5. t \in TaIdsOf(i)
  BY <1>1, <1>2, <1>4, OwnTa
<1>6. /\ BindingReceiveL(Here, i, t, d) \in State
      /\ Good(BindingReceiveL(Here, i, t, d))
  BY <1>1, <1>2, <1>4, <1>5, BindingReceiveGood
<1>7. QED
  BY <1>3, <1>6, BecomeGood

LEMMA BindingTransactionEndedKept ==
  ASSUME IInv, NEW t \in TaIds, BindingTransactionEnded(t)
  PROVE  IInv'
<1>1. Here \in State /\ Good(Here) /\ Here.ta = ta
  BY HereFacts
<1>2. PICK i \in BindingIds :
        ta[t] = B(i) /\ Become(ClearTa(BindingEnded(Here, i, t), t))
  BY DEF BindingTransactionEnded
<1>3. Mid(Here, i) /\ Duty(Here, i)
  BY <1>1, MidOfGood
<1>4. t \in TaIdsOf(i) /\ ~Here.bind[i].refreshing
  BY <1>1, <1>2, OwnTa
<1>5. Here.bind[i].st \in RegistrationStates
  BY <1>1 DEF State, Binding
<1>6. Here.bind[i].life = "stored" /\ t # Here.bind[i].ta =>
        /\ Here.bind[i].st \in {"retrying", "unregistered"}
        /\ Here.bind[i].st = "retrying" =>
             /\ ~Here.bind[i].zero
             /\ \A u \in TaIdsOf(i) :
                  Here.ta[u] = B(i) => u \in {t, Here.bind[i].retry}
  BY <1>1, <1>2, <1>3, <1>4, <1>5 DEF Duty, RegistrationStates
<1>7. /\ ClearTa(BindingEnded(Here, i, t), t) \in State
      /\ Good(ClearTa(BindingEnded(Here, i, t), t))
  BY <1>1, <1>3, <1>4, <1>6, BindingEndedGood
<1>8. QED
  BY <1>2, <1>7, BecomeGood

LEMMA RefreshAnsweredKept ==
  ASSUME IInv, NEW t \in TaIds, RefreshAnswered(t)
  PROVE  IInv'
<1>1. Here \in State /\ Good(Here) /\ ~Here.left /\ Here.ta = ta
  BY HereFacts
<1>2. PICK j \in RefreshIds :
        /\ ta[t] = R(j)
        /\ \E d \in Deliveries :
             Become(IF d.response \in {"ok", "rejected"}
                    THEN Received200ClassResponseL(Here, j, t, d)
                    ELSE ReceivedErrorResponseL(Here, j, t, d))
  BY DEF RefreshAnswered
<1>3. PICK d \in Deliveries :
        Become(IF d.response \in {"ok", "rejected"}
               THEN Received200ClassResponseL(Here, j, t, d)
               ELSE ReceivedErrorResponseL(Here, j, t, d))
  BY <1>2
<1>4. PICK i \in BindingIds : /\ j \in RefreshIdsOf(i) /\ t \in TaIdsOf(i)
                              /\ Reports(Here, i, j, t)
  BY <1>1, <1>2, RefreshReports
<1>5. CASE d.response \in {"ok", "rejected"}
  <2>1. /\ Received200ClassResponseL(Here, j, t, d) \in State
        /\ Good(Received200ClassResponseL(Here, j, t, d))
    BY <1>1, <1>4, <1>5, Received200Good
  <2>2. QED
    BY <1>3, <1>5, <2>1, BecomeGood
<1>6. CASE d.response \notin {"ok", "rejected"}
  <2>1. /\ ReceivedErrorResponseL(Here, j, t, d) \in State
        /\ Good(ReceivedErrorResponseL(Here, j, t, d))
    BY <1>1, <1>4, <1>6, ReceivedErrorGood
  <2>2. QED
    BY <1>3, <1>6, <2>1, BecomeGood
<1>7. QED
  BY <1>5, <1>6

LEMMA RefreshTransactionEndedKept ==
  ASSUME IInv, NEW t \in TaIds, RefreshTransactionEnded(t)
  PROVE  IInv'
<1>1. Here \in State /\ Good(Here) /\ Here.ta = ta
  BY HereFacts
<1>2. PICK j \in RefreshIds : ta[t] = R(j) /\ Become(RefreshEnded(Here, j, t))
  BY DEF RefreshTransactionEnded
<1>3. PICK i \in BindingIds : /\ j \in RefreshIdsOf(i) /\ t \in TaIdsOf(i)
                              /\ Reports(Here, i, j, t)
  BY <1>1, <1>2, RefreshReports
<1>4. Mid(Here, i) /\ Duty(Here, i)
  BY <1>1, MidOfGood
<1>5. Here.bind[i].st \in RegistrationStates
  BY <1>1 DEF State, Binding
<1>6. ~RefreshErrorKnown(Here, i, t) =>
        /\ Here.bind[i].st \in {"retrying", "unregistered"}
        /\ Here.bind[i].st = "retrying" => ~Here.bind[i].zero
  BY <1>3, <1>4, <1>5 DEF RefreshErrorKnown, Reports, Duty,
                          RegistrationStates
<1>7. Here.refr[j].life = "stored" /\ Here.bind[i].life = "stored"
  BY <1>3 DEF Reports
<1>8. RefreshEnded(Here, j, t) \in State /\ Good(RefreshEnded(Here, j, t))
  BY <1>1, <1>3, <1>4, <1>6, <1>7, RefreshEndedGood
<1>9. QED
  BY <1>2, <1>8, BecomeGood

LEMMA ChallengeAnsweredKept ==
  ASSUME IInv, NEW t \in TaIds, ChallengeAnswered(t)
  PROVE  IInv'
<1>1. Here \in State /\ Good(Here)
  BY HereFacts
<1>2. PICK i \in BindingIds : Becomes(Numbered(NextCSeq(Here, i), i), {t})
  BY DEF ChallengeAnswered, Stored
<1> DEFINE n == NextCSeq(Here, i)
           r == Numbered(n, i)
<1>3. Mid(Here, i) /\ Duty(Here, i)
  BY <1>1, MidOfGood
<1>4. /\ n \in State /\ RegsOK(n) /\ Ahead(n, i) /\ n.grows
      /\ n.bind = Here.bind /\ n.refr = Here.refr /\ n.ta = Here.ta
  BY <1>1, <1>3, NextCSeqFacts DEF Mid
<1> HIDE DEF n
<1>5. /\ r \in State /\ RegsOK(r) /\ r.grows
      /\ r.bind = n.bind /\ r.refr = n.refr /\ r.ta = n.ta
  BY <1>4, NumberedFacts
<1> HIDE DEF r
<1>6. Mid(r, i) /\ Duty(r, i)
  BY <1>1, <1>3, <1>4, <1>5, MidOfRegs
<1>7. Good(r)
  BY <1>5, <1>6, GoodOf
<1>8. QED
  BY <1>2, <1>5, <1>7, BecomesGood DEF n, r

LEMMA EarlyProvisionalKept ==
  ASSUME IInv, NEW t \in TaIds, EarlyProvisional(t)
  PROVE  IInv'
<1>1. Here' = Here
  BY DEF EarlyProvisional, Here
<1>2. early' \in [TaIds -> BOOLEAN]
  BY DEF EarlyProvisional, IInv
<1>3. QED
  BY <1>1, <1>2 DEF IInv

-----------------------------------------------------------------------------
(* Timers keep the invariant.                                              *)

LEMMA NumberedGood ==
  ASSUME NEW i \in BindingIds, NEW s \in State, Good(s), Ahead(s, i)
  PROVE  Numbered(s, i) \in State /\ Good(Numbered(s, i))
<1> DEFINE r == Numbered(s, i)
<1>1. Mid(s, i) /\ Duty(s, i)
  BY MidOfGood
<1>2. /\ r \in State /\ RegsOK(r) /\ r.grows
      /\ r.bind = s.bind /\ r.refr = s.refr /\ r.ta = s.ta
  BY <1>1, NumberedFacts DEF Mid
<1> HIDE DEF r
<1>3. Mid(r, i) /\ Duty(r, i)
  BY <1>1, <1>2, MidOfRegs
<1>4. QED
  BY <1>2, <1>3, GoodOf DEF r

LEMMA TimerExpiredKept ==
  ASSUME IInv, NEW i \in BindingIds, TimerExpiredL(i)
  PROVE  IInv'
<1> DEFINE off == FALSE
           b == [bind[i] EXCEPT !.timer = off]
           s == [Here EXCEPT !.bind[i].timer = off]
           w == WithBinding(Here, i, b)
<1>1. Here \in State /\ Good(Here) /\ Here.bind = bind
  BY HereFacts
<1>2. Mid(Here, i) /\ Duty(Here, i)
  BY <1>1, MidOfGood
<1>3. /\ bind[i] \in Binding /\ bind[i].life = "stored" /\ bind[i].timer
      /\ ~bind[i].refreshing
  BY <1>1, <1>2 DEF TimerExpiredL, Stored, State, Mid, Sound, BindingSound
<1>4. Become(IF bind[i].st \in Pending THEN s
             ELSE RemoveBinding(ClearTa(s, bind[i].ta), i))
  BY DEF TimerExpiredL
<1>5. off \in BOOLEAN /\ ~off
  OBVIOUS
<1> HIDE DEF off
<1>6. s = w
  BY <1>1 DEF WithBinding, State
<1>7. /\ b \in Binding /\ KeepsIds(b, bind[i])
      /\ b.st = bind[i].st /\ b.zero = bind[i].zero
  BY <1>3, <1>5 DEF Binding, KeepsIds
<1> HIDE DEF b, s
<1>8. /\ w \in State /\ Mid(w, i) /\ w.bind[i] = b
      /\ w.refr = Here.refr /\ w.ta = Here.ta
  BY <1>1, <1>2, <1>7, BindMid
<1> HIDE DEF w
<1>9. CASE bind[i].st \in Pending
  <2>1. Duty(w, i)
    BY <1>1, <1>2, <1>7, <1>8, <1>9
       DEF Duty, KeepsIds, Pending, Waits, HasRefresh
  <2>2. QED
    BY <1>4, <1>6, <1>8, <1>9, <2>1, GoodOf, BecomeGood
<1>10. CASE bind[i].st \notin Pending
  <2> DEFINE c == ClearTa(w, bind[i].ta)
             r == RemoveBinding(c, i)
  <2>1. bind[i].ta \in TaIdsOf(i) \cup {0}
    BY <1>1, <1>2 DEF Mid, Sound, BindingSound
  <2>2. /\ c \in State /\ Mid(c, i) /\ c.bind = w.bind
    BY <1>8, <2>1, ClearTaMid
  <2> HIDE DEF c
  <2>3. /\ r \in State /\ r.refr = c.refr
        /\ Mid(r, i) /\ r.bind[i].life = "dying"
    <3>1. c.bind[i].life = "stored"
      BY <1>3, <1>7, <1>8, <2>2 DEF KeepsIds
    <3>2. r \in State /\ r.refr = c.refr
      BY <2>2, <3>1, RemoveBindingMid
    <3>3. Mid(r, i) /\ r.bind[i].life = "dying"
      BY <2>2, <3>1, RemovedMid
    <3>4. QED
      BY <3>2, <3>3
  <2>4. \A j \in RefreshIdsOf(i) : c.refr[j] = NoRefresh
    BY <1>3, <1>7, <1>8, <2>2, OwnTransactions DEF KeepsIds
  <2> HIDE DEF r
  <2>5. Good(r)
    BY <2>3, <2>4, GoodOfGone
  <2>6. QED
    BY <1>4, <1>6, <1>10, <2>3, <2>5, BecomeGood DEF c, r
<1>11. QED
  BY <1>9, <1>10

(* The refresh sends its request once more.                                *)
LEMMA RefreshSentGood ==
  ASSUME NEW i \in BindingIds, NEW s \in State, NEW r \in State, Mid(s, i),
         Touches(s, r, i), RegsOK(r), r.grows, r.bind = s.bind,
         NEW t \in TaIdsOf(i), NEW j \in RefreshIdsOf(i),
         RefreshOwnsOnly(r, i, j, t),
         s.bind[i].life = "stored", s.bind[i].refreshing,
         s.bind[i].refresh = j,
         s.bind[i].st \in {"registered", "retrying", "unregistered"},
         s.bind[i].st = "registered" => s.bind[i].reg # 0,
         s.bind[i].zero => s.bind[i].st = "unregistered"
  PROVE  Good(r)
<1>1. BindingSound(r, i)
  BY DEF Mid, Sound, BindingSound
<1>2. RefreshSound(r, i)
  BY DEF RefreshOwnsOnly, RefreshSound
<1>3. TaSound(r, i)
  BY DEF RefreshOwnsOnly, TaSound
<1>4. Mid(r, i)
  BY <1>1, <1>2, <1>3, MidOf DEF Sound
<1>5. HasRefresh(r, i)
  BY DEF HasRefresh, RefreshOwnsOnly
<1>6. Kept(r, i)
  BY <1>5 DEF RefreshOwnsOnly, Kept
<1>7. \A u \in TaIdsOf(i) : r.ta[u] # B(i)
  BY OwnersApart DEF RefreshOwnsOnly
<1>8. \A u \in TaIdsOf(i), k \in RefreshIdsOf(i) :
        r.ta[u] = R(k) => ~r.refr[k].timer
  BY OwnersApart DEF RefreshOwnsOnly, NoRefresh
<1>9. Duty(r, i)
  BY <1>6, <1>7, <1>8 DEF Duty
<1>10. QED
  BY <1>4, <1>9, GoodOf

(* What is known when the timer of a refresh expires.                      *)
Expires(s, i, j) ==
    /\ s.refr[j].life = "stored"
    /\ s.refr[j].owner = i
    /\ s.refr[j].ta \in TaIdsOf(i)
    /\ \A k \in RefreshIdsOf(i) : k # j => s.refr[k] = NoRefresh
    /\ \A t \in TaIdsOf(i) : s.ta[t] = Nobody
    /\ s.bind[i].life = "stored"
    /\ s.bind[i].refreshing
    /\ s.bind[i].refresh = j
    /\ s.bind[i].st \in {"registered", "retrying", "unregistered"}
    /\ s.bind[i].st = "registered" => s.bind[i].reg # 0
    /\ s.bind[i].zero => s.bind[i].st = "unregistered"

LEMMA TimerExpires ==
  ASSUME NEW s \in State, Good(s), NEW j \in RefreshIds, s.refr[j].timer
  PROVE  \E i \in BindingIds : j \in RefreshIdsOf(i) /\ Expires(s, i, j)
<1>1. PICK i \in BindingIds : j \in RefreshIdsOf(i)
  BY IdsCovered
<1>2. Mid(s, i) /\ Duty(s, i)
  BY MidOfGood
<1>3. s.refr[j] # NoRefresh
  BY DEF NoRefresh
<1>4. /\ s.refr[j].life = "stored" /\ s.refr[j].owner = i
      /\ s.refr[j].ta \in TaIdsOf(i)
      /\ s.bind[i].refreshing /\ s.bind[i].refresh = j
      /\ \A k \in RefreshIdsOf(i) : k # j => s.refr[k] = NoRefresh
  BY <1>1, <1>2, <1>3 DEF Mid, Sound, RefreshSound
<1>5. s.bind[i].life = "stored"
  BY <1>1, <1>2, <1>3 DEF Duty
<1>6. \A t \in TaIdsOf(i) : s.ta[t] = Nobody
  BY <1>1, <1>2, <1>4 DEF Mid, Sound, TaSound, Duty, NoRefresh
<1>7. s.bind[i].st \in RegistrationStates
  BY DEF State, Binding
<1>8. s.bind[i].st \in {"registered", "retrying", "unregistered"}
  BY <1>2, <1>4, <1>5, <1>7 DEF Duty, Waits, RegistrationStates
<1>9. /\ s.bind[i].st = "registered" => s.bind[i].reg # 0
      /\ s.bind[i].zero => s.bind[i].st = "unregistered"
  BY <1>2, <1>5, <1>8 DEF Duty
<1>10. QED
  BY <1>1, <1>4, <1>5, <1>6, <1>8, <1>9 DEF Expires

TimerOff(s, j) == [s EXCEPT !.refr[j].timer = FALSE]

LEMMA TimerOffMid ==
  ASSUME NEW i \in BindingIds, NEW s \in State, Mid(s, i),
         NEW j \in RefreshIdsOf(i), s.refr[j].life = "stored"
  PROVE  /\ TimerOff(s, j) \in State /\ Mid(TimerOff(s, j), i)
         /\ TimerOff(s, j).bind = s.bind /\ TimerOff(s, j).ta = s.ta
         /\ TimerOff(s, j).refr[j] = [s.refr[j] EXCEPT !.timer = FALSE]
         /\ \A k \in RefreshIdsOf(i) :
              k # j => TimerOff(s, j).refr[k] = s.refr[k]
<1> DEFINE p == [s EXCEPT !.refr[j].timer = FALSE]
<1>1. p \in State /\ Mid(p, i) /\ p.bind = s.bind
  BY TimerMid, Zenon
<1>2. p.refr[j] = [s.refr[j] EXCEPT !.timer = FALSE]
  BY IdsApart DEF State
<1>3. /\ p.ta = s.ta
      /\ \A k \in RefreshIdsOf(i) : k # j => p.refr[k] = s.refr[k]
  BY IdsApart DEF State
<1>4. QED
  BY <1>1, <1>2, <1>3 DEF TimerOff

LEMMA RefreshTimerExpiredKept ==
  ASSUME IInv, NEW j \in RefreshIds, RefreshTimerExpiredL(j)
  PROVE  IInv'
<1>1. Here \in State /\ Good(Here) /\ Here.refr = refr
  BY HereFacts
<1>2. Here.refr[j].timer
  BY <1>1 DEF RefreshTimerExpiredL
<1>3. PICK i \in BindingIds : j \in RefreshIdsOf(i) /\ Expires(Here, i, j)
  BY <1>1, <1>2, TimerExpires
<1> DEFINE off == FALSE
           p == [Here EXCEPT !.refr[j].timer = off]
           s == NextCSeq(p, i)
           t == FreshTa(s, i)
           old == refr[j].ta
           u == [SentBy(s, t, R(j)) EXCEPT !.refr[j].ta = t]
<1>4. refr[j].owner = i /\ old \in TaIdsOf(i)
  BY <1>1, <1>3 DEF Expires
<1>5. PICK sent \in MaySucceed("send") :
        Become(IF sent THEN Numbered(u, i)
               ELSE IF RefreshErrorKnown(s, i, old)
                    THEN RemoveRefreshBy(RefreshError(s, i, old), j)
                    ELSE s)
  BY <1>4 DEF RefreshTimerExpiredL
<1>6. off \in BOOLEAN /\ ~off
  OBVIOUS
<1> HIDE DEF off
<1>7. Mid(Here, i) /\ Duty(Here, i)
  BY <1>1, MidOfGood
<1>8. /\ p \in State /\ Mid(p, i) /\ p.bind = Here.bind /\ p.ta = Here.ta
      /\ p.refr[j] = [Here.refr[j] EXCEPT !.timer = off]
      /\ \A k \in RefreshIdsOf(i) : k # j => p.refr[k] = Here.refr[k]
  <2>1. Here.refr[j].life = "stored"
    BY <1>3 DEF Expires
  <2>2. p = TimerOff(Here, j)
    BY DEF TimerOff, off
  <2> HIDE DEF p
  <2>3. QED
    BY <1>1, <1>3, <1>7, <2>1, <2>2, TimerOffMid DEF off
<1> HIDE DEF p
<1>9. /\ s \in State /\ RegsOK(s) /\ s.bind = p.bind /\ s.refr = p.refr
      /\ s.ta = p.ta /\ s.grows = p.grows /\ Ahead(s, i)
  BY <1>8, NextCSeqFacts DEF Mid
<1> HIDE DEF s
<1>10. Mid(s, i)
  BY <1>8, <1>9, MidOfRegs DEF Mid
<1>11. Here.refr[j] \in Refresh
  BY <1>1 DEF State
<1>12. Expires(s, i, j) /\ ~s.refr[j].timer /\ s.refr[j].ta = old
  <2>1. /\ s.refr[j].life = "stored" /\ s.refr[j].owner = i
        /\ s.refr[j].ta = old /\ ~s.refr[j].timer
    BY <1>1, <1>3, <1>6, <1>8, <1>9, <1>11 DEF Expires, Refresh
  <2>2. QED
    BY <1>3, <1>4, <1>8, <1>9, <2>1 DEF Expires
<1>13. CASE sent
  <2>1. /\ j \in RefreshIds /\ 0 \notin TaIds /\ TaIdsOf(i) \subseteq TaIds
        /\ RefreshIdsOf(i) \subseteq RefreshIds
    BY IdsApart
  <2>2. t \in TaIdsOf(i)
    <3> DEFINE a == s.bind[i].ta
               b == s.bind[i].retry
    <3>1. a \in TaIds \cup {0} /\ b \in TaIds \cup {0}
          /\ old \in TaIds \cup {0}
      BY <1>4, <1>9, <2>1 DEF State, Binding
    <3>2. \A v \in TaIdsOf(i) : v \notin {a, b, old} =>
            /\ s.ta[v] = Nobody
            /\ v \notin {s.bind[i].ta, s.bind[i].retry}
            /\ \A k \in RefreshIdsOf(i) : v # s.refr[k].ta
      BY <1>12, <2>1 DEF Expires, NoRefresh
    <3> HIDE DEF a, b, old
    <3>3. QED
      BY <1>9, <3>1, <3>2, FreshTaIn
  <2> HIDE DEF t
  <2> DEFINE f == [s.refr[j] EXCEPT !.ta = t]
  <2>3. R(j) \in TaOwner
    BY <2>1 DEF TaOwner
  <2>4. f \in Refresh
    BY <1>9, <2>1, <2>2 DEF State, Refresh
  <2>5. u = [s EXCEPT !.ta = [s.ta EXCEPT ![t] = R(j)],
                      !.refr = [s.refr EXCEPT ![j] = f]]
    BY <1>9 DEF SentBy, State
  <2>6. f = [life |-> "stored", owner |-> i, ta |-> t, timer |-> FALSE]
    <3> DEFINE y == [life |-> "stored", owner |-> i, ta |-> t,
                     timer |-> FALSE]
    <3>1. /\ f.life = "stored" /\ f.owner = i /\ f.ta = t /\ f.timer = FALSE
      BY <1>9, <1>12, <2>1, <2>2 DEF State, Refresh, Expires
    <3>2. /\ y \in Refresh /\ y.life = "stored" /\ y.owner = i /\ y.ta = t
          /\ y.timer = FALSE
      BY <2>1, <2>2 DEF Refresh
    <3> HIDE DEF f, y
    <3>3. f = y
      BY <2>4, <3>1, <3>2 DEF Refresh
    <3>4. QED
      BY <3>3 DEF y
  <2> HIDE DEF u, f
  <2>7. /\ [s.ta EXCEPT ![t] = R(j)] \in [TaIds -> TaOwner]
        /\ [s.refr EXCEPT ![j] = f] \in [RefreshIds -> Refresh]
    BY <1>9, <2>3, <2>4 DEF State
  <2> DEFINE tas == [s.ta EXCEPT ![t] = R(j)]
             refrs == [s.refr EXCEPT ![j] = f]
  <2>8. /\ u \in State /\ u.bind = s.bind /\ u.regs = s.regs
        /\ u.grows = s.grows
        /\ u.ta = [s.ta EXCEPT ![t] = R(j)]
        /\ u.refr = [s.refr EXCEPT ![j] = f]
    <3>1. u = [s EXCEPT !.ta = tas, !.refr = refrs]
      BY <2>5
    <3>2. tas \in [TaIds -> TaOwner] /\ refrs \in [RefreshIds -> Refresh]
      BY <2>7
    <3> HIDE DEF tas, refrs
    <3>3. /\ u \in State /\ u.bind = s.bind /\ u.regs = s.regs
          /\ u.grows = s.grows /\ u.ta = tas /\ u.refr = refrs
      BY <1>9, <3>1, <3>2 DEF State
    <3>4. QED
      BY <3>3 DEF tas, refrs
  <2>9. /\ u.refr[j] = f
        /\ \A k \in RefreshIds : k # j => u.refr[k] = s.refr[k]
        /\ \A v \in TaIds : u.ta[v] = IF v = t THEN R(j) ELSE s.ta[v]
    BY <1>9, <2>1, <2>2, <2>8 DEF State
  <2>10. RefreshOwnsOnly(u, i, j, t)
    BY <1>12, <2>1, <2>6, <2>9 DEF RefreshOwnsOnly, Expires
  <2>11. Touches(s, u, i)
    <3> SUFFICES ASSUME NEW k \in BindingIds, k # i
                 PROVE  LocalSame(s, u, k)
      BY DEF Touches
    <3>1. \A m \in RefreshIdsOf(k) : m \in RefreshIds /\ m # j
      BY <1>3, IdsApart
    <3>2. \A v \in TaIdsOf(k) : v \in TaIds /\ v # t
      BY <2>2, IdsApart
    <3>3. QED
      BY <2>8, <2>9, <3>1, <3>2 DEF LocalSame
  <2>12. RegsOK(u)
    BY <1>9, <2>8, RegsOfSame
  <2>13. Good(u)
    BY <1>3, <1>9, <1>10, <1>12, <2>2, <2>8, <2>10, <2>11, <2>12,
       RefreshSentGood DEF Expires, Mid
  <2>14. Ahead(u, i)
    BY <1>9, <2>8 DEF Ahead
  <2>15. Numbered(u, i) \in State /\ Good(Numbered(u, i))
    BY <2>8, <2>13, <2>14, NumberedGood
  <2>16. QED
    BY <1>5, <1>13, <2>15, BecomeGood
<1>14. CASE ~sent /\ RefreshErrorKnown(s, i, old)
  <2>1. RefreshEnded(s, j, old) = RemoveRefreshBy(RefreshError(s, i, old), j)
    BY <1>12 DEF RefreshEnded, Expires
  <2>2. s.refr[j].life = "stored" /\ s.bind[i].life = "stored"
    BY <1>12 DEF Expires
  <2> HIDE DEF old
  <2>3. RefreshEnded(s, j, old) \in State /\ Good(RefreshEnded(s, j, old))
    BY <1>3, <1>4, <1>9, <1>10, <1>14, <2>2, RefreshEndedGood
  <2>4. QED
    BY <1>5, <1>14, <2>1, <2>3, BecomeGood
<1>15. CASE ~sent /\ ~RefreshErrorKnown(s, i, old)
  <2>1. s.bind[i].st # "registered"
    BY <1>15 DEF RefreshErrorKnown
  <2>2. \A v \in TaIdsOf(i) : s.ta[v] = Nobody
    BY <1>12 DEF Expires
  <2>3. Duty(s, i)
    BY <1>12, <2>1, <2>2, OwnersApart DEF Duty, Expires
  <2>4. Good(s)
    BY <1>9, <1>10, <2>3, GoodOf
  <2>5. QED
    BY <1>5, <1>9, <1>15, <2>4, BecomeGood
<1>16. QED
  BY <1>13, <1>14, <1>15

LEMMA FlowFailureKept ==
  ASSUME IInv, NEW i \in BindingIds, FlowFailure(i)
  PROVE  IInv'
<1> DEFINE old == bind[i]
           more == IF old.ends = 2 THEN 2 ELSE old.ends + 1
           on == TRUE
           b == [old EXCEPT !.ends = more, !.st = "unregistered",
                            !.flow = on]
           w == WithBinding(Here, i, b)
           s == [Told(Here, i) EXCEPT !.bind[i].st = "unregistered",
                                      !.bind[i].flow = on]
<1>1. Here \in State /\ Good(Here) /\ Here.bind = bind
  BY HereFacts
<1>2. Mid(Here, i) /\ Duty(Here, i)
  BY <1>1, MidOfGood
<1>3. old \in Binding /\ old.life = "stored"
  BY <1>1 DEF FlowFailure, Stored, State
<1>4. more \in 0 .. 2
  BY <1>3 DEF Binding
<1>5. Become(s)
  BY DEF FlowFailure
<1>6. on \in BOOLEAN /\ on
  OBVIOUS
<1> HIDE DEF on
<1>7. s = w
  <2>1. Told(Here, i) = [Here EXCEPT !.bind[i].ends = more]
    BY <1>1 DEF Told, State
  <2> HIDE DEF more
  <2>2. Told(Here, i).bind = [bind EXCEPT ![i].ends = more]
    BY <1>1, <2>1 DEF State
  <2>3. s = [Here EXCEPT !.bind = [[bind EXCEPT ![i].ends = more]
               EXCEPT ![i].st = "unregistered", ![i].flow = on]]
    BY <1>1, <2>1, <2>2 DEF State
  <2>4. [[bind EXCEPT ![i].ends = more]
           EXCEPT ![i].st = "unregistered", ![i].flow = on] =
             [bind EXCEPT ![i] = b]
    BY <1>1, <1>3 DEF State
  <2>5. QED
    BY <1>1, <2>3, <2>4 DEF WithBinding
<1> HIDE DEF more
<1>8. /\ b \in Binding /\ b.st = "unregistered" /\ b.flow
      /\ b.zero = old.zero
      /\ b.life = old.life /\ b.contact = old.contact
      /\ b.refreshing = old.refreshing /\ b.reg = old.reg
      /\ b.ta = old.ta /\ b.retry = old.retry /\ b.refresh = old.refresh
      /\ b.timer = old.timer
  BY <1>3, <1>4, <1>6 DEF Binding, RegistrationStates
<1>9. KeepsIds(b, bind[i])
  BY <1>1, <1>2, <1>3, <1>8 DEF KeepsIds, Mid, Sound, BindingSound
<1> HIDE DEF b, s
<1>10. /\ w \in State /\ Mid(w, i) /\ w.bind[i] = b
       /\ w.refr = Here.refr /\ w.ta = Here.ta
  BY <1>1, <1>2, <1>8, <1>9, BindMid
<1> HIDE DEF w
<1>11. Duty(w, i)
  BY <1>1, <1>2, <1>3, <1>8, <1>10 DEF Duty
<1>12. QED
  BY <1>5, <1>7, <1>10, <1>11, GoodOf, BecomeGood

LEMMA NetworkKept ==
  ASSUME IInv, Network
  PROVE  IInv'
<1>1. ASSUME NEW I \in SUBSET BindingIds, URIFailed(I)
      PROVE  IInv'
  BY <1>1, DeletedKept DEF URIFailed
<1>2. ASSUME ConnectionStateChangedL
      PROVE  IInv'
  <2>1. Stored(Here) \in SUBSET BindingIds
    BY DEF Stored
  <2>2. QED
    BY <1>2, <2>1, DeletedKept DEF ConnectionStateChangedL
<1>3. ASSUME NEW i \in BindingIds, DeleteMgrRuns(i)
      PROVE  IInv'
  <2>1. {i} \in SUBSET BindingIds
    OBVIOUS
  <2>2. QED
    BY <1>3, <2>1, DeletedKept DEF DeleteMgrRuns
<1>4. QED
  BY <1>1, <1>2, <1>3, BindingAnsweredKept, BindingTransactionEndedKept,
     RefreshAnsweredKept, RefreshTransactionEndedKept, ChallengeAnsweredKept,
     EarlyProvisionalKept, TimerExpiredKept, FlowFailureKept,
     RefreshTimerExpiredKept
     DEF Network, Outcome

-----------------------------------------------------------------------------
(* The inductive invariant.                                                *)

LEMMA InitGood ==
  ASSUME Init
  PROVE  IInv
<1>1. /\ NoBinding \in Binding /\ NoRefresh \in Refresh
      /\ Nobody \in TaOwner /\ NoRegistrar \in AnyRegistrar
  BY RegistrationAssumption
     DEF NoBinding, Binding, RegistrationStates, NoRefresh, Refresh, TaOwner,
         NoRegistrar, AnyRegistrar
<1>2. Here \in State
  BY <1>1 DEF Init, Here, State
<1>3. /\ \A k \in BindingIds : Here.bind[k] = NoBinding
      /\ \A j \in RefreshIds : Here.refr[j] = NoRefresh
      /\ \A t \in TaIds : Here.ta[t] = Nobody
      /\ \A r \in RegistrarIds : Here.regs[r] = NoRegistrar
      /\ Here.grows
  BY DEF Init, Here
<1>4. RegsOK(Here)
  BY <1>3 DEF RegsOK, NoBinding, NoRegistrar
<1>5. ASSUME NEW k \in BindingIds
      PROVE  Sound(Here, k) /\ Duty(Here, k)
  <2>1. /\ \A j \in RefreshIdsOf(k) : Here.refr[j] = NoRefresh
        /\ \A t \in TaIdsOf(k) : Here.ta[t] = Nobody
    BY <1>3, IdsApart
  <2>2. Sound(Here, k)
    BY <1>3, <2>1
       DEF Sound, BindingSound, RefreshSound, TaSound, NoBinding
  <2>3. Duty(Here, k)
    BY <1>3, <2>1, OwnersApart DEF Duty, NoBinding
  <2>4. QED
    BY <2>2, <2>3
<1>6. early \in [TaIds -> BOOLEAN]
  BY DEF Init
<1>7. QED
  BY <1>2, <1>3, <1>4, <1>5, <1>6 DEF IInv, Good

LEMMA StepGood ==
  ASSUME IInv, [Next]_vars
  PROVE  IInv'
<1>1. CASE Next
  BY <1>1, ApiKept, NetworkKept DEF Next
<1>2. CASE UNCHANGED vars
  <2>1. Here' = Here /\ early' = early
    BY <1>2 DEF vars, Here
  <2>2. QED
    BY <2>1 DEF IInv
<1>3. QED
  BY <1>1, <1>2

(***************************************************************************)
(* The inductive invariant: between two callbacks the registrars list the  *)
(* stored bindings that point to them, and each binding, refresh and       *)
(* transaction has what the callbacks that may come next rely on.          *)
(***************************************************************************)
THEOREM BindingsAreGood == Spec => []IInv
<1>1. Init => IInv
  BY InitGood
<1>2. IInv /\ [Next]_vars => IInv'
  BY StepGood
<1>3. QED
  BY <1>1, <1>2, PTL DEF Spec

(***************************************************************************)
(* The types.                                                              *)
(***************************************************************************)
LEMMA GoodTypes ==
  ASSUME IInv
  PROVE  TypeOK
<1> DEFINE Existing == [life : {"stored", "dying"}, st : RegistrationStates,
                        contact : Contacts, refreshing : BOOLEAN,
                        reg : RegistrarIds \cup {0}, ta : TaIds \cup {0},
                        retry : TaIds \cup {0},
                        refresh : RefreshIds \cup {0},
                        timer : BOOLEAN, zero : BOOLEAN, ends : 0 .. 2,
                        flow : BOOLEAN]
           Used == [place : RegistrarIds, target : Targets,
                    ids : SUBSET BindingIds, ahead : 0 .. 1]
<1>1. /\ Here \in State /\ Good(Here)
      /\ Here.bind = bind /\ Here.refr = refr /\ Here.ta = ta
      /\ Here.regs = regs /\ Here.grows = grows
  BY HereFacts
<1>2. /\ bind \in [BindingIds -> Binding] /\ refr \in [RefreshIds -> Refresh]
      /\ ta \in [TaIds -> TaOwner] /\ regs \in [RegistrarIds -> AnyRegistrar]
      /\ grows \in BOOLEAN
  BY <1>1 DEF State
<1>3. ASSUME NEW k \in BindingIds
      PROVE  bind[k] \in {NoBinding} \cup Existing
  <2>1. /\ bind[k] \in Binding
        /\ bind[k].life = "none" => bind[k] = NoBinding
        /\ bind[k].life # "none" => bind[k].contact \in Contacts
    BY <1>1, <1>2 DEF Good, Sound, BindingSound
  <2>2. bind[k].life # "none" => bind[k] \in Existing
    BY <2>1 DEF Binding
  <2>3. QED
    BY <2>1, <2>2
<1>4. ASSUME NEW r \in RegistrarIds
      PROVE  regs[r] \in {NoRegistrar} \cup Used
  <2>1. /\ regs[r] \in AnyRegistrar
        /\ regs[r] = NoRegistrar \/ /\ regs[r].place # 0
                                    /\ regs[r].target \in Targets
    BY <1>1, <1>2 DEF Good, RegsOK
  <2>2. regs[r] # NoRegistrar => regs[r].place \in RegistrarIds
    BY <2>1, RegistrationAssumption DEF AnyRegistrar, RegistrarIds
  <2>3. regs[r] # NoRegistrar => regs[r] \in Used
    BY <2>1, <2>2 DEF AnyRegistrar
  <2>4. QED
    BY <2>3
<1>5. bind \in [BindingIds -> {NoBinding} \cup Existing]
  BY <1>2, <1>3
<1>6. regs \in [RegistrarIds -> {NoRegistrar} \cup Used]
  BY <1>2, <1>4
<1>7. QED
  BY <1>2, <1>5, <1>6 DEF TypeOK, Refresh, TaOwner, Targets, IInv

(***************************************************************************)
(* Whoever points to a registrar is listed by it, and the other way round. *)
(***************************************************************************)
LEMMA GoodShares ==
  ASSUME IInv
  PROVE  RegistrarIsShared
<1>1. /\ Here \in State /\ Good(Here)
      /\ Here.bind = bind /\ Here.regs = regs
  BY HereFacts
<1>2. RegsOK(Here) /\ \A k \in BindingIds : Duty(Here, k)
  BY <1>1 DEF Good
<1>3. ASSUME NEW i \in Stored(Here), bind[i].reg # 0
      PROVE  /\ bind[i].reg \in Registrars(Here)
             /\ i \in regs[bind[i].reg].ids
  <2>1. i \in BindingIds /\ bind[i].reg \in RegistrarIds
    BY <1>1, <1>3 DEF Stored, State, Binding
  <2>2. i \in regs[bind[i].reg].ids
    BY <1>1, <1>2, <1>3, <2>1 DEF RegsOK
  <2>3. regs[bind[i].reg].place # 0
    BY <1>1, <1>2, <2>1, <2>2 DEF RegsOK, NoRegistrar
  <2>4. QED
    BY <1>1, <2>1, <2>2, <2>3 DEF Registrars
<1>4. ASSUME NEW r \in Registrars(Here)
      PROVE  /\ regs[r].ids # {}
             /\ \A i \in regs[r].ids : i \in Stored(Here) /\ bind[i].reg = r
  <2>1. r \in RegistrarIds /\ regs[r].place # 0
        /\ regs[r].ids \subseteq BindingIds
    BY <1>1 DEF Registrars, State, AnyRegistrar
  <2>2. regs[r].ids # {}
    BY <1>1, <1>2, <2>1 DEF RegsOK, NoRegistrar
  <2>3. \A i \in regs[r].ids : bind[i].life = "stored" /\ bind[i].reg = r
    BY <1>1, <1>2, <2>1 DEF RegsOK
  <2>4. QED
    BY <1>1, <2>1, <2>2, <2>3 DEF Stored
<1>5. ASSUME NEW i \in Stored(Here),
             bind[i].st \in {"registered", "updating", "unregistering"}
      PROVE  bind[i].reg # 0
  BY <1>1, <1>2, <1>5 DEF Stored, Duty
<1>6. QED
  BY <1>3, <1>4, <1>5 DEF RegistrarIsShared

(* The refresh of a binding is its own.                                    *)
LEMMA OwnRefresh ==
  ASSUME NEW s \in State, Good(s), NEW i \in BindingIds, HasRefresh(s, i)
  PROVE  /\ s.bind[i].refresh \in RefreshIds
         /\ s.refr[s.bind[i].refresh].life = "stored"
         /\ s.refr[s.bind[i].refresh].owner = i
         /\ s.refr[s.bind[i].refresh] \in Refresh
<1>1. s.bind[i].refresh \in RefreshIdsOf(i) /\ s.bind[i].refresh \in RefreshIds
  BY IdsApart DEF HasRefresh
<1>2. s.refr[s.bind[i].refresh] # NoRefresh
  BY DEF HasRefresh, NoRefresh
<1>3. s.refr[s.bind[i].refresh].owner = i
  BY <1>1, <1>2 DEF Good, Sound, RefreshSound
<1>4. QED
  BY <1>1, <1>3 DEF HasRefresh, State

LEMMA GoodAwaits ==
  ASSUME IInv
  PROVE  PendingIsAnswered
<1>1. /\ Here \in State /\ Good(Here)
      /\ Here.bind = bind /\ Here.refr = refr /\ Here.ta = ta
  BY HereFacts
<1> SUFFICES ASSUME NEW i \in Stored(Here),
                    bind[i].st \in {"registering", "updating",
                                    "unregistering"}
             PROVE  Awaits(i, bind[i].ta)
  BY DEF PendingIsAnswered
<1>2. i \in BindingIds /\ Waits(Here, i)
  BY <1>1 DEF Stored, Good, Duty
<1>3. CASE ~bind[i].refreshing
  BY <1>1, <1>2, <1>3 DEF Waits, HasRefresh, Awaits
<1>4. CASE bind[i].refreshing
  <2> DEFINE j == bind[i].refresh
             t == bind[i].ta
             g == [life |-> "stored", owner |-> i, ta |-> t, timer |-> FALSE]
  <2>1. /\ HasRefresh(Here, i) /\ t # 0 /\ refr[j].ta = t /\ ~refr[j].timer
        /\ ta[t] = R(j)
    BY <1>1, <1>2, <1>4 DEF Waits
  <2>2. /\ j \in RefreshIds /\ refr[j].life = "stored"
        /\ refr[j].owner = i /\ refr[j] \in Refresh
    BY <1>1, <1>2, <2>1, OwnRefresh
  <2>3. refr[j].timer = FALSE /\ t \in TaIds \cup {0}
    BY <2>1, <2>2 DEF Refresh
  <2>4. refr[j] = g
    <3> DEFINE f == refr[j]
    <3>1. /\ f \in Refresh /\ f.life = "stored" /\ f.owner = i /\ f.ta = t
          /\ f.timer = FALSE
      BY <2>1, <2>2, <2>3
    <3>2. /\ g \in Refresh /\ g.life = "stored" /\ g.owner = i /\ g.ta = t
          /\ g.timer = FALSE
      BY <1>2, <2>3 DEF Refresh
    <3> HIDE DEF f, g
    <3>3. f = g
      BY <3>1, <3>2 DEF Refresh
    <3>4. QED
      BY <3>3 DEF f
  <2>5. QED
    BY <2>1, <2>2, <2>4 DEF Awaits
<1>5. QED
  BY <1>3, <1>4

LEMMA GoodKept ==
  ASSUME IInv
  PROVE  RegisteredIsKept
<1>1. /\ Here \in State /\ Good(Here)
      /\ Here.bind = bind /\ Here.refr = refr /\ Here.ta = ta
  BY HereFacts
<1> SUFFICES ASSUME NEW i \in Stored(Here), bind[i].st = "registered",
                    ~bind[i].timer
             PROVE  \E j \in RefreshIds :
                      /\ refr[j].life = "stored" /\ refr[j].owner = i
                      /\ bind[i].refresh = j
                      /\ refr[j].timer \/ ta[refr[j].ta] = R(j)
  BY DEF RegisteredIsKept
<1>2. i \in BindingIds /\ Kept(Here, i)
  BY <1>1 DEF Stored, Good, Duty
<1>3. HasRefresh(Here, i)
  BY <1>1, <1>2 DEF Kept
<1>4. QED
  BY <1>1, <1>2, <1>3, OwnRefresh DEF Kept

LEMMA GoodOwners ==
  ASSUME IInv
  PROVE  NoDeadOwner
<1>1. /\ Here \in State /\ Good(Here)
      /\ Here.bind = bind /\ Here.refr = refr /\ Here.ta = ta
  BY HereFacts
<1>2. ASSUME NEW t \in TaIds, NEW i \in BindingIds, ta[t] = B(i)
      PROVE  bind[i].life # "none"
  BY <1>1, <1>2, OwnTa
<1>3. ASSUME NEW t \in TaIds, NEW j \in RefreshIds, ta[t] = R(j)
      PROVE  refr[j].life # "none"
  <2>1. PICK i \in BindingIds : Reports(Here, i, j, t)
    BY <1>1, <1>3, RefreshReports
  <2>2. QED
    BY <1>1, <2>1 DEF Reports
<1>4. ASSUME NEW j \in RefreshIds, refr[j].life # "none"
      PROVE  bind[refr[j].owner].life = "stored"
  <2>1. PICK i \in BindingIds : j \in RefreshIdsOf(i)
    BY IdsCovered
  <2>2. refr[j] # NoRefresh
    BY <1>4 DEF NoRefresh
  <2>3. refr[j].owner = i /\ bind[i].life = "stored"
    BY <1>1, <2>1, <2>2 DEF Good, Sound, RefreshSound, Duty
  <2>4. QED
    BY <2>3
<1>5. QED
  BY <1>2, <1>3, <1>4 DEF NoDeadOwner

LEMMA GoodEnds ==
  ASSUME IInv
  PROVE  OneEnd
<1>1. /\ Here \in State /\ Good(Here) /\ Here.bind = bind
  BY HereFacts
<1> SUFFICES ASSUME NEW i \in BindingIds, ~bind[i].flow
             PROVE  /\ bind[i].ends <= 1
                    /\ bind[i].ends = 1 => bind[i].life = "dying"
  BY DEF OneEnd
<1>2. bind[i] \in Binding
  BY <1>1 DEF State
<1>3. /\ bind[i].ends <= 1
      /\ bind[i].life = "stored" => bind[i].ends = 0
      /\ bind[i].life = "none" => bind[i] = NoBinding
  BY <1>1 DEF Good, Sound, BindingSound
<1>4. bind[i].life = "none" => bind[i].ends = 0
  BY <1>3 DEF NoBinding
<1>5. QED
  BY <1>2, <1>3, <1>4 DEF Binding

LEMMA GoodGrows ==
  ASSUME IInv
  PROVE  CSeqGrows
  BY HereFacts DEF Good, CSeqGrows

-----------------------------------------------------------------------------
(* The properties that the runs check.                                     *)

(***************************************************************************)
(* The variables keep their types.                                         *)
(***************************************************************************)
THEOREM Types == Spec => []TypeOK
<1>1. IInv => TypeOK
  BY GoodTypes
<1>2. QED
  BY <1>1, BindingsAreGood, PTL

(***************************************************************************)
(* No registrar is deleted while a binding points to it, none is left over *)
(* without a binding, and UpdateL and UnregisterL find the registrar they  *)
(* rely on, however bindings towards one remote target come and go.        *)
(***************************************************************************)
THEOREM RegistrarsAreShared == Spec => []RegistrarIsShared
<1>1. IInv => RegistrarIsShared
  BY GoodShares
<1>2. QED
  BY <1>1, BindingsAreGood, PTL

(***************************************************************************)
(* A registration, update or deregistration that is pending has a          *)
(* transaction that will report to the binding or to its refresh.          *)
(***************************************************************************)
THEOREM PendingHasAnswer == Spec => []PendingIsAnswered
<1>1. IInv => PendingIsAnswered
  BY GoodAwaits
<1>2. QED
  BY <1>1, BindingsAreGood, PTL

(***************************************************************************)
(* A registered binding has a timer, or a refresh with a timer or a        *)
(* REGISTER under way.                                                     *)
(***************************************************************************)
THEOREM RegisteredStaysKept == Spec => []RegisteredIsKept
<1>1. IInv => RegisteredIsKept
  BY GoodKept
<1>2. QED
  BY <1>1, BindingsAreGood, PTL

(***************************************************************************)
(* No transaction reports to a freed binding or refresh, and no refresh    *)
(* belongs to a binding that left the store.                               *)
(***************************************************************************)
THEOREM OwnersAreAlive == Spec => []NoDeadOwner
<1>1. IInv => NoDeadOwner
  BY GoodOwners
<1>2. QED
  BY <1>1, BindingsAreGood, PTL

(***************************************************************************)
(* Without a flow failure the owner hears at most once that a registration *)
(* ended, and never of a binding that stays in the store.                  *)
(***************************************************************************)
THEOREM OwnerHearsOneEnd == Spec => []OneEnd
<1>1. IInv => OneEnd
  BY GoodEnds
<1>2. QED
  BY <1>1, BindingsAreGood, PTL

(***************************************************************************)
(* The REGISTER requests with one Call-ID leave with growing CSeq numbers. *)
(***************************************************************************)
THEOREM CSeqNumbersGrow == Spec => []CSeqGrows
<1>1. IInv => CSeqGrows
  BY GoodGrows
<1>2. QED
  BY <1>1, BindingsAreGood, PTL

=============================================================================
