------------------------ MODULE TimerManager_proofs ------------------------
(***************************************************************************)
(* Theorems about TimerManager, for every number of timers, every duration *)
(* and every limit of the RTimer.                                          *)
(***************************************************************************)
EXTENDS TimerManager, FiniteSetTheorems, SequenceTheorems,
        WellFoundedInduction, TLAPS

Request == [id : UserIds \cup {KReservedTimer}, left : Int]

InOrder(store) ==
  \A i, j \in DOMAIN store : i < j => store[i].left <= store[j].left

(* Only internal timers may share an id.                                   *)
OnceEach(store) ==
  \A i, j \in DOMAIN store :
    store[i].id = store[j].id => i = j \/ store[i].id = KReservedTimer

(* An id that a user holds is in the store, once, so that Stop finds it;   *)
(* the id of the timer that is calling back is not, so that stopping a     *)
(* timer in a callback never touches iTimer.                               *)
StoreInv ==
  /\ TypeOK
  /\ OnceEach(iTimerStore) /\ InOrder(iTimerStore)
  /\ DOMAIN held \subseteq Ids(iTimerStore)
  /\ iTimer.active => iTimer.id \in Ids(iTimerStore)
  /\ iNowExpiring => ~iTimer.active /\ iTimer.id \notin Ids(iTimerStore)

-----------------------------------------------------------------------------
(* A set of positions without gaps is as large as its last one.            *)
LEMMA DownClosed ==
  ASSUME NEW n \in Nat, NEW B \in SUBSET (1..n),
         \A i \in B : \A j \in 1..n : j < i => j \in B
  PROVE  /\ Cardinality(B) \in 0..n
         /\ \A i \in 1..n : i \in B <=> i <= Cardinality(B)
<1>1. ASSUME NEW m \in Nat
      PROVE  IsFiniteSet(1..m) /\ Cardinality(1..m) = m
  <2>1. m \in Int /\ 1 \in Int
    OBVIOUS
  <2>2. /\ IsFiniteSet(1..m)
        /\ Cardinality(1..m) = IF 1 > m THEN 0 ELSE m - 1 + 1
    BY <2>1, FS_Interval, Zenon
  <2>3. QED
    BY <2>2
<1>2. /\ IsFiniteSet(B) /\ Cardinality(B) \in Nat /\ Cardinality(B) <= n
  <2>1. IsFiniteSet(B) /\ Cardinality(B) <= Cardinality(1..n)
    BY <1>1, FS_Subset, Zenon
  <2>2. QED
    BY <1>1, <2>1, FS_CardinalityType
<1>3. ASSUME NEW i \in B
      PROVE  i <= Cardinality(B)
  <2>1. 1..i \in SUBSET B
    OBVIOUS
  <2>2. Cardinality(1..i) <= Cardinality(B)
    BY <1>2, <2>1, FS_Subset, Zenon
  <2>3. i \in Nat
    OBVIOUS
  <2>4. Cardinality(1..i) = i
    BY <1>1, <2>3
  <2>5. QED
    BY <2>2, <2>4
<1>4. ASSUME NEW i \in 1..n, i \notin B
      PROVE  Cardinality(B) < i
  <2>1. B \in SUBSET (1..(i - 1)) /\ i - 1 \in Nat
    BY <1>4
  <2>2. IsFiniteSet(1..(i - 1)) /\ Cardinality(1..(i - 1)) = i - 1
    BY <1>1, <2>1
  <2>3. Cardinality(B) <= Cardinality(1..(i - 1))
    BY <2>1, <2>2, FS_Subset, Zenon
  <2>4. QED
    BY <1>2, <2>2, <2>3
<1>5. QED
  BY <1>2, <1>3, <1>4

(* AddL puts a request at a place p: what was before it is due no later,   *)
(* what was behind it later.                                               *)
LEMMA InsertFacts ==
  ASSUME NEW q \in Seq(Request), NEW r \in Request, InOrder(q)
  PROVE  LET t == InsertInOrder(q, r) IN
         \E p \in 1..(Len(q) + 1) :
            /\ t \in Seq(Request) /\ Len(t) = Len(q) + 1
            /\ t[p] = r
            /\ \A i \in 1..Len(q) :
                  IF i < p THEN t[i] = q[i] /\ q[i].left <= r.left
                           ELSE t[i + 1] = q[i] /\ q[i].left > r.left
<1> DEFINE B == {i \in DOMAIN q : q[i].left <= r.left}
           p == Cardinality(B) + 1
           a == SubSeq(q, 1, p - 1)
           b == SubSeq(q, p, Len(q))
<1>1. /\ Len(q) \in Nat /\ DOMAIN q = 1..Len(q)
      /\ \A i \in 1..Len(q) : q[i] \in Request /\ q[i].left \in Int
  <2>1. Len(q) \in Nat /\ DOMAIN q = 1..Len(q)
    OBVIOUS
  <2>2. \A i \in 1..Len(q) : q[i] \in Request
    OBVIOUS
  <2>3. QED
    BY <2>1, <2>2 DEF Request
<1>2. /\ Cardinality(B) \in 0..Len(q)
      /\ \A i \in 1..Len(q) : i \in B <=> i <= Cardinality(B)
  <2>1. r.left \in Int
    BY DEF Request
  <2>2. \A i \in B : \A j \in 1..Len(q) : j < i => j \in B
    BY <1>1, <2>1 DEF InOrder
  <2>3. B \in SUBSET (1..Len(q))
    BY <1>1
  <2>4. QED
    BY <1>1, <2>2, <2>3, DownClosed
<1> HIDE DEF B
<1>3. p \in 1..(Len(q) + 1) /\ p - 1 = Cardinality(B)
  BY <1>1, <1>2
<1>4. /\ a \in Seq(Request) /\ Len(a) = p - 1
      /\ \A i \in 1..(p - 1) : a[i] = q[i]
  BY <1>1, <1>3, SubSeqProperties
<1>5. /\ b \in Seq(Request) /\ Len(b) = Len(q) - p + 1
      /\ \A i \in 1..(Len(q) - p + 1) : b[i] = q[p + i - 1]
  BY <1>1, <1>3, SubSeqProperties
<1>6. InsertInOrder(q, r) = a \o <<r>> \o b
  BY DEF InsertInOrder, InsertAt, B
<1> HIDE DEF p, a, b
<1>7. <<r>> \in Seq(Request) /\ Len(<<r>>) = 1 /\ <<r>>[1] = r
  OBVIOUS
<1>8. /\ a \o <<r>> \in Seq(Request) /\ Len(a \o <<r>>) = p
      /\ \A i \in 1..(p - 1) : (a \o <<r>>)[i] = q[i]
      /\ (a \o <<r>>)[p] = r
  BY <1>3, <1>4, <1>7, ConcatProperties
<1> DEFINE u == (a \o <<r>>) \o b
<1>9. /\ u \in Seq(Request) /\ Len(u) = Len(q) + 1
      /\ \A i \in 1..p : u[i] = (a \o <<r>>)[i]
      /\ \A i \in (p + 1)..(Len(q) + 1) : u[i] = b[i - p]
  <2> DEFINE c == a \o <<r>>
  <2>1. /\ c \in Seq(Request) /\ Len(c) = p
        /\ b \in Seq(Request) /\ Len(b) = Len(q) - p + 1
    BY <1>5, <1>8
  <2> HIDE DEF c
  <2>2. /\ c \o b \in Seq(Request)
        /\ Len(c \o b) = Len(c) + Len(b)
        /\ \A i \in 1..Len(c) + Len(b) :
              (c \o b)[i] = IF i <= Len(c) THEN c[i] ELSE b[i - Len(c)]
    BY <2>1, ConcatProperties, Zenon
  <2>3. Len(c) + Len(b) = Len(q) + 1
    BY <1>1, <1>3, <2>1
  <2>4. /\ c \o b \in Seq(Request)
        /\ Len(c \o b) = Len(q) + 1
        /\ \A i \in 1..p : (c \o b)[i] = c[i]
        /\ \A i \in (p + 1)..(Len(q) + 1) : (c \o b)[i] = b[i - p]
    BY <1>1, <1>3, <2>1, <2>2, <2>3
  <2>5. QED
    BY <2>4 DEF c
<1> HIDE DEF u
<1>10. \A i \in 1..Len(q) : q[i].left <= r.left <=> i < p
  BY <1>1, <1>2, <1>3 DEF B
<1>11. ASSUME NEW i \in p..Len(q)
       PROVE  u[i + 1] = q[i]
  <2>1. /\ p \in Int /\ 1 <= p /\ i \in Int /\ i + 1 \in (p + 1)..(Len(q) + 1)
        /\ i + 1 - p \in 1..(Len(q) - p + 1)
    BY <1>1, <1>3
  <2>2. u[i + 1] = b[i + 1 - p]
    BY <1>9, <2>1
  <2>3. b[i + 1 - p] = q[p + (i + 1 - p) - 1]
    BY <1>5, <2>1
  <2>4. p + (i + 1 - p) - 1 = i
    BY <2>1
  <2>5. QED
    BY <2>2, <2>3, <2>4
<1>12. \A i \in 1..(p - 1) : u[i] = q[i]
  BY <1>1, <1>3, <1>8, <1>9
<1>13. u[p] = r
  BY <1>3, <1>8, <1>9
<1>14. \A i \in 1..Len(q) : q[i].left > r.left \/ i < p
  <2>1. r.left \in Int
    BY DEF Request
  <2>2. QED
    BY <1>1, <1>10, <2>1
<1>15. ASSUME NEW i \in 1..Len(q)
       PROVE  IF i < p THEN u[i] = q[i] /\ q[i].left <= r.left
              ELSE u[i + 1] = q[i] /\ q[i].left > r.left
  <2>1. CASE i < p
    BY <1>1, <1>3, <1>10, <1>12, <2>1
  <2>2. CASE ~(i < p)
    BY <1>1, <1>3, <1>11, <1>14, <2>2
  <2>3. QED
    BY <2>1, <2>2
<1> DEFINE t == InsertInOrder(q, r)
<1>16. /\ t \in Seq(Request) /\ Len(t) = Len(q) + 1
       /\ t[p] = r
       /\ \A i \in 1..Len(q) : IF i < p THEN t[i] = q[i] /\ q[i].left <= r.left
                               ELSE t[i + 1] = q[i] /\ q[i].left > r.left
  BY <1>6, <1>9, <1>13, <1>15 DEF u
<1> HIDE DEF t
<1>17. QED
  BY <1>3, <1>16, Zenon DEF t

LEMMA InsertKeeps ==
  ASSUME NEW q \in Seq(Request), NEW r \in Request, InOrder(q), OnceEach(q),
         r.id \notin Ids(q) \/ r.id = KReservedTimer
  PROVE  LET t == InsertInOrder(q, r) IN
         /\ t \in Seq(Request) /\ t # << >>
         /\ InOrder(t) /\ OnceEach(t)
         /\ Ids(t) = Ids(q) \cup {r.id}
<1> DEFINE t == InsertInOrder(q, r)
<1>1. PICK p \in 1..(Len(q) + 1) :
        /\ t \in Seq(Request) /\ Len(t) = Len(q) + 1
        /\ t[p] = r
        /\ \A i \in 1..Len(q) :
              IF i < p THEN t[i] = q[i] /\ q[i].left <= r.left
                       ELSE t[i + 1] = q[i] /\ q[i].left > r.left
  BY InsertFacts, Zenon
<1> HIDE DEF t
<1>2. /\ Len(q) \in Nat /\ DOMAIN q = 1..Len(q) /\ DOMAIN t = 1..(Len(q) + 1)
      /\ \A i \in 1..Len(q) : q[i] \in Request
  BY <1>1
<1>3. /\ r.left \in Int
      /\ \A i \in 1..Len(q) : q[i].left \in Int
  BY <1>2 DEF Request
<1> DEFINE old(i) == IF i < p THEN i ELSE i - 1
<1>4. ASSUME NEW i \in 1..(Len(q) + 1), i # p
      PROVE  /\ old(i) \in 1..Len(q) /\ t[i] = q[old(i)]
             /\ i < p => q[old(i)].left <= r.left
             /\ i > p => q[old(i)].left > r.left
  <2>1. CASE i < p
    <3>1. i \in 1..Len(q)
      BY <1>2, <2>1
    <3>2. QED
      BY <1>1, <2>1, <3>1
  <2>2. CASE i > p
    <3>1. i - 1 \in 1..Len(q) /\ ~(i - 1 < p) /\ (i - 1) + 1 = i /\ ~(i < p)
      BY <1>2, <2>2
    <3>2. QED
      BY <1>1, <2>2, <3>1
  <2>3. QED
    BY <1>2, <1>4, <2>1, <2>2
<1>5. ASSUME NEW k \in 1..Len(q)
      PROVE  \E i \in 1..(Len(q) + 1) : i # p /\ t[i] = q[k]
  <2>1. CASE k < p
    BY <1>1, <1>2, <2>1
  <2>2. CASE ~(k < p)
    <3>1. k + 1 \in 1..(Len(q) + 1) /\ k + 1 # p
      BY <1>2, <2>2
    <3>2. t[k + 1] = q[k]
      BY <1>1, <2>2
    <3>3. QED
      BY <3>1, <3>2
  <2>3. QED
    BY <2>1, <2>2
<1>6. InOrder(t)
  <2> SUFFICES ASSUME NEW i \in 1..(Len(q) + 1),
                      NEW j \in 1..(Len(q) + 1), i < j
               PROVE  t[i].left <= t[j].left
    BY <1>2 DEF InOrder
  <2>1. CASE i = p
    <3>1. /\ old(j) \in 1..Len(q) /\ t[j] = q[old(j)] /\ t[i] = r
          /\ q[old(j)].left > r.left
      BY <1>1, <1>2, <1>4, <2>1
    <3>2. QED
      BY <1>3, <3>1
  <2>2. CASE j = p
    BY <1>1, <1>2, <1>3, <1>4, <2>2
  <2>3. CASE i # p /\ j # p
    <3>1. old(i) < old(j)
      BY <1>2, <2>3
    <3>2. /\ old(i) \in 1..Len(q) /\ old(j) \in 1..Len(q)
          /\ t[i] = q[old(i)] /\ t[j] = q[old(j)]
      BY <1>4, <2>3
    <3>3. QED
      BY <1>2, <3>1, <3>2 DEF InOrder
  <2>4. QED
    BY <2>1, <2>2, <2>3
<1>7. OnceEach(t)
  <2> SUFFICES ASSUME NEW i \in 1..(Len(q) + 1), NEW j \in 1..(Len(q) + 1),
                      t[i].id = t[j].id, i # j, t[i].id # KReservedTimer
               PROVE  FALSE
    BY <1>2 DEF OnceEach
  <2>1. CASE i = p
    <3>1. old(j) \in DOMAIN q /\ q[old(j)].id = r.id
      BY <1>1, <1>2, <1>4, <2>1
    <3>2. r.id # KReservedTimer
      BY <1>1, <2>1
    <3>3. QED
      BY <3>1, <3>2 DEF Ids
  <2>2. CASE j = p
    <3>1. old(i) \in DOMAIN q /\ q[old(i)].id = r.id
      BY <1>1, <1>2, <1>4, <2>2
    <3>2. r.id # KReservedTimer
      BY <1>1, <2>2
    <3>3. QED
      BY <3>1, <3>2 DEF Ids
  <2>3. CASE i # p /\ j # p
    <3>1. old(i) # old(j)
      BY <1>2, <2>3
    <3>2. /\ old(i) \in DOMAIN q /\ old(j) \in DOMAIN q
          /\ q[old(i)].id = q[old(j)].id /\ q[old(i)].id # KReservedTimer
      BY <1>2, <1>4, <2>3
    <3>3. QED
      BY <3>1, <3>2 DEF OnceEach
  <2>4. QED
    BY <2>1, <2>2, <2>3
<1>8. Ids(t) = Ids(q) \cup {r.id}
  <2>1. ASSUME NEW i \in DOMAIN t
        PROVE  t[i].id \in Ids(q) \cup {r.id}
    BY <1>1, <1>2, <1>4 DEF Ids
  <2>2. ASSUME NEW k \in DOMAIN q
        PROVE  q[k].id \in Ids(t)
    BY <1>2, <1>5 DEF Ids
  <2>3. r.id \in Ids(t)
    BY <1>1, <1>2 DEF Ids
  <2>4. QED
    BY <2>1, <2>2, <2>3 DEF Ids
<1>9. t # << >>
  BY <1>1, <1>2
<1>10. QED
  BY <1>1, <1>6, <1>7, <1>8, <1>9 DEF t

(* A nonempty set of positions has a first one.                            *)
LEMMA HasFirst ==
  ASSUME NEW T \in SUBSET Nat, T # {}
  PROVE  \E x \in T : \A y \in T : x <= y
<1>1. PICK x \in T : \A y \in T : <<y, x>> \notin OpToRel(<, Nat)
  BY NatLessThanWellFounded, WFMin, Zenon
<1>2. ASSUME NEW y \in T
      PROVE  x <= y
  <2>1. <<y, x>> \in Nat \X Nat
    OBVIOUS
  <2>2. ~(y < x)
    BY <1>1, <2>1 DEF OpToRel
  <2>3. x \in Nat /\ y \in Nat
    OBVIOUS
  <2>4. QED
    BY <2>2, <2>3
<1>3. QED
  BY <1>2

(* Remove takes the first request with the id out and keeps the rest.      *)
LEMMA RemoveFacts ==
  ASSUME NEW q \in Seq(Request), NEW id \in Ids(q)
  PROVE  LET t == Without(q, id) IN
         \E p \in 1..Len(q) :
            /\ q[p].id = id
            /\ t \in Seq(Request) /\ Len(t) = Len(q) - 1
            /\ \A i \in 1..(Len(q) - 1) :
                  t[i] = IF i < p THEN q[i] ELSE q[i + 1]
<1> DEFINE First(i) == /\ q[i].id = id
                       /\ \A j \in DOMAIN q : q[j].id = id => i <= j
           p == CHOOSE i \in DOMAIN q : First(i)
           a == SubSeq(q, 1, p - 1)
           b == SubSeq(q, p + 1, Len(q))
<1>1. /\ Len(q) \in Nat /\ DOMAIN q = 1..Len(q)
      /\ \A i \in 1..Len(q) : q[i] \in Request
  OBVIOUS
<1>2. p \in 1..Len(q) /\ q[p].id = id
  <2> DEFINE T == {i \in DOMAIN q : q[i].id = id}
  <2>1. T # {} /\ T \in SUBSET Nat
    BY <1>1 DEF Ids
  <2>2. \E x \in T : \A y \in T : x <= y
    BY <2>1, HasFirst
  <2>3. \E i \in DOMAIN q : First(i)
    BY <2>2
  <2> HIDE DEF T, First
  <2>4. p \in DOMAIN q /\ First(p)
    BY <2>3
  <2>5. QED
    BY <1>1, <2>4 DEF First
<1>3. Without(q, id) = a \o b
  BY DEF Without, RemoveAt
<1> HIDE DEF p
<1>4. /\ a \in Seq(Request) /\ Len(a) = p - 1
      /\ \A i \in 1..(p - 1) : a[i] = q[i]
  BY <1>1, <1>2, SubSeqProperties
<1>5. /\ b \in Seq(Request) /\ Len(b) = Len(q) - p
      /\ \A i \in 1..(Len(q) - p) : b[i] = q[p + 1 + i - 1]
  <2>1. /\ p + 1 \in Int /\ Len(q) \in Int /\ Len(q) - p \in Nat
        /\ \A i \in (p + 1)..Len(q) : q[i] \in Request
    BY <1>1, <1>2
  <2>2. /\ b \in Seq(Request)
        /\ Len(b) = IF p + 1 <= Len(q) THEN Len(q) - (p + 1) + 1 ELSE 0
        /\ \A i \in 1..(Len(q) - (p + 1) + 1) : b[i] = q[p + 1 + i - 1]
    BY <2>1, SubSeqProperties
  <2> HIDE DEF b
  <2>3. \A n \in Nat : \A k \in 1..n :
          /\ n - (k + 1) + 1 = n - k
          /\ k + 1 <= n \/ n - k = 0
    OBVIOUS
  <2>4. QED
    BY <1>1, <1>2, <2>2, <2>3
<1> HIDE DEF a, b
<1>6. /\ a \o b \in Seq(Request) /\ Len(a \o b) = Len(a) + Len(b)
      /\ \A i \in 1..Len(a) + Len(b) :
            (a \o b)[i] = IF i <= Len(a) THEN a[i] ELSE b[i - Len(a)]
  BY <1>4, <1>5, ConcatProperties, Zenon
<1> DEFINE t == Without(q, id)
<1>7. /\ t \in Seq(Request) /\ Len(t) = Len(q) - 1
      /\ \A i \in 1..(Len(q) - 1) :
            t[i] = IF i <= p - 1 THEN a[i] ELSE b[i - (p - 1)]
  <2>1. Len(a) + Len(b) = Len(q) - 1
    BY <1>1, <1>2, <1>4, <1>5
  <2>2. QED
    BY <1>3, <1>4, <1>6, <2>1
<1> HIDE DEF t
<1>8. ASSUME NEW i \in 1..(Len(q) - 1)
      PROVE  t[i] = IF i < p THEN q[i] ELSE q[i + 1]
  <2>1. CASE i < p
    <3>1. i \in 1..(p - 1) /\ i <= p - 1
      BY <1>1, <1>2, <2>1
    <3>2. QED
      BY <1>4, <1>7, <2>1, <3>1
  <2>2. CASE ~(i < p)
    <3>1. /\ i - (p - 1) \in 1..(Len(q) - p) /\ ~(i <= p - 1)
          /\ p + 1 + (i - (p - 1)) - 1 = i + 1
      BY <1>1, <1>2, <2>2
    <3>2. b[i - (p - 1)] = q[p + 1 + (i - (p - 1)) - 1]
      BY <1>5, <3>1
    <3>3. QED
      BY <1>7, <2>2, <3>1, <3>2
  <2>3. QED
    BY <2>1, <2>2
<1>9. QED
  BY <1>2, <1>7, <1>8, Zenon DEF t

LEMMA RemoveKeeps ==
  ASSUME NEW q \in Seq(Request), NEW id \in Ids(q), InOrder(q), OnceEach(q)
  PROVE  LET t == Without(q, id) IN
         /\ t \in Seq(Request) /\ InOrder(t) /\ OnceEach(t)
         /\ Ids(t) \subseteq Ids(q) /\ Ids(q) \subseteq Ids(t) \cup {id}
         /\ id # KReservedTimer => id \notin Ids(t)
         /\ Head(q).id # id => t # << >> /\ Head(t) = Head(q)
<1> DEFINE t == Without(q, id)
<1>1. PICK p \in 1..Len(q) :
        /\ q[p].id = id
        /\ t \in Seq(Request) /\ Len(t) = Len(q) - 1
        /\ \A i \in 1..(Len(q) - 1) : t[i] = IF i < p THEN q[i] ELSE q[i + 1]
  BY RemoveFacts, Zenon
<1> HIDE DEF t
<1> DEFINE at(i) == IF i < p THEN i ELSE i + 1
<1>2. /\ Len(q) \in Nat /\ DOMAIN q = 1..Len(q) /\ DOMAIN t = 1..(Len(q) - 1)
      /\ Len(q) # 0
  BY <1>1
<1>3. ASSUME NEW i \in DOMAIN t
      PROVE  at(i) \in DOMAIN q /\ at(i) # p /\ t[i] = q[at(i)]
  <2>1. at(i) \in DOMAIN q /\ at(i) # p
    BY <1>2
  <2>2. t[i] = q[at(i)]
    BY <1>1, <1>2
  <2>3. QED
    BY <2>1, <2>2
<1>4. ASSUME NEW i \in DOMAIN t, NEW j \in DOMAIN t
      PROVE  /\ i < j => at(i) < at(j)
             /\ i # j => at(i) # at(j)
  BY <1>2
<1>5. ASSUME NEW k \in DOMAIN q, k # p
      PROVE  \E i \in DOMAIN t : t[i] = q[k]
  <2>1. CASE k < p
    <3>1. k \in DOMAIN t /\ at(k) = k
      BY <1>2, <2>1
    <3>2. QED
      BY <1>3, <3>1
  <2>2. CASE k > p
    <3>1. k - 1 \in DOMAIN t /\ at(k - 1) = k
      BY <1>2, <2>2
    <3>2. QED
      BY <1>3, <3>1
  <2>3. QED
    BY <1>2, <1>5, <2>1, <2>2
<1> HIDE DEF at
<1>6. InOrder(t)
  BY <1>3, <1>4 DEF InOrder
<1>7. OnceEach(t)
  <2> SUFFICES ASSUME NEW i \in DOMAIN t, NEW j \in DOMAIN t,
                      t[i].id = t[j].id, i # j
               PROVE  t[i].id = KReservedTimer
    BY DEF OnceEach
  <2>1. /\ at(i) \in DOMAIN q /\ at(j) \in DOMAIN q /\ at(i) # at(j)
        /\ q[at(i)].id = q[at(j)].id
    BY <1>3, <1>4
  <2>2. q[at(i)].id = KReservedTimer
    BY <2>1 DEF OnceEach
  <2>3. QED
    BY <1>3, <2>2
<1>8. Ids(t) \subseteq Ids(q)
  BY <1>3 DEF Ids
<1>9. Ids(q) \subseteq Ids(t) \cup {id}
  BY <1>1, <1>5 DEF Ids
<1>10. ASSUME id # KReservedTimer, id \in Ids(t)
       PROVE  FALSE
  <2>1. PICK i \in DOMAIN t : t[i].id = id
    BY <1>10 DEF Ids
  <2>2. /\ at(i) \in DOMAIN q /\ p \in DOMAIN q /\ at(i) # p
        /\ q[at(i)].id = q[p].id /\ q[p].id = id
    BY <1>1, <1>2, <1>3, <2>1
  <2>3. QED
    BY <1>10, <2>2 DEF OnceEach
<1>11. ASSUME Head(q).id # id
       PROVE  t # << >> /\ Head(t) = Head(q)
  <2>1. 1 \in DOMAIN q /\ q[1] = Head(q) /\ p # 1
    BY <1>1, <1>2, <1>11
  <2>2. 1 \in DOMAIN t /\ 1 < p
    BY <1>2, <2>1
  <2>3. t[1] = q[1] /\ t # << >>
    BY <1>1, <1>2, <2>2
  <2>4. QED
    BY <1>1, <2>1, <2>3
<1>12. QED
  BY <1>1, <1>6, <1>7, <1>8, <1>9, <1>10, <1>11 DEF t

LEMMA DivMonotone ==
  ASSUME NEW d \in Nat \ {0}, NEW x \in Int, NEW y \in Int, x <= y
  PROVE  x \div d <= y \div d
OBVIOUS

-----------------------------------------------------------------------------
(* What the functions that set iTimer return.                              *)

TimerType == [active : BOOLEAN, left : Nat,
              id : UserIds \cup {KReservedTimer, KNoSuchTimer}]

IsStore(q) == q \in Seq(Request) /\ InOrder(q) /\ OnceEach(q)

(* The request the RTimer is armed for is in the store ...                 *)
ArmedIn(q, t) == t.active => t.id \in Ids(q)

(* ... and, if nothing fails, it is the first, and there if there is one.  *)
ArmedForHead(q, t) ==
  /\ t.active <=> q # << >>
  /\ t.active => t.id = Head(q).id /\ t.left <= Positive(Head(q).left)

InternalRequest == [id |-> KReservedTimer, left |-> InternalAfter]

LEMMA Constants ==
  /\ KReservedTimer = 1 /\ KNoSuchTimer = 0
  /\ UserIds \subseteq Nat /\ 1 \notin UserIds /\ 0 \notin UserIds
  /\ InternalRequest \in Request
  /\ Overdue \in Nat \ {0}
BY TimerManagerAssumption
   DEF KReservedTimer, KNoSuchTimer, UserIds, InternalRequest, Request

LEMMA SetAfterType ==
  ASSUME NEW ms \in Nat, NEW id \in UserIds \cup {KReservedTimer}
  PROVE  /\ SetAfter(ms, id) \in TimerType
         /\ SetAfter(ms, id).active /\ SetAfter(ms, id).id = id
         /\ SetAfter(ms, id).left <= ms
BY TimerManagerAssumption DEF SetAfter, TimerType

LEMMA IdsOfStore ==
  ASSUME NEW q \in Seq(Request)
  PROVE  /\ Ids(q) \subseteq UserIds \cup {KReservedTimer}
         /\ q # << >> => /\ Head(q) \in Request /\ Head(q).id \in Ids(q)
                         /\ Head(q).left \in Int
                         /\ Head(q).id \in UserIds \cup {KReservedTimer}
         /\ q = << >> => Ids(q) = {}
<1>1. /\ DOMAIN q = 1..Len(q) /\ Len(q) \in Nat
      /\ \A i \in 1..Len(q) : q[i] \in Request
  OBVIOUS
<1>2. q # << >> => 1 \in DOMAIN q /\ Head(q) = q[1]
  BY <1>1
<1>3. Ids(q) \subseteq UserIds \cup {KReservedTimer}
  BY <1>1 DEF Ids, Request
<1>4. q = << >> => Ids(q) = {}
  BY DEF Ids
<1>5. q # << >> => Head(q) \in Request /\ Head(q).id \in Ids(q)
  BY <1>1, <1>2 DEF Ids
<1>6. QED
  BY <1>3, <1>4, <1>5 DEF Request

(* The internal request goes before a first one that is further away.      *)
LEMMA InternalGoesFirst ==
  ASSUME NEW q, IsStore(q), q # << >>, Head(q).left > InternalAfter
  PROVE  LET t == InsertInOrder(q, InternalRequest) IN
         t # << >> /\ Head(t) = InternalRequest
<1> DEFINE t == InsertInOrder(q, InternalRequest)
           r == InternalRequest
<1>1. /\ q \in Seq(Request) /\ InOrder(q) /\ r \in Request
      /\ r.left = InternalAfter
  BY Constants DEF IsStore, InternalRequest
<1> HIDE DEF r
<1>2. PICK p \in 1..(Len(q) + 1) :
        /\ InsertInOrder(q, r) \in Seq(Request)
        /\ Len(InsertInOrder(q, r)) = Len(q) + 1
        /\ InsertInOrder(q, r)[p] = r
        /\ \A i \in 1..Len(q) :
              IF i < p
              THEN InsertInOrder(q, r)[i] = q[i] /\ q[i].left <= r.left
              ELSE InsertInOrder(q, r)[i + 1] = q[i] /\ q[i].left > r.left
  BY <1>1, InsertFacts, Zenon
<1>3. 1 \in 1..Len(q) /\ q[1] = Head(q) /\ Len(q) \in Nat
  BY <1>1
<1>4. q[1].left \in Int /\ InternalAfter \in Int
  BY <1>1, <1>3, IdsOfStore, TimerManagerAssumption
<1>5. p = 1
  BY <1>1, <1>2, <1>3, <1>4
<1>6. QED
  BY <1>2, <1>3, <1>5 DEF r

LEMMA SetInternalFacts ==
  ASSUME NEW q, IsStore(q), NEW timer \in TimerType, ArmedIn(q, timer),
         NEW o \in SetInternalTimerL(q, timer)
  PROVE  /\ IsStore(o.store) /\ Ids(q) \subseteq Ids(o.store)
         /\ Ids(o.store) \subseteq Ids(q) \cup {KReservedTimer}
         /\ o.timer \in TimerType /\ ArmedIn(o.store, o.timer)
         /\ /\ "internal" \notin Faults /\ q # << >>
            /\ Head(q).left > InternalAfter
            => ArmedForHead(o.store, o.timer)
<1> DEFINE t == InsertInOrder(q, InternalRequest)
<1>1. /\ IsStore(t) /\ Ids(t) = Ids(q) \cup {KReservedTimer}
  BY Constants, InsertKeeps DEF IsStore, InternalRequest
<1>2. /\ SetAfter(InternalAfter, KReservedTimer) \in TimerType
      /\ SetAfter(InternalAfter, KReservedTimer).active
      /\ SetAfter(InternalAfter, KReservedTimer).id = KReservedTimer
      /\ SetAfter(InternalAfter, KReservedTimer).left <= InternalAfter
  BY SetAfterType, TimerManagerAssumption
<1>3. /\ q # << >> /\ Head(q).left > InternalAfter
      => t # << >> /\ Head(t) = InternalRequest
  BY InternalGoesFirst
<1> HIDE DEF t
<1>4. CASE o.store = t /\ o.timer = SetAfter(InternalAfter, KReservedTimer)
  <2>1. ArmedIn(o.store, o.timer)
    BY <1>1, <1>2, <1>4 DEF ArmedIn
  <2>2. ASSUME t # << >>, Head(t) = InternalRequest
        PROVE  ArmedForHead(o.store, o.timer)
    BY <1>2, <1>4, <2>2, TimerManagerAssumption
       DEF ArmedForHead, InternalRequest, Positive
  <2>3. QED
    BY <1>1, <1>2, <1>3, <1>4, <2>1, <2>2
<1>5. CASE "internal" \in Faults /\ o.store = q /\ o.timer = timer
  BY <1>5
<1>6. QED
  BY <1>4, <1>5 DEF SetInternalTimerL, Outcome, t, InternalRequest

LEMMA SetShortestFacts ==
  ASSUME NEW q, IsStore(q), NEW timer \in TimerType, ~timer.active,
         NEW o \in SetTimerWithShortestValueL(q, timer)
  PROVE  /\ IsStore(o.store) /\ Ids(q) \subseteq Ids(o.store)
         /\ Ids(o.store) \subseteq Ids(q) \cup {KReservedTimer}
         /\ o.timer \in TimerType /\ ArmedIn(o.store, o.timer)
         /\ "internal" \notin Faults => ArmedForHead(o.store, o.timer)
<1>1. ArmedIn(q, timer) /\ q \in Seq(Request)
  BY DEF ArmedIn, IsStore
<1>2. CASE q = << >>
  <2>1. o.store = q /\ o.timer = timer
    BY <1>2 DEF SetTimerWithShortestValueL, Outcome
  <2>2. QED
    BY <1>1, <1>2, <2>1 DEF ArmedForHead
<1>3. CASE q # << >> /\ TooLong(Head(q).left)
  <2>1. o \in SetInternalTimerL(q, timer)
    BY <1>3 DEF SetTimerWithShortestValueL
  <2>2. Head(q).left > InternalAfter
    <3>1. Head(q).left \in Int /\ InternalAfter \in Int /\ Sec \in Nat \ {0}
      BY <1>1, <1>3, IdsOfStore, TimerManagerAssumption
    <3>2. Head(q).left <= InternalAfter
          => Head(q).left \div Sec <= InternalAfter \div Sec
      BY <3>1, DivMonotone
    <3>3. /\ Head(q).left \div Sec \in Int /\ InternalAfter \div Sec \in Int
          /\ MaxAfter \div Sec \in Int
      BY <3>1, TimerManagerAssumption
    <3>4. QED
      BY <1>3, <3>1, <3>2, <3>3, TimerManagerAssumption DEF TooLong
  <2>3. QED
    BY <1>1, <1>3, <2>1, <2>2, SetInternalFacts
<1>4. CASE q # << >> /\ ~TooLong(Head(q).left)
  <2> DEFINE h == Head(q)
             n == SetAfter(Positive(h.left), h.id)
  <2>1. /\ h.left \in Int /\ h.id \in Ids(q)
        /\ h.id \in UserIds \cup {KReservedTimer}
    BY <1>1, <1>4, IdsOfStore
  <2>2. Positive(h.left) \in Nat
    BY <2>1 DEF Positive
  <2>3. /\ n \in TimerType /\ n.active /\ n.id = h.id
        /\ n.left <= Positive(h.left)
    BY <2>1, <2>2, SetAfterType
  <2>4. o.store = q /\ o.timer = n
    BY <1>4 DEF SetTimerWithShortestValueL, Outcome
  <2> HIDE DEF n
  <2>5. ArmedIn(q, n) /\ ArmedForHead(q, n)
    BY <1>4, <2>1, <2>3 DEF ArmedIn, ArmedForHead
  <2>6. QED
    BY <2>3, <2>4, <2>5
<1>5. QED
  BY <1>2, <1>3, <1>4

LEMMA InsertHead ==
  ASSUME NEW q, IsStore(q), NEW r \in Request
  PROVE  LET t == InsertInOrder(q, r) IN
         Head(t) = r \/ (q # << >> /\ Head(t) = Head(q))
<1>1. q \in Seq(Request) /\ InOrder(q)
  BY DEF IsStore
<1>2. PICK p \in 1..(Len(q) + 1) :
        /\ InsertInOrder(q, r) \in Seq(Request)
        /\ Len(InsertInOrder(q, r)) = Len(q) + 1
        /\ InsertInOrder(q, r)[p] = r
        /\ \A i \in 1..Len(q) :
              IF i < p
              THEN InsertInOrder(q, r)[i] = q[i] /\ q[i].left <= r.left
              ELSE InsertInOrder(q, r)[i + 1] = q[i] /\ q[i].left > r.left
  BY <1>1, InsertFacts, Zenon
<1> DEFINE t == InsertInOrder(q, r)
<1> HIDE DEF t
<1>3. t \in Seq(Request) /\ Len(t) = Len(q) + 1 /\ Len(q) \in Nat
  BY <1>1, <1>2 DEF t
<1>4. Head(t) = t[1]
  BY <1>3
<1>5. CASE p = 1
  BY <1>2, <1>4, <1>5 DEF t
<1>6. CASE p # 1
  <2>1. 1 \in 1..Len(q) /\ 1 < p
    BY <1>3, <1>6
  <2>2. t[1] = q[1]
    BY <1>2, <2>1 DEF t
  <2>3. q # << >> /\ Head(q) = q[1]
    BY <1>1, <2>1
  <2>4. QED
    BY <1>4, <2>2, <2>3 DEF t
<1>7. QED
  BY <1>5, <1>6

(* HeadIsArmed is ArmedForHead outside a callback.                         *)
LEMMA HeadIsArmedIs ==
  /\ ~iNowExpiring => (HeadIsArmed <=> ArmedForHead(iTimerStore, iTimer))
  /\ iNowExpiring /\ ~iTimer.active => HeadIsArmed
BY DEF HeadIsArmed, ArmedForHead

LEMMA InvFacts ==
  ASSUME StoreInv
  PROVE  IsStore(iTimerStore) /\ iTimer \in TimerType
         /\ ArmedIn(iTimerStore, iTimer)
BY DEF StoreInv, TypeOK, IsStore, TimerType, ArmedIn, Request

LEMMA NewIdIsFresh ==
  ASSUME StoreInv
  PROVE  NewTimerId \in UserIds
BY TimerManagerAssumption
   DEF StoreInv, TypeOK, NewTimerId, UserIds, KReservedTimer

(* StartL has put the request in: what then becomes of store and timer.    *)
LEMMA StartedFacts ==
  ASSUME StoreInv, NEW ms \in Nat, NEW id \in UserIds,
         id \notin Ids(iTimerStore),
         NEW store,
         store = InsertInOrder(iTimerStore, [id |-> id, left |-> ms]),
         NEW o \in Started(store, id, ms)
  PROVE  /\ IsStore(o.store) /\ Ids(iTimerStore) \subseteq Ids(o.store)
         /\ id \in Ids(o.store)
         /\ Ids(o.store) \subseteq Ids(iTimerStore) \cup {id, KReservedTimer}
         /\ o.timer \in TimerType /\ ArmedIn(o.store, o.timer)
         /\ iNowExpiring =>
              /\ o.timer = iTimer
              /\ Ids(o.store) \subseteq Ids(iTimerStore) \cup {id}
         /\ "internal" \notin Faults /\ HeadIsArmed /\ ~iNowExpiring
            => ArmedForHead(o.store, o.timer)
<1> DEFINE r == [id |-> id, left |-> ms]
<1>1. r \in Request /\ r.id = id /\ r.left = ms
  BY DEF Request
<1> HIDE DEF r
<1>2. store = InsertInOrder(iTimerStore, r)
  BY DEF r
<1>3. /\ IsStore(iTimerStore) /\ iTimer \in TimerType
      /\ ArmedIn(iTimerStore, iTimer)
  BY InvFacts
<1>4. /\ IsStore(store) /\ store # << >>
      /\ Ids(store) = Ids(iTimerStore) \cup {id}
  BY <1>1, <1>2, <1>3, InsertKeeps DEF IsStore
<1>5. \/ Head(store) = r
      \/ (iTimerStore # << >> /\ Head(store) = Head(iTimerStore))
  BY <1>1, <1>2, <1>3, InsertHead
<1>6. iTimerStore # << >> => Head(iTimerStore).id # id
  BY <1>3, IdsOfStore DEF IsStore
<1>7. ArmedIn(store, iTimer)
  BY <1>3, <1>4 DEF ArmedIn
<1>8. CASE iNowExpiring \/ Head(store).id # id
  <2>1. o.store = store /\ o.timer = iTimer
    BY <1>8 DEF Started, CheckIsNewTimerShortestL, Outcome
  <2>2. ASSUME HeadIsArmed, ~iNowExpiring
        PROVE  ArmedForHead(store, iTimer)
    <3>1. iTimerStore # << >> /\ Head(store) = Head(iTimerStore)
      BY <1>1, <1>5, <1>8, <2>2
    <3>2. ArmedForHead(iTimerStore, iTimer)
      BY <2>2, HeadIsArmedIs
    <3>3. QED
      BY <1>4, <3>1, <3>2 DEF ArmedForHead
  <2>3. QED
    BY <1>3, <1>4, <1>7, <2>1, <2>2
<1>9. CASE ~iNowExpiring /\ Head(store).id = id /\ ms <= MaxAfter
  <2> DEFINE n == SetAfter(ms, id)
  <2>1. o.store = store /\ o.timer = n
    BY <1>9 DEF Started, CheckIsNewTimerShortestL, Outcome
  <2>2. n \in TimerType /\ n.active /\ n.id = id /\ n.left <= ms
    BY SetAfterType
  <2> HIDE DEF n
  <2>3. Head(store) = r
    BY <1>5, <1>6, <1>9
  <2>4. ArmedForHead(store, n) /\ ArmedIn(store, n)
    BY <1>1, <1>4, <2>2, <2>3 DEF ArmedForHead, ArmedIn, Positive
  <2>5. QED
    BY <1>4, <1>9, <2>1, <2>2, <2>4
<1>10. CASE ~iNowExpiring /\ Head(store).id = id /\ ~(ms <= MaxAfter)
  <2> DEFINE n == Canceled(iTimer)
  <2>1. o \in SetInternalTimerL(store, n)
    BY <1>10 DEF Started, CheckIsNewTimerShortestL
  <2>2. n \in TimerType /\ ~n.active
    BY <1>3 DEF TimerType, Canceled, NotActive
  <2> HIDE DEF n
  <2>3. Head(store) = r
    BY <1>5, <1>6, <1>10
  <2>4. Head(store).left > InternalAfter
    <3>1. /\ InternalAfter \in Nat /\ MaxAfter \in Nat /\ Sec \in Nat \ {0}
          /\ InternalAfter \div Sec + 1 <= MaxAfter \div Sec
      BY TimerManagerAssumption
    <3>2. MaxAfter <= InternalAfter =>
             MaxAfter \div Sec <= InternalAfter \div Sec
      BY <3>1, DivMonotone
    <3>3. MaxAfter \div Sec \in Int /\ InternalAfter \div Sec \in Int
      BY <3>1
    <3>4. InternalAfter < MaxAfter
      BY <3>1, <3>2, <3>3
    <3>5. QED
      BY <1>1, <1>10, <2>3, <3>1, <3>4
  <2>5. ArmedIn(store, n)
    BY <2>2 DEF ArmedIn
  <2>6. QED
    BY <1>4, <1>10, <2>1, <2>2, <2>4, <2>5, SetInternalFacts
<1>11. QED
  BY <1>8, <1>9, <1>10

-----------------------------------------------------------------------------
(* The steps.  Each keeps StoreInv, and HeadIsArmed while the internal     *)
(* timer can be set and the home clock is left alone.                      *)

Steady == "internal" \notin Faults /\ Shifts = {}

HeldType == held \in [DOMAIN held -> Int] /\ DOMAIN held \subseteq UserIds

LEMMA InvFrom ==
  ASSUME IsStore(iTimerStore'), iTimer' \in TimerType, HeldType',
         iTimerIdCounter' \in UserIds \cup {KReservedTimer},
         iNowExpiring' \in BOOLEAN,
         DOMAIN held' \subseteq Ids(iTimerStore'),
         ArmedIn(iTimerStore', iTimer'),
         iNowExpiring' =>
           ~iTimer'.active /\ iTimer'.id \notin Ids(iTimerStore')
  PROVE  StoreInv'
BY DEF StoreInv, TypeOK, HeldType, IsStore, TimerType, ArmedIn, Request

LEMMA InvTypes ==
  ASSUME StoreInv
  PROVE  /\ HeldType
         /\ iTimerIdCounter \in UserIds \cup {KReservedTimer}
         /\ iNowExpiring \in BOOLEAN
         /\ DOMAIN held \subseteq Ids(iTimerStore)
         /\ iNowExpiring => ~iTimer.active /\ iTimer.id \notin Ids(iTimerStore)
BY DEF StoreInv, TypeOK, HeldType

LEMMA StartStep ==
  ASSUME StoreInv, NEW ms \in Durations, StartL(ms)
  PROVE  StoreInv' /\ (Steady /\ HeadIsArmed => HeadIsArmed')
<1> DEFINE id == NewTimerId
           r == [id |-> id, left |-> ms]
           store == InsertInOrder(iTimerStore, r)
<1>1. /\ id \in UserIds /\ ms \in Nat
      /\ id \notin Ids(iTimerStore) /\ id # iTimer.id
      /\ iTimerIdCounter' = id /\ iNowExpiring' = iNowExpiring
  BY NewIdIsFresh, TimerManagerAssumption DEF StartL
<1>2. /\ IsStore(iTimerStore) /\ iTimer \in TimerType
      /\ ArmedIn(iTimerStore, iTimer)
  BY InvFacts
<1>3. CASE UNCHANGED <<iTimerStore, iTimer, held>>
  <2>1. StoreInv'
    BY <1>1, <1>3 DEF StoreInv, TypeOK
  <2>2. HeadIsArmed => HeadIsArmed'
    BY <1>1, <1>3 DEF HeadIsArmed
  <2>3. QED
    BY <2>1, <2>2
<1>4. ASSUME NEW o \in Started(store, id, ms), Becomes(o),
             held' = IF o.leaves THEN held
                     ELSE [x \in DOMAIN held \cup {id} |->
                             IF x = id THEN ms ELSE held[x]]
      PROVE  StoreInv' /\ (Steady /\ HeadIsArmed => HeadIsArmed')
  <2>1. /\ IsStore(o.store) /\ Ids(iTimerStore) \subseteq Ids(o.store)
        /\ id \in Ids(o.store)
        /\ o.timer \in TimerType /\ ArmedIn(o.store, o.timer)
        /\ iNowExpiring => /\ o.timer = iTimer
                           /\ Ids(o.store) \subseteq Ids(iTimerStore) \cup {id}
        /\ "internal" \notin Faults /\ HeadIsArmed /\ ~iNowExpiring
           => ArmedForHead(o.store, o.timer)
    BY <1>1, <1>4, StartedFacts
  <2>2. iTimerStore' = o.store /\ iTimer' = o.timer
    BY <1>4 DEF Becomes
  <2> HIDE DEF id, store
  <2>3. HeldType' /\ DOMAIN held' \subseteq DOMAIN held \cup {id}
    <3>1. HeldType
      BY InvTypes
    <3>2. CASE held' = held
      BY <3>1, <3>2 DEF HeldType
    <3>3. CASE held' = [x \in DOMAIN held \cup {id} |->
                          IF x = id THEN ms ELSE held[x]]
      BY <1>1, <3>1, <3>3 DEF HeldType
    <3>4. QED
      BY <1>4, <3>2, <3>3
  <2>4. StoreInv'
    <3>1. DOMAIN held' \subseteq Ids(o.store)
      BY <2>1, <2>3, InvTypes
    <3>2. iNowExpiring => ~o.timer.active /\ o.timer.id \notin Ids(o.store)
      BY <1>1, <2>1, InvTypes
    <3>3. iNowExpiring' \in BOOLEAN
      BY <1>1, InvTypes
    <3>4. QED
      BY <1>1, <2>1, <2>2, <2>3, <3>1, <3>2, <3>3, InvFrom
  <2>5. ASSUME Steady, HeadIsArmed
        PROVE  HeadIsArmed'
    <3>1. CASE iNowExpiring
      BY <1>1, <2>1, <2>2, <3>1, InvTypes DEF HeadIsArmed
    <3>2. CASE ~iNowExpiring
      <4>1. ArmedForHead(o.store, o.timer)
        BY <2>1, <2>5, <3>2 DEF Steady
      <4>2. QED
        BY <1>1, <2>2, <3>2, <4>1 DEF HeadIsArmed, ArmedForHead
    <3>3. QED
      BY <3>1, <3>2
  <2>6. QED
    BY <2>4, <2>5
<1>5. QED
  BY <1>3, <1>4 DEF StartL

(* Where store and timer come from SetTimerWithShortestValueL.             *)
LEMMA SetShortestStep ==
  ASSUME StoreInv, NEW q, IsStore(q), NEW timer \in TimerType, ~timer.active,
         NEW o \in SetTimerWithShortestValueL(q, timer), Becomes(o),
         ~iNowExpiring', iNowExpiring' \in BOOLEAN, HeldType',
         DOMAIN held' \subseteq Ids(q), UNCHANGED iTimerIdCounter
  PROVE  StoreInv' /\ (Steady => HeadIsArmed')
<1>1. /\ IsStore(o.store) /\ Ids(q) \subseteq Ids(o.store)
      /\ o.timer \in TimerType /\ ArmedIn(o.store, o.timer)
      /\ "internal" \notin Faults => ArmedForHead(o.store, o.timer)
  BY SetShortestFacts
<1>2. iTimerStore' = o.store /\ iTimer' = o.timer
  BY DEF Becomes
<1>3. iTimerIdCounter' \in UserIds \cup {KReservedTimer}
  BY InvTypes
<1>4. StoreInv'
  BY <1>1, <1>2, <1>3, InvFrom
<1>5. Steady => HeadIsArmed'
  BY <1>1, <1>2 DEF Steady, HeadIsArmed, ArmedForHead
<1>6. QED
  BY <1>4, <1>5

LEMMA HeldWithout ==
  ASSUME StoreInv, NEW id,
         held' = Restrict(held, DOMAIN held \ {id})
  PROVE  HeldType' /\ DOMAIN held' = DOMAIN held \ {id}
<1>1. HeldType
  BY InvTypes
<1>2. held' = [x \in DOMAIN held \ {id} |-> held[x]]
  BY DEF Restrict
<1>3. QED
  BY <1>1, <1>2 DEF HeldType

LEMMA StopStep ==
  ASSUME StoreInv, NEW id \in DOMAIN held, Stop(id)
  PROVE  StoreInv' /\ (Steady /\ HeadIsArmed => HeadIsArmed')
<1> DEFINE q == Without(iTimerStore, id)
<1>1. /\ IsStore(iTimerStore) /\ iTimer \in TimerType
      /\ ArmedIn(iTimerStore, iTimer)
      /\ id \in Ids(iTimerStore)
  BY InvFacts DEF Stop
<1>2. id # KReservedTimer
  BY InvTypes, Constants DEF HeldType
<1>3. /\ IsStore(q) /\ Ids(q) \subseteq Ids(iTimerStore)
      /\ Ids(iTimerStore) \subseteq Ids(q) \cup {id}
      /\ Head(iTimerStore).id # id =>
           q # << >> /\ Head(q) = Head(iTimerStore)
  BY <1>1, <1>2, RemoveKeeps DEF IsStore
<1>4. /\ HeldType' /\ DOMAIN held' = DOMAIN held \ {id}
      /\ iTimerIdCounter' = iTimerIdCounter /\ iNowExpiring' = iNowExpiring
  BY HeldWithout DEF Stop
<1>5. DOMAIN held' \subseteq Ids(q)
  BY <1>3, <1>4, InvTypes
<1>6. CASE id = iTimer.id
  <2>1. ~iNowExpiring
    BY <1>1, <1>6, InvTypes
  <2>2. Canceled(iTimer) \in TimerType /\ ~Canceled(iTimer).active
    BY <1>1 DEF TimerType, Canceled, NotActive
  <2>3. PICK o \in SetTimerWithShortestValueL(q, Canceled(iTimer)) : Becomes(o)
    BY <1>6 DEF Stop
  <2> HIDE DEF q
  <2>4. QED
    BY <1>3, <1>4, <1>5, <2>1, <2>2, <2>3, SetShortestStep, InvTypes
<1>7. CASE id # iTimer.id
  <2>1. iTimerStore' = q /\ iTimer' = iTimer
    BY <1>7 DEF Stop, Becomes, Outcome
  <2> HIDE DEF q
  <2>2. ArmedIn(q, iTimer)
    BY <1>1, <1>3, <1>7 DEF ArmedIn
  <2>3. StoreInv'
    <3>1. iNowExpiring => ~iTimer.active /\ iTimer.id \notin Ids(q)
      BY <1>3, InvTypes
    <3>2. iTimerIdCounter' \in UserIds \cup {KReservedTimer}
          /\ iNowExpiring' \in BOOLEAN
      BY <1>4, InvTypes
    <3>3. QED
      BY <1>1, <1>3, <1>4, <1>5, <2>1, <2>2, <3>1, <3>2, InvFrom
  <2>4. ASSUME HeadIsArmed
        PROVE  HeadIsArmed'
    <3>1. CASE iNowExpiring
      BY <1>4, <2>1, <3>1, InvTypes DEF HeadIsArmed
    <3>2. CASE ~iNowExpiring
      <4>1. ArmedForHead(iTimerStore, iTimer)
        BY <2>4, <3>2, HeadIsArmedIs
      <4>2. iTimerStore # << >>
        BY <1>1, IdsOfStore DEF IsStore
      <4>3. Head(iTimerStore).id # id
        BY <1>7, <4>1, <4>2 DEF ArmedForHead
      <4>4. ArmedForHead(q, iTimer)
        BY <1>3, <4>1, <4>2, <4>3 DEF ArmedForHead
      <4>5. QED
        BY <1>4, <2>1, <3>2, <4>4 DEF HeadIsArmed, ArmedForHead
    <3>3. QED
      BY <3>1, <3>2
  <2>5. QED
    BY <2>3, <2>4
<1>8. QED
  BY <1>6, <1>7

LEMMA ExpiredStep ==
  ASSUME StoreInv, TimerExpiredL
  PROVE  StoreInv' /\ (Steady /\ HeadIsArmed => HeadIsArmed')
<1> DEFINE id == iTimer.id
           q == Without(iTimerStore, id)
           n == NotActive(iTimer)
<1>1. /\ IsStore(iTimerStore) /\ iTimer \in TimerType /\ iTimer.active
      /\ id \in Ids(iTimerStore) /\ iTimerIdCounter' = iTimerIdCounter
      /\ ~iNowExpiring
  BY InvFacts, InvTypes DEF TimerExpiredL, ArmedIn
<1>2. /\ IsStore(q) /\ Ids(q) \subseteq Ids(iTimerStore)
      /\ Ids(iTimerStore) \subseteq Ids(q) \cup {id}
      /\ id # KReservedTimer => id \notin Ids(q)
  BY <1>1, RemoveKeeps DEF IsStore
<1>3. n \in TimerType /\ ~n.active /\ n.id = id
  BY <1>1 DEF TimerType, NotActive
<1>4. CASE id # KReservedTimer
  <2>1. /\ iTimerStore' = q /\ iTimer' = n /\ iNowExpiring' = TRUE
        /\ held' = Restrict(held, DOMAIN held \ {id})
    BY <1>1, <1>4 DEF TimerExpiredL, Becomes, Outcome
  <2>2. HeldType' /\ DOMAIN held' = DOMAIN held \ {id}
    BY <2>1, HeldWithout
  <2> HIDE DEF q, n
  <2>3. DOMAIN held' \subseteq Ids(q)
    BY <1>2, <2>2, InvTypes
  <2>4. ArmedIn(q, n)
    BY <1>3 DEF ArmedIn
  <2>5. StoreInv'
    BY <1>1, <1>2, <1>3, <1>4, <2>1, <2>2, <2>3, <2>4, InvTypes, InvFrom
  <2>6. HeadIsArmed'
    BY <1>3, <2>1 DEF HeadIsArmed
  <2>7. QED
    BY <2>5, <2>6
<1>5. CASE id = KReservedTimer
  <2>1. /\ \E o \in SetTimerWithShortestValueL(q, n) : Becomes(o)
        /\ UNCHANGED <<iNowExpiring, held>>
    BY <1>1, <1>5 DEF TimerExpiredL
  <2>2. PICK o \in SetTimerWithShortestValueL(q, n) : Becomes(o)
    BY <2>1
  <2> HIDE DEF q, n
  <2>3. HeldType' /\ DOMAIN held' = DOMAIN held
    BY <2>1, InvTypes DEF HeldType
  <2>4. DOMAIN held' \subseteq Ids(q)
    <3>1. id \notin DOMAIN held
      BY <1>5, InvTypes, Constants DEF HeldType
    <3>2. QED
      BY <1>2, <2>3, <3>1, InvTypes
  <2>5. QED
    <3>1. /\ ~iNowExpiring' /\ iNowExpiring' \in BOOLEAN
          /\ UNCHANGED iTimerIdCounter
      BY <1>1, <2>1, InvTypes
    <3>2. QED
      BY <1>2, <1>3, <2>2, <2>3, <2>4, <3>1, SetShortestStep
<1>6. QED
  BY <1>4, <1>5

LEMMA CallbackStep ==
  ASSUME StoreInv, CallbackEnds
  PROVE  StoreInv' /\ (Steady /\ HeadIsArmed => HeadIsArmed')
<1>1. /\ IsStore(iTimerStore) /\ iTimer \in TimerType /\ ~iTimer.active
      /\ iNowExpiring' = FALSE /\ UNCHANGED <<iTimerIdCounter, held>>
  BY InvFacts, InvTypes DEF CallbackEnds
<1>2. PICK o \in SetTimerWithShortestValueL(iTimerStore, iTimer) : Becomes(o)
  BY DEF CallbackEnds
<1>3. HeldType' /\ DOMAIN held' \subseteq Ids(iTimerStore)
  BY <1>1, InvTypes DEF HeldType
<1>4. QED
  BY <1>1, <1>2, <1>3, SetShortestStep

(* Time and the home clock move all requests, and keep their order.        *)
LEMMA MovedKeeps ==
  ASSUME NEW q, IsStore(q), NEW t \in Seq(Request), Len(t) = Len(q),
         \A i \in 1..Len(q) : t[i].id = q[i].id,
         \A i, j \in 1..Len(q) :
            q[i].left <= q[j].left => t[i].left <= t[j].left
  PROVE  IsStore(t) /\ Ids(t) = Ids(q)
<1>1. /\ q \in Seq(Request) /\ DOMAIN q = 1..Len(q) /\ DOMAIN t = 1..Len(q)
      /\ InOrder(q) /\ OnceEach(q)
  BY DEF IsStore
<1>2. InOrder(t)
  BY <1>1 DEF InOrder
<1>3. OnceEach(t)
  BY <1>1 DEF OnceEach
<1>4. Ids(t) = Ids(q)
  BY <1>1 DEF Ids
<1>5. QED
  BY <1>2, <1>3, <1>4 DEF IsStore

LEMMA LaterFacts ==
  ASSUME NEW x \in Int, NEW y \in Int
  PROVE  /\ Later(x) \in Int
         /\ x <= y => Later(x) <= Later(y)
         /\ x <= Positive(y) => Positive(x - 1) <= Positive(Later(y))
BY Constants DEF Later, Positive

LEMMA TickStep ==
  ASSUME StoreInv, Tick
  PROVE  StoreInv' /\ (Steady /\ HeadIsArmed => HeadIsArmed')
<1> DEFINE q == iTimerStore
           t == [i \in DOMAIN q |-> [q[i] EXCEPT !.left = Later(@)]]
           n == [iTimer EXCEPT !.left = Positive(@ - 1)]
<1>1. /\ iTimerStore' = t /\ iTimer' = n
      /\ held' = [id \in DOMAIN held |-> Later(held[id])]
      /\ UNCHANGED <<iTimerIdCounter, iNowExpiring>>
  BY DEF Tick
<1>2. /\ IsStore(q) /\ iTimer \in TimerType /\ ArmedIn(q, iTimer)
      /\ q \in Seq(Request)
  BY InvFacts DEF IsStore
<1>3. /\ Len(q) \in Nat /\ DOMAIN q = 1..Len(q)
      /\ \A i \in 1..Len(q) : q[i] \in Request /\ q[i].left \in Int
  <2>1. Len(q) \in Nat /\ DOMAIN q = 1..Len(q)
    BY <1>2
  <2>2. \A i \in 1..Len(q) : q[i] \in Request
    BY <1>2
  <2>3. QED
    BY <2>1, <2>2 DEF Request
<1>4. \A i \in 1..Len(q) :
        LET e == [q[i] EXCEPT !.left = Later(@)] IN
        e \in Request /\ e.id = q[i].id /\ e.left = Later(q[i].left)
  BY <1>3, LaterFacts DEF Request
<1>5. /\ t \in Seq(Request) /\ Len(t) = Len(q)
      /\ \A i \in 1..Len(q) : t[i].id = q[i].id /\ t[i].left = Later(q[i].left)
  <2>1. \A i \in 1..Len(q) : /\ t[i] \in Request /\ t[i].id = q[i].id
                             /\ t[i].left = Later(q[i].left)
    BY <1>3, <1>4, Zenon
  <2>2. t \in [1..Len(q) -> Request]
    <3>1. t = [i \in 1..Len(q) |-> t[i]]
      BY <1>3, Zenon
    <3> HIDE DEF t
    <3>2. QED
      BY <2>1, <3>1
  <2> HIDE DEF t
  <2>3. t \in Seq(Request) /\ Len(t) = Len(q)
    BY <1>3, <2>2
  <2>4. QED
    BY <2>1, <2>3
<1> HIDE DEF t
<1>6. IsStore(t) /\ Ids(t) = Ids(q)
  <2>1. \A i, j \in 1..Len(q) :
          q[i].left <= q[j].left => t[i].left <= t[j].left
    BY <1>3, <1>5, LaterFacts
  <2>2. QED
    BY <1>2, <1>5, <2>1, MovedKeeps
<1>7. /\ n \in TimerType /\ n.active = iTimer.active /\ n.id = iTimer.id
      /\ n.left = Positive(iTimer.left - 1)
  BY <1>2 DEF TimerType, Positive
<1> HIDE DEF n
<1>8. HeldType' /\ DOMAIN held' = DOMAIN held
  <2>1. HeldType
    BY InvTypes
  <2>2. \A id \in DOMAIN held : Later(held[id]) \in Int
    BY <2>1, LaterFacts DEF HeldType
  <2>3. QED
    BY <1>1, <2>1, <2>2 DEF HeldType
<1>9. StoreInv'
  <2>1. ArmedIn(t, n)
    BY <1>2, <1>6, <1>7 DEF ArmedIn
  <2>2. iNowExpiring => ~n.active /\ n.id \notin Ids(t)
    BY <1>6, <1>7, InvTypes
  <2>3. QED
    BY <1>1, <1>6, <1>7, <1>8, <2>1, <2>2, InvTypes, InvFrom
<1>10. ASSUME HeadIsArmed
       PROVE  HeadIsArmed'
  <2>1. q # << >> <=> t # << >>
    BY <1>2, <1>3, <1>5
  <2>2. CASE iNowExpiring
    BY <1>1, <1>7, <2>2, InvTypes DEF HeadIsArmed
  <2>3. CASE ~iNowExpiring
    <3>1. ArmedForHead(q, iTimer)
      BY <1>10, <2>3, HeadIsArmedIs
    <3>2. ASSUME q # << >>
          PROVE  /\ Head(t).id = Head(q).id
                 /\ Head(t).left = Later(Head(q).left) /\ Head(q).left \in Int
      BY <1>2, <1>3, <1>5, <2>1, <3>2
    <3>3. ASSUME q # << >>, iTimer.left <= Positive(Head(q).left)
          PROVE  n.left <= Positive(Head(t).left)
      <4>1. iTimer.left \in Int
        BY <1>2 DEF TimerType
      <4>2. QED
        BY <1>7, <3>2, <3>3, <4>1, LaterFacts
    <3>4. ArmedForHead(t, n)
      BY <1>7, <2>1, <3>1, <3>2, <3>3 DEF ArmedForHead
    <3>5. QED
      BY <1>1, <2>3, <3>4 DEF HeadIsArmed, ArmedForHead
  <2>4. QED
    BY <2>2, <2>3
<1>11. QED
  BY <1>9, <1>10

LEMMA ClockStep ==
  ASSUME StoreInv, NEW shift \in Int, ClockChanges(shift)
  PROVE  StoreInv'
<1> DEFINE q == iTimerStore
           t == [i \in DOMAIN q |-> [q[i] EXCEPT !.left = @ - shift]]
<1>1. /\ iTimerStore' = t
      /\ UNCHANGED <<iTimer, iTimerIdCounter, iNowExpiring, held>>
  BY DEF ClockChanges
<1>2. /\ IsStore(q) /\ iTimer \in TimerType /\ ArmedIn(q, iTimer)
      /\ q \in Seq(Request)
  BY InvFacts DEF IsStore
<1>3. /\ Len(q) \in Nat /\ DOMAIN q = 1..Len(q)
      /\ \A i \in 1..Len(q) : q[i] \in Request /\ q[i].left \in Int
  <2>1. Len(q) \in Nat /\ DOMAIN q = 1..Len(q)
    BY <1>2
  <2>2. \A i \in 1..Len(q) : q[i] \in Request
    BY <1>2
  <2>3. QED
    BY <2>1, <2>2 DEF Request
<1>4. \A i \in 1..Len(q) :
        LET e == [q[i] EXCEPT !.left = @ - shift] IN
        e \in Request /\ e.id = q[i].id /\ e.left = q[i].left - shift
  BY <1>3 DEF Request
<1>5. /\ t \in Seq(Request) /\ Len(t) = Len(q)
      /\ \A i \in 1..Len(q) :
            t[i].id = q[i].id /\ t[i].left = q[i].left - shift
  <2>1. \A i \in 1..Len(q) : /\ t[i] \in Request /\ t[i].id = q[i].id
                             /\ t[i].left = q[i].left - shift
    BY <1>3, <1>4, Zenon
  <2>2. t \in [1..Len(q) -> Request]
    <3>1. t = [i \in 1..Len(q) |-> t[i]]
      BY <1>3, Zenon
    <3> HIDE DEF t
    <3>2. QED
      BY <2>1, <3>1
  <2> HIDE DEF t
  <2>3. t \in Seq(Request) /\ Len(t) = Len(q)
    BY <1>3, <2>2
  <2>4. QED
    BY <2>1, <2>3
<1> HIDE DEF t
<1>6. IsStore(t) /\ Ids(t) = Ids(q)
  <2>1. \A i, j \in 1..Len(q) :
          q[i].left <= q[j].left => t[i].left <= t[j].left
    BY <1>3, <1>5
  <2>2. QED
    BY <1>2, <1>5, <2>1, MovedKeeps
<1>7. HeldType' /\ ArmedIn(t, iTimer)
  BY <1>1, <1>2, <1>6, InvTypes DEF HeldType, ArmedIn
<1>8. QED
  BY <1>1, <1>2, <1>6, <1>7, InvTypes, InvFrom

LEMMA InvInit == Init => StoreInv /\ HeadIsArmed
<1> SUFFICES ASSUME Init
             PROVE  StoreInv /\ HeadIsArmed
  OBVIOUS
<1>1. iTimerStore = << >> /\ ~iTimer.active /\ iNowExpiring = FALSE
  BY DEF Init
<1>2. TypeOK
  <2>1. iTimerStore \in Seq([id : UserIds \cup {KReservedTimer}, left : Int])
    BY <1>1
  <2>2. held \in [DOMAIN held -> Int] /\ DOMAIN held \subseteq UserIds
    BY DEF Init
  <2>3. iTimer \in [active : BOOLEAN, left : Nat,
                   id : UserIds \cup {KReservedTimer, KNoSuchTimer}]
    BY DEF Init
  <2>4. QED
    BY <1>1, <2>1, <2>2, <2>3 DEF Init, TypeOK
<1>3. DOMAIN held = {}
  BY DEF Init
<1>4. StoreInv
  BY <1>1, <1>2, <1>3 DEF StoreInv, OnceEach, InOrder
<1>5. HeadIsArmed
  BY <1>1 DEF HeadIsArmed
<1>6. QED
  BY <1>4, <1>5

LEMMA InvStep ==
  ASSUME StoreInv, [Next]_vars
  PROVE  StoreInv' /\ (Steady /\ HeadIsArmed => HeadIsArmed')
<1>1. ASSUME NEW ms \in Durations, StartL(ms)
      PROVE  StoreInv' /\ (Steady /\ HeadIsArmed => HeadIsArmed')
  BY <1>1, StartStep
<1>2. ASSUME NEW id \in DOMAIN held, Stop(id)
      PROVE  StoreInv' /\ (Steady /\ HeadIsArmed => HeadIsArmed')
  BY <1>2, StopStep
<1>3. ASSUME NEW shift \in Shifts, ClockChanges(shift) \/ ClockChanges(-shift)
      PROVE  StoreInv' /\ (Steady => FALSE)
  <2>1. shift \in Int /\ -shift \in Int
    BY TimerManagerAssumption
  <2>2. StoreInv'
    BY <1>3, <2>1, ClockStep
  <2>3. QED
    BY <2>2 DEF Steady
<1>4. CASE UNCHANGED vars
  <2>1. StoreInv'
    BY <1>4 DEF vars, StoreInv, TypeOK
  <2>2. HeadIsArmed => HeadIsArmed'
    BY <1>4 DEF vars, HeadIsArmed
  <2>3. QED
    BY <2>1, <2>2
<1>5. QED
  BY <1>1, <1>2, <1>3, <1>4, ExpiredStep, CallbackStep, TickStep DEF Next

-----------------------------------------------------------------------------
(* Requests, timer, counter and the ids of the users are well formed.      *)
THEOREM TypeCorrect == Spec => []TypeOK
<1>1. StoreInv => TypeOK
  BY DEF StoreInv
<1>2. QED
  BY InvInit, InvStep, <1>1, PTL DEF Spec

(* A started timer is in the store once, the armed request is there, and   *)
(* the store is in order, whatever fails and however the clock is moved.   *)
THEOREM StoreConsistentAlways == Spec => []StoreConsistent
<1>1. ASSUME StoreInv
      PROVE  StoreConsistent
  <2>1. /\ iTimerStore \in Seq(Request) /\ InOrder(iTimerStore)
        /\ OnceEach(iTimerStore) /\ ArmedIn(iTimerStore, iTimer)
    BY <1>1, InvFacts DEF IsStore
  <2>2. ASSUME NEW id \in DOMAIN held
        PROVE  Cardinality({i \in DOMAIN iTimerStore :
                              iTimerStore[i].id = id}) = 1
    <3>1. id \in Ids(iTimerStore) /\ id # KReservedTimer
      BY <1>1, InvTypes, Constants DEF HeldType
    <3>2. PICK k \in DOMAIN iTimerStore : iTimerStore[k].id = id
      BY <3>1 DEF Ids
    <3>3. {i \in DOMAIN iTimerStore : iTimerStore[i].id = id} = {k}
      BY <2>1, <3>1, <3>2 DEF OnceEach
    <3>4. QED
      BY <3>3, FS_Singleton
  <2>3. QED
    BY <2>1, <2>2 DEF StoreConsistent, InOrder, ArmedIn
<1>2. QED
  BY InvInit, InvStep, <1>1, PTL DEF Spec

(* SetTimerWithShortestValueL always finds the RTimer idle after a         *)
(* callback.                                                               *)
THEOREM IdleInCallbackAlways == Spec => []IdleInCallback
<1>1. StoreInv => IdleInCallback
  BY DEF StoreInv, IdleInCallback
<1>2. QED
  BY InvInit, InvStep, <1>1, PTL DEF Spec

(* While the internal timer can be set and the home clock is left alone,   *)
(* the RTimer runs for the first request and never for longer than that.   *)
THEOREM HeadIsArmedAlways ==
  ASSUME Steady
  PROVE  Spec => []HeadIsArmed
<1>1. Init => StoreInv /\ HeadIsArmed
  BY InvInit
<1>2. StoreInv /\ HeadIsArmed /\ [Next]_vars => StoreInv' /\ HeadIsArmed'
  BY InvStep
<1>3. QED
  BY <1>1, <1>2, PTL DEF Spec

=============================================================================
