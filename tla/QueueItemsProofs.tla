-------------------------- MODULE QueueItemsProofs --------------------------
(* What the operations on the queue's multimap return, for every queue. *)
EXTENDS QueueItems, FiniteSetTheorems, WellFoundedInduction, SequenceTheorems, TLAPS

(* A nonempty set of naturals has a smallest member: the form of induction the
   lemmas below use. *)
LEMMA LeastNumber ==
    ASSUME NEW T \in SUBSET Nat, T # {}
    PROVE  \E x \in T : \A y \in T : x <= y
<1>1. PICK x \in T : \A y \in T : <<y, x>> \notin OpToRel(<, Nat)
  BY WFMin, NatLessThanWellFounded, Zenon
<1>2. \A y \in T : ~(y < x)
  BY <1>1, Zenon DEF OpToRel
<1>3. \A y \in T : x <= y
  BY <1>2
<1> QED BY <1>3

(* A set of positions is finite, and so are its initial parts. *)
LEMMA PositionsFinite ==
    ASSUME NEW n \in Nat, NEW K \in SUBSET (1 .. n)
    PROVE  IsFiniteSet(K) /\ Cardinality(K) \in Nat
<1>1. IsFiniteSet(1 .. n)
  <2>1. 1 \in Int /\ n \in Int
    BY SMT
  <2> QED BY <2>1, FS_Interval
<1>2. IsFiniteSet(K)
  BY <1>1, FS_Subset
<1> QED BY <1>2, FS_CardinalityType

Upto(K, m) == {k \in K : k <= m}

(* Among the positions 1 .. n, a set of them has a j-th smallest member for
   every j up to its size: Nth picks an element that exists, the j-th. *)
LEMMA NthExists ==
    ASSUME NEW n \in Nat, NEW K \in SUBSET (1 .. n), NEW j \in 1 .. Cardinality(K)
    PROVE  Nth(K, j) \in K /\ Cardinality(Upto(K, Nth(K, j))) = j
<1> DEFINE S == {m \in Nat : Cardinality(Upto(K, m)) >= j}
<1>1. Cardinality(K) \in Nat
  BY PositionsFinite
<1>2. j \in Nat /\ j > 0 /\ j <= Cardinality(K)
  BY <1>1
<1>3. \A m \in Nat : IsFiniteSet(Upto(K, m)) /\ Cardinality(Upto(K, m)) \in Nat
  <2> TAKE m \in Nat
  <2>1. Upto(K, m) \in SUBSET (1 .. n)
    BY DEF Upto
  <2> QED BY <2>1, PositionsFinite
<1>4. n \in S
  <2>1. \A k \in K : k <= n
    OBVIOUS
  <2>2. Upto(K, n) = K
    BY <2>1 DEF Upto
  <2> QED BY <2>2, <1>1, <1>2
<1>5. PICK i \in S : \A m \in S : i <= m
  <2>1. S \in SUBSET Nat /\ S # {}
    BY <1>4
  <2> HIDE DEF S
  <2> QED BY <2>1, LeastNumber
<1>6. i \in Nat /\ Cardinality(Upto(K, i)) >= j
  BY <1>5
<1>7. i # 0
  <2>1. \A k \in K : ~(k <= 0)
    OBVIOUS
  <2>2. Upto(K, 0) = {}
    BY <2>1, Zenon DEF Upto
  <2>3. Cardinality(Upto(K, 0)) = 0
    BY <2>2, FS_EmptySet
  <2> QED BY <2>3, <1>2, <1>6
<1>8. i - 1 \in Nat /\ ~(i - 1 \in S)
  <2>1. i - 1 \in Nat
    BY <1>6, <1>7
  <2>2. ~(i <= i - 1)
    BY <1>6
  <2> HIDE DEF S
  <2> QED BY <2>1, <2>2, <1>5
<1>9. Cardinality(Upto(K, i - 1)) < j
  BY <1>2, <1>3, <1>8
<1>10. \A k \in K : k \in Nat
  OBVIOUS
<1>11. i \in K
  <2> SUFFICES ASSUME i \notin K PROVE FALSE
    OBVIOUS
  <2> HIDE DEF S
  <2>0. \A k \in K : k <= i <=> k <= i - 1
    BY <1>6, <1>10
  <2>1. Upto(K, i) = Upto(K, i - 1)
    BY <2>0, Zenon DEF Upto
  <2>2. Cardinality(Upto(K, i - 1)) \in Nat
    BY <1>3, <1>8
  <2> HIDE DEF S
  <2> QED BY <2>1, <2>2, <1>2, <1>6, <1>9
<1>12. Cardinality(Upto(K, i)) = j
  <2> HIDE DEF S
  <2>0. /\ \A k \in K : k <= i <=> k <= i - 1 \/ k = i
        /\ i <= i
    BY <1>6, <1>10
  <2>1. Upto(K, i) = Upto(K, i - 1) \cup {i}
    BY <2>0, <1>11, Zenon DEF Upto
  <2>2. i \notin Upto(K, i - 1)
    BY <1>6 DEF Upto
  <2>3. Cardinality(Upto(K, i)) = Cardinality(Upto(K, i - 1)) + 1
    BY <2>1, <2>2, <1>3, <1>8, FS_AddElement
  <2>4. Cardinality(Upto(K, i - 1)) \in Nat
    BY <1>3, <1>8
  <2> HIDE DEF S
  <2> QED BY <2>3, <2>4, <1>2, <1>6, <1>9
<1>13. Nth(K, j) = CHOOSE k \in K : Cardinality(Upto(K, k)) = j
  BY Zenon DEF Nth, Upto
<1> HIDE DEF S
<1> QED BY <1>11, <1>12, <1>13, Zenon

(* Keeping some positions of a sequence gives a sequence over the same set. *)
LEMMA KeptType ==
    ASSUME NEW E, NEW s \in Seq(E), NEW K \in SUBSET DOMAIN s
    PROVE  Kept(s, K) \in Seq(E) /\ Len(Kept(s, K)) = Cardinality(K)
<1>1. Len(s) \in Nat /\ DOMAIN s = 1 .. Len(s)
  OBVIOUS
<1>2. K \in SUBSET (1 .. Len(s))
  BY <1>1
<1>3. Cardinality(K) \in Nat
  BY <1>1, <1>2, PositionsFinite
<1>4. \A j \in 1 .. Cardinality(K) : Nth(K, j) \in 1 .. Len(s)
  BY <1>1, <1>2, NthExists
<1>5. \A j \in 1 .. Cardinality(K) : s[Nth(K, j)] \in E
  BY <1>1, <1>4
<1> HIDE DEF Nth
<1> QED BY <1>3, <1>5 DEF Kept

-----------------------------------------------------------------------------
(* The queue keeps its type *)

Queues == [Classes -> Seq(Item)]

(* Inserting an item in a class. *)
LEMMA InsertType ==
    ASSUME NEW q \in Queues, NEW p \in Classes, NEW item \in Item
    PROVE  Insert(q, p, item) \in Queues
<1>1. <<item>> \o q[p] \in Seq(Item)
  <2>1. <<item>> \in Seq(Item)
    OBVIOUS
  <2>2. q[p] \in Seq(Item)
    BY DEF Queues
  <2> HIDE DEF Item
  <2> QED BY <2>1, <2>2, ConcatProperties
<1> QED BY <1>1, Zenon DEF Insert, Queues

(* Removing the items equal to one. *)
LEMMA RemoveType ==
    ASSUME NEW q \in Queues, NEW p \in Classes, NEW item
    PROVE  Remove(q, p, item) \in Queues
<1>1. q[p] \in Seq(Item)
  BY DEF Queues
<1>2. Survivors(q[p], item) \in SUBSET DOMAIN q[p]
  BY DEF Survivors
<1>3. Kept(q[p], Survivors(q[p], item)) \in Seq(Item)
  BY <1>1, <1>2, KeptType
<1> QED BY <1>3, Zenon DEF Remove, Queues

(* The first class a poll is found in is one of the classes or None. *)
LEMMA RecurringClassType ==
    ASSUME NEW q, NEW c
    PROVE  RecurringClass(q, c) \in Classes \cup {None}
<1>1. CASE PollClasses(q, c) = {}
  BY <1>1 DEF RecurringClass
<1>2. CASE PollClasses(q, c) # {}
  <2>1. PollClasses(q, c) \in SUBSET Nat /\ PollClasses(q, c) \subseteq Classes
    BY DEF PollClasses, Classes
  <2>2. \E p \in PollClasses(q, c) : \A o \in PollClasses(q, c) : p <= o
    BY <2>1, <1>2, LeastNumber
  <2>3. RecurringClass(q, c) \in PollClasses(q, c)
    BY <2>2, <1>2, Zenon DEF RecurringClass
  <2> QED BY <2>1, <2>3
<1> QED BY <1>1, <1>2

(* Items the callers make. *)
LEMMA ItemTypes ==
    ASSUME NEW c \in Commands
    PROVE  /\ Get(c) \in Item /\ Poll(c) \in Item
           /\ \A v \in Values : Set(c, v) \in Item
BY DEF Get, Poll, Set, Item

(* add() *)
LEMMA AddedType ==
    ASSUME NEW q \in Queues, NEW p \in Classes, NEW item \in Item, NEW unique \in BOOLEAN
    PROVE  Added(q, p, item, unique) \in Queues
<1> DEFINE cleaned == IF unique THEN Remove(q, p, item) ELSE q
           asked == IF item.recurring /\ item.command \notin Unasked
                    THEN Insert(cleaned, Immediate, Get(item.command)) ELSE cleaned
<1>1. cleaned \in Queues
  BY RemoveType
<1>2. Immediate \in Classes /\ item.command \in Commands
  BY DEF Immediate, Classes, Item
<1>3. Get(item.command) \in Item
  BY <1>2, ItemTypes
<1> HIDE DEF cleaned
<1>4. asked \in Queues
  BY <1>1, <1>2, <1>3, InsertType
<1> HIDE DEF asked
<1>5. Insert(asked, p, item) \in Queues
  BY <1>4, InsertType
<1>6. Added(q, p, item, unique) = q \/ Added(q, p, item, unique) = Insert(asked, p, item)
  BY Zenon DEF Added, asked, cleaned
<1> QED BY <1>5, <1>6

(* del() *)
LEMMA DeletedType ==
    ASSUME NEW q \in Queues, NEW c
    PROVE  Deleted(q, c) \in Queues
<1>1. CASE RecurringClass(q, c) = None
  BY <1>1 DEF Deleted
<1>2. CASE RecurringClass(q, c) # None
  <2>1. RecurringClass(q, c) \in Classes
    BY <1>2, RecurringClassType
  <2> QED BY <2>1, <1>2, RemoveType DEF Deleted
<1> QED BY <1>1, <1>2

(* run() takes the oldest item of a class that is not empty. *)
LEMMA TakenType ==
    ASSUME NEW q \in Queues, NEW p \in Classes, q[p] # <<>>
    PROVE  Oldest(q[p]) \in Item /\ Taken(q, p) \in Queues
<1>1. q[p] \in Seq(Item) /\ Len(q[p]) \in 1 .. Len(q[p])
  <2>1. q[p] \in Seq(Item)
    BY DEF Queues
  <2> HIDE DEF Item
  <2> QED BY <2>1
<1>2. Oldest(q[p]) \in Item
  BY <1>1, ElementOfSeq DEF Oldest
<1>3. ButOldest(q[p]) \in Seq(Item)
  BY <1>1, SubSeqProperties DEF ButOldest
<1> DEFINE rest == [q EXCEPT ![p] = ButOldest(q[p])]
<1>4. rest \in Queues
  BY <1>3, Zenon DEF Queues
<1> HIDE DEF rest
<1>5. Insert(rest, p, Oldest(q[p])) \in Queues
  BY <1>2, <1>4, InsertType
<1>6. Taken(q, p) = rest \/ Taken(q, p) = Insert(rest, p, Oldest(q[p]))
  BY Zenon DEF Taken, rest
<1> QED BY <1>2, <1>4, <1>5, <1>6

-----------------------------------------------------------------------------
(* Which polls the queue holds *)

Holds(s, c) == \E i \in DOMAIN s : SameItem(s[i], Poll(c))

(* A poll is in the queue exactly if it has a first class. *)
LEMMA PolledIffHeld ==
    ASSUME NEW q, NEW c
    PROVE  RecurringClass(q, c) # None <=> \E p \in Classes : Holds(q[p], c)
<1>1. PollClasses(q, c) # {} <=> \E p \in Classes : Holds(q[p], c)
  BY Zenon DEF PollClasses, Holds
<1>2. CASE PollClasses(q, c) = {}
  BY <1>1, <1>2 DEF RecurringClass
<1>3. CASE PollClasses(q, c) # {}
  <2>1. PollClasses(q, c) \in SUBSET Nat /\ PollClasses(q, c) \subseteq Classes
    BY DEF PollClasses, Classes
  <2>2. \E p \in PollClasses(q, c) : \A o \in PollClasses(q, c) : p <= o
    BY <2>1, <1>3, LeastNumber
  <2>3. RecurringClass(q, c) \in PollClasses(q, c)
    BY <2>2, <1>3, Zenon DEF RecurringClass
  <2>4. None \notin Classes
    BY DEF None, Classes
  <2> QED BY <2>1, <2>3, <2>4, <1>1, <1>3
<1> QED BY <1>2, <1>3

(* Every kept position is the j-th one for some j: Kept loses nothing it was
   told to keep. *)
LEMMA NthCovers ==
    ASSUME NEW n \in Nat, NEW K \in SUBSET (1 .. n), NEW i \in K
    PROVE  \E j \in 1 .. Cardinality(K) : Nth(K, j) = i
<1> DEFINE j == Cardinality(Upto(K, i))
<1>1. i \in Nat /\ \A k \in K : k \in Nat
  OBVIOUS
<1>2. IsFiniteSet(K) /\ Cardinality(K) \in Nat
  BY PositionsFinite
<1>3. \A m : Upto(K, m) \in SUBSET K
  BY DEF Upto
<1>4. \A m : IsFiniteSet(Upto(K, m)) /\ Cardinality(Upto(K, m)) \in Nat
  BY <1>2, <1>3, FS_Subset, FS_CardinalityType
<1>5. j \in 1 .. Cardinality(K)
  <2>1. j <= Cardinality(K)
    BY <1>2, <1>3, FS_Subset
  <2>2. i \in Upto(K, i)
    BY <1>1 DEF Upto
  <2>3. j # 0
    BY <2>2, <1>4, FS_EmptySet
  <2>4. j \in Nat
    BY <1>4
  <2> HIDE DEF j
  <2> QED BY <2>1, <2>3, <2>4, <1>2
<1>6. \A k \in K : Cardinality(Upto(K, k)) = j => k = i
  <2> SUFFICES ASSUME NEW k \in K, Cardinality(Upto(K, k)) = j, k # i PROVE FALSE
    OBVIOUS
  <2>1. CASE k < i
    <3>0. \A m \in K : m <= k => m <= i
      BY <2>1, <1>1
    <3>1. Upto(K, k) \in SUBSET Upto(K, i)
      BY <3>0, Zenon DEF Upto
    <3>2. Upto(K, k) = Upto(K, i)
      BY <3>1, <1>4, FS_Subset
    <3>3. i \in Upto(K, i) /\ i \notin Upto(K, k)
      BY <2>1, <1>1 DEF Upto
    <3> QED BY <3>2, <3>3
  <2>2. CASE i < k
    <3>0. \A m \in K : m <= i => m <= k
      BY <2>2, <1>1
    <3>1. Upto(K, i) \in SUBSET Upto(K, k)
      BY <3>0, Zenon DEF Upto
    <3>2. Upto(K, i) = Upto(K, k)
      BY <3>1, <1>4, FS_Subset
    <3>3. k \in Upto(K, k) /\ k \notin Upto(K, i)
      BY <2>2, <1>1 DEF Upto
    <3> QED BY <3>2, <3>3
  <2> QED BY <2>1, <2>2, <1>1
<1>7. Nth(K, j) = CHOOSE k \in K : Cardinality(Upto(K, k)) = j
  BY Zenon DEF Nth, Upto
<1>8. Nth(K, j) = i
  BY <1>6, <1>7, Zenon
<1> HIDE DEF j
<1> QED BY <1>5, <1>8

(* Removing the items equal to one leaves the polls of the others. *)
LEMMA RemoveKeepsPolls ==
    ASSUME NEW q \in Queues, NEW p \in Classes, NEW item, NEW c,
           ~SameItem(item, Poll(c)), NEW o \in Classes, Holds(q[o], c)
    PROVE  Holds(Remove(q, p, item)[o], c)
<1> DEFINE K == Survivors(q[p], item)
<1>1. CASE o # p
  BY <1>1, Zenon DEF Remove, Queues
<1>2. CASE o = p
  <2>1. q[p] \in Seq(Item) /\ DOMAIN q[p] = 1 .. Len(q[p]) /\ Len(q[p]) \in Nat
    BY DEF Queues
  <2>2. PICK i \in DOMAIN q[p] : SameItem(q[p][i], Poll(c))
    BY <1>2 DEF Holds
  <2>3. i \in K /\ K \in SUBSET (1 .. Len(q[p]))
    BY <2>1, <2>2 DEF Survivors, SameItem
  <2> HIDE DEF K
  <2>4. PICK j \in 1 .. Cardinality(K) : Nth(K, j) = i
    BY <2>1, <2>3, NthCovers
  <2>5. DOMAIN Kept(q[p], K) = 1 .. Cardinality(K) /\ Kept(q[p], K)[j] = q[p][i]
    BY <2>4 DEF Kept
  <2>6. Remove(q, p, item)[p] = Kept(q[p], K)
    BY Zenon DEF Remove, Queues, K
  <2> QED BY <2>2, <2>4, <2>5, <2>6, <1>2 DEF Holds
<1> QED BY <1>1, <1>2

(* Inserting an item keeps every poll, and adds its own if it is one. *)
LEMMA InsertKeepsPolls ==
    ASSUME NEW q \in Queues, NEW p \in Classes, NEW item \in Item, NEW c
    PROVE  /\ \A o \in Classes : Holds(q[o], c) => Holds(Insert(q, p, item)[o], c)
           /\ SameItem(item, Poll(c)) => Holds(Insert(q, p, item)[p], c)
<1>1. q[p] \in Seq(Item) /\ <<item>> \in Seq(Item) /\ Len(q[p]) \in Nat
  BY DEF Queues
<1> DEFINE t == <<item>> \o q[p]
<1>2. /\ DOMAIN q[p] = 1 .. Len(q[p]) /\ DOMAIN t = 1 .. Len(q[p]) + 1
      /\ t[1] = item /\ \A i \in 1 .. Len(q[p]) : t[i + 1] = q[p][i]
  <2> HIDE DEF Item
  <2> QED BY <1>1
<1>3. Insert(q, p, item)[p] = t
  BY Zenon DEF Insert, Queues
<1>4. \A o \in Classes : o # p => Insert(q, p, item)[o] = q[o]
  BY Zenon DEF Insert, Queues
<1> HIDE DEF t
<1>5. 1 \in DOMAIN t /\ \A i \in DOMAIN q[p] : i + 1 \in DOMAIN t
  BY <1>1, <1>2
<1>6. Holds(q[p], c) => Holds(t, c)
  <2>1. ASSUME NEW i \in DOMAIN q[p], SameItem(q[p][i], Poll(c))
        PROVE  SameItem(t[i + 1], Poll(c)) /\ i + 1 \in DOMAIN t
    BY <2>1, <1>2, <1>5
  <2> QED BY <2>1 DEF Holds
<1>7. SameItem(item, Poll(c)) => Holds(t, c)
  BY <1>2, <1>5 DEF Holds
<1> QED BY <1>3, <1>4, <1>6, <1>7

(* add() loses no poll, whatever it adds and wherever. *)
LEMMA AddedKeepsPolls ==
    ASSUME NEW q \in Queues, NEW p \in Classes, NEW item \in Item,
           NEW unique \in BOOLEAN, NEW c, RecurringClass(q, c) # None
    PROVE  RecurringClass(Added(q, p, item, unique), c) # None
<1> DEFINE cleaned == IF unique THEN Remove(q, p, item) ELSE q
           asked == IF item.recurring /\ item.command \notin Unasked
                    THEN Insert(cleaned, Immediate, Get(item.command)) ELSE cleaned
<1>1. cleaned \in Queues
  BY RemoveType
<1>2. Immediate \in Classes /\ Get(item.command) \in Item
  BY ItemTypes DEF Immediate, Classes, Item
<1>3. PICK o \in Classes : Holds(q[o], c)
  BY PolledIffHeld
<1>4. ~SameItem(item, Poll(c)) => Holds(cleaned[o], c)
  BY <1>3, RemoveKeepsPolls
<1> HIDE DEF cleaned
<1>5. asked \in Queues
  BY <1>1, <1>2, InsertType
<1>6. Holds(cleaned[o], c) => Holds(asked[o], c)
  BY <1>1, <1>2, InsertKeepsPolls
<1> HIDE DEF asked
<1>7. Holds(asked[o], c) => Holds(Insert(asked, p, item)[o], c)
  BY <1>5, InsertKeepsPolls
<1>8. SameItem(item, Poll(c)) => Holds(Insert(asked, p, item)[p], c)
  BY <1>5, InsertKeepsPolls
<1>9. Added(q, p, item, unique) = q \/ Added(q, p, item, unique) = Insert(asked, p, item)
  BY Zenon DEF Added, asked, cleaned
<1>10. \E r \in Classes : Holds(Added(q, p, item, unique)[r], c)
  BY <1>3, <1>4, <1>6, <1>7, <1>8, <1>9
<1> QED BY <1>10, PolledIffHeld

(* del() loses the polls of its own command only. *)
LEMMA DeletedKeepsPolls ==
    ASSUME NEW q \in Queues, NEW d, NEW c, d # c, RecurringClass(q, c) # None
    PROVE  RecurringClass(Deleted(q, d), c) # None
<1>1. PICK o \in Classes : Holds(q[o], c)
  BY PolledIffHeld
<1>2. ~SameItem(Poll(d), Poll(c))
  BY DEF SameItem, Poll
<1>3. CASE RecurringClass(q, d) = None
  BY <1>3 DEF Deleted
<1>4. CASE RecurringClass(q, d) # None
  <2>1. RecurringClass(q, d) \in Classes
    BY <1>4, RecurringClassType
  <2>2. Holds(Remove(q, RecurringClass(q, d), Poll(d))[o], c)
    BY <2>1, <1>1, <1>2, RemoveKeepsPolls
  <2> QED BY <2>2, <1>4, PolledIffHeld DEF Deleted
<1> QED BY <1>3, <1>4

(* Sending loses no poll of a class other than Immediate, where add() refuses
   them: what is taken out is put back. *)
LEMMA TakenKeepsPolls ==
    ASSUME NEW q \in Queues, NEW p \in Classes, q[p] # <<>>, NEW c,
           \A i \in DOMAIN q[Immediate] : ~q[Immediate][i].recurring,
           RecurringClass(q, c) # None
    PROVE  RecurringClass(Taken(q, p), c) # None
<1> DEFINE rest == [q EXCEPT ![p] = ButOldest(q[p])]
           n == Len(q[p])
<1>1. PICK o \in Classes : Holds(q[o], c)
  BY PolledIffHeld
<1>2. /\ q[p] \in Seq(Item) /\ n \in Nat /\ n > 0 /\ DOMAIN q[p] = 1 .. n
  <2>1. q[p] \in Seq(Item)
    BY DEF Queues
  <2> HIDE DEF Item
  <2> QED BY <2>1
<1>3. Oldest(q[p]) \in Item /\ Oldest(q[p]) = q[p][n]
  BY <1>2, TakenType DEF Oldest
<1>4. /\ ButOldest(q[p]) \in Seq(Item)
      /\ DOMAIN ButOldest(q[p]) = 1 .. n - 1
      /\ \A i \in 1 .. n - 1 : ButOldest(q[p])[i] = q[p][i]
  <2> HIDE DEF Item
  <2> QED BY <1>2, SubSeqProperties DEF ButOldest
<1>5. rest \in Queues /\ rest[p] = ButOldest(q[p])
  BY <1>4, Zenon DEF Queues
<1>6. \A r \in Classes : r # p => rest[r] = q[r]
  BY Zenon DEF Queues
<1> HIDE DEF rest
<1>7. Holds(rest[o], c) \/ (o = p /\ SameItem(Oldest(q[p]), Poll(c)))
  <2>1. CASE o # p
    BY <2>1, <1>1, <1>6
  <2>2. CASE o = p
    <3>1. PICK i \in 1 .. n : SameItem(q[p][i], Poll(c))
      BY <2>2, <1>1, <1>2 DEF Holds
    <3>2. CASE i = n
      BY <2>2, <3>1, <3>2, <1>3
    <3>3. CASE i # n
      <4>1. i \in 1 .. n - 1
        BY <3>3, <1>2
      <4>2. i \in DOMAIN rest[o] /\ SameItem(rest[o][i], Poll(c))
        BY <4>1, <3>1, <2>2, <1>4, <1>5
      <4> QED BY <4>2 DEF Holds
    <3> QED BY <3>2, <3>3
  <2> QED BY <2>1, <2>2
<1>8. SameItem(Oldest(q[p]), Poll(c)) => Oldest(q[p]).recurring /\ p # Immediate
  <2>1. SameItem(Oldest(q[p]), Poll(c)) => Oldest(q[p]).recurring
    BY DEF SameItem, Poll
  <2>2. n \in DOMAIN q[p]
    BY <1>2
  <2> QED BY <2>1, <2>2, <1>3
<1>9. Taken(q, p) = IF Oldest(q[p]).recurring /\ p # Immediate
                    THEN Insert(rest, p, Oldest(q[p])) ELSE rest
  BY Zenon DEF Taken, rest
<1>10. \A r \in Classes :
          Holds(rest[r], c) => Holds(Insert(rest, p, Oldest(q[p]))[r], c)
  BY <1>3, <1>5, InsertKeepsPolls
<1>11. SameItem(Oldest(q[p]), Poll(c)) => Holds(Insert(rest, p, Oldest(q[p]))[p], c)
  BY <1>3, <1>5, InsertKeepsPolls
<1>12. \E r \in Classes : Holds(Taken(q, p)[r], c)
  BY <1>7, <1>8, <1>9, <1>10, <1>11
<1> QED BY <1>12, PolledIffHeld

-----------------------------------------------------------------------------
(* add() refuses a recurring command of class Immediate: the operations leave no
   poll in that line. *)
NoPollFirst(q) == \A i \in DOMAIN q[Immediate] : ~q[Immediate][i].recurring

(* The class that is always served first is one of the classes. *)
LEMMA FirstIsClass == Immediate \in Classes
BY DEF Immediate, Classes

(* Inserting keeps the Immediate line free of polls. *)
LEMMA InsertNoPollFirst ==
    ASSUME NEW q \in Queues, NoPollFirst(q), NEW p \in Classes, NEW item \in Item,
           p = Immediate => ~item.recurring
    PROVE  NoPollFirst(Insert(q, p, item))
<1> DEFINE t == <<item>> \o q[p]
<1>1. CASE p # Immediate
  <2>1. Insert(q, p, item)[Immediate] = q[Immediate]
    BY <1>1, FirstIsClass, Zenon DEF Insert, Queues
  <2> QED BY <2>1 DEF NoPollFirst
<1>2. CASE p = Immediate
  <2>1. q[p] \in Seq(Item) /\ Len(q[p]) \in Nat
    BY DEF Queues
  <2>2. /\ DOMAIN q[p] = 1 .. Len(q[p]) /\ DOMAIN t = 1 .. Len(q[p]) + 1
        /\ t[1] = item /\ \A i \in 2 .. Len(q[p]) + 1 : t[i] = q[p][i - 1]
    <3> HIDE DEF Item
    <3> QED BY <2>1
  <2>3. Insert(q, p, item)[p] = t
    BY Zenon DEF Insert, Queues
  <2> HIDE DEF t
  <2>4. ASSUME NEW i \in DOMAIN t PROVE ~t[i].recurring
    <3>1. CASE i = 1
      BY <3>1, <2>2, <1>2
    <3>2. CASE i # 1
      <4>1. i - 1 \in DOMAIN q[p] /\ t[i] = q[p][i - 1]
        BY <3>2, <2>1, <2>2
      <4> QED BY <4>1, <1>2 DEF NoPollFirst
    <3> QED BY <3>1, <3>2
  <2> QED BY <2>3, <2>4, <1>2 DEF NoPollFirst
<1> QED BY <1>1, <1>2

(* Removing keeps the Immediate line free of polls. *)
LEMMA RemoveNoPollFirst ==
    ASSUME NEW q \in Queues, NoPollFirst(q), NEW p \in Classes, NEW item
    PROVE  NoPollFirst(Remove(q, p, item))
<1> DEFINE K == Survivors(q[p], item)
<1>1. CASE p # Immediate
  <2>1. Remove(q, p, item)[Immediate] = q[Immediate]
    BY <1>1, FirstIsClass, Zenon DEF Remove, Queues
  <2> QED BY <2>1 DEF NoPollFirst
<1>2. CASE p = Immediate
  <2>1. q[p] \in Seq(Item) /\ DOMAIN q[p] = 1 .. Len(q[p]) /\ Len(q[p]) \in Nat
    BY DEF Queues
  <2>2. K \in SUBSET (1 .. Len(q[p]))
    BY <2>1 DEF Survivors
  <2>3. Remove(q, p, item)[p] = Kept(q[p], K)
    BY Zenon DEF Remove, Queues
  <2> HIDE DEF K
  <2>4. ASSUME NEW j \in DOMAIN Kept(q[p], K)
        PROVE  ~Kept(q[p], K)[j].recurring
    <3>1. j \in 1 .. Cardinality(K) /\ Kept(q[p], K)[j] = q[p][Nth(K, j)]
      BY DEF Kept
    <3>2. Nth(K, j) \in DOMAIN q[p]
      BY <3>1, <2>1, <2>2, NthExists
    <3> QED BY <3>1, <3>2, <1>2 DEF NoPollFirst
  <2> QED BY <2>3, <2>4, <1>2 DEF NoPollFirst
<1> QED BY <1>1, <1>2

(* So does add(), *)
LEMMA AddedNoPollFirst ==
    ASSUME NEW q \in Queues, NoPollFirst(q), NEW p \in Classes, NEW item \in Item,
           NEW unique \in BOOLEAN
    PROVE  NoPollFirst(Added(q, p, item, unique))
<1> DEFINE cleaned == IF unique THEN Remove(q, p, item) ELSE q
           asked == IF item.recurring /\ item.command \notin Unasked
                    THEN Insert(cleaned, Immediate, Get(item.command)) ELSE cleaned
<1>1. cleaned \in Queues /\ NoPollFirst(cleaned)
  BY RemoveType, RemoveNoPollFirst
<1>2. Immediate \in Classes /\ Get(item.command) \in Item /\ ~Get(item.command).recurring
  BY ItemTypes DEF Immediate, Classes, Item, Get
<1> HIDE DEF cleaned
<1>3. asked \in Queues /\ NoPollFirst(asked)
  BY <1>1, <1>2, InsertType, InsertNoPollFirst
<1> HIDE DEF asked
<1>4. Added(q, p, item, unique) = q
      \/ /\ Added(q, p, item, unique) = Insert(asked, p, item)
         /\ ~(item.recurring /\ p = Immediate)
  BY Zenon DEF Added, asked, cleaned
<1> QED BY <1>3, <1>4, InsertNoPollFirst

(* so does del(), *)
LEMMA DeletedNoPollFirst ==
    ASSUME NEW q \in Queues, NoPollFirst(q), NEW c
    PROVE  NoPollFirst(Deleted(q, c))
<1>1. CASE RecurringClass(q, c) = None
  BY <1>1 DEF Deleted
<1>2. CASE RecurringClass(q, c) # None
  BY <1>2, RecurringClassType, RemoveNoPollFirst DEF Deleted
<1> QED BY <1>1, <1>2

(* and so does a send. *)
LEMMA TakenNoPollFirst ==
    ASSUME NEW q \in Queues, NoPollFirst(q), NEW p \in Classes, q[p] # <<>>
    PROVE  NoPollFirst(Taken(q, p))
<1> DEFINE rest == [q EXCEPT ![p] = ButOldest(q[p])]
<1>1. q[p] \in Seq(Item) /\ Len(q[p]) \in Nat /\ DOMAIN q[p] = 1 .. Len(q[p])
      /\ Len(q[p]) > 0
  <2>1. q[p] \in Seq(Item)
    BY DEF Queues
  <2> HIDE DEF Item
  <2> QED BY <2>1
<1>2. /\ ButOldest(q[p]) \in Seq(Item)
      /\ DOMAIN ButOldest(q[p]) = 1 .. Len(q[p]) - 1
      /\ \A i \in 1 .. Len(q[p]) - 1 : ButOldest(q[p])[i] = q[p][i]
  <2> HIDE DEF Item
  <2> QED BY <1>1, SubSeqProperties DEF ButOldest
<1>3. rest \in Queues /\ rest[p] = ButOldest(q[p])
  BY <1>2, Zenon DEF Queues
<1>4. p # Immediate => rest[Immediate] = q[Immediate]
  BY FirstIsClass, Zenon DEF Queues
<1>5. NoPollFirst(rest)
  <2> HIDE DEF rest
  <2>1. CASE p # Immediate
    BY <2>1, <1>4 DEF NoPollFirst
  <2>2. CASE p = Immediate
    BY <2>2, <1>1, <1>2, <1>3 DEF NoPollFirst
  <2> QED BY <2>1, <2>2
<1>6. Oldest(q[p]) \in Item
  BY TakenType
<1>7. Taken(q, p) = rest
      \/ (Taken(q, p) = Insert(rest, p, Oldest(q[p])) /\ p # Immediate)
  BY Zenon DEF Taken, rest
<1> HIDE DEF rest
<1> QED BY <1>3, <1>5, <1>6, <1>7, InsertNoPollFirst

-----------------------------------------------------------------------------
(* Which values wait to be set *)

(* Inserting keeps every value that waits, and adds its own if it is one. *)
LEMMA InsertKeepsSets ==
    ASSUME NEW q \in Queues, NEW p \in Classes, NEW item \in Item, NEW c
    PROVE  /\ SetQueued(q, c) => SetQueued(Insert(q, p, item), c)
           /\ p = Immediate /\ item.command = c /\ item.param # NoValue
                => SetQueued(Insert(q, p, item), c)
<1>1. CASE p # Immediate
  <2>1. Insert(q, p, item)[Immediate] = q[Immediate]
    BY <1>1, FirstIsClass, Zenon DEF Insert, Queues
  <2> QED BY <1>1, <2>1, Zenon DEF SetQueued, IsSetOf
<1>2. CASE p = Immediate
  <2> DEFINE t == <<item>> \o q[p]
  <2>1. q[p] \in Seq(Item) /\ Len(q[p]) \in Nat
    BY DEF Queues
  <2>2. /\ DOMAIN q[p] = 1 .. Len(q[p]) /\ DOMAIN t = 1 .. Len(q[p]) + 1
        /\ t[1] = item /\ \A i \in 1 .. Len(q[p]) : t[i + 1] = q[p][i]
    <3> HIDE DEF Item
    <3> QED BY <2>1
  <2>3. Insert(q, p, item)[p] = t
    BY Zenon DEF Insert, Queues
  <2> HIDE DEF t
  <2>4. 1 \in DOMAIN t /\ \A i \in DOMAIN q[p] : i + 1 \in DOMAIN t /\ t[i + 1] = q[p][i]
    BY <2>1, <2>2
  <2>5. ASSUME SetQueued(q, c)
        PROVE  \E i \in DOMAIN t : t[i].command = c /\ t[i].param # NoValue
    <3>1. PICK i \in DOMAIN q[p] : q[p][i].command = c /\ q[p][i].param # NoValue
      BY <1>2, <2>5, Zenon DEF SetQueued, IsSetOf
    <3> QED BY <2>4, <3>1, Zenon
  <2>6. ASSUME item.command = c, item.param # NoValue
        PROVE  \E i \in DOMAIN t : t[i].command = c /\ t[i].param # NoValue
    BY <2>2, <2>4, <2>6, Zenon
  <2>7. SetQueued(Insert(q, p, item), c)
        <=> \E i \in DOMAIN t : t[i].command = c /\ t[i].param # NoValue
    BY <1>2, <2>3, Zenon DEF SetQueued, IsSetOf
  <2> QED BY <2>5, <2>6, <2>7, Zenon
<1> QED BY <1>1, <1>2

(* Removing the items equal to one leaves the values of the other commands, and
   all of them if the class is not Immediate or the item is recurring. *)
LEMMA RemoveKeepsSets ==
    ASSUME NEW q \in Queues, NoPollFirst(q), NEW p \in Classes, NEW item, NEW c,
           SetQueued(q, c), p # Immediate \/ item.recurring = TRUE \/ item.command # c
    PROVE  SetQueued(Remove(q, p, item), c)
<1> DEFINE s == q[Immediate]
           K == Survivors(s, item)
<1>1. CASE p # Immediate
  <2>1. Remove(q, p, item)[Immediate] = q[Immediate]
    BY <1>1, FirstIsClass, Zenon DEF Remove, Queues
  <2> QED BY <2>1, Zenon DEF SetQueued, IsSetOf
<1>2. CASE p = Immediate
  <2>1. s \in Seq(Item) /\ DOMAIN s = 1 .. Len(s) /\ Len(s) \in Nat
    BY FirstIsClass DEF Queues
  <2>2. PICK i \in DOMAIN s : s[i].command = c /\ s[i].param # NoValue
    BY Zenon DEF SetQueued, IsSetOf
  <2>3. ~SameItem(s[i], item)
    BY <1>2, <2>2, Zenon DEF SameItem, NoPollFirst
  <2>4. i \in K /\ K \in SUBSET (1 .. Len(s))
    BY <2>1, <2>2, <2>3 DEF Survivors
  <2>5. Remove(q, p, item)[Immediate] = Kept(s, K)
    BY <1>2, Zenon DEF Remove, Queues
  <2> HIDE DEF K
  <2>6. PICK j \in 1 .. Cardinality(K) : Nth(K, j) = i
    BY <2>1, <2>4, NthCovers
  <2>7. DOMAIN Kept(s, K) = 1 .. Cardinality(K) /\ Kept(s, K)[j] = s[i]
    BY <2>6 DEF Kept
  <2> QED BY <2>2, <2>5, <2>6, <2>7, Zenon DEF SetQueued, IsSetOf
<1> QED BY <1>1, <1>2

(* add() replaces the values of a command by a newer one; only a unique get takes
   them and leaves none. *)
LEMMA AddedKeepsSets ==
    ASSUME NEW q \in Queues, NoPollFirst(q), NEW p \in Classes, NEW item \in Item,
           NEW unique \in BOOLEAN, NEW c, SetQueued(q, c),
           ~(unique /\ p = Immediate /\ item = Get(c))
    PROVE  SetQueued(Added(q, p, item, unique), c)
<1> DEFINE cleaned == IF unique THEN Remove(q, p, item) ELSE q
           asked == IF item.recurring /\ item.command \notin Unasked
                    THEN Insert(cleaned, Immediate, Get(item.command)) ELSE cleaned
           refused == item.recurring /\ (RecurringClass(q, item.command) = p \/ p = Immediate)
           whole == unique /\ p = Immediate /\ item.command = c /\ ~item.recurring
<1>1. cleaned \in Queues
  BY RemoveType
<1>2. Immediate \in Classes /\ Get(item.command) \in Item /\ item.recurring \in BOOLEAN
  BY ItemTypes DEF Immediate, Classes, Item
<1>3. Added(q, p, item, unique) = IF refused THEN q ELSE Insert(asked, p, item)
  BY Zenon DEF Added
<1>4. ~refused /\ ~whole => SetQueued(cleaned, c)
  BY <1>2, RemoveKeepsSets, Zenon
<1>5. whole => item.param # NoValue
  <2>1. ASSUME item.command = c, ~item.recurring, item.param = NoValue
        PROVE  item = Get(c)
    BY <2>1 DEF Item, Get
  <2> QED BY <2>1, Zenon
<1> HIDE DEF cleaned
<1>6. asked \in Queues
  BY <1>1, <1>2, InsertType
<1>7. SetQueued(cleaned, c) => SetQueued(asked, c)
  BY <1>1, <1>2, InsertKeepsSets, Zenon
<1> HIDE DEF asked, refused
<1>8. SetQueued(asked, c) \/ whole => SetQueued(Insert(asked, p, item), c)
  BY <1>5, <1>6, InsertKeepsSets, Zenon
<1> HIDE DEF whole
<1> QED BY <1>3, <1>4, <1>7, <1>8, Zenon

(* del() takes polls only. *)
LEMMA DeletedKeepsSets ==
    ASSUME NEW q \in Queues, NoPollFirst(q), NEW d, NEW c, SetQueued(q, c)
    PROVE  SetQueued(Deleted(q, d), c)
<1>1. Poll(d).recurring = TRUE
  BY DEF Poll
<1>2. RecurringClass(q, d) # None => SetQueued(Remove(q, RecurringClass(q, d), Poll(d)), c)
  BY <1>1, RecurringClassType, RemoveKeepsSets
<1> QED BY <1>2, Zenon DEF Deleted

(* A send takes a value only by sending it. *)
LEMMA TakenKeepsSets ==
    ASSUME NEW q \in Queues, NEW p \in Classes, q[p] # <<>>, NEW c, SetQueued(q, c),
           ~SetQueued(Taken(q, p), c)
    PROVE  Oldest(q[p]).command = c /\ Oldest(q[p]).param # NoValue
<1> DEFINE rest == [q EXCEPT ![p] = ButOldest(q[p])]
           n == Len(q[p])
<1>1. /\ q[p] \in Seq(Item) /\ n \in Nat /\ n > 0 /\ DOMAIN q[p] = 1 .. n
  <2>1. q[p] \in Seq(Item)
    BY DEF Queues
  <2> HIDE DEF Item
  <2> QED BY <2>1
<1>2. /\ ButOldest(q[p]) \in Seq(Item)
      /\ DOMAIN ButOldest(q[p]) = 1 .. n - 1
      /\ \A i \in 1 .. n - 1 : ButOldest(q[p])[i] = q[p][i]
  <2> HIDE DEF Item
  <2> QED BY <1>1, SubSeqProperties DEF ButOldest
<1>3. rest \in Queues /\ rest[p] = ButOldest(q[p])
  BY <1>2, Zenon DEF Queues
<1>4. p # Immediate => rest[Immediate] = q[Immediate]
  BY FirstIsClass, Zenon DEF Queues
<1>5. Oldest(q[p]) \in Item
  BY TakenType
<1>6. Taken(q, p) = rest \/ Taken(q, p) = Insert(rest, p, Oldest(q[p]))
  BY Zenon DEF Taken, rest
<1> HIDE DEF rest
<1>7. ~SetQueued(rest, c)
  <2>1. SetQueued(rest, c) => SetQueued(Insert(rest, p, Oldest(q[p])), c)
    BY <1>3, <1>5, InsertKeepsSets, Zenon
  <2>2. SetQueued(rest, c) => SetQueued(Taken(q, p), c)
    BY <1>6, <2>1, Zenon
  <2> QED BY <2>2, Zenon
<1>8. p = Immediate
  BY <1>4, <1>7, Zenon DEF SetQueued, IsSetOf
<1>9. PICK i \in DOMAIN q[p] : q[p][i].command = c /\ q[p][i].param # NoValue
  BY <1>8, Zenon DEF SetQueued, IsSetOf
<1>10. i \notin 1 .. n - 1
  <2>1. ASSUME i \in 1 .. n - 1
        PROVE  i \in DOMAIN rest[Immediate] /\ rest[Immediate][i] = q[p][i]
    BY <2>1, <1>2, <1>3, <1>8, Zenon
  <2> QED BY <2>1, <1>7, <1>9, Zenon DEF SetQueued, IsSetOf
<1>11. i = n
  BY <1>1, <1>10
<1> QED BY <1>9, <1>11, Zenon DEF Oldest

-----------------------------------------------------------------------------
(* The order of a line *)

(* t is what is left of s when some of its items are withdrawn: pick says where
   each item of t stood in s. *)
IsThinned(s, t) ==
    \E pick \in [1 .. Len(t) -> 1 .. Len(s)] :
        /\ \A i, j \in 1 .. Len(t) : i < j => pick[i] < pick[j]
        /\ \A i \in 1 .. Len(t) : t[i] = s[pick[i]]

(* The j-th smallest position grows with j. *)
LEMMA NthGrows ==
    ASSUME NEW n \in Nat, NEW K \in SUBSET (1 .. n),
           NEW i \in 1 .. Cardinality(K), NEW j \in 1 .. Cardinality(K), i < j
    PROVE  Nth(K, i) < Nth(K, j)
<1>1. PICK a \in K : Nth(K, i) = a /\ Cardinality(Upto(K, a)) = i
  BY NthExists, Zenon
<1>2. PICK b \in K : Nth(K, j) = b /\ Cardinality(Upto(K, b)) = j
  BY NthExists, Zenon
<1>3. \A k \in K : k \in Nat
  OBVIOUS
<1>4. ASSUME b <= a PROVE FALSE
  <2>1. \A k \in K : k <= b => k <= a
    BY <1>1, <1>2, <1>3, <1>4
  <2>2. Upto(K, b) \in SUBSET Upto(K, a)
    BY <2>1, Zenon DEF Upto
  <2>3. Upto(K, a) \in SUBSET (1 .. n)
    BY DEF Upto
  <2>4. IsFiniteSet(Upto(K, a))
    BY <2>3, PositionsFinite
  <2>5. Cardinality(Upto(K, b)) <= Cardinality(Upto(K, a))
    BY <2>2, <2>4, FS_Subset
  <2>6. Cardinality(K) \in Nat
    BY PositionsFinite
  <2> QED BY <1>1, <1>2, <2>5, <2>6
<1>5. a < b
  BY <1>1, <1>2, <1>3, <1>4
<1> QED BY <1>1, <1>2, <1>5, Zenon

(* Keeping some positions of a sequence withdraws the others and reorders nothing. *)
LEMMA KeptIsThinned ==
    ASSUME NEW E, NEW s \in Seq(E), NEW K \in SUBSET DOMAIN s
    PROVE  IsThinned(s, Kept(s, K))
<1>1. Len(s) \in Nat /\ DOMAIN s = 1 .. Len(s)
  OBVIOUS
<1>2. K \in SUBSET (1 .. Len(s))
  BY <1>1
<1>3. Len(Kept(s, K)) = Cardinality(K) /\ Cardinality(K) \in Nat
  BY <1>1, <1>2, KeptType, PositionsFinite
<1> DEFINE pick == [j \in 1 .. Cardinality(K) |-> Nth(K, j)]
<1>4. \A j \in 1 .. Cardinality(K) : Nth(K, j) \in 1 .. Len(s)
  BY <1>1, <1>2, NthExists
<1>5. pick \in [1 .. Cardinality(K) -> 1 .. Len(s)]
  BY <1>4, Zenon
<1>6. \A i, j \in 1 .. Cardinality(K) : i < j => pick[i] < pick[j]
  BY <1>1, <1>2, NthGrows
<1>7. \A i \in 1 .. Cardinality(K) : Kept(s, K)[i] = s[pick[i]]
  BY Zenon DEF Kept
<1> HIDE DEF pick
<1> QED BY <1>3, <1>5, <1>6, <1>7, Zenon DEF IsThinned

(* A sequence from which nothing is withdrawn, and the empty one. *)
LEMMA ThinnedEnds ==
    ASSUME NEW E, NEW s \in Seq(E)
    PROVE  IsThinned(s, s) /\ IsThinned(s, <<>>)
<1>1. Len(s) \in Nat /\ Len(<<>>) = 0
  OBVIOUS
<1>2. IsThinned(s, s)
  <2> DEFINE pick == [i \in 1 .. Len(s) |-> i]
  <2>1. pick \in [1 .. Len(s) -> 1 .. Len(s)] /\ \A i \in 1 .. Len(s) : pick[i] = i
    OBVIOUS
  <2> HIDE DEF pick
  <2> QED BY <2>1 DEF IsThinned
<1>3. IsThinned(s, <<>>)
  <2>1. 1 .. 0 = {}
    OBVIOUS
  <2> DEFINE pick == [i \in {} |-> 1]
  <2>2. pick \in [{} -> 1 .. Len(s)]
    OBVIOUS
  <2> HIDE DEF pick
  <2> QED BY <1>1, <2>1, <2>2, Zenon DEF IsThinned
<1> QED BY <1>2, <1>3

(* Removing the items equal to one thins the lines. *)
LEMMA RemoveThins ==
    ASSUME NEW q \in Queues, NEW p \in Classes, NEW item, NEW o \in Classes
    PROVE  IsThinned(q[o], Remove(q, p, item)[o])
<1>1. q[o] \in Seq(Item) /\ q[p] \in Seq(Item)
  BY DEF Queues
<1>2. CASE o # p
  <2>1. Remove(q, p, item)[o] = q[o]
    BY <1>2, Zenon DEF Remove, Queues
  <2> QED BY <1>1, <2>1, ThinnedEnds
<1>3. CASE o = p
  <2>1. Remove(q, p, item)[p] = Kept(q[p], Survivors(q[p], item))
    BY Zenon DEF Remove, Queues
  <2>2. Survivors(q[p], item) \in SUBSET DOMAIN q[p]
    BY DEF Survivors
  <2> QED BY <1>1, <1>3, <2>1, <2>2, KeptIsThinned
<1> QED BY <1>2, <1>3

(* t is a thinned s with at most one new item, the newest. *)
IsRevised(s, t) ==
    \/ IsThinned(s, t)
    \/ \E u \in Seq(Item), item \in Item : IsThinned(s, u) /\ t = <<item>> \o u

(* add() withdraws items and puts at most one new item in each class: the Immediate
   get that a poll asks for comes from a poll of another class. *)
LEMMA AddedRevises ==
    ASSUME NEW q \in Queues, NEW p \in Classes, NEW item \in Item,
           NEW unique \in BOOLEAN, NEW o \in Classes
    PROVE  IsRevised(q[o], Added(q, p, item, unique)[o])
<1> DEFINE cleaned == IF unique THEN Remove(q, p, item) ELSE q
           asking == item.recurring /\ item.command \notin Unasked
           asked == IF asking THEN Insert(cleaned, Immediate, Get(item.command)) ELSE cleaned
<1>1. cleaned \in Queues
  BY RemoveType
<1>2. IsThinned(q[o], cleaned[o])
  <2>1. q[o] \in Seq(Item)
    BY DEF Queues
  <2> QED BY <2>1, RemoveThins, ThinnedEnds
<1>3. Immediate \in Classes /\ Get(item.command) \in Item
  BY ItemTypes DEF Immediate, Classes, Item
<1>4. cleaned[o] \in Seq(Item)
  BY <1>1 DEF Queues
<1>5. Added(q, p, item, unique) = q
      \/ (Added(q, p, item, unique) = Insert(asked, p, item)
          /\ (asking => p # Immediate))
  BY Zenon DEF Added, asked, cleaned, asking
<1> HIDE DEF cleaned
<1>6. asked \in Queues
  BY <1>1, <1>3, InsertType
<1>7. asked[o] = IF asking /\ o = Immediate THEN <<Get(item.command)>> \o cleaned[o]
                 ELSE cleaned[o]
  BY <1>1, Zenon DEF Insert, Queues
<1> HIDE DEF asked, asking
<1>8. Insert(asked, p, item)[o] = IF o = p THEN <<item>> \o asked[o] ELSE asked[o]
  BY <1>6, Zenon DEF Insert, Queues
<1>9. CASE Added(q, p, item, unique) = q
  <2>1. q[o] \in Seq(Item)
    BY DEF Queues
  <2> QED BY <1>9, <2>1, ThinnedEnds, Zenon DEF IsRevised
<1>10. CASE /\ Added(q, p, item, unique) = Insert(asked, p, item)
            /\ asking => p # Immediate
  <2>1. \/ Added(q, p, item, unique)[o] = cleaned[o]
        \/ Added(q, p, item, unique)[o] = <<item>> \o cleaned[o]
        \/ Added(q, p, item, unique)[o] = <<Get(item.command)>> \o cleaned[o]
    BY <1>7, <1>8, <1>10, Zenon
  <2> QED BY <2>1, <1>2, <1>3, <1>4, Zenon DEF IsRevised
<1> QED BY <1>5, <1>9, <1>10, Zenon

(* del() withdraws items only. *)
LEMMA DeletedRevises ==
    ASSUME NEW q \in Queues, NEW c, NEW o \in Classes
    PROVE  IsRevised(q[o], Deleted(q, c)[o])
<1>1. q[o] \in Seq(Item)
  BY DEF Queues
<1>2. CASE RecurringClass(q, c) = None
  BY <1>1, <1>2, ThinnedEnds, Zenon DEF Deleted, IsRevised
<1>3. CASE RecurringClass(q, c) # None
  <2>1. RecurringClass(q, c) \in Classes
    BY <1>3, RecurringClassType
  <2> QED BY <2>1, <1>3, RemoveThins, Zenon DEF Deleted, IsRevised
<1> QED BY <1>2, <1>3

-----------------------------------------------------------------------------
(* The newest value that waits *)

(* The same for a line *)
NewestIn(s, c, v) ==
    \E i \in DOMAIN s : /\ IsSetOf(s[i], c) /\ s[i].param = v
                        /\ \A j \in DOMAIN s : j < i => ~IsSetOf(s[j], c)

LEMMA NewestOfLine ==
    ASSUME NEW q, NEW c, NEW v
    PROVE  NewestSet(q, c, v) <=> NewestIn(q[Immediate], c, v)
BY Zenon DEF NewestSet, NewestIn

(* In front of a line a value of its command is the newest; another item changes
   nothing for the command. *)
LEMMA PrependNewest ==
    ASSUME NEW s \in Seq(Item), NEW item \in Item, NEW c, NEW v,
           NewestIn(<<item>> \o s, c, v)
    PROVE  IF IsSetOf(item, c) THEN v = item.param ELSE NewestIn(s, c, v)
<1> DEFINE t == <<item>> \o s
<1>1. Len(s) \in Nat /\ DOMAIN s = 1 .. Len(s)
  OBVIOUS
<1>2. /\ DOMAIN t = 1 .. Len(s) + 1 /\ t[1] = item
      /\ \A i \in 1 .. Len(s) : t[i + 1] = s[i]
  <2> HIDE DEF Item
  <2> QED OBVIOUS
<1>3. PICK i \in DOMAIN t : /\ IsSetOf(t[i], c) /\ t[i].param = v
                           /\ \A j \in DOMAIN t : j < i => ~IsSetOf(t[j], c)
  BY Zenon DEF NewestIn
<1> HIDE DEF t
<1>4. 1 \in DOMAIN t
  BY <1>1, <1>2
<1>5. CASE i = 1
  BY <1>2, <1>3, <1>5, Zenon
<1>6. CASE i # 1
  <2>1. 1 < i
    BY <1>1, <1>2, <1>6
  <2>2. ~IsSetOf(item, c)
    BY <1>2, <1>3, <1>4, <2>1, Zenon
  <2>3. PICK k \in 1 .. Len(s) : i = k + 1
    <3>1. i - 1 \in 1 .. Len(s) /\ i = (i - 1) + 1
      BY <1>1, <1>2, <2>1
    <3> QED BY <3>1, Zenon
  <2>4. t[i] = s[k]
    BY <1>2, <2>3, Zenon
  <2>5. ASSUME NEW j \in 1 .. Len(s), j < k PROVE ~IsSetOf(s[j], c)
    <3>1. j + 1 \in DOMAIN t /\ j + 1 < i
      BY <1>1, <1>2, <2>3, <2>5
    <3>2. t[j + 1] = s[j]
      BY <1>2, Zenon
    <3> QED BY <1>3, <3>1, <3>2, Zenon
  <2>6. NewestIn(s, c, v)
    BY <1>1, <1>3, <2>3, <2>4, <2>5, Zenon DEF NewestIn
  <2> QED BY <2>2, <2>6
<1> QED BY <1>5, <1>6

(* Keeping all values of a command keeps its newest. *)
LEMMA KeptNewest ==
    ASSUME NEW s \in Seq(Item), NEW K \in SUBSET DOMAIN s, NEW c, NEW v,
           \/ \A i \in DOMAIN s : IsSetOf(s[i], c) => i \in K
           \/ \A i \in K : ~IsSetOf(s[i], c),
           NewestIn(Kept(s, K), c, v)
    PROVE  NewestIn(s, c, v)
<1> DEFINE t == Kept(s, K)
<1>1. PICK n \in Nat : n = Len(s) /\ DOMAIN s = 1 .. n
  OBVIOUS
<1>2. K \in SUBSET (1 .. n)
  BY <1>1
<1>3. PICK m \in Nat : m = Cardinality(K)
  BY <1>2, PositionsFinite
<1>4. DOMAIN t = 1 .. m /\ \A j \in 1 .. m : t[j] = s[Nth(K, j)] /\ Nth(K, j) \in K
  <2>1. \A j \in 1 .. m : Nth(K, j) \in K
    BY <1>2, <1>3, NthExists
  <2> QED BY <1>3, <2>1, Zenon DEF Kept
<1>5. PICK i \in DOMAIN t : /\ IsSetOf(t[i], c) /\ t[i].param = v
                           /\ \A j \in DOMAIN t : j < i => ~IsSetOf(t[j], c)
  BY Zenon DEF NewestIn
<1> HIDE DEF t
<1> DEFINE k == Nth(K, i)
<1>6. k \in K /\ k \in DOMAIN s /\ s[k] = t[i]
  BY <1>4, <1>5, Zenon
<1>7. \A j \in DOMAIN s : IsSetOf(s[j], c) => j \in K
  BY <1>5, <1>6, Zenon
<1>8. ASSUME NEW j \in DOMAIN s, j < k, IsSetOf(s[j], c) PROVE FALSE
  <2>1. j \in K
    BY <1>7, <1>8
  <2>2. PICK l \in 1 .. m : Nth(K, l) = j
    BY <1>2, <1>3, <2>1, NthCovers
  <2>3. i \in 1 .. m
    BY <1>4, Zenon
  <2>4. i < l => k < j
    BY <1>2, <1>3, <2>2, <2>3, NthGrows
  <2>5. j \in 1 .. n /\ k \in 1 .. n
    BY <1>1, <1>6, Zenon
  <2> HIDE DEF k
  <2>6. ~(k < j)
    BY <1>8, <2>5
  <2>7. l # i
    <3>1. CASE l = i
      <4>1. j = k
        BY <2>2, <3>1, Zenon DEF k
      <4> QED BY <1>8, <2>5, <4>1
    <3> QED BY <3>1
  <2>8. l < i
    BY <2>3, <2>4, <2>6, <2>7
  <2>9. ~IsSetOf(t[l], c)
    BY <1>4, <1>5, <2>8, Zenon
  <2> QED BY <1>4, <1>8, <2>2, <2>9, Zenon
<1> HIDE DEF k
<1> QED BY <1>5, <1>6, <1>8, Zenon DEF NewestIn

(* A send takes the oldest value of a command: what is the newest of the others was
   so before, and if there is none, it was the newest itself. *)
LEMMA ButOldestNewest ==
    ASSUME NEW s \in Seq(Item), s # <<>>, NEW c
    PROVE  /\ \A v : NewestIn(ButOldest(s), c, v) => NewestIn(s, c, v)
           /\ (\A i \in DOMAIN ButOldest(s) : ~IsSetOf(ButOldest(s)[i], c))
                 => IF IsSetOf(Oldest(s), c) THEN NewestIn(s, c, Oldest(s).param)
                    ELSE \A i \in DOMAIN s : ~IsSetOf(s[i], c)
<1> DEFINE t == ButOldest(s)
<1>1. PICK n \in Nat : n = Len(s) /\ n > 0 /\ DOMAIN s = 1 .. n
  <2> HIDE DEF Item
  <2> QED BY EmptySeq
<1>2. DOMAIN t = 1 .. n - 1 /\ \A i \in 1 .. n - 1 : t[i] = s[i]
  <2> HIDE DEF Item
  <2> QED BY <1>1, SubSeqProperties DEF ButOldest
<1>3. Oldest(s) = s[n]
  BY <1>1, Zenon DEF Oldest
<1> HIDE DEF t
<1>4. ASSUME NEW v, NewestIn(t, c, v) PROVE NewestIn(s, c, v)
  <2>1. PICK i \in DOMAIN t : /\ IsSetOf(t[i], c) /\ t[i].param = v
                             /\ \A j \in DOMAIN t : j < i => ~IsSetOf(t[j], c)
    BY <1>4, Zenon DEF NewestIn
  <2>2. i \in DOMAIN s /\ \A j \in DOMAIN s : j < i => j \in DOMAIN t
    BY <1>1, <1>2
  <2>3. \A j \in DOMAIN s : j < i => ~IsSetOf(s[j], c)
    BY <1>2, <2>1, <2>2, Zenon
  <2> QED BY <1>2, <2>1, <2>2, <2>3, Zenon DEF NewestIn
<1>5. ASSUME \A i \in DOMAIN t : ~IsSetOf(t[i], c)
      PROVE  IF IsSetOf(Oldest(s), c) THEN NewestIn(s, c, Oldest(s).param)
             ELSE \A i \in DOMAIN s : ~IsSetOf(s[i], c)
  <2>1. \A i \in DOMAIN s : i \in DOMAIN t \/ i = n
    BY <1>1, <1>2
  <2>2. n \in DOMAIN s /\ \A j \in DOMAIN s : j < n => j \in DOMAIN t
    BY <1>1, <1>2
  <2>3. \A j \in DOMAIN s : j < n => ~IsSetOf(s[j], c)
    BY <1>2, <1>5, <2>2, Zenon
  <2>4. CASE IsSetOf(Oldest(s), c)
    BY <1>3, <2>2, <2>3, <2>4, Zenon DEF NewestIn
  <2>5. CASE ~IsSetOf(Oldest(s), c)
    <3>1. \A i \in DOMAIN s : ~IsSetOf(s[i], c)
      BY <1>2, <1>3, <1>5, <2>1, <2>5, Zenon
    <3> QED BY <3>1, <2>5, Zenon
  <2> QED BY <2>4, <2>5, Zenon
<1> QED BY <1>4, <1>5, Zenon DEF t

(* Removing the items equal to one removes all values of its command or none. *)
LEMMA RemoveNewest ==
    ASSUME NEW q \in Queues, NoPollFirst(q), NEW p \in Classes, NEW item, NEW c, NEW v,
           item.recurring \in BOOLEAN, NewestSet(Remove(q, p, item), c, v)
    PROVE  NewestSet(q, c, v)
<1> DEFINE s == q[Immediate]
           K == Survivors(s, item)
<1>1. CASE p # Immediate
  <2>1. Remove(q, p, item)[Immediate] = q[Immediate]
    BY <1>1, FirstIsClass, Zenon DEF Remove, Queues
  <2> QED BY <2>1, NewestOfLine, Zenon
<1>2. CASE p = Immediate
  <2>1. s \in Seq(Item)
    BY FirstIsClass DEF Queues
  <2>2. \A i \in DOMAIN s : i \in K <=> ~SameItem(s[i], item)
    BY Zenon DEF Survivors
  <2>3. \A i \in DOMAIN s : ~s[i].recurring
    BY Zenon DEF NoPollFirst
  <2>4. \A i \in DOMAIN s : s[i].recurring \in BOOLEAN
    <3>1. \A i \in DOMAIN s : s[i] \in Item
      BY <2>1
    <3> QED BY <3>1 DEF Item
  <2>5. \/ \A i \in DOMAIN s : IsSetOf(s[i], c) => i \in K
        \/ \A i \in K : ~IsSetOf(s[i], c)
    <3>1. K \subseteq DOMAIN s
      BY DEF Survivors
    <3>2. CASE item.command = c /\ ~item.recurring
      <4>1. \A i \in K : s[i].command # c
        BY <2>2, <2>3, <2>4, <3>1, <3>2, Zenon DEF SameItem
      <4> QED BY <4>1, Zenon DEF IsSetOf
    <3>3. CASE ~(item.command = c /\ ~item.recurring)
      BY <2>2, <2>3, <2>4, <3>3, Zenon DEF SameItem, IsSetOf
    <3> QED BY <3>2, <3>3
  <2>6. Remove(q, p, item)[Immediate] = Kept(s, K)
    BY <1>2, FirstIsClass, Zenon DEF Remove, Queues
  <2>7. K \in SUBSET DOMAIN s
    BY DEF Survivors
  <2> HIDE DEF K
  <2>8. NewestIn(Kept(s, K), c, v)
    BY <2>6, NewestOfLine, Zenon
  <2>9. NewestIn(s, c, v)
    BY <2>1, <2>5, <2>7, <2>8, KeptNewest, Zenon
  <2> QED BY <2>9, NewestOfLine, Zenon
<1> QED BY <1>1, <1>2

(* Inserting *)
LEMMA InsertNewest ==
    ASSUME NEW q \in Queues, NEW p \in Classes, NEW item \in Item, NEW c, NEW v,
           NewestSet(Insert(q, p, item), c, v)
    PROVE  IF p = Immediate /\ IsSetOf(item, c) THEN v = item.param
           ELSE NewestSet(q, c, v)
<1>1. CASE p # Immediate
  <2>1. Insert(q, p, item)[Immediate] = q[Immediate]
    BY <1>1, FirstIsClass, Zenon DEF Insert, Queues
  <2>2. NewestSet(q, c, v)
    BY <2>1, NewestOfLine, Zenon
  <2> QED BY <1>1, <2>2, Zenon
<1>2. CASE p = Immediate
  <2>1. Insert(q, p, item)[Immediate] = <<item>> \o q[Immediate]
    BY <1>2, FirstIsClass, Zenon DEF Insert, Queues
  <2>2. q[Immediate] \in Seq(Item)
    BY FirstIsClass DEF Queues
  <2>3. NewestIn(<<item>> \o q[Immediate], c, v)
    BY <2>1, NewestOfLine, Zenon
  <2>4. IF IsSetOf(item, c) THEN v = item.param ELSE NewestIn(q[Immediate], c, v)
    BY <2>2, <2>3, PrependNewest, Zenon
  <2> QED BY <1>2, <2>4, NewestOfLine, Zenon
<1> QED BY <1>1, <1>2

(* add() makes its own value the newest of its command, and no other. *)
LEMMA AddedNewest ==
    ASSUME NEW q \in Queues, NoPollFirst(q), NEW p \in Classes, NEW item \in Item,
           p = Immediate => ~item.recurring, NEW unique \in BOOLEAN, NEW c, NEW v,
           NewestSet(Added(q, p, item, unique), c, v)
    PROVE  IF p = Immediate /\ IsSetOf(item, c) THEN v = item.param
           ELSE NewestSet(q, c, v)
<1> DEFINE cleaned == IF unique THEN Remove(q, p, item) ELSE q
           asked == IF item.recurring /\ item.command \notin Unasked
                    THEN Insert(cleaned, Immediate, Get(item.command)) ELSE cleaned
<1>1. cleaned \in Queues
  BY RemoveType
<1>2. Immediate \in Classes /\ Get(item.command) \in Item /\ item.recurring \in BOOLEAN
  BY ItemTypes DEF Immediate, Classes, Item
<1>3. NewestSet(cleaned, c, v) => NewestSet(q, c, v)
  <2>1. NewestSet(Remove(q, p, item), c, v) => NewestSet(q, c, v)
    <3> HIDE DEF cleaned, asked
    <3>1. item.recurring \in BOOLEAN
      BY <1>2, Zenon
    <3> SUFFICES ASSUME NewestSet(Remove(q, p, item), c, v) PROVE NewestSet(q, c, v)
      OBVIOUS
    <3> QED BY <3>1, RemoveNewest
  <2>2. cleaned = Remove(q, p, item) \/ cleaned = q
    BY Zenon
  <2> HIDE DEF cleaned
  <2> QED BY <2>1, <2>2, Zenon
<1>4. Added(q, p, item, unique) = Insert(asked, p, item)
      \/ (Added(q, p, item, unique) = q /\ item.recurring)
  BY Zenon DEF Added
<1> HIDE DEF cleaned
<1>5. asked \in Queues
  BY <1>1, <1>2, InsertType
<1>6. NewestSet(asked, c, v) => NewestSet(cleaned, c, v)
  <2>1. ~IsSetOf(Get(item.command), c)
    BY DEF IsSetOf, Get
  <2> QED BY <1>1, <1>2, <2>1, InsertNewest, Zenon
<1> HIDE DEF asked
<1>7. CASE Added(q, p, item, unique) = Insert(asked, p, item)
  <2>1. NewestSet(Insert(asked, p, item), c, v)
    BY <1>7, Zenon
  <2>2. IF p = Immediate /\ IsSetOf(item, c) THEN v = item.param
        ELSE NewestSet(asked, c, v)
    BY <1>5, <2>1, InsertNewest, Zenon
  <2> QED BY <1>3, <1>6, <2>2, Zenon
<1>8. CASE Added(q, p, item, unique) = q /\ item.recurring
  <2>1. NewestSet(q, c, v)
    BY <1>8, Zenon
  <2> QED BY <1>8, <2>1, Zenon
<1> QED BY <1>4, <1>7, <1>8

(* del() takes polls only. *)
LEMMA DeletedNewest ==
    ASSUME NEW q \in Queues, NoPollFirst(q), NEW d, NEW c, NEW v,
           NewestSet(Deleted(q, d), c, v)
    PROVE  NewestSet(q, c, v)
<1>1. Poll(d).recurring \in BOOLEAN
  BY DEF Poll
<1>2. RecurringClass(q, d) # None
      => (NewestSet(Remove(q, RecurringClass(q, d), Poll(d)), c, v) => NewestSet(q, c, v))
  BY <1>1, RecurringClassType, RemoveNewest
<1> QED BY <1>2, Zenon DEF Deleted

(* What add() puts in the Immediate line is queued. *)
LEMMA AddedIsQueued ==
    ASSUME NEW q \in Queues, NEW item \in Item, ~item.recurring,
           NEW unique \in BOOLEAN, NEW c, IsSetOf(item, c)
    PROVE  SetQueued(Added(q, Immediate, item, unique), c)
<1> DEFINE cleaned == IF unique THEN Remove(q, Immediate, item) ELSE q
<1>1. cleaned \in Queues
  BY FirstIsClass, RemoveType
<1>2. Added(q, Immediate, item, unique) = Insert(cleaned, Immediate, item)
  BY Zenon DEF Added
<1> HIDE DEF cleaned
<1>3. item.command = c /\ item.param # NoValue
  BY Zenon DEF IsSetOf
<1>4. SetQueued(Insert(cleaned, Immediate, item), c)
  BY <1>1, <1>3, FirstIsClass, InsertKeepsSets
<1> QED BY <1>2, <1>4, Zenon
=============================================================================
