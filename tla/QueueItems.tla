----------------------------- MODULE QueueItems -----------------------------
(***************************************************************************)
(* The container of the command queue: QMultiMap<queuePriority,queueItem>  *)
(* of include/cachingqueue.h, and the operations cachingQueue performs on  *)
(* it.  A multimap is a function from the priority classes to the sequence *)
(* of its items in iteration order.  QMultiMap::insert of Qt 5 puts a new  *)
(* item in FRONT of the items with the same key, so the newest item is the *)
(* first of its sequence and the oldest is the last.                       *)
(*                                                                         *)
(* A command is a pair of a rig function and a receiver: the code never    *)
(* looks at one without the other.  param is NoValue for a "get".          *)
(***************************************************************************)
EXTENDS Integers, Sequences, FiniteSets

CONSTANTS Commands,     \* (function, receiver) pairs the rig understands
          Values,       \* the values a set command or a reply can carry
          NoValue,      \* an invalid QVariant
          Unasked       \* the commands add() does not ask at once: funcTransceiverId

ASSUME NoValueAssumption == NoValue \notin Values /\ Unasked \subseteq Commands

(* enum queuePriority: "Use prime numbers for priority, so that each queue is
   processed" *)
None == 0
Immediate == 1
Highest == 2
Lowest == 23
Classes == {1, 2, 3, 5, 7, 11, 19, 23}
Polled == Classes \ {Immediate}

Item == [command : Commands, param : Values \cup {NoValue}, recurring : BOOLEAN]
Get(c) == [command |-> c, param |-> NoValue, recurring |-> FALSE]
Set(c, v) == [command |-> c, param |-> v, recurring |-> FALSE]
(* Mutant of Poll: the poll carries a value, QVariant(0) for QVariant() *)
PollZero(c) == [command |-> c, param |-> 0, recurring |-> TRUE]
Poll(c) == [command |-> c, param |-> NoValue, recurring |-> TRUE]

(* Mutant of SameItem: recurring is not compared *)
SameCommand(a, b) == a.command = b.command

(* queueItem::operator== looks at the command and at recurring, not at param *)
SameItem(a, b) == a.command = b.command /\ a.recurring = b.recurring

Empty == [p \in Classes |-> <<>>]
Insert(q, p, item) == [q EXCEPT ![p] = <<item>> \o q[p]]

(* The j-th smallest element of a finite set of positions *)
Nth(K, j) == CHOOSE i \in K : Cardinality({k \in K : k <= i}) = j

(* What is left of a sequence when only the positions K stay *)
Kept(s, K) == [j \in 1 .. Cardinality(K) |-> s[Nth(K, j)]]

(* QMultiMap::remove(key, value): every item of the class equal to item goes *)
Survivors(s, item) == {i \in DOMAIN s : ~SameItem(s[i], item)}
Remove(q, p, item) == [q EXCEPT ![p] = Kept(q[p], Survivors(q[p], item))]

(* The class a recurring command is first found in, None when it is nowhere:
   find_if walks the map from the smallest key *)
PollClasses(q, c) ==
    {p \in Classes : \E i \in DOMAIN q[p] : SameItem(q[p][i], Poll(c))}
RecurringClass(q, c) ==
    IF PollClasses(q, c) = {} THEN None
    ELSE CHOOSE p \in PollClasses(q, c) : \A o \in PollClasses(q, c) : p <= o

(* The map after add(prio, item, unique).  A recurring command that is already
   first found in this very class is left alone, and one of class Immediate is
   refused.  A recurring command also queues one Immediate get, to learn the
   current value now, unless it asks who the radio is.  (Qt ignores the position
   that insert is given for it, since Immediate is the smallest key: the get, too,
   becomes the newest of its class.) *)
Added(q, p, item, unique) ==
    LET cleaned == IF unique THEN Remove(q, p, item) ELSE q
        asked   == IF item.recurring /\ item.command \notin Unasked
                   THEN Insert(cleaned, Immediate, Get(item.command))
                   ELSE cleaned
    IN  IF item.recurring /\ (RecurringClass(q, item.command) = p \/ p = Immediate)
        THEN q
        ELSE Insert(asked, p, item)

(* The map after del(func, receiver) *)
Deleted(q, c) ==
    LET p == RecurringClass(q, c) IN IF p = None THEN q ELSE Remove(q, p, Poll(c))

(* The oldest item of a class, the one run() takes: the last of find(prio)'s
   range; and the class without it *)
Oldest(s) == s[Len(s)]
ButOldest(s) == SubSeq(s, 1, Len(s) - 1)

(* Mutants of Taken: a recurring item is put back where it was, as the next to go;
   a recurring item is not put back *)
TakenToFront(q, p) ==
    [q EXCEPT ![p] = IF Oldest(q[p]).recurring /\ p # Immediate THEN q[p]
                     ELSE ButOldest(q[p])]
TakenOnce(q, p) == [q EXCEPT ![p] = ButOldest(q[p])]

(* The map after run() has taken the oldest item of class p: a recurring item
   is inserted again, and so becomes the newest of its class *)
Taken(q, p) ==
    LET rest == [q EXCEPT ![p] = ButOldest(q[p])]
        item == Oldest(q[p])
    IN  IF item.recurring /\ p # Immediate THEN Insert(rest, p, item) ELSE rest

(* A value of command c waits to be set; v is the newest that does *)
IsSetOf(item, c) == item.command = c /\ item.param # NoValue
SetQueued(q, c) == \E i \in DOMAIN q[Immediate] : IsSetOf(q[Immediate][i], c)
NewestSet(q, c, v) ==
    \E i \in DOMAIN q[Immediate] :
        /\ IsSetOf(q[Immediate][i], c) /\ q[Immediate][i].param = v
        /\ \A j \in DOMAIN q[Immediate] : j < i => ~IsSetOf(q[Immediate][j], c)

Size(q) == Len(q[1]) + Len(q[2]) + Len(q[3]) + Len(q[5])
           + Len(q[7]) + Len(q[11]) + Len(q[19]) + Len(q[23])
=============================================================================
