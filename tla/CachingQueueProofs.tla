------------------------- MODULE CachingQueueProofs -------------------------
(* Theorems about CachingQueue for every rig, every poll table and every queue
   length: the bounds MaxQueue and MaxPending and the constant CounterMod stay
   parameters. *)
EXTENDS CachingQueue, QueueItemsProofs

(* add() keeps the parts of the type invariant it writes. *)
LEMMA AddKeepsTypes ==
    ASSUME TypeOK, NEW p \in Classes, NEW item \in Item, NEW unique \in BOOLEAN,
           Add(p, item, unique), asking' \in SUBSET Commands
    PROVE  TypeOK'
<1>1. queue' \in Queues
  BY AddedType DEF TypeOK, Add, Queues
<1>2. cache' \in [Commands -> Values \cup {NoValue}]
  <2>1. CASE ~item.recurring /\ p = Immediate
    <3>1. item.command \in Commands /\ item.param \in Values \cup {NoValue}
      BY DEF Item
    <3>2. UpdateCache(item.command, item.param)
      BY <2>1 DEF Add
    <3> QED BY <3>1, <3>2 DEF TypeOK, UpdateCache
  <2>2. CASE ~(~item.recurring /\ p = Immediate)
    BY <2>2 DEF TypeOK, Add
  <2> QED BY <2>1, <2>2
<1>3. astray' \subseteq Commands
  BY DEF TypeOK, Add, Withdrawn
<1> QED BY <1>1, <1>2, <1>3 DEF TypeOK, Add, Queues, threadVars

(* The class whose turn it is is a class. *)
LEMMA TurnType ==
    ASSUME counter \in Nat
    PROVE  Turn \in Classes
<1>1. Slot(counter) \in Classes
  <2> DEFINE D == {p \in Polled : counter % p = 0}
  <2>1. CASE D = {}
    BY <2>1 DEF Slot, Immediate, Classes
  <2>2. CASE D # {}
    <3>1. D \in SUBSET Nat /\ D \subseteq Classes
      BY DEF Polled, Classes
    <3>2. \E p \in D : \A o \in D : p <= o
      BY <3>1, <2>2, LeastNumber
    <3>3. Slot(counter) \in D
      BY <3>2, <2>2, Zenon DEF Slot
    <3> QED BY <3>1, <3>3
  <2> QED BY <2>1, <2>2
<1> QED BY <1>1 DEF Turn, Immediate, Classes

(* The counter stays in its range and the sent item is an item. *)
LEMMA TickKeepsTypes ==
    ASSUME TypeOK, Tick
    PROVE  TypeOK'
<1> DEFINE prio == Turn
           base == IF prio = Lowest THEN Immediate ELSE counter
           item == Oldest(queue[prio])
<1>1. prio \in Classes
  BY TurnType DEF TypeOK
<1>2. counter' \in 0 .. CounterMod - 1
  <2>1. counter' = (base + 1) % CounterMod
    BY DEF Tick
  <2>2. base \in Nat
    BY DEF TypeOK, Immediate
  <2> HIDE DEF base
  <2> QED BY <2>1, <2>2, QueueAssumption DEF Lowest
<1>3. CASE queue[prio] = <<>>
  <2>1. UNCHANGED <<queue, cache, haveCommand, told, extraSends>>
    BY <1>3 DEF Tick
  <2> QED BY <1>2, <2>1 DEF TypeOK, Tick, running
<1>4. CASE queue[prio] # <<>>
  <2>1. item \in Item /\ Taken(queue, prio) \in Queues
    BY <1>1, <1>4, TakenType DEF TypeOK, Queues
  <2>2. haveCommand' = item /\ queue' = Taken(queue, prio)
    BY <1>4 DEF Tick
  <2>3. /\ UpdateCache(item.command, item.param) \/ UNCHANGED cache
        /\ Exchanged(item.command, item.param)
    BY <1>4 DEF Tick
  <2>4. extraSends' \in Nat
    BY <1>4 DEF Tick, TypeOK
  <2> HIDE DEF item, prio
  <2>5. item.command \in Commands /\ item.param \in Values \cup {NoValue}
    BY <2>1 DEF Item
  <2>6. cache' \in [Commands -> Values \cup {NoValue}]
        /\ told' \in [Commands -> Values \cup {NoValue}]
    BY <2>3, <2>5 DEF TypeOK, UpdateCache, Exchanged
  <2>7. /\ pc' = "ticked"
        /\ UNCHANGED <<fresh, asking, pending, queueInterval, late, deadline, astray>>
    BY DEF Tick, running
  <2> QED BY <1>2, <2>1, <2>2, <2>4, <2>6, <2>7 DEF TypeOK, Queues
<1> QED BY <1>3, <1>4

(* Every step keeps the types. *)
LEMMA StepKeepsTypes ==
    ASSUME TypeOK, Next
    PROVE  TypeOK'
<1> USE DEF Immediate, Classes, history, threadVars, running, Armed, Wake
<1>1. ASSUME Thread PROVE TypeOK'
  <2>1. CASE Start
    BY <2>1 DEF TypeOK, Start
  <2>2. CASE EnterWait
    BY <2>2 DEF TypeOK, EnterWait
  <2>3. CASE TimeOut
    BY <2>3 DEF TypeOK, TimeOut
  <2>4. CASE Tick
    BY <2>4, TickKeepsTypes
  <2>5. CASE Rearm
    BY <2>5 DEF TypeOK, Rearm
  <2>6. CASE Drain
    BY <2>6 DEF TypeOK, Drain
  <2> QED BY <1>1, <2>1, <2>2, <2>3, <2>4, <2>5, <2>6 DEF Thread
<1>2. ASSUME NEW c \in Commands, NEW v \in Values,
             AddSet(c, v) \/ AddUniqueSet(c, v) \/ ReceiveValue(c, v)
      PROVE  TypeOK'
  <2>1. CASE AddSet(c, v) \/ AddUniqueSet(c, v)
    <3>1. asking' \in SUBSET Commands
      BY <2>1 DEF AddSet, AddUniqueSet, TypeOK
    <3> QED BY <2>1, <3>1, ItemTypes, AddKeepsTypes DEF AddSet, AddUniqueSet
  <2>2. CASE ReceiveValue(c, v)
    BY <2>2 DEF TypeOK, ReceiveValue, UpdateCache, Exchanged
  <2> QED BY <1>2, <2>1, <2>2
<1>3. ASSUME NEW c \in Commands,
             AddGet(c) \/ GetCache(c) \/ AskAgain(c) \/ Age(c) \/ Del(c)
      PROVE  TypeOK'
  <2>1. CASE AddGet(c)
    <3>1. asking' \in SUBSET Commands
      BY <2>1 DEF AddGet, TypeOK
    <3> QED BY <2>1, <3>1, ItemTypes, AddKeepsTypes DEF AddGet
  <2>4. CASE GetCache(c)
    BY <2>4 DEF TypeOK, GetCache
  <2>5. CASE AskAgain(c)
    <3>1. asking' \in SUBSET Commands
      BY <2>5 DEF AskAgain, TypeOK
    <3>2. CASE Add(Immediate, Get(c), TRUE)
      BY <3>1, <3>2, ItemTypes, AddKeepsTypes
    <3>3. CASE UNCHANGED <<queue, cache, fresh, pending, running, threadVars,
                           haveCommand, history>>
      BY <3>1, <3>3 DEF TypeOK
    <3> QED BY <2>5, <3>2, <3>3 DEF AskAgain
  <2>2. CASE Age(c)
    BY <2>2 DEF TypeOK, Age
  <2>3. CASE Del(c)
    <3>1. queue' \in Queues
      BY <2>3, DeletedType DEF TypeOK, Del, Queues
    <3> QED BY <2>3, <3>1 DEF TypeOK, Del, Queues
  <2> QED BY <1>3, <2>1, <2>2, <2>3, <2>4, <2>5
<1>4. ASSUME NEW pair \in PollPlan, AddPoll(pair[1], pair[2])
      PROVE  TypeOK'
  <2>1. pair[1] \in Classes /\ pair[2] \in Commands
    BY QueueAssumption DEF Polled
  <2>2. asking' \in SUBSET Commands
    BY <1>4 DEF AddPoll, TypeOK
  <2> QED BY <1>4, <2>1, <2>2, ItemTypes, AddKeepsTypes DEF AddPoll
<1>5. ASSUME NEW c \in Meters, AddMeter(c)
      PROVE  TypeOK'
  <2>1. c \in Commands /\ Highest \in Classes
    BY QueueAssumption DEF Highest
  <2>2. asking' \in SUBSET Commands
    BY <1>5 DEF AddMeter, TypeOK
  <2> QED BY <1>5, <2>1, <2>2, ItemTypes, AddKeepsTypes DEF AddMeter
<1>6. ASSUME NEW val \in Intervals \cup {Stopped}, Interval(val)
      PROVE  TypeOK'
  BY <1>6 DEF TypeOK, Interval
<1>7. CASE Clear
  <2>1. Empty \in Queues
    BY DEF Empty, Queues
  <2> QED BY <1>7, <2>1 DEF TypeOK, Clear, Queues, Withdrawn
<1>8. CASE Message
  BY <1>8 DEF TypeOK, Message
<1> QED
  BY <1>1, <1>2, <1>3, <1>4, <1>5, <1>6, <1>7, <1>8, QueueAssumption DEF Next, Callers

(* Every reachable state is well typed: the multimap holds items of known
   commands only, and the quint16 counter never leaves its range. *)
THEOREM TypeCorrect == Spec => []TypeOK
<1>1. Init => TypeOK
  <2> SUFFICES ASSUME Init PROVE TypeOK
    OBVIOUS
  <2>1. queue \in [Classes -> Seq(Item)]
    BY DEF Init, Empty
  <2>2. late \in BOOLEAN
    BY Zenon DEF Init
  <2>3. counter \in 0 .. CounterMod - 1
    BY QueueAssumption DEF Init, Immediate, Lowest
  <2> QED BY <2>1, <2>2, <2>3 DEF Init, TypeOK
<1>2. TypeOK /\ [Next]_vars => TypeOK'
  <2>1. ASSUME TypeOK, UNCHANGED vars PROVE TypeOK'
    BY <2>1 DEF TypeOK, vars
  <2> QED BY <2>1, StepKeepsTypes
<1> QED BY <1>1, <1>2, PTL DEF Spec

-----------------------------------------------------------------------------
(* Stopping the queue *)

(* After a stop the one send that may still leave is that of a deadline which
   was already running.  Once it has left, the thread either has not re-armed
   its deadline yet, or sleeps on one that never expires. *)
StopInv ==
    /\ extraSends \in {0, 1}
    /\ queueInterval # Stopped => extraSends = 0
    /\ extraSends = 1 => pc = "ticked" \/ (deadline = "forever" /\ pc # "timedout")
    /\ pc = "timedout" => deadline = "armed"

(* The steps of the thread keep StopInv. *)
LEMMA ThreadKeepsStopInv ==
    ASSUME StopInv, Thread
    PROVE  StopInv'
<1> USE DEF StopInv, history, running, Armed
<1>1. CASE Start
  BY <1>1 DEF Start
<1>2. CASE EnterWait
  BY <1>2 DEF EnterWait
<1>3. CASE TimeOut
  BY <1>3 DEF TimeOut
<1>4. CASE Tick
  <2>1. pc = "timedout" /\ extraSends = 0
    BY <1>4 DEF Tick
  <2>2. extraSends' = 0 \/ (extraSends' = 1 /\ queueInterval = Stopped)
    BY <1>4, <2>1 DEF Tick
  <2>3. pc' = "ticked" /\ UNCHANGED <<queueInterval, deadline>>
    BY <1>4 DEF Tick
  <2> QED BY <2>2, <2>3
<1>5. CASE Rearm
  BY <1>5 DEF Rearm
<1>6. CASE Drain
  BY <1>6 DEF Drain
<1> QED BY <1>1, <1>2, <1>3, <1>4, <1>5, <1>6 DEF Thread

(* The callers post and withdraw commands under the mutex and touch neither the
   deadline nor the count; interval() resets the count when it starts the queue. *)
LEMMA CallersKeepStopInv ==
    ASSUME StopInv, Callers
    PROVE  StopInv'
<1> DEFINE Idle == UNCHANGED <<queueInterval, deadline, extraSends>>
<1>1. ASSUME NEW val \in Intervals \cup {Stopped}, Interval(val)
      PROVE  StopInv'
  BY <1>1 DEF StopInv, Interval, Wake
<1>2. ASSUME ~(\E val \in Intervals \cup {Stopped} : Interval(val))
      PROVE  Idle /\ (UNCHANGED pc \/ Wake)
  <2>1. ASSUME NEW p, NEW item, NEW unique, Add(p, item, unique)
        PROVE  Idle /\ UNCHANGED pc
    BY <2>1 DEF Add, threadVars
  <2> USE DEF threadVars, history, running
  <2>2. ASSUME NEW c \in Commands, NEW v \in Values,
               AddSet(c, v) \/ AddUniqueSet(c, v) \/ ReceiveValue(c, v)
        PROVE  Idle /\ (UNCHANGED pc \/ Wake)
    BY <2>1, <2>2 DEF AddSet, AddUniqueSet, ReceiveValue
  <2>3. ASSUME NEW c \in Commands,
               AddGet(c) \/ GetCache(c) \/ AskAgain(c) \/ Age(c) \/ Del(c)
        PROVE  Idle /\ UNCHANGED pc
    BY <2>1, <2>3 DEF AddGet, GetCache, AskAgain, Age, Del
  <2>4. ASSUME NEW pair \in PollPlan, AddPoll(pair[1], pair[2])
        PROVE  Idle /\ UNCHANGED pc
    BY <2>1, <2>4 DEF AddPoll
  <2>5. ASSUME NEW c \in Meters, AddMeter(c)
        PROVE  Idle /\ UNCHANGED pc
    BY <2>1, <2>5 DEF AddMeter
  <2>6. CASE Clear \/ Message
    BY <2>6 DEF Clear, Message
  <2> QED BY <1>2, <2>2, <2>3, <2>4, <2>5, <2>6, QueueAssumption DEF Callers
<1>3. ASSUME Idle, UNCHANGED pc \/ Wake PROVE StopInv'
  BY <1>3 DEF StopInv, Wake
<1> QED BY <1>1, <1>2, <1>3

(* interval(-1) lets at most one more command out, however the calls fall
   between the thread's steps. *)
THEOREM StopSafety == Spec => []StopLetsOneOut
<1>1. Init => StopInv
  BY DEF Init, StopInv
<1>2. StopInv /\ [Next]_vars => StopInv'
  <2>1. ASSUME StopInv, UNCHANGED vars PROVE StopInv'
    BY <2>1 DEF StopInv, vars
  <2> QED BY <2>1, ThreadKeepsStopInv, CallersKeepStopInv DEF Next
<1>3. StopInv => StopLetsOneOut
  BY DEF StopInv, StopLetsOneOut
<1> QED BY <1>1, <1>2, <1>3, PTL DEF Spec

-----------------------------------------------------------------------------
(* The polls *)

(* add() refuses a recurring command of class Immediate, so what is taken from
   that line never has to be put back. *)
ImmediateInv == NoPollFirst(queue)

(* What a step can do to the queue. *)
LEMMA QueueSteps ==
    ASSUME TypeOK, Next
    PROVE  \/ UNCHANGED queue
           \/ \E p \in Classes, item \in Item, unique \in BOOLEAN :
                 queue' = Added(queue, p, item, unique)
           \/ \E c \in Commands : Del(c)
           \/ Clear
           \/ Tick /\ \E p \in Classes : queue[p] # <<>> /\ queue' = Taken(queue, p)
<1> DEFINE Adding == \E p \in Classes, item \in Item, unique \in BOOLEAN :
                        queue' = Added(queue, p, item, unique)
<1>1. \A p \in Classes, item \in Item, unique \in BOOLEAN :
          Add(p, item, unique) => Adding
  BY DEF Add
<1>2. Immediate \in Classes /\ Highest \in Classes
  BY DEF Immediate, Highest, Classes
<1> HIDE DEF Adding
<1>3. CASE Tick
  <2>1. Turn \in Classes
    BY TurnType DEF TypeOK
  <2>2. UNCHANGED queue \/ (queue[Turn] # <<>> /\ queue' = Taken(queue, Turn))
    BY <1>3 DEF Tick
  <2> QED BY <1>3, <2>1, <2>2
<1>4. CASE Start \/ EnterWait \/ TimeOut \/ Rearm \/ Drain \/ Message
  BY <1>4 DEF Start, EnterWait, TimeOut, Rearm, Drain, Message
<1>5. ASSUME NEW c \in Commands, NEW v \in Values,
             AddSet(c, v) \/ AddUniqueSet(c, v) \/ ReceiveValue(c, v)
      PROVE  Adding \/ UNCHANGED queue
  BY <1>5, <1>1, <1>2, ItemTypes DEF AddSet, AddUniqueSet, ReceiveValue
<1>6. ASSUME NEW c \in Commands, AddGet(c) \/ GetCache(c) \/ AskAgain(c) \/ Age(c)
      PROVE  Adding \/ UNCHANGED queue
  BY <1>6, <1>1, <1>2, ItemTypes DEF AddGet, GetCache, AskAgain, Age
<1>7. ASSUME NEW pair \in PollPlan, AddPoll(pair[1], pair[2])
      PROVE  Adding
  <2>1. pair[1] \in Classes /\ pair[2] \in Commands
    BY QueueAssumption DEF Polled
  <2> QED BY <1>7, <2>1, <1>1, ItemTypes DEF AddPoll
<1>8. ASSUME NEW c \in Meters, AddMeter(c)
      PROVE  Adding
  <2>1. c \in Commands
    BY QueueAssumption
  <2> QED BY <1>8, <2>1, <1>1, <1>2, ItemTypes DEF AddMeter
<1>9. ASSUME NEW val \in Intervals \cup {Stopped}, Interval(val)
      PROVE  UNCHANGED queue
  BY <1>9 DEF Interval
<1> QED
  BY <1>3, <1>4, <1>5, <1>6, <1>7, <1>8, <1>9, QueueAssumption
     DEF Next, Callers, Thread, Adding

(* No step puts a poll in the Immediate line. *)
LEMMA StepKeepsImmediateInv ==
    ASSUME TypeOK, ImmediateInv, Next
    PROVE  ImmediateInv'
<1> USE DEF ImmediateInv
<1>1. queue \in Queues
  BY DEF TypeOK, Queues
<1>2. CASE UNCHANGED queue
  BY <1>2
<1>3. ASSUME NEW p \in Classes, NEW item \in Item, NEW unique \in BOOLEAN,
             queue' = Added(queue, p, item, unique)
      PROVE  ImmediateInv'
  BY <1>1, <1>3, AddedNoPollFirst
<1>4. ASSUME NEW c \in Commands, Del(c) PROVE ImmediateInv'
  BY <1>1, <1>4, DeletedNoPollFirst DEF Del
<1>5. CASE Clear
  BY <1>5 DEF Clear, Empty, Immediate, Classes, NoPollFirst
<1>6. ASSUME NEW p \in Classes, queue[p] # <<>>, queue' = Taken(queue, p)
      PROVE  ImmediateInv'
  BY <1>1, <1>6, TakenNoPollFirst
<1> QED BY <1>2, <1>3, <1>4, <1>5, <1>6, QueueSteps

(* A step loses a poll only by deleting it or clearing the queue. *)
LEMMA StepKeepsPolls ==
    ASSUME TypeOK, ImmediateInv, Next, NEW c \in Commands,
           IsPolled(queue, c), ~IsPolled(queue', c)
    PROVE  Del(c) \/ Clear
<1> USE DEF IsPolled
<1>1. queue \in Queues
  BY DEF TypeOK, Queues
<1>2. ~UNCHANGED queue
  OBVIOUS
<1>3. ASSUME NEW p \in Classes, NEW item \in Item, NEW unique \in BOOLEAN,
             queue' = Added(queue, p, item, unique)
      PROVE  FALSE
  BY <1>1, <1>3, AddedKeepsPolls
<1>4. ASSUME NEW d \in Commands, Del(d) PROVE d = c
  BY <1>1, <1>4, DeletedKeepsPolls DEF Del
<1>5. ASSUME NEW p \in Classes, queue[p] # <<>>, queue' = Taken(queue, p)
      PROVE  FALSE
  BY <1>1, <1>5, TakenKeepsPolls DEF ImmediateInv, NoPollFirst
<1> QED BY <1>2, <1>3, <1>4, <1>5, QueueSteps

(* The Immediate line never holds a poll. *)
LEMMA NoPollIsImmediate == Spec => []ImmediateInv
<1>1. Init => ImmediateInv
  BY DEF Init, ImmediateInv, NoPollFirst, Empty, Immediate, Classes
<1>2. TypeOK /\ ImmediateInv /\ [Next]_vars => ImmediateInv'
  <2>1. ASSUME ImmediateInv, UNCHANGED vars PROVE ImmediateInv'
    BY <2>1 DEF ImmediateInv, vars
  <2> QED BY <2>1, StepKeepsImmediateInv
<1> QED BY <1>1, <1>2, TypeCorrect, PTL DEF Spec

(* A poll the application asked for is lost only by del() and clear(). *)
THEOREM PollsAreKept == Spec => PollsSurvive
<1>1. TypeOK /\ ImmediateInv /\ [Next]_vars
      => [\A c \in Commands :
            IsPolled(queue, c) /\ ~IsPolled(queue', c) => Del(c) \/ Clear]_vars
  BY StepKeepsPolls
<1> QED BY <1>1, NoPollIsImmediate, TypeCorrect, PTL DEF Spec, PollsSurvive

-----------------------------------------------------------------------------
(* The values that wait to be set *)

(* What a caller's add() takes out of the Immediate line. *)
LEMMA AddKeepsSets ==
    ASSUME TypeOK, ImmediateInv, NEW c, SetQueued(queue, c), ~SetQueued(queue', c),
           NEW p \in Classes, NEW item \in Item, NEW unique \in BOOLEAN,
           Add(p, item, unique)
    PROVE  unique /\ p = Immediate /\ item = Get(c)
<1>1. queue \in Queues /\ NoPollFirst(queue)
  BY DEF TypeOK, Queues, ImmediateInv
<1>2. queue' = Added(queue, p, item, unique)
  BY DEF Add
<1>3. SetQueued(queue, c) /\ ~SetQueued(Added(queue, p, item, unique), c)
  BY <1>2, Zenon
<1> QED BY <1>1, <1>3, AddedKeepsSets, Zenon

(* A get, a poll and a value to set are three things. *)
LEMMA ItemKinds ==
    ASSUME NEW c, NEW d
    PROVE  /\ Poll(c) # Get(d)
           /\ \A v \in Values : Set(c, v) # Get(d)
           /\ Get(c) = Get(d) => c = d
<1>1. Poll(c).recurring # Get(d).recurring
  BY DEF Poll, Get
<1>2. ASSUME NEW v \in Values PROVE Set(c, v).param # Get(d).param
  BY <1>2, NoValueAssumption DEF Set, Get
<1>3. Get(c).command = c /\ Get(d).command = d
  BY DEF Get
<1> QED BY <1>1, <1>2, <1>3, Zenon

(* Of all that add() is called for, only the read of a stale value leaves no value
   where one was. *)
LEMMA CallersKeepSets ==
    ASSUME TypeOK, ImmediateInv, NEW c \in Commands,
           SetQueued(queue, c), ~SetQueued(queue', c), Callers
    PROVE  Clear \/ AskAgain(c)
<1>1. Immediate \in Classes /\ Highest \in Classes /\ Highest # Immediate
  BY DEF Immediate, Highest, Classes
<1>2. ~UNCHANGED queue
  BY Zenon
<1>3. ASSUME NEW d \in Commands, NEW v \in Values,
             AddSet(d, v) \/ AddUniqueSet(d, v) \/ ReceiveValue(d, v)
      PROVE  FALSE
  <2>1. Set(d, v) \in Item /\ Set(d, v) # Get(c)
    BY ItemTypes, ItemKinds, Zenon
  <2>2. ~ReceiveValue(d, v)
    BY <1>2, Zenon DEF ReceiveValue
  <2>3. ~AddSet(d, v) /\ ~AddUniqueSet(d, v)
    BY <1>1, <2>1, AddKeepsSets, Zenon DEF AddSet, AddUniqueSet
  <2> QED BY <1>3, <2>2, <2>3, Zenon
<1>4. ASSUME NEW d \in Commands,
             AddGet(d) \/ GetCache(d) \/ AskAgain(d) \/ Age(d) \/ Del(d)
      PROVE  AskAgain(c)
  <2>1. Get(d) \in Item
    BY ItemTypes, Zenon
  <2>2. ~AddGet(d)
    BY <1>1, <2>1, AddKeepsSets, Zenon DEF AddGet
  <2>3. ~Age(d) /\ ~GetCache(d)
    BY <1>2, Zenon DEF Age, GetCache
  <2>4. ~Del(d)
    <3>1. queue \in Queues /\ NoPollFirst(queue)
      BY DEF TypeOK, Queues, ImmediateInv
    <3>2. Del(d) => queue' = Deleted(queue, d)
      BY Zenon DEF Del
    <3>3. SetQueued(queue, c) /\ ~SetQueued(queue', c)
      BY Zenon
    <3>4. SetQueued(Deleted(queue, d), c)
      BY <3>1, <3>3, DeletedKeepsSets, Zenon
    <3> QED BY <3>2, <3>3, <3>4, Zenon
  <2>5. AskAgain(d) => Get(d) = Get(c)
    <3>1. AskAgain(d) => Add(Immediate, Get(d), TRUE)
      BY <1>2, Zenon DEF AskAgain
    <3> QED BY <1>1, <2>1, <3>1, AddKeepsSets, Zenon
  <2>6. AskAgain(d) => d = c
    BY <2>5, ItemKinds, Zenon
  <2> QED BY <1>4, <2>2, <2>3, <2>4, <2>6, Zenon
<1>5. ASSUME NEW pair \in PollPlan, AddPoll(pair[1], pair[2]) PROVE FALSE
  <2>1. pair[1] \in Classes /\ pair[2] \in Commands
    BY QueueAssumption DEF Polled
  <2>2. Poll(pair[2]) \in Item
    BY <2>1, ItemTypes, Zenon
  <2> QED BY <1>5, <2>1, <2>2, AddKeepsSets, Zenon DEF AddPoll
<1>6. ASSUME NEW d \in Meters, AddMeter(d) PROVE FALSE
  <2>1. Poll(d) \in Item
    BY QueueAssumption, ItemTypes, Zenon
  <2> QED BY <1>1, <1>6, <2>1, AddKeepsSets, Zenon DEF AddMeter
<1>7. ASSUME NEW val, Interval(val) PROVE FALSE
  BY <1>2, <1>7, Zenon DEF Interval
<1>8. ~Message
  BY <1>2, Zenon DEF Message
<1>9. \A d \in Served : d \in Commands
  BY QueueAssumption
<1> QED BY <1>3, <1>4, <1>5, <1>6, <1>7, <1>8, <1>9, Zenon DEF Callers

(* The thread takes a value out of the line by sending it. *)
LEMMA ThreadKeepsSets ==
    ASSUME TypeOK, NEW c \in Commands, SetQueued(queue, c), ~SetQueued(queue', c), Thread
    PROVE  Tick /\ haveCommand'.command = c /\ haveCommand'.param # NoValue
<1>1. ~UNCHANGED queue
  BY Zenon
<1>2. Tick
  BY <1>1, Zenon DEF Thread, Start, EnterWait, TimeOut, Rearm, Drain
<1>3. Turn \in Classes /\ queue \in Queues
  BY TurnType DEF TypeOK, Queues
<1>4. queue[Turn] # <<>> /\ queue' = Taken(queue, Turn) /\ haveCommand' = Oldest(queue[Turn])
  BY <1>1, <1>2, Zenon DEF Tick
<1>5. SetQueued(queue, c) /\ ~SetQueued(Taken(queue, Turn), c)
  BY <1>4, Zenon
<1>6. Oldest(queue[Turn]).command = c /\ Oldest(queue[Turn]).param # NoValue
  BY <1>3, <1>4, <1>5, TakenKeepsSets, Zenon
<1> QED BY <1>2, <1>4, <1>6, Zenon

(* A value to set is sent, cleared, replaced by a newer one or displaced by the read
   of a stale value, and leaves the queue in no other way. *)
THEOREM SetsLeave == Spec => SetsLeaveBySending
<1>1. TypeOK /\ ImmediateInv /\ [Next]_vars
      => [\A c \in Commands :
            SetQueued(queue, c) /\ ~SetQueued(queue', c)
                => \/ Tick /\ haveCommand'.command = c /\ haveCommand'.param # NoValue
                   \/ Clear \/ AskAgain(c)]_vars
  BY CallersKeepSets, ThreadKeepsSets, Zenon DEF Next
<1> QED BY <1>1, NoPollIsImmediate, TypeCorrect, PTL DEF Spec, SetsLeaveBySending

-----------------------------------------------------------------------------
(* The cache *)

(* What updateCache() leaves in the cache. *)
LEMMA UpdateSays ==
    ASSUME TypeOK, NEW c \in Commands, NEW v \in Values \cup {NoValue}, UpdateCache(c, v)
    PROVE  /\ \A d \in Commands : d # c \/ v = NoValue => cache'[d] = cache[d]
           /\ v # NoValue => Alike(c, cache'[c], v)
<1>1. cache' = [cache EXCEPT ![c] = IF Differs(c, v, cache[c]) THEN v ELSE cache[c]]
  BY Zenon DEF UpdateCache
<1>2. DOMAIN cache = Commands
  BY DEF TypeOK
<1>3. /\ \A d \in Commands : d # c => cache'[d] = cache[d]
      /\ cache'[c] = IF Differs(c, v, cache[c]) THEN v ELSE cache[c]
  BY <1>1, <1>2, Zenon
<1>4. v = NoValue => ~Differs(c, v, cache[c])
  BY Zenon DEF Differs
<1>5. v # NoValue => Alike(c, cache'[c], v)
  <2>1. CASE Differs(c, v, cache[c])
    BY <1>3, <2>1, Zenon DEF Alike
  <2>2. CASE ~Differs(c, v, cache[c])
    BY <1>3, <2>2, Zenon DEF Alike, Differs
  <2> QED BY <2>1, <2>2
<1> QED BY <1>3, <1>4, <1>5, Zenon

(* The cache is ahead for one command *)
Ahead(c) ==
    /\ \A v \in Values : NewestSet(queue, c, v) => Alike(c, cache[c], v)
    /\ ~SetQueued(queue, c) => Alike(c, cache[c], told[c])

(* A command whose cached and exchanged values stay, whose newest value was so before
   and whose last value is not withdrawn, stays ahead. *)
LEMMA StaysAhead ==
    ASSUME NEW c \in Commands, Ahead(c), cache'[c] = cache[c], told'[c] = told[c],
           \A v \in Values : NewestSet(queue', c, v) => NewestSet(queue, c, v),
           SetQueued(queue, c) => SetQueued(queue', c)
    PROVE  Ahead(c)'
BY Zenon DEF Ahead

(* What add() queues and what it caches go together. *)
LEMMA AddKeepsAhead ==
    ASSUME TypeOK, ImmediateInv, CacheIsAhead, NEW p \in Classes, NEW item \in Item,
           p = Immediate => ~item.recurring, NEW unique \in BOOLEAN, Add(p, item, unique)
    PROVE  CacheIsAhead'
<1> SUFFICES ASSUME NEW c \in Commands, c \notin astray' PROVE Ahead(c)'
  BY Zenon DEF CacheIsAhead, Ahead
<1>1. queue \in Queues /\ NoPollFirst(queue)
  BY DEF TypeOK, Queues, ImmediateInv
<1>2. item.command \in Commands /\ item.param \in Values \cup {NoValue}
  BY DEF Item
<1>3. /\ queue' = Added(queue, p, item, unique) /\ told' = told
      /\ IF ~item.recurring /\ p = Immediate
         THEN UpdateCache(item.command, item.param) ELSE cache' = cache
      /\ astray' = IF p = Immediate /\ item.param # NoValue THEN astray \ {item.command}
                   ELSE astray \cup Withdrawn
  BY Zenon DEF Add
<1>4. CASE p = Immediate /\ IsSetOf(item, c)
  <2>1. item.command = c /\ item.param # NoValue /\ ~item.recurring
    BY <1>4, Zenon DEF IsSetOf
  <2>2. Alike(c, cache'[c], item.param)
    BY <1>2, <1>3, <1>4, <2>1, UpdateSays, Zenon
  <2>3. \A v \in Values : NewestSet(queue', c, v) => v = item.param
    <3> SUFFICES ASSUME NEW v \in Values, NewestSet(queue', c, v) PROVE v = item.param
      OBVIOUS
    <3>1. NewestSet(Added(queue, p, item, unique), c, v)
      BY <1>3, Zenon
    <3>2. IF p = Immediate /\ IsSetOf(item, c) THEN v = item.param
          ELSE NewestSet(queue, c, v)
      BY <1>1, <3>1, AddedNewest
    <3> QED BY <1>4, <3>2, Zenon
  <2>4. SetQueued(queue', c)
    BY <1>1, <1>3, <1>4, <2>1, AddedIsQueued, Zenon
  <2> QED BY <2>2, <2>3, <2>4, Zenon DEF Ahead
<1>5. CASE ~(p = Immediate /\ IsSetOf(item, c))
  <2>1. cache'[c] = cache[c]
    <3>1. CASE ~item.recurring /\ p = Immediate
      <4>1. item.command # c \/ item.param = NoValue
        BY <1>5, <3>1, Zenon DEF IsSetOf
      <4> QED BY <1>2, <1>3, <3>1, <4>1, UpdateSays, Zenon
    <3>2. CASE ~(~item.recurring /\ p = Immediate)
      BY <1>3, <3>2, Zenon
    <3> QED BY <3>1, <3>2
  <2>2. \A v \in Values : NewestSet(queue', c, v) => NewestSet(queue, c, v)
    BY <1>1, <1>3, <1>5, AddedNewest, Zenon
  <2>3. c \notin astray /\ (SetQueued(queue, c) => SetQueued(queue', c))
    <3>1. CASE p = Immediate /\ item.param # NoValue
      <4>1. item.command # c
        BY <1>5, <3>1, Zenon DEF IsSetOf
      <4>2. item # Get(c)
        BY <3>1 DEF Get
      <4> QED BY <1>1, <1>3, <3>1, <4>1, <4>2, AddedKeepsSets, Zenon
    <3>2. CASE ~(p = Immediate /\ item.param # NoValue)
      BY <1>3, <3>2, Zenon DEF Withdrawn
    <3> QED BY <3>1, <3>2
  <2>4. Ahead(c)
    BY <2>3, Zenon DEF CacheIsAhead, Ahead
  <2> QED BY <1>3, <2>1, <2>2, <2>3, <2>4, StaysAhead, Zenon
<1> QED BY <1>4, <1>5

(* A tick of the Immediate line tells the radio what the cache already holds; one of
   another line finds no value waiting. *)
LEMMA TickKeepsAhead ==
    ASSUME TypeOK, ImmediateInv, CacheIsAhead, Tick
    PROVE  CacheIsAhead'
<1> SUFFICES ASSUME NEW c \in Commands, c \notin astray' PROVE Ahead(c)'
  BY Zenon DEF CacheIsAhead, Ahead
<1>1. astray' = astray
  BY Zenon DEF Tick
<1>2. Ahead(c)
  BY <1>1, Zenon DEF CacheIsAhead, Ahead
<1>3. PICK p \in Classes : p = Turn
  BY TurnType DEF TypeOK
<1>4. CASE queue[p] = <<>>
  <2>1. UNCHANGED <<queue, cache, told>>
    BY <1>3, <1>4, Zenon DEF Tick
  <2> QED BY <1>2, <2>1, Zenon DEF Ahead
<1>5. CASE queue[p] # <<>>
  <2>1. queue \in Queues
    BY DEF TypeOK, Queues
  <2>2. PICK item \in Item : item = Oldest(queue[p])
    BY <1>5, <2>1, TakenType
  <2>3. item.command \in Commands /\ item.param \in Values \cup {NoValue}
    BY <2>2 DEF Item
  <2>4. /\ queue' = Taken(queue, p)
        /\ IF p # Immediate THEN UpdateCache(item.command, item.param)
           ELSE cache' = cache
        /\ Exchanged(item.command, item.param)
    BY <1>3, <1>5, <2>2, Zenon DEF Tick
  <2>5. told'[c] = IF IsSetOf(item, c) THEN item.param ELSE told[c]
    <3>1. DOMAIN told = Commands
      BY DEF TypeOK
    <3> QED BY <2>3, <2>4, <3>1, Zenon DEF Exchanged, IsSetOf
  <2>6. CASE p # Immediate
    <3>1. queue[Immediate] = <<>>
      BY <1>3, <2>6, Zenon DEF Turn
    <3>2. queue'[Immediate] = <<>>
      BY <2>1, <2>4, <2>6, <3>1, FirstIsClass, Zenon DEF Taken, Insert, Queues
    <3>3. ~SetQueued(queue, c) /\ ~SetQueued(queue', c)
      BY <3>1, <3>2 DEF SetQueued
    <3>4. \A v : ~NewestSet(queue', c, v)
      BY <3>3, Zenon DEF SetQueued, NewestSet
    <3>5. Alike(c, cache'[c], told'[c])
      <4>1. CASE IsSetOf(item, c)
        <5>1. item.command = c /\ item.param # NoValue
          BY <4>1, Zenon DEF IsSetOf
        <5> QED BY <2>3, <2>4, <2>5, <2>6, <4>1, <5>1, UpdateSays, Zenon
      <4>2. CASE ~IsSetOf(item, c)
        <5>1. item.command # c \/ item.param = NoValue
          BY <4>2, Zenon DEF IsSetOf
        <5>2. cache'[c] = cache[c]
          BY <2>3, <2>4, <2>6, <5>1, UpdateSays, Zenon
        <5> QED BY <1>2, <2>5, <3>3, <4>2, <5>2, Zenon DEF Ahead
      <4> QED BY <4>1, <4>2
    <3> QED BY <3>4, <3>5, Zenon DEF Ahead
  <2>7. CASE p = Immediate
    <3> DEFINE s == queue[Immediate]
    <3>1. s \in Seq(Item) /\ s # <<>>
      BY <1>5, <2>1, <2>7 DEF Queues
    <3>2. queue'[Immediate] = ButOldest(s) /\ cache' = cache
      BY <2>1, <2>4, <2>7, FirstIsClass, Zenon DEF Taken, Queues
    <3>3. item = Oldest(s)
      BY <2>2, <2>7, Zenon
    <3>4. /\ \A v : NewestIn(ButOldest(s), c, v) => NewestIn(s, c, v)
          /\ (\A i \in DOMAIN ButOldest(s) : ~IsSetOf(ButOldest(s)[i], c))
                => IF IsSetOf(Oldest(s), c) THEN NewestIn(s, c, Oldest(s).param)
                   ELSE \A i \in DOMAIN s : ~IsSetOf(s[i], c)
      BY <3>1, ButOldestNewest, Zenon
    <3>5. ASSUME NEW v \in Values, NewestSet(queue', c, v) PROVE Alike(c, cache'[c], v)
      <4>1. NewestSet(queue, c, v)
        BY <3>2, <3>4, <3>5, NewestOfLine, Zenon
      <4> QED BY <1>2, <3>2, <4>1, Zenon DEF Ahead
    <3>6. ASSUME ~SetQueued(queue', c) PROVE Alike(c, cache'[c], told'[c])
      <4>1. \A i \in DOMAIN ButOldest(s) : ~IsSetOf(ButOldest(s)[i], c)
        BY <3>2, <3>6, Zenon DEF SetQueued
      <4>2. CASE IsSetOf(item, c)
        <5>1. NewestSet(queue, c, item.param)
          BY <3>3, <3>4, <4>1, <4>2, NewestOfLine, Zenon
        <5>2. item.param \in Values
          BY <2>3, <4>2, Zenon DEF IsSetOf
        <5> QED BY <1>2, <2>5, <3>2, <4>2, <5>1, <5>2, Zenon DEF Ahead
      <4>3. CASE ~IsSetOf(item, c)
        <5>1. ~SetQueued(queue, c)
          BY <3>3, <3>4, <4>1, <4>3, Zenon DEF SetQueued
        <5> QED BY <1>2, <2>5, <3>2, <4>3, <5>1, Zenon DEF Ahead
      <4> QED BY <4>2, <4>3
    <3> QED BY <3>5, <3>6, Zenon DEF Ahead
  <2> QED BY <2>6, <2>7
<1> QED BY <1>4, <1>5

(* A reply goes to the cache, unless a value of its command waits to be set. *)
LEMMA ReplyKeepsAhead ==
    ASSUME TypeOK, CacheIsAhead, NEW d \in Commands, NEW w \in Values, ReceiveValue(d, w)
    PROVE  CacheIsAhead'
<1> SUFFICES ASSUME NEW c \in Commands, c \notin astray' PROVE Ahead(c)'
  BY Zenon DEF CacheIsAhead, Ahead
<1>1. /\ queue' = queue /\ UpdateCache(d, w) /\ Exchanged(d, w)
      /\ astray' = IF SetQueued(queue, d) THEN astray \cup {d} ELSE astray \ {d}
  BY Zenon DEF ReceiveValue
<1>2. w # NoValue /\ w \in Values \cup {NoValue}
  BY NoValueAssumption
<1>3. /\ \A e \in Commands : e # d => cache'[e] = cache[e]
      /\ Alike(d, cache'[d], w)
  BY <1>1, <1>2, UpdateSays, Zenon
<1>4. told'[d] = w /\ \A e \in Commands : e # d => told'[e] = told[e]
  <2>1. DOMAIN told = Commands
    BY DEF TypeOK
  <2> QED BY <1>1, <1>2, <2>1, Zenon DEF Exchanged
<1>5. CASE c = d
  <2>1. ~SetQueued(queue', c)
    BY <1>1, <1>5, Zenon
  <2>2. \A v : ~NewestSet(queue', c, v)
    BY <2>1, Zenon DEF SetQueued, NewestSet
  <2> QED BY <1>3, <1>4, <1>5, <2>1, <2>2, Zenon DEF Ahead
<1>6. CASE c # d
  <2>1. Ahead(c)
    BY <1>1, <1>6, Zenon DEF CacheIsAhead, Ahead
  <2> QED BY <1>1, <1>3, <1>4, <1>6, <2>1, Zenon DEF Ahead
<1> QED BY <1>5, <1>6

(* del() and clear() touch neither the cache nor what the radio was told. *)
LEMMA RemovalKeepsAhead ==
    ASSUME TypeOK, ImmediateInv, CacheIsAhead, Clear \/ \E d \in Commands : Del(d)
    PROVE  CacheIsAhead'
<1> SUFFICES ASSUME NEW c \in Commands, c \notin astray' PROVE Ahead(c)'
  BY Zenon DEF CacheIsAhead, Ahead
<1>1. queue \in Queues /\ NoPollFirst(queue)
  BY DEF TypeOK, Queues, ImmediateInv
<1>2. CASE Clear
  <2>1. queue' = Empty /\ cache' = cache /\ told' = told /\ astray' = astray \cup Withdrawn
    BY <1>2, Zenon DEF Clear
  <2>2. queue'[Immediate] = <<>>
    BY <2>1, FirstIsClass, Zenon DEF Empty
  <2>3. ~SetQueued(queue', c)
    BY <2>2 DEF SetQueued
  <2>4. \A v : ~NewestSet(queue', c, v)
    BY <2>3, Zenon DEF SetQueued, NewestSet
  <2>5. c \notin astray /\ ~SetQueued(queue, c)
    BY <2>1, <2>3, Zenon DEF Withdrawn
  <2>6. Ahead(c)
    BY <2>5, Zenon DEF CacheIsAhead, Ahead
  <2> QED BY <2>1, <2>3, <2>4, <2>5, <2>6, Zenon DEF Ahead
<1>3. ASSUME NEW d \in Commands, Del(d) PROVE Ahead(c)'
  <2>1. /\ queue' = Deleted(queue, d) /\ cache' = cache /\ told' = told
        /\ astray' = astray
    BY <1>3, Zenon DEF Del, history
  <2>2. \A v \in Values : NewestSet(queue', c, v) => NewestSet(queue, c, v)
    BY <1>1, <2>1, DeletedNewest, Zenon
  <2>3. SetQueued(queue, c) => SetQueued(queue', c)
    BY <1>1, <2>1, DeletedKeepsSets, Zenon
  <2>4. Ahead(c)
    BY <2>1, Zenon DEF CacheIsAhead, Ahead
  <2> QED BY <2>1, <2>2, <2>3, <2>4, StaysAhead, Zenon
<1> QED BY <1>2, <1>3

(* Every step keeps the cache ahead. *)
LEMMA StepKeepsAhead ==
    ASSUME TypeOK, ImmediateInv, CacheIsAhead, Next
    PROVE  CacheIsAhead'
<1>1. ASSUME UNCHANGED <<queue, cache, told, astray>> PROVE CacheIsAhead'
  <2> SUFFICES ASSUME NEW c \in Commands, c \notin astray' PROVE Ahead(c)'
    BY Zenon DEF CacheIsAhead, Ahead
  <2>1. Ahead(c)
    BY <1>1, Zenon DEF CacheIsAhead, Ahead
  <2> QED BY <1>1, <2>1, Zenon DEF Ahead
<1>2. Immediate \in Classes /\ Highest \in Classes /\ Highest # Immediate
  BY DEF Immediate, Highest, Classes
<1>3. ASSUME NEW c \in Commands
      PROVE  /\ ~Get(c).recurring
             /\ \A v \in Values : ~Set(c, v).recurring
  BY DEF Get, Set
<1> USE DEF history
<1>4. CASE Start \/ EnterWait \/ TimeOut \/ Rearm \/ Drain \/ Message
  BY <1>1, <1>4 DEF Start, EnterWait, TimeOut, Rearm, Drain, Message
<1>5. ASSUME NEW c \in Commands, NEW v \in Values,
             AddSet(c, v) \/ AddUniqueSet(c, v) \/ ReceiveValue(c, v)
      PROVE  CacheIsAhead'
  <2>1. CASE AddSet(c, v) \/ AddUniqueSet(c, v)
    <3>1. Set(c, v) \in Item
      BY ItemTypes, Zenon
    <3>2. PICK unique \in BOOLEAN : Add(Immediate, Set(c, v), unique)
      BY <2>1, Zenon DEF AddSet, AddUniqueSet
    <3> QED BY <1>2, <1>3, <3>1, <3>2, AddKeepsAhead, Zenon
  <2>2. CASE ReceiveValue(c, v)
    BY <2>2, ReplyKeepsAhead
  <2> QED BY <1>5, <2>1, <2>2
<1>6. ASSUME NEW c \in Commands,
             AddGet(c) \/ GetCache(c) \/ AskAgain(c) \/ Age(c)
      PROVE  CacheIsAhead'
  <2>1. Get(c) \in Item
    BY ItemTypes, Zenon
  <2>2. ASSUME NEW unique \in BOOLEAN, Add(Immediate, Get(c), unique) PROVE CacheIsAhead'
    BY <1>2, <1>3, <2>1, <2>2, AddKeepsAhead, Zenon
  <2>3. CASE AddGet(c)
    BY <2>2, <2>3, Zenon DEF AddGet
  <2>4. CASE GetCache(c) \/ Age(c)
    BY <1>1, <2>4 DEF GetCache, Age
  <2>5. CASE AskAgain(c)
    <3>1. CASE Add(Immediate, Get(c), TRUE)
      BY <2>2, <3>1, Zenon
    <3>2. CASE UNCHANGED <<queue, cache, fresh, pending, running, threadVars,
                           haveCommand, history>>
      BY <1>1, <3>2
    <3> QED BY <2>5, <3>1, <3>2, Zenon DEF AskAgain
  <2> QED BY <1>6, <2>3, <2>4, <2>5
<1>7. ASSUME NEW p \in Polled, NEW c \in Commands, NEW unique \in BOOLEAN,
             Add(p, Poll(c), unique)
      PROVE  CacheIsAhead'
  <2>1. Poll(c) \in Item
    BY ItemTypes, Zenon
  <2>2. p \in Classes /\ p # Immediate
    BY DEF Polled
  <2> QED BY <1>7, <2>1, <2>2, AddKeepsAhead, Zenon
<1>8. ASSUME NEW pair \in PollPlan, AddPoll(pair[1], pair[2]) PROVE CacheIsAhead'
  <2>1. pair[1] \in Polled /\ pair[2] \in Commands
    BY QueueAssumption
  <2>2. Add(pair[1], Poll(pair[2]), FALSE)
    BY <1>8, Zenon DEF AddPoll
  <2> QED BY <1>7, <2>1, <2>2, Zenon
<1>9. ASSUME NEW c \in Meters, AddMeter(c) PROVE CacheIsAhead'
  <2>1. c \in Commands /\ Highest \in Polled
    BY <1>2, QueueAssumption DEF Polled
  <2>2. Add(Highest, Poll(c), TRUE)
    BY <1>9, Zenon DEF AddMeter
  <2> QED BY <1>7, <2>1, <2>2, Zenon
<1>10. ASSUME NEW val \in Intervals \cup {Stopped}, Interval(val) PROVE CacheIsAhead'
  BY <1>1, <1>10 DEF Interval
<1>11. CASE Tick
  BY <1>11, TickKeepsAhead
<1>12. CASE Clear \/ \E d \in Commands : Del(d)
  BY <1>12, RemovalKeepsAhead
<1> QED
  BY <1>4, <1>5, <1>6, <1>8, <1>9, <1>10, <1>11, <1>12, QueueAssumption
     DEF Next, Callers, Thread

(* What a client reads from the cache is the newest value that waits to be set, or
   else the last one exchanged with the radio, for every rig, every compare() and
   every interleaving, unless a reply crossed a set or a set was withdrawn. *)
THEOREM CacheFollows == Spec => []CacheIsAhead
<1>1. Init => CacheIsAhead
  <2> SUFFICES ASSUME Init, NEW c \in Commands PROVE Ahead(c)
    BY Zenon DEF CacheIsAhead, Ahead
  <2>1. queue[Immediate] = <<>> /\ cache[c] = NoValue /\ told[c] = NoValue
    BY FirstIsClass, Zenon DEF Init, Empty
  <2>2. ~SetQueued(queue, c)
    BY <2>1 DEF SetQueued
  <2>3. \A v : ~NewestSet(queue, c, v)
    BY <2>2, Zenon DEF SetQueued, NewestSet
  <2> QED BY <2>1, <2>3, Zenon DEF Ahead, Alike
<1>2. TypeOK /\ ImmediateInv /\ CacheIsAhead /\ [Next]_vars => CacheIsAhead'
  <2>1. ASSUME CacheIsAhead, UNCHANGED vars PROVE CacheIsAhead'
    <3>1. queue' = queue /\ cache' = cache /\ told' = told /\ astray' = astray
      BY <2>1 DEF vars
    <3> QED BY <2>1, <3>1, Zenon DEF CacheIsAhead
  <2> QED BY <2>1, StepKeepsAhead
<1> QED BY <1>1, <1>2, NoPollIsImmediate, TypeCorrect, PTL DEF Spec

-----------------------------------------------------------------------------
(* The scheduler *)

(* Turned round, a thinned line is a line from which items were withdrawn. *)
LEMMA ThinnedIsAmended ==
    ASSUME NEW s \in Seq(Item), NEW u \in Seq(Item), NEW t \in Seq(Item),
           IsThinned(s, u), t = u \/ \E item \in Item : t = <<item>> \o u
    PROVE  Scheduler!IsAmended(OldestFirst(s), OldestFirst(t))
<1>1. PICK n \in Nat, m \in Nat, l \in Nat : n = Len(s) /\ m = Len(u) /\ l = Len(t)
  OBVIOUS
<1>2. PICK pick \in [1 .. m -> 1 .. n] :
          /\ \A i, j \in 1 .. m : i < j => pick[i] < pick[j]
          /\ \A i \in 1 .. m : u[i] = s[pick[i]]
  BY <1>1, Zenon DEF IsThinned
<1>3. \/ l = m /\ \A i \in 1 .. m : t[i] = u[i]
      \/ l = m + 1 /\ \A i \in 1 .. m : t[i + 1] = u[i]
  <2>1. CASE t = u
    BY <1>1, <2>1
  <2>2. ASSUME NEW item \in Item, t = <<item>> \o u
        PROVE  l = m + 1 /\ \A i \in 1 .. m : t[i + 1] = u[i]
    <3>1. <<item>> \in Seq(Item) /\ Len(<<item>>) = 1
      OBVIOUS
    <3> HIDE DEF Item
    <3>2. /\ Len(<<item>> \o u) = 1 + m
          /\ \A i \in 1 .. 1 + m :
                (<<item>> \o u)[i] = IF i <= 1 THEN <<item>>[i] ELSE u[i - 1]
      BY <1>1, <3>1, ConcatProperties
    <3> QED BY <1>1, <2>2, <3>2
  <2> QED BY <2>1, <2>2
<1>4. /\ OldestFirst(s) = [j \in 1 .. n |-> s[n + 1 - j]]
      /\ OldestFirst(t) = [j \in 1 .. l |-> t[l + 1 - j]]
  BY <1>1, Zenon DEF OldestFirst
<1>5. DOMAIN OldestFirst(s) = 1 .. n /\ Len(OldestFirst(t)) = l
  BY <1>4
<1> DEFINE keep == [i \in 1 .. m |-> n + 1 - pick[m + 1 - i]]
<1>6. \A i \in 1 .. m : m + 1 - i \in 1 .. m /\ pick[m + 1 - i] \in 1 .. n
  OBVIOUS
<1>7. keep \in [1 .. m -> 1 .. n]
  BY <1>6
<1>8. \A i \in 1 .. m : keep[i] \in 1 .. n /\ keep[i] = n + 1 - pick[m + 1 - i]
  BY <1>6
<1>9. \A i, j \in 1 .. m : i < j => keep[i] < keep[j]
  <2> HIDE DEF keep
  <2> TAKE i, j \in 1 .. m
  <2> HAVE i < j
  <2>1. m + 1 - j < m + 1 - i
    OBVIOUS
  <2>2. pick[m + 1 - j] < pick[m + 1 - i]
    BY <1>2, <1>6, <2>1
  <2> QED BY <1>6, <1>8, <2>2
<1>10. \A i \in 1 .. m : OldestFirst(s)[keep[i]] = u[m + 1 - i]
  <2> HIDE DEF keep
  <2> TAKE i \in 1 .. m
  <2>1. OldestFirst(s)[keep[i]] = s[n + 1 - keep[i]]
    BY <1>4, <1>8
  <2>2. n + 1 - keep[i] = pick[m + 1 - i]
    BY <1>6, <1>8
  <2> QED BY <1>2, <1>6, <2>1, <2>2
<1>11. \A i \in 1 .. m : OldestFirst(t)[i] = u[m + 1 - i]
  <2> TAKE i \in 1 .. m
  <2>1. OldestFirst(t)[i] = t[l + 1 - i]
    BY <1>3, <1>4
  <2>2. PICK e \in 1 .. m : e = m + 1 - i
    BY <1>6
  <2>3. t[l + 1 - i] = u[e]
    <3>1. CASE l = m /\ \A k \in 1 .. m : t[k] = u[k]
      BY <3>1, <2>2
    <3>2. CASE l = m + 1 /\ \A k \in 1 .. m : t[k + 1] = u[k]
      <4>1. l + 1 - i = e + 1
        BY <2>2, <3>2
      <4> QED BY <4>1, <3>2
    <3> QED BY <3>1, <3>2, <1>3
  <2> QED BY <2>1, <2>2, <2>3
<1>12. m \in {l, l - 1}
  BY <1>3
<1> HIDE DEF keep
<1>13. \A i \in 1 .. m : OldestFirst(t)[i] = OldestFirst(s)[keep[i]]
  BY <1>10, <1>11, Zenon
<1> QED BY <1>5, <1>7, <1>9, <1>12, <1>13, Zenon DEF Scheduler!IsAmended

(* What a caller may do to a line. *)
LEMMA RevisedIsAmended ==
    ASSUME NEW s \in Seq(Item), NEW t \in Seq(Item), IsRevised(s, t)
    PROVE  Scheduler!IsAmended(OldestFirst(s), OldestFirst(t))
BY ThinnedIsAmended, Zenon DEF IsRevised

(* Turned round, the oldest item of a class is the head of its line. *)
LEMMA OldestIsHead ==
    ASSUME NEW s \in Seq(Item), s # <<>>
    PROVE  /\ OldestFirst(s) # <<>> /\ Head(OldestFirst(s)) = Oldest(s)
           /\ OldestFirst(ButOldest(s)) = Tail(OldestFirst(s))
           /\ \A item \in Item : OldestFirst(<<item>> \o ButOldest(s))
                                    = Append(Tail(OldestFirst(s)), item)
<1> HIDE DEF Item
<1>1. PICK n \in Nat : Len(s) = n /\ n > 0
  BY EmptySeq
<1>2. \A i \in 1 .. n : s[i] \in Item
  BY <1>1, ElementOfSeq
<1>3. /\ OldestFirst(s) \in Seq(Item) /\ Len(OldestFirst(s)) = n
      /\ \A i \in 1 .. n : OldestFirst(s)[i] = s[n + 1 - i]
  <2>1. OldestFirst(s) = [j \in 1 .. n |-> s[n + 1 - j]]
    BY <1>1, Zenon DEF OldestFirst
  <2>2. \A j \in 1 .. n : s[n + 1 - j] \in Item
    BY <1>2
  <2> QED BY <2>1, <2>2
<1>4. OldestFirst(s) # <<>> /\ Head(OldestFirst(s)) = Oldest(s)
  BY <1>1, <1>3 DEF Oldest
<1>5. /\ Tail(OldestFirst(s)) \in Seq(Item) /\ Len(Tail(OldestFirst(s))) = n - 1
      /\ \A i \in 1 .. n - 1 : Tail(OldestFirst(s))[i] = s[n - i]
  BY <1>1, <1>3, <1>4, HeadTailProperties
<1>6. /\ ButOldest(s) \in Seq(Item) /\ Len(ButOldest(s)) = n - 1
      /\ \A i \in 1 .. n - 1 : ButOldest(s)[i] = s[i]
  BY <1>1, <1>2, SubSeqProperties DEF ButOldest
<1>7. OldestFirst(ButOldest(s)) = Tail(OldestFirst(s))
  <2> DEFINE t == OldestFirst(ButOldest(s))
  <2>1. t = [j \in 1 .. n - 1 |-> ButOldest(s)[n - j]]
    BY <1>1, <1>6 DEF OldestFirst
  <2>2. \A j \in 1 .. n - 1 : ButOldest(s)[n - j] = s[n - j] /\ s[n - j] \in Item
    BY <1>1, <1>2, <1>6
  <2> HIDE DEF t
  <2>3. t \in Seq(Item) /\ Len(t) = n - 1 /\ \A j \in 1 .. n - 1 : t[j] = s[n - j]
    BY <1>1, <2>1, <2>2
  <2>4. t = Tail(OldestFirst(s))
    BY <1>1, <1>5, <2>3, SeqEqual
  <2> QED BY <2>4 DEF t
<1>8. ASSUME NEW item \in Item
      PROVE  OldestFirst(<<item>> \o ButOldest(s)) = Append(Tail(OldestFirst(s)), item)
  <2> DEFINE r == <<item>> \o ButOldest(s)
             t == OldestFirst(r)
             u == Append(Tail(OldestFirst(s)), item)
  <2>1. r \in Seq(Item) /\ Len(r) = n /\ r[1] = item
        /\ \A i \in 2 .. n : r[i] = s[i - 1]
    <3>1. <<item>> \in Seq(Item) /\ Len(<<item>>) = 1 /\ <<item>>[1] = item
      OBVIOUS
    <3>2. /\ r \in Seq(Item) /\ Len(r) = 1 + (n - 1)
          /\ \A i \in 1 .. 1 + (n - 1) :
                r[i] = IF i <= 1 THEN <<item>>[i] ELSE ButOldest(s)[i - 1]
      BY <1>6, <3>1, ConcatProperties
    <3> QED BY <1>1, <1>6, <3>1, <3>2
  <2> HIDE DEF r
  <2>2. t = [j \in 1 .. n |-> r[n + 1 - j]]
    BY <2>1 DEF OldestFirst
  <2>3. \A j \in 1 .. n : r[n + 1 - j] \in Item
    BY <1>1, <2>1, ElementOfSeq
  <2>4. \A j \in 1 .. n : r[n + 1 - j] = IF j = n THEN item ELSE s[n - j]
    BY <1>1, <2>1
  <2>5. u \in Seq(Item) /\ Len(u) = n
        /\ \A j \in 1 .. n : u[j] = IF j = n THEN item ELSE s[n - j]
    BY <1>1, <1>5
  <2> HIDE DEF t, u
  <2>6. t \in Seq(Item) /\ Len(t) = n /\ \A j \in 1 .. n : t[j] = u[j]
    BY <1>1, <2>2, <2>3, <2>4, <2>5
  <2>7. t = u
    BY <2>5, <2>6, SeqEqual
  <2> QED BY <2>7 DEF r, t, u
<1> QED BY <1>4, <1>7, <1>8

(* The lines of the scheduler *)
Line(q) == [p \in Classes |-> OldestFirst(q[p])]

(* Taking the oldest item of the class whose turn it is sends the head of its line. *)
LEMMA TickSends ==
    ASSUME TypeOK, ImmediateInv, Tick, queue[Turn] # <<>>
    PROVE  Turn \in Classes /\ Scheduler!Send(Turn)
<1>1. PICK p \in Classes : p = Turn
  BY TurnType DEF TypeOK
<1>2. queue \in Queues /\ queue[p] \in Seq(Item) /\ queue[p] # <<>>
  BY <1>1 DEF TypeOK, Queues
<1>3. PICK item \in Item : item = Oldest(queue[p])
  BY <1>2, TakenType
<1>4. haveCommand' = item /\ queue' = Taken(queue, p)
  BY <1>1, <1>3, Zenon DEF Tick
<1> DEFINE s == queue[p]
<1>5. /\ OldestFirst(s) # <<>> /\ Head(OldestFirst(s)) = item
      /\ OldestFirst(ButOldest(s)) = Tail(OldestFirst(s))
      /\ OldestFirst(<<item>> \o ButOldest(s)) = Append(Tail(OldestFirst(s)), item)
  BY <1>2, <1>3, OldestIsHead
<1>6. p # Immediate => OldestFirst(queue[Immediate]) = <<>>
  <2> SUFFICES ASSUME p # Immediate PROVE OldestFirst(queue[Immediate]) = <<>>
    OBVIOUS
  <2>1. queue[Immediate] = <<>>
    BY <1>1, Zenon DEF Turn
  <2> QED BY <2>1 DEF OldestFirst
<1>7. item.recurring => p # Immediate
  <2> SUFFICES ASSUME item.recurring, p = Immediate PROVE FALSE
    OBVIOUS
  <2>1. Len(s) \in DOMAIN s
    <3> HIDE DEF Item
    <3> QED BY <1>2, EmptySeq
  <2>2. ~s[Len(s)].recurring
    BY <2>1, Zenon DEF ImmediateInv, NoPollFirst
  <2> QED BY <2>2, <1>3, Zenon DEF Oldest
<1>8. queue'[p] = IF item.recurring THEN <<item>> \o ButOldest(s) ELSE ButOldest(s)
  <2> DEFINE rest == [queue EXCEPT ![p] = ButOldest(s)]
  <2>1. queue' = IF item.recurring THEN Insert(rest, p, item) ELSE rest
    BY <1>3, <1>4, <1>7, Zenon DEF Taken
  <2>2. rest[p] = ButOldest(s) /\ DOMAIN rest = Classes
    BY <1>2, Zenon DEF Queues
  <2> HIDE DEF rest
  <2>3. Insert(rest, p, item)[p] = <<item>> \o rest[p]
    BY <2>2, Zenon DEF Insert
  <2> QED BY <2>1, <2>2, <2>3, Zenon
<1>9. \A o \in Classes : o # p => queue'[o] = queue[o]
  BY <1>2, <1>4, Zenon DEF Taken, Insert, Queues
<1>10. OldestFirst(queue'[p]) = IF item.recurring THEN Append(Tail(OldestFirst(s)), item)
                                ELSE Tail(OldestFirst(s))
  BY <1>5, <1>8, Zenon
<1>11. Line(queue') = [Line(queue) EXCEPT ![p] = OldestFirst(queue'[p])]
  BY <1>9, Zenon DEF Line
<1>12. Line(queue)[p] = OldestFirst(s) /\ Line(queue)[Immediate] = OldestFirst(queue[Immediate])
  BY FirstIsClass, Zenon DEF Line
<1> HIDE DEF s
<1> QED
  BY <1>1, <1>4, <1>5, <1>6, <1>10, <1>11, <1>12, Zenon DEF Scheduler!Send, Line

(* Only a tick sends. *)
LEMMA OnlyTicksSend ==
    ASSUME Next
    PROVE  Tick \/ UNCHANGED haveCommand
<1> USE DEF history, threadVars, running
<1>1. \A p, item, unique : Add(p, item, unique) => UNCHANGED haveCommand
  BY DEF Add
<1>2. CASE Thread
  BY <1>2 DEF Thread, Start, EnterWait, TimeOut, Rearm, Drain
<1>3. CASE Callers
  BY <1>1, <1>3 DEF Callers, AddSet, AddUniqueSet, ReceiveValue, AddGet, GetCache, AskAgain,
       Age, Del, AddPoll, AddMeter, Interval, Clear, Message
<1> QED BY <1>2, <1>3 DEF Next

(* What the callers do to the queue amends its lines. *)
LEMMA RevisingAmends ==
    ASSUME queue \in Queues, queue' \in Queues, UNCHANGED haveCommand,
           \A p \in Classes : IsRevised(queue[p], queue'[p])
    PROVE  Scheduler!Amend
<1> SUFFICES ASSUME NEW p \in Classes
             PROVE  Scheduler!IsAmended(OldestFirst(queue[p]), OldestFirst(queue'[p]))
  BY Zenon DEF Scheduler!Amend
<1>1. queue[p] \in Seq(Item) /\ queue'[p] \in Seq(Item)
  BY DEF Queues
<1> QED BY <1>1, RevisedIsAmended

(* Every step is one of the scheduler's. *)
LEMMA StepRefines ==
    ASSUME TypeOK, ImmediateInv, Next
    PROVE  Scheduler!Next \/ UNCHANGED <<queue, haveCommand>>
<1>1. queue \in Queues /\ queue' \in Queues
  BY StepKeepsTypes DEF TypeOK, Queues
<1>2. CASE Tick
  <2>1. CASE queue[Turn] = <<>>
    BY <1>2, <2>1 DEF Tick
  <2>2. CASE queue[Turn] # <<>>
    BY <1>2, <2>2, TickSends DEF Scheduler!Next
  <2> QED BY <2>1, <2>2
<1>3. CASE ~Tick
  <2>1. UNCHANGED haveCommand
    BY <1>3, OnlyTicksSend
  <2>2. ASSUME \A p \in Classes : IsRevised(queue[p], queue'[p]) PROVE Scheduler!Next
    BY <1>1, <2>1, <2>2, RevisingAmends DEF Scheduler!Next
  <2>3. ASSUME NEW p \in Classes, NEW item \in Item, NEW unique \in BOOLEAN,
               queue' = Added(queue, p, item, unique)
        PROVE  Scheduler!Next
    BY <1>1, <2>2, <2>3, AddedRevises
  <2>4. ASSUME NEW c \in Commands, Del(c) PROVE Scheduler!Next
    BY <1>1, <2>2, <2>4, DeletedRevises DEF Del
  <2>5. CASE Clear
    <3>1. \A p \in Classes : queue[p] \in Seq(Item) /\ queue'[p] = <<>>
      BY <1>1, <2>5 DEF Clear, Empty, Queues
    <3> QED BY <2>2, <3>1, ThinnedEnds, Zenon DEF IsRevised
  <2>6. UNCHANGED queue
        \/ (\E p \in Classes, item \in Item, unique \in BOOLEAN :
               queue' = Added(queue, p, item, unique))
        \/ (\E c \in Commands : Del(c))
        \/ Clear
    BY <1>3, QueueSteps
  <2> QED BY <2>1, <2>3, <2>4, <2>5, <2>6
<1> QED BY <1>2, <1>3

(* The queue promises what CommandScheduler says: each class is a first-in
   first-out line, Immediate goes first, a poll is sent again only after everything
   that waits in its line, and no caller sends or reorders anything. *)
THEOREM Refines == Spec => RefinesScheduler
<1>1. Init => Scheduler!Init
  <2> SUFFICES ASSUME Init PROVE Scheduler!Init
    OBVIOUS
  <2>1. \A p \in Classes : OldestFirst(queue[p]) = <<>>
    BY DEF Init, Empty, OldestFirst
  <2>2. haveCommand = NothingSent
    BY Zenon DEF Init
  <2> QED BY <2>1, <2>2, Zenon DEF Scheduler!Init
<1>2. TypeOK /\ ImmediateInv /\ [Next]_vars
      => [Scheduler!Next]_<<[p \in Classes |-> OldestFirst(queue[p])], haveCommand>>
  <2>1. ASSUME UNCHANGED <<queue, haveCommand>>
        PROVE  UNCHANGED <<[p \in Classes |-> OldestFirst(queue[p])], haveCommand>>
    BY <2>1, Zenon
  <2>2. UNCHANGED vars => UNCHANGED <<queue, haveCommand>>
    BY DEF vars
  <2> QED BY <2>1, <2>2, StepRefines
<1> QED BY <1>1, <1>2, NoPollIsImmediate, TypeCorrect, PTL
         DEF Spec, RefinesScheduler, Scheduler!Spec
=============================================================================
