---------------------------- MODULE CachingQueue ----------------------------
(***************************************************************************)
(* cachingQueue (src/cachingqueue.cpp): the singleton thread through which *)
(* every command to the radio passes.  Callers of other threads post       *)
(* commands, the thread sends one per interval, chosen by a counter and    *)
(* prime priorities, and a cache keeps the last value of each command.     *)
(*                                                                         *)
(* The thread sleeps in QWaitCondition::wait with a deadline.  wait gives  *)
(* the mutex back, and takes it again after a wake-up or a time-out: what  *)
(* callers do between the time-out and the re-lock is an interleaving the  *)
(* model keeps.  Each critical section of a caller is one action; the      *)
(* thread's own section is split where it reads queueInterval, because     *)
(* interval() writes that field without the mutex.                         *)
(***************************************************************************)
EXTENDS QueueItems

CONSTANTS
    Compared,      \* what compare() looks at of each value of each command
    Served,        \* the commands getCache() asks for (not power, not VFO selection)
    PollPlan,      \* the (class, command) pairs of the rig's periodic table
    Meters,        \* commands that are addUnique'd at Highest while keyed
    Intervals,     \* the poll intervals in use
    CounterMod,    \* quint16 counter: 65536 in the code
    NothingSent,   \* haveCommand before the first signal
    MaxQueue,      \* bound of the model on the number of queued items
    MaxPending     \* bound of the model on values waiting to be handed on

ASSUME QueueAssumption ==
    /\ DOMAIN Compared = Commands /\ \A c \in Commands : DOMAIN Compared[c] = Values
    /\ Served \subseteq Commands /\ Meters \subseteq Commands
    /\ PollPlan \subseteq Polled \X Commands
    /\ Intervals \subseteq Nat
    /\ CounterMod \in Nat /\ CounterMod > Lowest + 1
    /\ MaxQueue \in Nat /\ MaxPending \in Nat

VARIABLES
    queue,          \* the multimap
    cache,          \* the cached value of each command
    fresh,          \* the commands whose last reply is less than 5 s old
    asking,         \* commands getCache() found old and has yet to ask for
    pending,        \* items and messages received and not yet handed on
    queueInterval,  \* -1: the queue does not run
    late,           \* a caller of add() found the queue running just before it stopped
    deadline,       \* "armed" or "forever": QDeadlineTimer of run()
    pc,             \* where the thread is
    counter,        \* the tick counter that chooses the class
    haveCommand,    \* the command of the last haveCommand signal
    \* history, read by properties only
    told,           \* the last value sent to the radio or received from it
    astray,         \* commands whose cached value no longer follows their sets
    extraSends      \* commands sent since the queue was stopped

threadVars == <<deadline, pc, counter>>
history == <<told, astray, extraSends>>
running == <<queueInterval, late>>
vars == <<queue, cache, fresh, asking, pending, queueInterval, late, deadline, pc,
          counter, haveCommand, told, astray, extraSends>>

Stopped == -1
(* Mutant of Armed: a negative interval is taken for an expired deadline *)
ArmedAlways(i) == "armed"
Armed(i) == IF i = Stopped THEN "forever" ELSE "armed"

(* The thread holds the mutex between leaving wait and entering it again *)
MutexHeld == pc \in {"ticked", "rearmed"}

(* Mutant of Differs: only the first value of a command reaches the cache *)
DiffersFirst(c, new, old) == new # NoValue /\ old = NoValue

(* compare(): does a new value replace the cached one?  The type decides what is
   looked at: of a rigInput only the type, of a toneInfo only the tone, of most the
   whole.  The branch for short compares the new value with itself, and a type that
   is not listed ("Unsupported cache value") is not compared: Compared is the same
   for all values of such a command, and the first one stays.  (Types that are
   "always different" are compared whole: an equal value is stored again.) *)
Differs(c, new, old) ==
    new # NoValue /\ (old = NoValue \/ Compared[c][new] # Compared[c][old])

(* updateCache() on the value of an item or of a reply *)
UpdateCache(c, v) ==
    cache' = [cache EXCEPT ![c] = IF Differs(c, v, cache[c]) THEN v ELSE cache[c]]

(* History: the value of c was exchanged with the radio; sets were withdrawn *)
Exchanged(c, v) == told' = [told EXCEPT ![c] = IF v = NoValue THEN told[c] ELSE v]
Withdrawn == {c \in Commands : SetQueued(queue, c) /\ ~SetQueued(queue', c)}

(* wakeOne and wakeAll reach the thread only if it sleeps in wait *)
Wake == pc' = IF pc = "waiting" THEN "woken" ELSE pc

Init ==
    /\ queue = Empty
    /\ cache = [c \in Commands |-> NoValue]
    /\ fresh = {} /\ asking = {}
    /\ pending = 0
    /\ queueInterval = Stopped /\ late = FALSE
    /\ deadline = "forever"
    /\ pc = "starting"
    /\ counter = Immediate
    /\ haveCommand = NothingSent
    /\ told = [c \in Commands |-> NoValue] /\ astray = {}
    /\ extraSends = 0

-----------------------------------------------------------------------------
(* The thread: run() *)

(* QDeadlineTimer deadline(queueInterval), before the mutex is taken *)
Start ==
    /\ pc = "starting"
    /\ pc' = "rearming"
    /\ deadline' = Armed(queueInterval)
    /\ UNCHANGED <<queue, cache, fresh, asking, pending, running, counter, haveCommand,
                   history>>

(* waiting.wait(&mutex, ...): asleep, the mutex given back *)
EnterWait ==
    /\ pc \in {"rearming", "rearmed"}
    /\ pc' = "waiting"
    /\ UNCHANGED <<queue, cache, fresh, asking, pending, running, deadline, counter,
                   haveCommand, history>>

(* The wait runs out; the mutex is not yet locked again *)
TimeOut ==
    /\ pc = "waiting" /\ deadline = "armed"
    /\ pc' = "timedout"
    /\ UNCHANGED <<queue, cache, fresh, asking, pending, running, deadline, counter,
                   haveCommand, history>>

(* Mutant of Slot: the last class is left out *)
SlotBelowLowest(n) ==
    LET D == {p \in Polled \ {Lowest} : n % p = 0}
    IN  IF D = {} THEN Immediate ELSE CHOOSE p \in D : \A o \in D : p <= o

(* The class whose turn it is: the first prime, in order, that divides n *)
Slot(n) ==
    LET D == {p \in Polled : n % p = 0}
    IN  IF D = {} THEN Immediate ELSE CHOOSE p \in D : \A o \in D : p <= o

(* "If no immediate commands then process the rest of the queue" *)
Turn == IF queue[Immediate] # <<>> THEN Immediate ELSE Slot(counter)

(* One tick: at most one command is sent.  counter starts again only when the
   Lowest class had its turn. *)
Tick ==
    /\ pc = "timedout"
    /\ pc' = "ticked"
    /\ LET prio == Turn
           base == IF prio = Lowest THEN Immediate ELSE counter
           item == Oldest(queue[prio])
       IN  /\ counter' = (base + 1) % CounterMod
           /\ IF queue[prio] = <<>>
              THEN UNCHANGED <<queue, cache, haveCommand, told, extraSends>>
              ELSE /\ haveCommand' = item
                   /\ queue' = Taken(queue, prio)
                   /\ IF prio # Immediate
                      THEN UpdateCache(item.command, item.param)
                      ELSE UNCHANGED cache
                   /\ Exchanged(item.command, item.param)
                   /\ extraSends' = IF queueInterval = Stopped THEN extraSends + 1
                                    ELSE extraSends
    /\ UNCHANGED <<fresh, asking, pending, running, deadline, astray>>

(* deadline.setRemainingTime(queueInterval), the mutex still locked *)
Rearm ==
    /\ pc = "ticked"
    /\ pc' = "rearmed"
    /\ deadline' = Armed(queueInterval)
    /\ UNCHANGED <<queue, cache, fresh, asking, pending, running, counter, haveCommand,
                   history>>

(* Mutant of Drain: a deadline that was forever stays so *)
DrainOnly ==
    /\ pc = "woken"
    /\ pc' = "rearmed"
    /\ pending' = 0
    /\ UNCHANGED <<queue, cache, fresh, asking, running, deadline, counter, haveCommand,
                   history>>

(* A wake-up: hand on what was received, arm a deadline that was forever *)
Drain ==
    /\ pc = "woken"
    /\ pc' = "rearmed"
    /\ pending' = 0
    /\ deadline' = IF deadline = "forever" THEN Armed(queueInterval) ELSE deadline
    /\ UNCHANGED <<queue, cache, fresh, asking, running, counter, haveCommand, history>>

-----------------------------------------------------------------------------
(* The callers *)

(* add() with the mutex: refused while the queue is stopped, a check made before
   the mutex is taken.  An Immediate command updates the cache now, not when it
   is sent. *)
Add(p, item, unique) ==
    /\ ~MutexHeld /\ (queueInterval # Stopped \/ late)
    /\ late' = (late /\ queueInterval # Stopped)
    /\ queue' = Added(queue, p, item, unique)
    /\ Size(queue') <= MaxQueue
    /\ IF ~item.recurring /\ p = Immediate
       THEN UpdateCache(item.command, item.param)
       ELSE UNCHANGED cache
    /\ astray' = IF p = Immediate /\ item.param # NoValue THEN astray \ {item.command}
                 ELSE astray \cup Withdrawn
    /\ UNCHANGED <<fresh, pending, queueInterval, threadVars, haveCommand, told,
                   extraSends>>

(* webServer and servermain: a value to set, replacing the ones still queued or
   behind them; a get; the polls of the periodic table; a meter to poll *)
AddSet(c, v)       == Add(Immediate, Set(c, v), FALSE) /\ UNCHANGED asking
AddUniqueSet(c, v) == Add(Immediate, Set(c, v), TRUE) /\ UNCHANGED asking
AddGet(c)          == Add(Immediate, Get(c), FALSE) /\ UNCHANGED asking
AddPoll(p, c)      == Add(p, Poll(c), FALSE) /\ UNCHANGED asking
AddMeter(c)        == Add(Highest, Poll(c), TRUE) /\ UNCHANGED asking

(* getCache(), the first critical section: the value was never replied to or is 5
   to 20 s old.  (A fresh one is returned, and nothing changes.) *)
GetCache(c) ==
    /\ ~MutexHeld
    /\ cache[c] = NoValue \/ c \notin fresh
    /\ asking' = asking \cup {c}
    /\ UNCHANGED <<queue, cache, fresh, pending, running, threadVars, haveCommand,
                   history>>

(* getCache(), after it gave the mutex back: addUnique() asks for the value, which
   may have been replied to or set in between; a stopped queue refuses it. *)
AskAgain(c) ==
    /\ c \in asking
    /\ asking' = asking \ {c}
    /\ \/ Add(Immediate, Get(c), TRUE)
       \/ /\ queueInterval = Stopped
          /\ UNCHANGED <<queue, cache, fresh, pending, running, threadVars, haveCommand,
                         history>>

(* The seconds pass: the reply of a command is old *)
Age(c) ==
    /\ c \in fresh
    /\ fresh' = fresh \ {c}
    /\ UNCHANGED <<queue, cache, asking, pending, running, threadVars, haveCommand,
                   history>>

(* del(): commanders, for a command the rig refuses; webServer, for a meter *)
Del(c) ==
    /\ ~MutexHeld
    /\ queue' = Deleted(queue, c)
    /\ UNCHANGED <<cache, fresh, asking, pending, running, threadVars, haveCommand,
                   history>>

Clear ==
    /\ ~MutexHeld
    /\ queue' = Empty
    /\ astray' = astray \cup Withdrawn
    /\ UNCHANGED <<cache, fresh, asking, pending, running, threadVars, haveCommand, told,
                   extraSends>>

(* interval(val): the field is written without the mutex; the thread is woken
   only if tryLock finds the mutex free *)
Interval(val) ==
    /\ queueInterval' = val
    /\ late' \in {FALSE, val = Stopped /\ (late \/ queueInterval # Stopped)}
    /\ IF MutexHeld THEN UNCHANGED pc ELSE Wake
    /\ extraSends' = IF val = Stopped THEN extraSends ELSE 0
    /\ UNCHANGED <<queue, cache, fresh, asking, pending, deadline, counter, haveCommand,
                   told, astray>>

(* receiveValue(): a reply of the radio, from the commander's thread.  One that
   arrives while a set of its command is queued puts the radio's present value over
   the value that is to be set. *)
ReceiveValue(c, v) ==
    /\ ~MutexHeld /\ pending < MaxPending
    /\ pending' = pending + 1
    /\ fresh' = fresh \cup {c}
    /\ UpdateCache(c, v) /\ Exchanged(c, v)
    /\ astray' = IF SetQueued(queue, c) THEN astray \cup {c} ELSE astray \ {c}
    /\ Wake
    /\ UNCHANGED <<queue, asking, running, deadline, counter, haveCommand, extraSends>>

(* message(): a text for the user *)
Message ==
    /\ ~MutexHeld /\ pending < MaxPending
    /\ pending' = pending + 1
    /\ Wake
    /\ UNCHANGED <<queue, cache, fresh, asking, running, deadline, counter, haveCommand,
                   history>>

Thread == Start \/ EnterWait \/ TimeOut \/ Tick \/ Rearm \/ Drain

Callers ==
    \/ \E c \in Commands, v \in Values :
          AddSet(c, v) \/ AddUniqueSet(c, v) \/ ReceiveValue(c, v)
    \/ \E c \in Commands : AddGet(c) \/ Age(c) \/ Del(c)
    \/ \E c \in Served : GetCache(c) \/ AskAgain(c)
    \/ \E pair \in PollPlan : AddPoll(pair[1], pair[2])
    \/ \E c \in Meters : AddMeter(c)
    \/ \E val \in Intervals \cup {Stopped} : Interval(val)
    \/ Clear \/ Message

Next == Thread \/ Callers

Spec == Init /\ [][Next]_vars

(* The thread is scheduled, and its deadline is an absolute time: wake-ups do not
   put it off for ever.  Nobody is obliged to call the queue. *)
FairSpec == Spec /\ WF_vars(Thread) /\ SF_vars(TimeOut)

-----------------------------------------------------------------------------
(* Properties *)

(* Every field has its type; the queue holds only items of known commands. *)
TypeOK ==
    /\ queue \in [Classes -> Seq(Item)]
    /\ cache \in [Commands -> Values \cup {NoValue}]
    /\ fresh \subseteq Commands /\ asking \subseteq Commands
    /\ pending \in Nat
    /\ queueInterval \in Intervals \cup {Stopped} /\ late \in BOOLEAN
    /\ deadline \in {"armed", "forever"}
    /\ pc \in {"starting", "rearming", "waiting", "woken", "timedout", "ticked", "rearmed"}
    /\ counter \in 0 .. CounterMod - 1
    /\ haveCommand \in Item \cup {NothingSent}
    /\ told \in [Commands -> Values \cup {NoValue}] /\ astray \subseteq Commands
    /\ extraSends \in Nat

(* interval(-1) hands the radio to a client of the built-in server: however it
   falls between the thread's steps, at most one more command leaves, the one
   whose deadline was already running. *)
StopLetsOneOut == extraSends <= 1

(* The cache runs ahead of the radio in step with the queue: what a client reads is
   the newest value that waits to be set, and once it is sent, the value the radio
   was last told or last told us, as far as compare() tells values apart.  The
   exceptions (astray) last until the next set, or the next reply with no set
   queued: a reply that came while a set was queued, which nothing corrects when
   the set is sent, and a set that was withdrawn by a clear or by the read of a
   stale value. *)
Alike(c, v, w) ==
    v = w \/ (v # NoValue /\ w # NoValue /\ Compared[c][v] = Compared[c][w])
CacheIsAhead ==
    \A c \in Commands \ astray :
        /\ \A v \in Values : NewestSet(queue, c, v) => Alike(c, cache[c], v)
        /\ ~SetQueued(queue, c) => Alike(c, cache[c], told[c])

(* A poll the application asked for is lost only if it is deleted or the queue
   is cleared: sending it, asking for it again, asking for it in another class
   and re-requesting its stale value keep it. *)
IsPolled(q, c) == RecurringClass(q, c) # None
PollsSurvive ==
    [][\A c \in Commands :
          IsPolled(queue, c) /\ ~IsPolled(queue', c) => Del(c) \/ Clear]_vars

(* The queue is a first-in first-out line per class, Immediate first. *)
OldestFirst(s) == [j \in 1 .. Len(s) |-> s[Len(s) + 1 - j]]
Scheduler == INSTANCE CommandScheduler WITH
    Lines <- Classes, First <- Immediate, out <- haveCommand,
    line <- [p \in Classes |-> OldestFirst(queue[p])]
RefinesScheduler == Scheduler!Spec

(* "Use prime numbers for priority, so that each queue is processed": once the
   Immediate line stays empty and the interval is set, every class gets its
   turn again and again, wherever the counter stands and although it starts
   over only at a turn of Lowest. *)
EachQueueIsProcessed ==
    <>[](queue[Immediate] = <<>> /\ queueInterval # Stopped /\ deadline = "armed")
        => \A p \in Polled : []<><<Tick /\ Turn = p>>_vars

(* "the command was queued ... the radio will process them asynchronously"
   (REST_API.md): a value to set leaves the queue by being sent, or because a
   newer value of the same command or a clear took its place. *)
AcceptedSetsAreSent ==
    [][\A c \in Commands :
          SetQueued(queue, c) /\ ~SetQueued(queue', c) => Clear \/ Tick]_vars

(* What becomes of a value to set, all the same: it goes out, a clear empties the
   queue, or a newer value of its command takes its place, so that a value is
   queued still.  A poll, a meter, the refusal of a command or a get in itself
   take none away.  The exception is the read of a stale value, above. *)
SetsLeaveBySending ==
    [][\A c \in Commands :
          SetQueued(queue, c) /\ ~SetQueued(queue', c)
              => \/ Tick /\ haveCommand'.command = c /\ haveCommand'.param # NoValue
                 \/ Clear \/ AskAgain(c)]_vars

(* "reset the deadline to the poll frequency": a queue that is given an interval
   comes to run at it, or the interval is taken back, whether the call wakes the
   thread or falls into one of its ticks.  The exception is a call that falls
   between the thread's own reading of the field and its sleep ("rearming",
   "rearmed"): tryLock fails or there is nobody to wake, and the thread may
   sleep on without a deadline, but no longer than to its next wake-up, by a reply,
   a message or another call. *)
Runs == deadline = "armed" \/ queueInterval = Stopped
IntervalTakesEffect ==
    /\ (queueInterval # Stopped /\ pc \in {"woken", "timedout", "ticked"}) ~> Runs
    /\ []<>(pc = "woken") => []<>Runs
=============================================================================
