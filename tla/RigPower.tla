------------------------------ MODULE RigPower ------------------------------
(***************************************************************************)
(* Power state and polling: servermain installs the polls of the periodic  *)
(* table when the radio is there and on, and replaces them by a slow       *)
(* heartbeat when it is off; icomCommander guesses the power state from    *)
(* the radio's replies and reports it through the queue's cache.           *)
(*                                                                         *)
(* Three threads: servermain, the commander, and the radio behind it.  A   *)
(* cacheUpdated signal that the commander's thread causes is queued for    *)
(* servermain; one that servermain itself causes runs its slot at once,    *)
(* while receiveValue() still holds the queue's mutex.                     *)
(***************************************************************************)
EXTENDS Integers, Sequences, FiniteSets

CONSTANTS
    Table,       \* the class each command of the periodic table is polled in
    Freq,        \* funcFreq, the command of the heartbeat
    Echoes,      \* TRUE if the bus echoes our broadcasts
    MaxTimers,   \* bound of the model on presses of "power on" still timed
    MaxEvents,   \* bound of the model on queued cacheUpdated signals
    Unknown      \* no funcPowerControl in the cache

VARIABLES
    radioOn,       \* the radio really is on
    rigAvailable,  \* servermain: the radio is identified
    rigPoweredOn,  \* servermain's belief
    timers,        \* five-second single shots of powerRigOn() still to fire
    polls,         \* recurring items of the queue: count per class and command
    cmdPoweredOn,  \* icomCommander's rigPoweredOn
    faErrors,      \* consecutiveFAErrors
    validReplies,  \* validResponseCount, counted up to 3
    recentOn,      \* powerOnTime is less than 5 s ago
    cached,        \* funcPowerControl in the cache
    events,        \* cacheUpdated signals on their way to servermain
    deadlocked,    \* servermain waits for a mutex it holds itself
    \* history, read by properties only
    repliesOff,    \* valid replies in a row since the commander saw it off
    offByEcho      \* an echo declared it off, and no FA has come since

srv == <<rigAvailable, rigPoweredOn, timers, polls, deadlocked>>
cmd == <<cmdPoweredOn, faErrors, validReplies, recentOn, repliesOff, offByEcho>>
vars == <<radioOn, srv, cmd, cached, events>>

Commands == DOMAIN Table
Highest == 2
Polled == {2, 3, 5, 7, 11, 19, 23}

ASSUME PowerAssumption ==
    /\ Freq \in Commands /\ Table \in [Commands -> Polled]
    /\ Echoes \in BOOLEAN /\ Unknown \notin BOOLEAN
    /\ MaxTimers \in Nat /\ MaxEvents \in Nat

NoPolls == [pair \in Polled \X Commands |-> 0]

(* isRecurring(): is p the first class that holds the command? *)
FirstIn(b, p, c) == b[p, c] > 0 /\ \A o \in Polled : b[o, c] > 0 => p <= o

(* queue->add of a recurring command for every (class, command) in wanted *)
AddPolls(b, wanted) ==
    [pair \in Polled \X Commands |->
        IF pair \in wanted /\ ~FirstIn(b, pair[1], pair[2]) THEN b[pair] + 1 ELSE b[pair]]

(* startPowerProbe(): the queue is cleared and holds the heartbeat alone *)
Heartbeat == AddPolls(NoPolls, {<<Highest, Freq>>})

(* Mutant of Periodic: the table waits for a belief that is not set yet *)
PeriodicWhenOn(b) ==
    IF rigAvailable /\ rigPoweredOn
    THEN AddPolls(b, {<<Table[c], c>> : c \in Commands}) ELSE b

(* initPeriodicPolling(): nothing without an identified radio.  The meters it
   adds at Highest when the table lacks them belong to Table here. *)
Periodic(b) == IF rigAvailable THEN AddPolls(b, {<<Table[c], c>> : c \in Commands}) ELSE b

Init ==
    /\ radioOn \in BOOLEAN
    /\ rigAvailable = FALSE /\ rigPoweredOn = TRUE
    /\ timers = 0 /\ polls = NoPolls /\ deadlocked = FALSE
    /\ cmdPoweredOn = FALSE /\ faErrors = 0 /\ validReplies = 0 /\ recentOn = FALSE
    /\ cached = Unknown /\ events = <<>>
    /\ repliesOff = 0 /\ offByEcho = FALSE

(* updateCache(): cacheUpdated is emitted when a cached value changes; the first
   value of a command is stored without a signal *)
Emits(v) == cached # Unknown /\ cached # v

(* What servermain's cacheUpdated slot does with a power state: anything but
   nothing takes the queue's mutex *)
SlotActs(v, on) == v # on

-----------------------------------------------------------------------------
(* servermain *)

(* The slot, from the event loop *)
CacheUpdated ==
    /\ events # <<>> /\ ~deadlocked
    /\ events' = Tail(events)
    /\ rigPoweredOn' = Head(events)
    /\ polls' = IF ~SlotActs(Head(events), rigPoweredOn) THEN polls
                ELSE IF Head(events) THEN Periodic(polls) ELSE Heartbeat
    /\ UNCHANGED <<radioOn, rigAvailable, timers, deadlocked, cmd, cached>>

(* Mutant of ReceiveRigCaps: no polls for a radio believed off *)
ReceiveRigCapsWhenOn ==
    /\ ~rigAvailable /\ ~deadlocked
    /\ rigAvailable' = TRUE
    /\ polls' = IF rigPoweredOn THEN AddPolls(polls, {<<Table[c], c>> : c \in Commands})
                ELSE polls
    /\ UNCHANGED <<radioOn, rigPoweredOn, timers, deadlocked, cmd, cached, events>>

(* receiveRigCaps(): the radio is identified, once per connection *)
ReceiveRigCaps ==
    /\ ~rigAvailable /\ ~deadlocked
    /\ rigAvailable' = TRUE
    /\ polls' = AddPolls(polls, {<<Table[c], c>> : c \in Commands})
    /\ UNCHANGED <<radioOn, rigPoweredOn, timers, deadlocked, cmd, cached, events>>

(* powerRigOn(): a user presses "on" *)
PowerRigOn ==
    /\ ~deadlocked /\ timers < MaxTimers
    /\ polls' = Heartbeat
    /\ timers' = timers + 1
    /\ UNCHANGED <<radioOn, rigAvailable, rigPoweredOn, deadlocked, cmd, cached, events>>

(* Mutant of PowerOnTimer: the timer is not a single shot *)
PowerOnTimerRepeats ==
    /\ ~deadlocked
    /\ timers' = timers - 1
    /\ rigPoweredOn' = TRUE
    /\ UNCHANGED <<radioOn, rigAvailable, polls, deadlocked, cmd, cached, events>>

(* Its five seconds are over.  receiveValue() runs servermain's own slot with
   the mutex locked; rigPoweredOn is already set, so the slot does nothing. *)
PowerOnTimer ==
    /\ timers > 0 /\ ~deadlocked
    /\ timers' = timers - 1
    /\ rigPoweredOn' = TRUE
    /\ IF rigPoweredOn
       THEN UNCHANGED <<polls, cached, deadlocked>>
       ELSE /\ cached' = TRUE
            /\ deadlocked' = (Emits(TRUE) /\ SlotActs(TRUE, rigPoweredOn'))
            /\ polls' = Periodic(polls)
    /\ UNCHANGED <<radioOn, rigAvailable, cmd, events>>

(* Mutant of PowerRigOff: the belief is set after the value is pushed *)
PowerRigOffLate ==
    /\ ~deadlocked
    /\ cached' = FALSE
    /\ deadlocked' = (Emits(FALSE) /\ SlotActs(FALSE, rigPoweredOn))
    /\ rigPoweredOn' = FALSE
    /\ polls' = Heartbeat
    /\ UNCHANGED <<radioOn, rigAvailable, timers, cmd, events>>

(* powerRigOff(): a user presses "off" *)
PowerRigOff ==
    /\ ~deadlocked
    /\ rigPoweredOn' = FALSE
    /\ cached' = FALSE
    /\ deadlocked' = (Emits(FALSE) /\ SlotActs(FALSE, rigPoweredOn'))
    /\ polls' = Heartbeat
    /\ UNCHANGED <<radioOn, rigAvailable, timers, cmd, events>>

(* disconnectLan(): the polls go, the radio is no longer known.  reconnectLan()
   leads to a new ReceiveRigCaps. *)
DisconnectLan ==
    /\ rigAvailable /\ ~deadlocked
    /\ rigAvailable' = FALSE
    /\ polls' = NoPolls
    /\ UNCHANGED <<radioOn, rigPoweredOn, timers, deadlocked, cmd, cached, events>>

-----------------------------------------------------------------------------
(* icomCommander *)

(* receiveValue(funcPowerControl, v) from the commander's thread *)
Report(v) ==
    /\ cached' = v
    /\ events' = IF Emits(v) THEN Append(events, v) ELSE events

(* parseCommand() on anything but FA, FB and an unknown command *)
Counted == IF validReplies = 3 THEN 3 ELSE validReplies + 1
CountReply ==
    /\ faErrors' = 0
    /\ repliesOff' = IF cmdPoweredOn \/ repliesOff = 3 THEN repliesOff ELSE repliesOff + 1

(* parseData()'s test after every frame addressed to us: three valid replies declare
   the radio on *)
Declare(count) ==
    IF ~cmdPoweredOn /\ count >= 3
    THEN /\ Report(TRUE)
         /\ cmdPoweredOn' = TRUE /\ recentOn' = TRUE /\ validReplies' = 0
         /\ offByEcho' = FALSE
    ELSE /\ validReplies' = count
         /\ UNCHANGED <<cmdPoweredOn, recentOn, offByEcho, cached, events>>

(* A valid reply addressed to us, to a poll or to a command sent once *)
ValidReply ==
    /\ radioOn /\ Len(events) < MaxEvents
    /\ CountReply /\ Declare(Counted)
    /\ UNCHANGED <<radioOn, srv>>

(* FB, an unknown command or one that parseCommand() leaves early: not counted, but
   the test that follows may find three that were sent unasked *)
UncountedReply ==
    /\ radioOn /\ Len(events) < MaxEvents
    /\ Declare(validReplies)
    /\ UNCHANGED <<radioOn, srv, faErrors, repliesOff>>

(* What the radio sends unasked is counted and decides nothing *)
Unsolicited ==
    /\ radioOn
    /\ CountReply
    /\ validReplies' = Counted
    /\ UNCHANGED <<radioOn, srv, cmdPoweredOn, recentOn, offByEcho, cached, events>>

(* Mutant of FAReply: the count of valid replies survives an error *)
FAReplyKeepsCount ==
    /\ Len(events) < MaxEvents
    /\ faErrors' = IF faErrors = 5 THEN 5 ELSE faErrors + 1
    /\ repliesOff' = 0 /\ offByEcho' = FALSE
    /\ IF faErrors' >= 5 /\ cmdPoweredOn
       THEN Report(FALSE) /\ cmdPoweredOn' = FALSE
       ELSE UNCHANGED <<cached, events, cmdPoweredOn>>
    /\ UNCHANGED <<radioOn, srv, validReplies, recentOn>>

(* An FA reply: the fifth in a row declares the radio off *)
FAReply ==
    /\ Len(events) < MaxEvents
    /\ faErrors' = IF faErrors = 5 THEN 5 ELSE faErrors + 1
    /\ validReplies' = 0
    /\ repliesOff' = 0 /\ offByEcho' = FALSE
    /\ IF faErrors' >= 5 /\ cmdPoweredOn
       THEN Report(FALSE) /\ cmdPoweredOn' = FALSE
       ELSE UNCHANGED <<cached, events, cmdPoweredOn>>
    /\ UNCHANGED <<radioOn, srv, recentOn>>

(* Our own broadcast comes back, at once or late: taken for a bus with nobody else
   on it, and disregarded for 5 s after a power-on.  The counters are left alone. *)
Echo ==
    /\ Echoes /\ cmdPoweredOn /\ ~recentOn /\ Len(events) < MaxEvents
    /\ Report(FALSE)
    /\ cmdPoweredOn' = FALSE
    /\ repliesOff' = 0 /\ offByEcho' = TRUE
    /\ UNCHANGED <<radioOn, srv, faErrors, validReplies, recentOn>>

(* Five seconds pass *)
Settle ==
    /\ recentOn
    /\ recentOn' = FALSE
    /\ UNCHANGED <<radioOn, srv, cmdPoweredOn, faErrors, validReplies, repliesOff, offByEcho,
                   cached, events>>

(* The power button, a power command that reached the radio, the mains *)
Switch ==
    /\ radioOn' = ~radioOn
    /\ UNCHANGED <<srv, cmd, cached, events>>

Servermain == CacheUpdated \/ ReceiveRigCaps \/ PowerRigOn \/ PowerOnTimer
              \/ PowerRigOff \/ DisconnectLan
Commander == ValidReply \/ UncountedReply \/ Unsolicited \/ FAReply \/ Echo
Next == Servermain \/ Commander \/ Settle \/ Switch

Spec == Init /\ [][Next]_vars

-----------------------------------------------------------------------------
(* Properties *)

(* Every field has its type. *)
TypeOK ==
    /\ radioOn \in BOOLEAN /\ rigAvailable \in BOOLEAN /\ rigPoweredOn \in BOOLEAN
    /\ timers \in 0 .. MaxTimers
    /\ polls \in [Polled \X Commands -> Nat]
    /\ cmdPoweredOn \in BOOLEAN /\ faErrors \in 0 .. 5 /\ validReplies \in 0 .. 3
    /\ recentOn \in BOOLEAN /\ cached \in BOOLEAN \cup {Unknown}
    /\ events \in Seq(BOOLEAN) /\ deadlocked \in BOOLEAN
    /\ repliesOff \in 0 .. 3 /\ offByEcho \in BOOLEAN

(* servermain never takes the queue's mutex from a slot that runs inside its own
   receiveValue(): the belief is set before the value is pushed. *)
NeverDeadlocks == ~deadlocked

(* While servermain believes the radio off and is connected to it, something is
   polled: otherwise no reply could ever show that the radio is back.  It must
   survive every mix of presses, events, timers and reconnections. *)
ProbedWhileOff ==
    ~rigPoweredOn /\ rigAvailable => \E p \in Polled, c \in Commands : polls[p, c] > 0

(* Whichever of the timer and the event notices the power-on first, the step that
   changes the belief to "on" leaves the whole periodic table polled. *)
PowerOnInstallsTable ==
    [][~rigPoweredOn /\ rigPoweredOn' /\ rigAvailable
        => \A c \in Commands : polls'[Table[c], c] > 0]_vars

(* "Require several consecutive valid (non-FA) responses before declaring the
   radio back on.  A single stray valid response during shutdown must not flip
   state": whatever mix of errors, replies and unasked reports came before, three
   valid ones in a row precede the power-on.  The one exception: an echo that
   declared the radio off leaves the count of before, and until an error resets
   it a single reply, an FB even, may flip the state. *)
StrayReplyDoesNotFlip ==
    [][~cmdPoweredOn /\ cmdPoweredOn' => repliesOff' >= 3 \/ offByEcho]_vars
=============================================================================
