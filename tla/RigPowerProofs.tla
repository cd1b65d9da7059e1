--------------------------- MODULE RigPowerProofs ---------------------------
(* Theorems about RigPower for every periodic table and every heartbeat command,
   with and without a bus that echoes. *)
EXTENDS RigPower, SequenceTheorems, TLAPS

Counts == [Polled \X Commands -> Nat]
InstalledIn(b) == \A c \in Commands : b[Table[c], c] > 0
SomePoll(b) == \E p \in Polled, c \in Commands : b[p, c] > 0

(* Adding polls keeps the counts natural, and leaves everything wanted polled. *)
LEMMA AddPollsInstalls ==
    ASSUME NEW b \in Counts, NEW wanted \in SUBSET (Polled \X Commands)
    PROVE  /\ AddPolls(b, wanted) \in Counts
           /\ \A p \in Polled, c \in Commands :
                 <<p, c>> \in wanted => AddPolls(b, wanted)[p, c] > 0
<1>1. ASSUME NEW pair \in Polled \X Commands
      PROVE  /\ AddPolls(b, wanted)[pair] \in Nat
             /\ pair \in wanted => AddPolls(b, wanted)[pair] > 0
  <2>1. b[pair] \in Nat
    BY DEF Counts
  <2>2. AddPolls(b, wanted)[pair] =
          IF pair \in wanted /\ ~FirstIn(b, pair[1], pair[2]) THEN b[pair] + 1 ELSE b[pair]
    BY DEF AddPolls
  <2>3. PICK p \in Polled, c \in Commands : pair = <<p, c>>
    OBVIOUS
  <2>4. FirstIn(b, p, c) => b[pair] > 0
    BY <2>3 DEF FirstIn
  <2> QED BY <2>1, <2>2, <2>3, <2>4
<1>2. AddPolls(b, wanted) \in Counts
  BY <1>1 DEF AddPolls, Counts
<1> QED BY <1>1, <1>2

(* The heartbeat is a poll. *)
LEMMA HeartbeatPolls == Heartbeat \in Counts /\ SomePoll(Heartbeat)
<1>1. NoPolls \in Counts
  BY DEF NoPolls, Counts
<1>2. Freq \in Commands /\ Highest \in Polled
  BY PowerAssumption DEF Highest, Polled
<1>3. {<<Highest, Freq>>} \in SUBSET (Polled \X Commands)
  BY <1>2
<1>4. Heartbeat \in Counts /\ Heartbeat[Highest, Freq] > 0
  BY <1>1, <1>2, <1>3, AddPollsInstalls DEF Heartbeat
<1> QED BY <1>2, <1>4 DEF SomePoll

(* The periodic table, added to any polls, leaves each of its commands polled. *)
LEMMA TableInstalls ==
    ASSUME NEW b \in Counts
    PROVE  LET installed == AddPolls(b, {<<Table[c], c>> : c \in Commands})
           IN  installed \in Counts /\ InstalledIn(installed) /\ SomePoll(installed)
<1> DEFINE wanted == {<<Table[c], c>> : c \in Commands}
<1>1. Table \in [Commands -> Polled] /\ Freq \in Commands
  BY PowerAssumption
<1>2. wanted \in SUBSET (Polled \X Commands)
  BY <1>1
<1>3. /\ AddPolls(b, wanted) \in Counts
      /\ \A p \in Polled, c \in Commands :
            <<p, c>> \in wanted => AddPolls(b, wanted)[p, c] > 0
  BY <1>2, AddPollsInstalls
<1>4. InstalledIn(AddPolls(b, wanted))
  BY <1>1, <1>3 DEF InstalledIn
<1>5. SomePoll(AddPolls(b, wanted))
  BY <1>1, <1>4 DEF InstalledIn, SomePoll
<1> QED BY <1>3, <1>4, <1>5

-----------------------------------------------------------------------------

(* What periodic polling makes of the polls: the whole table or no change. *)
LEMMA PeriodicInstalls ==
    ASSUME polls \in Counts
    PROVE  /\ Periodic(polls) \in Counts
           /\ rigAvailable => InstalledIn(Periodic(polls)) /\ SomePoll(Periodic(polls))
           /\ ~rigAvailable => Periodic(polls) = polls
<1>1. /\ AddPolls(polls, {<<Table[c], c>> : c \in Commands}) \in Counts
      /\ InstalledIn(AddPolls(polls, {<<Table[c], c>> : c \in Commands}))
      /\ SomePoll(AddPolls(polls, {<<Table[c], c>> : c \in Commands}))
  BY TableInstalls
<1> QED BY <1>1, Zenon DEF Periodic

(* RigPower's fields keep their types, for every table. *)
THEOREM TypeCorrect == Spec => []TypeOK
<1>1. Init => TypeOK
  <2>1. NoPolls \in [Polled \X Commands -> Nat] /\ <<>> \in Seq(BOOLEAN)
    BY EmptySeq DEF NoPolls
  <2>2. 0 \in 0 .. 3 /\ 0 \in 0 .. 5 /\ 0 \in 0 .. MaxTimers
    BY PowerAssumption
  <2> QED BY <2>1, <2>2, Zenon DEF Init, TypeOK
<1>2. TypeOK /\ [Next]_vars => TypeOK'
  <2> SUFFICES ASSUME TypeOK, [Next]_vars
               PROVE  TypeOK'
    OBVIOUS
  <2> USE PowerAssumption
  <2>a. polls \in Counts
    BY DEF TypeOK, Counts
  <2>b. /\ Periodic(polls) \in [Polled \X Commands -> Nat]
        /\ Heartbeat \in [Polled \X Commands -> Nat]
        /\ NoPolls \in [Polled \X Commands -> Nat]
    BY <2>a, PeriodicInstalls, HeartbeatPolls DEF Counts, NoPolls
  <2>1. CASE CacheUpdated
    <3>1. Head(events) \in BOOLEAN /\ Tail(events) \in Seq(BOOLEAN)
      <4>1. events \in Seq(BOOLEAN) /\ events # <<>>
        BY <2>1, Zenon DEF TypeOK, CacheUpdated
      <4> QED BY <4>1, HeadTailProperties, Zenon
    <3>2. polls' \in [Polled \X Commands -> Nat]
      BY <2>1, <2>b, Zenon DEF TypeOK, CacheUpdated
    <3> QED BY <2>1, <3>1, <3>2, Zenon DEF TypeOK, CacheUpdated, cmd
  <2>2. CASE ReceiveRigCaps
    <3>1. polls' \in [Polled \X Commands -> Nat]
      BY <2>2, <2>a, TableInstalls DEF ReceiveRigCaps, Counts
    <3> QED BY <2>2, <3>1, Zenon DEF TypeOK, ReceiveRigCaps, cmd
  <2>3. CASE PowerRigOn
    <3>1. timers' \in 0 .. MaxTimers
      BY <2>3 DEF TypeOK, PowerRigOn
    <3> QED BY <2>3, <2>b, <3>1, Zenon DEF TypeOK, PowerRigOn, cmd
  <2>4. CASE PowerOnTimer
    <3>1. timers' \in 0 .. MaxTimers
      BY <2>4 DEF TypeOK, PowerOnTimer
    <3>2. /\ polls' \in [Polled \X Commands -> Nat]
          /\ cached' \in BOOLEAN \cup {Unknown} /\ deadlocked' \in BOOLEAN
      BY <2>4, <2>b, Zenon DEF TypeOK, PowerOnTimer
    <3> QED BY <2>4, <3>1, <3>2, Zenon DEF TypeOK, PowerOnTimer, cmd
  <2>5. CASE PowerRigOff
    <3>1. deadlocked' \in BOOLEAN /\ cached' \in BOOLEAN \cup {Unknown}
      BY <2>5, Zenon DEF PowerRigOff
    <3> QED BY <2>5, <2>b, <3>1, Zenon DEF TypeOK, PowerRigOff, cmd
  <2>6. CASE DisconnectLan
    BY <2>6, <2>b, Zenon DEF TypeOK, DisconnectLan, cmd
  <2>r. ASSUME NEW v \in BOOLEAN, Report(v)
        PROVE  cached' \in BOOLEAN \cup {Unknown} /\ events' \in Seq(BOOLEAN)
    <3>1. cached' \in BOOLEAN \cup {Unknown}
      BY <2>r, Zenon DEF Report
    <3>2. events' \in Seq(BOOLEAN)
      BY <2>r, AppendProperties, Zenon DEF TypeOK, Report
    <3> QED BY <3>1, <3>2
  <2>z. 0 \in 0 .. 3 /\ 0 \in 0 .. 5
    OBVIOUS
  <2>c. /\ Counted \in 0 .. 3
        /\ CountReply => faErrors' \in 0 .. 5 /\ repliesOff' \in 0 .. 3
    BY DEF TypeOK, Counted, CountReply
  <2>d. ASSUME NEW count \in 0 .. 3, Declare(count)
        PROVE  /\ cmdPoweredOn' \in BOOLEAN /\ recentOn' \in BOOLEAN /\ offByEcho' \in BOOLEAN
               /\ cached' \in BOOLEAN \cup {Unknown} /\ events' \in Seq(BOOLEAN)
               /\ validReplies' \in 0 .. 3
    BY <2>d, <2>r, <2>z, Zenon DEF TypeOK, Declare
  <2>7. CASE ValidReply \/ UncountedReply
    <3>1. /\ \E count \in 0 .. 3 : Declare(count)
          /\ faErrors' \in 0 .. 5 /\ repliesOff' \in 0 .. 3
      BY <2>7, <2>c, Zenon DEF TypeOK, ValidReply, UncountedReply
    <3>2. UNCHANGED <<radioOn, srv>>
      BY <2>7, Zenon DEF ValidReply, UncountedReply
    <3> QED BY <3>1, <3>2, <2>d, Zenon DEF TypeOK, srv
  <2>8. CASE Unsolicited
    BY <2>8, <2>c, Zenon DEF TypeOK, Unsolicited, srv
  <2>9. CASE FAReply
    <3>1. faErrors' \in 0 .. 5 /\ validReplies' \in 0 .. 3
      BY <2>9 DEF TypeOK, FAReply
    <3>2. repliesOff' \in 0 .. 3
      BY <2>9, <2>z, Zenon DEF TypeOK, FAReply
    <3>3. /\ cmdPoweredOn' \in BOOLEAN
          /\ cached' \in BOOLEAN \cup {Unknown} /\ events' \in Seq(BOOLEAN)
      BY <2>9, <2>r, Zenon DEF TypeOK, FAReply
    <3> QED BY <2>9, <3>1, <3>2, <3>3, Zenon DEF TypeOK, FAReply, srv
  <2>10. CASE Echo
    <3>1. repliesOff' \in 0 .. 3
      BY <2>10 DEF Echo
    <3> QED BY <2>10, <2>r, <3>1, Zenon DEF TypeOK, Echo, srv
  <2>11. CASE Settle
    BY <2>11, Zenon DEF TypeOK, Settle, srv
  <2>12. CASE Switch
    BY <2>12, Zenon DEF TypeOK, Switch, srv, cmd
  <2>13. CASE UNCHANGED vars
    BY <2>13, Zenon DEF TypeOK, vars, srv, cmd
  <2> QED
    BY <2>1, <2>2, <2>3, <2>4, <2>5, <2>6, <2>7, <2>8, <2>9, <2>10, <2>11, <2>12, <2>13, Zenon
       DEF Next, Servermain, Commander
<1> QED BY <1>1, <1>2, PTL DEF Spec

(* The inductive form of ProbedWhileOff: whatever the belief, an identified radio
   is polled.  (A queue with nothing to poll can only be seen before the radio is
   identified and after the disconnection.) *)
Probed == rigAvailable => SomePoll(polls)

(* An identified radio is always polled for something, so the way back from "off"
   is never lost. *)
THEOREM AlwaysProbed == Spec => []ProbedWhileOff
<1>1. Init => Probed
  BY DEF Init, Probed
<1>2. TypeOK /\ Probed /\ [Next]_vars => Probed'
  <2> SUFFICES ASSUME TypeOK, Probed, [Next]_vars
               PROVE  Probed'
    OBVIOUS
  <2>a. polls \in Counts
    BY DEF TypeOK, Counts
  <2>b. SomePoll(Heartbeat) /\ (rigAvailable => SomePoll(Periodic(polls)))
    BY <2>a, PeriodicInstalls, HeartbeatPolls, Zenon
  <2>1. CASE CacheUpdated
    BY <2>1, <2>b, Zenon DEF CacheUpdated, Probed
  <2>2. CASE ReceiveRigCaps
    <3>1. SomePoll(polls')
      BY <2>2, <2>a, TableInstalls DEF ReceiveRigCaps
    <3> QED BY <3>1, Zenon DEF Probed, SomePoll
  <2>3. CASE PowerRigOn
    BY <2>3, <2>b, Zenon DEF PowerRigOn, Probed
  <2>4. CASE PowerOnTimer
    BY <2>4, <2>b, Zenon DEF PowerOnTimer, Probed
  <2>5. CASE PowerRigOff
    BY <2>5, <2>b, Zenon DEF PowerRigOff, Probed
  <2>6. CASE DisconnectLan
    BY <2>6, Zenon DEF DisconnectLan, Probed
  <2>7. CASE Commander \/ Settle \/ Switch
    BY <2>7, Zenon DEF Commander, ValidReply, UncountedReply, Unsolicited, FAReply, Echo,
                       Settle, Switch, Probed, srv
  <2>8. CASE UNCHANGED vars
    BY <2>8, Zenon DEF Probed, vars, srv
  <2> QED BY <2>1, <2>2, <2>3, <2>4, <2>5, <2>6, <2>7, <2>8, Zenon DEF Next, Servermain
<1>3. Probed => ProbedWhileOff
  BY Zenon DEF Probed, ProbedWhileOff, SomePoll
<1> QED BY <1>1, <1>2, <1>3, TypeCorrect, PTL DEF Spec

(* Whoever notices first that the radio is on again, the whole table is polled. *)
THEOREM BackOnIsPolled == Spec => PowerOnInstallsTable
<1>1. TypeOK /\ [Next]_vars
        => [~rigPoweredOn /\ rigPoweredOn' /\ rigAvailable
              => \A c \in Commands : polls'[Table[c], c] > 0]_vars
  <2> SUFFICES ASSUME TypeOK, Next, ~rigPoweredOn, rigPoweredOn', rigAvailable
               PROVE  InstalledIn(polls')
    BY Zenon DEF InstalledIn
  <2>a. InstalledIn(Periodic(polls))
    BY PeriodicInstalls, Zenon DEF TypeOK, Counts
  <2>1. CASE CacheUpdated
    BY <2>1, <2>a, Zenon DEF CacheUpdated, SlotActs
  <2>2. CASE PowerOnTimer
    BY <2>2, <2>a, Zenon DEF PowerOnTimer
  <2>3. CASE ReceiveRigCaps \/ PowerRigOn \/ PowerRigOff \/ DisconnectLan
    BY <2>3, Zenon DEF ReceiveRigCaps, PowerRigOn, PowerRigOff, DisconnectLan
  <2>4. CASE Commander \/ Settle \/ Switch
    BY <2>4, Zenon DEF Commander, ValidReply, UncountedReply, Unsolicited, FAReply, Echo,
                       Settle, Switch, srv
  <2> QED BY <2>1, <2>2, <2>3, <2>4, Zenon DEF Next, Servermain
<1> QED BY <1>1, TypeCorrect, PTL DEF Spec, PowerOnInstallsTable

(* servermain never waits for a mutex it holds. *)
THEOREM NoSelfDeadlock == Spec => []NeverDeadlocks
<1>1. Init => NeverDeadlocks
  BY Zenon DEF Init, NeverDeadlocks
<1>2. NeverDeadlocks /\ [Next]_vars => NeverDeadlocks'
  BY Zenon DEF NeverDeadlocks, Next, Servermain, CacheUpdated, ReceiveRigCaps, PowerRigOn,
     PowerOnTimer, PowerRigOff, DisconnectLan, Commander, ValidReply, UncountedReply,
     Unsolicited, FAReply, Echo, Settle, Switch, SlotActs, vars, srv
<1> QED BY <1>1, <1>2, PTL DEF Spec

-----------------------------------------------------------------------------
(* The commander's count of valid replies never runs ahead of the replies that
   really came in a row, unless an echo declared the radio off. *)
CountIsHonest == ~cmdPoweredOn /\ ~offByEcho => validReplies <= repliesOff

LEMMA HonestInit == Init => CountIsHonest
BY DEF Init, CountIsHonest

LEMMA HonestStep == TypeOK /\ CountIsHonest /\ [Next]_vars => CountIsHonest'
<1> SUFFICES ASSUME TypeOK, CountIsHonest, [Next]_vars
             PROVE  CountIsHonest'
  OBVIOUS
<1>a. validReplies \in 0 .. 3 /\ repliesOff \in 0 .. 3
  BY DEF TypeOK
<1>1. CASE Servermain \/ Settle \/ Switch \/ UNCHANGED vars
  <2>1. UNCHANGED <<cmdPoweredOn, offByEcho, validReplies, repliesOff>>
    BY <1>1, Zenon DEF Servermain, CacheUpdated, ReceiveRigCaps, PowerRigOn, PowerOnTimer,
       PowerRigOff, DisconnectLan, Settle, Switch, vars, cmd
  <2> QED BY <2>1, Zenon DEF CountIsHonest
<1>d. ASSUME NEW count, Declare(count)
      PROVE  \/ cmdPoweredOn'
             \/ validReplies' = count /\ UNCHANGED <<cmdPoweredOn, offByEcho>>
  BY <1>d, Zenon DEF Declare
<1>2. CASE ValidReply
  <2>1. CASE cmdPoweredOn'
    BY <2>1, Zenon DEF CountIsHonest
  <2>2. CASE ~cmdPoweredOn'
    <3>1. validReplies' = Counted /\ UNCHANGED <<cmdPoweredOn, offByEcho>> /\ CountReply
      BY <1>2, <1>d, <2>2, Zenon DEF ValidReply
    <3> QED BY <1>a, <3>1 DEF CountIsHonest, Counted, CountReply
  <2> QED BY <2>1, <2>2
<1>3. CASE UncountedReply
  <2>1. \/ cmdPoweredOn'
        \/ UNCHANGED <<validReplies, cmdPoweredOn, offByEcho, repliesOff>>
    BY <1>3, <1>d, Zenon DEF UncountedReply
  <2> QED BY <2>1, Zenon DEF CountIsHonest
<1>4. CASE Unsolicited
  BY <1>a, <1>4 DEF Unsolicited, CountIsHonest, Counted, CountReply
<1>5. CASE FAReply
  BY <1>5 DEF FAReply, CountIsHonest
<1>6. CASE Echo
  BY <1>6, Zenon DEF Echo, CountIsHonest
<1> QED
  BY <1>1, <1>2, <1>3, <1>4, <1>5, <1>6, Zenon DEF Next, Commander

(* One stray reply does not turn the radio on: three in a row do, for every table
   and every mix of errors, reports, presses and timers. *)
THEOREM StrayReplies == Spec => StrayReplyDoesNotFlip
<1>1. TypeOK /\ CountIsHonest /\ [Next]_vars
        => [~cmdPoweredOn /\ cmdPoweredOn' => repliesOff' >= 3 \/ offByEcho]_vars
  <2> SUFFICES ASSUME TypeOK, CountIsHonest, Next, ~cmdPoweredOn, cmdPoweredOn', ~offByEcho
               PROVE  repliesOff' >= 3
    BY Zenon
  <2>1. CASE ValidReply
    <3>1. Counted >= 3 /\ CountReply
      BY <2>1, Zenon DEF ValidReply, Declare
    <3> QED BY <3>1 DEF TypeOK, CountIsHonest, Counted, CountReply
  <2>2. CASE UncountedReply
    <3>1. validReplies >= 3 /\ repliesOff' = repliesOff
      BY <2>2, Zenon DEF UncountedReply, Declare
    <3> QED BY <3>1 DEF TypeOK, CountIsHonest
  <2>3. CASE Servermain \/ Unsolicited \/ FAReply \/ Echo \/ Settle \/ Switch
    BY <2>3, Zenon DEF Servermain, CacheUpdated, ReceiveRigCaps, PowerRigOn, PowerOnTimer,
       PowerRigOff, DisconnectLan, Unsolicited, FAReply, Echo, Settle, Switch, cmd
  <2> QED BY <2>1, <2>2, <2>3, Zenon DEF Next, Commander
<1> QED BY <1>1, HonestInit, HonestStep, TypeCorrect, PTL DEF Spec, StrayReplyDoesNotFlip
=============================================================================
