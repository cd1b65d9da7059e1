# A verification project for wfweb

wfweb is a headless server that drives an amateur radio transceiver (Icom, Kenwood, Yaesu) over
a serial line, USB or a LAN, and serves it to browsers: control, audio, packet radio. It is
written in C++ with Qt: a handful of threads, each with an event loop, that call each other by
queued signals, plus one shared object behind a mutex, `cachingQueue`.

This directory holds TLA+ models of the parts of it where order and timing matter, the TLC
runs that check them, and proofs checked by TLAPS. Paths below are relative to `src/`, and
`PROJECT.json` ties every definition to the lines it models.

    tlc -workers 2 -config CachingQueue_order.cfg MCCachingQueue.tla     # a run
    tlapm PacketTxProofs.tla                                             # a module of proofs

## 1. Inventory

| Component | State | Operations | Talks to |
|---|---|---|---|
| Command queue and cache, `src/cachingqueue.cpp` | multimap priority -> item, cache, interval, deadline, counter | `add`, `addUnique`, `del`, `clear`, `interval`, `receiveValue`, `message`, `getCache`, the thread's `run` | everyone: the only way to the radio; signals `haveCommand`, `cacheUpdated`, `sendValue`, `sendMessage` |
| Power state and polling, `src/servermain.cpp`, `src/radio/icomcommander.cpp` | `rigPoweredOn` (three copies), the polls, `consecutiveFAErrors`, `validResponseCount` | `powerRigOn/Off`, `initPeriodicPolling`, `startPowerProbe`, `receiveRigCaps`, `parseData` | queue, commander, browsers |
| Tracked UDP packets, `src/radio/icomudpbase.cpp` | `txSeqBuf`, `rxSeqBuf`, `rxMissing`, `sendSeq` | `sendTrackedPacket`, `dataReceived`, `sendRetransmitRequest` | a radio, or another wfweb, over UDP |
| Icom LAN session, `src/radio/icomudphandler.cpp`, `icomudpcivdata.cpp`, `icomudpaudio.cpp` | login, token, streams, watchdogs | login, token renewal, stream request, reconnect | tracked packets, commander |
| Packet transmission, `src/webserver.cpp`, `src/direwolfprocessor.cpp` | `packetTxBusy`, two buffers, two timers, single shots, the sound card | `packetTx`, beacon, `onPacketTxReady/Failed`, the two drains, `onUsbAudioOutputStateChanged` | encoder thread, queue (PTT), sound card or TX converter, browsers |
| YAPP transfers and terminal sessions, `src/webserver.cpp` | `termSessions`, `XferState`, two 60 s timers | handshake, pump, abort | AX.25 link, packet transmission |
| Built-in Icom server, `src/radio/icomserver.cpp` | three client lists, saved queue interval | connect, login, stream, retransmit, `deleteConnection` | remote clients, queue |
| Memory scan, `src/webserver.cpp` | scan position, 2 s timer | start, `scanNextMemory`, answer | queue |
| AX.25 link, `src/ax25linkprocessor.cpp` | wrapper of Direwolf's link state machine | connect, send, disconnect | YAPP, encoder |
| Commanders' protocols, serial port, audio conversion, digital voice, APRS, reporters, TLS proxy, web UI, virtual rig | | formatting, parsing, device and network I/O | |

What is hard here:

* **interleaving** - `interval()` and the first check of `add()` work on a field the thread also
  uses, without the mutex; `getCache()` reads in one critical section and acts in the next; a
  slot connected to `cacheUpdated` runs at once or later depending on the thread that caused it;
  timers, sound-card events and any browser's request meet in the handlers of a packet burst;
* **ordering** - a recurring command is erased and re-inserted while its class is walked; UDP
  packets are lost, repeated and reordered around a 16-bit roll-over;
* **timeouts** - single shots (5 s, 60 s, 50 ms, 5 ms) that are never cancelled;
* **limits** - buffers that evict at every insertion, a 16-bit loop bound, a counter that
  chooses by divisibility;
* **stale state** - one fact kept in several places (the power state in three objects, the
  cache against the radio).

`PROJECT.json` lists the hazards one by one, with the property that would catch each.

What makes each part correct: the queue serves every class, first in first out, loses no poll
and tells its readers the newest value on its way; a radio that is off is probed and one that comes back is
polled as before; a receiver knows its gaps and a sender still has what may be asked for;
whoever keys the radio, it is unkeyed once, and not with audio left; a session's flag and its
streams agree; a file reported as sent has arrived whole; a remote program's connections live and die
together, and the queue it stopped runs again when it is gone.

## 2. Plan

The queue comes first: every command passes it, and every other component calls it.

1. `QueueItems`, `CachingQueue`, `CommandScheduler` (abstract) - **done**; types, stop, cache,
   polls, values to set and the refinement of the scheduler proved.
2. `RigPower` (servermain, commander and queue in one composition) - **done**; its safety proved.
3. `IcomUdpLink` - **done**; its safety proved.
4. `PacketTx` - **done**; its safety proved.
5. `IcomUdpSession` (login, token, streams and watchdogs above the link) - **done**; its safety
   proved.
6. `FileDelivery` (abstract), `YappTransfer` (both ends of the transfers and the link between
   them) - **done**; its safety and the refinement proved.
7. `IcomServer` (association, deletion, and the queue interval taken and given back) - **done**;
   its safety proved.
8. To come: memory scan, VFO routing of the queue (`getVfoCommand`), AX.25 requests, and several
   YAPP sessions at once.

Properties and runs are limited to those that say something of their own: two or three per
component of the plan, each with the bug in the code that would break it.

## 3. The models

Each handler, or each critical section where threads meet, is one action. History variables
serve properties only and are marked.

### CachingQueue (with QueueItems and CommandScheduler)

`queue` is the `QMultiMap`: a sequence per class, newest first as `QMultiMap::insert` puts it.
`QueueItems` has the operations on it (`Added`, `Deleted`, `Taken`, ...). `CachingQueue` is the
object: the thread goes through `starting -> rearming -> waiting -> woken | timedout -> ticked ->
rearmed -> waiting`. `TimeOut` and `Tick` are separate because `QWaitCondition::wait` takes the
mutex again only after it has timed out; `Tick` and `Rearm` are separate because `run` reads
`queueInterval` there and `interval()` may write it at any time. A caller's critical section is
one action. `late` is a caller that has passed the check of `queueInterval` in `add()` and has
not locked the mutex yet. `getCache()` is two actions, as it is two critical sections: `GetCache` reads,
and remembers in `asking` that the value is missing or old; `AskAgain` is the unique get it then queues,
or drops if the queue has been stopped meanwhile.

Data: a command is a model value and its receiver is part of it; so is a value. What `compare()` makes of
values is the constant `Compared`: what it looks at of each value of each command. For most types
that is the whole value; for `rigInput`, `toneInfo` and the like one field; for a `short`, which is
compared with itself, and for a type `compare()` does not list ("Unsupported cache value"), it is the
same for all values. `Served` are the commands `getCache()` asks for. `told` (history) is the last value of
each command that was sent or received. VFO routing, the radio state and the shutdown are left out.

`CommandScheduler` is what the queue promises its callers: a FIFO line per class, the Immediate
line first, recurring commands back to the end of their line. It knows nothing of counters, timers
or how anything is stored. `RefinesScheduler` maps each line to its class's sequence reversed
(`OldestFirst`). What callers do is one action there, `Amend`: commands may leave a line anywhere
and one may join at the end, but those that stay keep their order.

### RigPower

Composes servermain, the commander and the radio around the queue. `polls` counts the recurring
items of each class and command; it changes as `add` and `clear` change it, with the quirk that a
command polled in two classes is recognised only in the first. `events` are the `cacheUpdated`
signals queued for servermain; a signal that servermain itself causes runs its slot at once,
inside `receiveValue`, where the mutex is locked: `deadlocked` records a slot that would lock it
again. `Switch` is the radio's own switch: power commands may be lost. An `FAReply` and an
`Echo` may come at any time, from a radio that is on or off. What a radio that is on sends to us is a
`ValidReply`, to a poll or to any other command, or an `UncountedReply` (FB, an unknown command, one
that `parseCommand` leaves early); the test for three valid ones (`Declare`) follows both, while what it
sends unasked (`Unsolicited`) is counted and not tested. The interval of the queue, and
webServer's own copy of the belief, are left out.

### IcomUdpLink

One direction of tracked packets. Sender and receiver are both instances of `icomUdpBase`; a
radio, or `icomServer`, answers the same way. A packet is its sequence number. Number 0 is
never tracked by the receiver (`in->seq != 0x00`), `sendSeq` starts at 1. `Receive` may leave the
packet in flight (a repetition); the set of packets in flight has no order. `stuck` is the loop
`for (quint16 f = ...; f <= in->seq; f++)` when `in->seq` is 65535. The 100 ms `tryLock` of the
buffers is left out: all their users run in one thread.

### PacketTx

The transmitter of webServer. The TX path (`usb`, `lan`, or `none`) is chosen at set-up. `keyed` is
the last PTT command posted to the queue, which keeps Immediate commands in order. Frames of the
operator and of the beacon are `claimed` before they are encoded, those of the AX.25 link are
not. Audio is counted in slices. Two facts about time are guards: at most two 20 ms ticks
fit into the 50 ms between an empty LAN buffer and the unkey; a 5 ms single shot fires before the
first tick of a 10 ms timer started after it. `Burst >= 3` says that a frame, with preamble and
postamble, lasts more than 40 ms. `disturbed` and `taken` are histories of what browsers did to the sound
card: anything at all, or stopping the device under a burst. Manual PTT, FreeDV and RADE, which use the same device in
other modes, are left out.

### IcomUdpSession

`icomUdpHandler` with the CI-V streams it opens, against a radio that answers late, repeatedly or not
at all. `asked` holds the kinds of requests ever made: each of them may be answered at any time.
`waiting` holds those without an answer and serves fairness only. A login's number stands for its
random `tokRequest` and for the token given in return. Every handler of a control packet that changes
state is an action (`ReceiveHere` to `ConnInfo`), as are the timers (`RenewToken`, `CivWatchdog`), the
user's choice (`SelectRadio`), the destructor (`Close`) and the next session (`Reconnect`). `alerted` is one
variable for all streams because it is `static` in `icomUdpCivData::watchdog`. The audio stream
is only a pointer.

### YappTransfer (with FileDelivery)

Two stations that both run `webServer`, each with one session. `handed` are the frames given to the
link and not encoded, `air` those encoded and not received. The code counts a frame of a file when
the audio of *some* frame has been encoded (`onPacketTxReady`), so `OtherBurst` is counted just the
same. `rrTimers` and `afTimers` are the 60 s single shots, by the file they were set for, although the
code does not look at it. A link that is lost takes the frames on their way with it, and leaves
the transfers as they are.

`FileDelivery` is the promise: a file reported as sent was delivered, a report is final, and only
offered files are delivered. Two kinds of file are in doubt there, and the module says no more of
them: those under way when the link was lost (`lost`), and those offered too soon (`hurried`),
while frames of the same station, or an AF to it, were still on their way. No frame but the
header names its file: an answer to a file that has timed out meanwhile is taken for the next one's.
`TooSoon` says when. (The late AF needs three files, more than the run has; it is the proof of
`DeliversFiles` that asks for it.)

### IcomServer

The three client lists, their pointers to each other and `config->queueInterval`. A client is known
by its list and its program. A pointer to a deleted client is `Freed`; a handler that uses one sets
`freed`, and the model stops there. `DeleteConnections` is `deleteConnection` for
all the clients a handler deletes; `Disconnect` and `Watchdog` call it. `astray` is a history of the programs
whose clients were made or deleted apart: by sharing an address, or because one of the connections went
silent alone. The packets' numbers and repetitions are the bookkeeping of `IcomUdpLink` again.

## 4. The runs

| Run | States | What it shows |
|---|---|---|
| `queue_order` | 126 000 | `PollsSurvive`: no mix of sends, re-adds and uniques loses a poll. `RefinesScheduler`: FIFO per class. `EachQueueIsProcessed`: with the primes 2 to 23 every class gets its turn, although the counter starts over at a turn of Lowest. `IntervalTakesEffect`: an interval set while the queue is stopped comes to count, at the latest with the next wake-up. |
| `queue_cache` | 1.1 million | `StopLetsOneOut`: after `interval(-1)` at most one command still leaves. `CacheIsAhead`: the cache is the newest value queued to be set or, with none queued, the last one exchanged with the radio. `SetsLeaveBySending`: a value to set is sent, cleared, replaced by a newer one, or taken out by the read of a stale one. |
| `queue_accepted` | violation | reading a stale value removes a value that waits to be set |
| `rig_power` | 80 900 | `ProbedWhileOff`, `PowerOnInstallsTable`, `NeverDeadlocks`, and `StrayReplyDoesNotFlip`: three valid replies precede a power-on that is guessed |
| `udp_link` | 392 000 | `GapsAreTracked`, `SenderKeepsTheNewest`, through loss, repetition, reordering and roll-overs |
| `udp_endless` | violation | a gap just below 65535 makes the receiver loop for ever |
| `packet_tx` | 3 400 | `OneUnkey`, `UnkeyAfterLastSlice`, `AudioMoves`, `BurstsEnd` |
| `packet_disconnect` | violation | a browser that leaves during a sound-card burst leaves the radio keyed |
| `icom_session` | 26 800 | `OpenStreamsExist` and `NoStrayStreams`: flag and streams agree. `TokenBelongsToLogin`. `StreamsComeBack` at the latest with the next renewal. `DataIsRequested`: a quiet stream asks for data, each time anew. |
| `yapp_files` | 640 000 | `DeliversFiles`: the abstract promise. `SentFilesArrive`: a file reported as sent has arrived whole. `CompleteFilesAreWhole`, `AllHandedOn`, `SenderEnds`, `ReceiverEnds`. |
| `yapp_relink` | violation | a transfer that outlives its link is reported as sent with a chunk missing |
| `icom_server` | 361 000 | `StopIsUndone`: the queue is stopped only while there is audio for a program. `PartnersExist`, `StreamsHaveControl`, `VanishedAreForgotten`. |

The queue, the power state, the link, the packets and the session can always go on (deadlock is
checked). Transfers end when the operators offer no more files, and the server's model stops when
the programs have fallen silent or a deleted client was used; those runs do not check deadlock.

The four violations are disagreements between the code and its own comments or documents, quoted in
`PROJECT.json` under `findings`. Each is the only property of its run; the other runs do
not assume it.

**Exceptions the properties name.** A property that holds but for one case says so in its comment and
in its formula. They are behaviours of the code worth knowing:

* `IntervalTakesEffect`: an `interval()` that falls between the thread's reading of the field and its
  sleep wakes nobody, and the thread may sleep on without a deadline; the next wake-up (a reply, a message,
  another call) ends that, which the property says too.
* `CacheIsAhead`: equality is what `compare()` makes of it (`Alike`), so it says nothing of a `short` or of
  a type that is not compared. And it does not hold (`astray`) after a reply that crossed a queued set,
  whose sending does not correct the cache, or after a set was withdrawn by a clear or the read of a
  stale value: until the next set, or the next reply without a set queued.
* `SetsLeaveBySending`: the read of a stale value takes out one that waits to be set (the finding of
  `queue_accepted`).
* `StrayReplyDoesNotFlip`: after an echo declared the radio off, the count of valid replies is the one
  of before, and one stray reply, even an FB, may declare it on.
* `AudioMoves`: a browser that turns its microphone on or off stops the device under a burst (`taken`); the
  slice timer then runs without writing anything, which is one of the ways of the finding `packet_disconnect`.
* `UnkeyAfterLastSlice`: a frame that arrives within the 50 ms (LAN) or 5 ms (sound card) between the
  last slice and the unkey is cut off by it.
* `NoStrayStreams`, `DataIsRequested`: a rejected renewal clears `streamOpened` and deletes nothing; the next
  streams are opened beside the old ones, and share the `static` flag of their watchdogs.
* `TokenBelongsToLogin`: an "I am ready" after the login was accepted logs in again with a new
  `tokRequest`, whose answer is ignored.
* `SenderEnds`: no timer watches the phase "active"; a sender whose link was lost then stays in it.
* `ReceiverEnds`: a receiver has no timer; an answer or header that crosses an abort or a time-out
  opens a reception nobody serves.
* `PartnersExist`, `StreamsHaveControl`: two programs at one address share the streams either
  opens, and a CI-V or audio client deleted as stale, alone, leaves a pointer to it in its control
  client.

Met while modelling, and in the models, though no property is about it: `PowerRigOn` on a radio that is
believed on clears the table and leaves only the heartbeat; the server gives back the interval when any of
its three lists becomes empty, though other programs stay, and overwrites one that
`servermain` has set meanwhile; a failed login leaves an earlier one valid; capabilities are
appended to the list of radios each time; a header received while sending turns the transfer into a
reception.

**Bounds, and why they are enough.**

* Queue: two commands, one polled twice in different classes (the poll table and a meter), so that
  two items of one class and one command in two classes both occur; up to three items, enough for
  a recurring one, a competitor and a third in between. `CounterMod` is 26: the counter starts
  over at a turn of Lowest (23), so only a few values above 23 are reached when Lowest is
  shadowed by Immediate, and rolling over earlier than at 65536 only adds cases. The runs are split because values do not affect
  the order (`queue_order` has none, and no reads: `getCache()` asks with a get in the Immediate line, which
  the order treats like any other) and one command is enough for its cache (`queue_cache` has
  one, two values that are interchangeable, hence the symmetry, one reply waiting, and two items, so that a
  set meets a poll, a get or another set). Its values are compared whole (`MCWhole`); the theorem about
  `CacheIsAhead` holds for every `Compared`. One poll interval: the code distinguishes only -1.
* Power: two commands in two classes, one of them the heartbeat's command; two timers (so that one
  fires after another press); three queued signals, so that the belief lags by several changes. The
  counters keep the code's thresholds (3 and 5).
* UDP: numbers modulo 8, `BUFSIZE` 3, `MAX_MISSING` 2, 2 requests per packet,
  2 packets in flight: `MAX_MISSING` below `BUFSIZE` and both well below the modulus, as in the code
  (500 and 50 of 65536), and the modulus is small so that the roll-over happens again and again.
* Packets: 3 slices per frame, 2 frames with the encoder of each origin, 12 slices of audio (four
  frames waiting).
* Session: two CI-V streams (so that a stray one can live beside another), three logins and rejections
  together, at most two radios in the list; the code distinguishes only "one" from "more".
* Transfers: `yapp_files` has two files of one chunk, in either or both directions, so that a
  late frame or timer of the first meets the second, and one foreign burst or loss of the
  link; what takes more files is left to the proofs, which hold for any number.
  `yapp_relink` has one file of two chunks, so that one may be lost and the next arrive.
* Server: two programs, at one address or at two, and one interval of `servermain`. Each list may
  hold both, one or none, which are the cases `deleteConnection` tells apart.

**Fairness.** The queue: its thread is scheduled (`WF Thread`), and its deadline is an absolute
time, so wake-ups do not put it off for ever (`SF TimeOut`). The link: the receiver's 100 ms timer
fires. Packets: Qt's timers fire, a sound card that is not written to runs empty, and the
encoder answers for a claimed frame; the channel need not become free for the link's frames.
The session: timers fire, "are you there" is repeated until it is answered, and the radio answers
each tracked request once at least (the link repeats those); of "are you ready", which nobody repeats,
this is an assumption, and a radio may refuse a stream request that names no radio. A renewal is
answered in the end if it is made again and again (`SF`). The transfers: frames handed on are encoded,
those on the air arrive while the link is up, and the 60 s single shots fire. The server: once all is silent
the watchdog deletes all clients; nothing else is assumed.
Nobody is obliged to post a command, press a button, send an unasked packet, answer an offer or close
a browser.
`EachQueueIsProcessed` and `BurstsEnd` state what else they assume (a running queue without
Immediate commands; no browser that interferes).

## 5. The proofs

Every theorem is about all behaviours of `Spec`, for all values of the constants that satisfy the
named assumptions of the module.

* `QueueItemsProofs` - lemmas about the multimap: what insert, remove, take and add return, that they keep
  its type, which items they keep, and what they do to the order of a class: `IsThinned` (items
  withdrawn, the others in order) and `IsRevised` (and at most one new item).
* `CachingQueueProofs`
  - `TypeCorrect`: the type invariant is inductive with the lemmas above.
  - `StopSafety` (`StopLetsOneOut`): not inductive as it stands. The invariant ties the number of
    commands sent since the stop to the thread's place and its deadline: a command can leave only
    if the deadline was armed, and after a tick of a stopped queue it is forever.
  - `CacheFollows` (`CacheIsAhead`): every operation on the multimap is followed by the newest set it leaves of
    a command (`NewestSet`): an insertion makes its own the newest, a removal of sets takes all of the
    command or none, sending takes the oldest. So the last set sent before none is left is the
    newest, which the cache already holds.
  - `SetsLeave` (`SetsLeaveBySending`): an action property. Nothing in the Immediate line is recurring
    (`ImmediateInv`), so the removals meant for polls and meters do not match a value there; a unique value
    that replaces others is one itself, which leaves the unique get, and only `getCache` makes one.
  - `PollsAreKept` (`PollsSurvive`): an action property, from the lemmas on the multimap.
  - `Refines` (`RefinesScheduler`): every step is a step of `CommandScheduler` or a stutter. A tick sends the
    head of its line (`TickSends`; here it is needed that no poll is ever Immediate, the invariant
    `ImmediateInv`, because `run` would not put it back); any other step revises each class, and a
    revised class, turned round, is an amended line (`ThinnedIsAmended`).
* `RigPowerProofs` - `TypeCorrect`, `AlwaysProbed`, `BackOnIsPolled`, `NoSelfDeadlock` and `StrayReplies`.
  `ProbedWhileOff` is not inductive: a reconnection may come while the belief is "off". The
  invariant is that an identified radio is polled for something, whatever the belief. `StrayReplies` needs
  that the count never exceeds the replies that came (`CountIsHonest`), unless an echo left it standing. The
  others rest on a lemma: adding a set of polls leaves each of them in its class.
* `IcomUdpLinkProofs` - `SenderKeeps`: the sender's buffer is an interval that ends just before
  `sendSeq` and starts at 0, at 1 or `BufSize` below its end. `GapsAreKnown`: the numbers the receiver has seen
  are an interval, nothing beyond it has arrived or is missing, and within it every number is accounted
  for. Both hold for every modulus, buffer and window with the one assumption that these two fit into
  the modulus. `TypeCorrect` comes from the second.
* `PacketTxProofs` - `TypeCorrect`, `OneSingleShot`, `AudioIsOnItsWay`, `UnkeyIsLast`. One invariant per path.
  LAN: if a single shot is due and slices are played again, the slices left and the ticks since
  then add up to a whole frame at least, so the buffer is not empty before the single shot fires. USB:
  a single shot is started by giving up `packetTxAwaitingIdle`, and no tick sets it again before
  that shot has fired; a card in use without ticks and without waiting for idle is about to unkey; a card
  in use has its device unless a browser stopped it (`DeviceInv`).
* `IcomUdpSessionProofs` - `TypeCorrect`, in four groups of fields; `PointersAreThere`, `NothingStrays`
  (together inductive: each handler that clears the flag clears the pointers, and only a closed
  session opens a stream) and `TokensMatch`.
* `YappTransferProofs` - `TypeCorrect`, `EveryFrameLeaves`: while a transfer is pumped, the frames counted
  and those left add up to the plan, whatever bursts are counted; so when the count is full none
  is left. `FilesAreWhole` (`CompleteFilesAreWhole`): the frames on their way, those on the air before those
  handed on, continue what the other side has received (`Continues`). There is a place (file, number of
  chunks) before and behind each frame, starting at the reception and ending at the sender,
  such that no chunk or EF is out of place. Every frame handed on prolongs this (`OwnWay`), every
  frame received consumes its first step (`FrameRead`), and a lost link excuses the files under way
  (`Down`). What has been received is then a prefix of the file, and an EF in its place makes it whole.
  `SentArrive` (`SentFilesArrive`) says what an AF proves. While a sender's file is not in doubt (`Trusted`), an
  AF on its way to it means that the file was announced, a header on its way is the file's own, and
  either that header comes before any EF or whatever the receiver reads is this file. All of it holds when a file is
  offered because it was not offered too soon, and each handler keeps it; with `FilesAreWhole`, what was
  announced is whole. `Delivers` (`DeliversFiles`) is the refinement: the same invariant says that a file that is
  reported is delivered or in doubt, and that no file is reported twice (`Reporting`: a transfer's file has no
  report yet) or delivered unoffered (`Named`). Each handler is then matched with one step of `FileDelivery` or
  with none.
* `IcomServerProofs` - `TypeCorrect`, `StopsEnd`, `PartnersAreThere`, `StreamsAreServed`. The invariant `Together`
  says of every program not astray that its clients point to each other and nobody else's point to
  them; a deletion then takes all of them or none.

Only model-checked: liveness (`EachQueueIsProcessed`, `IntervalTakesEffect`, `BurstsEnd`, `StreamsComeBack`,
`DataIsRequested`, `SenderEnds`, `ReceiverEnds`, `VanishedAreForgotten`), which is beyond the prover, and, of
course, the four violations. Every safety invariant and action property that a passing run checks has its
theorem.

## 6. What is not modelled

The memory scan and the requests to the AX.25 link are in the plan. Of the modelled components the
following is left out, which is why none is called complete:

* the queue: routing of commands to a VFO, the shutdown, and shared state of the radio it also keeps;
* the power state: webServer's own copy, and which connection the radio is on;
* the link: pings, idle packets, and the re-sending timers of untracked packets;
* the packets: manual PTT, FreeDV and RADE on the same device;
* the session: audio streams beyond their pointer, the formats of packets, passwords;
* transfers: several sessions at once (whose bursts are attributed to each other), batches (`ET`, `AT`), the
  parser of bytes into frames, and terminal text;
* the server: several radios, forwarding of CI-V and audio and who may transmit, the checks of a token, and
  the destructor. Its own copy of the link's bookkeeping has the same loop at 65535.

The protocols of the commanders are tables and formatting; audio conversion, codecs and device
drivers compute or do I/O; the web user interface presents what the server sends; vendored code
(Direwolf, codecs) is used as it is. `PROJECT.json` has the reason for each component.
