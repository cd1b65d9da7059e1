------------------------------ MODULE PacketTx ------------------------------
(***************************************************************************)
(* Packet transmission in webServer (src/webserver.cpp): who keys the      *)
(* radio, who plays the audio of the encoded frames and who unkeys it.     *)
(*                                                                         *)
(* Frames come from an operator or an APRS beacon, which claim the         *)
(* transmitter before the frame is encoded, and from the AX.25 link, which *)
(* does not.  DireWolfProcessor encodes on a thread of its own and signals *)
(* the result.  The audio is then played by a timer, in slices, over one   *)
(* of two paths: the network ("lan": 20 ms slices into a converter) or a   *)
(* sound card ("usb": 10 ms slices into QAudioOutput).  Each handler of    *)
(* webServer's event loop is one action; what interleaves are timers,      *)
(* signals and the browsers' requests.                                     *)
(*                                                                         *)
(* keyed stands for the last PTT command posted to the queue, which hands  *)
(* them on in order, and for the ALC poll that goes with it.  Manual PTT,  *)
(* FreeDV and RADE belong to other modes of the user interface; the pump   *)
(* of a file transfer, which onPacketTxReady() serves first, hands frames  *)
(* to the link like anyone else (TransmitFrameBytes).                      *)
(***************************************************************************)
EXTENDS Integers

CONSTANTS
    Burst,      \* slices of audio in an encoded frame: at least 40 ms of it
    MaxFrames,  \* bound of the model on frames with the encoder, of each origin
    MaxAudio    \* bound of the model on slices waiting

ASSUME PacketAssumption ==
    /\ Burst \in Nat /\ Burst >= 3
    /\ MaxFrames \in Nat /\ MaxAudio \in Nat /\ MaxAudio >= Burst

VARIABLES
    path,          \* where TX audio goes; set up when the radio is connected
    packetTxBusy,  \* the transmitter is claimed
    keyed,         \* the last PTT command
    claimed,       \* operator's and beacon frames with the encoder
    linked,        \* frames of the AX.25 link with the encoder
    audio,         \* slices in packetLanTxBuffer or packetUsbTxBuffer
    timer,         \* packetLanTxTimer or packetUsbTxDrainTimer is active
    unkeys,        \* single shots that will unkey the radio
    slack,         \* LAN: ticks of the timer since the single shot was started
    awaitingIdle,  \* packetTxAwaitingIdle
    usbActive,     \* packetUsbTxActive
    device,        \* usbAudioOutput: "stopped", "active" or "idle"
    preTx,         \* preTxBuffering: the microphone's audio waits for its start
    \* history, read by properties only
    disturbed,     \* a browser has interfered with the sound card
    taken          \* a browser has stopped the device under a burst

history == <<disturbed, taken>>
playing == <<audio, timer>>
usb == <<awaitingIdle, usbActive, device, preTx>>
vars == <<path, packetTxBusy, keyed, claimed, linked, playing, unkeys, slack, usb, history>>

Init ==
    /\ path \in {"lan", "usb", "none"}
    /\ packetTxBusy = FALSE /\ keyed = FALSE
    /\ claimed = 0 /\ linked = 0
    /\ audio = 0 /\ timer = FALSE
    /\ unkeys = 0 /\ slack = 0
    /\ awaitingIdle = FALSE /\ usbActive = FALSE
    /\ device = "stopped" /\ preTx = FALSE
    /\ disturbed = FALSE /\ taken = FALSE

Release == packetTxBusy' = FALSE /\ keyed' = FALSE

-----------------------------------------------------------------------------
(* Frames *)

(* "packetTx" and onAprsBeaconRequested(): claim the transmitter, key, encode *)
PacketTxCommand ==
    /\ path # "none" /\ ~packetTxBusy /\ claimed < MaxFrames
    /\ packetTxBusy' = TRUE /\ keyed' = TRUE
    /\ claimed' = claimed + 1
    /\ UNCHANGED <<path, history, linked, playing, unkeys, slack, usb>>

(* AX25LinkProcessor hands a frame to the encoder, which waits for a free channel *)
TransmitFrameBytes ==
    /\ linked < MaxFrames
    /\ linked' = linked + 1
    /\ UNCHANGED <<path, history, packetTxBusy, keyed, claimed, playing, unkeys, slack, usb>>

(* A frame leaves the encoder, whichever it was *)
Encoded ==
    \/ claimed > 0 /\ claimed' = claimed - 1 /\ UNCHANGED linked
    \/ linked > 0 /\ linked' = linked - 1 /\ UNCHANGED claimed

(* A later acknowledgement takes the place of one that waits for the channel *)
Superseded ==
    /\ linked > 1
    /\ linked' = linked - 1
    /\ UNCHANGED <<path, history, packetTxBusy, keyed, claimed, playing, unkeys, slack, usb>>

(* onPacketTxReady() over the network: key unless claimed, append, start the
   timer unless it runs *)
LanReady ==
    /\ packetTxBusy' = TRUE /\ keyed' = (keyed \/ ~packetTxBusy)
    /\ audio' = audio + Burst
    /\ timer' = (timer \/ audio = 0)
    /\ UNCHANGED <<unkeys, slack, usb, taken>>

(* Mutant of UsbReady: a frame that comes while the device plays out its tail is
   appended, and the wait for the end of the tail goes on *)
UsbReadyKeepsWaiting ==
    /\ packetTxBusy' = TRUE /\ keyed' = (keyed \/ ~packetTxBusy)
    /\ audio' = audio + Burst
    /\ timer' = TRUE /\ usbActive' = TRUE
    /\ IF usbActive THEN UNCHANGED <<device, preTx, taken>>
       ELSE device' = "active" /\ preTx' = FALSE /\ taken' = FALSE
    /\ UNCHANGED <<unkeys, slack, awaitingIdle>>

(* Mutant of UsbReady: the slices start whether or not the device does *)
UsbReadyUnchecked ==
    /\ packetTxBusy' = TRUE /\ keyed' = (keyed \/ ~packetTxBusy)
    /\ audio' = audio + Burst
    /\ timer' = (timer \/ awaitingIdle \/ ~usbActive)
    /\ awaitingIdle' = FALSE /\ usbActive' = TRUE
    /\ IF usbActive THEN UNCHANGED <<device, preTx, taken>>
       ELSE device' \in {"active", "stopped"} /\ preTx' = FALSE /\ taken' = FALSE
    /\ UNCHANGED <<unkeys, slack>>

(* Over the sound card.  The first frame (re)starts the device, which may fail; a
   frame that comes while the device plays out its tail resumes the slices. *)
UsbReady ==
    \/ /\ packetTxBusy' = TRUE /\ keyed' = (keyed \/ ~packetTxBusy)
       /\ audio' = audio + Burst
       /\ timer' = (timer \/ awaitingIdle \/ ~usbActive)
       /\ awaitingIdle' = FALSE /\ usbActive' = TRUE
       /\ IF usbActive THEN UNCHANGED <<device, preTx, taken>>
          ELSE device' = "active" /\ preTx' = FALSE /\ taken' = FALSE
       /\ UNCHANGED <<unkeys, slack>>
    \/ /\ ~usbActive
       /\ Release
       /\ audio' = 0
       /\ timer' = (timer \/ awaitingIdle)
       /\ awaitingIdle' = FALSE
       /\ device' = "stopped"
       /\ UNCHANGED <<unkeys, slack, usbActive, preTx, taken>>

(* With neither, the frame is refused *)
NoneReady == Release /\ UNCHANGED <<playing, unkeys, slack, usb, taken>>

OnPacketTxReady ==
    /\ Encoded /\ audio + Burst <= MaxAudio
    /\ \/ path = "lan" /\ LanReady
       \/ path = "usb" /\ UsbReady
       \/ path = "none" /\ NoneReady
    /\ UNCHANGED <<path, disturbed>>

(* Mutant of OnPacketTxFailed: the slot is freed but the radio stays keyed *)
OnPacketTxFailedKeyed ==
    /\ Encoded
    /\ packetTxBusy' = FALSE
    /\ awaitingIdle' = FALSE /\ usbActive' = FALSE
    /\ IF path = "usb" THEN audio' = 0 /\ timer' = FALSE ELSE UNCHANGED playing
    /\ UNCHANGED <<path, history, keyed, unkeys, slack, device, preTx>>

(* onPacketTxFailed(): whichever frame could not be encoded, the transmitter is
   released and the sound card's audio dropped; the network's audio stays *)
OnPacketTxFailed ==
    /\ Encoded
    /\ Release
    /\ awaitingIdle' = FALSE /\ usbActive' = FALSE
    /\ IF path = "usb" THEN audio' = 0 /\ timer' = FALSE ELSE UNCHANGED playing
    /\ UNCHANGED <<path, history, unkeys, slack, device, preTx>>

-----------------------------------------------------------------------------
(* The network path *)

(* Mutant of DrainPacketLanTxBuffer: an empty buffer is not noticed *)
DrainPacketLanTxBufferBlind ==
    /\ path = "lan" /\ timer
    /\ unkeys > 0 => slack < 2
    /\ audio' = audio - 1
    /\ slack' = IF unkeys > 0 THEN slack + 1 ELSE 0
    /\ UNCHANGED <<path, history, packetTxBusy, keyed, claimed, linked, timer, unkeys, usb>>

(* drainPacketLanTxBuffer().  Two ticks of 20 ms fit into the 50 ms of the single
   shot. *)
DrainPacketLanTxBuffer ==
    /\ path = "lan" /\ timer
    /\ unkeys > 0 => slack < 2
    /\ IF audio > 0
       THEN /\ audio' = audio - 1
            /\ slack' = IF unkeys > 0 THEN slack + 1 ELSE 0
            /\ UNCHANGED <<timer, unkeys>>
       ELSE /\ timer' = FALSE
            /\ unkeys' = unkeys + 1 /\ slack' = 0
            /\ UNCHANGED audio
    /\ UNCHANGED <<path, history, packetTxBusy, keyed, claimed, linked, usb>>

(* Its single shot *)
UnkeyLan ==
    /\ path = "lan" /\ unkeys > 0
    /\ unkeys' = unkeys - 1 /\ slack' = 0
    /\ Release
    /\ UNCHANGED <<path, history, claimed, linked, playing, usb>>

-----------------------------------------------------------------------------
(* The sound card path *)

(* drainPacketUsbTxBuffer(); without a device the tick does nothing.  A single shot
   of 5 ms always precedes the first tick of a timer of 10 ms started after it.
   The device has just been written to, so it is not idle yet. *)
DrainPacketUsbTxBuffer ==
    /\ path = "usb" /\ timer /\ device # "stopped" /\ unkeys = 0
    /\ audio' = IF audio > 0 THEN audio - 1 ELSE 0
    /\ device' = IF audio > 0 THEN "active" ELSE device
    /\ timer' = (audio' > 0)
    /\ awaitingIdle' = (awaitingIdle \/ audio' = 0)
    /\ UNCHANGED <<path, history, packetTxBusy, keyed, claimed, linked, unkeys, slack,
                   usbActive, preTx>>

(* Mutant of OnUsbAudioOutputIdle: "Latch immediately" is left out *)
OnUsbAudioOutputIdleAgain ==
    /\ device = "active" \/ (device = "idle" /\ awaitingIdle)
    /\ device' = "idle"
    /\ unkeys' = IF awaitingIdle THEN unkeys + 1 ELSE unkeys
    /\ UNCHANGED <<path, history, packetTxBusy, keyed, claimed, linked, playing, slack,
                   awaitingIdle, usbActive, preTx>>

(* The device has played everything: onUsbAudioOutputStateChanged(IdleState).  If
   it was idle before the last tick, that tick posts the call. *)
OnUsbAudioOutputIdle ==
    /\ device = "active" \/ (device = "idle" /\ awaitingIdle)
    /\ device' = "idle"
    /\ awaitingIdle' = FALSE
    /\ unkeys' = IF awaitingIdle THEN unkeys + 1 ELSE unkeys
    /\ UNCHANGED <<path, history, packetTxBusy, keyed, claimed, linked, playing, slack,
                   usbActive, preTx>>

(* Its single shot *)
UnkeyUsb ==
    /\ path = "usb" /\ unkeys > 0
    /\ unkeys' = unkeys - 1
    /\ Release
    /\ device' = "stopped" /\ usbActive' = FALSE
    /\ UNCHANGED <<path, history, claimed, linked, playing, slack, awaitingIdle, preTx>>

-----------------------------------------------------------------------------
(* The browsers *)

(* onWsDisconnected() of any client: the sound card's transmission is dropped *)
OnWsDisconnected ==
    /\ disturbed' = (disturbed \/ path = "usb") /\ UNCHANGED taken
    /\ awaitingIdle' = FALSE /\ usbActive' = FALSE
    /\ IF path = "usb" THEN audio' = 0 /\ timer' = FALSE ELSE UNCHANGED playing
    /\ UNCHANGED <<path, packetTxBusy, keyed, claimed, linked, unkeys, slack, device, preTx>>

(* "enableMic": the device is stopped; when turned on, it starts again with the
   microphone's first audio *)
EnableMic ==
    /\ path = "usb" /\ disturbed' = TRUE /\ taken' = (taken \/ usbActive)
    /\ device' = "stopped"
    /\ preTx' \in BOOLEAN
    /\ UNCHANGED <<path, packetTxBusy, keyed, claimed, linked, playing, unkeys, slack,
                   awaitingIdle, usbActive>>

(* onWsBinaryMessage(): audio of the microphone *)
MicAudio ==
    /\ path = "usb" /\ disturbed' = TRUE
    /\ preTx \/ device # "stopped"
    /\ preTx' = FALSE
    /\ device' \in {"active"} \cup (IF preTx THEN {"stopped"} ELSE {})
    /\ taken' = (taken /\ device' = "stopped")
    /\ UNCHANGED <<path, packetTxBusy, keyed, claimed, linked, playing, unkeys, slack,
                   awaitingIdle, usbActive>>

Frames == PacketTxCommand \/ TransmitFrameBytes
Encoder == OnPacketTxReady \/ OnPacketTxFailed
Lan == DrainPacketLanTxBuffer \/ UnkeyLan
Usb == DrainPacketUsbTxBuffer \/ OnUsbAudioOutputIdle \/ UnkeyUsb
Browsers == OnWsDisconnected \/ EnableMic \/ MicAudio
Next == Frames \/ Superseded \/ Encoder \/ Lan \/ Usb \/ Browsers

Spec == Init /\ [][Next]_vars

(* The encoder answers for a claimed frame; timers fire; a device that is not
   written to runs empty.  The channel need not become free for the link, and
   nobody has to press or close anything. *)
FairSpec ==
    /\ Spec /\ WF_vars(Lan) /\ WF_vars(UnkeyUsb) /\ WF_vars(OnUsbAudioOutputIdle)
    /\ WF_vars(DrainPacketUsbTxBuffer)
    /\ WF_vars(claimed > 0 /\ Encoder /\ linked' = linked)

-----------------------------------------------------------------------------
(* Properties *)

(* Every field has its type. *)
TypeOK ==
    /\ path \in {"lan", "usb", "none"} /\ packetTxBusy \in BOOLEAN /\ keyed \in BOOLEAN
    /\ claimed \in 0 .. MaxFrames /\ linked \in 0 .. MaxFrames
    /\ audio \in 0 .. MaxAudio /\ timer \in BOOLEAN
    /\ unkeys \in Nat /\ slack \in 0 .. 2
    /\ awaitingIdle \in BOOLEAN /\ usbActive \in BOOLEAN
    /\ device \in {"stopped", "active", "idle"} /\ preTx \in BOOLEAN
    /\ disturbed \in BOOLEAN /\ taken \in BOOLEAN

(* "Latch immediately so a follow-up Idle ... can't queue a duplicate": however
   frames, idle events, browsers and ticks fall, one transmission ends with one
   single shot; a second one would cut the next transmission off. *)
OneUnkey == unkeys <= 1

(* The slice timer runs, and its ticks have something to write to: without a device
   drainPacketUsbTxBuffer() returns at once. *)
SlicesGo == timer /\ (path = "usb" => device # "stopped")

(* Audio that waits while the radio is keyed is on its way out: slices of it are
   being written, the unkey is due, or the frame the transmitter is claimed for will
   open the device and start the slices again.  The one exception, SlotIsCleared's
   counterexample: a browser has stopped the device under the burst. *)
AudioMoves ==
    keyed /\ audio > 0
        => SlicesGo \/ unkeys > 0 \/ (claimed > 0 /\ ~usbActive) \/ taken

(* The radio does not stay keyed: once no new frames come, and if no browser
   interfered with the sound card, it is unkeyed in the end. *)
BurstsEnd ==
    <>[][~Frames]_vars /\ []~disturbed => <>[]~keyed

(* "New frame arrived during the post-empty wait - cancel pending unkey and resume
   pacing so the radio stays keyed across the gap": whichever of the frame, the
   ticks and the idle events comes first, the single shot that unkeys is started
   only when there is nothing left to play.  (A frame that arrives once it has
   been started is cut off by it: nothing cancels the single shot.) *)
UnkeyAfterLastSlice == [][unkeys' > unkeys => audio = 0 /\ audio' = 0]_vars

(* packetTxBusy is "cleared by the drain timer on completion, or by
   onPacketTxFailed on error": once nothing new comes and the browsers are quiet,
   the transmitter is free. *)
SlotIsCleared == <>[][~Frames /\ ~Browsers]_vars => <>[]~packetTxBusy
=============================================================================
