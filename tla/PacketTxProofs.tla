--------------------------- MODULE PacketTxProofs ---------------------------
(***************************************************************************)
(* Proofs about PacketTx, for every length of a frame and every bound.     *)
(*                                                                         *)
(* The single shots that unkey and the audio that waits are told apart by  *)
(* path.  On the network (LanInv) a single shot that is due while slices   *)
(* are played means that a new frame came in after it was started, and     *)
(* that frame is longer than the single shot takes: the buffer cannot run  *)
(* empty a second time before it.  On the sound card (UsbInv) a single     *)
(* shot is started by giving up packetTxAwaitingIdle, which is not set     *)
(* again before it has fired.  A burst that plays on the sound card has its *)
(* device unless a browser took it away (DeviceInv).                       *)
(***************************************************************************)
EXTENDS PacketTx, TLAPS

(* The network: waiting audio is played; a frame that came in after the single
   shot was started outlives it. *)
LanInv ==
    path = "lan" =>
        /\ audio > 0 => timer
        /\ unkeys > 0 /\ timer => audio + slack >= Burst

(* The sound card: what plays, waits for the device or is about to unkey. *)
UsbInv ==
    path = "usb" =>
        /\ unkeys > 0 => ~awaitingIdle
        /\ awaitingIdle => audio = 0 /\ ~timer
        /\ usbActive /\ ~timer /\ ~awaitingIdle => unkeys > 0

(* The sound card is not used by the other paths, and without a path there is
   nothing to play. *)
PathInv ==
    /\ path # "usb" => device = "stopped" /\ ~awaitingIdle /\ ~usbActive
    /\ path = "none" => audio = 0 /\ unkeys = 0

(* A burst on the sound card keeps its device unless a browser stops it; audio left
   behind by an earlier burst is keyed only for a frame that will resume it. *)
DeviceInv ==
    path = "usb" =>
        /\ preTx => device = "stopped"
        /\ usbActive /\ device = "stopped" => taken
        /\ keyed /\ audio > 0 /\ ~usbActive => claimed > 0

(* The two halves of TypeOK: truth values, and the rest *)
Flags ==
    /\ packetTxBusy \in BOOLEAN /\ keyed \in BOOLEAN /\ timer \in BOOLEAN
    /\ awaitingIdle \in BOOLEAN /\ usbActive \in BOOLEAN /\ preTx \in BOOLEAN
    /\ disturbed \in BOOLEAN /\ taken \in BOOLEAN
Counts ==
    /\ path \in {"lan", "usb", "none"} /\ device \in {"stopped", "active", "idle"}
    /\ claimed \in 0 .. MaxFrames /\ linked \in 0 .. MaxFrames
    /\ audio \in 0 .. MaxAudio /\ unkeys \in Nat /\ slack \in 0 .. 2

PathsInv == LanInv /\ UsbInv /\ PathInv /\ DeviceInv /\ OneUnkey

-----------------------------------------------------------------------------
(* A step keeps truth values truth values. *)
LEMMA FlagsStep == Flags /\ [Next]_vars => Flags'
<1> SUFFICES ASSUME Flags, [Next]_vars PROVE Flags'
  OBVIOUS
<1>1. CASE PacketTxCommand
  BY <1>1, Zenon DEF PacketTxCommand, Flags, playing, usb, history
<1>2. CASE TransmitFrameBytes
  BY <1>2, Zenon DEF TransmitFrameBytes, Flags, playing, usb, history
<1>3. CASE Superseded
  BY <1>3, Zenon DEF Superseded, Flags, playing, usb, history
<1>4. CASE OnPacketTxReady
  BY <1>4, Zenon DEF OnPacketTxReady, Encoded, LanReady, UsbReady, NoneReady, Release, Flags, playing, usb, history
<1>5. CASE OnPacketTxFailed
  BY <1>5, Zenon DEF OnPacketTxFailed, Encoded, Release, Flags, playing, usb, history
<1>6. CASE DrainPacketLanTxBuffer
  BY <1>6, Zenon DEF DrainPacketLanTxBuffer, Flags, playing, usb, history
<1>7. CASE UnkeyLan
  BY <1>7, Zenon DEF UnkeyLan, Release, Flags, playing, usb, history
<1>8. CASE DrainPacketUsbTxBuffer
  <2>1. timer' \in BOOLEAN
    BY <1>8 DEF DrainPacketUsbTxBuffer
  <2>2. awaitingIdle' \in BOOLEAN
    BY <1>8 DEF DrainPacketUsbTxBuffer
  <2>3. UNCHANGED <<packetTxBusy, keyed, usbActive, preTx, disturbed, taken>>
    BY <1>8, Zenon DEF DrainPacketUsbTxBuffer, history
  <2> QED
    BY <2>1, <2>2, <2>3, Zenon DEF Flags
<1>9. CASE OnUsbAudioOutputIdle
  BY <1>9, Zenon DEF OnUsbAudioOutputIdle, Flags, playing, usb, history
<1>10. CASE UnkeyUsb
  BY <1>10, Zenon DEF UnkeyUsb, Release, Flags, playing, usb, history
<1>11. CASE OnWsDisconnected
  BY <1>11, Zenon DEF OnWsDisconnected, Flags, playing, usb, history
<1>12. CASE EnableMic
  BY <1>12, Zenon DEF EnableMic, Flags, playing, usb, history
<1>13. CASE MicAudio
  BY <1>13, Zenon DEF MicAudio, Flags, playing, usb, history
<1>14. CASE UNCHANGED vars
  BY <1>14, Zenon DEF vars, Flags, playing, usb, history
<1> QED
  BY <1>1, <1>2, <1>3, <1>4, <1>5, <1>6, <1>7, <1>8, <1>9, <1>10, <1>11, <1>12, <1>13, <1>14
  DEF Next, Frames, Encoder, Lan, Usb, Browsers

(* A step keeps the counts within their bounds. *)
LEMMA CountsStep == Counts /\ [Next]_vars => Counts'
<1> SUFFICES ASSUME Counts, [Next]_vars PROVE Counts'
  OBVIOUS
<1>1. CASE PacketTxCommand
  BY <1>1, PacketAssumption DEF PacketTxCommand, Counts, playing, usb
<1>2. CASE TransmitFrameBytes
  BY <1>2, PacketAssumption DEF TransmitFrameBytes, Counts, playing, usb
<1>3. CASE Superseded
  BY <1>3, PacketAssumption DEF Superseded, Counts, playing, usb
<1>4. CASE OnPacketTxReady
  BY <1>4, PacketAssumption DEF OnPacketTxReady, Encoded, LanReady, UsbReady, NoneReady, Release, Counts, playing, usb
<1>5. CASE OnPacketTxFailed
  BY <1>5, PacketAssumption DEF OnPacketTxFailed, Encoded, Release, Counts, playing, usb
<1>6. CASE DrainPacketLanTxBuffer
  <2>1. CASE audio > 0
    BY <1>6, <2>1, PacketAssumption DEF DrainPacketLanTxBuffer, Counts, usb
  <2>2. CASE ~(audio > 0)
    BY <1>6, <2>2, PacketAssumption DEF DrainPacketLanTxBuffer, Counts, usb
  <2> QED
    BY <2>1, <2>2
<1>7. CASE UnkeyLan
  BY <1>7, PacketAssumption DEF UnkeyLan, Release, Counts, playing, usb
<1>8. CASE DrainPacketUsbTxBuffer
  BY <1>8, PacketAssumption DEF DrainPacketUsbTxBuffer, Counts, playing, usb
<1>9. CASE OnUsbAudioOutputIdle
  BY <1>9, PacketAssumption DEF OnUsbAudioOutputIdle, Counts, playing, usb
<1>10. CASE UnkeyUsb
  BY <1>10, PacketAssumption DEF UnkeyUsb, Release, Counts, playing, usb
<1>11. CASE OnWsDisconnected
  BY <1>11, PacketAssumption DEF OnWsDisconnected, Counts, playing, usb
<1>12. CASE EnableMic
  BY <1>12, PacketAssumption DEF EnableMic, Counts, playing, usb
<1>13. CASE MicAudio
  BY <1>13, PacketAssumption DEF MicAudio, Counts, playing, usb
<1>14. CASE UNCHANGED vars
  BY <1>14 DEF vars, Counts, playing, usb
<1> QED
  BY <1>1, <1>2, <1>3, <1>4, <1>5, <1>6, <1>7, <1>8, <1>9, <1>10, <1>11, <1>12, <1>13, <1>14
  DEF Next, Frames, Encoder, Lan, Usb, Browsers

(* The initial state. *)
LEMMA InitTypes == Init => Flags /\ Counts
<1>1. Init => Flags
  BY Zenon DEF Init, Flags
<1>2. Init => Counts
  BY PacketAssumption DEF Init, Counts
<1> QED
  BY <1>1, <1>2

(* Every field keeps its type: no slice, frame or single shot is counted below
   zero or above its bound, whatever the timers, the encoder and the browsers do. *)
THEOREM TypeCorrect == Spec => []TypeOK
<1>1. Init => Flags /\ Counts
  BY InitTypes
<1>2. TypeOK <=> Flags /\ Counts
  BY DEF TypeOK, Flags, Counts
<1>3. Flags /\ Counts /\ [Next]_vars => (Flags /\ Counts)'
  BY FlagsStep, CountsStep
<1> QED
  BY <1>1, <1>2, <1>3, PTL DEF Spec
-----------------------------------------------------------------------------
(* A step on any path keeps what the network path relies on. *)
LEMMA LanStep == Flags /\ Counts /\ PathsInv /\ [Next]_vars => LanInv'
<1> SUFFICES ASSUME Flags /\ Counts /\ PathsInv, [Next]_vars PROVE LanInv'
  OBVIOUS
<1> USE PacketAssumption DEF Flags, Counts, PathsInv, LanInv, PathInv, OneUnkey
<1>1. CASE PacketTxCommand
  BY <1>1 DEF PacketTxCommand, playing, usb
<1>2. CASE TransmitFrameBytes
  BY <1>2 DEF TransmitFrameBytes, playing, usb
<1>3. CASE Superseded
  BY <1>3 DEF Superseded, playing, usb
<1>4. CASE OnPacketTxReady
  <2>1. path' = path
    BY <1>4 DEF OnPacketTxReady
  <2>2. CASE path = "lan"
    <3>1. LanReady
      BY <1>4, <2>2 DEF OnPacketTxReady
    <3>2. timer' = (timer \/ audio = 0)
      BY <3>1 DEF LanReady
    <3>3. timer \/ audio = 0
      BY <2>2
    <3>4. timer'
      BY <3>2, <3>3, Zenon
    <3>5. audio' = audio + Burst /\ slack' = slack /\ unkeys' = unkeys
      BY <3>1 DEF LanReady
    <3> QED
      BY <3>4, <3>5
  <2> QED
    BY <2>1, <2>2
<1>5. CASE OnPacketTxFailed
  BY <1>5 DEF OnPacketTxFailed, Encoded, Release, playing, usb
<1>6. CASE DrainPacketLanTxBuffer
  <2>1. CASE audio > 0 /\ unkeys > 0
    BY <1>6, <2>1 DEF DrainPacketLanTxBuffer, usb
  <2>2. CASE audio > 0 /\ ~(unkeys > 0)
    BY <1>6, <2>2 DEF DrainPacketLanTxBuffer, usb
  <2>3. CASE ~(audio > 0)
    BY <1>6, <2>3 DEF DrainPacketLanTxBuffer, usb
  <2> QED
    BY <2>1, <2>2, <2>3
<1>7. CASE UnkeyLan
  BY <1>7 DEF UnkeyLan, Release, playing, usb
<1>8. CASE DrainPacketUsbTxBuffer
  BY <1>8 DEF DrainPacketUsbTxBuffer, playing, usb
<1>9. CASE OnUsbAudioOutputIdle
  BY <1>9 DEF OnUsbAudioOutputIdle, playing, usb
<1>10. CASE UnkeyUsb
  BY <1>10 DEF UnkeyUsb, Release, playing, usb
<1>11. CASE OnWsDisconnected
  BY <1>11 DEF OnWsDisconnected, playing, usb
<1>12. CASE EnableMic
  BY <1>12 DEF EnableMic, playing, usb
<1>13. CASE MicAudio
  BY <1>13 DEF MicAudio, playing, usb
<1>14. CASE UNCHANGED vars
  BY <1>14 DEF vars, playing, usb
<1> QED
  BY <1>1, <1>2, <1>3, <1>4, <1>5, <1>6, <1>7, <1>8, <1>9, <1>10, <1>11, <1>12, <1>13, <1>14
  DEF Next, Frames, Encoder, Lan, Usb, Browsers

(* A step keeps what the sound card relies on. *)
LEMMA UsbStep == Flags /\ Counts /\ PathsInv /\ [Next]_vars => UsbInv'
<1> SUFFICES ASSUME Flags /\ Counts /\ PathsInv, [Next]_vars PROVE UsbInv'
  OBVIOUS
<1> USE PacketAssumption DEF Flags, Counts, PathsInv, UsbInv, PathInv
<1>1. CASE PacketTxCommand
  BY <1>1 DEF PacketTxCommand, playing, usb
<1>2. CASE TransmitFrameBytes
  BY <1>2 DEF TransmitFrameBytes, playing, usb
<1>3. CASE Superseded
  BY <1>3 DEF Superseded, playing, usb
<1>4. CASE OnPacketTxReady
  BY <1>4 DEF OnPacketTxReady, Encoded, LanReady, UsbReady, NoneReady, Release, playing, usb
<1>5. CASE OnPacketTxFailed
  BY <1>5 DEF OnPacketTxFailed, Encoded, Release, playing, usb
<1>6. CASE DrainPacketLanTxBuffer
  BY <1>6 DEF DrainPacketLanTxBuffer, playing, usb
<1>7. CASE UnkeyLan
  BY <1>7 DEF UnkeyLan, Release, playing, usb
<1>8. CASE DrainPacketUsbTxBuffer
  BY <1>8 DEF DrainPacketUsbTxBuffer, playing, usb
<1>9. CASE OnUsbAudioOutputIdle
  BY <1>9 DEF OnUsbAudioOutputIdle, playing, usb
<1>10. CASE UnkeyUsb
  BY <1>10 DEF UnkeyUsb, Release, playing, usb
<1>11. CASE OnWsDisconnected
  BY <1>11 DEF OnWsDisconnected, playing, usb
<1>12. CASE EnableMic
  BY <1>12 DEF EnableMic, playing, usb
<1>13. CASE MicAudio
  BY <1>13 DEF MicAudio, playing, usb
<1>14. CASE UNCHANGED vars
  BY <1>14 DEF vars, playing, usb
<1> QED
  BY <1>1, <1>2, <1>3, <1>4, <1>5, <1>6, <1>7, <1>8, <1>9, <1>10, <1>11, <1>12, <1>13, <1>14
  DEF Next, Frames, Encoder, Lan, Usb, Browsers

(* A step leaves the other paths' state alone. *)
LEMMA PathStep == Flags /\ Counts /\ PathsInv /\ [Next]_vars => PathInv'
<1> SUFFICES ASSUME Flags /\ Counts /\ PathsInv, [Next]_vars PROVE PathInv'
  OBVIOUS
<1> USE PacketAssumption DEF Flags, Counts, PathsInv, PathInv
<1>1. CASE PacketTxCommand
  BY <1>1 DEF PacketTxCommand, playing, usb
<1>2. CASE TransmitFrameBytes
  BY <1>2 DEF TransmitFrameBytes, playing, usb
<1>3. CASE Superseded
  BY <1>3 DEF Superseded, playing, usb
<1>4. CASE OnPacketTxReady
  BY <1>4 DEF OnPacketTxReady, Encoded, LanReady, UsbReady, NoneReady, Release, playing, usb
<1>5. CASE OnPacketTxFailed
  BY <1>5 DEF OnPacketTxFailed, Encoded, Release, playing, usb
<1>6. CASE DrainPacketLanTxBuffer
  BY <1>6 DEF DrainPacketLanTxBuffer, playing, usb
<1>7. CASE UnkeyLan
  BY <1>7 DEF UnkeyLan, Release, playing, usb
<1>8. CASE DrainPacketUsbTxBuffer
  BY <1>8 DEF DrainPacketUsbTxBuffer, playing, usb
<1>9. CASE OnUsbAudioOutputIdle
  BY <1>9 DEF OnUsbAudioOutputIdle, playing, usb
<1>10. CASE UnkeyUsb
  BY <1>10 DEF UnkeyUsb, Release, playing, usb
<1>11. CASE OnWsDisconnected
  BY <1>11 DEF OnWsDisconnected, playing, usb
<1>12. CASE EnableMic
  BY <1>12 DEF EnableMic, playing, usb
<1>13. CASE MicAudio
  BY <1>13 DEF MicAudio, playing, usb
<1>14. CASE UNCHANGED vars
  BY <1>14 DEF vars, playing, usb
<1> QED
  BY <1>1, <1>2, <1>3, <1>4, <1>5, <1>6, <1>7, <1>8, <1>9, <1>10, <1>11, <1>12, <1>13, <1>14
  DEF Next, Frames, Encoder, Lan, Usb, Browsers

(* A single shot is started only when none is due. *)
LEMMA UnkeyStep == Flags /\ Counts /\ PathsInv /\ [Next]_vars => OneUnkey'
<1> SUFFICES ASSUME Flags /\ Counts /\ PathsInv, [Next]_vars PROVE OneUnkey'
  OBVIOUS
<1> USE PacketAssumption DEF Flags, Counts, PathsInv, LanInv, UsbInv, PathInv, OneUnkey
<1>1. CASE PacketTxCommand
  BY <1>1 DEF PacketTxCommand, playing, usb
<1>2. CASE TransmitFrameBytes
  BY <1>2 DEF TransmitFrameBytes, playing, usb
<1>3. CASE Superseded
  BY <1>3 DEF Superseded, playing, usb
<1>4. CASE OnPacketTxReady
  BY <1>4 DEF OnPacketTxReady, Encoded, LanReady, UsbReady, NoneReady, Release, playing, usb
<1>5. CASE OnPacketTxFailed
  BY <1>5 DEF OnPacketTxFailed, Encoded, Release, playing, usb
<1>6. CASE DrainPacketLanTxBuffer
  <2>1. CASE audio > 0 /\ unkeys > 0
    BY <1>6, <2>1 DEF DrainPacketLanTxBuffer, usb
  <2>2. CASE audio > 0 /\ ~(unkeys > 0)
    BY <1>6, <2>2 DEF DrainPacketLanTxBuffer, usb
  <2>3. CASE ~(audio > 0)
    BY <1>6, <2>3 DEF DrainPacketLanTxBuffer, usb
  <2> QED
    BY <2>1, <2>2, <2>3
<1>7. CASE UnkeyLan
  BY <1>7 DEF UnkeyLan, Release, playing, usb
<1>8. CASE DrainPacketUsbTxBuffer
  BY <1>8 DEF DrainPacketUsbTxBuffer, playing, usb
<1>9. CASE OnUsbAudioOutputIdle
  BY <1>9 DEF OnUsbAudioOutputIdle, playing, usb
<1>10. CASE UnkeyUsb
  BY <1>10 DEF UnkeyUsb, Release, playing, usb
<1>11. CASE OnWsDisconnected
  BY <1>11 DEF OnWsDisconnected, playing, usb
<1>12. CASE EnableMic
  BY <1>12 DEF EnableMic, playing, usb
<1>13. CASE MicAudio
  BY <1>13 DEF MicAudio, playing, usb
<1>14. CASE UNCHANGED vars
  BY <1>14 DEF vars, playing, usb
<1> QED
  BY <1>1, <1>2, <1>3, <1>4, <1>5, <1>6, <1>7, <1>8, <1>9, <1>10, <1>11, <1>12, <1>13, <1>14
  DEF Next, Frames, Encoder, Lan, Usb, Browsers

(* A step keeps the device under the burst, or a browser has stopped it. *)
LEMMA DeviceStep == Flags /\ Counts /\ PathsInv /\ [Next]_vars => DeviceInv'
<1> SUFFICES ASSUME Flags /\ Counts /\ PathsInv, [Next]_vars PROVE DeviceInv'
  OBVIOUS
<1> USE PacketAssumption DEF Flags, Counts, PathsInv, UsbInv, PathInv, DeviceInv
<1>1. CASE PacketTxCommand
  BY <1>1 DEF PacketTxCommand, playing, usb, history
<1>2. CASE TransmitFrameBytes
  BY <1>2 DEF TransmitFrameBytes, playing, usb, history
<1>3. CASE Superseded
  BY <1>3 DEF Superseded, playing, usb, history
<1>4. CASE OnPacketTxReady
  BY <1>4 DEF OnPacketTxReady, Encoded, LanReady, UsbReady, NoneReady, Release, playing, usb, history
<1>5. CASE OnPacketTxFailed
  BY <1>5 DEF OnPacketTxFailed, Encoded, Release, playing, usb, history
<1>6. CASE DrainPacketLanTxBuffer
  BY <1>6 DEF DrainPacketLanTxBuffer, playing, usb, history
<1>7. CASE UnkeyLan
  BY <1>7 DEF UnkeyLan, Release, playing, usb, history
<1>8. CASE DrainPacketUsbTxBuffer
  BY <1>8 DEF DrainPacketUsbTxBuffer, playing, usb, history
<1>9. CASE OnUsbAudioOutputIdle
  BY <1>9 DEF OnUsbAudioOutputIdle, playing, usb, history
<1>10. CASE UnkeyUsb
  BY <1>10 DEF UnkeyUsb, Release, playing, usb, history
<1>11. CASE OnWsDisconnected
  BY <1>11 DEF OnWsDisconnected, playing, usb, history
<1>12. CASE EnableMic
  BY <1>12 DEF EnableMic, playing, usb, history
<1>13. CASE MicAudio
  <2>1. path = "usb" /\ UNCHANGED <<path, keyed, audio, usbActive, claimed>> /\ ~preTx'
    BY <1>13, Zenon DEF MicAudio, playing
  <2>2. preTx \/ device # "stopped"
    BY <1>13, Zenon DEF MicAudio
  <2>3. taken' = (taken /\ device' = "stopped")
    BY <1>13, Zenon DEF MicAudio
  <2>4. ~preTx => device' = "active"
    BY <1>13 DEF MicAudio
  <2>5. usbActive /\ device' = "stopped" => taken'
    BY <2>1, <2>2, <2>3, <2>4
  <2> QED
    BY <2>1, <2>5, Zenon
<1>14. CASE UNCHANGED vars
  BY <1>14 DEF vars, playing, usb, history
<1> QED
  BY <1>1, <1>2, <1>3, <1>4, <1>5, <1>6, <1>7, <1>8, <1>9, <1>10, <1>11, <1>12, <1>13, <1>14
  DEF Next, Frames, Encoder, Lan, Usb, Browsers

-----------------------------------------------------------------------------
(* The invariant in full *)
LEMMA Invariant == Spec => [](Flags /\ Counts /\ PathsInv)
<1>1. Init => Flags /\ Counts
  BY InitTypes
<1>2. Init => PathsInv
  BY DEF Init, PathsInv, LanInv, UsbInv, PathInv, DeviceInv, OneUnkey
<1>3. Flags /\ Counts /\ PathsInv /\ [Next]_vars
        => (Flags /\ Counts /\ PathsInv)'
  BY FlagsStep, CountsStep, LanStep, UsbStep, PathStep, DeviceStep, UnkeyStep DEF PathsInv
<1> QED
  BY <1>1, <1>2, <1>3, PTL DEF Spec

(* However frames, idle events, browsers and ticks fall, at most one single shot
   that unkeys the radio is due. *)
THEOREM OneSingleShot == Spec => []OneUnkey
<1>1. PathsInv => OneUnkey
  BY DEF PathsInv
<1> QED
  BY Invariant, <1>1, PTL

(* Audio that waits while the radio is keyed is being written out, or about to be
   unkeyed, or will be taken along by the frame the transmitter is claimed for; it
   stays behind only where a browser has stopped the device under the burst. *)
THEOREM AudioIsOnItsWay == Spec => []AudioMoves
<1>1. Flags /\ Counts /\ PathsInv => AudioMoves
  <2> SUFFICES ASSUME Flags, Counts, PathsInv, keyed, audio > 0
               PROVE  SlicesGo \/ unkeys > 0 \/ (claimed > 0 /\ ~usbActive) \/ taken
    BY Zenon DEF AudioMoves
  <2>1. CASE path = "usb"
    <3>1. ~awaitingIdle
      BY <2>1, PacketAssumption DEF Counts, PathsInv, UsbInv
    <3>2. CASE usbActive
      BY <2>1, <3>1, <3>2, Zenon DEF PathsInv, UsbInv, DeviceInv, SlicesGo
    <3>3. CASE ~usbActive
      BY <2>1, <3>3, Zenon DEF PathsInv, DeviceInv
    <3> QED BY <3>2, <3>3
  <2>2. CASE path = "lan"
    BY <2>2 DEF PathsInv, LanInv, SlicesGo
  <2>3. CASE path = "none"
    BY <2>3, PacketAssumption DEF Counts, PathsInv, PathInv
  <2> QED BY <2>1, <2>2, <2>3, Zenon DEF Counts
<1> QED BY Invariant, <1>1, PTL

(* The single shot is started only when nothing is left to play, for every length
   of a frame and on both paths. *)
THEOREM UnkeyIsLast == Spec => UnkeyAfterLastSlice
<1>1. Flags /\ Counts /\ PathsInv /\ [Next]_vars
        => [unkeys' > unkeys => audio = 0 /\ audio' = 0]_vars
  <2> SUFFICES ASSUME Flags, Counts, PathsInv, Next, unkeys' > unkeys
               PROVE  audio = 0 /\ audio' = 0
    OBVIOUS
  <2>a. unkeys \in Nat /\ audio \in Nat
    BY PacketAssumption DEF Counts
  <2>1. CASE DrainPacketLanTxBuffer
    <3>1. IF audio > 0 THEN unkeys' = unkeys ELSE audio' = audio
      BY <2>1, Zenon DEF DrainPacketLanTxBuffer
    <3> QED BY <2>a, <3>1
  <2>2. CASE OnUsbAudioOutputIdle
    <3>1. awaitingIdle /\ UNCHANGED audio
      BY <2>a, <2>2 DEF OnUsbAudioOutputIdle, playing
    <3> QED BY <3>1, Zenon DEF PathsInv, UsbInv, PathInv
  <2>3. CASE UnkeyLan \/ UnkeyUsb
    BY <2>a, <2>3 DEF UnkeyLan, UnkeyUsb
  <2>4. CASE Frames \/ Superseded \/ Encoder \/ DrainPacketUsbTxBuffer \/ Browsers
    <3>1. unkeys' = unkeys
      BY <2>4, Zenon DEF Frames, PacketTxCommand, TransmitFrameBytes, Superseded, Encoder,
         OnPacketTxReady, OnPacketTxFailed, LanReady, UsbReady, NoneReady,
         DrainPacketUsbTxBuffer, Browsers, OnWsDisconnected, EnableMic, MicAudio
    <3> QED BY <2>a, <3>1
  <2> QED BY <2>1, <2>2, <2>3, <2>4, Zenon DEF Next, Lan, Usb
<1> QED BY <1>1, Invariant, PTL DEF Spec, UnkeyAfterLastSlice
=============================================================================
