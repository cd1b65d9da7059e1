-------------------------- MODULE YappTransferProofs --------------------------
(***************************************************************************)
(* Proofs about YappTransfer, for every length of a file and every bound.  *)
(*                                                                         *)
(* A session's transfer is sound (SoundXfer) when it has its type and the  *)
(* bursts counted, the frames left and the one on its way add up to the    *)
(* frames of the file.  Each handler makes a sound transfer out of a sound *)
(* one; the type needs the sum, since without it the counter could pass    *)
(* the number of frames.                                                   *)
(*                                                                         *)
(* That files arrive whole rests on the frames on their way continuing     *)
(* what the other side has received; that a report is right, on which      *)
(* answers and headers may be on their way while a transfer is open.  The  *)
(* refinement of FileDelivery follows from both, step by step.             *)
(***************************************************************************)
EXTENDS YappTransfer, TLAPS

Kept(x) == Accounted(x) /\ (x.dir = "tx" => x.phase # "awaiting_accept")
SoundXfer(x) == x \in Xfers /\ Kept(x)

Sessions ==
    /\ xfer \in [Stations -> Xfers] /\ yapp \in [Stations -> Receptions]
    /\ handed \in [Stations -> Seq(Frames)]
    /\ \A s \in Stations : Kept(xfer[s])
Rest ==
    /\ air \in [Stations -> Seq(Frames)]
    /\ rrTimers \in [Stations -> SUBSET FileIds] /\ afTimers \in [Stations -> SUBSET FileIds]
    /\ up \in BOOLEAN /\ unheard \in BOOLEAN
    /\ files \in 0..MaxFiles /\ events \in 0..MaxEvents
    /\ complete \subseteq [file : FileIds, buf : Seq(Frames)]
    /\ sent \subseteq FileIds /\ failed \subseteq FileIds
    /\ lost \subseteq FileIds /\ hurried \subseteq FileIds

IInv == Sessions /\ Rest

LEMMA Parts == IInv => TypeOK /\ AllHandedOn
BY Zenon DEF IInv, TypeOK, AllHandedOn, Sessions, Rest, Kept

-----------------------------------------------------------------------------
(* The frames that are handed on are frames. *)
LEMMA ControlFrames ==
    \A kind \in {"SI", "RR", "AF", "EF", "CN", "RF"} : Control(kind) \in Frames
BY DEF Control, Frames

LEMMA FileFrames ==
    ASSUME NEW f \in FileIds, NEW left \in 1..Planned
    PROVE  Frame(f, left) \in Frames
<1>1. CASE left = Planned
  BY <1>1 DEF Frame, Frames
<1>2. CASE left # Planned /\ left = 1
  BY <1>2 DEF Frame, Frames, Control
<1>3. CASE left # Planned /\ left # 1
  <2>1. Planned - left \in 1..Chunks
    BY <1>3, YappAssumption DEF Planned
  <2> QED BY <1>3, <2>1 DEF Frame, Frames, Data
<1> QED BY <1>1, <1>2, <1>3

LEMMA SoundNoXfer == SoundXfer(NoXfer)
BY YappAssumption DEF SoundXfer, NoXfer, Xfers, Kept, Accounted, FileIds, Planned

LEMMA NoReception == NoFile \in Receptions
BY YappAssumption DEF NoFile, Receptions, FileIds

(* A session that becomes a sound one, with frames left to encode and frames
   handed on, leaves the sessions in order. *)
LEMMA Becomes ==
    ASSUME Sessions, NEW s \in Stations, NEW q \in Seq(Frames), NEW x, SoundXfer(x),
           NEW y \in Receptions, NEW msgs \in Seq(Frames), Become(s, q, x, y, msgs)
    PROVE  Sessions'
<1>1. xfer' = [xfer EXCEPT ![s] = x] /\ yapp' = [yapp EXCEPT ![s] = y]
  BY DEF Become
<1>2. handed' = [handed EXCEPT ![s] = q \o (IF up THEN msgs ELSE <<>>)]
  BY DEF Become
<1>3. q \o (IF up THEN msgs ELSE <<>>) \in Seq(Frames)
  OBVIOUS
<1>4. x \in Xfers /\ Kept(x)
  BY DEF SoundXfer
<1>5. xfer' \in [Stations -> Xfers] /\ yapp' \in [Stations -> Receptions]
  BY <1>1, <1>4, Zenon DEF Sessions
<1>6. handed' \in [Stations -> Seq(Frames)]
  BY <1>2, <1>3, Zenon DEF Sessions
<1>7. ASSUME NEW t \in Stations PROVE Kept(xfer'[t])
  <2>1. xfer'[t] = IF t = s THEN x ELSE xfer[t]
    BY <1>1, Zenon DEF Sessions
  <2> QED BY <2>1, <1>4, Zenon DEF Sessions
<1>8. \A t \in Stations : Kept(xfer[t])'
  BY <1>7, Zenon DEF Kept, Accounted
<1> QED BY <1>5, <1>6, <1>8, Zenon DEF Sessions

LEMMA SessionFacts ==
    ASSUME Sessions, NEW s \in Stations
    PROVE  /\ xfer[s] \in Xfers /\ Accounted(xfer[s]) /\ SoundXfer(xfer[s])
           /\ yapp[s] \in Receptions /\ handed[s] \in Seq(Frames)
BY Zenon DEF Sessions, SoundXfer, Kept

(* Changing one field of a transfer *)
LEMMA SetLeft ==
    ASSUME NEW x \in Xfers, NEW n \in 0..Planned
    PROVE  LET y == [x EXCEPT !.left = n]
           IN  y \in Xfers /\ y.dir = x.dir /\ y.phase = x.phase /\ y.file = x.file
               /\ y.left = n /\ y.sent = x.sent
BY DEF Xfers

LEMMA SetSent ==
    ASSUME NEW x \in Xfers, NEW n \in 0..Planned
    PROVE  LET y == [x EXCEPT !.sent = n]
           IN  y \in Xfers /\ y.dir = x.dir /\ y.phase = x.phase /\ y.file = x.file
               /\ y.left = x.left /\ y.sent = n
BY DEF Xfers

LEMMA SetPhase ==
    ASSUME NEW x \in Xfers,
           NEW p \in {"none", "awaiting_rr", "awaiting_accept", "active", "awaiting_af"}
    PROVE  LET y == [x EXCEPT !.phase = p]
           IN  y \in Xfers /\ y.dir = x.dir /\ y.phase = p /\ y.file = x.file
               /\ y.left = x.left /\ y.sent = x.sent
BY DEF Xfers

LEMMA SetOffer ==
    ASSUME NEW x \in Xfers, NEW f \in FileIds
    PROVE  LET y == [x EXCEPT !.dir = "tx", !.phase = "awaiting_rr", !.file = f]
           IN  y \in Xfers /\ y.phase = "awaiting_rr"
BY DEF Xfers

LEMMA SetRequest ==
    ASSUME NEW x \in Xfers
    PROVE  LET y == [x EXCEPT !.dir = "rx", !.phase = "awaiting_accept"]
           IN  y \in Xfers /\ y.dir = "rx"
BY DEF Xfers

LEMMA SetHeader ==
    ASSUME NEW x \in Xfers, NEW f \in FileIds
    PROVE  LET y == [x EXCEPT !.dir = "rx", !.file = f]
           IN  y \in Xfers /\ y.dir = "rx"
BY DEF Xfers

LEMMA SetActive ==
    ASSUME NEW x \in Xfers
    PROVE  LET y == [x EXCEPT !.phase = "active", !.left = Planned, !.sent = 0]
           IN  /\ y \in Xfers /\ y.dir = x.dir /\ y.phase = "active"
               /\ y.left = Planned /\ y.sent = 0
<1>1. Planned \in 0..Planned /\ 0 \in 0..Planned
  BY YappAssumption DEF Planned
<1> QED BY <1>1 DEF Xfers

(* Ending a transfer reports it at most. *)
LEMMA FailType ==
    ASSUME Rest, NEW x \in Xfers, Fail(x)
    PROVE  (failed \subseteq FileIds)'
BY DEF Rest, Fail, Xfers

-----------------------------------------------------------------------------
(* The pump *)
LEMMA PumpStep ==
    ASSUME Sessions, Rest, NEW s \in Stations, NEW q \in Seq(Frames),
           NEW x \in Xfers, x.dir = "tx", x.phase = "active",
           x.sent + x.left = Planned, x.sent < Planned, PumpNextFrame(s, q, x)
    PROVE  Sessions' /\ (failed \subseteq FileIds)'
<1> USE SessionFacts
<1>1. CASE x.abort
  <2>1. Become(s, q, NoXfer, yapp[s], <<Control("CN")>>) /\ Fail(x)
    BY <1>1, Zenon DEF PumpNextFrame
  <2>2. <<Control("CN")>> \in Seq(Frames)
    BY ControlFrames
  <2>3. Sessions'
    BY <2>1, <2>2, SoundNoXfer, Becomes
  <2> QED BY <2>1, <2>3, FailType
<1>2. CASE ~x.abort
  <2>1. failed' = failed
    BY <1>2, Zenon DEF PumpNextFrame
  <2> DEFINE y == [x EXCEPT !.left = @ - 1]
  <2>9. x.left \in 0..Planned /\ x.sent \in 0..Planned /\ x.file \in FileIds
    BY DEF Xfers
  <2>2. x.left \in 1..Planned /\ x.left - 1 \in 0..Planned
    BY <2>9, YappAssumption DEF Planned
  <2>3. Become(s, q, y, yapp[s], <<Frame(x.file, x.left)>>)
    <3>1. x.left # 0
      BY <2>2
    <3> QED BY <1>2, <3>1, Zenon DEF PumpNextFrame
  <2>4. SoundXfer(y)
    <3>1. y \in Xfers /\ y.phase = "active" /\ y.left = x.left - 1 /\ y.sent = x.sent
      BY <2>2, SetLeft
    <3>2. y.sent + y.left + 1 = Planned
      BY <3>1, <2>9, YappAssumption DEF Planned
    <3> QED BY <3>1, <3>2 DEF SoundXfer, Kept, Accounted
  <2>5. <<Frame(x.file, x.left)>> \in Seq(Frames)
    BY <2>2, <2>9, FileFrames
  <2>6. Sessions'
    BY <2>3, <2>4, <2>5, Becomes
  <2>7. (failed \subseteq FileIds)'
    BY <2>1 DEF Rest
  <2> QED BY <2>6, <2>7, Zenon
<1> QED BY <1>1, <1>2, Zenon

(* A burst is counted. *)
LEMMA CountStep ==
    ASSUME Sessions, Rest, NEW s \in Stations, NEW q \in Seq(Frames), CountBurst(s, q)
    PROVE  /\ Sessions' /\ (failed \subseteq FileIds)'
           /\ (afTimers \in [Stations -> SUBSET FileIds])'
<1> DEFINE x == [xfer[s] EXCEPT !.sent = @ + 1]
<1>0. /\ xfer[s] \in Xfers /\ Accounted(xfer[s]) /\ SoundXfer(xfer[s])
      /\ yapp[s] \in Receptions
  BY SessionFacts
<1>e. <<>> \in Seq(Frames)
  OBVIOUS
<1>1. CASE ~Pumping(s)
  <2>1. Become(s, q, xfer[s], yapp[s], <<>>) /\ afTimers' = afTimers /\ failed' = failed
    BY <1>1, Zenon DEF CountBurst
  <2>2. Sessions'
    BY <2>1, <1>0, <1>e, Becomes
  <2>3. (failed \subseteq FileIds)' /\ (afTimers \in [Stations -> SUBSET FileIds])'
    BY <2>1, Zenon DEF Rest
  <2> QED BY <2>2, <2>3, Zenon
<1>2. CASE Pumping(s)
  <2>1. /\ xfer[s].dir = "tx" /\ xfer[s].phase = "active"
        /\ xfer[s].sent + xfer[s].left + 1 = Planned
    BY <1>2, <1>0 DEF Pumping, Accounted
  <2>2. /\ x \in Xfers /\ x.dir = "tx" /\ x.phase = "active" /\ x.file \in FileIds
        /\ x.sent + x.left = Planned /\ x.sent \in 0..Planned
    <3>1. /\ xfer[s].sent \in 0..Planned /\ xfer[s].left \in 0..Planned
          /\ xfer[s].file \in FileIds
      BY <1>0 DEF Xfers
    <3>2. xfer[s].sent + 1 \in 0..Planned /\ xfer[s].sent + 1 + xfer[s].left = Planned
      BY <3>1, <2>1, YappAssumption DEF Planned
    <3> QED BY <3>1, <3>2, <2>1, <1>0, SetSent
  <2>3. CASE x.sent >= Planned
    <3> DEFINE z == [x EXCEPT !.phase = "awaiting_af"]
    <3>1. ~(x.sent < Planned)
      BY <2>2, <2>3, YappAssumption DEF Planned
    <3>2. /\ Become(s, q, z, yapp[s], <<>>)
          /\ afTimers' = [afTimers EXCEPT ![s] = @ \cup {x.file}] /\ failed' = failed
      BY <1>2, <3>1, Zenon DEF CountBurst
    <3>3. SoundXfer(z)
      <4>1. z \in Xfers /\ z.phase = "awaiting_af" /\ z.left = x.left
        BY <2>2, SetPhase
      <4>2. x.left = 0
        <5>1. x.left \in 0..Planned
          BY <2>2 DEF Xfers
        <5> QED BY <5>1, <2>2, <2>3, YappAssumption DEF Planned
      <4> QED BY <4>1, <4>2 DEF SoundXfer, Kept, Accounted
    <3>4. Sessions'
      BY <3>2, <3>3, <1>0, <1>e, Becomes
    <3>5. afTimers[s] \cup {x.file} \in SUBSET FileIds
      BY <2>2 DEF Rest
    <3>6. (afTimers \in [Stations -> SUBSET FileIds])'
      BY <3>2, <3>5, Zenon DEF Rest
    <3>7. (failed \subseteq FileIds)'
      BY <3>2, Zenon DEF Rest
    <3> QED BY <3>4, <3>6, <3>7, Zenon
  <2>4. CASE ~(x.sent >= Planned)
    <3>1. x.sent < Planned
      BY <2>2, <2>4, YappAssumption DEF Planned
    <3>2. PumpNextFrame(s, q, x) /\ afTimers' = afTimers
      BY <1>2, <2>4, Zenon DEF CountBurst
    <3>3. Sessions' /\ (failed \subseteq FileIds)'
      BY <2>2, <3>1, <3>2, PumpStep
    <3>4. (afTimers \in [Stations -> SUBSET FileIds])'
      BY <3>2, Zenon DEF Rest
    <3> QED BY <3>3, <3>4, Zenon
  <2> QED BY <2>3, <2>4, Zenon
<1> QED BY <1>1, <1>2, Zenon

-----------------------------------------------------------------------------
(* The steps *)
LEMMA EmptyAndControl ==
    /\ <<>> \in Seq(Frames)
    /\ \A kind \in {"SI", "RR", "AF", "EF", "CN", "RF"} : <<Control(kind)>> \in Seq(Frames)
BY ControlFrames

LEMMA InitStep == Init => IInv
<1> SUFFICES ASSUME Init PROVE IInv
  OBVIOUS
<1>1. \A s \in Stations : xfer[s] = NoXfer
  BY DEF Init
<1>2. Sessions
  BY <1>1, SoundNoXfer, NoReception, EmptyAndControl DEF Init, Sessions, SoundXfer
<1>3. air \in [Stations -> Seq(Frames)]
  BY EmptyAndControl DEF Init
<1>4. rrTimers \in [Stations -> SUBSET FileIds] /\ afTimers \in [Stations -> SUBSET FileIds]
  BY DEF Init
<1>5. files \in 0..MaxFiles /\ events \in 0..MaxEvents
  BY YappAssumption DEF Init
<1>6. /\ up \in BOOLEAN /\ unheard \in BOOLEAN
      /\ complete \subseteq [file : FileIds, buf : Seq(Frames)]
      /\ sent \subseteq FileIds /\ failed \subseteq FileIds
      /\ lost \subseteq FileIds /\ hurried \subseteq FileIds
  BY Zenon DEF Init
<1> QED BY <1>2, <1>3, <1>4, <1>5, <1>6, Zenon DEF IInv, Rest

LEMMA SendFileStep == ASSUME IInv, NEW s \in Stations, SendFile(s) PROVE IInv'
<1> DEFINE x == [NoXfer EXCEPT !.dir = "tx", !.phase = "awaiting_rr", !.file = files + 1]
<1>1. files + 1 \in 0..MaxFiles
  BY YappAssumption DEF IInv, Rest, SendFile
<1>2. SoundXfer(x)
  <2>1. NoXfer \in Xfers /\ files + 1 \in FileIds
    BY <1>1, SoundNoXfer DEF SoundXfer, FileIds
  <2>2. x \in Xfers /\ x.phase = "awaiting_rr"
    BY <2>1, SetOffer
  <2> QED BY <2>2 DEF SoundXfer, Kept, Accounted
<1>3. Become(s, handed[s], x, yapp[s], <<Control("SI")>>)
  BY Zenon DEF SendFile
<1>4. Sessions'
  BY <1>2, <1>3, SessionFacts, EmptyAndControl, Becomes DEF IInv
<1>5. rrTimers' \in [Stations -> SUBSET FileIds]
  <2>1. rrTimers' = [rrTimers EXCEPT ![s] = @ \cup {files + 1}]
    BY Zenon DEF SendFile
  <2>2. rrTimers[s] \cup {files + 1} \in SUBSET FileIds
    BY <1>1 DEF IInv, Rest, FileIds
  <2> QED BY <2>1, <2>2, Zenon DEF IInv, Rest
<1>6. files + 1 \in FileIds /\ files' \in 0..MaxFiles
  BY <1>1 DEF SendFile, FileIds
<1>7. Rest'
  BY <1>5, <1>6 DEF IInv, Rest, SendFile, reports
<1> QED BY <1>4, <1>7 DEF IInv

LEMMA EncodeStep == ASSUME IInv, NEW s \in Stations, Encode(s) PROVE IInv'
<1>1. handed[s] \in Seq(Frames) /\ handed[s] # <<>>
  BY SessionFacts DEF IInv, Encode
<1>2. Head(handed[s]) \in Frames /\ Tail(handed[s]) \in Seq(Frames)
  BY <1>1
<1>3. CountBurst(s, Tail(handed[s]))
  BY Zenon DEF Encode
<1>4. /\ Sessions' /\ (failed \subseteq FileIds)'
      /\ (afTimers \in [Stations -> SUBSET FileIds])'
  BY <1>2, <1>3, CountStep DEF IInv
<1>5. air' \in [Stations -> Seq(Frames)]
  <2>1. air' = [air EXCEPT ![s] = Append(@, Head(handed[s]))]
    BY Zenon DEF Encode
  <2>2. Append(air[s], Head(handed[s])) \in Seq(Frames)
    BY <1>2 DEF IInv, Rest
  <2> QED BY <2>1, <2>2, Zenon DEF IInv, Rest
<1>6. Rest'
  BY <1>4, <1>5 DEF IInv, Rest, Encode, doubts
<1> QED BY <1>4, <1>6 DEF IInv

LEMMA OtherBurstStep == ASSUME IInv, NEW s \in Stations, OtherBurst(s) PROVE IInv'
<1>1. CountBurst(s, handed[s]) /\ handed[s] \in Seq(Frames)
  BY SessionFacts, Zenon DEF OtherBurst, IInv
<1>2. /\ Sessions' /\ (failed \subseteq FileIds)'
      /\ (afTimers \in [Stations -> SUBSET FileIds])'
  BY <1>1, CountStep DEF IInv
<1>3. events' \in 0..MaxEvents
  BY YappAssumption DEF IInv, Rest, OtherBurst
<1>4. Rest'
  BY <1>2, <1>3 DEF IInv, Rest, OtherBurst, doubts
<1> QED BY <1>2, <1>4 DEF IInv

(* A step that leaves the sessions alone *)
LEMMA SessionsStay ==
    ASSUME Sessions, UNCHANGED <<xfer, yapp, handed>> PROVE Sessions'
BY Zenon DEF Sessions, Kept, Accounted

LEMMA RrTimerStep == ASSUME IInv, NEW s \in Stations, RrTimer(s) PROVE IInv'
<1>1. Sessions' /\ (failed \subseteq FileIds)' /\ unheard' \in BOOLEAN
  <2>1. CASE xfer[s].dir # "none" /\ xfer[s].phase = "awaiting_rr"
    <3>1. /\ Become(s, handed[s], NoXfer, yapp[s], <<>>)
          /\ Fail(xfer[s]) /\ unheard' = TRUE
      BY <2>1, Zenon DEF RrTimer
    <3>2. Sessions'
      BY <3>1, SessionFacts, SoundNoXfer, EmptyAndControl, Becomes DEF IInv
    <3>3. (failed \subseteq FileIds)'
      BY <3>1, SessionFacts, FailType DEF IInv
    <3> QED BY <3>1, <3>2, <3>3
  <2>2. CASE ~(xfer[s].dir # "none" /\ xfer[s].phase = "awaiting_rr")
    <3>1. UNCHANGED <<xfer, yapp, handed, failed, unheard>>
      BY <2>2, Zenon DEF RrTimer
    <3> QED BY <3>1, SessionsStay DEF IInv, Rest
  <2> QED BY <2>1, <2>2
<1>2. rrTimers' \in [Stations -> SUBSET FileIds]
  <2>1. PICK f \in rrTimers[s] : rrTimers' = [rrTimers EXCEPT ![s] = @ \ {f}]
    BY Zenon DEF RrTimer
  <2>2. rrTimers[s] \ {f} \in SUBSET FileIds
    BY DEF IInv, Rest
  <2> QED BY <2>1, <2>2, Zenon DEF IInv, Rest
<1>3. Rest'
  BY <1>1, <1>2 DEF IInv, Rest, RrTimer
<1> QED BY <1>1, <1>3 DEF IInv

LEMMA AfTimerStep == ASSUME IInv, NEW s \in Stations, AfTimer(s) PROVE IInv'
<1>1. Sessions' /\ (failed \subseteq FileIds)'
  <2>1. CASE xfer[s].dir # "none" /\ xfer[s].phase = "awaiting_af"
    <3>1. Become(s, handed[s], NoXfer, yapp[s], <<>>) /\ Fail(xfer[s])
      BY <2>1, Zenon DEF AfTimer
    <3>2. Sessions'
      BY <3>1, SessionFacts, SoundNoXfer, EmptyAndControl, Becomes DEF IInv
    <3>3. (failed \subseteq FileIds)'
      BY <3>1, SessionFacts, FailType DEF IInv
    <3> QED BY <3>2, <3>3
  <2>2. CASE ~(xfer[s].dir # "none" /\ xfer[s].phase = "awaiting_af")
    <3>1. UNCHANGED <<xfer, yapp, handed, failed>>
      BY <2>2, Zenon DEF AfTimer
    <3> QED BY <3>1, SessionsStay DEF IInv, Rest
  <2> QED BY <2>1, <2>2
<1>2. afTimers' \in [Stations -> SUBSET FileIds]
  <2>1. PICK f \in afTimers[s] : afTimers' = [afTimers EXCEPT ![s] = @ \ {f}]
    BY Zenon DEF AfTimer
  <2>2. afTimers[s] \ {f} \in SUBSET FileIds
    BY DEF IInv, Rest
  <2> QED BY <2>1, <2>2, Zenon DEF IInv, Rest
<1>3. Rest'
  BY <1>1, <1>2 DEF IInv, Rest, AfTimer, doubts
<1> QED BY <1>1, <1>3 DEF IInv

LEMMA OperatorStep == ASSUME IInv, NEW s \in Stations, Operator(s) PROVE IInv'
<1>0. /\ xfer[s] \in Xfers /\ SoundXfer(xfer[s]) /\ yapp[s] \in Receptions
      /\ handed[s] \in Seq(Frames) /\ Sessions
  BY SessionFacts DEF IInv
<1>1. CASE Accept(s)
  <2> DEFINE x == [xfer[s] EXCEPT !.phase = "active"]
  <2>1. xfer[s].phase = "awaiting_accept" /\ Become(s, handed[s], x, yapp[s], <<Control("RR")>>)
    BY <1>1, Zenon DEF Accept
  <2>2. SoundXfer(x)
    BY <2>1, <1>0, SetPhase DEF SoundXfer, Kept, Accounted
  <2>3. Sessions'
    BY <2>1, <2>2, <1>0, EmptyAndControl, Becomes
  <2>4. Rest'
    BY <1>1 DEF IInv, Rest, Accept, timers, reports, doubts
  <2> QED BY <2>3, <2>4 DEF IInv
<1>2. CASE Reject(s)
  <2>1. Become(s, handed[s], NoXfer, yapp[s], <<Control("CN")>>)
    BY <1>2, Zenon DEF Reject
  <2>2. Sessions'
    BY <2>1, <1>0, SoundNoXfer, EmptyAndControl, Becomes
  <2>3. Rest'
    BY <1>2 DEF IInv, Rest, Reject, timers, reports, doubts
  <2> QED BY <2>2, <2>3 DEF IInv
<1>3. CASE AbortSending(s)
  <2> DEFINE x == [xfer[s] EXCEPT !.abort = TRUE]
  <2>1. Become(s, handed[s], x, yapp[s], <<>>)
    BY <1>3, Zenon DEF AbortSending
  <2>2. SoundXfer(x)
    <3>1. x \in Xfers /\ x.dir = xfer[s].dir /\ x.phase = xfer[s].phase
          /\ x.left = xfer[s].left /\ x.sent = xfer[s].sent
      BY <1>0 DEF Xfers
    <3> QED BY <3>1, <1>0 DEF SoundXfer, Kept, Accounted
  <2>3. Sessions'
    BY <2>1, <2>2, <1>0, EmptyAndControl, Becomes
  <2>4. Rest'
    BY <1>3 DEF IInv, Rest, AbortSending, timers, reports, doubts
  <2> QED BY <2>3, <2>4 DEF IInv
<1>4. CASE AbortReceiving(s)
  <2>1. Become(s, handed[s], NoXfer, NoFile, <<Control("CN")>>)
    BY <1>4, Zenon DEF AbortReceiving
  <2>2. Sessions'
    BY <2>1, <1>0, SoundNoXfer, NoReception, EmptyAndControl, Becomes
  <2>3. Rest'
    BY <1>4 DEF IInv, Rest, AbortReceiving, timers, reports, doubts
  <2> QED BY <2>2, <2>3 DEF IInv
<1> QED BY <1>1, <1>2, <1>3, <1>4 DEF Operator

-----------------------------------------------------------------------------
(* What a station receives *)
LEMMA HandleStep ==
    ASSUME IInv, NEW s \in Stations, NEW m \in Frames, HandleFrame(s, m)
    PROVE  /\ Sessions' /\ (failed \subseteq FileIds)' /\ (sent \subseteq FileIds)'
           /\ (complete \subseteq [file : FileIds, buf : Seq(Frames)])'
<1> DEFINE Goal == /\ Sessions' /\ (failed \subseteq FileIds)' /\ (sent \subseteq FileIds)'
                   /\ (complete \subseteq [file : FileIds, buf : Seq(Frames)])'
<1>0. /\ xfer[s] \in Xfers /\ SoundXfer(xfer[s]) /\ yapp[s] \in Receptions
      /\ handed[s] \in Seq(Frames) /\ Sessions /\ Rest
  BY SessionFacts DEF IInv
<1>r. UNCHANGED reports => /\ (failed \subseteq FileIds)' /\ (sent \subseteq FileIds)'
                          /\ (complete \subseteq [file : FileIds, buf : Seq(Frames)])'
  BY <1>0, Zenon DEF Rest, reports
<1>u. ASSUME UNCHANGED <<xfer, yapp, handed, reports>> PROVE Goal
  BY <1>u, <1>0, <1>r, SessionsStay, Zenon
<1>1. CASE HandleSI(s)
  <2>1. CASE xfer[s].dir # "none"
    <3>1. Become(s, handed[s], xfer[s], yapp[s], <<Control("CN")>>)
      BY <1>1, <2>1, Zenon DEF HandleSI
    <3>2. Sessions'
      BY <3>1, <1>0, EmptyAndControl, Becomes
    <3> QED BY <3>2, <1>1, <1>r, Zenon DEF HandleSI
  <2>2. CASE ~(xfer[s].dir # "none")
    <3> DEFINE x == [NoXfer EXCEPT !.dir = "rx", !.phase = "awaiting_accept"]
    <3>1. Become(s, handed[s], x, yapp[s], <<>>)
      BY <1>1, <2>2, Zenon DEF HandleSI
    <3>2. SoundXfer(x)
      BY SoundNoXfer, SetRequest DEF SoundXfer, Kept, Accounted
    <3>3. Sessions'
      BY <3>1, <3>2, <1>0, EmptyAndControl, Becomes
    <3> QED BY <3>3, <1>1, <1>r, Zenon DEF HandleSI
  <2> QED BY <2>1, <2>2, Zenon
<1>2. CASE HandleRR(s)
  <2>1. CASE xfer[s].dir = "tx" /\ xfer[s].phase = "awaiting_rr"
    <3> DEFINE x == [xfer[s] EXCEPT !.phase = "active", !.left = Planned, !.sent = 0]
    <3>1. PumpNextFrame(s, handed[s], x) /\ UNCHANGED <<complete, sent>>
      BY <1>2, <2>1, Zenon DEF HandleRR
    <3>2. /\ x \in Xfers /\ x.dir = "tx" /\ x.phase = "active"
          /\ x.left = Planned /\ x.sent = 0
      BY <2>1, <1>0, SetActive
    <3>3. x.sent + x.left = Planned /\ x.sent < Planned
      BY <3>2, YappAssumption DEF Planned
    <3>4. Sessions' /\ (failed \subseteq FileIds)'
      BY <3>1, <3>2, <3>3, <1>0, PumpStep
    <3>5. /\ (sent \subseteq FileIds)'
          /\ (complete \subseteq [file : FileIds, buf : Seq(Frames)])'
      BY <3>1, <1>0, Zenon DEF Rest
    <3> QED BY <3>4, <3>5, Zenon
  <2>2. CASE ~(xfer[s].dir = "tx" /\ xfer[s].phase = "awaiting_rr")
    BY <1>2, <2>2, <1>u, Zenon DEF HandleRR
  <2> QED BY <2>1, <2>2, Zenon
<1>3. CASE HandleAF(s)
  <2>1. CASE xfer[s].dir = "tx" /\ xfer[s].phase = "awaiting_af"
    <3>1. /\ Become(s, handed[s], NoXfer, yapp[s], <<>>)
          /\ sent' = sent \cup {xfer[s].file} /\ UNCHANGED <<complete, failed>>
      BY <1>3, <2>1, Zenon DEF HandleAF
    <3>2. Sessions'
      BY <3>1, <1>0, SoundNoXfer, EmptyAndControl, Becomes
    <3>3. xfer[s].file \in FileIds
      BY <1>0 DEF Xfers
    <3> QED BY <3>1, <3>2, <3>3, <1>0 DEF Rest
  <2>2. CASE ~(xfer[s].dir = "tx" /\ xfer[s].phase = "awaiting_af")
    BY <1>3, <2>2, <1>u, Zenon DEF HandleAF
  <2> QED BY <2>1, <2>2, Zenon
<1>4. CASE HandleHD(s, m)
  <2> DEFINE x == [xfer[s] EXCEPT !.dir = "rx", !.file = m.file]
             y == [open |-> TRUE, file |-> m.file, buf |-> <<>>]
  <2>1. Become(s, handed[s], x, y, <<Control("RF")>>) /\ UNCHANGED reports
    BY <1>4, Zenon DEF HandleHD
  <2>2. m.file \in FileIds
    BY YappAssumption DEF Frames, FileIds
  <2>3. SoundXfer(x)
    BY <2>2, <1>0, SetHeader DEF SoundXfer, Kept, Accounted
  <2>4. y \in Receptions
    BY <2>2, EmptyAndControl DEF Receptions
  <2>5. Sessions'
    BY <2>1, <2>3, <2>4, <1>0, EmptyAndControl, Becomes
  <2> QED BY <2>1, <2>5, <1>r, Zenon
<1>5. CASE HandleDT(s, m)
  <2>1. CASE yapp[s].open
    <3> DEFINE y == [yapp[s] EXCEPT !.buf = Append(@, m)]
    <3>1. Become(s, handed[s], xfer[s], y, <<>>)
      BY <1>5, <2>1, Zenon DEF HandleDT
    <3>2. y \in Receptions
      <4>1. Append(yapp[s].buf, m) \in Seq(Frames)
        BY <1>0 DEF Receptions
      <4> QED BY <4>1, <1>0 DEF Receptions
    <3>3. Sessions'
      BY <3>1, <3>2, <1>0, EmptyAndControl, Becomes
    <3> QED BY <3>3, <1>5, <1>r, Zenon DEF HandleDT
  <2>2. CASE ~yapp[s].open
    BY <1>5, <2>2, <1>u, Zenon DEF HandleDT, reports
  <2> QED BY <2>1, <2>2, Zenon
<1>6. CASE HandleEF(s)
  <2>1. CASE yapp[s].open
    <3>1. /\ Become(s, handed[s], NoXfer, NoFile, <<Control("AF")>>)
          /\ complete' = complete \cup {[file |-> yapp[s].file, buf |-> yapp[s].buf]}
          /\ UNCHANGED <<sent, failed>>
      BY <1>6, <2>1, Zenon DEF HandleEF
    <3>2. Sessions'
      BY <3>1, <1>0, SoundNoXfer, NoReception, EmptyAndControl, Becomes
    <3>3. [file |-> yapp[s].file, buf |-> yapp[s].buf] \in [file : FileIds, buf : Seq(Frames)]
      BY <1>0 DEF Receptions
    <3> QED BY <3>1, <3>2, <3>3, <1>0 DEF Rest
  <2>2. CASE ~yapp[s].open
    BY <1>6, <2>2, <1>u, Zenon DEF HandleEF
  <2> QED BY <2>1, <2>2, Zenon
<1>7. CASE HandleCN(s)
  <2>1. CASE xfer[s].dir # "none"
    <3>1. /\ Become(s, handed[s], NoXfer, NoFile, <<>>)
          /\ Fail(xfer[s]) /\ UNCHANGED <<complete, sent>>
      BY <1>7, <2>1, Zenon DEF HandleCN
    <3>2. Sessions'
      BY <3>1, <1>0, SoundNoXfer, NoReception, EmptyAndControl, Becomes
    <3>3. (failed \subseteq FileIds)'
      BY <3>1, <1>0, FailType
    <3>4. /\ (sent \subseteq FileIds)'
          /\ (complete \subseteq [file : FileIds, buf : Seq(Frames)])'
      BY <3>1, <1>0, Zenon DEF Rest
    <3> QED BY <3>2, <3>3, <3>4, Zenon
  <2>2. CASE ~(xfer[s].dir # "none")
    BY <1>7, <2>2, <1>u, Zenon DEF HandleCN
  <2> QED BY <2>1, <2>2, Zenon
<1>8. CASE HandleRF
  BY <1>8, <1>u, Zenon DEF HandleRF
<1> QED BY <1>1, <1>2, <1>3, <1>4, <1>5, <1>6, <1>7, <1>8, Zenon DEF HandleFrame

LEMMA RxDataStep == ASSUME IInv, NEW s \in Stations, RxData(s) PROVE IInv'
<1>1. Peer(s) \in Stations
  BY DEF Peer, Stations
<1>2. air[Peer(s)] \in Seq(Frames) /\ air[Peer(s)] # <<>>
  BY <1>1 DEF IInv, Rest, RxData
<1>3. Head(air[Peer(s)]) \in Frames /\ Tail(air[Peer(s)]) \in Seq(Frames)
  BY <1>2
<1>4. HandleFrame(s, Head(air[Peer(s)]))
  BY Zenon DEF RxData
<1>5. /\ Sessions' /\ (failed \subseteq FileIds)' /\ (sent \subseteq FileIds)'
      /\ (complete \subseteq [file : FileIds, buf : Seq(Frames)])'
  BY <1>3, <1>4, HandleStep
<1>6. air' \in [Stations -> Seq(Frames)]
  <2>1. air' = [air EXCEPT ![Peer(s)] = Tail(@)]
    BY Zenon DEF RxData
  <2> QED BY <2>1, <1>3, Zenon DEF IInv, Rest
<1>7. Rest'
  BY <1>5, <1>6 DEF IInv, Rest, RxData, timers, doubts
<1> QED BY <1>5, <1>7 DEF IInv

(* The link *)
LEMMA LinkStep == ASSUME IInv, Link PROVE IInv'
<1>s. Sessions /\ Rest
  BY DEF IInv
<1>q. [s \in Stations |-> <<>>] \in [Stations -> Seq(Frames)]
  BY EmptyAndControl
<1>l. ASSUME LoseLink
      PROVE  /\ events' \in 0..MaxEvents /\ up' \in BOOLEAN /\ unheard' \in BOOLEAN
             /\ air' \in [Stations -> Seq(Frames)] /\ lost' \subseteq FileIds
  <2>1. UnderWay \subseteq FileIds
    <3>1. \A s \in Stations : xfer[s].file \in FileIds /\ yapp[s].file \in FileIds
      BY <1>s DEF Sessions, Xfers, Receptions
    <3> QED BY <3>1 DEF UnderWay
  <2>2. events' \in 0..MaxEvents
    BY <1>l, <1>s, YappAssumption DEF LoseLink, Rest
  <2> QED BY <2>1, <2>2, <1>l, <1>q, <1>s DEF LoseLink, Rest
<1>1. CASE LinkTerminated
  <2>1. LoseLink
    BY <1>1 DEF LinkTerminated
  <2>2. handed' \in [Stations -> Seq(Frames)] /\ xfer' = xfer /\ yapp' = yapp
    BY <1>1, <1>q DEF LinkTerminated
  <2>3. Sessions'
    BY <2>2, <1>s, Zenon DEF Sessions, Kept, Accounted
  <2>4. Rest'
    BY <1>1, <2>1, <1>l, <1>s DEF LinkTerminated, Rest, timers, reports
  <2> QED BY <2>3, <2>4 DEF IInv
<1>2. ASSUME NEW s \in Stations, TermClose(s) PROVE IInv'
  <2>1. LoseLink
    BY <1>2 DEF TermClose
  <2>2. handed' \in [Stations -> Seq(Frames)]
    BY <1>2, <1>q DEF TermClose
  <2>3. xfer' = [xfer EXCEPT ![s] = NoXfer] /\ yapp' = [yapp EXCEPT ![s] = NoFile]
    BY <1>2, Zenon DEF TermClose
  <2>4. NoXfer \in Xfers /\ Kept(NoXfer)
    BY SoundNoXfer DEF SoundXfer
  <2>5. xfer' \in [Stations -> Xfers] /\ yapp' \in [Stations -> Receptions]
    BY <2>3, <2>4, <1>s, NoReception, Zenon DEF Sessions
  <2>6. \A t \in Stations : xfer'[t] = IF t = s THEN NoXfer ELSE xfer[t]
    BY <2>3, <1>s, Zenon DEF Sessions
  <2>7. \A t \in Stations : Kept(xfer'[t])
    BY <2>6, <2>4, <1>s, Zenon DEF Sessions
  <2>8. (\A t \in Stations : Kept(xfer[t]))'
    BY <2>7, Zenon DEF Kept, Accounted
  <2>9. Sessions'
    BY <2>2, <2>5, <2>8, Zenon DEF Sessions
  <2>10. rrTimers' \in [Stations -> SUBSET FileIds] /\ afTimers' \in [Stations -> SUBSET FileIds]
    BY <1>2, <1>s DEF TermClose, Rest
  <2>11. Rest'
    BY <1>2, <2>1, <2>10, <1>l, <1>s DEF TermClose, Rest, reports
  <2> QED BY <2>9, <2>11 DEF IInv
<1>3. CASE LinkEstablished
  <2>1. Sessions'
    BY <1>3, <1>s, SessionsStay DEF LinkEstablished
  <2>2. Rest'
    BY <1>3, <1>s DEF LinkEstablished, Rest, timers, reports, doubts
  <2> QED BY <2>1, <2>2 DEF IInv
<1> QED BY <1>1, <1>2, <1>3 DEF Link

-----------------------------------------------------------------------------
LEMMA StutterStep == ASSUME IInv, UNCHANGED vars PROVE IInv'
<1>1. Sessions'
  BY SessionsStay DEF IInv, vars
<1>2. Rest'
  BY DEF IInv, Rest, vars, timers, reports, doubts
<1> QED BY <1>1, <1>2 DEF IInv

LEMMA Inductive == Spec => []IInv
<1>1. IInv /\ [Next]_vars => IInv'
  <2> SUFFICES ASSUME IInv, [Next]_vars PROVE IInv'
    OBVIOUS
  <2>1. ASSUME NEW s \in Stations, Sender(s) PROVE IInv'
    BY <2>1, SendFileStep, EncodeStep, OtherBurstStep, RrTimerStep, AfTimerStep DEF Sender
  <2> QED BY <2>1, OperatorStep, RxDataStep, LinkStep, StutterStep DEF Next
<1> QED BY InitStep, <1>1, PTL DEF Spec

(* The sessions, their frames on the way and the single shots keep their types
   for every length of a file: no list is taken from when it is empty, and the
   counter of bursts does not pass the number of frames. *)
THEOREM TypeCorrect == Spec => []TypeOK
BY Inductive, Parts, PTL

(* However many bursts of other frames are counted, for every length of a file:
   when the transfer waits for the AF, all its frames have been handed on. *)
THEOREM EveryFrameLeaves == Spec => []AllHandedOn
BY Inductive, Parts, PTL

-----------------------------------------------------------------------------
(* Files arrive whole                                                        *)
(*                                                                           *)
(* The frames on their way from a station, those on the air before those     *)
(* handed on, continue what the other station has received: reading them     *)
(* one after the other from the place its reception is at (the file and the  *)
(* number of its chunks) never meets a chunk or an EF out of place, and      *)
(* leads to the place the sender is at.  Nothing is said of files that were  *)
(* under way when the link was lost, or of a station that receives nothing.  *)

Place == [file : FileIds, n : Nat]

After(p, m) ==
    IF m.kind = "HD" THEN [file |-> m.file, n |-> 0]
    ELSE IF m.kind = "DT" THEN [file |-> p.file, n |-> p.n + 1]
    ELSE p

Fits(p, m, L) ==
    p.file \notin L => /\ m.kind = "DT" => m = Data(p.file, p.n + 1)
                       /\ m.kind = "EF" => p.n = Chunks

Reads(q, e, L) ==
    /\ e \in [0 .. Len(q) -> Place]
    /\ \A i \in 1 .. Len(q) : e[i] = After(e[i - 1], q[i]) /\ Fits(e[i - 1], q[i], L)

Starts(p, y) == y.open => p.file = y.file /\ p.n = Len(y.buf)

Active(x) == x.dir = "tx" /\ x.phase = "active"
Ends(p, x, L) ==
    Active(x) /\ p.file \notin L =>
        p.file = x.file /\ (x.left # 0 => p.n + x.left + 1 = Planned)

Continues(q, x, y, L) ==
    \E e : Reads(q, e, L) /\ Starts(e[0], y) /\ Ends(e[Len(q)], x, L)

LEMMA AfterType ==
    ASSUME NEW p \in Place, NEW m \in Frames
    PROVE  After(p, m) \in Place
<1>1. m.file \in FileIds
  BY YappAssumption DEF Frames, FileIds
<1> QED BY <1>1 DEF After, Place

(* Reading goes on with a frame that fits. *)
LEMMA ReadsOn ==
    ASSUME NEW q \in Seq(Frames), NEW e, NEW L, Reads(q, e, L),
           NEW m \in Frames, Fits(e[Len(q)], m, L)
    PROVE  \E d : /\ Reads(Append(q, m), d, L) /\ d[0] = e[0]
                  /\ d[Len(Append(q, m))] = After(e[Len(q)], m)
<1>1. PICK n \in Nat : n = Len(q)
  OBVIOUS
<1>2. PICK r \in Seq(Frames) : /\ r = Append(q, m) /\ Len(r) = n + 1 /\ r[n + 1] = m
                               /\ \A i \in 1 .. n : r[i] = q[i]
  <2>1. Append(q, m) \in Seq(Frames) /\ Len(Append(q, m)) = n + 1
        /\ Append(q, m)[n + 1] = m /\ \A i \in 1 .. n : Append(q, m)[i] = q[i]
    BY <1>1
  <2> QED BY <2>1, Zenon
<1>3. /\ e \in [0 .. n -> Place]
      /\ \A i \in 1 .. n : e[i] = After(e[i - 1], q[i]) /\ Fits(e[i - 1], q[i], L)
  BY <1>1, Zenon DEF Reads
<1>4. PICK p \in Place : p = After(e[n], m)
  BY <1>3, AfterType
<1> DEFINE d == [i \in 0 .. n + 1 |-> IF i <= n THEN e[i] ELSE p]
<1>5. d \in [0 .. n + 1 -> Place]
  BY <1>3
<1>6. d[n + 1] = p /\ d[0] = e[0] /\ \A i \in 0 .. n : d[i] = e[i]
  OBVIOUS
<1> HIDE DEF d
<1>7. ASSUME NEW i \in 1 .. n + 1
      PROVE  d[i] = After(d[i - 1], r[i]) /\ Fits(d[i - 1], r[i], L)
  <2>1. CASE i = n + 1
    <3>1. d[i - 1] = e[n] /\ r[i] = m /\ d[i] = p
      BY <2>1, <1>2, <1>6
    <3> QED BY <3>1, <1>1, <1>4, Zenon
  <2>2. CASE i # n + 1
    <3>1. i \in 1 .. n /\ i \in 0 .. n /\ i - 1 \in 0 .. n
      BY <2>2
    <3>2. d[i - 1] = e[i - 1] /\ d[i] = e[i] /\ r[i] = q[i]
      BY <3>1, <1>2, <1>6, Zenon
    <3> QED BY <3>1, <3>2, <1>3, Zenon
  <2> QED BY <2>1, <2>2
<1>8. Reads(r, d, L)
  BY <1>2, <1>5, <1>7, Zenon DEF Reads
<1> QED BY <1>1, <1>2, <1>4, <1>6, <1>8, Zenon

(* Reading starts anew behind the first frame. *)
LEMMA ReadsBehind ==
    ASSUME NEW q \in Seq(Frames), q # <<>>, NEW e, NEW L, Reads(q, e, L)
    PROVE  /\ Head(q) \in Frames /\ Fits(e[0], Head(q), L) /\ e[0] \in Place
           /\ \E d : /\ Reads(Tail(q), d, L) /\ d[0] = After(e[0], Head(q))
                     /\ d[Len(Tail(q))] = e[Len(q)]
<1>1. PICK n \in Nat : n + 1 = Len(q)
  <2>1. Len(q) \in Nat /\ Len(q) # 0
    OBVIOUS
  <2>2. Len(q) - 1 \in Nat /\ (Len(q) - 1) + 1 = Len(q)
    BY <2>1
  <2> QED BY <2>2
<1>2. PICK r \in Seq(Frames) : /\ r = Tail(q) /\ Len(r) = n
                               /\ \A i \in 1 .. n : r[i] = q[i + 1]
  <2>1. Tail(q) \in Seq(Frames) /\ Len(Tail(q)) = n
        /\ \A i \in 1 .. n : Tail(q)[i] = q[i + 1]
    BY <1>1
  <2> QED BY <2>1, Zenon
<1>3. Head(q) = q[1] /\ Head(q) \in Frames
  BY <1>1
<1>4. /\ e \in [0 .. n + 1 -> Place]
      /\ \A i \in 1 .. n + 1 : e[i] = After(e[i - 1], q[i]) /\ Fits(e[i - 1], q[i], L)
  BY <1>1, Zenon DEF Reads
<1>5. 1 \in 1 .. n + 1 /\ 1 - 1 = 0 /\ 0 \in 0 .. n + 1
  OBVIOUS
<1>6. e[1] = After(e[0], Head(q)) /\ Fits(e[0], Head(q), L) /\ e[0] \in Place
  BY <1>3, <1>4, <1>5
<1> DEFINE d == [i \in 0 .. n |-> e[i + 1]]
<1>7. d \in [0 .. n -> Place]
  BY <1>4
<1>8. d[0] = e[1] /\ d[n] = e[n + 1] /\ \A i \in 0 .. n : d[i] = e[i + 1]
  OBVIOUS
<1> HIDE DEF d
<1>9. ASSUME NEW i \in 1 .. n
      PROVE  d[i] = After(d[i - 1], r[i]) /\ Fits(d[i - 1], r[i], L)
  <2>1. i \in 0 .. n /\ i - 1 \in 0 .. n /\ i + 1 \in 1 .. n + 1 /\ (i + 1) - 1 = i
        /\ (i - 1) + 1 = i
    OBVIOUS
  <2>2. d[i] = e[i + 1] /\ d[i - 1] = e[i] /\ r[i] = q[i + 1]
    BY <2>1, <1>2, <1>8
  <2>3. e[i + 1] = After(e[i], q[i + 1]) /\ Fits(e[i], q[i + 1], L)
    BY <2>1, <1>4
  <2> QED BY <2>2, <2>3, Zenon
<1>10. Reads(r, d, L)
  BY <1>2, <1>7, <1>9, Zenon DEF Reads
<1> QED BY <1>1, <1>2, <1>3, <1>6, <1>8, <1>10, Zenon

-----------------------------------------------------------------------------
(* What keeps Continues *)

(* A frame that is not part of a file *)
LEMMA OtherFrame ==
    ASSUME NEW q \in Seq(Frames), NEW x, NEW y, NEW L, Continues(q, x, y, L),
           NEW m \in Frames, m.kind \notin {"HD", "DT", "EF"}
    PROVE  Continues(Append(q, m), x, y, L)
<1>1. PICK e : Reads(q, e, L) /\ Starts(e[0], y) /\ Ends(e[Len(q)], x, L)
  BY Zenon DEF Continues
<1>2. Fits(e[Len(q)], m, L) /\ After(e[Len(q)], m) = e[Len(q)]
  BY DEF Fits, After
<1>3. PICK d : /\ Reads(Append(q, m), d, L) /\ d[0] = e[0]
               /\ d[Len(Append(q, m))] = After(e[Len(q)], m)
  BY <1>1, <1>2, ReadsOn
<1> QED BY <1>1, <1>2, <1>3, Zenon DEF Continues

(* The next frame of the file *)
LEMMA NextFrame ==
    ASSUME NEW q \in Seq(Frames), NEW x \in Xfers, NEW y, NEW L, Continues(q, x, y, L),
           Active(x), x.left \in 1 .. Planned - 1,
           NEW z \in Xfers, z.file = x.file, z.left = x.left - 1
    PROVE  Continues(Append(q, Frame(x.file, x.left)), z, y, L)
<1>0. x.file \in FileIds /\ Chunks \in Nat /\ Planned = Chunks + 2
  BY YappAssumption DEF Xfers, Planned
<1>1. PICK e : Reads(q, e, L) /\ Starts(e[0], y) /\ Ends(e[Len(q)], x, L)
  BY Zenon DEF Continues
<1>2. PICK n \in Nat : n = Len(q)
  OBVIOUS
<1>3. PICK p \in Place : p = e[n] /\ Ends(p, x, L)
  <2>1. e \in [0 .. n -> Place] /\ n \in 0 .. n
    BY <1>1, <1>2 DEF Reads
  <2> QED BY <2>1, <1>1, <1>2
<1>4. PICK m \in Frames : m = Frame(x.file, x.left)
  BY <1>0, FileFrames
<1>5. p.n \in Nat /\ p.file \notin L => p.file = x.file /\ p.n + x.left + 1 = Planned
  BY <1>3 DEF Ends, Place
<1>6. \/ x.left = 1 /\ m = Control("EF")
      \/ x.left # 1 /\ m = Data(x.file, Planned - x.left)
  BY <1>0, <1>4 DEF Frame
<1>7. p.n \in Nat /\ Fits(p, m, L)
  <2>0. p.n \in Nat
    BY <1>3 DEF Place
  <2>1. CASE p.file \in L
    BY <2>0, <2>1 DEF Fits
  <2>2. CASE p.file \notin L
    <3>1. p.file = x.file /\ p.n + x.left + 1 = Planned
      BY <2>0, <2>2, <1>5
    <3>2. CASE x.left = 1 /\ m = Control("EF")
      <4>1. p.n = Chunks
        BY <2>0, <3>1, <3>2, <1>0
      <4> QED BY <4>1, <2>0, <3>2 DEF Fits, Control
    <3>3. CASE x.left # 1 /\ m = Data(x.file, Planned - x.left)
      <4>1. Planned - x.left = p.n + 1
        BY <2>0, <3>1, <1>0
      <4> QED BY <4>1, <2>0, <3>1, <3>3 DEF Fits, Data
    <3> QED BY <3>2, <3>3, <1>6, Zenon
  <2> QED BY <2>0, <2>1, <2>2
<1>8. Ends(After(p, m), z, L)
  <2>1. SUFFICES ASSUME After(p, m).file \notin L, z.left # 0
                 PROVE  After(p, m).n + z.left + 1 = Planned /\ After(p, m).file = x.file
    <3>1. CASE z.left # 0
      BY <2>1, <3>1 DEF Ends
    <3>2. CASE z.left = 0
      <4>1. After(p, m) = p
        BY <3>2, <1>6 DEF After, Control
      <4> QED BY <4>1, <3>2, <1>5, <1>7 DEF Ends
    <3> QED BY <3>1, <3>2
  <2>2. m = Data(x.file, Planned - x.left)
    BY <2>1, <1>6
  <2>3. After(p, m) = [file |-> p.file, n |-> p.n + 1]
    BY <2>2 DEF After, Data
  <2> QED BY <2>1, <2>3, <1>0, <1>5, <1>7
<1>9. PICK d : /\ Reads(Append(q, m), d, L) /\ d[0] = e[0]
               /\ d[Len(Append(q, m))] = After(e[Len(q)], m)
  BY <1>1, <1>2, <1>3, <1>7, ReadsOn
<1> QED BY <1>1, <1>2, <1>3, <1>4, <1>8, <1>9, Zenon DEF Continues

(* The header of a file *)
LEMMA FirstFrame ==
    ASSUME NEW q \in Seq(Frames), NEW x, NEW y, NEW L, Continues(q, x, y, L),
           NEW z \in Xfers, z.left = Planned - 1
    PROVE  Continues(Append(q, Frame(z.file, Planned)), z, y, L)
<1>1. PICK e : Reads(q, e, L) /\ Starts(e[0], y)
  BY Zenon DEF Continues
<1>2. PICK m \in Frames : m = Frame(z.file, Planned)
  <2>1. z.file \in FileIds /\ Planned \in 1 .. Planned
    BY YappAssumption DEF Xfers, Planned
  <2> QED BY <2>1, FileFrames
<1>3. m = [kind |-> "HD", file |-> z.file, chunk |-> 0]
  BY <1>2 DEF Frame
<1>4. Fits(e[Len(q)], m, L) /\ After(e[Len(q)], m) = [file |-> z.file, n |-> 0]
  BY <1>3 DEF Fits, After
<1>5. Ends(After(e[Len(q)], m), z, L)
  BY <1>4, YappAssumption DEF Ends, Planned
<1>6. PICK d : /\ Reads(Append(q, m), d, L) /\ d[0] = e[0]
               /\ d[Len(Append(q, m))] = After(e[Len(q)], m)
  BY <1>1, <1>4, ReadsOn
<1> QED BY <1>1, <1>2, <1>5, <1>6, Zenon DEF Continues

(* A sender that is not active, or whose file is lost, may change. *)
LEMMA OtherSender ==
    ASSUME NEW q, NEW x, NEW y, NEW L, Continues(q, x, y, L), NEW z,
           \/ ~Active(z)
           \/ Active(x) /\ x.file \in L
           \/ Active(x) /\ z.file = x.file /\ (z.left # 0 => z.left = x.left)
    PROVE  Continues(q, z, y, L)
<1>1. PICK e : Reads(q, e, L) /\ Starts(e[0], y) /\ Ends(e[Len(q)], x, L)
  BY Zenon DEF Continues
<1>2. Ends(e[Len(q)], z, L)
  BY <1>1, Zenon DEF Ends
<1> QED BY <1>1, <1>2, Zenon DEF Continues

(* The other side may close its file. *)
LEMMA ClosedReceiver ==
    ASSUME NEW q, NEW x, NEW y, NEW L, Continues(q, x, y, L), NEW z, ~z.open
    PROVE  Continues(q, x, z, L)
BY Zenon DEF Continues, Starts

(* The other side reads the first frame, and its reception becomes z. *)
LEMMA FrameRead ==
    ASSUME NEW q \in Seq(Frames), q # <<>>, NEW x, NEW y, NEW L, Continues(q, x, y, L), NEW z,
           z.open => \/ /\ Head(q).kind = "HD" /\ z.file = Head(q).file /\ Len(z.buf) = 0
                     \/ /\ Head(q).kind = "DT" /\ y.open /\ z.file = y.file
                        /\ Len(z.buf) = Len(y.buf) + 1
                     \/ /\ Head(q).kind \notin {"HD", "DT"} /\ y.open /\ z.file = y.file
                        /\ Len(z.buf) = Len(y.buf)
    PROVE  Continues(Tail(q), x, z, L)
<1>1. PICK e : Reads(q, e, L) /\ Starts(e[0], y) /\ Ends(e[Len(q)], x, L)
  BY Zenon DEF Continues
<1>2. PICK d : /\ Reads(Tail(q), d, L) /\ d[0] = After(e[0], Head(q))
               /\ d[Len(Tail(q))] = e[Len(q)]
  BY <1>1, ReadsBehind
<1>3. Starts(After(e[0], Head(q)), z)
  BY <1>1 DEF Starts, After
<1> QED BY <1>1, <1>2, <1>3, Zenon DEF Continues

(* The frame the other side reads is in its place. *)
LEMMA FrameFits ==
    ASSUME NEW q \in Seq(Frames), q # <<>>, NEW x, NEW y, NEW L, Continues(q, x, y, L),
           y.open, y.file \notin L
    PROVE  /\ Head(q).kind = "DT" => Head(q) = Data(y.file, Len(y.buf) + 1)
           /\ Head(q).kind = "EF" => Len(y.buf) = Chunks
<1>1. PICK e : Reads(q, e, L) /\ Starts(e[0], y)
  BY Zenon DEF Continues
<1>2. Fits(e[0], Head(q), L)
  BY <1>1, ReadsBehind
<1> QED BY <1>1, <1>2, Zenon DEF Fits, Starts

(* More files are lost. *)
LEMMA MoreLost ==
    ASSUME NEW q \in Seq(Frames), NEW x, NEW y, NEW L, Continues(q, x, y, L),
           NEW M, L \subseteq M
    PROVE  Continues(q, x, y, M)
<1>1. PICK e : Reads(q, e, L) /\ Starts(e[0], y) /\ Ends(e[Len(q)], x, L)
  BY Zenon DEF Continues
<1>2. \A p, m : Fits(p, m, L) => Fits(p, m, M)
  BY Zenon DEF Fits
<1>3. Reads(q, e, M)
  BY <1>1, <1>2, Zenon DEF Reads
<1>4. Ends(e[Len(q)], x, M)
  BY <1>1, Zenon DEF Ends
<1> QED BY <1>1, <1>3, <1>4, Zenon DEF Continues

(* Nothing is on its way, and what either side is at is lost. *)
LEMMA NothingOnItsWay ==
    ASSUME NEW x \in Xfers, NEW y \in Receptions, NEW L,
           y.open => y.file \in L, Active(x) => x.file \in L
    PROVE  Continues(<<>>, x, y, L)
<1> DEFINE p == IF y.open THEN [file |-> y.file, n |-> Len(y.buf)]
                ELSE [file |-> x.file, n |-> 0]
<1>1. p \in Place
  <2>1. Len(y.buf) \in Nat /\ y.file \in FileIds /\ x.file \in FileIds
    BY DEF Receptions, Xfers
  <2> QED BY <2>1 DEF Place
<1>2. Starts(p, y)
  BY DEF Starts
<1>3. Ends(p, x, L)
  BY DEF Ends
<1> HIDE DEF p
<1> DEFINE e == [i \in 0 .. 0 |-> p]
<1>4. e \in [0 .. 0 -> Place] /\ e[0] = p
  BY <1>1
<1> HIDE DEF e
<1>5. Len(<<>>) = 0 /\ \A i \in 1 .. 0 : FALSE
  OBVIOUS
<1>6. Reads(<<>>, e, L)
  BY <1>4, <1>5, Zenon DEF Reads
<1> QED BY <1>2, <1>3, <1>4, <1>5, <1>6, Zenon DEF Continues

-----------------------------------------------------------------------------
(* Sequences *)
LEMMA Joined ==
    ASSUME NEW S, NEW a \in Seq(S), NEW b \in Seq(S)
    PROVE  a \o b \in Seq(S)
OBVIOUS

LEMMA Regrouped == \A a, b, c \in Seq(Frames) : a \o (b \o c) = (a \o b) \o c
OBVIOUS

LEMMA Moved ==
    ASSUME NEW S, NEW a \in Seq(S), NEW b \in Seq(S), b # <<>>
    PROVE  Append(a, Head(b)) \o Tail(b) = a \o b
OBVIOUS

LEMMA TakenOff ==
    ASSUME NEW S, NEW a \in Seq(S), NEW b \in Seq(S), a # <<>>
    PROVE  a \o b # <<>> /\ Head(a \o b) = Head(a) /\ Tail(a \o b) = Tail(a) \o b
<1>1. a \o b # <<>>
  OBVIOUS
<1>2. Head(a \o b) = Head(a)
  OBVIOUS
<1>3. Tail(a \o b) = Tail(a) \o b
  OBVIOUS
<1> QED BY <1>1, <1>2, <1>3

(* What a station hands on when its transfer x becomes z *)
Quiet(x, z) == ~Active(z) \/ (Active(x) /\ z.file = x.file /\ z.left = x.left)

Moves(x, z, msgs) ==
    \/ msgs = <<>> /\ Quiet(x, z)
    \/ Quiet(x, z) /\ \E m \in Frames : msgs = <<m>> /\ m.kind \notin {"HD", "DT", "EF"}
    \/ /\ Active(x) /\ x.left \in 1 .. Planned - 1 /\ z.file = x.file /\ z.left = x.left - 1
       /\ msgs = <<Frame(x.file, x.left)>>
    \/ z.left = Planned - 1 /\ msgs = <<Frame(z.file, Planned)>>

(* A transfer that goes on after such a step sends the same file, and what is
   handed on is its header if it was asked to send (RR), and none otherwise. *)
Steady(x, z, msgs) ==
    /\ Carries(msgs, "HD") => z.dir = "tx"
    /\ z.dir = "tx" =>
        /\ x.dir = "tx" /\ z.file = x.file
        /\ \/ /\ (z.phase = "awaiting_rr") = (x.phase = "awaiting_rr") /\ ~Carries(msgs, "HD")
              /\ z.phase = "awaiting_rr" => ~Carries(msgs, "EF")
           \/ /\ x.phase = "awaiting_rr" /\ z.phase # "awaiting_rr"
              /\ msgs = <<Frame(z.file, Planned)>>

(* What a single frame carries *)
LEMMA CarriesOne ==
    /\ \A kind : ~Carries(<<>>, kind)
    /\ \A m, kind : Carries(<<m>>, kind) <=> m.kind = kind
BY DEF Carries

LEMMA OwnWay ==
    ASSUME NEW q \in Seq(Frames), NEW x \in Xfers, NEW z \in Xfers, NEW y, NEW L,
           Continues(q, x, y, L), NEW msgs, Moves(x, z, msgs)
    PROVE  Continues(q \o msgs, z, y, L)
<1>1. CASE msgs = <<>> /\ Quiet(x, z)
  <2>1. q \o msgs = q
    BY <1>1
  <2>2. Continues(q, z, y, L)
    BY <1>1, OtherSender, Zenon DEF Quiet
  <2> QED BY <2>1, <2>2, Zenon
<1>2. CASE Quiet(x, z) /\ \E m \in Frames : msgs = <<m>> /\ m.kind \notin {"HD", "DT", "EF"}
  <2>1. PICK m \in Frames : msgs = <<m>> /\ m.kind \notin {"HD", "DT", "EF"}
    BY <1>2, Zenon
  <2>2. q \o msgs = Append(q, m)
    BY <2>1
  <2>3. Continues(q, z, y, L)
    BY <1>2, OtherSender, Zenon DEF Quiet
  <2>4. Continues(Append(q, m), z, y, L)
    BY <2>1, <2>3, OtherFrame
  <2> QED BY <2>2, <2>4, Zenon
<1>3. CASE /\ Active(x) /\ x.left \in 1 .. Planned - 1 /\ z.file = x.file
           /\ z.left = x.left - 1 /\ msgs = <<Frame(x.file, x.left)>>
  <2>1. q \o msgs = Append(q, Frame(x.file, x.left))
    BY <1>3
  <2>2. Continues(Append(q, Frame(x.file, x.left)), z, y, L)
    BY <1>3, NextFrame
  <2> QED BY <2>1, <2>2, Zenon
<1>4. CASE z.left = Planned - 1 /\ msgs = <<Frame(z.file, Planned)>>
  <2>1. q \o msgs = Append(q, Frame(z.file, Planned))
    BY <1>4
  <2>2. Continues(Append(q, Frame(z.file, Planned)), z, y, L)
    BY <1>4, FirstFrame
  <2> QED BY <2>1, <2>2, Zenon
<1> QED BY <1>1, <1>2, <1>3, <1>4, Zenon DEF Moves

-----------------------------------------------------------------------------
(* The invariant *)
Arriving == \A s \in Stations : Continues(air[s] \o handed[s], xfer[s], yapp[Peer(s)], lost)

Down == ~up => \A s \in Stations : /\ air[s] = <<>> /\ handed[s] = <<>>
                                   /\ xfer[s].dir = "tx" => xfer[s].file \in lost
                                   /\ yapp[s].open => yapp[s].file \in lost

Prefix(y, L) ==
    y.open /\ y.file \notin L => \A i \in 1 .. Len(y.buf) : y.buf[i] = Data(y.file, i)
Prefixes == \A s \in Stations : Prefix(yapp[s], lost)

Orderly == Arriving /\ Down /\ Prefixes

LEMMA TwoStations ==
    ASSUME NEW s \in Stations
    PROVE  /\ Peer(s) \in Stations /\ Peer(s) # s /\ Peer(Peer(s)) = s
           /\ \A t \in Stations : t = s \/ t = Peer(s)
BY DEF Stations, Peer

LEMMA Became ==
    ASSUME Sessions, NEW s \in Stations, NEW q, NEW x, NEW y, NEW msgs,
           Become(s, q, x, y, msgs)
    PROVE  /\ xfer'[s] = x /\ yapp'[s] = y
           /\ handed'[s] = q \o (IF up THEN msgs ELSE <<>>)
           /\ xfer'[Peer(s)] = xfer[Peer(s)] /\ yapp'[Peer(s)] = yapp[Peer(s)]
           /\ handed'[Peer(s)] = handed[Peer(s)]
BY TwoStations, Zenon DEF Become, Sessions

LEMMA BecomeNothing ==
    ASSUME Sessions, NEW s \in Stations, UNCHANGED <<xfer, yapp, handed>>
    PROVE  Become(s, handed[s], xfer[s], yapp[s], <<>>)
<1>1. handed[s] \o (IF up THEN <<>> ELSE <<>>) = handed[s]
  <2>1. handed[s] \in Seq(Frames)
    BY SessionFacts
  <2> QED BY <2>1
<1>2. /\ xfer = [xfer EXCEPT ![s] = xfer[s]] /\ yapp = [yapp EXCEPT ![s] = yapp[s]]
      /\ handed = [handed EXCEPT ![s] = handed[s]]
  BY DEF Sessions
<1> QED BY <1>1, <1>2, Zenon DEF Become

(* A step of the sender or of the operator of s, which encodes a frame at most *)
LEMMA OwnStep ==
    ASSUME IInv, Orderly, NEW s \in Stations, NEW q \in Seq(Frames), NEW x \in Xfers,
           NEW y \in Receptions, NEW msgs, Become(s, q, x, y, msgs),
           UNCHANGED <<up, lost>>,
           air'[s] \in Seq(Frames), air'[s] \o q = air[s] \o handed[s],
           air'[Peer(s)] = air[Peer(s)],
           up => msgs \in Seq(Frames) /\ Moves(xfer[s], x, msgs),
           ~up /\ x.dir = "tx" => xfer[s].dir = "tx" /\ x.file = xfer[s].file,
           y = yapp[s] \/ ~y.open
    PROVE  Orderly'
<1> DEFINE p == Peer(s)
<1>1. p \in Stations /\ p # s /\ Peer(p) = s /\ \A t \in Stations : t = s \/ t = p
  BY TwoStations, Zenon
<1>2. /\ xfer'[s] = x /\ yapp'[s] = y /\ handed'[s] = q \o (IF up THEN msgs ELSE <<>>)
      /\ xfer'[p] = xfer[p] /\ yapp'[p] = yapp[p] /\ handed'[p] = handed[p]
  BY Became DEF IInv
<1>3. /\ air[s] \in Seq(Frames) /\ handed[s] \in Seq(Frames)
      /\ air[p] \in Seq(Frames) /\ handed[p] \in Seq(Frames)
      /\ xfer[s] \in Xfers /\ yapp[p] \in Receptions
  BY <1>1 DEF IInv, Sessions, Rest
<1>4. PICK w \in Seq(Frames) : w = air[s] \o handed[s]
  BY <1>3, Joined, Zenon
<1>5. Continues(w, xfer[s], yapp[p], lost) /\ Continues(air[p] \o handed[p], xfer[p], yapp[s], lost)
  BY <1>1, <1>4, Zenon DEF Orderly, Arriving
<1>6. Continues(air'[s] \o handed'[s], x, yapp[p], lost)
  <2>1. CASE up
    <3>1. air'[s] \o (q \o msgs) = (air'[s] \o q) \o msgs
      <4>1. msgs \in Seq(Frames)
        BY <2>1, Zenon
      <4> QED BY <4>1, Regrouped, Zenon
    <3>2. air'[s] \o handed'[s] = w \o msgs
      BY <3>1, <1>2, <1>4, <2>1, Zenon
    <3>3. Continues(w \o msgs, x, yapp[p], lost)
      BY <1>5, <2>1, <1>3, OwnWay
    <3> QED BY <3>2, <3>3, Zenon
  <2>2. CASE ~up
    <3>1. /\ air[s] = <<>> /\ handed[s] = <<>> /\ (yapp[p].open => yapp[p].file \in lost)
          /\ (xfer[s].dir = "tx" => xfer[s].file \in lost)
      BY <1>1, <2>2, Zenon DEF Orderly, Down
    <3>2. air'[s] = <<>> /\ q = <<>>
      <4>1. air'[s] \o q = <<>>
        BY <3>1
      <4> QED BY <4>1
    <3>3. air'[s] \o handed'[s] = <<>>
      BY <3>2, <1>2, <2>2
    <3>4. Active(x) => x.file \in lost
      BY <3>1, <2>2, Zenon DEF Active
    <3>5. Continues(<<>>, x, yapp[p], lost)
      BY <3>1, <3>4, <1>3, NothingOnItsWay
    <3> QED BY <3>3, <3>5, Zenon
  <2> QED BY <2>1, <2>2, Zenon
<1>7. Continues(air'[p] \o handed'[p], xfer[p], y, lost)
  BY <1>2, <1>5, ClosedReceiver, Zenon
<1>8. Arriving'
  <2>1. ASSUME NEW t \in Stations
        PROVE  Continues(air'[t] \o handed'[t], xfer'[t], yapp'[Peer(t)], lost')
    BY <1>1, <1>2, <1>6, <1>7, Zenon
  <2> QED BY <2>1, Zenon DEF Arriving
<1>9. Down'
  <2>1. SUFFICES ASSUME ~up
                 PROVE  \A t \in Stations : /\ air'[t] = <<>> /\ handed'[t] = <<>>
                                            /\ xfer'[t].dir = "tx" => xfer'[t].file \in lost
                                            /\ yapp'[t].open => yapp'[t].file \in lost
    BY Zenon DEF Down
  <2>2. \A t \in Stations : /\ air[t] = <<>> /\ handed[t] = <<>>
                            /\ xfer[t].dir = "tx" => xfer[t].file \in lost
                            /\ yapp[t].open => yapp[t].file \in lost
    BY <2>1, Zenon DEF Orderly, Down
  <2>3. air'[s] = <<>> /\ handed'[s] = <<>>
    <3>1. air'[s] \o q = <<>>
      BY <2>2
    <3>2. air'[s] = <<>> /\ q = <<>>
      BY <3>1
    <3> QED BY <3>2, <1>2, <2>1
  <2>4. x.dir = "tx" => x.file \in lost
    BY <2>1, <2>2, Zenon
  <2>5. y.open => y.file \in lost
    BY <2>2, Zenon
  <2> QED BY <1>1, <1>2, <2>2, <2>3, <2>4, <2>5, Zenon
<1>10. Prefixes'
  <2>1. Prefix(y, lost) /\ Prefix(yapp[p], lost)
    BY <1>1, Zenon DEF Orderly, Prefixes, Prefix
  <2>2. ASSUME NEW t \in Stations PROVE Prefix(yapp'[t], lost')
    BY <1>1, <1>2, <2>1, Zenon
  <2> QED BY <2>2, Zenon DEF Prefixes
<1> QED BY <1>8, <1>9, <1>10, Zenon DEF Orderly

(* A step of s that takes the first frame of its peer off the air *)
Takes(m, y, z) ==
    \/ ~z.open
    \/ m.kind = "HD" /\ z.file = m.file /\ z.buf = <<>>
    \/ m.kind = "DT" /\ y.open /\ z.file = y.file /\ z.buf = Append(y.buf, m)
    \/ m.kind \notin {"HD", "DT"} /\ z = y

LEMMA PeerStep ==
    ASSUME IInv, Orderly, NEW s \in Stations, air[Peer(s)] # <<>>,
           air' = [air EXCEPT ![Peer(s)] = Tail(@)],
           UNCHANGED <<up, lost>>, NEW x \in Xfers, NEW y \in Receptions,
           NEW msgs \in Seq(Frames), Become(s, handed[s], x, y, msgs),
           Moves(xfer[s], x, msgs), Takes(Head(air[Peer(s)]), yapp[s], y)
    PROVE  Orderly'
<1> DEFINE p == Peer(s)
<1>1. p \in Stations /\ p # s /\ Peer(p) = s /\ \A t \in Stations : t = s \/ t = p
  BY TwoStations, Zenon
<1>0. up
  BY <1>1, Zenon DEF Orderly, Down
<1>2. /\ xfer'[s] = x /\ yapp'[s] = y /\ handed'[s] = handed[s] \o msgs
      /\ xfer'[p] = xfer[p] /\ yapp'[p] = yapp[p] /\ handed'[p] = handed[p]
  <2>1. Sessions
    BY Zenon DEF IInv
  <2>2. handed[s] \o msgs = handed[s] \o (IF up THEN msgs ELSE <<>>)
    BY <1>0, Zenon
  <2>3. /\ xfer'[s] = x /\ yapp'[s] = y
        /\ handed'[s] = handed[s] \o (IF up THEN msgs ELSE <<>>)
        /\ xfer'[p] = xfer[p] /\ yapp'[p] = yapp[p] /\ handed'[p] = handed[p]
    BY <2>1, Became
  <2> QED BY <2>2, <2>3, Zenon
<1>3. /\ air[s] \in Seq(Frames) /\ handed[s] \in Seq(Frames)
      /\ air[p] \in Seq(Frames) /\ handed[p] \in Seq(Frames)
      /\ xfer[s] \in Xfers /\ yapp[s] \in Receptions
  BY <1>1 DEF IInv, Sessions, Rest
<1>4. air'[s] = air[s] /\ air'[p] = Tail(air[p])
  BY <1>1, Zenon DEF IInv, Rest
<1>5. PICK w \in Seq(Frames) : w = air[s] \o handed[s]
  BY <1>3, Joined, Zenon
<1>6. PICK v \in Seq(Frames) : /\ v = air[p] \o handed[p] /\ v # <<>>
                               /\ Head(v) = Head(air[p]) /\ Tail(v) = Tail(air[p]) \o handed[p]
  BY <1>3, Joined, TakenOff, Zenon
<1>10. Head(v) \in Frames
  <2>1. \A u \in Seq(Frames) : u # <<>> => Head(u) \in Frames
    OBVIOUS
  <2> QED BY <2>1, <1>6, Zenon
<1>7. Continues(w, xfer[s], yapp[p], lost) /\ Continues(v, xfer[p], yapp[s], lost)
  BY <1>1, <1>5, <1>6, Zenon DEF Orderly, Arriving
<1>8. Continues(air'[s] \o handed'[s], x, yapp[p], lost)
  <2>1. air[s] \o (handed[s] \o msgs) = (air[s] \o handed[s]) \o msgs
    <3>1. \A a, b \in Seq(Frames) : a \o (b \o msgs) = (a \o b) \o msgs
      BY Regrouped, Zenon
    <3>2. PICK a \in Seq(Frames) : a = air[s]
      BY <1>3, Zenon
    <3>3. PICK b \in Seq(Frames) : b = handed[s]
      BY <1>3, Zenon
    <3> QED BY <3>1, <3>2, <3>3, Zenon
  <2>2. Continues(w \o msgs, x, yapp[p], lost)
    BY <1>7, <1>3, OwnWay
  <2> QED BY <2>1, <2>2, <1>2, <1>4, <1>5, Zenon
<1>9. Continues(air'[p] \o handed'[p], xfer[p], y, lost)
  <2>2. \A m \in Frames : Len(Append(yapp[s].buf, m)) = Len(yapp[s].buf) + 1
    BY <1>3 DEF Receptions
  <2>3. Head(v) \in Frames
    BY <1>10
  <2>4. y.open => \/ /\ Head(v).kind = "HD" /\ y.file = Head(v).file /\ Len(y.buf) = 0
                  \/ /\ Head(v).kind = "DT" /\ yapp[s].open /\ y.file = yapp[s].file
                     /\ Len(y.buf) = Len(yapp[s].buf) + 1
                  \/ /\ Head(v).kind \notin {"HD", "DT"} /\ yapp[s].open
                     /\ y.file = yapp[s].file /\ Len(y.buf) = Len(yapp[s].buf)
    <3>1. Len(<<>>) = 0
      OBVIOUS
    <3> QED BY <3>1, <2>2, <2>3, <1>6, Zenon DEF Takes
  <2>5. Continues(Tail(v), xfer[p], y, lost)
    BY <1>6, <1>7, <2>4, FrameRead
  <2> QED BY <2>5, <1>2, <1>4, <1>6, Zenon
<1>11. Arriving'
  <2>1. ASSUME NEW t \in Stations
        PROVE  Continues(air'[t] \o handed'[t], xfer'[t], yapp'[Peer(t)], lost')
    BY <1>1, <1>2, <1>8, <1>9, Zenon
  <2> QED BY <2>1, Zenon DEF Arriving
<1>12. Down'
  BY <1>0, Zenon DEF Down
<1>13. Prefix(y, lost)
  <2>1. CASE ~y.open \/ y.buf = <<>>
    BY <2>1 DEF Prefix
  <2>2. CASE y = yapp[s]
    BY <2>2, Zenon DEF Orderly, Prefixes
  <2>3. CASE /\ Head(v).kind = "DT" /\ yapp[s].open /\ y.file = yapp[s].file
             /\ y.buf = Append(yapp[s].buf, Head(v))
    <3>1. SUFFICES ASSUME yapp[s].file \notin lost
                   PROVE  \A i \in 1 .. Len(y.buf) : y.buf[i] = Data(y.file, i)
      BY <2>3, Zenon DEF Prefix
    <3>2. Head(v) = Data(y.file, Len(yapp[s].buf) + 1)
      BY <2>3, <3>1, <1>6, <1>7, FrameFits
    <3>3. \A i \in 1 .. Len(yapp[s].buf) : yapp[s].buf[i] = Data(y.file, i)
      BY <2>3, <3>1, Zenon DEF Orderly, Prefixes, Prefix
    <3>4. PICK b \in Seq(Frames) : b = yapp[s].buf
      BY <1>3 DEF Receptions
    <3>5. PICK m \in Frames : m = Head(v)
      BY <1>10, Zenon
    <3>6. y.buf = Append(b, m) /\ m = Data(y.file, Len(b) + 1)
          /\ \A i \in 1 .. Len(b) : b[i] = Data(y.file, i)
      BY <2>3, <3>2, <3>3, <3>4, <3>5, Zenon
    <3>7. \A i \in 1 .. Len(Append(b, m)) :
              Append(b, m)[i] = IF i = Len(b) + 1 THEN m ELSE b[i]
      OBVIOUS
    <3>8. \A i \in 1 .. Len(Append(b, m)) : i = Len(b) + 1 \/ i \in 1 .. Len(b)
      OBVIOUS
    <3> QED BY <3>6, <3>7, <3>8, Zenon
  <2> QED BY <2>1, <2>2, <2>3, <1>6, Zenon DEF Takes
<1>14. Prefixes'
  <2>1. Prefix(yapp[p], lost)
    BY <1>1, Zenon DEF Orderly, Prefixes
  <2>2. ASSUME NEW t \in Stations PROVE Prefix(yapp'[t], lost')
    BY <1>1, <1>2, <1>13, <2>1, Zenon
  <2> QED BY <2>2, Zenon DEF Prefixes
<1> QED BY <1>11, <1>12, <1>14, Zenon DEF Orderly

-----------------------------------------------------------------------------
(* The steps *)
LEMMA QuietMoves ==
    ASSUME NEW x, NEW z, Quiet(x, z)
    PROVE  /\ Moves(x, z, <<>>)
           /\ \A kind \in {"SI", "RR", "AF", "CN", "RF"} : Moves(x, z, <<Control(kind)>>)
<1>1. ASSUME NEW kind \in {"SI", "RR", "AF", "CN", "RF"}
      PROVE  Control(kind) \in Frames /\ Control(kind).kind \notin {"HD", "DT", "EF"}
  <2>1. Control(kind).kind \notin {"HD", "DT", "EF"}
    BY DEF Control
  <2> QED BY <2>1, ControlFrames
<1> QED BY <1>1, Zenon DEF Moves

LEMMA SteadyMoves ==
    ASSUME NEW x, NEW z,
           z.dir = "tx" => x.dir = "tx" /\ z.file = x.file /\ z.phase = x.phase
    PROVE  /\ Steady(x, z, <<>>)
           /\ \A kind \in {"SI", "RR", "AF", "CN", "RF"} : Steady(x, z, <<Control(kind)>>)
<1>1. ASSUME NEW kind \in {"SI", "RR", "AF", "CN", "RF"}
      PROVE  ~Carries(<<Control(kind)>>, "HD") /\ ~Carries(<<Control(kind)>>, "EF")
  BY CarriesOne DEF Control
<1> QED BY <1>1, CarriesOne, Zenon DEF Steady

LEMMA NoAF ==
    /\ ~Carries(<<>>, "AF")
    /\ \A kind \in {"SI", "RR", "CN", "RF"} : ~Carries(<<Control(kind)>>, "AF")
BY CarriesOne DEF Control

LEMMA QuietEnds ==
    /\ ~Active(NoXfer)
    /\ \A x : Quiet(x, x) /\ Quiet(x, NoXfer)
BY DEF Quiet, Active, NoXfer

(* The pump hands on the next frame of the file, or tells of its end. *)
LEMMA PumpMoves ==
    ASSUME Sessions, NEW s \in Stations, NEW q, NEW x \in Xfers, Active(x), NEW w,
           w.dir = "tx" /\ w.file = x.file,
           \/ Active(w) /\ w.left = x.left /\ x.left \in 0 .. Planned - 1
           \/ w.phase = "awaiting_rr" /\ x.left = Planned,
           PumpNextFrame(s, q, x)
    PROVE  \E z \in Xfers, msgs \in Seq(Frames) :
               /\ Become(s, q, z, yapp[s], msgs) /\ Moves(w, z, msgs)
               /\ Steady(w, z, msgs) /\ ~Carries(msgs, "AF")
<1>1. CASE x.abort
  <2>1. Become(s, q, NoXfer, yapp[s], <<Control("CN")>>)
    BY <1>1, Zenon DEF PumpNextFrame
  <2>2. Moves(w, NoXfer, <<Control("CN")>>) /\ <<Control("CN")>> \in Seq(Frames)
    BY QuietMoves, QuietEnds, EmptyAndControl
  <2>3. NoXfer \in Xfers /\ NoXfer.dir # "tx"
    <3>1. NoXfer.dir # "tx"
      BY DEF NoXfer
    <3> QED BY <3>1, SoundNoXfer DEF SoundXfer
  <2>4. Steady(w, NoXfer, <<Control("CN")>>) /\ ~Carries(<<Control("CN")>>, "AF")
    BY <2>3, SteadyMoves, NoAF
  <2> QED BY <2>1, <2>2, <2>3, <2>4, Zenon
<1>2. CASE ~x.abort /\ x.left = 0
  <2>1. Become(s, q, x, yapp[s], <<>>)
    BY <1>2, Zenon DEF PumpNextFrame
  <2>2. 0 # Planned
    BY YappAssumption DEF Planned
  <2>3. Quiet(w, x)
    BY <1>2, <2>2, Zenon DEF Quiet
  <2>4. Moves(w, x, <<>>) /\ <<>> \in Seq(Frames)
    BY <2>3, QuietMoves, EmptyAndControl
  <2>5. Steady(w, x, <<>>) /\ ~Carries(<<>>, "AF")
    <3>1. w.phase = x.phase
      BY <1>2, <2>2, Zenon DEF Active
    <3> QED BY <3>1, SteadyMoves, NoAF
  <2> QED BY <2>1, <2>4, <2>5, Zenon
<1>3. CASE ~x.abort /\ x.left # 0
  <2> DEFINE z == [x EXCEPT !.left = @ - 1]
  <2>1. Become(s, q, z, yapp[s], <<Frame(x.file, x.left)>>)
    BY <1>3, Zenon DEF PumpNextFrame
  <2>2. x.left \in 0 .. Planned /\ x.file \in FileIds
    BY DEF Xfers
  <2>3. x.left \in 1 .. Planned /\ x.left - 1 \in 0 .. Planned /\ Planned \in Nat
    BY <2>2, <1>3, YappAssumption DEF Planned
  <2>4. /\ z \in Xfers /\ z.file = x.file /\ z.left = x.left - 1 /\ z.phase = "active"
        /\ z.dir = "tx"
    <3>1. z \in Xfers /\ z.file = x.file /\ z.left = x.left - 1 /\ z.phase = "active"
      BY <2>3, SetLeft DEF Active
    <3>2. z.dir = "tx"
      BY DEF Xfers, Active
    <3> QED BY <3>1, <3>2
  <2>5. <<Frame(x.file, x.left)>> \in Seq(Frames)
    BY <2>2, <2>3, FileFrames
  <2>6. Moves(w, z, <<Frame(x.file, x.left)>>)
    <3>1. CASE x.left = Planned
      <4>1. z.left = Planned - 1
        BY <2>4, <3>1
      <4> QED BY <4>1, <2>4, <3>1, Zenon DEF Moves
    <3>2. CASE Active(w) /\ w.left = x.left /\ x.left \in 0 .. Planned - 1
      <4>1. x.left \in 1 .. Planned - 1
        BY <2>3, <3>2
      <4> QED BY <4>1, <2>4, <3>2, Zenon DEF Moves
    <3> QED BY <3>1, <3>2
  <2>7. Steady(w, z, <<Frame(x.file, x.left)>>)
    <3>1. CASE w.phase = "awaiting_rr" /\ x.left = Planned
      BY <2>4, <3>1, Zenon DEF Steady
    <3>2. CASE Active(w) /\ w.left = x.left /\ x.left \in 0 .. Planned - 1
      <4>1. Frame(x.file, x.left).kind # "HD"
        BY <2>3, <3>2 DEF Frame, Control, Data
      <4>2. ~Carries(<<Frame(x.file, x.left)>>, "HD")
        BY <4>1, CarriesOne, Zenon
      <4>3. w.phase # "awaiting_rr" /\ z.phase # "awaiting_rr"
        BY <2>4, <3>2 DEF Active
      <4> QED BY <2>4, <4>2, <4>3, Zenon DEF Steady
    <3> QED BY <3>1, <3>2
  <2>8. ~Carries(<<Frame(x.file, x.left)>>, "AF")
    <3>1. Frame(x.file, x.left).kind # "AF"
      BY DEF Frame, Control, Data
    <3> QED BY <3>1, CarriesOne, Zenon
  <2> QED BY <2>1, <2>4, <2>5, <2>6, <2>7, <2>8, Zenon
<1> QED BY <1>1, <1>2, <1>3, Zenon

LEMMA CountMoves ==
    ASSUME Sessions, NEW s \in Stations, NEW q, CountBurst(s, q)
    PROVE  \E z \in Xfers, msgs \in Seq(Frames) :
               /\ Become(s, q, z, yapp[s], msgs) /\ Moves(xfer[s], z, msgs)
               /\ Steady(xfer[s], z, msgs) /\ ~Carries(msgs, "AF")
<1> DEFINE x == [xfer[s] EXCEPT !.sent = @ + 1]
<1>0. xfer[s] \in Xfers /\ Accounted(xfer[s]) /\ <<>> \in Seq(Frames)
  BY SessionFacts, EmptyAndControl
<1>1. CASE ~Pumping(s)
  <2>1. Become(s, q, xfer[s], yapp[s], <<>>)
    BY <1>1, Zenon DEF CountBurst
  <2>2. Moves(xfer[s], xfer[s], <<>>) /\ Steady(xfer[s], xfer[s], <<>>) /\ ~Carries(<<>>, "AF")
    BY QuietMoves, QuietEnds, SteadyMoves, NoAF
  <2> QED BY <2>1, <2>2, <1>0, Zenon
<1>2. CASE Pumping(s)
  <2>1. /\ xfer[s].dir = "tx" /\ xfer[s].phase = "active" /\ Active(xfer[s])
        /\ xfer[s].sent + xfer[s].left + 1 = Planned
    BY <1>2, <1>0 DEF Pumping, Accounted, Active
  <2>2. /\ xfer[s].left \in 0 .. Planned - 1 /\ xfer[s].sent + 1 \in 0 .. Planned
        /\ Planned \in Nat
    <3>1. xfer[s].sent \in 0 .. Planned /\ xfer[s].left \in 0 .. Planned
      BY <1>0 DEF Xfers
    <3> QED BY <3>1, <2>1, YappAssumption DEF Planned
  <2>3. /\ x \in Xfers /\ x.dir = "tx" /\ x.phase = "active" /\ x.file = xfer[s].file
        /\ x.left = xfer[s].left /\ x.sent \in 0 .. Planned
    BY <2>1, <2>2, <1>0, SetSent
  <2>4. CASE x.sent >= Planned
    <3> DEFINE z == [x EXCEPT !.phase = "awaiting_af"]
    <3>1. ~(x.sent < Planned)
      BY <2>2, <2>3, <2>4
    <3>2. Become(s, q, z, yapp[s], <<>>)
      BY <1>2, <3>1, Zenon DEF CountBurst
    <3>3. z \in Xfers /\ z.phase = "awaiting_af" /\ z.file = x.file
      BY <2>3, SetPhase
    <3>4. Quiet(xfer[s], z)
      BY <3>3 DEF Quiet, Active
    <3>5. Moves(xfer[s], z, <<>>)
      BY <3>4, QuietMoves
    <3>6. Steady(xfer[s], z, <<>>) /\ ~Carries(<<>>, "AF")
      <4>1. xfer[s].phase # "awaiting_rr" /\ z.phase # "awaiting_rr"
        BY <3>3, <2>1
      <4> QED BY <4>1, <3>3, <2>1, <2>3, CarriesOne, Zenon DEF Steady
    <3> QED BY <3>2, <3>3, <3>5, <3>6, <1>0, Zenon
  <2>5. CASE ~(x.sent >= Planned)
    <3>1. PumpNextFrame(s, q, x)
      BY <1>2, <2>5, Zenon DEF CountBurst
    <3>2. Active(x)
      BY <2>3, Zenon DEF Active
    <3> HIDE DEF x
    <3>3. PICK z \in Xfers, msgs \in Seq(Frames) :
              /\ Become(s, q, z, yapp[s], msgs) /\ Moves(xfer[s], z, msgs)
              /\ Steady(xfer[s], z, msgs) /\ ~Carries(msgs, "AF")
      BY <3>1, <3>2, <2>1, <2>2, <2>3, PumpMoves
    <3> QED BY <3>3, Zenon
  <2> QED BY <2>4, <2>5, Zenon
<1> QED BY <1>1, <1>2, Zenon

(* A step that leaves the air alone *)
LEMMA QuietAir ==
    ASSUME IInv, Orderly, NEW s \in Stations, NEW x \in Xfers, NEW y \in Receptions,
           NEW msgs \in Seq(Frames), Become(s, handed[s], x, y, msgs),
           UNCHANGED <<up, lost, air>>, Moves(xfer[s], x, msgs),
           ~up /\ x.dir = "tx" => xfer[s].dir = "tx" /\ x.file = xfer[s].file,
           y = yapp[s] \/ ~y.open
    PROVE  Orderly'
<1>1. air[s] \in Seq(Frames) /\ handed[s] \in Seq(Frames)
  BY DEF IInv, Sessions, Rest
<1>2. /\ air'[s] \in Seq(Frames) /\ air'[s] \o handed[s] = air[s] \o handed[s]
      /\ air'[Peer(s)] = air[Peer(s)]
  BY <1>1, Zenon
<1> QED BY <1>1, <1>2, OwnStep

LEMMA SendFileOrder ==
    ASSUME IInv, Orderly, NEW s \in Stations, SendFile(s) PROVE Orderly'
<1> DEFINE x == [NoXfer EXCEPT !.dir = "tx", !.phase = "awaiting_rr", !.file = files + 1]
<1>1. files + 1 \in FileIds
  BY YappAssumption DEF IInv, Rest, SendFile, FileIds
<1>2. x \in Xfers /\ x.phase = "awaiting_rr"
  BY <1>1, SoundNoXfer, SetOffer DEF SoundXfer
<1>3. Become(s, handed[s], x, yapp[s], <<Control("SI")>>) /\ up /\ UNCHANGED <<up, lost, air>>
  BY Zenon DEF SendFile
<1> HIDE DEF x
<1>4. Moves(xfer[s], x, <<Control("SI")>>)
  <2>1. Quiet(xfer[s], x)
    BY <1>2 DEF Quiet, Active
  <2> QED BY <2>1, QuietMoves
<1>5. yapp[s] \in Receptions /\ <<Control("SI")>> \in Seq(Frames)
  BY SessionFacts, EmptyAndControl DEF IInv
<1> QED BY <1>2, <1>3, <1>4, <1>5, QuietAir

(* A step of the sender or of the operator of s *)
OwnMove(s) ==
    \E q \in Seq(Frames), x \in Xfers, y \in Receptions, msgs \in Seq(Frames) :
        /\ Become(s, q, x, y, msgs)
        /\ air'[s] \in Seq(Frames) /\ air'[s] \o q = air[s] \o handed[s]
        /\ air'[Peer(s)] = air[Peer(s)]
        /\ Moves(xfer[s], x, msgs) /\ Steady(xfer[s], x, msgs) /\ ~Carries(msgs, "AF")
        /\ y = yapp[s] \/ ~y.open

LEMMA OwnOrder ==
    ASSUME IInv, Orderly, NEW s \in Stations, OwnMove(s), UNCHANGED <<up, lost>>
    PROVE  Orderly'
<1>1. PICK q \in Seq(Frames), x \in Xfers, y \in Receptions, msgs \in Seq(Frames) :
          /\ Become(s, q, x, y, msgs)
          /\ air'[s] \in Seq(Frames) /\ air'[s] \o q = air[s] \o handed[s]
          /\ air'[Peer(s)] = air[Peer(s)]
          /\ Moves(xfer[s], x, msgs) /\ Steady(xfer[s], x, msgs)
          /\ y = yapp[s] \/ ~y.open
  BY Zenon DEF OwnMove
<1>2. x.dir = "tx" => xfer[s].dir = "tx" /\ x.file = xfer[s].file
  BY <1>1, Zenon DEF Steady
<1> QED BY <1>1, <1>2, OwnStep

LEMMA QuietMove ==
    ASSUME IInv, NEW s \in Stations, NEW x \in Xfers, NEW y \in Receptions,
           NEW msgs \in Seq(Frames), Become(s, handed[s], x, y, msgs), UNCHANGED air,
           Moves(xfer[s], x, msgs), Steady(xfer[s], x, msgs), ~Carries(msgs, "AF"),
           y = yapp[s] \/ ~y.open
    PROVE  OwnMove(s)
<1>1. air[s] \in Seq(Frames) /\ handed[s] \in Seq(Frames)
  BY DEF IInv, Sessions, Rest
<1>2. /\ air'[s] \in Seq(Frames) /\ air'[s] \o handed[s] = air[s] \o handed[s]
      /\ air'[Peer(s)] = air[Peer(s)]
  BY <1>1, Zenon
<1> QED BY <1>1, <1>2, Zenon DEF OwnMove

LEMMA EncodeMove ==
    ASSUME IInv, NEW s \in Stations, Encode(s) PROVE OwnMove(s)
<1>1. handed[s] \in Seq(Frames) /\ handed[s] # <<>> /\ air[s] \in Seq(Frames)
      /\ yapp[s] \in Receptions /\ Sessions
  BY SessionFacts DEF IInv, Rest, Encode
<1>2. Tail(handed[s]) \in Seq(Frames) /\ Append(air[s], Head(handed[s])) \in Seq(Frames)
  BY <1>1
<1>3. PICK z \in Xfers, msgs \in Seq(Frames) :
          /\ Become(s, Tail(handed[s]), z, yapp[s], msgs) /\ Moves(xfer[s], z, msgs)
          /\ Steady(xfer[s], z, msgs) /\ ~Carries(msgs, "AF")
  <2>1. CountBurst(s, Tail(handed[s]))
    BY Zenon DEF Encode
  <2> QED BY <2>1, <1>1, CountMoves
<1>4. air'[s] = Append(air[s], Head(handed[s])) /\ air'[Peer(s)] = air[Peer(s)]
  <2>1. air' = [air EXCEPT ![s] = Append(@, Head(handed[s]))]
    BY Zenon DEF Encode
  <2> QED BY <2>1, TwoStations, Zenon DEF IInv, Rest
<1>5. Append(air[s], Head(handed[s])) \o Tail(handed[s]) = air[s] \o handed[s]
  BY <1>1, Moved, Zenon
<1>6. air'[s] \in Seq(Frames) /\ air'[s] \o Tail(handed[s]) = air[s] \o handed[s]
  BY <1>2, <1>4, <1>5, Zenon
<1> QED BY <1>1, <1>2, <1>3, <1>4, <1>6, Zenon DEF OwnMove

LEMMA OtherBurstMove ==
    ASSUME IInv, NEW s \in Stations, OtherBurst(s) PROVE OwnMove(s)
<1>1. yapp[s] \in Receptions /\ Sessions
  BY SessionFacts DEF IInv
<1>2. CountBurst(s, handed[s]) /\ UNCHANGED air
  BY Zenon DEF OtherBurst
<1>3. PICK z \in Xfers, msgs \in Seq(Frames) :
          /\ Become(s, handed[s], z, yapp[s], msgs) /\ Moves(xfer[s], z, msgs)
          /\ Steady(xfer[s], z, msgs) /\ ~Carries(msgs, "AF")
  BY <1>1, <1>2, CountMoves
<1> QED BY <1>1, <1>2, <1>3, QuietMove

(* The session ends, and its peer is told or not. *)
LEMMA EndMove ==
    ASSUME IInv, NEW s \in Stations, NEW y \in Receptions, y = yapp[s] \/ ~y.open,
           NEW msgs, msgs \in {<<>>, <<Control("CN")>>},
           Become(s, handed[s], NoXfer, y, msgs), UNCHANGED air
    PROVE  OwnMove(s)
<1>1. NoXfer \in Xfers /\ NoXfer.dir # "tx"
  <2>1. NoXfer.dir # "tx"
    BY DEF NoXfer
  <2> QED BY <2>1, SoundNoXfer DEF SoundXfer
<1>2. msgs \in Seq(Frames) /\ Moves(xfer[s], NoXfer, msgs)
  BY EmptyAndControl, QuietMoves, QuietEnds
<1>3. Steady(xfer[s], NoXfer, msgs) /\ ~Carries(msgs, "AF")
  BY <1>1, SteadyMoves, NoAF
<1> QED BY <1>1, <1>2, <1>3, QuietMove

LEMMA NoMove ==
    ASSUME IInv, NEW s \in Stations, UNCHANGED <<xfer, yapp, handed, air>> PROVE OwnMove(s)
<1>1. Sessions /\ xfer[s] \in Xfers /\ yapp[s] \in Receptions
  BY SessionFacts DEF IInv
<1>2. Become(s, handed[s], xfer[s], yapp[s], <<>>)
  BY <1>1, BecomeNothing
<1>3. /\ Moves(xfer[s], xfer[s], <<>>) /\ Steady(xfer[s], xfer[s], <<>>)
      /\ ~Carries(<<>>, "AF") /\ <<>> \in Seq(Frames)
  BY QuietMoves, QuietEnds, SteadyMoves, NoAF, EmptyAndControl
<1> QED BY <1>1, <1>2, <1>3, QuietMove

LEMMA SameOrder ==
    ASSUME IInv, Orderly, UNCHANGED <<xfer, yapp, handed, air, up, lost>> PROVE Orderly'
<1>1. Arriving'
  BY Zenon DEF Orderly, Arriving
<1>2. Down' /\ Prefixes'
  BY Zenon DEF Orderly, Down, Prefixes
<1> QED BY <1>1, <1>2 DEF Orderly

LEMMA TimerMove ==
    ASSUME IInv, NEW s \in Stations, RrTimer(s) \/ AfTimer(s) PROVE OwnMove(s)
<1>1. UNCHANGED air
  BY Zenon DEF RrTimer, AfTimer
<1>2. \/ Become(s, handed[s], NoXfer, yapp[s], <<>>)
      \/ UNCHANGED <<xfer, yapp, handed>>
  BY Zenon DEF RrTimer, AfTimer
<1>3. yapp[s] \in Receptions
  BY SessionFacts DEF IInv
<1> QED BY <1>1, <1>2, <1>3, EndMove, NoMove

LEMMA OperatorMove ==
    ASSUME IInv, NEW s \in Stations, Operator(s) PROVE OwnMove(s)
<1>0. xfer[s] \in Xfers /\ yapp[s] \in Receptions /\ Accounted(xfer[s])
  BY SessionFacts DEF IInv
<1>1. UNCHANGED air
  BY Zenon DEF Operator, Accept, Reject, AbortSending, AbortReceiving
<1>2. CASE Accept(s)
  <2> DEFINE x == [xfer[s] EXCEPT !.phase = "active"]
  <2>1. xfer[s].phase = "awaiting_accept" /\ Become(s, handed[s], x, yapp[s], <<Control("RR")>>)
    BY <1>2, Zenon DEF Accept
  <2>2. x \in Xfers /\ x.dir = xfer[s].dir
    BY <1>0, SetPhase
  <2>3. xfer[s].dir # "tx"
    BY <2>1, Zenon DEF IInv, Sessions, Kept
  <2> HIDE DEF x
  <2>4. /\ Moves(xfer[s], x, <<Control("RR")>>) /\ Steady(xfer[s], x, <<Control("RR")>>)
        /\ ~Carries(<<Control("RR")>>, "AF") /\ <<Control("RR")>> \in Seq(Frames)
    <3>1. Quiet(xfer[s], x)
      BY <2>2, <2>3 DEF Quiet, Active
    <3>2. Steady(xfer[s], x, <<Control("RR")>>)
      BY <2>2, <2>3, SteadyMoves
    <3> QED BY <3>1, <3>2, QuietMoves, NoAF, EmptyAndControl
  <2> QED BY <2>1, <2>2, <2>4, <1>0, <1>1, QuietMove
<1>3. CASE Reject(s)
  <2>1. Become(s, handed[s], NoXfer, yapp[s], <<Control("CN")>>)
    BY <1>3, Zenon DEF Reject
  <2> QED BY <2>1, <1>0, <1>1, EndMove
<1>4. CASE AbortSending(s)
  <2> DEFINE x == [xfer[s] EXCEPT !.abort = TRUE]
  <2>1. Become(s, handed[s], x, yapp[s], <<>>)
    BY <1>4, Zenon DEF AbortSending
  <2>2. /\ x \in Xfers /\ x.dir = xfer[s].dir /\ x.phase = xfer[s].phase
        /\ x.left = xfer[s].left /\ x.file = xfer[s].file
    BY <1>0 DEF Xfers
  <2> HIDE DEF x
  <2>3. /\ Moves(xfer[s], x, <<>>) /\ Steady(xfer[s], x, <<>>)
        /\ ~Carries(<<>>, "AF") /\ <<>> \in Seq(Frames)
    <3>1. Quiet(xfer[s], x)
      BY <2>2, Zenon DEF Quiet, Active
    <3> QED BY <3>1, <2>2, QuietMoves, SteadyMoves, NoAF, EmptyAndControl
  <2> QED BY <2>1, <2>2, <2>3, <1>0, <1>1, QuietMove
<1>5. CASE AbortReceiving(s)
  <2>1. Become(s, handed[s], NoXfer, NoFile, <<Control("CN")>>)
    BY <1>5, Zenon DEF AbortReceiving
  <2>2. NoFile \in Receptions /\ ~NoFile.open
    BY NoReception DEF NoFile
  <2> QED BY <2>1, <2>2, <1>1, EndMove
<1> QED BY <1>2, <1>3, <1>4, <1>5 DEF Operator

(* Such a step, the start of a transfer apart, offers and delivers nothing. *)
Elsewhere == UNCHANGED <<up, files, complete, lost, hurried>>

LEMMA LocalMove ==
    ASSUME IInv, NEW s \in Stations, Sender(s) \/ Operator(s)
    PROVE  SendFile(s) \/ (OwnMove(s) /\ Elsewhere)
<1>1. CASE Encode(s)
  <2>1. Elsewhere
    BY <1>1, Zenon DEF Encode, doubts, Elsewhere
  <2> QED BY <1>1, <2>1, EncodeMove
<1>2. CASE OtherBurst(s)
  <2>1. Elsewhere
    BY <1>2, Zenon DEF OtherBurst, doubts, Elsewhere
  <2> QED BY <1>2, <2>1, OtherBurstMove
<1>3. CASE RrTimer(s) \/ AfTimer(s)
  <2>1. Elsewhere
    BY <1>3, Zenon DEF RrTimer, AfTimer, doubts, Elsewhere
  <2> QED BY <1>3, <2>1, TimerMove
<1>4. CASE Operator(s)
  <2>1. Elsewhere
    BY <1>4, Zenon DEF Operator, Accept, Reject, AbortSending, AbortReceiving,
                       reports, doubts, Elsewhere
  <2> QED BY <1>4, <2>1, OperatorMove
<1> QED BY <1>1, <1>2, <1>3, <1>4, Zenon DEF Sender

(* What a frame that is received does *)
PeerMove(s, m) ==
    \E x \in Xfers, y \in Receptions, msgs \in Seq(Frames) :
        /\ Become(s, handed[s], x, y, msgs)
        /\ Moves(xfer[s], x, msgs) /\ Steady(xfer[s], x, msgs) /\ Takes(m, yapp[s], y)
        /\ Carries(msgs, "AF") => m.kind = "EF" /\ yapp[s].open

LEMMA HandleMoves ==
    ASSUME Sessions, NEW s \in Stations, NEW m \in Frames, HandleFrame(s, m)
    PROVE  PeerMove(s, m)
<1>0. /\ xfer[s] \in Xfers /\ yapp[s] \in Receptions /\ NoXfer \in Xfers
      /\ NoFile \in Receptions /\ ~NoFile.open /\ <<>> \in Seq(Frames)
  <2>1. ~NoFile.open
    BY DEF NoFile
  <2> QED BY <2>1, SessionFacts, SoundNoXfer, NoReception, EmptyAndControl DEF SoundXfer
<1>n. NoXfer.dir # "tx"
  BY DEF NoXfer
<1>i. /\ Moves(xfer[s], xfer[s], <<>>) /\ Moves(xfer[s], NoXfer, <<>>)
      /\ Steady(xfer[s], xfer[s], <<>>) /\ Steady(xfer[s], NoXfer, <<>>)
      /\ ~Carries(<<>>, "AF")
  BY <1>n, QuietMoves, QuietEnds, SteadyMoves, NoAF
<1>u. ASSUME UNCHANGED <<xfer, yapp, handed>>, m.kind \notin {"HD", "DT"} \/ ~yapp[s].open
      PROVE  PeerMove(s, m)
  <2>1. Become(s, handed[s], xfer[s], yapp[s], <<>>)
    BY <1>u, BecomeNothing
  <2>2. Takes(m, yapp[s], yapp[s])
    BY <1>u, Zenon DEF Takes
  <2> QED BY <2>1, <2>2, <1>0, <1>i, Zenon DEF PeerMove
<1>1. CASE m.kind = "SI" /\ HandleSI(s)
  <2>0. Takes(m, yapp[s], yapp[s])
    BY <1>1 DEF Takes
  <2>1. CASE xfer[s].dir # "none"
    <3>1. Become(s, handed[s], xfer[s], yapp[s], <<Control("CN")>>)
      BY <1>1, <2>1, Zenon DEF HandleSI
    <3>2. /\ Moves(xfer[s], xfer[s], <<Control("CN")>>) /\ <<Control("CN")>> \in Seq(Frames)
          /\ Steady(xfer[s], xfer[s], <<Control("CN")>>) /\ ~Carries(<<Control("CN")>>, "AF")
      BY QuietMoves, QuietEnds, SteadyMoves, NoAF, EmptyAndControl
    <3> QED BY <3>1, <3>2, <2>0, <1>0, Zenon DEF PeerMove
  <2>2. CASE ~(xfer[s].dir # "none")
    <3> DEFINE x == [NoXfer EXCEPT !.dir = "rx", !.phase = "awaiting_accept"]
    <3>1. Become(s, handed[s], x, yapp[s], <<>>)
      BY <1>1, <2>2, Zenon DEF HandleSI
    <3>2. x \in Xfers /\ x.dir = "rx"
      BY <1>0, SetRequest
    <3>3. Moves(xfer[s], x, <<>>) /\ Steady(xfer[s], x, <<>>)
      <4>1. Quiet(xfer[s], x)
        BY <3>2 DEF Quiet, Active
      <4> QED BY <4>1, <3>2, QuietMoves, SteadyMoves
    <3> QED BY <3>1, <3>2, <3>3, <2>0, <1>0, <1>i, Zenon DEF PeerMove
  <2> QED BY <2>1, <2>2, Zenon
<1>2. CASE m.kind = "RR" /\ HandleRR(s)
  <2>1. CASE xfer[s].dir = "tx" /\ xfer[s].phase = "awaiting_rr"
    <3> DEFINE x == [xfer[s] EXCEPT !.phase = "active", !.left = Planned, !.sent = 0]
    <3>1. PumpNextFrame(s, handed[s], x)
      BY <1>2, <2>1, Zenon DEF HandleRR
    <3>2. /\ x \in Xfers /\ x.dir = "tx" /\ x.phase = "active" /\ x.left = Planned
          /\ x.file = xfer[s].file
      <4>1. x.file = xfer[s].file
        BY <1>0 DEF Xfers
      <4> QED BY <4>1, <2>1, <1>0, SetActive
    <3> HIDE DEF x
    <3>3. Active(x)
      BY <3>2, Zenon DEF Active
    <3>4. PICK z \in Xfers, msgs \in Seq(Frames) :
              /\ Become(s, handed[s], z, yapp[s], msgs) /\ Moves(xfer[s], z, msgs)
              /\ Steady(xfer[s], z, msgs) /\ ~Carries(msgs, "AF")
      BY <2>1, <3>1, <3>2, <3>3, PumpMoves
    <3>5. Takes(m, yapp[s], yapp[s])
      BY <1>2 DEF Takes
    <3> QED BY <3>4, <3>5, <1>0, Zenon DEF PeerMove
  <2>2. CASE ~(xfer[s].dir = "tx" /\ xfer[s].phase = "awaiting_rr")
    <3>1. UNCHANGED <<xfer, yapp, handed>>
      BY <1>2, <2>2, Zenon DEF HandleRR
    <3> QED BY <3>1, <1>2, <1>u
  <2> QED BY <2>1, <2>2, Zenon
<1>3. CASE m.kind = "AF" /\ HandleAF(s)
  <2>1. \/ Become(s, handed[s], NoXfer, yapp[s], <<>>)
        \/ UNCHANGED <<xfer, yapp, handed>>
    BY <1>3, Zenon DEF HandleAF
  <2>2. Takes(m, yapp[s], yapp[s])
    BY <1>3 DEF Takes
  <2>3. CASE Become(s, handed[s], NoXfer, yapp[s], <<>>)
    BY <2>2, <2>3, <1>0, <1>i, Zenon DEF PeerMove
  <2>4. CASE UNCHANGED <<xfer, yapp, handed>>
    BY <2>4, <1>3, <1>u
  <2> QED BY <2>1, <2>3, <2>4, Zenon
<1>4. CASE m.kind = "HD" /\ HandleHD(s, m)
  <2> DEFINE x == [xfer[s] EXCEPT !.dir = "rx", !.file = m.file]
             y == [open |-> TRUE, file |-> m.file, buf |-> <<>>]
  <2>1. Become(s, handed[s], x, y, <<Control("RF")>>)
    BY <1>4, Zenon DEF HandleHD
  <2>2. m.file \in FileIds
    BY YappAssumption DEF Frames, FileIds
  <2>3. x \in Xfers /\ x.dir = "rx"
    BY <2>2, <1>0, SetHeader
  <2>4. y \in Receptions
    BY <2>2, EmptyAndControl DEF Receptions
  <2>5. Takes(m, yapp[s], y)
    BY <1>4 DEF Takes
  <2> HIDE DEF x, y
  <2>6. /\ Moves(xfer[s], x, <<Control("RF")>>) /\ <<Control("RF")>> \in Seq(Frames)
        /\ Steady(xfer[s], x, <<Control("RF")>>) /\ ~Carries(<<Control("RF")>>, "AF")
    <3>1. Quiet(xfer[s], x)
      BY <2>3 DEF Quiet, Active
    <3>2. Steady(xfer[s], x, <<Control("RF")>>)
      BY <2>3, SteadyMoves
    <3> QED BY <3>1, <3>2, QuietMoves, NoAF, EmptyAndControl
  <2> QED BY <2>1, <2>3, <2>4, <2>5, <2>6, Zenon DEF PeerMove
<1>5. CASE m.kind = "DT" /\ HandleDT(s, m)
  <2>1. CASE yapp[s].open
    <3> DEFINE y == [yapp[s] EXCEPT !.buf = Append(@, m)]
    <3>1. Become(s, handed[s], xfer[s], y, <<>>)
      BY <1>5, <2>1, Zenon DEF HandleDT
    <3>2. y \in Receptions /\ y.file = yapp[s].file /\ y.buf = Append(yapp[s].buf, m)
      <4>1. Append(yapp[s].buf, m) \in Seq(Frames)
        BY <1>0 DEF Receptions
      <4> QED BY <4>1, <1>0 DEF Receptions
    <3> HIDE DEF y
    <3>3. Takes(m, yapp[s], y)
      BY <3>2, <1>5, <2>1, Zenon DEF Takes
    <3> QED BY <3>1, <3>2, <3>3, <1>0, <1>i, Zenon DEF PeerMove
  <2>2. CASE ~yapp[s].open
    <3>1. UNCHANGED <<xfer, yapp, handed>>
      BY <1>5, <2>2, Zenon DEF HandleDT
    <3> QED BY <3>1, <2>2, <1>u
  <2> QED BY <2>1, <2>2, Zenon
<1>e. \A y : Takes(m, y, NoFile)
  BY <1>0, Zenon DEF Takes
<1>6. CASE m.kind = "EF" /\ HandleEF(s)
  <2>1. \/ Become(s, handed[s], NoXfer, NoFile, <<Control("AF")>>) /\ yapp[s].open
        \/ UNCHANGED <<xfer, yapp, handed>>
    BY <1>6, Zenon DEF HandleEF
  <2>2. /\ Moves(xfer[s], NoXfer, <<Control("AF")>>) /\ <<Control("AF")>> \in Seq(Frames)
        /\ Steady(xfer[s], NoXfer, <<Control("AF")>>)
    BY <1>n, QuietMoves, QuietEnds, SteadyMoves, EmptyAndControl
  <2>3. CASE Become(s, handed[s], NoXfer, NoFile, <<Control("AF")>>) /\ yapp[s].open
    BY <2>2, <2>3, <1>0, <1>6, <1>e, Zenon DEF PeerMove
  <2>4. CASE UNCHANGED <<xfer, yapp, handed>>
    BY <2>4, <1>6, <1>u
  <2> QED BY <2>1, <2>3, <2>4, Zenon
<1>7. CASE m.kind = "CN" /\ HandleCN(s)
  <2>1. \/ Become(s, handed[s], NoXfer, NoFile, <<>>)
        \/ UNCHANGED <<xfer, yapp, handed>>
    BY <1>7, Zenon DEF HandleCN
  <2>3. CASE Become(s, handed[s], NoXfer, NoFile, <<>>)
    BY <2>3, <1>0, <1>e, <1>i, Zenon DEF PeerMove
  <2>4. CASE UNCHANGED <<xfer, yapp, handed>>
    BY <2>4, <1>7, <1>u
  <2> QED BY <2>1, <2>3, <2>4, Zenon
<1>8. CASE m.kind = "RF" /\ HandleRF
  <2>1. UNCHANGED <<xfer, yapp, handed>>
    BY <1>8, Zenon DEF HandleRF
  <2> QED BY <2>1, <1>8, <1>u
<1> QED BY <1>1, <1>2, <1>3, <1>4, <1>5, <1>6, <1>7, <1>8, Zenon DEF HandleFrame

LEMMA RxDataOrder ==
    ASSUME IInv, Orderly, NEW s \in Stations, RxData(s) PROVE Orderly'
<1>1. /\ air[Peer(s)] # <<>> /\ air' = [air EXCEPT ![Peer(s)] = Tail(@)]
      /\ HandleFrame(s, Head(air[Peer(s)])) /\ UNCHANGED <<up, lost>>
  BY Zenon DEF RxData, doubts
<1>2. Head(air[Peer(s)]) \in Frames
  <2>1. air[Peer(s)] \in Seq(Frames)
    BY TwoStations DEF IInv, Rest
  <2> QED BY <2>1, <1>1
<1>3. PICK x \in Xfers, y \in Receptions, msgs \in Seq(Frames) :
          /\ Become(s, handed[s], x, y, msgs)
          /\ Moves(xfer[s], x, msgs) /\ Takes(Head(air[Peer(s)]), yapp[s], y)
  <2>1. Sessions
    BY Zenon DEF IInv
  <2>2. PeerMove(s, Head(air[Peer(s)]))
    BY <2>1, <1>1, <1>2, HandleMoves
  <2> QED BY <2>2, Zenon DEF PeerMove
<1> QED BY <1>1, <1>3, PeerStep

(* The link *)
LEMMA PrefixLost ==
    ASSUME NEW y, NEW L, Prefix(y, L), NEW M, L \subseteq M PROVE Prefix(y, M)
BY Zenon DEF Prefix

LEMMA LossOrder ==
    ASSUME IInv, Orderly, LoseLink, \A t \in Stations : handed'[t] = <<>>,
           \A t \in Stations : xfer'[t] = xfer[t] \/ xfer'[t] = NoXfer,
           \A t \in Stations : yapp'[t] = yapp[t] \/ yapp'[t] = NoFile
    PROVE  Orderly'
<1>0. /\ NoXfer.dir # "tx" /\ ~NoFile.open /\ NoXfer \in Xfers /\ NoFile \in Receptions
  <2>1. NoXfer.dir # "tx" /\ ~NoFile.open
    BY DEF NoXfer, NoFile
  <2> QED BY <2>1, SoundNoXfer, NoReception DEF SoundXfer
<1>1. /\ \A t \in Stations : air'[t] = <<>>
      /\ lost' = lost \cup UnderWay /\ lost \subseteq lost' /\ ~up'
  BY DEF LoseLink
<1>2. ASSUME NEW t \in Stations
      PROVE  /\ xfer'[t] \in Xfers /\ yapp'[t] \in Receptions
             /\ xfer'[t].dir = "tx" => xfer'[t].file \in lost'
             /\ yapp'[t].open => yapp'[t].file \in lost'
             /\ Prefix(yapp'[t], lost')
  <2>1. xfer'[t] \in Xfers /\ yapp'[t] \in Receptions
    BY <1>0, Zenon DEF IInv, Sessions
  <2>2. /\ xfer[t].dir = "tx" => xfer[t].file \in lost'
        /\ yapp[t].open => yapp[t].file \in lost'
    BY <1>1 DEF UnderWay
  <2>3. Prefix(yapp[t], lost')
    BY <1>1, PrefixLost, Zenon DEF Orderly, Prefixes
  <2>4. Prefix(NoFile, lost')
    BY <1>0, Zenon DEF Prefix
  <2> QED BY <2>1, <2>2, <2>3, <2>4, <1>0, Zenon
<1>3. ASSUME NEW t \in Stations
      PROVE  Continues(air'[t] \o handed'[t], xfer'[t], yapp'[Peer(t)], lost')
  <2>1. air'[t] \o handed'[t] = <<>>
    <3>1. air'[t] = <<>> /\ handed'[t] = <<>>
      BY <1>1, Zenon
    <3> QED BY <3>1
  <2>2. Active(xfer'[t]) => xfer'[t].file \in lost'
    BY <1>2, Zenon DEF Active
  <2>3. Peer(t) \in Stations
    BY TwoStations
  <2>4. Continues(<<>>, xfer'[t], yapp'[Peer(t)], lost')
    BY <1>2, <2>2, <2>3, NothingOnItsWay
  <2> QED BY <2>1, <2>4, Zenon
<1>4. Arriving' /\ Down' /\ Prefixes'
  BY <1>1, <1>2, <1>3, Zenon DEF Arriving, Down, Prefixes
<1> QED BY <1>4 DEF Orderly

LEMMA LinkOrder ==
    ASSUME IInv, Orderly, Link PROVE Orderly' /\ UNCHANGED complete /\ lost \subseteq lost'
<1>1. CASE LinkTerminated
  <2>1. LoseLink /\ \A t \in Stations : handed'[t] = <<>>
    BY <1>1 DEF LinkTerminated
  <2>2. UNCHANGED <<xfer, yapp, complete>>
    BY <1>1, Zenon DEF LinkTerminated, reports
  <2>3. lost \subseteq lost'
    BY <2>1 DEF LoseLink
  <2>4. Orderly'
    BY <2>1, <2>2, LossOrder
  <2> QED BY <2>2, <2>3, <2>4, Zenon
<1>2. ASSUME NEW s \in Stations, TermClose(s)
      PROVE  Orderly' /\ UNCHANGED complete /\ lost \subseteq lost'
  <2>1. LoseLink /\ \A t \in Stations : handed'[t] = <<>>
    BY <1>2 DEF TermClose
  <2>2. /\ xfer' = [xfer EXCEPT ![s] = NoXfer] /\ yapp' = [yapp EXCEPT ![s] = NoFile]
        /\ UNCHANGED complete
    BY <1>2, Zenon DEF TermClose, reports
  <2>3. /\ \A t \in Stations : xfer'[t] = xfer[t] \/ xfer'[t] = NoXfer
        /\ \A t \in Stations : yapp'[t] = yapp[t] \/ yapp'[t] = NoFile
    BY <2>2, Zenon DEF IInv, Sessions
  <2>4. lost \subseteq lost'
    BY <2>1 DEF LoseLink
  <2>5. Orderly'
    BY <2>1, <2>3, LossOrder
  <2> QED BY <2>2, <2>4, <2>5, Zenon
<1>3. CASE LinkEstablished
  <2>1. up' /\ UNCHANGED <<xfer, yapp, handed, air, lost, complete>>
    BY <1>3, Zenon DEF LinkEstablished, reports, doubts
  <2>2. Arriving'
    BY <2>1, Zenon DEF Orderly, Arriving
  <2>3. Down' /\ Prefixes'
    BY <2>1, Zenon DEF Orderly, Down, Prefixes
  <2> QED BY <2>1, <2>2, <2>3 DEF Orderly
<1> QED BY <1>1, <1>2, <1>3 DEF Link

-----------------------------------------------------------------------------
(* What is announced as complete *)
LEMMA KeptWhole ==
    ASSUME CompleteFilesAreWhole, UNCHANGED complete, lost \subseteq lost'
    PROVE  CompleteFilesAreWhole'
BY Zenon DEF CompleteFilesAreWhole

LEMMA RxDataWhole ==
    ASSUME IInv, Orderly, CompleteFilesAreWhole, NEW s \in Stations, RxData(s)
    PROVE  CompleteFilesAreWhole'
<1> DEFINE p == Peer(s)
           y == yapp[s]
           m == Head(air[p])
<1>1. air[p] # <<>> /\ HandleFrame(s, m) /\ lost' = lost
  BY Zenon DEF RxData, doubts
<1>2. p \in Stations /\ Peer(p) = s /\ air[p] \in Seq(Frames) /\ handed[p] \in Seq(Frames)
      /\ y \in Receptions
  <2>1. p \in Stations /\ Peer(p) = s
    BY TwoStations
  <2> QED BY <2>1 DEF IInv, Sessions, Rest
<1>3. CASE UNCHANGED complete
  BY <1>1, <1>3, KeptWhole
<1>4. CASE /\ m.kind = "EF" /\ y.open
           /\ complete' = complete \cup {[file |-> y.file, buf |-> y.buf]}
  <2>1. y.file \in lost \/ y.buf = Whole(y.file)
    <3>1. SUFFICES ASSUME y.file \notin lost PROVE y.buf = Whole(y.file)
      OBVIOUS
    <3>2. PICK v \in Seq(Frames) : v = air[p] \o handed[p] /\ v # <<>> /\ Head(v) = m
      BY <1>1, <1>2, Joined, TakenOff, Zenon
    <3>3. Continues(v, xfer[p], y, lost)
      BY <1>2, <3>2, Zenon DEF Orderly, Arriving
    <3>4. Len(y.buf) = Chunks
      BY <3>1, <3>2, <3>3, <1>4, FrameFits
    <3>5. PICK b \in Seq(Frames) : b = y.buf
      BY <1>2 DEF Receptions
    <3>6. \A i \in 1 .. Chunks : b[i] = Data(y.file, i)
      BY <3>1, <3>4, <3>5, <1>4, Zenon DEF Orderly, Prefixes, Prefix
    <3>7. b = [i \in 1 .. Chunks |-> b[i]]
      <4>1. Len(b) = Chunks
        BY <3>4, <3>5
      <4> QED BY <4>1
    <3> QED BY <3>5, <3>6, <3>7 DEF Whole
  <2>2. ASSUME NEW c \in complete' PROVE c.buf = Whole(c.file) \/ c.file \in lost
    <3>1. CASE c \in complete
      BY <3>1, Zenon DEF CompleteFilesAreWhole
    <3>2. CASE c = [file |-> y.file, buf |-> y.buf]
      <4>1. c.file = y.file /\ c.buf = y.buf
        BY <3>2
      <4> QED BY <4>1, <2>1, Zenon
    <3> QED BY <2>2, <3>1, <3>2, <1>4, Zenon
  <2>3. \A c \in complete' : c.buf = Whole(c.file) \/ c.file \in lost'
    BY <2>2, <1>1, Zenon
  <2> QED BY <2>3, Zenon DEF CompleteFilesAreWhole, Whole
<1>5. \/ UNCHANGED complete
      \/ /\ m.kind = "EF" /\ y.open
         /\ complete' = complete \cup {[file |-> y.file, buf |-> y.buf]}
  <2>1. CASE m.kind = "EF" /\ HandleEF(s)
    BY <2>1, Zenon DEF HandleEF, reports
  <2>2. CASE \/ HandleSI(s) \/ HandleRR(s) \/ HandleAF(s) \/ HandleHD(s, m)
             \/ HandleDT(s, m) \/ HandleCN(s) \/ HandleRF
    BY <2>2, Zenon DEF HandleSI, HandleRR, HandleAF, HandleHD, HandleDT, HandleCN,
                       HandleRF, reports
  <2> QED BY <2>1, <2>2, <1>1, Zenon DEF HandleFrame
<1> QED BY <1>3, <1>4, <1>5, Zenon

LEMMA InitOrder == Init => Orderly /\ CompleteFilesAreWhole
<1> SUFFICES ASSUME Init PROVE Orderly /\ CompleteFilesAreWhole
  OBVIOUS
<1>1. /\ NoXfer.dir # "tx" /\ ~NoFile.open /\ NoXfer \in Xfers /\ NoFile \in Receptions
  <2>1. NoXfer.dir # "tx" /\ ~NoFile.open
    BY DEF NoXfer, NoFile
  <2> QED BY <2>1, SoundNoXfer, NoReception DEF SoundXfer
<1>2. \A s \in Stations : /\ xfer[s] = NoXfer /\ yapp[s] = NoFile
                          /\ air[s] = <<>> /\ handed[s] = <<>>
  BY DEF Init
<1>3. Continues(<<>>, NoXfer, NoFile, lost)
  <2>1. ~Active(NoXfer)
    BY QuietEnds
  <2> QED BY <2>1, <1>1, NothingOnItsWay
<1>4. <<>> \o <<>> = <<>>
  OBVIOUS
<1>5. Arriving
  BY <1>2, <1>3, <1>4, TwoStations, Zenon DEF Arriving
<1>6. Prefixes
  BY <1>1, <1>2, Zenon DEF Prefixes, Prefix
<1>7. Down /\ CompleteFilesAreWhole
  BY DEF Init, Down, CompleteFilesAreWhole
<1> QED BY <1>5, <1>6, <1>7 DEF Orderly

LEMMA LocalOrder ==
    ASSUME IInv, Orderly, NEW s \in Stations, Sender(s) \/ Operator(s)
    PROVE  Orderly' /\ UNCHANGED <<complete, lost>>
<1>1. CASE SendFile(s)
  <2>1. UNCHANGED <<complete, lost>>
    BY <1>1, Zenon DEF SendFile, reports
  <2> QED BY <1>1, <2>1, SendFileOrder
<1>2. CASE OwnMove(s) /\ Elsewhere
  <2>1. UNCHANGED <<up, complete, lost>>
    BY <1>2, Zenon DEF Elsewhere
  <2> QED BY <1>2, <2>1, OwnOrder
<1> QED BY <1>1, <1>2, LocalMove

LEMMA StaysOrderly ==
    ASSUME IInv, Orderly, CompleteFilesAreWhole, [Next]_vars
    PROVE  Orderly' /\ CompleteFilesAreWhole'
<1>1. ASSUME NEW s \in Stations, Sender(s) \/ Operator(s)
      PROVE  Orderly' /\ CompleteFilesAreWhole'
  <2>1. Orderly' /\ UNCHANGED complete /\ lost' = lost
    BY <1>1, LocalOrder
  <2> QED BY <2>1, KeptWhole
<1>2. ASSUME NEW s \in Stations, RxData(s) PROVE Orderly' /\ CompleteFilesAreWhole'
  BY <1>2, RxDataOrder, RxDataWhole
<1>3. CASE UNCHANGED vars
  <2>1. Orderly'
    BY <1>3, SameOrder, Zenon DEF vars, doubts
  <2>2. UNCHANGED complete /\ lost' = lost
    BY <1>3, Zenon DEF vars, reports, doubts
  <2> QED BY <2>1, <2>2, KeptWhole
<1>4. CASE Link
  BY <1>4, LinkOrder, KeptWhole
<1> QED BY <1>1, <1>2, <1>3, <1>4, Zenon DEF Next

LEMMA InOrder == Spec => [](IInv /\ Orderly /\ CompleteFilesAreWhole)
BY Inductive, InitOrder, StaysOrderly, PTL DEF Spec

(* For every length of a file, every number of files and whatever is aborted,
   refused or answered late: a file announced as complete has all its chunks,
   in order, unless the link was lost while it was under way. *)
THEOREM FilesAreWhole == Spec => []CompleteFilesAreWhole
BY InOrder, PTL

-----------------------------------------------------------------------------
(* Files reported as sent.  An AF names no file: that the one that ends a
   transfer answers its file follows from what is on its way in both
   directions.  Unless the file is in doubt, an AF on its way to its sender
   means that it was delivered; the headers on their way from the sender are
   its own; and the receiver finds no EF before one of them, unless it is
   reading that file already. *)
Delivered == {c.file : c \in complete}

Headed(q, S) == \A i \in DOMAIN q : q[i].kind = "HD" => q[i].file \in S

Ready(q, y, f) ==
    \/ \E i \in DOMAIN q : q[i].kind = "HD" /\ \A j \in 1 .. i : q[j].kind # "EF"
    \/ y.open => y.file = f

(* x: the transfer; q, v: what is on its way from its sender and to it; y: the
   reception at the other side; W: the files in doubt; D: those delivered *)
Trusts(x, q, v, y, W, D) ==
    x.dir = "tx" /\ x.file \notin W =>
        /\ Carries(v, "AF") => x.file \in D
        /\ Headed(q, {x.file})
        /\ x.phase = "awaiting_rr" => ~Carries(q, "HD") /\ ~Carries(q, "EF")
        /\ x.phase # "awaiting_rr" => Ready(q, y, x.file)

LEMMA JoinedAt ==
    ASSUME NEW q \in Seq(Frames), NEW r \in Seq(Frames)
    PROVE  /\ DOMAIN q = 1 .. Len(q) /\ DOMAIN r = 1 .. Len(r) /\ Len(q) \in Nat
           /\ DOMAIN (q \o r) = 1 .. Len(q) + Len(r) /\ Len(r) \in Nat
           /\ \A i \in 1 .. Len(q) : (q \o r)[i] = q[i]
           /\ \A i \in 1 .. Len(r) : (q \o r)[Len(q) + i] = r[i]
           /\ \A i \in Len(q) + 1 .. Len(q) + Len(r) : (q \o r)[i] = r[i - Len(q)]
OBVIOUS

LEMMA TailAt ==
    ASSUME NEW q \in Seq(Frames), q # <<>>
    PROVE  /\ DOMAIN q = 1 .. Len(q) /\ DOMAIN Tail(q) = 1 .. Len(q) - 1 /\ Len(q) \in Nat \ {0}
           /\ Tail(q) \in Seq(Frames) /\ Head(q) = q[1]
           /\ \A i \in 1 .. Len(q) - 1 : Tail(q)[i] = q[i + 1]
OBVIOUS

LEMMA CarriesJoined ==
    ASSUME NEW q \in Seq(Frames), NEW r \in Seq(Frames), NEW kind
    PROVE  Carries(q \o r, kind) <=> Carries(q, kind) \/ Carries(r, kind)
<1> DEFINE w == q \o r
<1>1. /\ DOMAIN q = 1 .. Len(q) /\ DOMAIN r = 1 .. Len(r) /\ Len(q) \in Nat
      /\ DOMAIN w = 1 .. Len(q) + Len(r) /\ Len(r) \in Nat
      /\ \A i \in 1 .. Len(q) : w[i] = q[i]
      /\ \A i \in 1 .. Len(r) : w[Len(q) + i] = r[i]
      /\ \A i \in Len(q) + 1 .. Len(q) + Len(r) : w[i] = r[i - Len(q)]
  BY JoinedAt
<1> HIDE DEF w
<1>2. ASSUME Carries(w, kind) PROVE Carries(q, kind) \/ Carries(r, kind)
  <2>1. PICK i \in 1 .. Len(q) + Len(r) : w[i].kind = kind
    BY <1>1, <1>2, Zenon DEF Carries
  <2>2. CASE i \in 1 .. Len(q)
    BY <2>1, <2>2, <1>1, Zenon DEF Carries
  <2>3. CASE i \in Len(q) + 1 .. Len(q) + Len(r)
    <3>1. i - Len(q) \in 1 .. Len(r)
      BY <2>3, <1>1
    <3> QED BY <2>1, <2>3, <3>1, <1>1, Zenon DEF Carries
  <2> QED BY <2>1, <2>2, <2>3, <1>1
<1>3. ASSUME Carries(q, kind) PROVE Carries(w, kind)
  <2>1. PICK i \in 1 .. Len(q) : q[i].kind = kind
    BY <1>1, <1>3, Zenon DEF Carries
  <2>2. i \in 1 .. Len(q) + Len(r)
    BY <2>1, <1>1
  <2> QED BY <2>1, <2>2, <1>1, Zenon DEF Carries
<1>4. ASSUME Carries(r, kind) PROVE Carries(w, kind)
  <2>1. PICK i \in 1 .. Len(r) : r[i].kind = kind
    BY <1>1, <1>4, Zenon DEF Carries
  <2>2. Len(q) + i \in 1 .. Len(q) + Len(r)
    BY <2>1, <1>1
  <2> QED BY <2>1, <2>2, <1>1, Zenon DEF Carries
<1> QED BY <1>2, <1>3, <1>4, Zenon DEF w

LEMMA HeadedJoined ==
    ASSUME NEW q \in Seq(Frames), NEW r \in Seq(Frames), NEW S, Headed(q, S), Headed(r, S)
    PROVE  Headed(q \o r, S)
<1> DEFINE w == q \o r
<1>1. /\ DOMAIN q = 1 .. Len(q) /\ DOMAIN r = 1 .. Len(r) /\ Len(q) \in Nat
      /\ DOMAIN w = 1 .. Len(q) + Len(r) /\ Len(r) \in Nat
      /\ \A i \in 1 .. Len(q) : w[i] = q[i]
      /\ \A i \in Len(q) + 1 .. Len(q) + Len(r) : w[i] = r[i - Len(q)]
  BY JoinedAt
<1> HIDE DEF w
<1>2. ASSUME NEW i \in 1 .. Len(q) + Len(r), w[i].kind = "HD" PROVE w[i].file \in S
  <2>1. CASE i \in 1 .. Len(q)
    BY <1>2, <2>1, <1>1, Zenon DEF Headed
  <2>2. CASE i \in Len(q) + 1 .. Len(q) + Len(r)
    <3>1. i - Len(q) \in 1 .. Len(r)
      BY <2>2, <1>1
    <3> QED BY <1>2, <2>2, <3>1, <1>1, Zenon DEF Headed
  <2> QED BY <2>1, <2>2, <1>1
<1>3. Headed(w, S)
  BY <1>1, <1>2, Zenon DEF Headed
<1> QED BY <1>3 DEF w

LEMMA ReadyJoined ==
    ASSUME NEW q \in Seq(Frames), NEW r \in Seq(Frames), NEW y, NEW f, Ready(q, y, f)
    PROVE  Ready(q \o r, y, f)
<1> DEFINE w == q \o r
<1>1. /\ DOMAIN q = 1 .. Len(q) /\ Len(q) \in Nat
      /\ DOMAIN w = 1 .. Len(q) + Len(r) /\ Len(r) \in Nat
      /\ \A i \in 1 .. Len(q) : w[i] = q[i]
  BY JoinedAt
<1> HIDE DEF w
<1>2. ASSUME NEW i \in 1 .. Len(q), q[i].kind = "HD" /\ \A j \in 1 .. i : q[j].kind # "EF"
      PROVE  Ready(w, y, f)
  <2>1. i \in 1 .. Len(q) + Len(r)
    BY <1>1
  <2>2. ASSUME NEW j \in 1 .. i PROVE w[j].kind # "EF"
    <3>1. j \in 1 .. Len(q)
      BY <1>1
    <3> QED BY <3>1, <1>1, <1>2, Zenon
  <2>3. w[i].kind = "HD"
    BY <1>1, <1>2, Zenon
  <2> QED BY <1>1, <2>1, <2>2, <2>3, Zenon DEF Ready
<1>3. Ready(w, y, f)
  BY <1>1, <1>2, Zenon DEF Ready
<1> QED BY <1>3 DEF w

(* A header after what carries no EF *)
LEMMA ReadyAfter ==
    ASSUME NEW q \in Seq(Frames), ~Carries(q, "EF"), NEW m \in Frames, m.kind = "HD",
           NEW y, NEW f
    PROVE  Ready(q \o <<m>>, y, f)
<1> DEFINE w == q \o <<m>>
           n == Len(q) + 1
<1>1. /\ DOMAIN q = 1 .. Len(q) /\ Len(q) \in Nat /\ DOMAIN w = 1 .. n
      /\ \A i \in 1 .. Len(q) : w[i] = q[i]
      /\ w[n] = m
  OBVIOUS
<1> HIDE DEF w
<1>2. n \in 1 .. n
  BY <1>1
<1>3. ASSUME NEW j \in 1 .. n PROVE w[j].kind # "EF"
  <2>1. CASE j \in 1 .. Len(q)
    BY <2>1, <1>1, Zenon DEF Carries
  <2>2. CASE j = n
    BY <2>2, <1>1
  <2> QED BY <2>1, <2>2, <1>1
<1>4. Ready(w, y, f)
  <2> HIDE DEF n
  <2> QED BY <1>1, <1>2, <1>3, Zenon DEF Ready
<1> QED BY <1>4 DEF w

LEMMA CarriesTail ==
    ASSUME NEW q \in Seq(Frames), q # <<>>, NEW kind
    PROVE  /\ Head(q).kind = kind => Carries(q, kind)
           /\ Carries(Tail(q), kind) => Carries(q, kind)
<1>1. /\ DOMAIN q = 1 .. Len(q) /\ DOMAIN Tail(q) = 1 .. Len(q) - 1 /\ Len(q) \in Nat \ {0}
      /\ Head(q) = q[1]
      /\ \A i \in 1 .. Len(q) - 1 : Tail(q)[i] = q[i + 1]
  BY TailAt
<1>2. 1 \in DOMAIN q
  BY <1>1
<1>3. ASSUME NEW i \in DOMAIN Tail(q) PROVE i + 1 \in DOMAIN q /\ Tail(q)[i] = q[i + 1]
  BY <1>1
<1> QED BY <1>1, <1>2, <1>3, Zenon DEF Carries

LEMMA HeadedTail ==
    ASSUME NEW q \in Seq(Frames), q # <<>>, NEW S, Headed(q, S)
    PROVE  Headed(Tail(q), S) /\ (Head(q).kind = "HD" => Head(q).file \in S)
<1>1. /\ DOMAIN q = 1 .. Len(q) /\ DOMAIN Tail(q) = 1 .. Len(q) - 1 /\ Len(q) \in Nat \ {0}
      /\ Head(q) = q[1]
      /\ \A i \in 1 .. Len(q) - 1 : Tail(q)[i] = q[i + 1]
  BY TailAt
<1>2. 1 \in DOMAIN q
  BY <1>1
<1>3. ASSUME NEW i \in DOMAIN Tail(q) PROVE i + 1 \in DOMAIN q /\ Tail(q)[i] = q[i + 1]
  BY <1>1
<1> QED BY <1>1, <1>2, <1>3, Zenon DEF Headed

(* The receiver takes the first frame. *)
LEMMA ReadyTail ==
    ASSUME NEW q \in Seq(Frames), q # <<>>, NEW y, NEW z, NEW f, Ready(q, y, f),
           Headed(q, {f}), Takes(Head(q), y, z)
    PROVE  Ready(Tail(q), z, f)
<1>1. /\ DOMAIN q = 1 .. Len(q) /\ DOMAIN Tail(q) = 1 .. Len(q) - 1 /\ Len(q) \in Nat \ {0}
      /\ Head(q) = q[1]
      /\ \A i \in 1 .. Len(q) - 1 : Tail(q)[i] = q[i + 1]
  BY TailAt
<1>2. CASE Head(q).kind = "HD"
  <2>1. Head(q).file = f
    BY <1>2, HeadedTail
  <2>2. z.open => z.file = f
    BY <2>1, <1>2 DEF Takes
  <2> QED BY <2>2, Zenon DEF Ready
<1>3. CASE Head(q).kind # "HD" /\ (y.open => y.file = f)
  <2>1. z.open => z.file = f
    BY <1>3, Zenon DEF Takes
  <2> QED BY <2>1, Zenon DEF Ready
<1>4. ASSUME Head(q).kind # "HD",
             NEW i \in DOMAIN q, q[i].kind = "HD" /\ \A j \in 1 .. i : q[j].kind # "EF"
      PROVE  Ready(Tail(q), z, f)
  <2>1. i # 1
    BY <1>1, <1>4, Zenon
  <2>2. i - 1 \in 1 .. Len(q) - 1 /\ i - 1 + 1 = i
    BY <2>1, <1>1
  <2>3. Tail(q)[i - 1].kind = "HD"
    BY <2>2, <1>1, <1>4
  <2>4. ASSUME NEW j \in 1 .. i - 1 PROVE Tail(q)[j].kind # "EF"
    <3>1. j \in 1 .. Len(q) - 1 /\ j + 1 \in 1 .. i
      BY <2>2, <1>1
    <3> QED BY <3>1, <1>1, <1>4, Zenon
  <2> QED BY <2>2, <2>3, <2>4, <1>1, Zenon DEF Ready
<1> QED BY <1>2, <1>3, <1>4, Zenon DEF Ready

LEMMA ReadyClosed ==
    ASSUME NEW q, NEW y, NEW z, z = y \/ ~z.open, NEW f, Ready(q, y, f) PROVE Ready(q, z, f)
BY Zenon DEF Ready

LEMMA Header ==
    \A f \in FileIds : /\ <<Frame(f, Planned)>> \in Seq(Frames) /\ Frame(f, Planned) \in Frames
                       /\ Frame(f, Planned).kind = "HD" /\ Frame(f, Planned).file = f
<1> SUFFICES ASSUME NEW f \in FileIds
             PROVE  /\ <<Frame(f, Planned)>> \in Seq(Frames) /\ Frame(f, Planned) \in Frames
                    /\ Frame(f, Planned).kind = "HD" /\ Frame(f, Planned).file = f
  OBVIOUS
<1>1. Frame(f, Planned) = [kind |-> "HD", file |-> f, chunk |-> 0]
  BY DEF Frame
<1>2. Frame(f, Planned) \in Frames
  BY <1>1 DEF Frames
<1> QED BY <1>1, <1>2

LEMMA HeadedOne ==
    /\ \A m, S : m.file \in S => Headed(<<m>>, S)
    /\ \A r, S : ~Carries(r, "HD") => Headed(r, S)
<1>1. ASSUME NEW m, NEW S, m.file \in S PROVE Headed(<<m>>, S)
  <2>1. DOMAIN <<m>> = {1} /\ <<m>>[1] = m
    OBVIOUS
  <2> QED BY <2>1, <1>1, Zenon DEF Headed
<1>2. ASSUME NEW r, NEW S, ~Carries(r, "HD") PROVE Headed(r, S)
  BY <1>2, Zenon DEF Headed, Carries
<1> QED BY <1>1, <1>2, Zenon

(* What becomes of the trust in a transfer x when its own station takes a step,
   when the other one does, and when a frame is taken off the air *)
LEMMA OwnTrust ==
    ASSUME NEW x \in Xfers, NEW q \in Seq(Frames), NEW v, NEW y, NEW W, NEW D,
           Trusts(x, q, v, y, W, D),
           NEW z \in Xfers, NEW msgs \in Seq(Frames), Steady(x, z, msgs)
    PROVE  Trusts(z, q \o msgs, v, y, W, D)
<1> SUFFICES ASSUME z.dir = "tx", z.file \notin W
             PROVE  /\ Carries(v, "AF") => z.file \in D
                    /\ Headed(q \o msgs, {z.file})
                    /\ z.phase = "awaiting_rr"
                       => ~Carries(q \o msgs, "HD") /\ ~Carries(q \o msgs, "EF")
                    /\ z.phase # "awaiting_rr" => Ready(q \o msgs, y, z.file)
  BY Zenon DEF Trusts
<1>1. /\ x.dir = "tx" /\ z.file = x.file
      /\ \/ /\ (z.phase = "awaiting_rr") = (x.phase = "awaiting_rr") /\ ~Carries(msgs, "HD")
            /\ z.phase = "awaiting_rr" => ~Carries(msgs, "EF")
         \/ /\ x.phase = "awaiting_rr" /\ z.phase # "awaiting_rr"
            /\ msgs = <<Frame(z.file, Planned)>>
  BY Zenon DEF Steady
<1>2. /\ Carries(v, "AF") => z.file \in D
      /\ Headed(q, {z.file})
      /\ x.phase = "awaiting_rr" => ~Carries(q, "HD") /\ ~Carries(q, "EF")
      /\ x.phase # "awaiting_rr" => Ready(q, y, z.file)
  BY <1>1, Zenon DEF Trusts
<1>3. z.file \in FileIds
  BY DEF Xfers
<1>4. CASE /\ (z.phase = "awaiting_rr") = (x.phase = "awaiting_rr") /\ ~Carries(msgs, "HD")
           /\ z.phase = "awaiting_rr" => ~Carries(msgs, "EF")
  <2>1. Headed(q \o msgs, {z.file})
    BY <1>2, <1>4, HeadedOne, HeadedJoined
  <2>2. CASE z.phase = "awaiting_rr"
    <3>1. ~Carries(q \o msgs, "HD") /\ ~Carries(q \o msgs, "EF")
      BY <1>2, <1>4, <2>2, CarriesJoined
    <3> QED BY <1>2, <2>1, <2>2, <3>1
  <2>3. CASE z.phase # "awaiting_rr"
    <3>1. Ready(q \o msgs, y, z.file)
      BY <1>2, <1>4, <2>3, ReadyJoined
    <3> QED BY <1>2, <2>1, <2>3, <3>1
  <2> QED BY <2>2, <2>3
<1>5. CASE /\ x.phase = "awaiting_rr" /\ z.phase # "awaiting_rr"
           /\ msgs = <<Frame(z.file, Planned)>>
  <2> DEFINE m == Frame(z.file, Planned)
  <2>1. m \in Frames /\ m.kind = "HD" /\ m.file = z.file
    BY <1>3, Header
  <2> HIDE DEF m
  <2>2. Headed(<<m>>, {z.file})
    BY <2>1, HeadedOne, Zenon
  <2>3. Headed(q \o msgs, {z.file})
    BY <1>2, <1>5, <2>2, HeadedJoined DEF m
  <2>4. Ready(q \o <<m>>, y, z.file)
    BY <1>2, <1>5, <2>1, ReadyAfter
  <2>5. q \o msgs = q \o <<m>>
    BY <1>5, Zenon DEF m
  <2>6. Ready(q \o msgs, y, z.file)
    BY <2>4, <2>5, Zenon
  <2> QED BY <1>2, <1>5, <2>3, <2>6
<1> QED BY <1>1, <1>4, <1>5

LEMMA OtherTrust ==
    ASSUME NEW x, NEW q, NEW v \in Seq(Frames), NEW y, NEW W, NEW D, Trusts(x, q, v, y, W, D),
           NEW z, z = y \/ ~z.open, NEW msgs \in Seq(Frames), ~Carries(msgs, "AF")
    PROVE  Trusts(x, q, v \o msgs, z, W, D)
<1>1. Carries(v \o msgs, "AF") <=> Carries(v, "AF")
  BY CarriesJoined
<1>2. \A f : Ready(q, y, f) => Ready(q, z, f)
  BY ReadyClosed, Zenon
<1> QED BY <1>1, <1>2, Zenon DEF Trusts

LEMMA ReadTrust ==
    ASSUME NEW x, NEW q \in Seq(Frames), q # <<>>, NEW v \in Seq(Frames), NEW y, NEW W, NEW D,
           Trusts(x, q, v, y, W, D),
           NEW z, Takes(Head(q), y, z), NEW msgs \in Seq(Frames),
           Carries(msgs, "AF") => Head(q).kind = "EF" /\ y.open,
           NEW E, D \subseteq E, Head(q).kind = "EF" /\ y.open => y.file \in E
    PROVE  Trusts(x, Tail(q), v \o msgs, z, W, E)
<1> SUFFICES ASSUME x.dir = "tx", x.file \notin W
             PROVE  /\ Carries(v \o msgs, "AF") => x.file \in E
                    /\ Headed(Tail(q), {x.file})
                    /\ x.phase = "awaiting_rr"
                       => ~Carries(Tail(q), "HD") /\ ~Carries(Tail(q), "EF")
                    /\ x.phase # "awaiting_rr" => Ready(Tail(q), z, x.file)
  BY Zenon DEF Trusts
<1>1. /\ Carries(v, "AF") => x.file \in D
      /\ Headed(q, {x.file})
      /\ x.phase = "awaiting_rr" => ~Carries(q, "HD") /\ ~Carries(q, "EF")
      /\ x.phase # "awaiting_rr" => Ready(q, y, x.file)
  BY Zenon DEF Trusts
<1>2. Headed(Tail(q), {x.file})
  BY <1>1, HeadedTail
<1>3. x.phase = "awaiting_rr" => ~Carries(Tail(q), "HD") /\ ~Carries(Tail(q), "EF")
  BY <1>1, CarriesTail
<1>4. x.phase # "awaiting_rr" => Ready(Tail(q), z, x.file)
  BY <1>1, ReadyTail
<1>5. ASSUME Carries(msgs, "AF") PROVE x.file \in E
  <2>1. Head(q).kind = "EF" /\ y.open /\ y.file \in E
    BY <1>5
  <2>2. x.phase # "awaiting_rr"
    BY <1>1, <2>1, CarriesTail
  <2>3. y.file = x.file
    <3>1. ASSUME NEW i \in DOMAIN q, \A j \in 1 .. i : q[j].kind # "EF" PROVE FALSE
      <4>1. 1 \in 1 .. i /\ q[1] = Head(q)
        BY TailAt
      <4> QED BY <4>1, <3>1, <2>1, Zenon
    <3> QED BY <1>1, <2>1, <2>2, <3>1, Zenon DEF Ready
  <2> QED BY <2>1, <2>3
<1>6. Carries(v \o msgs, "AF") => Carries(v, "AF") \/ Carries(msgs, "AF")
  BY CarriesJoined
<1>7. Carries(v \o msgs, "AF") => x.file \in E
  BY <1>1, <1>5, <1>6, Zenon
<1> QED BY <1>2, <1>3, <1>4, <1>7

(* The other station takes a frame off the air, or more is delivered. *)
LEMMA HeardTrust ==
    ASSUME NEW x, NEW q, NEW v \in Seq(Frames), v # <<>>, NEW y, NEW W, NEW D, NEW E,
           D \subseteq E, Trusts(x, q, v, y, W, D)
    PROVE  Trusts(x, q, Tail(v), y, W, E)
<1>1. Carries(Tail(v), "AF") => Carries(v, "AF")
  BY CarriesTail
<1> QED BY <1>1, Zenon DEF Trusts

LEMMA MoreDoubt ==
    ASSUME NEW x, NEW q, NEW v, NEW y, NEW W, NEW D, NEW U, W \subseteq U,
           Trusts(x, q, v, y, W, D)
    PROVE  Trusts(x, q, v, y, U, D)
BY Zenon DEF Trusts

-----------------------------------------------------------------------------
(* The invariant *)
Way(s) == air[s] \o handed[s]
NextWay(s) == air'[s] \o handed'[s]
InDoubt == lost \cup hurried

Trusted ==
    \A s \in Stations :
        Trusts(xfer[s], Way(s), Way(Peer(s)), yapp[Peer(s)], InDoubt, Delivered)

LEMMA Ways ==
    ASSUME IInv, NEW s \in Stations
    PROVE  /\ air[s] \in Seq(Frames) /\ handed[s] \in Seq(Frames) /\ Way(s) \in Seq(Frames)
           /\ xfer[s] \in Xfers /\ yapp[s] \in Receptions
<1>1. air[s] \in Seq(Frames) /\ handed[s] \in Seq(Frames)
  BY DEF IInv, Sessions, Rest
<1>2. Way(s) \in Seq(Frames)
  BY <1>1, Joined, Zenon DEF Way
<1> QED BY <1>1, <1>2, SessionFacts DEF IInv

(* What a step of a station's own does to what is on its way *)
Carried(msgs) == IF up THEN msgs ELSE <<>>

TakesStep(s, q, x, y, msgs) ==
    /\ q \in Seq(Frames) /\ msgs \in Seq(Frames) /\ Become(s, q, x, y, msgs)
    /\ air'[s] \in Seq(Frames) /\ air'[s] \o q = air[s] \o handed[s]
    /\ air'[Peer(s)] = air[Peer(s)]

Leaves(s, x, y, msgs) ==
    /\ NextWay(s) = Way(s) \o msgs /\ NextWay(Peer(s)) = Way(Peer(s))
    /\ xfer'[s] = x /\ yapp'[s] = y
    /\ xfer'[Peer(s)] = xfer[Peer(s)] /\ yapp'[Peer(s)] = yapp[Peer(s)]

LEMMA OwnWays ==
    ASSUME IInv, NEW s \in Stations, NEW q, NEW x, NEW y, NEW msgs,
           TakesStep(s, q, x, y, msgs)
    PROVE  Leaves(s, x, y, Carried(msgs))
<1>0. /\ q \in Seq(Frames) /\ msgs \in Seq(Frames) /\ Become(s, q, x, y, msgs)
      /\ air'[s] \in Seq(Frames) /\ air'[s] \o q = air[s] \o handed[s]
      /\ air'[Peer(s)] = air[Peer(s)]
  BY Zenon DEF TakesStep
<1>1. /\ xfer'[s] = x /\ yapp'[s] = y /\ handed'[s] = q \o (IF up THEN msgs ELSE <<>>)
      /\ xfer'[Peer(s)] = xfer[Peer(s)] /\ yapp'[Peer(s)] = yapp[Peer(s)]
      /\ handed'[Peer(s)] = handed[Peer(s)]
  BY <1>0, Became DEF IInv
<1>2. handed'[s] = q \o Carried(msgs) /\ Carried(msgs) \in Seq(Frames)
  <2>1. Carried(msgs) \in Seq(Frames)
    BY <1>0, EmptyAndControl DEF Carried
  <2> QED BY <2>1, <1>1 DEF Carried
<1>3. PICK e \in Seq(Frames) : e = air'[s]
  BY <1>0, Zenon
<1>4. e \o (q \o Carried(msgs)) = (e \o q) \o Carried(msgs)
  BY <1>0, <1>2, <1>3, Regrouped, Zenon
<1>5. NextWay(s) = Way(s) \o Carried(msgs)
  BY <1>0, <1>2, <1>3, <1>4, Zenon DEF Way, NextWay
<1>6. NextWay(Peer(s)) = Way(Peer(s))
  BY <1>0, <1>1, Zenon DEF Way, NextWay
<1> QED BY <1>1, <1>5, <1>6, Zenon DEF Leaves

LEMMA OwnTrusted ==
    ASSUME IInv, Orderly, Trusted, NEW s \in Stations, OwnMove(s), Elsewhere PROVE Trusted'
<1> DEFINE p == Peer(s)
<1>1. p \in Stations /\ p # s /\ Peer(p) = s /\ \A t \in Stations : t = s \/ t = p
  BY TwoStations, Zenon
<1>2. PICK q \in Seq(Frames), x \in Xfers, y \in Receptions, msgs \in Seq(Frames) :
          /\ Become(s, q, x, y, msgs)
          /\ air'[s] \in Seq(Frames) /\ air'[s] \o q = air[s] \o handed[s]
          /\ air'[p] = air[p]
          /\ Steady(xfer[s], x, msgs) /\ ~Carries(msgs, "AF")
          /\ y = yapp[s] \/ ~y.open
  BY Zenon DEF OwnMove
<1>3. UNCHANGED <<up, lost, hurried, complete>>
  BY Zenon DEF Elsewhere
<1>4. InDoubt' = InDoubt /\ Delivered' = Delivered
  BY <1>3, Zenon DEF InDoubt, Delivered
<1>5. /\ Trusts(xfer[s], Way(s), Way(p), yapp[p], InDoubt, Delivered)
      /\ Trusts(xfer[p], Way(p), Way(s), yapp[s], InDoubt, Delivered)
  BY <1>1, Zenon DEF Trusted
<1>6. CASE up
  <2>1. /\ NextWay(s) = Way(s) \o msgs /\ NextWay(p) = Way(p) /\ xfer'[s] = x /\ yapp'[s] = y
        /\ xfer'[p] = xfer[p] /\ yapp'[p] = yapp[p]
    <3>1. TakesStep(s, q, x, y, msgs)
      BY <1>2, Zenon DEF TakesStep
    <3>2. Leaves(s, x, y, Carried(msgs)) /\ Carried(msgs) = msgs
      BY <1>6, <3>1, OwnWays, Zenon DEF Carried
    <3> QED BY <3>2, Zenon DEF Leaves
  <2>2. /\ Way(s) \in Seq(Frames) /\ xfer[s] \in Xfers
    BY Ways
  <2>3. Trusts(x, Way(s) \o msgs, Way(p), yapp[p], InDoubt, Delivered)
    BY <1>2, <1>5, <2>2, OwnTrust
  <2>4. Trusts(xfer[p], Way(p), Way(s) \o msgs, y, InDoubt, Delivered)
    BY <1>2, <1>5, <2>2, OtherTrust
  <2>5. /\ Trusts(xfer'[s], NextWay(s), NextWay(p), yapp'[p], InDoubt', Delivered')
        /\ Trusts(xfer'[p], NextWay(p), NextWay(s), yapp'[s], InDoubt', Delivered')
    BY <2>1, <2>3, <2>4, <1>4, Zenon
  <2>6. Trusted'
    BY <2>5, <1>1, Zenon DEF Trusted, Way, NextWay
  <2> QED BY <2>6
<1>7. CASE ~up
  <2>1. xfer'[s] = x /\ xfer'[p] = xfer[p]
    BY <1>2, Became DEF IInv
  <2>2. x.dir = "tx" => xfer[s].dir = "tx" /\ x.file = xfer[s].file
    BY <1>2, Zenon DEF Steady
  <2>3. \A t \in Stations : xfer'[t].dir = "tx" => xfer'[t].file \in InDoubt'
    BY <2>1, <2>2, <1>1, <1>4, <1>7, Zenon DEF Orderly, Down, InDoubt
  <2>4. Trusted'
    BY <2>3, Zenon DEF Trusted, Trusts
  <2> QED BY <2>4
<1> QED BY <1>6, <1>7

(* An offer that is not made too soon finds nothing on its way but an SI. *)
LEMMA SendFileTrusted ==
    ASSUME IInv, Orderly, Trusted, NEW s \in Stations, SendFile(s) PROVE Trusted'
<1> DEFINE p == Peer(s)
           msgs == <<Control("SI")>>
           x == [NoXfer EXCEPT !.dir = "tx", !.phase = "awaiting_rr", !.file = files + 1]
<1>1. p \in Stations /\ p # s /\ Peer(p) = s /\ \A t \in Stations : t = s \/ t = p
  BY TwoStations, Zenon
<1>2. /\ Become(s, handed[s], x, yapp[s], msgs) /\ up /\ UNCHANGED <<air, lost, complete>>
      /\ hurried' = hurried \cup (IF TooSoon(s) THEN {files + 1} ELSE {})
  BY Zenon DEF SendFile, reports
<1>3. /\ x.dir = "tx" /\ x.phase = "awaiting_rr" /\ x.file = files + 1
  BY DEF NoXfer
<1> HIDE DEF x
<1>4. /\ msgs \in Seq(Frames) /\ ~Carries(msgs, "AF") /\ ~Carries(msgs, "HD")
      /\ ~Carries(msgs, "EF")
  <2>1. ~Carries(msgs, "AF") /\ ~Carries(msgs, "HD") /\ ~Carries(msgs, "EF")
    BY CarriesOne DEF Control
  <2> QED BY <2>1, EmptyAndControl
<1>5. /\ Way(s) \in Seq(Frames) /\ handed[s] \in Seq(Frames) /\ air[s] \in Seq(Frames)
      /\ handed[p] \in Seq(Frames) /\ air[p] \in Seq(Frames)
  BY <1>1, Ways
<1>6. /\ NextWay(s) = Way(s) \o msgs /\ NextWay(p) = Way(p) /\ xfer'[s] = x /\ yapp'[s] = yapp[s]
      /\ xfer'[p] = xfer[p] /\ yapp'[p] = yapp[p]
  <2>1. /\ air'[s] \in Seq(Frames) /\ air'[s] \o handed[s] = air[s] \o handed[s]
        /\ air'[p] = air[p]
    BY <1>2, <1>5, Zenon
  <2> HIDE DEF msgs
  <2>2. TakesStep(s, handed[s], x, yapp[s], msgs)
    BY <1>2, <1>4, <1>5, <2>1, Zenon DEF TakesStep
  <2>3. Leaves(s, x, yapp[s], Carried(msgs)) /\ Carried(msgs) = msgs
    BY <1>2, <2>2, OwnWays, Zenon DEF Carried
  <2> QED BY <2>3, Zenon DEF Leaves
<1>7. Trusts(xfer[p], Way(p), Way(s), yapp[s], InDoubt, Delivered)
  BY <1>1, Zenon DEF Trusted
<1>8. Trusts(xfer[p], Way(p), Way(s) \o msgs, yapp[s], InDoubt, Delivered)
  <2> HIDE DEF msgs
  <2> QED BY <1>4, <1>5, <1>7, OtherTrust
<1>9. InDoubt \subseteq InDoubt' /\ Delivered' = Delivered
  BY <1>2, Zenon DEF InDoubt, Delivered
<1>10. Trusts(xfer'[p], NextWay(p), NextWay(s), yapp'[s], InDoubt', Delivered')
  <2>1. Trusts(xfer[p], Way(p), Way(s) \o msgs, yapp[s], InDoubt', Delivered)
    BY <1>8, <1>9, MoreDoubt
  <2> QED BY <2>1, <1>6, <1>9, Zenon
<1>11. CASE TooSoon(s)
  <2>1. files + 1 \in InDoubt'
    BY <1>2, <1>11, Zenon DEF InDoubt
  <2>2. Trusts(xfer'[s], NextWay(s), NextWay(p), yapp'[p], InDoubt', Delivered')
    BY <2>1, <1>3, <1>6, Zenon DEF Trusts
  <2> QED BY <2>2, <1>1, <1>10, Zenon DEF Trusted, Way, NextWay
<1>12. CASE ~TooSoon(s)
  <2>1. /\ handed[s] = <<>> /\ air[s] = <<>>
        /\ ~Carries(air[p], "AF") /\ ~Carries(handed[p], "AF")
    BY <1>12, Zenon DEF TooSoon
  <2>2. ~Carries(Way(p), "AF")
    BY <2>1, <1>5, CarriesJoined, Zenon DEF Way
  <2>3. NextWay(s) = msgs
    <3>1. Way(s) = <<>>
      <4>1. <<>> \o <<>> = <<>>
        OBVIOUS
      <4> QED BY <2>1, <4>1, Zenon DEF Way
    <3>2. <<>> \o msgs = msgs
      BY <1>4
    <3> QED BY <3>1, <3>2, <1>6, Zenon
  <2> HIDE DEF msgs
  <2>4. \A S : Headed(msgs, S)
    BY <1>4, HeadedOne, Zenon
  <2>5. Trusts(x, msgs, Way(p), yapp[p], InDoubt', Delivered)
    BY <2>2, <2>4, <1>3, <1>4, Zenon DEF Trusts
  <2>6. Trusts(xfer'[s], NextWay(s), NextWay(p), yapp'[p], InDoubt', Delivered')
    BY <2>3, <2>5, <1>6, <1>9, Zenon
  <2> QED BY <2>6, <1>1, <1>10, Zenon DEF Trusted, Way, NextWay
<1> QED BY <1>11, <1>12

(* A step that has received m tells what it has sent, what has failed and what
   it has read. *)
Finishes(s) == xfer[s].dir = "tx" /\ xfer'[s].dir # "tx"

OwnReport(s) ==
    UNCHANGED sent /\ (UNCHANGED failed \/ (Finishes(s) /\ failed' = failed \cup {xfer[s].file}))

Read(s, m) ==
    \/ UNCHANGED complete /\ OwnReport(s)
    \/ /\ m.kind = "AF" /\ Finishes(s) /\ sent' = sent \cup {xfer[s].file}
       /\ UNCHANGED <<complete, failed>>
    \/ /\ m.kind = "EF" /\ yapp[s].open
       /\ complete' = complete \cup {[file |-> yapp[s].file, buf |-> yapp[s].buf]}
       /\ UNCHANGED <<sent, failed>>

LEMMA FailReport ==
    ASSUME IInv, NEW s \in Stations, NEW q, NEW y, NEW msgs, Become(s, q, NoXfer, y, msgs),
           NEW x, x.dir = xfer[s].dir, x.file = xfer[s].file, Fail(x), UNCHANGED sent
    PROVE  OwnReport(s)
<1>1. xfer'[s].dir # "tx"
  <2>1. NoXfer.dir # "tx"
    BY DEF NoXfer
  <2>2. xfer'[s] = NoXfer
    BY Became DEF IInv
  <2> QED BY <2>1, <2>2, Zenon
<1>2. CASE xfer[s].dir = "tx"
  BY <1>1, <1>2, Zenon DEF OwnReport, Finishes, Fail
<1>3. CASE xfer[s].dir # "tx"
  <2>1. failed' = failed \cup {}
    BY <1>3, Zenon DEF Fail
  <2>2. failed' = failed
    BY <2>1
  <2> QED BY <2>2, Zenon DEF OwnReport
<1> QED BY <1>2, <1>3

LEMMA PumpReport ==
    ASSUME IInv, NEW s \in Stations, NEW q, NEW x, x.dir = xfer[s].dir, x.file = xfer[s].file,
           PumpNextFrame(s, q, x), UNCHANGED sent
    PROVE  OwnReport(s)
<1>1. CASE x.abort
  <2>1. Become(s, q, NoXfer, yapp[s], <<Control("CN")>>) /\ Fail(x)
    BY <1>1, Zenon DEF PumpNextFrame
  <2> QED BY <2>1, FailReport
<1>2. CASE ~x.abort
  BY <1>2, Zenon DEF PumpNextFrame, OwnReport
<1> QED BY <1>1, <1>2

LEMMA CountReport ==
    ASSUME IInv, NEW s \in Stations, NEW q, CountBurst(s, q), UNCHANGED sent
    PROVE  OwnReport(s)
<1> DEFINE x == [xfer[s] EXCEPT !.sent = @ + 1]
<1>1. xfer[s] \in Xfers
  BY Ways
<1>2. x.dir = xfer[s].dir /\ x.file = xfer[s].file
  BY <1>1 DEF Xfers
<1>3. UNCHANGED failed \/ PumpNextFrame(s, q, x)
  BY Zenon DEF CountBurst
<1> HIDE DEF x
<1>4. CASE PumpNextFrame(s, q, x)
  BY <1>2, <1>4, PumpReport
<1> QED BY <1>3, <1>4, Zenon DEF OwnReport

LEMMA LocalReport ==
    ASSUME IInv, NEW s \in Stations, Sender(s) \/ Operator(s) PROVE OwnReport(s)
<1>1. CASE SendFile(s)
  BY <1>1, Zenon DEF SendFile, reports, OwnReport
<1>2. CASE Encode(s)
  <2>1. CountBurst(s, Tail(handed[s])) /\ UNCHANGED sent
    BY <1>2, Zenon DEF Encode
  <2> QED BY <2>1, CountReport
<1>3. CASE OtherBurst(s)
  <2>1. CountBurst(s, handed[s]) /\ UNCHANGED sent
    BY <1>3, Zenon DEF OtherBurst
  <2> QED BY <2>1, CountReport
<1>4. CASE RrTimer(s) \/ AfTimer(s)
  <2>1. /\ UNCHANGED sent
        /\ \/ UNCHANGED failed
           \/ Become(s, handed[s], NoXfer, yapp[s], <<>>) /\ Fail(xfer[s])
    BY <1>4, Zenon DEF RrTimer, AfTimer
  <2>2. CASE Become(s, handed[s], NoXfer, yapp[s], <<>>) /\ Fail(xfer[s])
    BY <2>1, <2>2, FailReport
  <2> QED BY <2>1, <2>2, Zenon DEF OwnReport
<1>5. CASE Operator(s)
  BY <1>5, Zenon DEF Operator, Accept, Reject, AbortSending, AbortReceiving, reports,
                     OwnReport
<1> QED BY <1>1, <1>2, <1>3, <1>4, <1>5, Zenon DEF Sender

LEMMA HandleReport ==
    ASSUME IInv, NEW s \in Stations, NEW m, HandleFrame(s, m) PROVE Read(s, m)
<1>2. xfer[s] \in Xfers
  BY Ways
<1>3. CASE m.kind = "RR" /\ HandleRR(s)
  <2> DEFINE x == [xfer[s] EXCEPT !.phase = "active", !.left = Planned, !.sent = 0]
  <2>1. x.dir = xfer[s].dir /\ x.file = xfer[s].file
    BY <1>2 DEF Xfers
  <2>2. /\ UNCHANGED <<complete, sent>>
        /\ UNCHANGED failed \/ PumpNextFrame(s, handed[s], x)
    BY <1>3, Zenon DEF HandleRR, reports
  <2> HIDE DEF x
  <2>3. CASE PumpNextFrame(s, handed[s], x)
    BY <2>1, <2>2, <2>3, PumpReport DEF Read
  <2> QED BY <2>2, <2>3, Zenon DEF Read, OwnReport
<1>4. CASE m.kind = "AF" /\ HandleAF(s)
  <2>1. CASE xfer[s].dir = "tx" /\ xfer[s].phase = "awaiting_af"
    <3>1. /\ Become(s, handed[s], NoXfer, yapp[s], <<>>)
          /\ sent' = sent \cup {xfer[s].file} /\ UNCHANGED <<complete, failed>>
      BY <1>4, <2>1, Zenon DEF HandleAF
    <3>2. xfer'[s] = NoXfer
      BY <3>1, Became DEF IInv
    <3>3. Finishes(s)
      BY <2>1, <3>2 DEF Finishes, NoXfer
    <3> QED BY <1>4, <3>1, <3>3, Zenon DEF Read
  <2>2. CASE ~(xfer[s].dir = "tx" /\ xfer[s].phase = "awaiting_af")
    BY <1>4, <2>2, Zenon DEF HandleAF, reports, Read, OwnReport
  <2> QED BY <2>1, <2>2
<1>5. CASE m.kind = "EF" /\ HandleEF(s)
  BY <1>5, Zenon DEF HandleEF, reports, Read, OwnReport
<1>6. CASE m.kind = "CN" /\ HandleCN(s)
  <2>1. /\ UNCHANGED <<complete, sent>>
        /\ \/ UNCHANGED failed
           \/ Become(s, handed[s], NoXfer, NoFile, <<>>) /\ Fail(xfer[s])
    BY <1>6, Zenon DEF HandleCN, reports
  <2>2. CASE Become(s, handed[s], NoXfer, NoFile, <<>>) /\ Fail(xfer[s])
    BY <2>1, <2>2, FailReport DEF Read
  <2> QED BY <2>1, <2>2, Zenon DEF Read, OwnReport
<1>7. CASE HandleSI(s) \/ HandleHD(s, m) \/ HandleDT(s, m) \/ HandleRF
  BY <1>7, Zenon DEF HandleSI, HandleHD, HandleDT, HandleRF, reports, Read, OwnReport
<1> QED BY <1>3, <1>4, <1>5, <1>6, <1>7, Zenon DEF HandleFrame

(* What the step that takes a frame off the air does to what is on its way *)
LEMMA PeerWays ==
    ASSUME IInv, Orderly, NEW s \in Stations, RxData(s), NEW x \in Xfers,
           NEW y \in Receptions, NEW msgs \in Seq(Frames), Become(s, handed[s], x, y, msgs)
    PROVE  /\ NextWay(s) = Way(s) \o msgs /\ NextWay(Peer(s)) = Tail(Way(Peer(s)))
           /\ Way(Peer(s)) # <<>> /\ Head(Way(Peer(s))) = Head(air[Peer(s)])
           /\ xfer'[s] = x /\ yapp'[s] = y
           /\ xfer'[Peer(s)] = xfer[Peer(s)] /\ yapp'[Peer(s)] = yapp[Peer(s)]
<1> DEFINE p == Peer(s)
<1>1. p \in Stations /\ p # s /\ Peer(p) = s
  BY TwoStations, Zenon
<1>2. air[p] # <<>> /\ air' = [air EXCEPT ![p] = Tail(@)]
  BY Zenon DEF RxData
<1>3. up
  BY <1>1, <1>2, Zenon DEF Orderly, Down
<1>4. /\ handed'[s] = handed[s] \o msgs /\ handed'[p] = handed[p]
      /\ xfer'[s] = x /\ yapp'[s] = y /\ xfer'[p] = xfer[p] /\ yapp'[p] = yapp[p]
  <2>1. /\ handed'[s] = handed[s] \o (IF up THEN msgs ELSE <<>>) /\ handed'[p] = handed[p]
        /\ xfer'[s] = x /\ yapp'[s] = y /\ xfer'[p] = xfer[p] /\ yapp'[p] = yapp[p]
    <3>1. Sessions
      BY Zenon DEF IInv
    <3> QED BY <1>1, <3>1, Zenon DEF Become, Sessions
  <2> QED BY <1>3, <2>1
<1>5. air'[s] = air[s] /\ air'[p] = Tail(air[p])
  BY <1>1, <1>2, Zenon DEF IInv, Rest
<1>6. /\ air[s] \in Seq(Frames) /\ handed[s] \in Seq(Frames)
      /\ air[p] \in Seq(Frames) /\ handed[p] \in Seq(Frames)
  BY <1>1, Ways, Zenon
<1>7. NextWay(s) = Way(s) \o msgs
  <2>1. PICK e \in Seq(Frames), h \in Seq(Frames) : e = air[s] /\ h = handed[s]
    BY <1>6, Zenon
  <2>2. e \o (h \o msgs) = (e \o h) \o msgs
    BY Regrouped, Zenon
  <2> QED BY <1>4, <1>5, <2>1, <2>2, Zenon DEF Way, NextWay
<1>8. Way(p) # <<>> /\ Head(Way(p)) = Head(air[p]) /\ NextWay(p) = Tail(Way(p))
  <2>1. PICK e \in Seq(Frames), h \in Seq(Frames) : e = air[p] /\ h = handed[p]
    BY <1>6, Zenon
  <2>2. e \o h # <<>> /\ Head(e \o h) = Head(e) /\ Tail(e \o h) = Tail(e) \o h
    BY <1>2, <2>1, TakenOff
  <2> QED BY <1>4, <1>5, <2>1, <2>2, Zenon DEF Way, NextWay
<1> QED BY <1>4, <1>7, <1>8, Zenon

LEMMA ReadDelivers ==
    ASSUME IInv, NEW s \in Stations, RxData(s)
    PROVE  /\ Delivered \subseteq Delivered'
           /\ Head(air[Peer(s)]).kind = "EF" /\ yapp[s].open => yapp[s].file \in Delivered'
<1> DEFINE m == Head(air[Peer(s)])
           c == [file |-> yapp[s].file, buf |-> yapp[s].buf]
<1>1. HandleFrame(s, m)
  BY Zenon DEF RxData
<1> HIDE DEF m
<1>2. complete \subseteq complete'
  BY <1>1, HandleReport, Zenon DEF Read
<1>3. Delivered \subseteq Delivered'
  BY <1>2, Zenon DEF Delivered
<1>4. ASSUME m.kind = "EF", yapp[s].open PROVE yapp[s].file \in Delivered'
  <2>1. HandleEF(s)
    BY <1>1, <1>4 DEF HandleFrame
  <2>2. c \in complete'
    BY <1>4, <2>1, Zenon DEF HandleEF
  <2>3. c.file = yapp[s].file
    OBVIOUS
  <2> QED BY <2>2, <2>3, Zenon DEF Delivered
<1> QED BY <1>3, <1>4 DEF m

LEMMA RxDataTrusted ==
    ASSUME IInv, Orderly, Trusted, NEW s \in Stations, RxData(s) PROVE Trusted'
<1> DEFINE p == Peer(s)
           m == Head(air[p])
<1>1. p \in Stations /\ Peer(p) = s /\ \A t \in Stations : t = s \/ t = p
  BY TwoStations, Zenon
<1>2. HandleFrame(s, m) /\ m \in Frames /\ UNCHANGED <<lost, hurried>>
  <2>1. HandleFrame(s, m) /\ air[p] # <<>> /\ UNCHANGED <<lost, hurried>>
    BY Zenon DEF RxData, doubts
  <2>2. air[p] \in Seq(Frames)
    BY <1>1, Ways, Zenon
  <2>3. m \in Frames
    BY <2>1, <2>2
  <2> QED BY <2>1, <2>3
<1> HIDE DEF m
<1>3. PICK x \in Xfers, y \in Receptions, msgs \in Seq(Frames) :
          /\ Become(s, handed[s], x, y, msgs) /\ Steady(xfer[s], x, msgs)
          /\ Takes(m, yapp[s], y)
          /\ Carries(msgs, "AF") => m.kind = "EF" /\ yapp[s].open
  <2>1. PeerMove(s, m)
    BY <1>2, HandleMoves, Zenon DEF IInv
  <2> QED BY <2>1, Zenon DEF PeerMove
<1>4. /\ NextWay(s) = Way(s) \o msgs /\ NextWay(p) = Tail(Way(p))
      /\ Way(p) # <<>> /\ Head(Way(p)) = m
      /\ xfer'[s] = x /\ yapp'[s] = y /\ xfer'[p] = xfer[p] /\ yapp'[p] = yapp[p]
  BY <1>3, PeerWays, Zenon DEF m
<1>5. PICK E : E = Delivered'
  OBVIOUS
<1>6. Delivered \subseteq E /\ (m.kind = "EF" /\ yapp[s].open => yapp[s].file \in E)
  BY <1>5, ReadDelivers, Zenon DEF m
<1>7. Way(s) \in Seq(Frames) /\ Way(p) \in Seq(Frames) /\ xfer[s] \in Xfers
  BY <1>1, Ways, Zenon
<1>8. InDoubt' = InDoubt
  BY <1>2, Zenon DEF InDoubt
<1>9. Trusts(x, Way(s) \o msgs, Tail(Way(p)), yapp[p], InDoubt, E)
  <2>1. Trusts(xfer[s], Way(s), Way(p), yapp[p], InDoubt, Delivered)
    BY <1>1, Zenon DEF Trusted
  <2>2. Trusts(x, Way(s) \o msgs, Way(p), yapp[p], InDoubt, Delivered)
    BY <1>3, <1>7, <2>1, OwnTrust, Zenon
  <2> QED BY <2>2, <1>4, <1>6, <1>7, HeardTrust, Zenon
<1>10. Trusts(xfer[p], Tail(Way(p)), Way(s) \o msgs, y, InDoubt, E)
  <2>1. Trusts(xfer[p], Way(p), Way(s), yapp[s], InDoubt, Delivered)
    BY <1>1, Zenon DEF Trusted
  <2>2. Takes(Head(Way(p)), yapp[s], y)
    BY <1>3, <1>4, Zenon
  <2>3. Carries(msgs, "AF") => Head(Way(p)).kind = "EF" /\ yapp[s].open
    BY <1>3, <1>4, Zenon
  <2>4. Head(Way(p)).kind = "EF" /\ yapp[s].open => yapp[s].file \in E
    BY <1>4, <1>6, Zenon
  <2> QED BY <1>4, <1>6, <1>7, <2>1, <2>2, <2>3, <2>4, ReadTrust
<1>11. /\ Trusts(xfer'[s], NextWay(s), NextWay(p), yapp'[p], InDoubt', Delivered')
       /\ Trusts(xfer'[p], NextWay(p), NextWay(s), yapp'[s], InDoubt', Delivered')
  BY <1>4, <1>5, <1>8, <1>9, <1>10, Zenon
<1> QED BY <1>1, <1>11, Zenon DEF Trusted, Way, NextWay

LEMMA SameTrusted ==
    ASSUME Trusted, UNCHANGED <<xfer, yapp, handed, air, lost, hurried, complete>>
    PROVE  Trusted'
BY Zenon DEF Trusted, Way, InDoubt, Delivered

(* A lost link leaves no transfer that is not in doubt. *)
LEMMA LinkTrusted ==
    ASSUME IInv, Orderly, Trusted, Link PROVE Trusted'
<1>1. CASE ~up'
  <2>1. Orderly'
    BY LinkOrder
  <2>2. \A t \in Stations : xfer'[t].dir = "tx" => xfer'[t].file \in InDoubt'
    BY <1>1, <2>1, Zenon DEF Orderly, Down, InDoubt
  <2> QED BY <2>2, Zenon DEF Trusted, Trusts
<1>2. CASE LinkEstablished
  <2>1. UNCHANGED <<xfer, yapp, handed, air, lost, hurried, complete>>
    BY <1>2, Zenon DEF LinkEstablished, reports, doubts
  <2> QED BY <2>1, SameTrusted
<1>3. LinkEstablished \/ ~up'
  BY DEF Link, LinkTerminated, TermClose, LoseLink
<1> QED BY <1>1, <1>2, <1>3

LEMMA StaysTrusted ==
    ASSUME IInv, Orderly, Trusted, [Next]_vars PROVE Trusted'
<1>1. ASSUME NEW s \in Stations, Sender(s) \/ Operator(s) PROVE Trusted'
  BY <1>1, LocalMove, SendFileTrusted, OwnTrusted
<1>2. CASE UNCHANGED vars
  BY <1>2, SameTrusted, Zenon DEF vars, reports, doubts
<1> QED BY <1>1, <1>2, RxDataTrusted, LinkTrusted, Zenon DEF Next

-----------------------------------------------------------------------------
(* A file is reported by the one station that offered it, once; and no station
   receives a file, or has its header on its way, that was not offered. *)
Reporting ==
    /\ sent \cup failed \subseteq 1 .. files
    /\ \A s \in Stations : xfer[s].dir = "tx" => xfer[s].file \in (1 .. files) \ (sent \cup failed)
    /\ \A s \in Stations :
         xfer[s].dir = "tx" /\ xfer[Peer(s)].dir = "tx" => xfer[s].file # xfer[Peer(s)].file

Named ==
    \A s \in Stations : /\ yapp[s].open => yapp[s].file \in 1 .. files
                        /\ Headed(Way(s), 1 .. files)

LEMMA SteadyHeads ==
    ASSUME NEW x \in Xfers, NEW z, NEW msgs, Steady(x, z, msgs), NEW S,
           x.dir = "tx" => x.file \in S
    PROVE  Headed(msgs, S)
<1>1. CASE Carries(msgs, "HD")
  <2>1. x.dir = "tx" /\ msgs = <<Frame(x.file, Planned)>>
    BY <1>1, Zenon DEF Steady
  <2>2. Frame(x.file, Planned).kind = "HD" /\ Frame(x.file, Planned).file = x.file
    <3>1. x.file \in FileIds
      BY DEF Xfers
    <3> QED BY <3>1, Header
  <2> QED BY <2>1, <2>2, HeadedOne, Zenon
<1>2. CASE ~Carries(msgs, "HD")
  BY <1>2, HeadedOne, Zenon
<1> QED BY <1>1, <1>2

LEMMA HeadedMore ==
    ASSUME NEW q, NEW S, NEW T, S \subseteq T, Headed(q, S) PROVE Headed(q, T)
BY Zenon DEF Headed

LEMMA OwnNamed ==
    ASSUME IInv, Reporting, Named, NEW s \in Stations, OwnMove(s), Elsewhere PROVE Named'
<1> DEFINE p == Peer(s)
<1>1. p \in Stations /\ \A t \in Stations : t = s \/ t = p
  BY TwoStations, Zenon
<1>2. PICK q \in Seq(Frames), x \in Xfers, y \in Receptions, msgs \in Seq(Frames) :
          /\ Become(s, q, x, y, msgs)
          /\ air'[s] \in Seq(Frames) /\ air'[s] \o q = air[s] \o handed[s]
          /\ air'[p] = air[p]
          /\ Steady(xfer[s], x, msgs) /\ (y = yapp[s] \/ ~y.open)
  BY Zenon DEF OwnMove
<1>3. Leaves(s, x, y, Carried(msgs))
  <2>1. TakesStep(s, q, x, y, msgs)
    BY <1>2, Zenon DEF TakesStep
  <2> QED BY <2>1, OwnWays, Zenon
<1>4. xfer[s] \in Xfers /\ Way(s) \in Seq(Frames)
  BY Ways
<1>5. Headed(Carried(msgs), 1 .. files) /\ Carried(msgs) \in Seq(Frames)
  <2>1. Headed(msgs, 1 .. files)
    BY <1>2, <1>4, SteadyHeads, Zenon DEF Reporting
  <2>2. Headed(<<>>, 1 .. files) /\ <<>> \in Seq(Frames)
    BY HeadedOne, CarriesOne, EmptyAndControl, Zenon
  <2> QED BY <1>2, <2>1, <2>2, Zenon DEF Carried
<1>6. Headed(Way(s) \o Carried(msgs), 1 .. files)
  BY <1>4, <1>5, HeadedJoined, Zenon DEF Named
<1>7. files' = files
  BY Zenon DEF Elsewhere
<1>8. /\ yapp'[s].open => yapp'[s].file \in 1 .. files
      /\ yapp'[p].open => yapp'[p].file \in 1 .. files
  BY <1>1, <1>2, <1>3, Zenon DEF Leaves, Named
<1>9. Headed(NextWay(s), 1 .. files) /\ Headed(NextWay(p), 1 .. files)
  BY <1>1, <1>3, <1>6, Zenon DEF Leaves, Named
<1> QED BY <1>1, <1>7, <1>8, <1>9, Zenon DEF Named, Way, NextWay

LEMMA SendFileNamed ==
    ASSUME IInv, Named, NEW s \in Stations, SendFile(s) PROVE Named'
<1> DEFINE p == Peer(s)
           msgs == <<Control("SI")>>
           x == [NoXfer EXCEPT !.dir = "tx", !.phase = "awaiting_rr", !.file = files + 1]
<1>1. p \in Stations /\ \A t \in Stations : t = s \/ t = p
  BY TwoStations, Zenon
<1>2. Become(s, handed[s], x, yapp[s], msgs) /\ up /\ UNCHANGED air /\ files' = files + 1
  BY Zenon DEF SendFile
<1> HIDE DEF x
<1>3. msgs \in Seq(Frames) /\ ~Carries(msgs, "HD")
  <2>1. ~Carries(msgs, "HD")
    BY CarriesOne DEF Control
  <2> QED BY <2>1, EmptyAndControl
<1> HIDE DEF msgs
<1>4. Way(s) \in Seq(Frames) /\ handed[s] \in Seq(Frames) /\ air[s] \in Seq(Frames)
  BY Ways
<1>5. Leaves(s, x, yapp[s], msgs)
  <2>1. /\ air'[s] \in Seq(Frames) /\ air'[s] \o handed[s] = air[s] \o handed[s]
        /\ air'[p] = air[p]
    BY <1>2, <1>4, Zenon
  <2>2. TakesStep(s, handed[s], x, yapp[s], msgs)
    BY <1>2, <1>3, <1>4, <2>1, Zenon DEF TakesStep
  <2>3. Leaves(s, x, yapp[s], Carried(msgs)) /\ Carried(msgs) = msgs
    BY <1>2, <2>2, OwnWays, Zenon DEF Carried
  <2> QED BY <2>3, Zenon
<1>6. 1 .. files \subseteq 1 .. files'
  <2>1. files \in Nat
    BY YappAssumption DEF IInv, Rest
  <2> QED BY <1>2, <2>1
<1>7. Headed(Way(s) \o msgs, 1 .. files)
  <2>1. Headed(msgs, 1 .. files)
    BY <1>3, HeadedOne, Zenon
  <2> QED BY <1>3, <1>4, <2>1, HeadedJoined, Zenon DEF Named
<1>8. Headed(NextWay(s), 1 .. files) /\ Headed(NextWay(p), 1 .. files)
  BY <1>1, <1>5, <1>7, Zenon DEF Leaves, Named
<1>9. PICK F : F = 1 .. files'
  OBVIOUS
<1>10. /\ yapp'[s].open => yapp'[s].file \in F
       /\ yapp'[p].open => yapp'[p].file \in F
       /\ Headed(NextWay(s), F) /\ Headed(NextWay(p), F)
  BY <1>1, <1>5, <1>6, <1>8, <1>9, HeadedMore, Zenon DEF Leaves, Named
<1> QED BY <1>1, <1>9, <1>10, Zenon DEF Named, Way, NextWay

LEMMA RxDataNamed ==
    ASSUME IInv, Orderly, Reporting, Named, NEW s \in Stations, RxData(s) PROVE Named'
<1> DEFINE p == Peer(s)
           m == Head(air[p])
<1>1. p \in Stations /\ Peer(p) = s /\ \A t \in Stations : t = s \/ t = p
  BY TwoStations, Zenon
<1>2. HandleFrame(s, m) /\ m \in Frames /\ files' = files
  <2>1. HandleFrame(s, m) /\ air[p] # <<>> /\ files' = files
    BY Zenon DEF RxData
  <2>2. air[p] \in Seq(Frames)
    BY <1>1, Ways, Zenon
  <2>3. m \in Frames
    BY <2>1, <2>2
  <2> QED BY <2>1, <2>3
<1> HIDE DEF m
<1>3. PICK x \in Xfers, y \in Receptions, msgs \in Seq(Frames) :
          /\ Become(s, handed[s], x, y, msgs) /\ Steady(xfer[s], x, msgs)
          /\ Takes(m, yapp[s], y)
  <2>1. PeerMove(s, m)
    BY <1>2, HandleMoves, Zenon DEF IInv
  <2> QED BY <2>1, Zenon DEF PeerMove
<1>4. /\ NextWay(s) = Way(s) \o msgs /\ NextWay(p) = Tail(Way(p))
      /\ Way(p) # <<>> /\ Head(Way(p)) = m
      /\ yapp'[s] = y /\ yapp'[p] = yapp[p]
  BY <1>3, PeerWays, Zenon DEF m
<1>5. Way(s) \in Seq(Frames) /\ Way(p) \in Seq(Frames) /\ xfer[s] \in Xfers
  BY <1>1, Ways, Zenon
<1>6. Headed(NextWay(s), 1 .. files)
  <2>1. Headed(msgs, 1 .. files)
    BY <1>3, <1>5, SteadyHeads, Zenon DEF Reporting
  <2>2. Headed(Way(s) \o msgs, 1 .. files)
    BY <1>3, <1>5, <2>1, HeadedJoined, Zenon DEF Named
  <2> QED BY <1>4, <2>2, Zenon
<1>7. Headed(NextWay(p), 1 .. files) /\ (m.kind = "HD" => m.file \in 1 .. files)
  <2>1. Headed(Way(p), 1 .. files)
    BY <1>1, Zenon DEF Named
  <2> QED BY <1>4, <1>5, <2>1, HeadedTail, Zenon
<1>8. /\ yapp'[s].open => yapp'[s].file \in 1 .. files
      /\ yapp'[p].open => yapp'[p].file \in 1 .. files
  BY <1>1, <1>3, <1>4, <1>7, Zenon DEF Named, Takes
<1> QED BY <1>1, <1>2, <1>6, <1>7, <1>8, Zenon DEF Named, Way, NextWay

(* A step that offers no file reports at most the one whose transfer it ends. *)
LEMMA StationReporting ==
    ASSUME Reporting, NEW s \in Stations, files' = files,
           xfer'[Peer(s)] = xfer[Peer(s)],
           xfer'[s].dir = "tx" => xfer[s].dir = "tx" /\ xfer'[s].file = xfer[s].file,
           \A f \in sent' \cup failed' :
               f \in sent \cup failed \/ (Finishes(s) /\ f = xfer[s].file)
    PROVE  Reporting'
<1> DEFINE p == Peer(s)
<1>1. p \in Stations /\ Peer(p) = s /\ \A t \in Stations : t = s \/ t = p
  BY TwoStations, Zenon
<1>2. sent' \cup failed' \subseteq 1 .. files'
  BY Zenon DEF Reporting, Finishes
<1>3. xfer'[s].dir = "tx" => xfer'[s].file \in (1 .. files') \ (sent' \cup failed')
  BY Zenon DEF Reporting, Finishes
<1>4. xfer'[p].dir = "tx" => xfer'[p].file \in (1 .. files') \ (sent' \cup failed')
  <2> SUFFICES ASSUME xfer[p].dir = "tx"
               PROVE  xfer[p].file \in (1 .. files) \ (sent' \cup failed')
    BY Zenon
  <2>1. xfer[p].file \in (1 .. files) \ (sent \cup failed)
    BY <1>1, Zenon DEF Reporting
  <2>2. ~(Finishes(s) /\ xfer[p].file = xfer[s].file)
    BY <1>1, Zenon DEF Reporting, Finishes
  <2> QED BY <2>1, <2>2, Zenon
<1>5. xfer'[s].dir = "tx" /\ xfer'[p].dir = "tx" => xfer'[s].file # xfer'[p].file
  BY <1>1, Zenon DEF Reporting
<1> QED BY <1>1, <1>2, <1>3, <1>4, <1>5, Zenon DEF Reporting

LEMMA SendFileReporting ==
    ASSUME IInv, Reporting, NEW s \in Stations, SendFile(s) PROVE Reporting'
<1> DEFINE p == Peer(s)
           x == [NoXfer EXCEPT !.dir = "tx", !.phase = "awaiting_rr", !.file = files + 1]
<1>1. p \in Stations /\ Peer(p) = s /\ \A t \in Stations : t = s \/ t = p
  BY TwoStations, Zenon
<1>2. Become(s, handed[s], x, yapp[s], <<Control("SI")>>) /\ files' = files + 1
      /\ UNCHANGED <<sent, failed>>
  BY Zenon DEF SendFile, reports
<1>3. x.file = files + 1
  BY DEF NoXfer
<1> HIDE DEF x
<1>4. xfer'[s] = x /\ xfer'[p] = xfer[p]
  BY <1>2, Became DEF IInv
<1>5. files \in Nat
  BY YappAssumption DEF IInv, Rest
<1>6. /\ 1 .. files \subseteq 1 .. files' /\ files + 1 \in 1 .. files'
      /\ files + 1 \notin 1 .. files
  BY <1>2, <1>5
<1>7. /\ xfer'[s].file = files + 1 /\ files + 1 \notin sent \cup failed
      /\ \A t \in Stations : xfer[t].dir = "tx" => xfer[t].file # files + 1
  BY <1>3, <1>4, <1>6, Zenon DEF Reporting
<1>8. sent' \cup failed' \subseteq 1 .. files'
  BY <1>2, <1>6, Zenon DEF Reporting
<1>9. /\ xfer'[s].file \in (1 .. files') \ (sent' \cup failed')
      /\ xfer'[p].dir = "tx" => xfer'[p].file \in (1 .. files') \ (sent' \cup failed')
      /\ xfer'[p].dir = "tx" => xfer'[p].file # xfer'[s].file
  BY <1>1, <1>2, <1>4, <1>6, <1>7, Zenon DEF Reporting
<1> QED BY <1>1, <1>8, <1>9, Zenon DEF Reporting

LEMMA OwnReporting ==
    ASSUME IInv, Reporting, NEW s \in Stations, OwnMove(s), Elsewhere, OwnReport(s)
    PROVE  Reporting'
<1>1. PICK q \in Seq(Frames), x \in Xfers, y \in Receptions, msgs \in Seq(Frames) :
          Become(s, q, x, y, msgs) /\ Steady(xfer[s], x, msgs)
  BY Zenon DEF OwnMove
<1>2. xfer'[s] = x /\ xfer'[Peer(s)] = xfer[Peer(s)]
  BY <1>1, Became DEF IInv
<1>3. xfer'[s].dir = "tx" => xfer[s].dir = "tx" /\ xfer'[s].file = xfer[s].file
  BY <1>1, <1>2, Zenon DEF Steady
<1>4. \A f \in sent' \cup failed' :
         f \in sent \cup failed \/ (Finishes(s) /\ f = xfer[s].file)
  BY Zenon DEF OwnReport
<1>5. files' = files
  BY Zenon DEF Elsewhere
<1> QED BY <1>2, <1>3, <1>4, <1>5, StationReporting

LEMMA RxDataReporting ==
    ASSUME IInv, Reporting, NEW s \in Stations, RxData(s) PROVE Reporting'
<1> DEFINE m == Head(air[Peer(s)])
<1>1. HandleFrame(s, m) /\ m \in Frames /\ files' = files
  <2>1. HandleFrame(s, m) /\ air[Peer(s)] # <<>> /\ files' = files
    BY Zenon DEF RxData
  <2>2. air[Peer(s)] \in Seq(Frames)
    BY TwoStations, Ways, Zenon
  <2>3. m \in Frames
    BY <2>1, <2>2
  <2> QED BY <2>1, <2>3
<1> HIDE DEF m
<1>2. PICK x \in Xfers, y \in Receptions, msgs \in Seq(Frames) :
          Become(s, handed[s], x, y, msgs) /\ Steady(xfer[s], x, msgs)
  <2>1. PeerMove(s, m)
    BY <1>1, HandleMoves, Zenon DEF IInv
  <2> QED BY <2>1, Zenon DEF PeerMove
<1>3. xfer'[s] = x /\ xfer'[Peer(s)] = xfer[Peer(s)]
  BY <1>2, Became DEF IInv
<1>4. xfer'[s].dir = "tx" => xfer[s].dir = "tx" /\ xfer'[s].file = xfer[s].file
  BY <1>2, <1>3, Zenon DEF Steady
<1>5. Read(s, m)
  BY <1>1, HandleReport
<1>6. \A f \in sent' \cup failed' :
         f \in sent \cup failed \/ (Finishes(s) /\ f = xfer[s].file)
  BY <1>5, Zenon DEF Read, OwnReport
<1> QED BY <1>1, <1>3, <1>4, <1>6, StationReporting

LEMMA LossNamed ==
    ASSUME Reporting, Named, LoseLink, UNCHANGED <<sent, failed, files>>,
           \A t \in Stations : handed'[t] = <<>>,
           \A t \in Stations : xfer'[t] = xfer[t] \/ xfer'[t] = NoXfer,
           \A t \in Stations : yapp'[t] = yapp[t] \/ yapp'[t] = NoFile
    PROVE  Reporting' /\ Named'
<1>1. NoXfer.dir # "tx" /\ ~NoFile.open
  BY DEF NoXfer, NoFile
<1>2. \A t \in Stations : NextWay(t) = <<>>
  <2>1. \A t \in Stations : air'[t] = <<>>
    BY DEF LoseLink
  <2>2. <<>> \o <<>> = <<>>
    OBVIOUS
  <2> QED BY <2>1, <2>2, Zenon DEF NextWay
<1>3. \A S : Headed(<<>>, S)
  BY HeadedOne, CarriesOne, Zenon
<1>4. Named'
  BY <1>1, <1>2, <1>3, Zenon DEF Named, Way, NextWay
<1>5. \A t \in Stations : xfer'[t].dir = "tx" => xfer'[t] = xfer[t]
  BY <1>1, Zenon
<1>6. Reporting'
  <2>1. \A t \in Stations : Peer(t) \in Stations
    BY TwoStations, Zenon
  <2> QED BY <2>1, <1>5, Zenon DEF Reporting
<1> QED BY <1>4, <1>6

LEMMA SameNamed ==
    ASSUME Reporting, Named, UNCHANGED <<xfer, yapp, handed, air, sent, failed, files>>
    PROVE  Reporting' /\ Named'
<1>1. Reporting'
  BY Zenon DEF Reporting
<1>2. Named'
  BY Zenon DEF Named, Way
<1> QED BY <1>1, <1>2

LEMMA LinkNamed ==
    ASSUME IInv, Reporting, Named, Link PROVE Reporting' /\ Named'
<1>1. CASE LinkTerminated
  <2>1. /\ LoseLink /\ \A t \in Stations : handed'[t] = <<>>
        /\ UNCHANGED <<xfer, yapp>> /\ UNCHANGED <<sent, failed, files>>
    BY <1>1 DEF LinkTerminated, reports
  <2> QED BY <2>1, LossNamed
<1>2. ASSUME NEW s \in Stations, TermClose(s) PROVE Reporting' /\ Named'
  <2>1. /\ LoseLink /\ \A t \in Stations : handed'[t] = <<>>
        /\ UNCHANGED <<sent, failed, files>>
    BY <1>2 DEF TermClose, reports
  <2>2. xfer' = [xfer EXCEPT ![s] = NoXfer] /\ yapp' = [yapp EXCEPT ![s] = NoFile]
    BY <1>2, Zenon DEF TermClose
  <2>3. /\ \A t \in Stations : xfer'[t] = xfer[t] \/ xfer'[t] = NoXfer
        /\ \A t \in Stations : yapp'[t] = yapp[t] \/ yapp'[t] = NoFile
    BY <2>2, Zenon DEF IInv, Sessions
  <2> QED BY <2>1, <2>3, LossNamed
<1>3. CASE LinkEstablished
  <2>1. UNCHANGED <<xfer, yapp, handed, air, sent, failed, files>>
    BY <1>3, Zenon DEF LinkEstablished, reports
  <2> QED BY <2>1, SameNamed
<1> QED BY <1>1, <1>2, <1>3 DEF Link

LEMMA StaysNamed ==
    ASSUME IInv, Orderly, Reporting, Named, [Next]_vars PROVE Reporting' /\ Named'
<1>1. ASSUME NEW s \in Stations, Sender(s) \/ Operator(s) PROVE Reporting' /\ Named'
  <2>1. CASE SendFile(s)
    BY <2>1, SendFileReporting, SendFileNamed
  <2>2. CASE OwnMove(s) /\ Elsewhere
    BY <1>1, <2>2, LocalReport, OwnReporting, OwnNamed
  <2> QED BY <1>1, <2>1, <2>2, LocalMove
<1>2. CASE UNCHANGED vars
  BY <1>2, SameNamed, Zenon DEF vars, reports
<1>3. ASSUME NEW s \in Stations, RxData(s) PROVE Reporting' /\ Named'
  BY <1>3, RxDataReporting, RxDataNamed
<1> QED BY <1>1, <1>2, <1>3, LinkNamed, Zenon DEF Next

-----------------------------------------------------------------------------
(* What is reported as sent has arrived. *)
Arrived == sent \subseteq Delivered \cup InDoubt

LEMMA AnsweredArrived ==
    ASSUME IInv, Orderly, Trusted, NEW s \in Stations, RxData(s),
           Head(air[Peer(s)]).kind = "AF", xfer[s].dir = "tx"
    PROVE  xfer[s].file \in Delivered \cup InDoubt
<1> DEFINE p == Peer(s)
<1>1. p \in Stations /\ air[p] # <<>>
  BY TwoStations, Zenon DEF RxData
<1>2. PICK e \in Seq(Frames), h \in Seq(Frames) : e = air[p] /\ h = handed[p]
  BY <1>1, Ways, Zenon
<1>3. e \o h # <<>> /\ Head(e \o h) = Head(e) /\ e \o h \in Seq(Frames)
  BY <1>1, <1>2, TakenOff, Joined
<1>4. Way(p) \in Seq(Frames) /\ Way(p) # <<>> /\ Head(Way(p)).kind = "AF"
  BY <1>2, <1>3, Zenon DEF Way
<1>5. Carries(Way(p), "AF")
  BY <1>4, CarriesTail
<1>6. Trusts(xfer[s], Way(s), Way(p), yapp[p], InDoubt, Delivered)
  BY Zenon DEF Trusted
<1> QED BY <1>5, <1>6, Zenon DEF Trusts

(* More may be delivered and in doubt after a step, never less. *)
LEMMA Monotone ==
    ASSUME IInv, [Next]_vars PROVE Delivered \subseteq Delivered' /\ InDoubt \subseteq InDoubt'
<1>1. ASSUME NEW s \in Stations, Sender(s) \/ Operator(s)
      PROVE  complete \subseteq complete' /\ lost \subseteq lost' /\ hurried \subseteq hurried'
  <2>1. CASE SendFile(s)
    BY <2>1, Zenon DEF SendFile, reports
  <2>2. CASE Elsewhere
    BY <2>2, Zenon DEF Elsewhere
  <2> QED BY <1>1, <2>1, <2>2, LocalMove
<1>2. ASSUME NEW s \in Stations, RxData(s)
      PROVE  complete \subseteq complete' /\ lost \subseteq lost' /\ hurried \subseteq hurried'
  <2>1. HandleFrame(s, Head(air[Peer(s)])) /\ UNCHANGED <<lost, hurried>>
    BY <1>2, Zenon DEF RxData, doubts
  <2>2. complete \subseteq complete'
    BY <2>1, HandleReport, Zenon DEF Read
  <2> QED BY <2>1, <2>2, Zenon
<1>3. ASSUME Link
      PROVE  complete \subseteq complete' /\ lost \subseteq lost' /\ hurried \subseteq hurried'
  BY <1>3 DEF Link, LinkTerminated, TermClose, LinkEstablished, LoseLink, reports, doubts
<1>4. CASE UNCHANGED vars
  BY <1>4, Zenon DEF vars, reports, doubts, Delivered, InDoubt
<1>5. CASE complete \subseteq complete' /\ lost \subseteq lost' /\ hurried \subseteq hurried'
  BY <1>5, Zenon DEF Delivered, InDoubt
<1> QED BY <1>1, <1>2, <1>3, <1>4, <1>5, Zenon DEF Next

(* Only an AF has a file reported as sent. *)
LEMMA SentBy ==
    ASSUME IInv, [Next]_vars, sent' # sent
    PROVE  \E s \in Stations : /\ RxData(s) /\ Head(air[Peer(s)]).kind = "AF" /\ xfer[s].dir = "tx"
                               /\ sent' = sent \cup {xfer[s].file}
<1>1. ASSUME NEW s \in Stations, Sender(s) \/ Operator(s) PROVE sent' = sent
  BY <1>1, LocalReport, Zenon DEF OwnReport
<1>2. ASSUME Link PROVE sent' = sent
  BY <1>2 DEF Link, LinkTerminated, TermClose, LinkEstablished, reports
<1>3. CASE UNCHANGED vars
  BY <1>3, Zenon DEF vars, reports
<1>4. PICK s \in Stations : RxData(s)
  BY <1>1, <1>2, <1>3, Zenon DEF Next
<1>5. Read(s, Head(air[Peer(s)]))
  BY <1>4, HandleReport, Zenon DEF RxData
<1> QED BY <1>4, <1>5, Zenon DEF Read, OwnReport, Finishes

LEMMA StaysArrived ==
    ASSUME IInv, Orderly, Trusted, Arrived, [Next]_vars PROVE Arrived'
<1>1. Delivered \subseteq Delivered' /\ InDoubt \subseteq InDoubt'
  BY Monotone
<1>2. sent' \subseteq Delivered \cup InDoubt
  <2>1. CASE sent' = sent
    BY <2>1, Zenon DEF Arrived
  <2>2. CASE sent' # sent
    <3>1. PICK s \in Stations :
              /\ RxData(s) /\ Head(air[Peer(s)]).kind = "AF" /\ xfer[s].dir = "tx"
              /\ sent' = sent \cup {xfer[s].file}
      BY <2>2, SentBy
    <3>2. xfer[s].file \in Delivered \cup InDoubt
      BY <3>1, AnsweredArrived
    <3> QED BY <3>1, <3>2, Zenon DEF Arrived
  <2> QED BY <2>1, <2>2
<1> QED BY <1>1, <1>2, Zenon DEF Arrived

LEMMA InitTrusted == Init => Trusted /\ Reporting /\ Named /\ Arrived
<1> SUFFICES ASSUME Init PROVE Trusted /\ Reporting /\ Named /\ Arrived
  OBVIOUS
<1>1. \A s \in Stations : /\ xfer[s] = NoXfer /\ yapp[s] = NoFile
                          /\ air[s] = <<>> /\ handed[s] = <<>>
  BY DEF Init
<1>2. NoXfer.dir # "tx" /\ ~NoFile.open
  BY DEF NoXfer, NoFile
<1>3. \A s \in Stations : Way(s) = <<>>
  <2>1. <<>> \o <<>> = <<>>
    OBVIOUS
  <2> QED BY <1>1, <2>1, Zenon DEF Way
<1>4. Trusted
  BY <1>1, <1>2, Zenon DEF Trusted, Trusts
<1>5. Named
  BY <1>1, <1>2, <1>3, HeadedOne, CarriesOne, Zenon DEF Named
<1>6. sent = {} /\ failed = {}
  BY DEF Init
<1>7. Reporting
  BY <1>1, <1>2, <1>6, Zenon DEF Reporting
<1>8. Arrived
  BY <1>6, Zenon DEF Arrived
<1> QED BY <1>4, <1>5, <1>7, <1>8

(* What holds in every state *)
Settled == /\ IInv /\ Orderly /\ CompleteFilesAreWhole
           /\ Trusted /\ Reporting /\ Named /\ Arrived

LEMMA AlwaysSettled == Spec => []Settled
<1>1. IInv /\ Orderly /\ Trusted /\ Reporting /\ Named /\ Arrived /\ [Next]_vars
      => Trusted' /\ Reporting' /\ Named' /\ Arrived'
  BY StaysTrusted, StaysNamed, StaysArrived
<1> QED BY InOrder, InitTrusted, <1>1, PTL DEF Spec, Settled

(* For every length of a file, every number of files and whatever times out, is
   cancelled or offered again: the AF that has a file reported as sent answers
   that file, unless it was offered while frames, or the AF, of an earlier
   transfer were still on their way, or under way when the link was lost. *)
THEOREM SentArrive == Spec => []SentFilesArrive
<1>1. Settled => SentFilesArrive
  <2> SUFFICES ASSUME Settled, NEW f \in sent \ (lost \cup hurried)
               PROVE  [file |-> f, buf |-> Whole(f)] \in complete
    BY Zenon DEF SentFilesArrive
  <2>1. PICK c \in complete : c.file = f
    BY Zenon DEF Settled, Arrived, Delivered, InDoubt
  <2>2. c.buf = Whole(f)
    BY <2>1, Zenon DEF Settled, CompleteFilesAreWhole
  <2>3. c \in [file : FileIds, buf : Seq(Frames)]
    BY Zenon DEF Settled, IInv, Rest
  <2>4. c = [file |-> f, buf |-> Whole(f)]
    BY <2>1, <2>2, <2>3
  <2> QED BY <2>4, Zenon
<1> QED BY <1>1, AlwaysSettled, PTL

-----------------------------------------------------------------------------
(* The refinement, step by step: the files offered are 1 .. files, those in
   doubt the lost and the hurried ones. *)
LEMMA SendFileDelivers ==
    ASSUME Settled, NEW s \in Stations, SendFile(s) PROVE Delivery!Next
<1> DEFINE f == files + 1
<1>1. /\ files < MaxFiles /\ files' = f /\ UNCHANGED <<complete, sent, failed, lost>>
      /\ hurried' = hurried \cup (IF TooSoon(s) THEN {f} ELSE {})
  BY DEF SendFile, reports
<1>2. files \in Nat
  BY YappAssumption DEF Settled, IInv, Rest
<1>3. /\ f \in Files /\ f \notin 1 .. files /\ 1 .. files' = (1 .. files) \cup {f}
  BY <1>1, <1>2, YappAssumption DEF Files
<1>4. (lost \cup hurried)' \in {lost \cup hurried, lost \cup hurried \cup {f}}
  BY <1>1
<1>5. {c.file : c \in complete}' = {c.file : c \in complete}
  BY <1>1
<1> HIDE DEF f
<1>6. Delivery!Offer(f)
  BY <1>1, <1>3, <1>4, <1>5 DEF Delivery!Offer
<1> QED BY <1>3, <1>6 DEF Delivery!Next

LEMMA OwnDelivers ==
    ASSUME Settled, NEW s \in Stations, Elsewhere, OwnReport(s)
    PROVE  Delivery!Next \/ UNCHANGED Delivery!vars
<1> DEFINE f == xfer[s].file
<1>1. UNCHANGED <<1 .. files, {c.file : c \in complete}, lost \cup hurried>>
  BY DEF Elsewhere
<1>2. CASE UNCHANGED <<sent, failed>>
  BY <1>1, <1>2 DEF Delivery!vars
<1>3. CASE UNCHANGED sent /\ Finishes(s) /\ failed' = failed \cup {f}
  <2>1. f \in (1 .. files) \ (sent \cup failed)
    BY <1>3, Zenon DEF Settled, Reporting, Finishes
  <2>2. f \in Files
    BY <2>1, YappAssumption DEF Settled, IInv, Rest, Files
  <2>3. Delivery!ReportFailed(f)
    BY <1>1, <1>3, <2>1 DEF Delivery!ReportFailed, Delivery!Unreported
  <2> QED BY <2>2, <2>3 DEF Delivery!Next
<1> QED BY <1>2, <1>3, Zenon DEF OwnReport

LEMMA RxDataDelivers ==
    ASSUME Settled, NEW s \in Stations, RxData(s)
    PROVE  Delivery!Next \/ UNCHANGED Delivery!vars
<1> DEFINE m == Head(air[Peer(s)])
           f == xfer[s].file
           g == yapp[s].file
<1>1. Read(s, m) /\ UNCHANGED <<files, lost, hurried>>
  BY HandleReport, Zenon DEF RxData, doubts, Settled
<1>2. UNCHANGED <<1 .. files, lost \cup hurried>>
  BY <1>1
<1>3. \A h \in 1 .. files : h \in Files
  BY YappAssumption DEF Settled, IInv, Rest, Files
<1>4. CASE UNCHANGED complete /\ OwnReport(s)
  <2>1. UNCHANGED <<1 .. files, {c.file : c \in complete}, lost \cup hurried>>
    BY <1>2, <1>4
  <2>2. CASE UNCHANGED <<sent, failed>>
    BY <2>1, <2>2 DEF Delivery!vars
  <2>3. CASE UNCHANGED sent /\ Finishes(s) /\ failed' = failed \cup {f}
    <3>1. f \in (1 .. files) \ (sent \cup failed)
      BY <2>3, Zenon DEF Settled, Reporting, Finishes
    <3>2. Delivery!ReportFailed(f)
      BY <2>1, <2>3, <3>1 DEF Delivery!ReportFailed, Delivery!Unreported
    <3> QED BY <1>3, <3>1, <3>2 DEF Delivery!Next
  <2> QED BY <1>4, <2>2, <2>3, Zenon DEF OwnReport
<1>5. CASE /\ m.kind = "AF" /\ Finishes(s) /\ sent' = sent \cup {f}
           /\ UNCHANGED <<complete, failed>>
  <2>1. f \in (1 .. files) \ (sent \cup failed)
    BY <1>5, Zenon DEF Settled, Reporting, Finishes
  <2>2. f \in {c.file : c \in complete} \cup (lost \cup hurried)
    BY <1>5, AnsweredArrived, Zenon DEF Settled, Finishes, Delivered, InDoubt
  <2>3. UNCHANGED {c.file : c \in complete}
    BY <1>5
  <2>4. Delivery!ReportSent(f)
    BY <1>2, <1>5, <2>1, <2>2, <2>3 DEF Delivery!ReportSent, Delivery!Unreported
  <2> QED BY <1>3, <2>1, <2>4 DEF Delivery!Next
<1>6. CASE /\ m.kind = "EF" /\ yapp[s].open
           /\ complete' = complete \cup {[file |-> g, buf |-> yapp[s].buf]}
           /\ UNCHANGED <<sent, failed>>
  <2>1. g \in 1 .. files
    BY <1>6, Zenon DEF Settled, Named
  <2>2. {c.file : c \in complete}' = {c.file : c \in complete} \cup {g}
    <3> DEFINE r == [file |-> g, buf |-> yapp[s].buf]
    <3>1. r.file = g
      OBVIOUS
    <3>2. complete' = complete \cup {r}
      BY <1>6
    <3> HIDE DEF r
    <3>3. {c.file : c \in complete'} = {c.file : c \in complete} \cup {r.file}
      BY <3>2, Zenon
    <3> QED BY <3>1, <3>3, Zenon
  <2>3. CASE g \in {c.file : c \in complete}
    <3>1. UNCHANGED {c.file : c \in complete}
      BY <2>2, <2>3, Zenon
    <3> QED BY <1>2, <1>6, <3>1 DEF Delivery!vars
  <2>4. CASE g \notin {c.file : c \in complete}
    <3>1. Delivery!Deliver(g)
      BY <1>2, <1>6, <2>1, <2>2, <2>4 DEF Delivery!Deliver
    <3>2. g \in Files
      BY <1>3, <2>1, Zenon
    <3> HIDE DEF g
    <3>3. Delivery!Next
      BY <3>1, <3>2 DEF Delivery!Next, Delivery!Deliver
    <3> QED BY <3>3
  <2> QED BY <2>3, <2>4
<1> QED BY <1>1, <1>4, <1>5, <1>6, Zenon DEF Read

LEMMA LinkDelivers ==
    ASSUME Settled, Link PROVE Delivery!Next \/ UNCHANGED Delivery!vars
<1>1. CASE LinkEstablished
  <2>1. UNCHANGED <<files, complete, sent, failed, lost, hurried>>
    BY <1>1, Zenon DEF LinkEstablished, reports, doubts
  <2> QED BY <2>1 DEF Delivery!vars
<1>2. CASE LoseLink /\ UNCHANGED <<files, complete, sent, failed, hurried>>
  <2>1. UnderWay \in SUBSET (1 .. files)
    <3>1. /\ \A s \in Stations : xfer[s].dir = "tx" => xfer[s].file \in 1 .. files
          /\ \A s \in Stations : yapp[s].open => yapp[s].file \in 1 .. files
      BY Zenon DEF Settled, Reporting, Named
    <3> QED BY <3>1 DEF UnderWay
  <2>2. (lost \cup hurried)' = (lost \cup hurried) \cup UnderWay
    BY <1>2 DEF LoseLink
  <2>3. UNCHANGED <<1 .. files, {c.file : c \in complete}, sent, failed>>
    BY <1>2
  <2>4. Delivery!LoseLink
    BY <2>1, <2>2, <2>3, Zenon DEF Delivery!LoseLink
  <2> QED BY <2>4 DEF Delivery!Next
<1>3. \/ LinkEstablished
      \/ LoseLink /\ UNCHANGED <<files, complete, sent, failed, hurried>>
  BY DEF Link, LinkTerminated, TermClose, reports
<1> QED BY <1>1, <1>2, <1>3

(* For every length of a file and every number of files, what two stations
   report and deliver is what FileDelivery allows: a report is made once, of a
   file that was offered, and one of success only after it was delivered or if
   it is in doubt. *)
THEOREM Delivers == Spec => DeliversFiles
<1>1. Init => Delivery!Init
  <2> SUFFICES ASSUME Init PROVE Delivery!Init
    OBVIOUS
  <2>1. /\ files = 0 /\ complete = {} /\ sent = {} /\ failed = {} /\ lost = {} /\ hurried = {}
    BY DEF Init
  <2>2. 1 .. 0 = {}
    OBVIOUS
  <2> QED BY <2>1, <2>2 DEF Delivery!Init
<1>2. Settled /\ [Next]_vars => [Delivery!Next]_(Delivery!vars)
  <2> SUFFICES ASSUME Settled, [Next]_vars PROVE Delivery!Next \/ UNCHANGED Delivery!vars
    OBVIOUS
  <2>1. IInv
    BY Zenon DEF Settled
  <2>2. ASSUME NEW s \in Stations, Sender(s) \/ Operator(s)
        PROVE  Delivery!Next \/ UNCHANGED Delivery!vars
    BY <2>1, <2>2, LocalMove, LocalReport, SendFileDelivers, OwnDelivers
  <2>3. CASE UNCHANGED vars
    <3>1. UNCHANGED <<files, complete, sent, failed, lost, hurried>>
      BY <2>3, Zenon DEF vars, reports, doubts
    <3> QED BY <3>1 DEF Delivery!vars
  <2> QED BY <2>2, <2>3, RxDataDelivers, LinkDelivers, Zenon DEF Next
<1> QED BY <1>1, <1>2, AlwaysSettled, PTL DEF Spec, DeliversFiles, Delivery!Spec
===============================================================================
