----------------------------- MODULE YappTransfer -----------------------------
(***************************************************************************)
(* File transfers between two stations that both run webServer: the        *)
(* handshake, the pump, the abort and the time-outs of YAPP over one AX.25 *)
(* link.                                                                   *)
(*                                                                         *)
(* The link is external: while it is up it carries the frames of a station *)
(* in order and once; when it is lost the frames on their way are lost     *)
(* with it, and what is sent before it is up again is discarded.  A frame  *)
(* is counted at the sender (onPacketTxReady) when its audio has been      *)
(* encoded, and reaches the other side later.  The sound of any other      *)
(* frame (acknowledgements, beacons, repetitions, other sessions) is       *)
(* counted just the same: OtherBurst.                                      *)
(*                                                                         *)
(* A file stands for its name, size and content, and a chunk is known by   *)
(* its place.  Control frames carry nothing, as in the code.  The frames   *)
(* of several files in one session (ET, AT) and CA come from other         *)
(* programs only and change no state here; RF is ignored by its receiver.  *)
(***************************************************************************)
EXTENDS Integers, Sequences

CONSTANTS
    Chunks,    \* data frames of a file
    MaxFiles,  \* bound of the model on the files offered
    MaxEvents  \* bound of the model on bursts of other frames and losses of the link

ASSUME YappAssumption ==
    /\ Chunks \in Nat /\ MaxFiles \in Nat /\ MaxEvents \in Nat

Stations == {"a", "b"}
Peer(s) == IF s = "a" THEN "b" ELSE "a"
Files == 1..MaxFiles
Planned == Chunks + 2       \* HD, the data, EF

VARIABLES
    xfer,      \* XferState of each station's session
    yapp,      \* YappRxState: the file being received
    handed,    \* frames handed to the link, not encoded yet
    air,       \* frames encoded, not received yet
    rrTimers,  \* pending 60 s single shots, by the file they were set for
    afTimers,
    up,        \* the AX.25 link is established
    files,     \* files offered so far
    events,    \* bursts of other frames and losses of the link so far
    \* history, read by properties only
    complete,  \* what receivers have announced as complete: file and content
    sent,      \* files reported as sent
    failed,    \* files reported as aborted or timed out
    lost,      \* files under way when the link was lost
    hurried,   \* files offered too soon after an earlier one: see TooSoon
    unheard    \* a sender timed out unanswered, a receiver aborted, or the link was lost

timers == <<rrTimers, afTimers>>
reports == <<complete, sent, failed>>
doubts == <<lost, hurried, unheard>>
vars == <<xfer, yapp, handed, air, timers, up, files, events, reports, doubts>>

NoXfer == [dir |-> "none", phase |-> "none", file |-> 0, abort |-> FALSE, left |-> 0, sent |-> 0]
NoFile == [open |-> FALSE, file |-> 0, buf |-> <<>>]

Control(kind) == [kind |-> kind, file |-> 0, chunk |-> 0]
Data(f, k) == [kind |-> "DT", file |-> f, chunk |-> k]
Whole(f) == [k \in 1..Chunks |-> Data(f, k)]

(* Mutant of Frame: the last chunk is forgotten *)
FrameShort(f, left) ==
    IF left = Planned THEN [kind |-> "HD", file |-> f, chunk |-> 0]
    ELSE IF left <= 2 THEN Control("EF")
    ELSE Data(f, Planned - left)

(* The frame to hand on next, "left" counting those in pendingYappFrames. *)
Frame(f, left) ==
    IF left = Planned THEN [kind |-> "HD", file |-> f, chunk |-> 0]
    ELSE IF left = 1 THEN Control("EF")
    ELSE Data(f, Planned - left)

Init ==
    /\ xfer = [s \in Stations |-> NoXfer] /\ yapp = [s \in Stations |-> NoFile]
    /\ handed = [s \in Stations |-> <<>>] /\ air = [s \in Stations |-> <<>>]
    /\ rrTimers = [s \in Stations |-> {}] /\ afTimers = [s \in Stations |-> {}]
    /\ up = TRUE /\ files = 0 /\ events = 0
    /\ complete = {} /\ sent = {} /\ failed = {} /\ lost = {} /\ hurried = {} /\ unheard = FALSE

(* The session of s becomes x and y; of its frames, q are still to be encoded
   and msgs are handed on, which a link that is down discards. *)
Become(s, q, x, y, msgs) ==
    /\ xfer' = [xfer EXCEPT ![s] = x]
    /\ yapp' = [yapp EXCEPT ![s] = y]
    /\ handed' = [handed EXCEPT ![s] = q \o (IF up THEN msgs ELSE <<>>)]

(* xferBroadcastEnd(aborted), of a transfer this station was sending *)
Fail(x) == failed' = failed \cup (IF x.dir = "tx" THEN {x.file} ELSE {})

------------------------------------------------------------------------------
(* The sender. *)

(* Frames of s, or an AF to it, are still on their way: history *)
Carries(q, kind) == \E i \in DOMAIN q : q[i].kind = kind
TooSoon(s) ==
    \/ handed[s] # <<>> \/ air[s] # <<>>
    \/ Carries(air[Peer(s)], "AF") \/ Carries(handed[Peer(s)], "AF")

SendFile(s) ==
    LET x == [NoXfer EXCEPT !.dir = "tx", !.phase = "awaiting_rr", !.file = files + 1]
    IN  /\ files < MaxFiles
        /\ up /\ xfer[s].dir = "none"
        /\ Become(s, handed[s], x, yapp[s], <<Control("SI")>>)
        /\ files' = files + 1
        /\ rrTimers' = [rrTimers EXCEPT ![s] = @ \cup {files + 1}]
        /\ hurried' = hurried \cup (IF TooSoon(s) THEN {files + 1} ELSE {})
        /\ UNCHANGED <<air, afTimers, up, events, reports, lost, unheard>>

(* Mutant of PumpNextFrame: the peer is not told of the abort *)
PumpNextFrameSilent(s, q, x) ==
    \/ /\ x.abort
       /\ Become(s, q, NoXfer, yapp[s], <<>>)
       /\ Fail(x)
    \/ /\ ~x.abort
       /\ IF x.left = 0 THEN Become(s, q, x, yapp[s], <<>>)
          ELSE Become(s, q, [x EXCEPT !.left = @ - 1], yapp[s], <<Frame(x.file, x.left)>>)
       /\ UNCHANGED failed

(* yappPumpNextFrame() of a sending session whose transfer has become x *)
PumpNextFrame(s, q, x) ==
    \/ /\ x.abort
       /\ Become(s, q, NoXfer, yapp[s], <<Control("CN")>>)
       /\ Fail(x)
    \/ /\ ~x.abort
       /\ IF x.left = 0 THEN Become(s, q, x, yapp[s], <<>>)
          ELSE Become(s, q, [x EXCEPT !.left = @ - 1], yapp[s], <<Frame(x.file, x.left)>>)
       /\ UNCHANGED failed

(* onPacketTxReady(), as far as it concerns transfers *)
Pumping(s) == xfer[s].dir = "tx" /\ xfer[s].phase = "active"

(* Mutant of CountBurst: one burst too many is waited for *)
CountBurstTooFar(s, q) ==
    LET x == [xfer[s] EXCEPT !.sent = @ + 1]
    IN  \/ /\ ~Pumping(s)
           /\ Become(s, q, xfer[s], yapp[s], <<>>)
           /\ UNCHANGED <<afTimers, failed>>
        \/ /\ Pumping(s)
           /\ x.sent > Planned
           /\ Become(s, q, [x EXCEPT !.phase = "awaiting_af"], yapp[s], <<>>)
           /\ afTimers' = [afTimers EXCEPT ![s] = @ \cup {x.file}]
           /\ UNCHANGED failed
        \/ /\ Pumping(s)
           /\ x.sent <= Planned
           /\ PumpNextFrame(s, q, x)
           /\ UNCHANGED afTimers

CountBurst(s, q) ==
    LET x == [xfer[s] EXCEPT !.sent = @ + 1]
    IN  \/ /\ ~Pumping(s)
           /\ Become(s, q, xfer[s], yapp[s], <<>>)
           /\ UNCHANGED <<afTimers, failed>>
        \/ /\ Pumping(s)
           /\ x.sent >= Planned
           /\ Become(s, q, [x EXCEPT !.phase = "awaiting_af"], yapp[s], <<>>)
           /\ afTimers' = [afTimers EXCEPT ![s] = @ \cup {x.file}]
           /\ UNCHANGED failed
        \/ /\ Pumping(s)
           /\ x.sent < Planned
           /\ PumpNextFrame(s, q, x)
           /\ UNCHANGED afTimers

Encode(s) ==
    /\ handed[s] # <<>>
    /\ air' = [air EXCEPT ![s] = Append(@, Head(handed[s]))]
    /\ CountBurst(s, Tail(handed[s]))
    /\ UNCHANGED <<rrTimers, up, files, events, complete, sent, doubts>>

(* A burst that finds no transfer to count for changes nothing. *)
OtherBurst(s) ==
    /\ events < MaxEvents /\ Pumping(s)
    /\ events' = events + 1
    /\ CountBurst(s, handed[s])
    /\ UNCHANGED <<air, rrTimers, up, files, complete, sent, doubts>>

(* The single shots look up the session, not the transfer they were set for. *)
RrTimer(s) ==
    /\ \E f \in rrTimers[s] : rrTimers' = [rrTimers EXCEPT ![s] = @ \ {f}]
    /\ IF xfer[s].dir # "none" /\ xfer[s].phase = "awaiting_rr"
       THEN /\ Become(s, handed[s], NoXfer, yapp[s], <<>>)
            /\ Fail(xfer[s])
            /\ unheard' = TRUE
       ELSE UNCHANGED <<xfer, yapp, handed, failed, unheard>>
    /\ UNCHANGED <<air, afTimers, up, files, events, complete, sent, lost, hurried>>

(* Mutant of AfTimer: it looks for the phase of the other single shot *)
AfTimerOfRr(s) ==
    /\ \E f \in afTimers[s] : afTimers' = [afTimers EXCEPT ![s] = @ \ {f}]
    /\ IF xfer[s].dir # "none" /\ xfer[s].phase = "awaiting_rr"
       THEN /\ Become(s, handed[s], NoXfer, yapp[s], <<>>)
            /\ Fail(xfer[s])
       ELSE UNCHANGED <<xfer, yapp, handed, failed>>
    /\ UNCHANGED <<air, rrTimers, up, files, events, complete, sent, doubts>>

AfTimer(s) ==
    /\ \E f \in afTimers[s] : afTimers' = [afTimers EXCEPT ![s] = @ \ {f}]
    /\ IF xfer[s].dir # "none" /\ xfer[s].phase = "awaiting_af"
       THEN /\ Become(s, handed[s], NoXfer, yapp[s], <<>>)
            /\ Fail(xfer[s])
       ELSE UNCHANGED <<xfer, yapp, handed, failed>>
    /\ UNCHANGED <<air, rrTimers, up, files, events, complete, sent, doubts>>

Sender(s) == SendFile(s) \/ Encode(s) \/ OtherBurst(s) \/ RrTimer(s) \/ AfTimer(s)

------------------------------------------------------------------------------
(* The operator of either side. *)
Accept(s) ==
    /\ xfer[s].phase = "awaiting_accept"
    /\ Become(s, handed[s], [xfer[s] EXCEPT !.phase = "active"], yapp[s], <<Control("RR")>>)
    /\ UNCHANGED <<air, timers, up, files, events, reports, doubts>>

Reject(s) ==
    /\ xfer[s].phase = "awaiting_accept"
    /\ Become(s, handed[s], NoXfer, yapp[s], <<Control("CN")>>)
    /\ UNCHANGED <<air, timers, up, files, events, reports, doubts>>

AbortSending(s) ==
    /\ xfer[s].dir = "tx" /\ ~xfer[s].abort
    /\ Become(s, handed[s], [xfer[s] EXCEPT !.abort = TRUE], yapp[s], <<>>)
    /\ UNCHANGED <<air, timers, up, files, events, reports, doubts>>

AbortReceiving(s) ==
    /\ xfer[s].dir = "rx"
    /\ Become(s, handed[s], NoXfer, NoFile, <<Control("CN")>>)
    /\ unheard' = TRUE
    /\ UNCHANGED <<air, timers, up, files, events, reports, lost, hurried>>

Operator(s) == Accept(s) \/ Reject(s) \/ AbortSending(s) \/ AbortReceiving(s)

------------------------------------------------------------------------------
(* yappHandleFrame(): s receives frame m of its peer. *)
HandleSI(s) ==
    /\ IF xfer[s].dir # "none"
       THEN Become(s, handed[s], xfer[s], yapp[s], <<Control("CN")>>)
       ELSE Become(s, handed[s], [NoXfer EXCEPT !.dir = "rx", !.phase = "awaiting_accept"],
                   yapp[s], <<>>)
    /\ UNCHANGED reports

(* Mutant of HandleRR: the first frame is counted when it is handed on, too *)
HandleRRCounts(s) ==
    IF xfer[s].dir = "tx" /\ xfer[s].phase = "awaiting_rr"
    THEN /\ PumpNextFrame(s, handed[s],
                [xfer[s] EXCEPT !.phase = "active", !.left = Planned, !.sent = 1])
         /\ UNCHANGED <<complete, sent>>
    ELSE UNCHANGED <<xfer, yapp, handed, reports>>

HandleRR(s) ==
    IF xfer[s].dir = "tx" /\ xfer[s].phase = "awaiting_rr"
    THEN /\ PumpNextFrame(s, handed[s],
                [xfer[s] EXCEPT !.phase = "active", !.left = Planned, !.sent = 0])
         /\ UNCHANGED <<complete, sent>>
    ELSE UNCHANGED <<xfer, yapp, handed, reports>>

(* Mutant of HandleAF: the transfer is not reset *)
HandleAFKeeps(s) ==
    IF xfer[s].dir = "tx" /\ xfer[s].phase = "awaiting_af"
    THEN /\ UNCHANGED <<xfer, yapp, handed>>
         /\ sent' = sent \cup {xfer[s].file}
         /\ UNCHANGED <<complete, failed>>
    ELSE UNCHANGED <<xfer, yapp, handed, reports>>

HandleAF(s) ==
    IF xfer[s].dir = "tx" /\ xfer[s].phase = "awaiting_af"
    THEN /\ Become(s, handed[s], NoXfer, yapp[s], <<>>)
         /\ sent' = sent \cup {xfer[s].file}
         /\ UNCHANGED <<complete, failed>>
    ELSE UNCHANGED <<xfer, yapp, handed, reports>>

(* Mutant of HandleHD: answered with the AF instead of the RF *)
HandleHDAckFile(s, m) ==
    /\ Become(s, handed[s], [xfer[s] EXCEPT !.dir = "rx", !.file = m.file],
              [open |-> TRUE, file |-> m.file, buf |-> <<>>], <<Control("AF")>>)
    /\ UNCHANGED reports

HandleHD(s, m) ==
    /\ Become(s, handed[s], [xfer[s] EXCEPT !.dir = "rx", !.file = m.file],
              [open |-> TRUE, file |-> m.file, buf |-> <<>>], <<Control("RF")>>)
    /\ UNCHANGED reports

HandleDT(s, m) ==
    /\ IF yapp[s].open
       THEN Become(s, handed[s], xfer[s], [yapp[s] EXCEPT !.buf = Append(@, m)], <<>>)
       ELSE UNCHANGED <<xfer, yapp, handed>>
    /\ UNCHANGED reports

HandleEF(s) ==
    IF yapp[s].open
    THEN /\ Become(s, handed[s], NoXfer, NoFile, <<Control("AF")>>)
         /\ complete' = complete \cup {[file |-> yapp[s].file, buf |-> yapp[s].buf]}
         /\ UNCHANGED <<sent, failed>>
    ELSE UNCHANGED <<xfer, yapp, handed, reports>>

HandleCN(s) ==
    IF xfer[s].dir # "none"
    THEN /\ Become(s, handed[s], NoXfer, NoFile, <<>>)
         /\ Fail(xfer[s])
         /\ UNCHANGED <<complete, sent>>
    ELSE UNCHANGED <<xfer, yapp, handed, reports>>

HandleRF == UNCHANGED <<xfer, yapp, handed, reports>>

HandleFrame(s, m) ==
    \/ m.kind = "SI" /\ HandleSI(s)
    \/ m.kind = "RR" /\ HandleRR(s)
    \/ m.kind = "AF" /\ HandleAF(s)
    \/ m.kind = "HD" /\ HandleHD(s, m)
    \/ m.kind = "DT" /\ HandleDT(s, m)
    \/ m.kind = "EF" /\ HandleEF(s)
    \/ m.kind = "CN" /\ HandleCN(s)
    \/ m.kind = "RF" /\ HandleRF

RxData(s) ==
    /\ air[Peer(s)] # <<>>
    /\ air' = [air EXCEPT ![Peer(s)] = Tail(@)]
    /\ HandleFrame(s, Head(air[Peer(s)]))
    /\ UNCHANGED <<timers, up, files, events, doubts>>

------------------------------------------------------------------------------
(* The link. *)
UnderWay ==
    {xfer[s].file : s \in {t \in Stations : xfer[t].dir = "tx"}}
        \cup {yapp[s].file : s \in {t \in Stations : yapp[t].open}}

LoseLink ==
    /\ events < MaxEvents
    /\ events' = events + 1
    /\ up' = FALSE
    /\ air' = [s \in Stations |-> <<>>]
    /\ lost' = lost \cup UnderWay
    /\ unheard' = TRUE

(* onAxLinkTerminated() leaves the transfers as they are. *)
LinkTerminated ==
    /\ up
    /\ LoseLink
    /\ handed' = [s \in Stations |-> <<>>]
    /\ UNCHANGED <<xfer, yapp, timers, files, reports, hurried>>

(* The session is deleted, and its single shots find it no more; the next
   connection makes a new one. *)
TermClose(s) ==
    /\ LoseLink
    /\ xfer' = [xfer EXCEPT ![s] = NoXfer] /\ yapp' = [yapp EXCEPT ![s] = NoFile]
    /\ handed' = [t \in Stations |-> <<>>]
    /\ rrTimers' = [rrTimers EXCEPT ![s] = {}] /\ afTimers' = [afTimers EXCEPT ![s] = {}]
    /\ UNCHANGED <<files, reports, hurried>>

LinkEstablished ==
    /\ ~up /\ up' = TRUE
    /\ UNCHANGED <<xfer, yapp, handed, air, timers, files, events, reports, doubts>>

Link == LinkTerminated \/ LinkEstablished \/ \E s \in Stations : TermClose(s)

Next == Link \/ \E s \in Stations : Sender(s) \/ Operator(s) \/ RxData(s)

Spec == Init /\ [][Next]_vars

(* The link carries what it was given, and the event loop runs the single
   shots; nobody has to send, accept or abort anything. *)
FairSpec ==
    /\ Spec
    /\ \A s \in Stations :
        WF_vars(Encode(s)) /\ WF_vars(RxData(s)) /\ WF_vars(RrTimer(s)) /\ WF_vars(AfTimer(s))

------------------------------------------------------------------------------
FileIds == 0..MaxFiles      \* 0: no file
Frames ==
    [kind : {"SI", "RR", "AF", "EF", "CN", "RF"}, file : {0}, chunk : {0}]
        \cup [kind : {"HD"}, file : FileIds, chunk : {0}]
        \cup [kind : {"DT"}, file : FileIds, chunk : 1..Chunks]
Xfers ==
    [dir : {"none", "tx", "rx"},
     phase : {"none", "awaiting_rr", "awaiting_accept", "active", "awaiting_af"},
     file : FileIds, abort : BOOLEAN, left : 0..Planned, sent : 0..Planned]
Receptions == [open : BOOLEAN, file : FileIds, buf : Seq(Frames)]

TypeOK ==
    /\ xfer \in [Stations -> Xfers] /\ yapp \in [Stations -> Receptions]
    /\ handed \in [Stations -> Seq(Frames)] /\ air \in [Stations -> Seq(Frames)]
    /\ rrTimers \in [Stations -> SUBSET FileIds] /\ afTimers \in [Stations -> SUBSET FileIds]
    /\ up \in BOOLEAN /\ unheard \in BOOLEAN
    /\ files \in 0..MaxFiles /\ events \in 0..MaxEvents
    /\ complete \subseteq [file : FileIds, buf : Seq(Frames)]
    /\ sent \subseteq FileIds /\ failed \subseteq FileIds
    /\ lost \subseteq FileIds /\ hurried \subseteq FileIds

(* However many other bursts are counted as frames of the file, every frame
   of it, EF included, has been handed to the link before the transfer waits
   for the AF: the counter and the list advance together. *)
Accounted(x) ==
    x.dir = "tx" =>
        /\ x.phase = "active" => x.sent + x.left + 1 = Planned
        /\ x.phase = "awaiting_af" => x.left = 0
AllHandedOn == \A s \in Stations : Accounted(xfer[s])

(* "File complete": a file is announced with all its chunks, in order and
   without one of another file, whatever was aborted, refused or answered
   late before it; unless the link was lost while it was under way, which
   nothing at the receiver notices. *)
CompleteFilesAreWhole ==
    \A c \in complete : c.buf = Whole(c.file) \/ c.file \in lost

(* The stations deliver files as FileDelivery says.  In doubt are the files
   under way when the link was lost, and those offered while frames of an
   earlier, cancelled transfer, or the AF for it, were still on their way: no
   frame but HD names its file, so that AF, or the one the frames bring about
   after all, may be taken for the later file's. *)
Delivery == INSTANCE FileDelivery WITH
    offered <- 1..files, delivered <- {c.file : c \in complete}, doubted <- lost \cup hurried
DeliversFiles == Delivery!Spec

(* "The transfer is only complete when the peer's AF (ACK 0x03) arrives
   confirming they got the whole file" holds but for the files in doubt: a
   file reported as sent has been announced at the other side with all its
   chunks, whatever timed out, was cancelled or was offered again before. *)
SentFilesArrive ==
    \A f \in sent \ (lost \cup hurried) : [file |-> f, buf |-> Whole(f)] \in complete

(* A sender comes to an end: its frames are pumped, and the two 60 s single
   shots end it when the other side does not answer.  The one exception: the
   link was lost while the data flowed, which takes away the frame whose burst
   would have pumped the next one, and no single shot watches that phase. *)
SenderEnds ==
    <>[](\A s \in Stations : xfer[s].dir = "tx" => Pumping(s) /\ xfer[s].file \in lost)

(* An accepted transfer comes to an end at the receiver, which has no timer
   of its own: the sender finishes or cancels.  Not so after a sender timed
   out before the operator's answer, or a receiver aborted: the answer, or
   the header on its way, then opens a reception nobody serves. *)
Receiving(s) == xfer[s].dir = "rx" /\ xfer[s].phase # "awaiting_accept"
ReceiverEnds == <>[](\A s \in Stations : Receiving(s) => unheard)

(* "The transfer is only complete when the peer's AF (ACK 0x03) arrives
   confirming they got the whole file": a file reported as sent has been
   completed by the other side with all its chunks. *)
SentIsWhole ==
    \A f \in sent : [file |-> f, buf |-> Whole(f)] \in complete
===============================================================================
