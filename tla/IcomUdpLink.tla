----------------------------- MODULE IcomUdpLink -----------------------------
(***************************************************************************)
(* The tracked packets of icomUdpBase (src/radio/icomudpbase.cpp), in one  *)
(* direction: a sender numbers its packets and keeps the last ones, a      *)
(* receiver notes the numbers it has not seen and asks for them every      *)
(* RETRANSMIT_PERIOD, over a UDP path that loses, repeats and reorders.    *)
(*                                                                         *)
(* Both ends run the same class (a radio, or the program's own icomServer, *)
(* speaks the same protocol), so both are modelled from it.  A packet is   *)
(* its sequence number; an idle packet that answers for a packet no longer *)
(* kept cannot be told from it by the receiver's bookkeeping.              *)
(***************************************************************************)
EXTENDS Integers, FiniteSets

CONSTANTS
    SeqMod,        \* quint16 sequence numbers: 65536 in the code
    BufSize,       \* BUFSIZE
    MaxMissing,    \* MAX_MISSING
    Tries,         \* requests for a packet before it is given up: 4 in the code
    MaxInFlight    \* bound of the model on the packets on their way

ASSUME LinkAssumption ==
    /\ SeqMod \in Nat /\ BufSize \in Nat \ {0} /\ MaxMissing \in Nat \ {0}
    /\ BufSize + MaxMissing + 2 < SeqMod
    /\ Tries \in Nat /\ MaxInFlight \in Nat

VARIABLES
    sendSeq,     \* the next number to send
    txSeqBuf,    \* numbers of the packets kept for retransmission
    inFlight,    \* numbers of the packets on their way to the receiver
    request,     \* numbers asked for in the request on its way, {} if none
    rxSeqBuf,    \* numbers seen, or noted as missing
    rxMissing,   \* for each number missed, how often it was asked for
    stuck,       \* the receiver is in a loop it never leaves
    \* history, read by properties only, and only about rxSeqBuf's range
    arrived,     \* numbers that arrived since rxSeqBuf was last emptied
    givenUp      \* numbers given up since then

tx == <<sendSeq, txSeqBuf>>
rx == <<rxSeqBuf, rxMissing, stuck, arrived, givenUp>>
vars == <<tx, inFlight, request, rx>>

Seqs == 0 .. SeqMod - 1
First(S) == CHOOSE s \in S : \A t \in S : s <= t
Last(S) == CHOOSE s \in S : \A t \in S : t <= s

(* What a QMap keyed by number keeps when its first entry is erased at every
   insertion that finds it over BUFSIZE *)
Newest(S) == {s \in S : Cardinality({t \in S : t > s}) <= BufSize}

Nothing == [s \in {} |-> 0]

Init ==
    /\ sendSeq = 1 /\ txSeqBuf = {}
    /\ inFlight = {} /\ request = {}
    /\ rxSeqBuf = {} /\ rxMissing = Nothing /\ stuck = FALSE
    /\ arrived = {} /\ givenUp = {}

-----------------------------------------------------------------------------
(* The sender *)

(* Mutant of Kept: the packets of before the roll-over stay *)
KeptThroughRollOver(S, seq) == Newest(S \cup {seq})

(* The packets kept once seq is sent: number 0 means a roll-over, and the buffer
   starts again *)
Kept(S, seq) == IF seq = 0 THEN {0} ELSE Newest(S \cup {seq})

(* sendTrackedPacket() *)
SendTrackedPacket ==
    /\ Cardinality(inFlight) < MaxInFlight
    /\ txSeqBuf' = Kept(txSeqBuf, sendSeq)
    /\ sendSeq' = (sendSeq + 1) % SeqMod
    /\ inFlight' = inFlight \cup {sendSeq}
    /\ UNCHANGED <<request, rx>>

(* dataReceived() of a request.  Asked for one packet, the sender says nothing if
   it is not kept; asked for several, it sends an idle packet in its place. *)
AnswerRequest ==
    /\ request # {}
    /\ inFlight' = inFlight \cup IF Cardinality(request) = 1
                                  THEN request \cap txSeqBuf ELSE request
    /\ request' = {}
    /\ UNCHANGED <<tx, rx>>

-----------------------------------------------------------------------------
(* The receiver *)

(* The numbers skipped when seq arrives: those after the last one known *)
Skipped(seq) == Last(rxSeqBuf) + 1 .. seq - 1

(* The buffers start again at seq *)
StartAgain(seq) ==
    /\ rxSeqBuf' = {seq} /\ rxMissing' = Nothing
    /\ arrived' = {seq} /\ givenUp' = {}

(* History: only the range the buffer still covers matters *)
Covered(S) == {s \in S : \A t \in rxSeqBuf' : First(rxSeqBuf') <= s}

(* A new number: everything up to it is known now, what was skipped is missing *)
Advance(seq) ==
    /\ rxSeqBuf' = Newest(rxSeqBuf \cup Skipped(seq) \cup {seq})
    /\ rxMissing' = [s \in DOMAIN rxMissing \cup Skipped(seq) |->
                        IF s \in DOMAIN rxMissing THEN rxMissing[s] ELSE 0]
    /\ arrived' = Covered(arrived \cup {seq})
    /\ givenUp' = Covered(givenUp)

(* A number already known: probably a missing packet *)
Fill(seq) ==
    /\ rxMissing' = [s \in DOMAIN rxMissing \ {seq} |-> rxMissing[s]]
    /\ arrived' = arrived \cup {seq}
    /\ UNCHANGED <<rxSeqBuf, givenUp>>

(* Mutant of TrackPacket: a number already known changes nothing *)
TrackNewOnly(seq) ==
    IF rxSeqBuf = {} \/ seq < First(rxSeqBuf) \/ seq - Last(rxSeqBuf) > MaxMissing
    THEN StartAgain(seq)
    ELSE IF seq \in rxSeqBuf
         THEN arrived' = arrived \cup {seq} /\ UNCHANGED <<rxSeqBuf, rxMissing, givenUp>>
         ELSE Advance(seq)

(* The bookkeeping of dataReceived() for a tracked packet.  A number below the
   first one, or far above the last one, is taken for a roll-over. *)
TrackPacket(seq) ==
    IF rxSeqBuf = {} \/ seq < First(rxSeqBuf) \/ seq - Last(rxSeqBuf) > MaxMissing
    THEN StartAgain(seq)
    ELSE IF seq \in rxSeqBuf THEN Fill(seq) ELSE Advance(seq)

(* "for (quint16 f = last + 1; f <= seq; f++)" ends only if seq is not the
   greatest quint16 *)
Endless(seq) ==
    /\ seq = SeqMod - 1 /\ rxSeqBuf # {} /\ seq \notin rxSeqBuf
    /\ seq > Last(rxSeqBuf) + 1 /\ seq - Last(rxSeqBuf) <= MaxMissing

(* Mutant of Untracked: every number is tracked *)
TracksAll(seq) == FALSE

(* Number 0, that of a roll-over, is not tracked *)
Untracked(seq) == seq = 0

(* dataReceived() of a packet; the path may deliver it again.  Once stuck, the
   receiver does nothing else: what its loop does to the buffers is left out. *)
Receive ==
    /\ ~stuck
    /\ \E seq \in inFlight :
        /\ inFlight' \in {inFlight, inFlight \ {seq}}
        /\ stuck' = Endless(seq)
        /\ IF Untracked(seq) THEN UNCHANGED <<rxSeqBuf, rxMissing, arrived, givenUp>>
           ELSE TrackPacket(seq)
    /\ UNCHANGED <<tx, request>>

(* sendRetransmitRequest(), every RETRANSMIT_PERIOD.  A request still on its way
   is overtaken. *)
Askable == {s \in DOMAIN rxMissing : rxMissing[s] < Tries}
SendRetransmitRequest ==
    /\ ~stuck /\ DOMAIN rxMissing # {}
    /\ IF Cardinality(DOMAIN rxMissing) > MaxMissing
       THEN /\ rxSeqBuf' = {} /\ rxMissing' = Nothing
            /\ arrived' = {} /\ givenUp' = {}
            /\ UNCHANGED request
       ELSE /\ rxMissing' = [s \in Askable |-> rxMissing[s] + 1]
            /\ givenUp' = givenUp \cup (DOMAIN rxMissing \ Askable)
            /\ request' = Askable
            /\ UNCHANGED <<rxSeqBuf, arrived>>
    /\ UNCHANGED <<tx, inFlight, stuck>>

(* UDP loses a packet or a request *)
Lose ==
    /\ \/ \E seq \in inFlight : inFlight' = inFlight \ {seq} /\ UNCHANGED request
       \/ request # {} /\ request' = {} /\ UNCHANGED inFlight
    /\ UNCHANGED <<tx, rx>>

Next == SendTrackedPacket \/ AnswerRequest \/ Receive \/ SendRetransmitRequest \/ Lose

Spec == Init /\ [][Next]_vars

(* The receiver's timer fires; nothing is asked of the path or the sender *)
FairSpec == Spec /\ WF_vars(SendRetransmitRequest)

-----------------------------------------------------------------------------
(* Properties *)

(* Every field has its type, and number 0 is never tracked by the receiver. *)
TypeOK ==
    /\ sendSeq \in Seqs /\ txSeqBuf \subseteq Seqs
    /\ inFlight \subseteq Seqs /\ request \subseteq Seqs
    /\ rxSeqBuf \subseteq Seqs \ {0} /\ DOMAIN rxMissing \subseteq Seqs \ {0}
    /\ \A s \in DOMAIN rxMissing : rxMissing[s] \in 0 .. Tries
    /\ stuck \in BOOLEAN /\ arrived \subseteq Seqs /\ givenUp \subseteq Seqs

(* The receiver knows its gaps: within the range its buffer covers, a number
   has arrived, is on the list of missing packets, or was asked for in vain.
   It asks for nothing that has arrived. *)
GapsAreTracked ==
    rxSeqBuf # {} =>
        \A s \in First(rxSeqBuf) .. Last(rxSeqBuf) :
            /\ s \in arrived \cup DOMAIN rxMissing \cup givenUp
            /\ s \notin arrived \cap DOMAIN rxMissing

(* The sender keeps the packets sent last, without a hole and without one of
   before the roll-over: as many as BUFSIZE allows, or all since number 0. *)
SenderKeepsTheNewest ==
    LET n == Cardinality(txSeqBuf) IN
    /\ txSeqBuf = {(sendSeq - k + SeqMod) % SeqMod : k \in 1 .. n}
    /\ n > BufSize \/ 0 \in txSeqBuf \/ txSeqBuf = 1 .. n

(* "Find all gaps in received packets and then send requests for them.  This
   will run every 100ms": a packet noted as missing comes to be asked for, unless
   it arrives or the list is dropped. *)
GapsAreRequested ==
    \A s \in Seqs :
        (s \in DOMAIN rxMissing /\ rxMissing[s] = 0)
            ~> (s \notin DOMAIN rxMissing \/ rxMissing[s] > 0)
=============================================================================
