-------------------------- MODULE IcomUdpLinkProofs --------------------------
(***************************************************************************)
(* Proofs about the tracked packets, for every width of the numbers and    *)
(* every size of the buffers that leaves room between them.  Both buffers  *)
(* are intervals; the rest follows from what an insertion, an eviction and *)
(* a roll-over make of an interval.                                        *)
(***************************************************************************)
EXTENDS IcomUdpLink, FiniteSetTheorems, TLAPS

(* The ends of an interval *)
LEMMA Ends ==
    ASSUME NEW a \in Nat, NEW b \in Nat, a <= b
    PROVE  First(a .. b) = a /\ Last(a .. b) = b
  <1>1. /\ a \in a .. b /\ \A t \in a .. b : a <= t
        /\ b \in a .. b /\ \A t \in a .. b : t <= b
    BY SMT
  <1>2. \A s \in a .. b : /\ (\A t \in a .. b : s <= t) => s = a
                          /\ (\A t \in a .. b : t <= s) => s = b
    BY <1>1, SMT
  <1> QED  BY <1>1, <1>2, Zenon DEF First, Last

(* What eviction leaves of an interval: its upper end *)
LEMMA NewestOfInterval ==
    ASSUME NEW a \in Nat, NEW b \in Nat, a <= b
    PROVE  \E c \in a .. b : /\ Newest(a .. b) = c .. b
                             /\ (c = a /\ b - BufSize <= a) \/ c = b - BufSize
  <1> DEFINE c == IF b - BufSize > a THEN b - BufSize ELSE a
  <1>0. BufSize \in Nat \ {0}
    BY LinkAssumption
  <1>1. c \in a .. b /\ ((c = a /\ b - BufSize <= a) \/ c = b - BufSize)
    BY <1>0, SMT
  <1>2. ASSUME NEW s \in a .. b
        PROVE  Cardinality({t \in a .. b : t > s}) <= BufSize <=> s \in c .. b
    <2>1. {t \in a .. b : t > s} = s + 1 .. b
      BY SMT
    <2>2. Cardinality(s + 1 .. b) = b - s
      <3>1. s + 1 \in Int /\ b \in Int /\ s <= b
        BY SMT
      <3>2. Cardinality(s + 1 .. b) = IF s + 1 > b THEN 0 ELSE b - (s + 1) + 1
        BY <3>1, FS_Interval, Zenon
      <3> QED  BY <3>1, <3>2, SMT
    <2>3. b - s <= BufSize <=> s \in c .. b
      BY <1>0, SMT
    <2> HIDE DEF c
    <2> QED  BY <2>1, <2>2, <2>3, Zenon
  <1>3. Newest(a .. b) = c .. b
    <2> HIDE DEF c
    <2> QED  BY <1>1, <1>2, SMT DEF Newest
  <1> QED  BY <1>1, <1>3, Zenon

------------------------------------------------------------------------------
(* The sender *)

(* The packets kept are an interval that ends at the last one sent; where it begins
   the buffer was full, or the numbers began. *)
KeepsFrom(a, b) ==
    /\ a <= b /\ txSeqBuf = a .. b
    /\ sendSeq = IF b = SeqMod - 1 THEN 0 ELSE b + 1
    /\ a \in {0, 1} \/ a = b - BufSize

TxInv ==
    \/ txSeqBuf = {} /\ sendSeq = 1
    \/ \E a \in Seqs, b \in Seqs : KeepsFrom(a, b)

LEMMA RollsOver ==
    ASSUME NEW s \in Seqs
    PROVE  (s + 1) % SeqMod = IF s = SeqMod - 1 THEN 0 ELSE s + 1
  BY LinkAssumption, SMT DEF Seqs

LEMMA TxSend == TxInv /\ SendTrackedPacket => TxInv'
  <1> SUFFICES ASSUME TxInv, SendTrackedPacket PROVE TxInv'
    OBVIOUS
  <1>0. SeqMod \in Nat /\ BufSize \in Nat \ {0} /\ BufSize + 3 < SeqMod
    BY LinkAssumption, SMT
  <1>1. txSeqBuf' = Kept(txSeqBuf, sendSeq) /\ sendSeq' = (sendSeq + 1) % SeqMod
    BY Zenon DEF SendTrackedPacket
  <1>2. sendSeq \in Seqs
    BY <1>0, SMT DEF TxInv, KeepsFrom, Seqs
  <1>3. sendSeq' = IF sendSeq = SeqMod - 1 THEN 0 ELSE sendSeq + 1
    BY <1>1, <1>2, RollsOver, Zenon
  <1>4. CASE sendSeq = 0
    <2>1. txSeqBuf' = 0 .. 0
      BY <1>0, <1>1, <1>4, SMT DEF Kept
    <2>2. 0 \in Seqs /\ KeepsFrom(0, 0)'
      BY <1>0, <1>3, <1>4, <2>1, SMT DEF KeepsFrom, Seqs
    <2> QED  BY <2>2, Zenon DEF TxInv
  <1>5. CASE txSeqBuf = {} /\ sendSeq = 1
    <2>1. txSeqBuf' = Newest(1 .. 1)
      BY <1>1, <1>5, SMT DEF Kept
    <2>2. PICK c \in 1 .. 1 : Newest(1 .. 1) = c .. 1
      <3>1. 1 \in Nat /\ 1 <= 1
        BY SMT
      <3> QED  BY <3>1, NewestOfInterval, Zenon
    <2>3. 1 \in Seqs /\ KeepsFrom(1, 1)'
      BY <1>0, <1>3, <1>5, <2>1, <2>2, SMT DEF KeepsFrom, Seqs
    <2> QED  BY <2>3, Zenon DEF TxInv
  <1>6. ASSUME NEW a \in Seqs, NEW b \in Seqs, KeepsFrom(a, b), sendSeq # 0
        PROVE  TxInv'
    <2>1. PICK e \in Seqs : sendSeq = e /\ e = b + 1
      BY <1>0, <1>6, SMT DEF KeepsFrom, Seqs
    <2>2. a \in Nat /\ e \in Nat /\ a <= e
      BY <1>0, <1>6, <2>1, SMT DEF KeepsFrom, Seqs
    <2>3. txSeqBuf \cup {sendSeq} = a .. e
      BY <1>6, <2>1, SMT DEF KeepsFrom, Seqs
    <2>4. PICK c \in a .. e : /\ Newest(a .. e) = c .. e
                              /\ (c = a /\ e - BufSize <= a) \/ c = e - BufSize
      BY <2>2, NewestOfInterval, Zenon
    <2>5. txSeqBuf' = c .. e
      BY <1>1, <1>6, <2>3, <2>4, Zenon DEF Kept
    <2>6. c \in Seqs /\ c <= e
      BY <1>0, <2>2, <2>4, SMT DEF Seqs
    <2>7. c \in {0, 1} \/ c = e - BufSize
      BY <1>0, <1>6, <2>1, <2>4, SMT DEF KeepsFrom
    <2>8. KeepsFrom(c, e)'
      BY <1>0, <1>3, <2>1, <2>5, <2>6, <2>7, SMT DEF KeepsFrom, Seqs
    <2> QED  BY <2>1, <2>6, <2>8, Zenon DEF TxInv
  <1> QED  BY <1>4, <1>5, <1>6, Zenon DEF TxInv

LEMMA Wraps ==
    ASSUME NEW s \in Seqs
    PROVE  s % SeqMod = s /\ (s + SeqMod) % SeqMod = s
  BY LinkAssumption, SMT DEF Seqs

LEMMA TxImplies == TxInv => SenderKeepsTheNewest
  <1> SUFFICES ASSUME TxInv PROVE SenderKeepsTheNewest
    OBVIOUS
  <1>0. SeqMod \in Nat /\ BufSize \in Nat \ {0}
    BY LinkAssumption
  <1>1. CASE txSeqBuf = {} /\ sendSeq = 1
    <2>1. Cardinality(txSeqBuf) = 0
      BY <1>1, FS_EmptySet, Zenon
    <2>2. 1 .. 0 = {}
      BY SMT
    <2> QED  BY <1>1, <2>1, <2>2, SMT DEF SenderKeepsTheNewest
  <1>2. ASSUME NEW a \in Seqs, NEW b \in Seqs, KeepsFrom(a, b)
        PROVE  SenderKeepsTheNewest
    <2>1. PICK n \in Nat : n = b - a + 1
      BY <1>0, <1>2, SMT DEF KeepsFrom, Seqs
    <2>2. Cardinality(txSeqBuf) = n
      <3>1. a \in Int /\ b \in Int /\ ~(a > b) /\ txSeqBuf = a .. b
        BY <1>0, <1>2, SMT DEF KeepsFrom, Seqs
      <3>2. Cardinality(a .. b) = IF a > b THEN 0 ELSE b - a + 1
        BY <3>1, FS_Interval, Zenon
      <3> QED  BY <2>1, <3>1, <3>2, SMT
    <2>3. ASSUME NEW k \in 1 .. n
          PROVE  (sendSeq - k + SeqMod) % SeqMod = b + 1 - k
      <3>1. b + 1 - k \in Seqs
        BY <1>0, <1>2, <2>1, SMT DEF Seqs, KeepsFrom
      <3>2. CASE sendSeq = b + 1
        <4>1. sendSeq - k + SeqMod = (b + 1 - k) + SeqMod
          BY <1>0, <3>2, SMT DEF Seqs
        <4> QED  BY <3>1, <4>1, Wraps, Zenon
      <3>3. CASE b = SeqMod - 1 /\ sendSeq = 0
        <4>1. sendSeq - k + SeqMod = b + 1 - k
          BY <1>0, <3>3, SMT DEF Seqs
        <4> QED  BY <3>1, <4>1, Wraps, Zenon
      <3> QED  BY <1>2, <3>2, <3>3, Zenon DEF KeepsFrom
    <2>4. txSeqBuf = {b + 1 - k : k \in 1 .. n}
      <3>1. \A s \in a .. b : b + 1 - s \in 1 .. n /\ s = b + 1 - (b + 1 - s)
        BY <1>0, <2>1, SMT DEF Seqs
      <3>2. \A k \in 1 .. n : b + 1 - k \in a .. b
        BY <1>0, <2>1, SMT DEF Seqs
      <3> QED  BY <1>2, <3>1, <3>2, Zenon DEF KeepsFrom
    <2>5. txSeqBuf = {(sendSeq - k + SeqMod) % SeqMod : k \in 1 .. n}
      BY <2>3, <2>4, Zenon
    <2>6. n > BufSize \/ 0 \in txSeqBuf \/ txSeqBuf = 1 .. n
      BY <1>0, <1>2, <2>1, SMT DEF KeepsFrom, Seqs
    <2> QED  BY <2>2, <2>5, <2>6, Zenon DEF SenderKeepsTheNewest
  <1> QED  BY <1>1, <1>2, Zenon DEF TxInv

(* The sender keeps the packets sent last, whatever was lost or asked for again. *)
THEOREM SenderKeeps == Spec => []SenderKeepsTheNewest
  <1>1. Init => TxInv
    BY Zenon DEF Init, TxInv
  <1>2. TxInv /\ [Next]_vars => TxInv'
    <2>1. TxInv /\ UNCHANGED tx => TxInv'
      BY SMT DEF tx, TxInv, KeepsFrom
    <2> QED  BY <2>1, TxSend, Zenon
             DEF Next, AnswerRequest, Receive, SendRetransmitRequest, Lose, vars
  <1> QED  BY <1>1, <1>2, TxImplies, PTL DEF Spec

------------------------------------------------------------------------------
(* The receiver *)

(* The numbers known are an interval; nothing beyond it has arrived or is missed. *)
CoversFrom(a, b) ==
    /\ a <= b /\ rxSeqBuf = a .. b
    /\ \A s \in a .. b : /\ s \in arrived \cup DOMAIN rxMissing \cup givenUp
                         /\ s \notin arrived \cap DOMAIN rxMissing
    /\ \A s \in arrived \cup DOMAIN rxMissing : s <= b

RxInv == rxSeqBuf = {} \/ \E a \in Seqs \ {0}, b \in Seqs \ {0} : CoversFrom(a, b)

LinkInv == TypeOK /\ RxInv

LEMMA LinkImplies == LinkInv => GapsAreTracked
  <1> SUFFICES ASSUME RxInv, rxSeqBuf # {} PROVE GapsAreTracked
    BY Zenon DEF LinkInv, GapsAreTracked
  <1>1. PICK a \in Seqs \ {0}, b \in Seqs \ {0} : CoversFrom(a, b)
    BY Zenon DEF RxInv
  <1>2. a \in Nat /\ b \in Nat /\ a <= b /\ rxSeqBuf = a .. b
    BY <1>1, LinkAssumption, SMT DEF Seqs, CoversFrom
  <1>3. First(rxSeqBuf) = a /\ Last(rxSeqBuf) = b
    BY <1>2, Ends, Zenon
  <1> QED  BY <1>1, <1>3, Zenon DEF CoversFrom, GapsAreTracked

LEMMA LinkInit == Init => LinkInv
  <1> SUFFICES ASSUME Init PROVE LinkInv
    OBVIOUS
  <1>1. 1 \in Seqs
    BY LinkAssumption, SMT DEF Seqs
  <1>2. DOMAIN rxMissing = {}
    BY SMT DEF Init, Nothing
  <1>3. TypeOK
    BY <1>1, <1>2, Zenon DEF Init, TypeOK
  <1> QED  BY <1>3, Zenon DEF Init, LinkInv, RxInv

LEMMA StartsAgain ==
    ASSUME NEW seq \in Seqs \ {0}, StartAgain(seq)
    PROVE  /\ rxSeqBuf' \subseteq Seqs \ {0} /\ DOMAIN rxMissing' \subseteq Seqs \ {0}
           /\ \A s \in DOMAIN rxMissing' : rxMissing'[s] \in 0 .. Tries
           /\ arrived' \subseteq Seqs /\ givenUp' \subseteq Seqs /\ RxInv'
  <1>1. /\ rxSeqBuf' = {seq} /\ DOMAIN rxMissing' = {}
        /\ arrived' = {seq} /\ givenUp' = {}
    BY SMT DEF StartAgain, Nothing
  <1>2. seq .. seq = {seq} /\ seq <= seq
    BY LinkAssumption, SMT DEF Seqs
  <1>3. CoversFrom(seq, seq)'
    BY <1>1, <1>2, SMT DEF CoversFrom
  <1> QED  BY <1>1, <1>3, Zenon DEF RxInv

LEMMA Fills ==
    ASSUME LinkInv, NEW seq \in rxSeqBuf, Fill(seq)
    PROVE  /\ rxSeqBuf' \subseteq Seqs \ {0} /\ DOMAIN rxMissing' \subseteq Seqs \ {0}
           /\ \A s \in DOMAIN rxMissing' : rxMissing'[s] \in 0 .. Tries
           /\ arrived' \subseteq Seqs /\ givenUp' \subseteq Seqs /\ RxInv'
  <1>1. /\ DOMAIN rxMissing' = DOMAIN rxMissing \ {seq}
        /\ \A s \in DOMAIN rxMissing' : rxMissing'[s] = rxMissing[s]
        /\ arrived' = arrived \cup {seq} /\ UNCHANGED <<rxSeqBuf, givenUp>>
    BY SMT DEF Fill
  <1>2. PICK a \in Seqs \ {0}, b \in Seqs \ {0} : CoversFrom(a, b)
    BY Zenon DEF LinkInv, RxInv
  <1>3. seq <= b
    BY <1>2, LinkAssumption, SMT DEF CoversFrom, Seqs
  <1>4. CoversFrom(a, b)'
    BY <1>1, <1>2, <1>3, SMT DEF CoversFrom
  <1>5. RxInv'
    BY <1>4, Zenon DEF RxInv
  <1> QED  BY <1>1, <1>5, SMT DEF LinkInv, TypeOK

LEMMA Advances ==
    ASSUME LinkInv, NEW seq \in Seqs \ {0}, rxSeqBuf # {}, ~(seq < First(rxSeqBuf)),
           seq \notin rxSeqBuf, Advance(seq)
    PROVE  /\ rxSeqBuf' \subseteq Seqs \ {0} /\ DOMAIN rxMissing' \subseteq Seqs \ {0}
           /\ \A s \in DOMAIN rxMissing' : rxMissing'[s] \in 0 .. Tries
           /\ arrived' \subseteq Seqs /\ givenUp' \subseteq Seqs /\ RxInv'
  <1>0. SeqMod \in Nat /\ BufSize \in Nat \ {0} /\ Tries \in Nat
    BY LinkAssumption
  <1>1. PICK a \in Seqs \ {0}, b \in Seqs \ {0} : CoversFrom(a, b)
    BY Zenon DEF LinkInv, RxInv
  <1>2. a \in Nat /\ b \in Nat /\ a <= b /\ rxSeqBuf = a .. b
    BY <1>0, <1>1, SMT DEF Seqs, CoversFrom
  <1>3. First(rxSeqBuf) = a /\ Last(rxSeqBuf) = b
    BY <1>2, Ends, Zenon
  <1>4. b < seq /\ seq \in Nat /\ a <= seq
    BY <1>0, <1>2, <1>3, SMT DEF Seqs
  <1>5. Skipped(seq) = b + 1 .. seq - 1
    BY <1>3, Zenon DEF Skipped
  <1>6. rxSeqBuf \cup Skipped(seq) \cup {seq} = a .. seq
    BY <1>2, <1>4, <1>5, SMT
  <1>7. PICK c \in a .. seq : Newest(a .. seq) = c .. seq
    BY <1>2, <1>4, NewestOfInterval, Zenon
  <1>8. rxSeqBuf' = c .. seq /\ c \in Seqs \ {0} /\ c \in Nat /\ c <= seq
    <2>1. rxSeqBuf' = c .. seq
      BY <1>6, <1>7, Zenon DEF Advance
    <2>2. c \in Seqs \ {0} /\ c \in Nat /\ c <= seq
      BY <1>0, <1>4, <1>7, SMT DEF Seqs
    <2> QED  BY <2>1, <2>2
  <1>9. First(rxSeqBuf') = c
    BY <1>4, <1>8, Ends, Zenon
  <1>10. /\ DOMAIN rxMissing' = DOMAIN rxMissing \cup (b + 1 .. seq - 1)
         /\ \A s \in DOMAIN rxMissing' : rxMissing'[s] = IF s \in DOMAIN rxMissing
                                                        THEN rxMissing[s] ELSE 0
    BY <1>5, SMT DEF Advance
  <1>11. /\ arrived' = {s \in arrived \cup {seq} : c <= s}
         /\ givenUp' = {s \in givenUp : c <= s}
    <2>1. \E t : t \in rxSeqBuf'
      BY <1>4, <1>8, SMT
    <2> QED  BY <1>9, <2>1, Zenon DEF Advance, Covered
  <1>12. CoversFrom(c, seq)'
    <2>1. \A s \in arrived' \cup DOMAIN rxMissing' : s <= seq
      BY <1>0, <1>1, <1>2, <1>4, <1>10, <1>11, SMT DEF CoversFrom, LinkInv, TypeOK, Seqs
    <2>2. ASSUME NEW s \in c .. seq
          PROVE  /\ s \in arrived' \cup DOMAIN rxMissing' \cup givenUp'
                 /\ s \notin arrived' \cap DOMAIN rxMissing'
      <3>1. CASE s \in a .. b
        <4>1. /\ s \in arrived \cup DOMAIN rxMissing \cup givenUp
              /\ s \notin arrived \cap DOMAIN rxMissing
          BY <1>1, <3>1, Zenon DEF CoversFrom
        <4>2. s # seq /\ c <= s /\ s \notin b + 1 .. seq - 1
          BY <1>2, <1>4, <1>8, <3>1, SMT
        <4> QED  BY <1>10, <1>11, <4>1, <4>2, SMT
      <3>2. CASE s \in b + 1 .. seq - 1
        <4>1. s \notin arrived /\ s # seq
          BY <1>1, <1>2, <1>4, <3>2, SMT DEF CoversFrom
        <4> QED  BY <1>10, <1>11, <3>2, <4>1, SMT
      <3>3. CASE s = seq
        <4>1. s \notin DOMAIN rxMissing /\ s \notin b + 1 .. seq - 1 /\ c <= s
          BY <1>1, <1>2, <1>4, <1>8, <3>3, SMT DEF CoversFrom
        <4> QED  BY <1>10, <1>11, <3>3, <4>1, SMT
      <3> QED  BY <1>2, <1>4, <1>7, <3>1, <3>2, <3>3, SMT
    <2> QED  BY <1>8, <2>1, <2>2, Zenon DEF CoversFrom
  <1>13. RxInv'
    BY <1>8, <1>12, Zenon DEF RxInv
  <1>14. rxSeqBuf' \subseteq Seqs \ {0} /\ DOMAIN rxMissing' \subseteq Seqs \ {0}
    BY <1>0, <1>2, <1>4, <1>8, <1>10, SMT DEF LinkInv, TypeOK, Seqs
  <1>15. \A s \in DOMAIN rxMissing' : rxMissing'[s] \in 0 .. Tries
    BY <1>0, <1>10, SMT DEF LinkInv, TypeOK
  <1>16. arrived' \subseteq Seqs /\ givenUp' \subseteq Seqs
    BY <1>11, SMT DEF LinkInv, TypeOK
  <1> QED  BY <1>13, <1>14, <1>15, <1>16

LEMMA LinkNext == LinkInv /\ [Next]_vars => LinkInv'
  <1> SUFFICES ASSUME LinkInv, [Next]_vars PROVE LinkInv'
    OBVIOUS
  <1>0. SeqMod \in Nat /\ Tries \in Nat
    BY LinkAssumption
  <1>1. ASSUME UNCHANGED rx PROVE RxInv'
    BY <1>1, Zenon DEF rx, LinkInv, RxInv, CoversFrom
  <1>2. CASE SendTrackedPacket
    <2>1. sendSeq' \in Seqs
      BY <1>2, RollsOver, LinkAssumption, SMT DEF SendTrackedPacket, LinkInv, TypeOK, Seqs
    <2>2. txSeqBuf' \subseteq Seqs
      <3>1. 0 \in Seqs
        BY LinkAssumption, SMT DEF Seqs
      <3>2. txSeqBuf' = {0} \/ txSeqBuf' = Newest(txSeqBuf \cup {sendSeq})
        BY <1>2, Zenon DEF SendTrackedPacket, Kept
      <3>3. Newest(txSeqBuf \cup {sendSeq}) \subseteq Seqs
        BY Zenon DEF Newest, LinkInv, TypeOK
      <3> QED  BY <3>1, <3>2, <3>3, Zenon
    <2>3. inFlight' \subseteq Seqs
      BY <1>2, Zenon DEF SendTrackedPacket, LinkInv, TypeOK
    <2>4. TypeOK'
      BY <1>2, <2>1, <2>2, <2>3, Zenon DEF SendTrackedPacket, rx, LinkInv, TypeOK
    <2> QED  BY <1>1, <1>2, <2>4, Zenon DEF SendTrackedPacket, LinkInv
  <1>3. CASE AnswerRequest
    <2>1. TypeOK'
      BY <1>3, SMT DEF AnswerRequest, tx, rx, LinkInv, TypeOK
    <2> QED  BY <1>1, <1>3, <2>1, Zenon DEF AnswerRequest, LinkInv
  <1>4. CASE Receive
    <2>1. PICK seq \in inFlight :
            /\ inFlight' \in {inFlight, inFlight \ {seq}} /\ stuck' = Endless(seq)
            /\ IF Untracked(seq) THEN UNCHANGED <<rxSeqBuf, rxMissing, arrived, givenUp>>
               ELSE TrackPacket(seq)
      BY <1>4, Zenon DEF Receive
    <2>2. UNCHANGED <<tx, request>> /\ inFlight' \subseteq Seqs /\ stuck' \in BOOLEAN
      BY <1>4, <2>1, Zenon DEF Receive, LinkInv, TypeOK, Endless
    <2>3. /\ rxSeqBuf' \subseteq Seqs \ {0} /\ DOMAIN rxMissing' \subseteq Seqs \ {0}
          /\ \A s \in DOMAIN rxMissing' : rxMissing'[s] \in 0 .. Tries
          /\ arrived' \subseteq Seqs /\ givenUp' \subseteq Seqs /\ RxInv'
      <3>1. CASE Untracked(seq)
        BY <2>1, <3>1, Zenon DEF LinkInv, TypeOK, RxInv, CoversFrom
      <3>2. CASE ~Untracked(seq)
        <4>1. seq \in Seqs \ {0}
          BY <3>2, Zenon DEF Untracked, LinkInv, TypeOK
        <4>2. \/ StartAgain(seq)
              \/ seq \in rxSeqBuf /\ Fill(seq)
              \/ /\ rxSeqBuf # {} /\ ~(seq < First(rxSeqBuf)) /\ seq \notin rxSeqBuf
                 /\ Advance(seq)
          BY <2>1, <3>2, Zenon DEF TrackPacket
        <4>3. CASE StartAgain(seq)
          BY <4>1, <4>3, StartsAgain, Zenon
        <4>4. CASE seq \in rxSeqBuf /\ Fill(seq)
          BY <4>4, Fills, Zenon
        <4>5. CASE /\ rxSeqBuf # {} /\ ~(seq < First(rxSeqBuf)) /\ seq \notin rxSeqBuf
                   /\ Advance(seq)
          BY <4>1, <4>5, Advances, Zenon
        <4> QED  BY <4>2, <4>3, <4>4, <4>5, Zenon
      <3> QED  BY <3>1, <3>2
    <2>4. TypeOK'
      BY <2>2, <2>3, Zenon DEF tx, LinkInv, TypeOK
    <2> QED  BY <2>3, <2>4, Zenon DEF LinkInv
  <1>5. CASE SendRetransmitRequest
    <2>1. UNCHANGED <<tx, inFlight, stuck>>
      BY <1>5, Zenon DEF SendRetransmitRequest
    <2>2. CASE Cardinality(DOMAIN rxMissing) > MaxMissing
      <3>1. /\ rxSeqBuf' = {} /\ rxMissing' = Nothing
            /\ arrived' = {} /\ givenUp' = {} /\ UNCHANGED request
        BY <1>5, <2>2, Zenon DEF SendRetransmitRequest
      <3>2. DOMAIN rxMissing' = {}
        BY <3>1, SMT DEF Nothing
      <3>3. TypeOK'
        BY <2>1, <3>1, <3>2, Zenon DEF tx, LinkInv, TypeOK
      <3> QED  BY <3>1, <3>3, Zenon DEF LinkInv, RxInv
    <2>3. CASE ~(Cardinality(DOMAIN rxMissing) > MaxMissing)
      <3>1. /\ rxMissing' = [s \in Askable |-> rxMissing[s] + 1]
            /\ givenUp' = givenUp \cup (DOMAIN rxMissing \ Askable)
            /\ request' = Askable /\ UNCHANGED <<rxSeqBuf, arrived>>
        BY <1>5, <2>3, Zenon DEF SendRetransmitRequest
      <3>2. DOMAIN rxMissing' = Askable /\ Askable \subseteq DOMAIN rxMissing
        BY <3>1, Zenon DEF Askable
      <3>3. \A s \in DOMAIN rxMissing' : rxMissing'[s] \in 0 .. Tries
        BY <1>0, <3>1, SMT DEF Askable, LinkInv, TypeOK
      <3>4. TypeOK'
        BY <2>1, <3>1, <3>2, <3>3, SMT DEF tx, LinkInv, TypeOK
      <3>5. ASSUME NEW a, NEW b, CoversFrom(a, b) PROVE CoversFrom(a, b)'
        BY <3>1, <3>2, <3>5, SMT DEF CoversFrom
      <3>6. RxInv'
        BY <3>1, <3>5, Zenon DEF LinkInv, RxInv
      <3> QED  BY <3>4, <3>6, Zenon DEF LinkInv
    <2> QED  BY <2>2, <2>3
  <1>6. CASE Lose
    <2>1. TypeOK'
      BY <1>6, SMT DEF Lose, tx, rx, LinkInv, TypeOK
    <2> QED  BY <1>1, <1>6, <2>1, Zenon DEF Lose, LinkInv
  <1>7. CASE UNCHANGED vars
    <2>1. TypeOK'
      BY <1>7, Zenon DEF vars, tx, rx, LinkInv, TypeOK
    <2> QED  BY <1>1, <1>7, <2>1, Zenon DEF vars, LinkInv
  <1> QED  BY <1>2, <1>3, <1>4, <1>5, <1>6, <1>7, Zenon DEF Next

(* Numbers stay within their width; number 0 is never noted by the receiver. *)
THEOREM TypeCorrect == Spec => []TypeOK
  <1>1. LinkInv => TypeOK
    BY Zenon DEF LinkInv
  <1> QED  BY <1>1, LinkInit, LinkNext, PTL DEF Spec

(* The receiver knows its gaps, however packets are lost, repeated and reordered. *)
THEOREM GapsAreKnown == Spec => []GapsAreTracked
  BY LinkInit, LinkNext, LinkImplies, PTL DEF Spec

===============================================================================
