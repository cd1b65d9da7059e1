--------------------------- MODULE IcomServerProofs ---------------------------
(***************************************************************************)
(* Proofs about the built-in Icom server: its clients find the partners    *)
(* they point to, streams do not outlive the connection they belong to,    *)
(* and the queue is not left stopped.  All hold for any number of programs *)
(* and any addresses.                                                      *)
(***************************************************************************)
EXTENDS IcomServer, TLAPS

(* The pointers and the lists; the radio and the flags; separated because they are
   for different provers. *)
ListsOK ==
    /\ controlClients \subseteq Programs /\ civClients \subseteq Programs
    /\ audioClients \subseteq Programs /\ isAuthenticated \subseteq controlClients
    /\ civClient \in [Programs -> Pointers] /\ audioClient \in [Programs -> Pointers]
    /\ controlClient \in [Programs -> Pointers]
    /\ \A p \in Programs \ controlClients : civClient[p] = None /\ audioClient[p] = None
    /\ \A p \in Programs : controlClient[p] = None <=> p \notin audioClients

RadioOK ==
    /\ address \in [Programs -> Hosts] /\ lan \in BOOLEAN /\ disableUI \in BOOLEAN
    /\ devices \in BOOLEAN
    /\ queueInterval \in Intervals \cup {Default, Stopped}
    /\ interval \in Intervals \cup {Default, Stopped}
    /\ silent \in BOOLEAN /\ freed \in BOOLEAN /\ astray \subseteq Programs

LEMMA TypeParts == TypeOK <=> ListsOK /\ RadioOK
  BY Zenon DEF TypeOK, ListsOK, RadioOK

LEMMA DeletionKeepsLists ==
    ASSUME ListsOK, NEW controls \in SUBSET Programs, controlClients \subseteq controls,
           NEW C \in SUBSET controls, NEW V \in SUBSET Programs, NEW A \in SUBSET Programs,
           DeleteConnections(controls, C, V, A)
    PROVE  ListsOK'
  <1>1. /\ controlClients' \subseteq Programs /\ civClients' \subseteq Programs
        /\ audioClients' \subseteq Programs /\ isAuthenticated' \subseteq controlClients'
    BY SMT DEF ListsOK, DeleteConnections
  <1>2. /\ civClient' \in [Programs -> Pointers] /\ audioClient' \in [Programs -> Pointers]
        /\ controlClient' \in [Programs -> Pointers]
    BY SMT DEF ListsOK, DeleteConnections, Pointers
  <1>3. ASSUME NEW p \in Programs \ controlClients'
        PROVE  civClient'[p] = None /\ audioClient'[p] = None
    <2>1. CASE p \in C
      BY <2>1, SMT DEF ListsOK, DeleteConnections
    <2>2. CASE p \notin C
      <3>1. p \notin controlClients
        BY <1>3, <2>2, Zenon DEF DeleteConnections
      <3>2. civClient[p] = None /\ audioClient[p] = None /\ None \notin V /\ None \notin A
        BY <3>1, <1>3, ServerAssumption, Zenon DEF ListsOK
      <3>3. civClient'[p] = civClient[p] /\ audioClient'[p] = audioClient[p]
        BY <2>2, <3>2, <1>3, SMT DEF ListsOK, DeleteConnections
      <3> QED  BY <3>2, <3>3, Zenon
    <2> QED  BY <2>1, <2>2
  <1>4. ASSUME NEW p \in Programs
        PROVE  controlClient'[p] = None <=> p \notin audioClients'
    BY ServerAssumption, SMT DEF ListsOK, DeleteConnections
  <1> QED  BY <1>1, <1>2, <1>3, <1>4, Zenon DEF ListsOK

LEMMA DeletionKeepsRadio ==
    ASSUME RadioOK, NEW controls, NEW C, NEW V, NEW A, DeleteConnections(controls, C, V, A)
    PROVE  /\ queueInterval' \in Intervals \cup {Default, Stopped}
           /\ interval' \in Intervals \cup {Default, Stopped} /\ devices' \in BOOLEAN
  BY Zenon DEF RadioOK, DeleteConnections

------------------------------------------------------------------------------
(* Types *)

LEMMA TypeInit == Init => TypeOK
  <1> SUFFICES ASSUME Init PROVE ListsOK /\ RadioOK
    BY TypeParts
  <1>1. ListsOK
    BY SMT DEF Init, ListsOK, Pointers
  <1>2. RadioOK
    BY Zenon DEF Init, RadioOK
  <1> QED  BY <1>1, <1>2

LEMMA TypeNext == TypeOK /\ [Next]_vars => TypeOK'
  <1> SUFFICES ASSUME ListsOK, RadioOK, [Next]_vars PROVE ListsOK' /\ RadioOK'
    BY TypeParts, Zenon DEF TypeOK, ListsOK, RadioOK
  <1>1. ASSUME NEW p \in Programs, ControlPacket(p) PROVE ListsOK' /\ RadioOK'
    <2>1. ListsOK'
      BY <1>1, SMT DEF ControlPacket, partners, ListsOK, Pointers
    <2>2. RadioOK'
      BY <1>1, Zenon DEF ControlPacket, config, radio, RadioOK
    <2> QED  BY <2>1, <2>2
  <1>2. ASSUME NEW p \in Programs, NEW valid \in BOOLEAN, Login(p, valid)
        PROVE  ListsOK' /\ RadioOK'
    <2>1. isAuthenticated' \subseteq controlClients'
      BY <1>2, SMT DEF Login, ListsOK
    <2>2. ListsOK'
      BY <1>2, <2>1, SMT DEF Login, partners, ListsOK, Pointers
    <2>3. RadioOK'
      BY <1>2, Zenon DEF Login, config, radio, RadioOK
    <2> QED  BY <2>2, <2>3
  <1>3. ASSUME NEW p \in Programs, ConnInfo(p) PROVE ListsOK' /\ RadioOK'
    <2>1. ListsOK'
      BY <1>3, SMT DEF ConnInfo, partners, ListsOK, Pointers
    <2>2. RadioOK'
      BY <1>3, Zenon DEF ConnInfo, config, radio, RadioOK
    <2> QED  BY <2>1, <2>2
  <1>4. ASSUME NEW p \in Programs, Disconnect(p) PROVE ListsOK' /\ RadioOK'
    <2>1. CASE Freed \in {civClient[p], audioClient[p]}
      <3>1. UNCHANGED <<lists, partners, radio>> /\ UNCHANGED <<config, silent, astray>>
            /\ freed' = TRUE
        BY <1>4, <2>1, Zenon DEF Disconnect
      <3>2. ListsOK'
        BY <3>1, SMT DEF lists, partners, ListsOK, Pointers
      <3>3. RadioOK'
        BY <3>1, Zenon DEF config, radio, RadioOK
      <3> QED  BY <3>2, <3>3
    <2>2. CASE Freed \notin {civClient[p], audioClient[p]}
      <3>1. /\ DeleteConnections(controlClients \cup {p}, {p},
                                 {civClient[p]} \ {None}, {audioClient[p]} \ {None})
            /\ UNCHANGED freed /\ UNCHANGED <<config, silent, astray>>
        BY <1>4, <2>2, Zenon DEF Disconnect
      <3>2. /\ {civClient[p]} \ {None} \in SUBSET Programs
            /\ {audioClient[p]} \ {None} \in SUBSET Programs
            /\ controlClients \cup {p} \in SUBSET Programs
        BY <2>2, SMT DEF ListsOK, Pointers
      <3>3. ListsOK'
        BY <3>1, <3>2, DeletionKeepsLists, SMT
      <3>4. RadioOK'
        BY <3>1, DeletionKeepsRadio, Zenon DEF config, RadioOK
      <3> QED  BY <3>3, <3>4
    <2> QED  BY <2>1, <2>2
  <1>5. ASSUME NEW p \in Programs, CivPacket(p) PROVE ListsOK' /\ RadioOK'
    <2>1. Matching(p, civClient) \subseteq controlClients
      BY SMT DEF Matching, ListsOK
    <2>2. ListsOK'
      BY <1>5, <2>1, SMT DEF CivPacket, ListsOK, Pointers
    <2>3. astray' \subseteq Programs
      BY <1>5, <2>1, SMT DEF CivPacket, Apart, RadioOK, ListsOK
    <2>4. RadioOK'
      BY <1>5, <2>3, Zenon DEF CivPacket, config, radio, RadioOK
    <2> QED  BY <2>2, <2>4
  <1>6. ASSUME NEW p \in Programs, FirstAudioPacket(p) PROVE ListsOK' /\ RadioOK'
    <2>1. Matching(p, audioClient) \subseteq controlClients
      BY SMT DEF Matching, ListsOK
    <2>2. ListsOK'
      BY <1>6, <2>1, ServerAssumption, SMT DEF FirstAudioPacket, ListsOK, Pointers
    <2>3. astray' \subseteq Programs
      BY <1>6, <2>1, SMT DEF FirstAudioPacket, Apart, RadioOK, ListsOK
    <2>4. RadioOK'
      BY <1>6, <2>3, Zenon DEF FirstAudioPacket, config, radio, RadioOK
    <2> QED  BY <2>2, <2>4
  <1>7. ASSUME NEW p \in Programs, AudioPacket(p) PROVE ListsOK' /\ RadioOK'
    <2>1. ListsOK'
      BY <1>7, SMT DEF AudioPacket, lists, partners, ListsOK, Pointers
    <2>2. RadioOK'
      BY <1>7, Zenon DEF AudioPacket, config, radio, RadioOK
    <2> QED  BY <2>1, <2>2
  <1>8. ASSUME NEW C \in SUBSET controlClients, NEW V \in SUBSET civClients,
               NEW A \in SUBSET audioClients, Watchdog(C, V, A)
        PROVE  ListsOK' /\ RadioOK'
    <2> controlClients \in SUBSET Programs /\ V \in SUBSET Programs /\ A \in SUBSET Programs
      BY SMT DEF ListsOK
    <2> DeleteConnections(controlClients, C, V, A)
      BY <1>8, Zenon DEF Watchdog
    <2>1. ListsOK'
      BY DeletionKeepsLists, SMT
    <2>2. Parted(C, V, A) \subseteq Programs
      BY SMT DEF Parted, ListsOK
    <2>3. astray' \subseteq Programs
      BY <1>8, <2>2, SMT DEF Watchdog, RadioOK
    <2>4. RadioOK'
      BY <1>8, <2>3, DeletionKeepsRadio, Zenon DEF Watchdog, config, RadioOK
    <2> QED  BY <2>1, <2>4
  <1>9. CASE SetInterval
    <2>1. ListsOK'
      BY <1>9, SMT DEF SetInterval, lists, partners, ListsOK, Pointers
    <2>2. RadioOK'
      BY <1>9, Zenon DEF SetInterval, config, RadioOK
    <2> QED  BY <2>1, <2>2
  <1>10. CASE Vanish \/ UNCHANGED vars
    <2>1. ListsOK'
      BY <1>10, SMT DEF Vanish, vars, lists, partners, ListsOK, Pointers
    <2>2. RadioOK'
      BY <1>10, Zenon DEF Vanish, vars, config, radio, RadioOK
    <2> QED  BY <2>1, <2>2
  <1> QED
    BY <1>1, <1>2, <1>3, <1>4, <1>5, <1>6, <1>7, <1>8, <1>9, <1>10, Zenon
    DEF Next, Packet, SomeAreStale

(* The lists, pointers and intervals of the server keep their types. *)
THEOREM TypeCorrect == Spec => []TypeOK
  BY TypeInit, TypeNext, PTL DEF Spec

------------------------------------------------------------------------------
(* The queue *)

(* The interval is given back whenever the audio is stopped, and it is saved only
   while there is no audio, when the queue is not stopped. *)
LEMMA StopNext == StopIsUndone /\ [Next]_vars => StopIsUndone'
  <1> SUFFICES ASSUME StopIsUndone, [Next]_vars PROVE StopIsUndone'
    OBVIOUS
  <1>1. ASSUME NEW controls, NEW C, NEW V, NEW A, DeleteConnections(controls, C, V, A)
        PROVE  StopIsUndone'
    BY <1>1, Zenon DEF DeleteConnections, StopIsUndone
  <1>2. ASSUME UNCHANGED radio PROVE StopIsUndone'
    BY <1>2, Zenon DEF radio, StopIsUndone
  <1>3. ASSUME NEW p \in Programs, ConnInfo(p) PROVE StopIsUndone'
    BY <1>3, <1>2, Zenon DEF ConnInfo, StopIsUndone
  <1>4. ASSUME NEW p \in Programs, Disconnect(p) PROVE StopIsUndone'
    BY <1>4, <1>1, <1>2, Zenon DEF Disconnect
  <1>5. CASE SomeAreStale
    BY <1>5, <1>1, Zenon DEF SomeAreStale, Watchdog
  <1>6. CASE SetInterval
    BY <1>6, ServerAssumption, Zenon DEF SetInterval, StopIsUndone
  <1>7. ASSUME NEW p \in Programs, Packet(p) PROVE StopIsUndone'
    BY <1>2, <1>3, <1>4, <1>7, Zenon
    DEF Packet, ControlPacket, Login, CivPacket, FirstAudioPacket, AudioPacket
  <1>8. CASE Vanish \/ UNCHANGED vars
    BY <1>8, <1>2, Zenon DEF Vanish, vars
  <1> QED
    BY <1>5, <1>6, <1>7, <1>8, Zenon DEF Next

(* Whatever the remote programs do, the queue is stopped only while there is audio
   for one of them, and what is saved to be given back is a real interval. *)
THEOREM StopsEnd == Spec => []StopIsUndone
  <1>1. Init => StopIsUndone
    BY ServerAssumption, Zenon DEF Init, StopIsUndone
  <1> QED  BY <1>1, StopNext, PTL DEF Spec

------------------------------------------------------------------------------
(* Partners *)

(* A pointer to the client of another program is astray at both its ends. *)
NoCrossing ==
    \A c \in Programs, p \in Programs :
        c # p /\ p \in {civClient[c], audioClient[c]} => c \in astray /\ p \in astray

(* The clients of a program that is not astray point to each other, and to nobody
   else.  (It takes NoCrossing to know that the deletion of somebody else's
   partners does not reach them.) *)
OwnPartners ==
    \A p \in Programs \ astray :
        /\ civClient[p] \in {None, p} /\ audioClient[p] \in {None, p}
        /\ civClient[p] = p <=> p \in civClients
        /\ audioClient[p] = p <=> p \in audioClients
        /\ p \in audioClients => controlClient[p] = p
        /\ p \in civClients \cup audioClients => p \in isAuthenticated

UsedAfterFree == freed => astray # {}

Together == NoCrossing /\ OwnPartners /\ UsedAfterFree

LEMMA TogetherImplies == TypeOK /\ Together => PartnersExist /\ StreamsHaveControl
  <1> SUFFICES ASSUME ListsOK, Together PROVE PartnersExist /\ StreamsHaveControl
    BY TypeParts
  <1>1. PartnersExist
    BY SMT DEF ListsOK, Together, OwnPartners, UsedAfterFree, PartnersExist
  <1>2. StreamsHaveControl
    BY SMT DEF ListsOK, Together, OwnPartners, StreamsHaveControl
  <1> QED  BY <1>1, <1>2

LEMMA TogetherInit == Init => Together
  BY ServerAssumption, SMT DEF Init, Together, NoCrossing, OwnPartners, UsedAfterFree

(* A deletion that takes both or neither of the clients of a program leaves the
   programs that are not astray together. *)
LEMMA DeletionKeepsTogether ==
    ASSUME ListsOK, Together, NEW controls \in SUBSET Programs, NEW C \in SUBSET controls,
           NEW V \in SUBSET Programs, NEW A \in SUBSET Programs,
           DeleteConnections(controls, C, V, A), UNCHANGED freed, astray \subseteq astray',
           \A p \in Programs \ astray' : /\ p \in V <=> p \in civClients /\ p \in C
                                         /\ p \in A <=> p \in audioClients /\ p \in C
    PROVE  Together'
  <1>1. NoCrossing'
    <2> SUFFICES ASSUME NEW c \in Programs, NEW p \in Programs, c # p,
                        p \in {civClient'[c], audioClient'[c]}
                 PROVE  c \in astray /\ p \in astray
      BY Zenon DEF NoCrossing
    <2>1. /\ civClient'[c] \in {None, Freed, civClient[c]}
          /\ audioClient'[c] \in {None, Freed, audioClient[c]}
      BY SMT DEF ListsOK, DeleteConnections
    <2>2. p \in {civClient[c], audioClient[c]}
      BY <2>1, ServerAssumption, SMT
    <2> QED  BY <2>2, Zenon DEF Together, NoCrossing
  <1>2. OwnPartners'
    <2> SUFFICES ASSUME NEW p \in Programs, p \notin astray'
                 PROVE  /\ civClient'[p] \in {None, p} /\ audioClient'[p] \in {None, p}
                        /\ civClient'[p] = p <=> p \in civClients'
                        /\ audioClient'[p] = p <=> p \in audioClients'
                        /\ p \in audioClients' => controlClient'[p] = p
                        /\ p \in civClients' \cup audioClients' => p \in isAuthenticated'
      BY Zenon DEF OwnPartners
    <2>1. /\ p \in V <=> p \in civClients /\ p \in C
          /\ p \in A <=> p \in audioClients /\ p \in C
      OBVIOUS
    <2>2. /\ civClient[p] \in {None, p} /\ audioClient[p] \in {None, p}
          /\ civClient[p] = p <=> p \in civClients
          /\ audioClient[p] = p <=> p \in audioClients
          /\ p \in audioClients => controlClient[p] = p
          /\ p \in civClients \cup audioClients => p \in isAuthenticated
      BY SMT DEF Together, OwnPartners
    <2>3. /\ civClients' = civClients \ V /\ audioClients' = audioClients \ A
          /\ isAuthenticated' = isAuthenticated \ C
      BY Zenon DEF DeleteConnections
    <2>4. CASE p \in C
      <3>1. civClient'[p] = None /\ audioClient'[p] = None
        BY <2>4, SMT DEF ListsOK, DeleteConnections
      <3> QED  BY <2>1, <2>3, <2>4, <3>1, ServerAssumption, SMT
    <2>5. CASE p \notin C
      <3>1. civClient[p] \notin V /\ audioClient[p] \notin A /\ p \notin A
        BY <2>1, <2>2, <2>5, ServerAssumption, SMT
      <3>2. civClient'[p] = civClient[p] /\ audioClient'[p] = audioClient[p]
        BY <2>5, <3>1, SMT DEF ListsOK, DeleteConnections
      <3>3. p \in audioClients => controlClient'[p] = p
        BY <2>2, <2>5, <3>1, SMT DEF ListsOK, DeleteConnections
      <3> QED  BY <2>1, <2>2, <2>3, <2>5, <3>1, <3>2, <3>3, SMT
    <2> QED  BY <2>4, <2>5
  <1>3. UsedAfterFree'
    BY SMT DEF Together, UsedAfterFree
  <1> QED  BY <1>1, <1>2, <1>3, Zenon DEF Together

LEMMA TogetherDisconnect ==
    ASSUME ListsOK, Together, NEW d \in Programs, Disconnect(d)
    PROVE  Together'
  <1>1. CASE Freed \in {civClient[d], audioClient[d]}
    <2>1. UNCHANGED <<lists, partners, radio>> /\ UNCHANGED astray
      BY <1>1, Zenon DEF Disconnect
    <2>2. d \in astray
      BY <1>1, ServerAssumption, SMT DEF Together, OwnPartners
    <2>3. NoCrossing' /\ OwnPartners'
      BY <2>1, SMT DEF lists, partners, Together, NoCrossing, OwnPartners
    <2> QED  BY <2>1, <2>2, <2>3, SMT DEF Together, UsedAfterFree
  <1>2. CASE Freed \notin {civClient[d], audioClient[d]}
    <2> DEFINE V == {civClient[d]} \ {None}
               A == {audioClient[d]} \ {None}
    <2>1. /\ DeleteConnections(controlClients \cup {d}, {d}, V, A)
          /\ UNCHANGED freed /\ UNCHANGED astray
      BY <1>2, Zenon DEF Disconnect
    <2>2. V \in SUBSET Programs /\ A \in SUBSET Programs
      BY <1>2, SMT DEF ListsOK, Pointers
    <2>3. ASSUME NEW p \in Programs, p \notin astray
          PROVE  /\ p \in V <=> p \in civClients /\ p \in {d}
                 /\ p \in A <=> p \in audioClients /\ p \in {d}
      <3>1. CASE p = d
        <4>1. /\ civClient[d] \in {None, d} /\ audioClient[d] \in {None, d}
              /\ civClient[d] = d <=> d \in civClients
              /\ audioClient[d] = d <=> d \in audioClients
          BY <2>3, <3>1, SMT DEF Together, OwnPartners
        <4> QED  BY <3>1, <4>1, ServerAssumption, SMT
      <3>2. CASE p # d
        BY <2>3, <3>2, SMT DEF Together, NoCrossing
      <3> QED  BY <3>1, <3>2
    <2>4. controlClients \cup {d} \in SUBSET Programs /\ {d} \in SUBSET (controlClients \cup {d})
      BY SMT DEF ListsOK
    <2> HIDE DEF V, A
    <2>5. astray \subseteq astray'
          /\ \A p \in Programs \ astray' : /\ p \in V <=> p \in civClients /\ p \in {d}
                                           /\ p \in A <=> p \in audioClients /\ p \in {d}
      BY <2>1, <2>3, SMT
    <2> QED  BY <2>1, <2>2, <2>4, <2>5, DeletionKeepsTogether, SMT
  <1> QED  BY <1>1, <1>2

LEMMA TogetherWatchdog ==
    ASSUME ListsOK, Together, NEW C \in SUBSET controlClients, NEW V \in SUBSET civClients,
           NEW A \in SUBSET audioClients, Watchdog(C, V, A)
    PROVE  Together'
  <1>1. /\ DeleteConnections(controlClients, C, V, A) /\ UNCHANGED freed
        /\ astray' = astray \cup Parted(C, V, A)
    BY Zenon DEF Watchdog
  <1>2. /\ controlClients \in SUBSET Programs
        /\ V \in SUBSET Programs /\ A \in SUBSET Programs
    BY SMT DEF ListsOK
  <1>3. ASSUME NEW p \in Programs, p \notin astray'
        PROVE  /\ p \in V <=> p \in civClients /\ p \in C
               /\ p \in A <=> p \in audioClients /\ p \in C
    <2>1. /\ p \in civClients => civClient[p] = p /\ p \in controlClients
          /\ p \in audioClients => /\ audioClient[p] = p /\ controlClient[p] = p
                                   /\ p \in controlClients
      BY <1>1, <1>3, SMT DEF Together, OwnPartners, ListsOK
    <2>2. p \notin Parted(C, V, A)
      BY <1>1, <1>3, SMT
    <2>3. p \in V <=> p \in civClients /\ p \in C
      BY <2>1, <2>2, SMT DEF Parted
    <2>4. p \in A <=> p \in audioClients /\ p \in C
      BY <2>1, <2>2, SMT DEF Parted
    <2> QED  BY <2>3, <2>4
  <1>4. astray \subseteq astray'
        /\ \A p \in Programs \ astray' : /\ p \in V <=> p \in civClients /\ p \in C
                                         /\ p \in A <=> p \in audioClients /\ p \in C
    BY <1>1, <1>3, SMT
  <1> QED  BY <1>1, <1>2, <1>4, DeletionKeepsTogether, SMT

LEMMA TogetherNext == TypeOK /\ Together /\ [Next]_vars => Together'
  <1> SUFFICES ASSUME ListsOK, Together, [Next]_vars PROVE Together'
    BY TypeParts
  <1>1. ASSUME UNCHANGED <<civClients, audioClients, partners, freed, astray>>,
               isAuthenticated \subseteq isAuthenticated'
        PROVE  Together'
    <2>1. NoCrossing' /\ UsedAfterFree'
      BY <1>1, SMT DEF partners, Together, NoCrossing, UsedAfterFree
    <2>2. OwnPartners'
      BY <1>1, SMT DEF partners, Together, OwnPartners
    <2> QED  BY <2>1, <2>2, Zenon DEF Together
  <1>2. ASSUME NEW p \in Programs, ControlPacket(p) PROVE Together'
    BY <1>1, <1>2, SMT DEF ControlPacket
  <1>3. ASSUME NEW p \in Programs, NEW valid \in BOOLEAN, Login(p, valid) PROVE Together'
    BY <1>1, <1>3, SMT DEF Login
  <1>4. ASSUME NEW p \in Programs, ConnInfo(p) PROVE Together'
    BY <1>1, <1>4, SMT DEF ConnInfo
  <1>5. ASSUME NEW p \in Programs, CivPacket(p) PROVE Together'
    <2> DEFINE matching == Matching(p, civClient)
    <2>1. /\ civClients' = civClients \cup {p} /\ astray' = astray \cup Apart(p, matching)
          /\ civClient' = [c \in Programs |-> IF c \in matching THEN p ELSE civClient[c]]
          /\ UNCHANGED <<audioClients, isAuthenticated, audioClient, controlClient, freed>>
          /\ matching # {} /\ p \notin civClients
      BY <1>5, Zenon DEF CivPacket
    <2>2. matching \subseteq isAuthenticated /\ (p \in matching => civClient[p] = None)
      BY SMT DEF Matching
    <2>3. \A c \in matching : c # p => c \in astray' /\ p \in astray'
      BY <2>1, SMT DEF Apart
    <2>4. p \notin astray' => matching = {p}
      BY <2>1, SMT DEF Apart
    <2> HIDE DEF matching
    <2>5. NoCrossing'
      BY <2>1, <2>3, SMT DEF Together, NoCrossing
    <2>6. ASSUME NEW c \in Programs, c \notin astray'
          PROVE  /\ civClient'[c] \in {None, c}
                 /\ civClient'[c] = c <=> c \in civClients'
                 /\ c \in civClients' => c \in isAuthenticated
      <3>1. /\ civClient[c] \in {None, c} /\ (civClient[c] = c <=> c \in civClients)
            /\ c \in civClients => c \in isAuthenticated
        BY <2>1, <2>6, SMT DEF Together, OwnPartners
      <3>2. CASE c = p
        BY <2>1, <2>2, <2>4, <2>6, <3>1, <3>2, SMT
      <3>3. CASE c # p
        BY <2>1, <2>3, <2>6, <3>1, <3>3, SMT
      <3> QED  BY <3>2, <3>3
    <2>7. OwnPartners'
      BY <2>1, <2>6, SMT DEF Together, OwnPartners
    <2> QED  BY <2>1, <2>5, <2>7, SMT DEF Together, UsedAfterFree
  <1>6. ASSUME NEW p \in Programs, FirstAudioPacket(p) PROVE Together'
    <2> DEFINE matching == Matching(p, audioClient)
    <2>1. PICK m \in matching :
            /\ audioClients' = audioClients \cup {p} /\ astray' = astray \cup Apart(p, matching)
            /\ audioClient' = [c \in Programs |-> IF c \in matching THEN p ELSE audioClient[c]]
            /\ controlClient' = [controlClient EXCEPT ![p] = m]
            /\ UNCHANGED <<civClients, isAuthenticated, civClient, freed>>
            /\ p \notin audioClients
      BY <1>6, Zenon DEF FirstAudioPacket
    <2>2. matching \subseteq isAuthenticated /\ (p \in matching => audioClient[p] = None)
      BY SMT DEF Matching
    <2>3. \A c \in matching : c # p => c \in astray' /\ p \in astray'
      BY <2>1, SMT DEF Apart
    <2>4. p \notin astray' => matching = {p}
      BY <2>1, SMT DEF Apart
    <2> HIDE DEF matching
    <2>5. NoCrossing'
      BY <2>1, <2>3, SMT DEF Together, NoCrossing
    <2>6. ASSUME NEW c \in Programs, c \notin astray'
          PROVE  /\ audioClient'[c] \in {None, c}
                 /\ audioClient'[c] = c <=> c \in audioClients'
                 /\ c \in audioClients' => controlClient'[c] = c /\ c \in isAuthenticated
      <3>1. /\ audioClient[c] \in {None, c} /\ (audioClient[c] = c <=> c \in audioClients)
            /\ c \in audioClients => controlClient[c] = c /\ c \in isAuthenticated
        BY <2>1, <2>6, SMT DEF Together, OwnPartners
      <3>2. CASE c = p
        <4>1. controlClient'[c] = c
          BY <2>1, <2>4, <2>6, <3>2, SMT DEF ListsOK
        <4> QED  BY <2>1, <2>2, <2>4, <2>6, <3>1, <3>2, <4>1, SMT
      <3>3. CASE c # p
        <4>1. controlClient'[c] = controlClient[c]
          BY <2>1, <3>3, SMT DEF ListsOK
        <4> QED  BY <2>1, <2>3, <2>6, <3>1, <3>3, <4>1, SMT
      <3> QED  BY <3>2, <3>3
    <2>7. OwnPartners'
      BY <2>1, <2>6, SMT DEF Together, OwnPartners
    <2> QED  BY <2>1, <2>5, <2>7, SMT DEF Together, UsedAfterFree
  <1>7. ASSUME NEW p \in Programs, AudioPacket(p) PROVE Together'
    <2>1. p \in astray
      BY <1>7, ServerAssumption, SMT DEF AudioPacket, Together, OwnPartners
    <2>2. NoCrossing' /\ OwnPartners'
      BY <1>7, SMT DEF AudioPacket, lists, partners, Together, NoCrossing, OwnPartners
    <2> QED  BY <1>7, <2>1, <2>2, SMT DEF AudioPacket, Together, UsedAfterFree
  <1>8. CASE SomeAreStale
    BY <1>8, TogetherWatchdog, Zenon DEF SomeAreStale
  <1>9. CASE SetInterval \/ Vanish \/ UNCHANGED vars
    BY <1>1, <1>9, SMT DEF SetInterval, Vanish, vars, lists, config, radio
  <1> QED
    BY <1>2, <1>3, <1>4, <1>5, <1>6, <1>7, <1>8, <1>9, TogetherDisconnect, Zenon DEF Next, Packet

(* No handler meets a client that was deleted, unless clients were made or deleted
   apart. *)
THEOREM PartnersAreThere == Spec => []PartnersExist
  BY TypeInit, TypeNext, TogetherInit, TogetherNext, TogetherImplies, PTL DEF Spec

(* Streams end with the control connection they were opened for. *)
THEOREM StreamsAreServed == Spec => []StreamsHaveControl
  BY TypeInit, TypeNext, TogetherInit, TogetherNext, TogetherImplies, PTL DEF Spec

===============================================================================
