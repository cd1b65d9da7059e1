------------------------------ MODULE IcomServer ------------------------------
(***************************************************************************)
(* The built-in Icom server: the clients it keeps for remote programs, how *)
(* their control, CI-V and audio connections find each other, how they are *)
(* deleted, and the interval of the command queue, which the server takes  *)
(* from the local program while a remote one has the radio.                *)
(*                                                                         *)
(* A remote program is external: it sends what it likes on the three ports *)
(* of the server, or nothing any more.  A client is known by its list and  *)
(* its program, for a program sends from one port to each of the server's. *)
(* The order of a list is left out: of several control clients that match  *)
(* a new audio client, any may come last.  The fields of a CIV client that *)
(* point back are not read after it was made, and are left out.            *)
(*                                                                         *)
(* The server has one radio.  Its packets are numbered and repeated as in  *)
(* IcomUdpLink; the lists' mutex is only used by the server's own thread,  *)
(* so it is always free.                                                   *)
(***************************************************************************)
EXTENDS Integers

CONSTANTS
    Programs,   \* remote programs
    Hosts,      \* addresses they may have
    None,       \* a null pointer
    Freed,      \* a pointer to a client that was deleted
    Intervals,  \* what servermain sets the queue's interval to
    Default     \* RIGCONFIG::queueInterval before anything was saved in it

Stopped == -1

ASSUME ServerAssumption ==
    /\ None \notin Programs /\ Freed \notin Programs /\ None # Freed
    /\ Stopped \notin Intervals /\ Stopped # Default

VARIABLES
    address,          \* of each program
    lan,              \* config->lan: the audio devices are elsewhere
    disableUI,        \* config->disableUI, which servermain never sets
    controlClients, civClients, audioClients,   \* the programs in each list
    isAuthenticated,  \* control clients that have logged in
    civClient,        \* pointers of the control clients to their partners
    audioClient,
    controlClient,    \* pointer of the audio clients to theirs
    devices,          \* rxaudio and txaudio, with their threads
    queueInterval,    \* what is saved to be given back
    interval,         \* of the command queue
    silent,           \* the programs, or the network, have gone without a word
    freed,            \* a deleted client was used: nothing is said of what follows
    \* history, read by properties only
    astray            \* programs whose clients were made or deleted apart: see below

config == <<address, lan, disableUI>>
lists == <<controlClients, civClients, audioClients, isAuthenticated>>
partners == <<civClient, audioClient, controlClient>>
radio == <<devices, queueInterval, interval>>
vars == <<config, lists, partners, radio, silent, freed, astray>>

Init ==
    /\ address \in [Programs -> Hosts] /\ lan \in BOOLEAN /\ disableUI \in BOOLEAN
    /\ controlClients = {} /\ civClients = {} /\ audioClients = {} /\ isAuthenticated = {}
    /\ civClient = [p \in Programs |-> None] /\ audioClient = [p \in Programs |-> None]
    /\ controlClient = [p \in Programs |-> None]
    /\ devices = FALSE /\ queueInterval = Default /\ interval \in Intervals
    /\ silent = FALSE /\ freed = FALSE /\ astray = {}

(* deleteConnection() of the control clients C, the CI-V clients V and the audio
   clients A, with those in "controls" on the first list.  Whoever pointed to
   them still does; whichever list is empty then, the queue's interval is given
   back and the audio stopped. *)
DeleteConnections(controls, C, V, A) ==
    /\ controlClients' = controls \ C /\ isAuthenticated' = isAuthenticated \ C
    /\ civClients' = civClients \ V /\ audioClients' = audioClients \ A
    /\ civClient' = [c \in Programs |-> IF c \in C THEN None
                                        ELSE IF civClient[c] \in V THEN Freed ELSE civClient[c]]
    /\ audioClient' = [c \in Programs |-> IF c \in C THEN None
                                          ELSE IF audioClient[c] \in A THEN Freed
                                          ELSE audioClient[c]]
    /\ controlClient' = [p \in Programs |-> IF p \in A THEN None
                                            ELSE IF controlClient[p] \in C THEN Freed
                                            ELSE controlClient[p]]
    /\ IF \/ C # {} /\ controls \subseteq C
          \/ V # {} /\ civClients \subseteq V
          \/ A # {} /\ audioClients \subseteq A
       THEN interval' = queueInterval /\ devices' = FALSE
       ELSE UNCHANGED <<interval, devices>>
    /\ UNCHANGED queueInterval

------------------------------------------------------------------------------
(* controlReceived().  A packet from a program not in the list makes a client of
   it, whatever the packet is. *)

(* Pings, token requests, "are you there" *)
ControlPacket(p) ==
    /\ ~freed /\ ~silent
    /\ controlClients' = controlClients \cup {p}
    /\ UNCHANGED <<config, civClients, audioClients, isAuthenticated, partners, radio, silent, freed,
                   astray>>

(* Mutant of Login: the client is used although the list could not be locked *)
LoginUnlisted(p, valid) ==
    /\ ~freed /\ ~silent
    /\ isAuthenticated' = IF valid THEN isAuthenticated \cup {p} ELSE isAuthenticated
    /\ UNCHANGED <<config, controlClients, civClients, audioClients, partners, radio, silent, freed,
                   astray>>

(* A refused login leaves an earlier one as it was. *)
Login(p, valid) ==
    /\ ~freed /\ ~silent
    /\ controlClients' = controlClients \cup {p}
    /\ isAuthenticated' = IF valid THEN isAuthenticated \cup {p} ELSE isAuthenticated
    /\ UNCHANGED <<config, civClients, audioClients, partners, radio, silent, freed, astray>>

(* Mutant of ConnInfo: the interval is saved for every client that streams *)
ConnInfoSavesAgain(p) ==
    /\ ~freed /\ ~silent
    /\ controlClients' = controlClients \cup {p}
    /\ IF ~lan
       THEN /\ devices' = TRUE /\ queueInterval' = interval
            /\ interval' = IF disableUI THEN Stopped ELSE interval
       ELSE UNCHANGED radio
    /\ UNCHANGED <<config, civClients, audioClients, isAuthenticated, partners, silent, freed, astray>>

(* The request for CI-V and audio: the first one stops the queue. *)
ConnInfo(p) ==
    /\ ~freed /\ ~silent
    /\ controlClients' = controlClients \cup {p}
    /\ IF ~lan /\ ~devices
       THEN /\ devices' = TRUE /\ queueInterval' = interval
            /\ interval' = IF disableUI THEN Stopped ELSE interval
       ELSE UNCHANGED radio
    /\ UNCHANGED <<config, civClients, audioClients, isAuthenticated, partners, silent, freed, astray>>

(* Mutant of Disconnect: the audio client stays *)
DisconnectKeepsAudio(p) ==
    /\ ~freed /\ ~silent
    /\ IF Freed \in {civClient[p], audioClient[p]}
       THEN /\ freed' = TRUE
            /\ UNCHANGED <<lists, partners, radio>>
       ELSE /\ DeleteConnections(controlClients \cup {p}, {p}, {civClient[p]} \ {None}, {})
            /\ UNCHANGED freed
    /\ UNCHANGED <<config, silent, astray>>

(* 0x05: the partners are deleted, then the client itself. *)
Disconnect(p) ==
    /\ ~freed /\ ~silent
    /\ IF Freed \in {civClient[p], audioClient[p]}
       THEN /\ freed' = TRUE
            /\ UNCHANGED <<lists, partners, radio>>
       ELSE /\ DeleteConnections(controlClients \cup {p}, {p},
                                 {civClient[p]} \ {None}, {audioClient[p]} \ {None})
            /\ UNCHANGED freed
    /\ UNCHANGED <<config, silent, astray>>

(* The control clients a new client of p belongs to: all at its address that have
   logged in and have no partner of the kind yet *)
Matching(p, partner) ==
    {c \in isAuthenticated : address[c] = address[p] /\ partner[c] = None}

Apart(p, matching) == IF matching = {p} THEN {} ELSE matching \cup {p}

(* Mutant of CivPacket: a program that has not logged in is served, too *)
CivPacketAnyone(p) ==
    /\ ~freed /\ ~silent /\ p \notin civClients
    /\ civClients' = civClients \cup {p}
    /\ civClient' = [c \in Programs |-> IF c \in Matching(p, civClient) THEN p ELSE civClient[c]]
    /\ astray' = astray \cup (IF Matching(p, civClient) = {} THEN {}
                              ELSE Apart(p, Matching(p, civClient)))
    /\ UNCHANGED <<config, controlClients, audioClients, isAuthenticated, audioClient,
                   controlClient, radio, silent, freed>>

(* civReceived(), of a program not in the list; it is ignored when nobody at its
   address has logged in. *)
CivPacket(p) ==
    LET matching == Matching(p, civClient)
    IN  /\ ~freed /\ ~silent /\ p \notin civClients /\ matching # {}
        /\ civClients' = civClients \cup {p}
        /\ civClient' = [c \in Programs |-> IF c \in matching THEN p ELSE civClient[c]]
        /\ astray' = astray \cup Apart(p, matching)
        /\ UNCHANGED <<config, controlClients, audioClients, isAuthenticated, audioClient,
                       controlClient, radio, silent, freed>>

(* audioReceived(), of a program not in the list *)
FirstAudioPacket(p) ==
    LET matching == Matching(p, audioClient)
    IN  /\ ~freed /\ ~silent /\ p \notin audioClients
        /\ audioClients' = audioClients \cup {p}
        /\ audioClient' = [c \in Programs |-> IF c \in matching THEN p ELSE audioClient[c]]
        /\ \E c \in matching : controlClient' = [controlClient EXCEPT ![p] = c]
        /\ astray' = astray \cup Apart(p, matching)
        /\ UNCHANGED <<config, controlClients, civClients, isAuthenticated, civClient, radio,
                       silent, freed>>

(* Audio of a known client is compared with the buffer length its control client
   has asked for. *)
AudioPacket(p) ==
    /\ ~freed /\ ~silent /\ p \in audioClients
    /\ controlClient[p] = Freed /\ freed' = TRUE
    /\ UNCHANGED <<config, lists, partners, radio, silent, astray>>

Packet(p) ==
    \/ ControlPacket(p) \/ (\E valid \in BOOLEAN : Login(p, valid)) \/ ConnInfo(p) \/ Disconnect(p)
    \/ CivPacket(p) \/ FirstAudioPacket(p) \/ AudioPacket(p)

------------------------------------------------------------------------------
(* Programs whose clients a deletion of C, V and A takes apart *)
Parted(C, V, A) ==
    {c \in controlClients \ C : civClient[c] \in V \/ audioClient[c] \in A}
        \cup {p \in audioClients \ A : controlClient[p] \in C}
        \cup {p \in civClients \ V : \E c \in C : civClient[c] = p}

(* Mutant of Watchdog: the audio clients are forgotten *)
WatchdogNoAudio(C, V, A) ==
    /\ ~freed /\ C \cup V \cup A # {}
    /\ DeleteConnections(controlClients, C, V, {})
    /\ astray' = astray \cup Parted(C, V, {})
    /\ UNCHANGED <<config, silent, freed>>

(* watchdog(), every half second, deletes the clients that have not been heard for
   more than STALE_CONNECTION: C, V and A, of the three lists. *)
Watchdog(C, V, A) ==
    /\ ~freed /\ C \cup V \cup A # {}
    /\ DeleteConnections(controlClients, C, V, A)
    /\ astray' = astray \cup Parted(C, V, A)
    /\ UNCHANGED <<config, silent, freed>>

SomeAreStale ==
    \E C \in SUBSET controlClients, V \in SUBSET civClients, A \in SUBSET audioClients :
        Watchdog(C, V, A)

Vanish ==
    /\ ~freed /\ silent' = TRUE
    /\ UNCHANGED <<config, lists, partners, radio, freed, astray>>

(* initPeriodicPolling() and startPowerProbe() of servermain, in its own thread *)
SetInterval ==
    /\ ~freed /\ interval' \in Intervals
    /\ UNCHANGED <<config, lists, partners, devices, queueInterval, silent, freed, astray>>

Next ==
    \/ \E p \in Programs : Packet(p)
    \/ SomeAreStale \/ SetInterval \/ Vanish

Spec == Init /\ [][Next]_vars

(* The watchdog deletes every client when nothing is heard any more. *)
AllStale == silent /\ Watchdog(controlClients, civClients, audioClients)
FairSpec == Spec /\ WF_vars(AllStale)

------------------------------------------------------------------------------
(* Properties *)

Pointers == Programs \cup {None, Freed}

(* Every field has its type; a pointer is set only in a client that exists. *)
TypeOK ==
    /\ address \in [Programs -> Hosts] /\ lan \in BOOLEAN /\ disableUI \in BOOLEAN
    /\ controlClients \subseteq Programs /\ civClients \subseteq Programs
    /\ audioClients \subseteq Programs /\ isAuthenticated \subseteq controlClients
    /\ civClient \in [Programs -> Pointers] /\ audioClient \in [Programs -> Pointers]
    /\ controlClient \in [Programs -> Pointers]
    /\ \A p \in Programs \ controlClients : civClient[p] = None /\ audioClient[p] = None
    /\ \A p \in Programs : controlClient[p] = None <=> p \notin audioClients
    /\ devices \in BOOLEAN
    /\ queueInterval \in Intervals \cup {Default, Stopped}
    /\ interval \in Intervals \cup {Default, Stopped}
    /\ silent \in BOOLEAN /\ freed \in BOOLEAN /\ astray \subseteq Programs

(* "This is the first client, so stop running the queue": what is saved is never
   the stop itself, and a stop lasts only as long as the audio it came with,
   whichever client leaves first, comes back or streams a second time. *)
StopIsUndone == queueInterval # Stopped /\ (interval = Stopped => devices)

(* A client's partners exist: no handler meets one that was deleted, through any
   order of logins, disconnections and new streams.  The exceptions are clients
   made or deleted apart: two programs at one address, which share the streams
   either of them opens, and a connection that was silent for more than 15 s
   while its partner was heard. *)
PartnersExist ==
    /\ \A c \in controlClients \ astray : /\ civClient[c] \in {None} \cup civClients
                                          /\ audioClient[c] \in {None} \cup audioClients
    /\ \A p \in audioClients \ astray : controlClient[p] \in controlClients
    /\ freed => astray # {}

(* A program that has disconnected, or has never logged in, is sent neither CI-V
   nor audio: its streams end with its control connection, with the same
   exceptions. *)
StreamsHaveControl == (civClients \cup audioClients) \ astray \subseteq isAuthenticated

(* Programs that vanish without a word are forgotten in the end, with all their
   clients, and the queue runs again. *)
VanishedAreForgotten ==
    (silent /\ ~freed)
        ~> (controlClients \cup civClients \cup audioClients = {} /\ interval # Stopped)
===============================================================================
