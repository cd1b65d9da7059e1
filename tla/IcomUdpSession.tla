---------------------------- MODULE IcomUdpSession ----------------------------
(***************************************************************************)
(* The client's side of an Icom LAN session: icomUdpHandler (login, token, *)
(* choice of a radio, request of the streams) and the CI-V streams it      *)
(* opens, each an icomUdpCivData with its own watchdog.                    *)
(*                                                                         *)
(* The radio is external.  Every packet of it answers a request, or comes  *)
(* unasked once the login is confirmed, and UDP may delay, repeat or lose  *)
(* it: a request that was made once may be answered at any later time and  *)
(* any number of times, or never.  "waiting" holds the requests that have  *)
(* had no answer yet, so that fairness can ask for a first answer only.    *)
(* A packet that changes nothing here (a refused login, a failed stream    *)
(* request, the answer to a confirmed token) is left out.                  *)
(*                                                                         *)
(* The number of a login stands for its random tokRequest, and for the     *)
(* token the radio gives in return.  Audio is a pointer only: its threads  *)
(* and its own watchdog restart the devices and touch nothing of this.     *)
(***************************************************************************)
EXTENDS Integers, FiniteSets

CONSTANTS
    Streams,     \* CI-V stream objects
    NoStream,    \* a null pointer
    RadioCount,  \* entries of one capabilities packet
    MaxRadios,   \* bound of the model on the list of radios
    MaxLogins    \* bound of the model on logins and renewed tokens

ASSUME SessionAssumption ==
    /\ NoStream \notin Streams
    /\ RadioCount \in Nat /\ MaxRadios \in Nat /\ MaxLogins \in Nat

VARIABLES
    areYouThere,      \* areYouThereTimer is active
    asked,            \* the kinds of requests made so far
    waiting,          \* those of them without an answer
    logins,           \* logins sent and tokens renewed by a rejection
    tokRequest,       \* number in the login sent last
    token,            \* the token in use
    isAuthenticated,
    radios,           \* length of the list of capabilities
    chosen,           \* setCurrentRadio() has filled in name and ports
    streamOpened,
    civ, audio,       \* the pointers to the streams; of audio, whether it is set
    ended,            \* the handler has been destroyed
    hearing,          \* what each CI-V stream has heard: see below
    asking,           \* the streams whose startCivDataTimer is active
    alerted,          \* icomUdpCivData::watchdog: one static variable for all
    \* history, read by properties only
    rejected,         \* the radio has rejected a renewal
    readyAgain        \* "I am ready" has come after the login was accepted

login == <<logins, tokRequest, token, isAuthenticated, readyAgain>>
streams == <<hearing, asking, alerted>>
pointers == <<streamOpened, civ, audio>>
vars == <<areYouThere, asked, waiting, login, radios, chosen, pointers, ended, streams, rejected>>

(* A stream that exists heard data (or was created) just now, has been found
   in order by its watchdog since, or has been quiet for more than 2 s. *)
Hearings == {"gone", "heard", "checked", "quiet"}
Live == {c \in Streams : hearing[c] # "gone"}

Init ==
    /\ areYouThere = TRUE /\ asked = {} /\ waiting = {}
    /\ logins = 0 /\ tokRequest = 0 /\ token = 0 /\ isAuthenticated = FALSE
    /\ radios = 0 /\ chosen = FALSE
    /\ streamOpened = FALSE /\ civ = NoStream /\ audio = FALSE /\ ended = FALSE
    /\ hearing = [c \in Streams |-> "gone"] /\ asking = {} /\ alerted = FALSE
    /\ rejected = FALSE /\ readyAgain = FALSE

(* A request leaves: sendControl(), sendToken(), sendRequestStream() *)
Ask(kind) == asked' = asked \cup {kind} /\ waiting' = waiting \cup {kind}
Answered(kind) == waiting' = waiting \ {kind} /\ UNCHANGED asked

(* Mutant of Delete: the data timer of the stream goes on *)
DeleteKeepsTimer(S) ==
    /\ hearing' = [c \in Streams |-> IF c \in S THEN "gone" ELSE hearing[c]]
    /\ UNCHANGED <<alerted, asking>>

(* The destructors of the streams *)
Delete(S) ==
    /\ hearing' = [c \in Streams |-> IF c \in S THEN "gone" ELSE hearing[c]]
    /\ asking' = asking \ S
    /\ UNCHANGED alerted

-----------------------------------------------------------------------------
(* The control stream: icomUdpHandler::dataReceived() *)

(* 0x04 "I am here": the base class asks "are you ready" every time *)
ReceiveHere ==
    /\ ~ended
    /\ areYouThere' = FALSE
    /\ Ask("ready")
    /\ UNCHANGED <<login, radios, chosen, pointers, ended, streams, rejected>>

(* 0x06 "I am ready": log in, with a new tokRequest *)
ReceiveReady ==
    /\ ~ended /\ "ready" \in asked /\ logins < MaxLogins
    /\ logins' = logins + 1 /\ tokRequest' = logins + 1
    /\ asked' = asked \cup {"login"} /\ waiting' = (waiting \ {"ready"}) \cup {"login"}
    /\ readyAgain' = (readyAgain \/ isAuthenticated)
    /\ UNCHANGED <<areYouThere, token, isAuthenticated, radios, chosen, pointers, ended,
                   streams, rejected>>

(* Mutant of ReceiveLogin: the answer to any login is taken *)
ReceiveAnyLogin(n) ==
    /\ ~ended /\ "login" \in asked /\ ~isAuthenticated
    /\ token' = n /\ isAuthenticated' = TRUE
    /\ Ask("confirm")
    /\ UNCHANGED <<areYouThere, logins, tokRequest, readyAgain, radios, chosen, pointers, ended,
                   streams, rejected>>

(* The answer to login n, accepted if it is the last one and none was before.
   From now on tokenTimer runs. *)
ReceiveLogin(n) ==
    /\ ~ended /\ "login" \in asked /\ ~isAuthenticated /\ n = tokRequest
    /\ token' = n /\ isAuthenticated' = TRUE
    /\ Ask("confirm")
    /\ UNCHANGED <<areYouThere, logins, tokRequest, readyAgain, radios, chosen, pointers, ended,
                   streams, rejected>>

(* tokenTimer, every TOKEN_RENEWAL *)
RenewToken ==
    /\ ~ended /\ isAuthenticated
    /\ Ask("renew")
    /\ UNCHANGED <<areYouThere, login, radios, chosen, pointers, ended, streams, rejected>>

(* Mutant of TokenRenewed: streams that were closed are not requested again *)
TokenRenewedOnly ==
    /\ ~ended /\ "renew" \in asked
    /\ Answered("renew")
    /\ UNCHANGED <<areYouThere, login, radios, chosen, pointers, ended, streams, rejected>>

(* The renewal succeeded; streams that are not open are requested, whether or not
   a radio was chosen *)
TokenRenewed ==
    /\ ~ended /\ "renew" \in asked
    /\ IF streamOpened THEN Answered("renew")
       ELSE /\ asked' = asked \cup {"stream"}
            /\ waiting' = (waiting \ {"renew"}) \cup {"stream"}
    /\ UNCHANGED <<areYouThere, login, radios, chosen, pointers, ended, streams, rejected>>

(* "Radio rejected token renewal, performing login": its new token is taken and
   the streams requested, but nothing is logged in and nothing closed.  (Bound of
   the model: only while there is a stream object left to open.) *)
TokenRejected ==
    /\ ~ended /\ "renew" \in asked /\ logins < MaxLogins /\ Live # Streams
    /\ logins' = logins + 1 /\ tokRequest' = logins + 1 /\ token' = logins + 1
    /\ streamOpened' = FALSE /\ rejected' = TRUE
    /\ asked' = asked \cup {"stream"}
    /\ waiting' = (waiting \ {"renew"}) \cup {"stream"}
    /\ UNCHANGED <<areYouThere, isAuthenticated, readyAgain, radios, chosen, civ, audio, ended,
                   streams>>

(* Status: the streams are granted.  Only a closed session opens a CI-V stream,
   whatever civ points to; audio is opened if it is null. *)
StreamsGranted ==
    /\ ~ended /\ "stream" \in asked
    /\ Answered("stream")
    /\ IF streamOpened THEN UNCHANGED <<streamOpened, civ, hearing>>
       ELSE \E c \in Streams \ Live :
              /\ streamOpened' = TRUE /\ civ' = c
              /\ hearing' = [hearing EXCEPT ![c] = "heard"]
    /\ audio' = TRUE
    /\ UNCHANGED <<areYouThere, login, radios, chosen, ended, asking, alerted, rejected>>

(* Mutant of RadioDisconnected: the flag stays *)
RadioDisconnectedStillOpen ==
    /\ ~ended /\ "stream" \in asked /\ streamOpened
    /\ UNCHANGED streamOpened
    /\ civ' = NoStream /\ audio' = FALSE
    /\ Delete({civ})
    /\ UNCHANGED <<areYouThere, asked, waiting, login, radios, chosen, ended, rejected>>

(* Status: the radio has disconnected *)
RadioDisconnected ==
    /\ ~ended /\ "stream" \in asked /\ streamOpened
    /\ streamOpened' = FALSE
    /\ civ' = NoStream /\ audio' = FALSE
    /\ Delete({civ})
    /\ UNCHANGED <<areYouThere, asked, waiting, login, radios, chosen, ended, rejected>>

(* Capabilities are appended to the list, never replaced *)
Capabilities ==
    /\ ~ended /\ "confirm" \in asked /\ radios + RadioCount <= MaxRadios
    /\ radios' = radios + RadioCount
    /\ UNCHANGED <<areYouThere, asked, waiting, login, chosen, pointers, ended, streams,
                   rejected>>

(* Mutant of SetCurrentRadio: the streams of the radio before stay *)
SetCurrentRadioKeeps ==
    /\ streamOpened' = FALSE /\ UNCHANGED <<civ, audio, streams>>
    /\ chosen' = TRUE
    /\ Ask("stream")

(* setCurrentRadio(): what is open is closed, the streams are requested *)
SetCurrentRadio ==
    /\ streamOpened' = FALSE /\ civ' = NoStream /\ audio' = FALSE
    /\ Delete({civ})
    /\ chosen' = TRUE
    /\ Ask("stream")

(* Conninfo of a radio that is not busy: the only one is taken by itself *)
ConnInfo ==
    /\ ~ended /\ "confirm" \in asked
    /\ ~streamOpened /\ radios = 1
    /\ SetCurrentRadio
    /\ UNCHANGED <<areYouThere, login, radios, ended, rejected>>

(* The user chooses a radio of the list *)
SelectRadio ==
    /\ ~ended /\ radios > 0
    /\ SetCurrentRadio
    /\ UNCHANGED <<areYouThere, login, radios, ended, rejected>>

(* ~icomUdpHandler(): what the flag says is open is deleted, the token removed *)
Close ==
    /\ ~ended /\ ended' = TRUE
    /\ IF streamOpened
       THEN streamOpened' = FALSE /\ civ' = NoStream /\ audio' = FALSE /\ Delete({civ})
       ELSE UNCHANGED <<pointers, streams>>
    /\ UNCHANGED <<areYouThere, asked, waiting, login, radios, chosen, rejected>>

(* commSetup() after closeComm(): a new handler, in a thread and with a port of its
   own.  Streams the old one left behind are not run any more; the static flag
   of the watchdogs stays as it is. *)
Reconnect ==
    /\ ended
    /\ areYouThere' = TRUE /\ asked' = {} /\ waiting' = {}
    /\ logins' = 0 /\ tokRequest' = 0 /\ token' = 0 /\ isAuthenticated' = FALSE
    /\ radios' = 0 /\ chosen' = FALSE
    /\ streamOpened' = FALSE /\ civ' = NoStream /\ audio' = FALSE /\ ended' = FALSE
    /\ Delete(Live)
    /\ rejected' = FALSE /\ readyAgain' = FALSE

-----------------------------------------------------------------------------
(* The CI-V streams: icomUdpCivData *)

(* "I am ready": ask for data, and go on asking until some comes *)
CivReady(c) ==
    /\ ~ended /\ c \in Live
    /\ asking' = asking \cup {c}
    /\ UNCHANGED <<areYouThere, asked, waiting, login, radios, chosen, pointers, ended, hearing,
                   alerted, rejected>>

(* Data of the radio *)
CivData(c) ==
    /\ ~ended /\ c \in Live
    /\ asking' = asking \ {c}
    /\ hearing' = [hearing EXCEPT ![c] = "heard"]
    /\ UNCHANGED <<areYouThere, asked, waiting, login, radios, chosen, pointers, ended, alerted,
                   rejected>>

(* 2 s pass without any.  The watchdog, every WATCHDOG_PERIOD of 0.5 s, has run in
   between. *)
CivSilence(c) ==
    /\ ~ended /\ hearing[c] = "checked"
    /\ hearing' = [hearing EXCEPT ![c] = "quiet"]
    /\ UNCHANGED <<areYouThere, asked, waiting, login, radios, chosen, pointers, ended, asking,
                   alerted, rejected>>

(* Mutant of CivWatchdog: the alert is given once and for all *)
CivWatchdogOnce(c) ==
    /\ ~ended /\ c \in Live
    /\ IF hearing[c] = "quiet"
       THEN /\ asking' = IF alerted THEN asking ELSE asking \cup {c}
            /\ alerted' = TRUE /\ UNCHANGED hearing
       ELSE /\ hearing' = [hearing EXCEPT ![c] = "checked"]
            /\ UNCHANGED <<alerted, asking>>
    /\ UNCHANGED <<areYouThere, asked, waiting, login, radios, chosen, pointers, ended, rejected>>

(* watchdog() *)
CivWatchdog(c) ==
    /\ ~ended /\ c \in Live
    /\ IF hearing[c] = "quiet"
       THEN /\ asking' = IF alerted THEN asking ELSE asking \cup {c}
            /\ alerted' = TRUE /\ UNCHANGED hearing
       ELSE /\ hearing' = [hearing EXCEPT ![c] = "checked"]
            /\ alerted' = FALSE /\ UNCHANGED asking
    /\ UNCHANGED <<areYouThere, asked, waiting, login, radios, chosen, pointers, ended, rejected>>

LoggingIn == ReceiveHere \/ ReceiveReady \/ \E n \in 1 .. MaxLogins : ReceiveLogin(n)
Token == RenewToken \/ TokenRenewed \/ TokenRejected
Opening == StreamsGranted \/ RadioDisconnected \/ Capabilities \/ ConnInfo \/ SelectRadio
CivStreams == \E c \in Streams : CivReady(c) \/ CivData(c) \/ CivSilence(c) \/ CivWatchdog(c)
Next == LoggingIn \/ Token \/ Opening \/ Close \/ Reconnect \/ CivStreams

Spec == Init /\ [][Next]_vars

(* "Are you there" is repeated until it is answered; logins, tokens and stream
   requests are tracked packets, which the link repeats, and the radio answers
   each of them, a stream request if it names a radio.  So it is assumed of "are
   you ready", which nobody repeats.  Timers fire.  Nothing is asked of the
   user or of the radio's unasked packets. *)
FairSpec ==
    /\ Spec
    /\ WF_vars(areYouThere /\ ReceiveHere)
    /\ WF_vars("ready" \in waiting /\ ReceiveReady)
    /\ WF_vars(ReceiveLogin(tokRequest))
    /\ WF_vars(RenewToken)
    /\ SF_vars("renew" \in waiting /\ TokenRenewed)
    /\ WF_vars("stream" \in waiting /\ chosen /\ StreamsGranted)
    /\ \A c \in Streams : WF_vars(CivWatchdog(c))

-----------------------------------------------------------------------------
(* Properties *)

(* Every field has its type. *)
TypeOK ==
    /\ areYouThere \in BOOLEAN /\ isAuthenticated \in BOOLEAN /\ chosen \in BOOLEAN
    /\ asked \subseteq {"ready", "login", "confirm", "renew", "stream"}
    /\ waiting \subseteq asked
    /\ logins \in 0 .. MaxLogins /\ tokRequest \in 0 .. logins /\ token \in 0 .. logins
    /\ radios \in 0 .. MaxRadios
    /\ streamOpened \in BOOLEAN /\ civ \in Streams \cup {NoStream} /\ audio \in BOOLEAN
    /\ ended \in BOOLEAN /\ hearing \in [Streams -> Hearings] /\ asking \subseteq Live
    /\ alerted \in BOOLEAN /\ rejected \in BOOLEAN /\ readyAgain \in BOOLEAN

(* While the flag says the streams are open both exist, whatever order the
   radio's packets, the user's choices and the renewals came in: the answer to a
   ping reads audio, and the writer civ, on the strength of the flag. *)
OpenStreamsExist == streamOpened => civ \in Live /\ audio

(* The converse: no stream lives on that the flag does not know of, so each byte
   of the radio reaches the commander once, and closing the session closes all
   of it.  The exception is a rejected renewal, which clears the flag and leaves
   the streams: the next ones are opened beside them and never deleted. *)
NoStrayStreams ==
    rejected \/ (Live = (IF streamOpened THEN {civ} ELSE {}) /\ (audio => streamOpened))

(* The token in use belongs to the tokRequest that goes with it in every request:
   logins sent twice, because "I am here" came twice, are told apart.  Only an
   "I am ready" that comes after the login was accepted separates the two. *)
TokenBelongsToLogin == isAuthenticated /\ ~readyAgain => token = tokRequest

(* A session with a radio gets its streams, and gets them back when the radio has
   closed them: at the latest the next renewal of the token asks for them. *)
StreamsComeBack == chosen ~> (streamOpened \/ ended)

(* "no CIV data received for 2s, requesting data start": a stream that goes quiet
   comes to ask for data, each time anew, although all streams share one static
   flag.  It is the exception again, two streams at a time, where the flag of
   one silences the other. *)
DataIsRequested ==
    \A c \in Streams :
        (hearing[c] = "quiet" /\ ~ended /\ ~rejected)
            ~> (c \in asking \/ hearing[c] # "quiet" \/ ended \/ rejected)
=============================================================================
