------------------------- MODULE IcomUdpSessionProofs -------------------------
(* Theorems about IcomUdpSession, for every number of streams, radios and logins. *)
EXTENDS IcomUdpSession, TLAPS

(* A stream that does not exist has no running data timer, and the pointer of a
   session never rejected is null unless the streams are open. *)
StreamInv ==
    /\ hearing \in [Streams -> Hearings]
    /\ civ \in Streams \cup {NoStream}
    /\ OpenStreamsExist /\ NoStrayStreams

(* The initial session has no stream. *)
LEMMA StreamInit == Init => StreamInv
BY DEF Init, StreamInv, OpenStreamsExist, NoStrayStreams, Live, Hearings

(* What deleting streams leaves: the others. *)
LEMMA DeleteLeaves ==
    ASSUME hearing \in [Streams -> Hearings], NEW S, Delete(S)
    PROVE  hearing' \in [Streams -> Hearings] /\ Live' = Live \ S
BY DEF Delete, Live, Hearings

(* Opening a stream adds it. *)
LEMMA OpenAdds ==
    ASSUME hearing \in [Streams -> Hearings], NEW c \in Streams,
           hearing' = [hearing EXCEPT ![c] = "heard"]
    PROVE  hearing' \in [Streams -> Hearings] /\ Live' = Live \cup {c}
BY DEF Live, Hearings

(* The packets of the control stream and the user's choices keep flag, pointers
   and streams together. *)
LEMMA ControlStep == StreamInv /\ (LoggingIn \/ Token \/ Opening \/ Close \/ Reconnect) => StreamInv'
<1> SUFFICES ASSUME StreamInv, LoggingIn \/ Token \/ Opening \/ Close \/ Reconnect
             PROVE  StreamInv'
  OBVIOUS
<1>a. hearing \in [Streams -> Hearings] /\ civ \in Streams \cup {NoStream}
  BY DEF StreamInv
<1>b. NoStream \notin Live
  BY SessionAssumption DEF Live
<1>u. ASSUME UNCHANGED <<pointers, streams, rejected>>
      PROVE  StreamInv'
  BY <1>u DEF StreamInv, OpenStreamsExist, NoStrayStreams, Live, pointers, streams
<1>d. ASSUME streamOpened' = FALSE, civ' = NoStream, audio' = FALSE, Delete({civ}),
             rejected' = rejected
      PROVE  StreamInv'
  <2>1. hearing' \in [Streams -> Hearings] /\ Live' = Live \ {civ}
    BY <1>a, <1>d, DeleteLeaves
  <2>2. rejected \/ Live' = {}
    BY <2>1 DEF StreamInv, NoStrayStreams
  <2> QED BY <1>d, <2>1, <2>2, Zenon DEF StreamInv, OpenStreamsExist, NoStrayStreams
<1>1. CASE LoggingIn \/ RenewToken \/ TokenRenewed \/ Capabilities
  BY <1>1, <1>u, Zenon DEF LoggingIn, ReceiveHere, ReceiveReady, ReceiveLogin, RenewToken,
                           TokenRenewed, Capabilities
<1>2. CASE TokenRejected
  <2>1. streamOpened' = FALSE /\ rejected' = TRUE /\ UNCHANGED <<civ, audio, streams>>
    BY <1>2, Zenon DEF TokenRejected
  <2> QED BY <2>1, Zenon DEF StreamInv, OpenStreamsExist, NoStrayStreams, Live, streams
<1>3. CASE StreamsGranted
  <2>1. audio' = TRUE /\ rejected' = rejected
    BY <1>3, Zenon DEF StreamsGranted
  <2>2. CASE streamOpened
    <3>1. UNCHANGED <<streamOpened, civ, hearing>>
      BY <1>3, <2>2, Zenon DEF StreamsGranted
    <3> QED BY <2>1, <2>2, <3>1, Zenon DEF StreamInv, OpenStreamsExist, NoStrayStreams, Live
  <2>3. CASE ~streamOpened
    <3>1. PICK c \in Streams \ Live : /\ streamOpened' = TRUE /\ civ' = c
                                      /\ hearing' = [hearing EXCEPT ![c] = "heard"]
      BY <1>3, <2>3, Zenon DEF StreamsGranted
    <3>2. hearing' \in [Streams -> Hearings] /\ Live' = Live \cup {c}
      BY <1>a, <3>1, OpenAdds
    <3>3. rejected \/ Live' = {c}
      BY <2>3, <3>2 DEF StreamInv, NoStrayStreams
    <3> QED BY <2>1, <3>1, <3>2, <3>3, Zenon DEF StreamInv, OpenStreamsExist, NoStrayStreams
  <2> QED BY <2>2, <2>3
<1>4. CASE RadioDisconnected \/ ConnInfo \/ SelectRadio
  <2>1. /\ streamOpened' = FALSE /\ civ' = NoStream /\ audio' = FALSE /\ Delete({civ})
        /\ rejected' = rejected
    BY <1>4, Zenon DEF RadioDisconnected, ConnInfo, SelectRadio, SetCurrentRadio
  <2> QED BY <1>d, <2>1
<1>5. CASE Close
  <2>1. CASE streamOpened
    BY <1>5, <1>d, <2>1, Zenon DEF Close
  <2>2. CASE ~streamOpened
    BY <1>5, <1>u, <2>2, Zenon DEF Close
  <2> QED BY <2>1, <2>2
<1>6. CASE Reconnect
  <2>1. hearing' \in [Streams -> Hearings] /\ Live' = {}
    BY <1>6, <1>a, DeleteLeaves DEF Reconnect
  <2>2. streamOpened' = FALSE /\ civ' = NoStream /\ audio' = FALSE
    BY <1>6, Zenon DEF Reconnect
  <2> QED BY <2>1, <2>2, Zenon DEF StreamInv, OpenStreamsExist, NoStrayStreams
<1> QED BY <1>1, <1>2, <1>3, <1>4, <1>5, <1>6, Zenon DEF Token, Opening

(* What a stream hears changes neither which streams exist nor the pointers. *)
LEMMA CivStep == StreamInv /\ CivStreams => StreamInv'
<1> SUFFICES ASSUME StreamInv, NEW c \in Streams,
                    CivReady(c) \/ CivData(c) \/ CivSilence(c) \/ CivWatchdog(c)
             PROVE  StreamInv'
  BY Zenon DEF CivStreams
<1>a. hearing \in [Streams -> Hearings]
  BY DEF StreamInv
<1>1. /\ hearing[c] # "gone"
      /\ hearing' = hearing \/ \E h \in Hearings \ {"gone"} : hearing' = [hearing EXCEPT ![c] = h]
  <2>1. {"heard", "checked", "quiet"} \subseteq Hearings \ {"gone"}
    BY DEF Hearings
  <2>2. CASE CivReady(c) \/ CivData(c) \/ CivWatchdog(c)
    BY <2>1, <2>2, Zenon DEF CivReady, CivData, CivWatchdog, Live
  <2>3. CASE CivSilence(c)
    BY <2>1, <2>3 DEF CivSilence
  <2> QED BY <2>2, <2>3
<1>2. hearing' \in [Streams -> Hearings] /\ Live' = Live
  BY <1>a, <1>1 DEF Live, Hearings
<1>3. UNCHANGED <<pointers, rejected>>
  BY Zenon DEF CivReady, CivData, CivSilence, CivWatchdog
<1> QED BY <1>2, <1>3, Zenon DEF StreamInv, OpenStreamsExist, NoStrayStreams, pointers

LEMMA StreamAlways == Spec => []StreamInv
<1>1. StreamInv /\ [Next]_vars => StreamInv'
  <2>1. StreamInv /\ UNCHANGED vars => StreamInv'
    BY DEF StreamInv, OpenStreamsExist, NoStrayStreams, Live, vars, pointers, streams
  <2> QED BY <2>1, ControlStep, CivStep, Zenon DEF Next
<1> QED BY <1>1, StreamInit, PTL DEF Spec

(* The pointers that the answer to a ping and the writer rely on are there whenever
   the flag says so, for every number of streams and every order of packets. *)
THEOREM PointersAreThere == Spec => []OpenStreamsExist
BY StreamAlways, PTL DEF StreamInv

(* Without a rejected renewal there is one CI-V stream at most, and none once the
   session is closed. *)
THEOREM NothingStrays == Spec => []NoStrayStreams
BY StreamAlways, PTL DEF StreamInv

(* Every request carries a token of the login it names, unless the radio said "I am
   ready" once more after the login. *)
THEOREM TokensMatch == Spec => []TokenBelongsToLogin
<1>1. Init => TokenBelongsToLogin
  BY DEF Init, TokenBelongsToLogin
<1>2. TokenBelongsToLogin /\ [Next]_vars => TokenBelongsToLogin'
  <2> SUFFICES ASSUME TokenBelongsToLogin, [Next]_vars
               PROVE  TokenBelongsToLogin'
    OBVIOUS
  <2>u. ASSUME UNCHANGED login PROVE TokenBelongsToLogin'
    BY <2>u DEF TokenBelongsToLogin, login
  <2>1. CASE ReceiveHere \/ Opening \/ Close \/ CivStreams \/ RenewToken \/ TokenRenewed
             \/ UNCHANGED vars
    BY <2>1, <2>u, Zenon DEF ReceiveHere, Opening, StreamsGranted, RadioDisconnected,
       Capabilities, ConnInfo, SelectRadio, Close, CivStreams, CivReady, CivData, CivSilence,
       CivWatchdog, RenewToken, TokenRenewed, vars
  <2>2. CASE ReceiveReady
    BY <2>2, Zenon DEF ReceiveReady, TokenBelongsToLogin
  <2>3. CASE \E n \in 1 .. MaxLogins : ReceiveLogin(n)
    BY <2>3, Zenon DEF ReceiveLogin, TokenBelongsToLogin
  <2>4. CASE TokenRejected
    BY <2>4, Zenon DEF TokenRejected, TokenBelongsToLogin
  <2>5. CASE Reconnect
    BY <2>5, Zenon DEF Reconnect, TokenBelongsToLogin
  <2> QED BY <2>1, <2>2, <2>3, <2>4, <2>5, Zenon DEF Next, LoggingIn, Token
<1> QED BY <1>1, <1>2, PTL DEF Spec

-----------------------------------------------------------------------------
(* Types.  Each handler changes some of four groups of fields: requests, login,
   radios and streams. *)
RequestType ==
    asked \subseteq {"ready", "login", "confirm", "renew", "stream"} /\ waiting \subseteq asked

LoginType ==
    /\ isAuthenticated \in BOOLEAN /\ readyAgain \in BOOLEAN
    /\ logins \in 0 .. MaxLogins /\ tokRequest \in 0 .. logins /\ token \in 0 .. logins

RadioType ==
    /\ areYouThere \in BOOLEAN /\ radios \in 0 .. MaxRadios /\ chosen \in BOOLEAN
    /\ ended \in BOOLEAN /\ rejected \in BOOLEAN

StreamType ==
    /\ streamOpened \in BOOLEAN /\ civ \in Streams \cup {NoStream} /\ audio \in BOOLEAN
    /\ hearing \in [Streams -> Hearings] /\ asking \subseteq Live /\ alerted \in BOOLEAN

LEMMA TypeParts == TypeOK <=> RequestType /\ LoginType /\ RadioType /\ StreamType
BY Zenon DEF TypeOK, RequestType, LoginType, RadioType, StreamType

(* What a session starts with, the first one or another, is within the bounds. *)
LEMMA StartTypes ==
    /\ TRUE \in BOOLEAN /\ FALSE \in BOOLEAN
    /\ 0 \in 0 .. MaxLogins /\ 0 \in 0 .. 0 /\ 0 \in 0 .. MaxRadios
BY SessionAssumption

LEMMA TypeInit == Init => TypeOK
<1> SUFFICES ASSUME Init PROVE TypeOK
  OBVIOUS
<1>1. RequestType
  BY DEF Init, RequestType
<1>2. LoginType
  BY StartTypes, Zenon DEF Init, LoginType
<1>3. RadioType
  BY StartTypes, Zenon DEF Init, RadioType
<1>4. StreamType
  <2>1. hearing \in [Streams -> Hearings]
    BY DEF Init, Hearings
  <2> QED BY StartTypes, <2>1, Zenon DEF Init, StreamType
<1> QED BY <1>1, <1>2, <1>3, <1>4, TypeParts

(* Requests are made before they are answered. *)
LEMMA RequestStep == RequestType /\ [Next]_vars => RequestType'
<1> SUFFICES ASSUME RequestType, [Next]_vars PROVE RequestType'
  OBVIOUS
<1>1. CASE UNCHANGED <<asked, waiting>>
  BY <1>1 DEF RequestType
<1>2. ASSUME NEW kind \in {"ready", "confirm", "renew", "stream"}, Ask(kind) PROVE RequestType'
  BY <1>2 DEF RequestType, Ask
<1>3. ASSUME NEW kind, Answered(kind) PROVE RequestType'
  BY <1>3 DEF RequestType, Answered
<1>4. CASE \E kind : /\ asked' = asked \cup {"stream"}
                     /\ waiting' = (waiting \ {kind}) \cup {"stream"}
  BY <1>4 DEF RequestType
<1>5. CASE ReceiveReady
  BY <1>5 DEF ReceiveReady, RequestType
<1>6. CASE Reconnect
  BY <1>6 DEF Reconnect, RequestType
<1>7. CASE ReceiveHere \/ (\E n \in 1 .. MaxLogins : ReceiveLogin(n)) \/ RenewToken
  BY <1>2, <1>7, Zenon DEF ReceiveHere, ReceiveLogin, RenewToken
<1>8. CASE TokenRenewed \/ TokenRejected \/ StreamsGranted
  BY <1>3, <1>4, <1>8, Zenon DEF TokenRenewed, TokenRejected, StreamsGranted
<1>9. CASE RadioDisconnected \/ Capabilities \/ ConnInfo \/ SelectRadio
  BY <1>1, <1>2, <1>9, Zenon DEF RadioDisconnected, Capabilities, ConnInfo, SelectRadio,
                                 SetCurrentRadio
<1>10. CASE Close \/ CivStreams \/ UNCHANGED vars
  BY <1>1, <1>10, Zenon DEF Close, CivStreams, CivReady, CivData, CivSilence, CivWatchdog, vars
<1> QED BY <1>5, <1>6, <1>7, <1>8, <1>9, <1>10, Zenon DEF Next, LoggingIn, Token, Opening

(* No request or token is numbered beyond the logins made. *)
LEMMA LoginStep == LoginType /\ [Next]_vars => LoginType'
<1> SUFFICES ASSUME LoginType, [Next]_vars PROVE LoginType'
  OBVIOUS
<1>1. CASE UNCHANGED login
  BY <1>1 DEF LoginType, login
<1>2. CASE ReceiveReady
  BY <1>2, SessionAssumption DEF ReceiveReady, LoginType
<1>3. CASE \E n \in 1 .. MaxLogins : ReceiveLogin(n)
  BY <1>3 DEF ReceiveLogin, LoginType
<1>4. CASE TokenRejected
  BY <1>4, SessionAssumption DEF TokenRejected, LoginType
<1>5. CASE Reconnect
  BY <1>5, StartTypes, Zenon DEF Reconnect, LoginType
<1>6. CASE ReceiveHere \/ Opening \/ Close \/ CivStreams \/ RenewToken \/ TokenRenewed
           \/ UNCHANGED vars
  BY <1>1, <1>6, Zenon DEF ReceiveHere, Opening, StreamsGranted, RadioDisconnected,
     Capabilities, ConnInfo, SelectRadio, Close, CivStreams, CivReady, CivData, CivSilence,
     CivWatchdog, RenewToken, TokenRenewed, vars
<1> QED BY <1>2, <1>3, <1>4, <1>5, <1>6, Zenon DEF Next, LoggingIn, Token

LEMMA RadioStep == RadioType /\ [Next]_vars => RadioType'
<1> SUFFICES ASSUME RadioType, [Next]_vars PROVE RadioType'
  OBVIOUS
<1>0. TRUE \in BOOLEAN /\ FALSE \in BOOLEAN
  OBVIOUS
<1>1. CASE UNCHANGED <<areYouThere, radios, chosen, ended, rejected>>
  BY <1>1, Zenon DEF RadioType
<1>2. CASE ReceiveHere
  BY <1>0, <1>2, Zenon DEF ReceiveHere, RadioType
<1>3. CASE TokenRejected
  BY <1>0, <1>3, Zenon DEF TokenRejected, RadioType
<1>4. CASE Capabilities
  <2>1. radios' \in 0 .. MaxRadios
    BY <1>4, SessionAssumption DEF Capabilities, RadioType
  <2> QED BY <1>4, <2>1, Zenon DEF Capabilities, RadioType
<1>5. CASE ConnInfo \/ SelectRadio
  BY <1>0, <1>5, Zenon DEF ConnInfo, SelectRadio, SetCurrentRadio, RadioType
<1>6. CASE Close
  BY <1>0, <1>6, Zenon DEF Close, RadioType
<1>7. CASE Reconnect
  <2>1. 0 \in 0 .. MaxRadios
    BY SessionAssumption
  <2> QED BY <1>0, <1>7, <2>1, Zenon DEF Reconnect, RadioType
<1>8. CASE ReceiveReady \/ (\E n \in 1 .. MaxLogins : ReceiveLogin(n)) \/ RenewToken
           \/ TokenRenewed \/ StreamsGranted \/ RadioDisconnected \/ CivStreams
           \/ UNCHANGED vars
  BY <1>1, <1>8, Zenon DEF ReceiveReady, ReceiveLogin, RenewToken, TokenRenewed,
     StreamsGranted, RadioDisconnected, CivStreams, CivReady, CivData, CivSilence,
     CivWatchdog, vars
<1> QED BY <1>2, <1>3, <1>4, <1>5, <1>6, <1>7, <1>8, Zenon DEF Next, LoggingIn, Token, Opening

(* The data timer of a stream goes with the stream. *)
LEMMA StreamStep == StreamType /\ [Next]_vars => StreamType'
<1> SUFFICES ASSUME StreamType, [Next]_vars PROVE StreamType'
  OBVIOUS
<1>0. hearing \in [Streams -> Hearings] /\ asking \subseteq Live /\ Live \subseteq Streams
      /\ TRUE \in BOOLEAN /\ FALSE \in BOOLEAN
  BY DEF StreamType, Live
<1>1. ASSUME UNCHANGED <<pointers, streams>> PROVE StreamType'
  BY <1>1, Zenon DEF StreamType, Live, pointers, streams
<1>2. ASSUME NEW S, Delete(S), streamOpened' = FALSE, civ' = NoStream, audio' = FALSE
      PROVE  StreamType'
  <2>1. hearing' \in [Streams -> Hearings] /\ Live' = Live \ S
    BY <1>0, <1>2, DeleteLeaves
  <2>2. asking' \subseteq Live' /\ alerted' = alerted
    BY <1>0, <1>2, <2>1, Zenon DEF Delete
  <2> QED BY <1>0, <1>2, <2>1, <2>2, Zenon DEF StreamType
<1>3. CASE LoggingIn \/ RenewToken \/ TokenRenewed \/ Capabilities \/ UNCHANGED vars
  BY <1>1, <1>3, Zenon DEF LoggingIn, ReceiveHere, ReceiveReady, ReceiveLogin, RenewToken,
                           TokenRenewed, Capabilities, vars
<1>4. CASE TokenRejected
  <2>1. streamOpened' = FALSE /\ UNCHANGED <<civ, audio, streams>>
    BY <1>4, Zenon DEF TokenRejected
  <2> QED BY <1>0, <2>1, Zenon DEF StreamType, Live, streams
<1>5. CASE StreamsGranted
  <2>1. audio' = TRUE /\ UNCHANGED <<asking, alerted>>
    BY <1>5, Zenon DEF StreamsGranted
  <2>2. CASE streamOpened
    <3>1. UNCHANGED <<streamOpened, civ, hearing>>
      BY <1>5, <2>2, Zenon DEF StreamsGranted
    <3> QED BY <1>0, <2>1, <3>1, Zenon DEF StreamType, Live
  <2>3. CASE ~streamOpened
    <3>1. PICK c \in Streams \ Live : /\ streamOpened' = TRUE /\ civ' = c
                                      /\ hearing' = [hearing EXCEPT ![c] = "heard"]
      BY <1>5, <2>3, Zenon DEF StreamsGranted
    <3>2. hearing' \in [Streams -> Hearings] /\ Live' = Live \cup {c}
      BY <1>0, <3>1, OpenAdds
    <3> QED BY <1>0, <2>1, <3>1, <3>2, Zenon DEF StreamType
  <2> QED BY <2>2, <2>3
<1>6. CASE RadioDisconnected \/ ConnInfo \/ SelectRadio
  BY <1>2, <1>6, Zenon DEF RadioDisconnected, ConnInfo, SelectRadio, SetCurrentRadio
<1>7. CASE Close
  BY <1>1, <1>2, <1>7, Zenon DEF Close
<1>8. CASE Reconnect
  BY <1>2, <1>8, Zenon DEF Reconnect
<1>9. ASSUME NEW c \in Streams, CivReady(c) \/ CivData(c) \/ CivSilence(c) \/ CivWatchdog(c)
      PROVE  StreamType'
  <2>1. /\ c \in Live
        /\ hearing' = hearing \/ \E h \in Hearings \ {"gone"} : hearing' = [hearing EXCEPT ![c] = h]
    <3>1. {"heard", "checked", "quiet"} \subseteq Hearings \ {"gone"}
      BY DEF Hearings
    <3>2. CASE CivReady(c) \/ CivData(c) \/ CivWatchdog(c)
      BY <3>1, <3>2, Zenon DEF CivReady, CivData, CivWatchdog
    <3>3. CASE CivSilence(c)
      BY <3>1, <3>3 DEF CivSilence, Live
    <3> QED BY <1>9, <3>2, <3>3
  <2>2. hearing' \in [Streams -> Hearings] /\ Live' = Live
    BY <1>0, <2>1 DEF Live, Hearings
  <2>3. asking' \subseteq asking \cup {c}
    BY <1>9, Zenon DEF CivReady, CivData, CivSilence, CivWatchdog
  <2>4. UNCHANGED pointers /\ (alerted' = alerted \/ alerted' = TRUE \/ alerted' = FALSE)
    BY <1>9, Zenon DEF CivReady, CivData, CivSilence, CivWatchdog
  <2>5. asking' \subseteq Live' /\ alerted' \in BOOLEAN
    BY <1>0, <2>1, <2>2, <2>3, <2>4, Zenon DEF StreamType
  <2> QED BY <2>2, <2>4, <2>5, Zenon DEF StreamType, pointers
<1> QED BY <1>3, <1>4, <1>5, <1>6, <1>7, <1>8, <1>9, Zenon DEF Next, Token, Opening, CivStreams

(* For every number of streams, radios and logins: each answer awaited was asked
   for, no token is numbered beyond the logins, and no stream that is gone goes
   on asking for data. *)
THEOREM TypeCorrect == Spec => []TypeOK
BY TypeParts, TypeInit, RequestStep, LoginStep, RadioStep, StreamStep, PTL DEF Spec
=============================================================================
