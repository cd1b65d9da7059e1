SPECIFICATION FairSpec
CONSTANTS
    Streams = {c1, c2}
    NoStream = NoStream
    RadioCount = 1
    MaxRadios = 2
    MaxLogins = 3
INVARIANTS TypeOK OpenStreamsExist NoStrayStreams TokenBelongsToLogin
PROPERTIES StreamsComeBack DataIsRequested
