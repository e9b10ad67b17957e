CONSTANTS
    HANDSHAKE_SERVER_VERSIONS = {1, 2}
    Lines <- MCLines
    OutCapacity = 2
    Modulus = 8
    LINE_MAX = 3
    InMax = 2
    OutMax = 2
SPECIFICATION FairSpec
INVARIANTS
    TypeOK
    ListenerInsideConnection
    SocketFollowsServer
    ParserAgrees
    AnswerMatchesConnection
    SiblingIsTold
PROPERTIES
    HangUpFreesTransport
    QuietClientLetsGo
    HangUpAdvances
