SPECIFICATION Spec
CONSTANTS
    Heartbeat = 30
    PongLimit = 15
    WsClose = 10
    HandshakeLimit = 300
    Off = Off
INVARIANTS
    TypeOK
    NoTimerLeft
PROPERTY
    SilenceDecides
