\* A UDP forward with retry and TCP fallback beside a TCP forward, under a
\* lost datagram, a stray datagram and an upstream connection close.
CONSTANTS
    r1 = r1
    r2 = r2
    Req <- MCReq
    Transport <- MCTransport
    IdSpace = 4
    MaxProbe = 2
    MaxLoss = 1
    MaxStray = 1
    MaxCloses = 1
SPECIFICATION Spec
INVARIANTS
    TypeOK
    NoOrphanEntry
PROPERTIES
    ImplementsForwardSpec
