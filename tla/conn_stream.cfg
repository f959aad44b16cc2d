\* Three packets from A and one from B, across a wrap of the partial numbers.
CONSTANTS
    W = 4
    AckGroup = 2
    SeqMod = 8
    AckMod = 8
    UMod = 64
    InitA = 6
    InitB = 3
    PingTimeout = 0
    PingRetryCount = 1
    AppChecksWindow = FALSE
    Duplicates = TRUE
    Sweeping = {"A"}
    PacketsA = 3
    PacketsB = 1
    MaxInFlight = 2
    MaxLag = 4
    InitSeq <- MCInitSeq
    MaxPackets <- MCMaxPackets
SPECIFICATION Spec
CHECK_DEADLOCK FALSE
INVARIANTS
    WindowOrder
    AckAckIsKnown
    NotifyBitsSent
    DecodedExactly
    OnlyStaleDiscarded
    NotifiedOnceInOrder
    TypeOK
    PacketsInOrder
    NackIsFinal
    AckMeansArrived
PROPERTY ImplementsChannel
