CONSTANTS
    W = 4
    AckGroup = 2
    SeqMod = 8
    AckMod = 8
    UMod = 64
    InitA = 6
    InitB = 3
    PingTimeout = 1
    PingRetryCount = 1
    AppChecksWindow = TRUE
    Duplicates = FALSE
    Sweeping = {"A","B"}
    PacketsA = 2
    PacketsB = 0
    MaxInFlight = 2
    MaxLag = 4
    InitSeq <- MCInitSeq
    MaxPackets <- MCMaxPackets
SPECIFICATION FairSpec
CHECK_DEADLOCK FALSE
PROPERTIES
    EveryPacketNotified
    DeadPeerNoticed
