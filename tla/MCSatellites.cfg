SPECIFICATION Spec
CONSTANTS
    Parts = {"map", "packets", "plays"}
    Listed = {"kitchen"}
    Threads = {t1, t2}
    MaxCalls = 2
    Devices = {d1, d2}
    Roaming = {d1}
    NoAddr = NoAddr
    NoPacket = NoPacket
    QueueCapacity = 2
    MaxPackets = 4
    Capacity = 1
    SendFails = FALSE
    MaxStreams = 2
    MaxChunks = 4
    MaxTalks = 1
INVARIANTS RecordingsAreSound
PROPERTIES MapsSettle QueuesDrain
CHECK_DEADLOCK FALSE
