CONSTANTS
    Threads = {h1, h2}
    Stoppers = {s1}
    Low = 2
    High = 2
    UserVols = {1, 2}
    NoVol = NoVol
SPECIFICATION MCSpec
PROPERTIES StopSilences KeepsRinging
CHECK_DEADLOCK FALSE
