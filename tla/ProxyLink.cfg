CONSTANTS
    Proxies = {p1}
    Advertising = {p1}
    SameHost = {}
    Handlers = {h1, h2}
    Reverters = {r1, r2}
    MaxAcks = 1
    CoreAddr = CoreAddr
    NoHandler = NoHandler
    NoTimer = NoTimer
SPECIFICATION Spec
INVARIANT
    HandoverIsSound
PROPERTIES
    UdpComesBack
    SocketClosedWhenLost
