SPECIFICATION Spec
CONSTANTS
    Parts = {"infrastructure", "components", "fusion", "place"}
    Conns = {c1, c2}
    Names = {1, 2}
    Receivers = {c1}
    Subscribers = {u1}
    Fallbacks = {f1, f2}
    Timers = {t1, t2}
    MaxFailures = 1
    Instances = {core, chat}
    Stayers = {core}
    Streams = {s1, s2}
    Entries = {e1, e2, e3, e4}
    Window = 1
    MaxComponents = 1
    Workers = 1
    wlan = wlan
    tag = tag
    States = {wlan}
    Tags = {tag}
    Grace = 2
    Stale = 1
    Handlers = {h1}
    Devices = {d1}
    MaxSignals = 2
    Satellites = {kitchen, hall, bath}
    Strengths = {1, 2}
    Interval = 2
    None = None
INVARIANT PlaceIsSound
PROPERTIES FeedIsFaithful SyslogSettles ListSettles PresenceSettles
CHECK_DEADLOCK FALSE
