SPECIFICATION FairSpec
CONSTANTS
    Participants = {p1}
    Meetings = {m1}
    Instances = {i1, i2}
    Requests = {r1, r2}
    None = None
    Capacity = 1
    Threads = 2
    MaxBoots = 1
    CallerWaits = TRUE
    PostFaults = {"transport", "refused"}
    Faults = {"boot", "connection", "query", "driver", "pipeline"}
INVARIANTS
    ProcessTypeOK
    PresenceIsAnnounced
    AnalyticsAgrees
    ServesRegistered
CHECK_DEADLOCK FALSE
PROPERTIES
    EveryCallReturns
    HeartbeatGoesOn
