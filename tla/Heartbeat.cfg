SPECIFICATION Spec
CONSTANTS
    Participants = {p1}
    Meetings = {m1}
    Instances = {i1}
    Requests = {r1}
    None = None
    Capacity = 1
    Threads = 1
    MaxBoots = 1
    CallerWaits = TRUE
    PostFaults = {}
    Faults = {"connection", "query"}
INVARIANT HeartbeatSurvives
CHECK_DEADLOCK FALSE
