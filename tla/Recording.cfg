SPECIFICATION Spec
CONSTANTS
    Meetings = {m1}
    Participants = {p1, p2}
    Requests = {r1}
    None = None
    Operations = {"start", "close"}
    RecordedKinds = {"audio", "video"}
    Gstreamers = {g1}
    Sources = {s1, s2, s3}
    PadParts = {"rtp", "rtcp"}
    AudioPorts = {10, 12}
    VideoPorts = {20}
    Faults = {}
SYMMETRY RecordingSymmetry
INVARIANT RecordingTypeOK
INVARIANT NotLeftPaused
INVARIANT PortIsStillFree
CHECK_DEADLOCK FALSE
