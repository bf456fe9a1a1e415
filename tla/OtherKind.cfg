SPECIFICATION Spec
CONSTANTS
    Meetings = {m1}
    Participants = {p1}
    Requests = {r1}
    None = None
    Operations = {"start", "close", "end"}
    RecordedKinds = {"audio", "video"}
    Gstreamers = {g1}
    Sources = {s1, s2, s3}
    PadParts = {"rtp"}
    AudioPorts = {10}
    VideoPorts = {20}
    Faults = {}
SYMMETRY RecordingSymmetry
INVARIANT OpenProducersAreRecorded
CHECK_DEADLOCK FALSE
