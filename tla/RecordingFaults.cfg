SPECIFICATION Spec
CONSTANTS
    Meetings = {m1}
    Participants = {p1}
    Requests = {r1}
    None = None
    Operations = {"start", "close"}
    RecordedKinds = {"audio", "video"}
    Gstreamers = {g1}
    Sources = {s1, s2, s3}
    PadParts = {"rtp"}
    AudioPorts = {10, 12}
    VideoPorts = {20}
    Faults = {"element", "state", "mediasoup", "driver", "bus"}
SYMMETRY RecordingSymmetry
INVARIANT PlayingWasWatched
INVARIANT PoisonedByTheBusThread
 
CHECK_DEADLOCK FALSE
