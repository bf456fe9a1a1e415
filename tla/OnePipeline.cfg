SPECIFICATION Spec
CONSTANTS
    Meetings = {m1}
    Participants = {p1, p2}
    Requests = {r1, r2}
    None = None
    Operations = {"start", "close", "end"}
    RecordedKinds = {"audio"}
    Gstreamers = {g1, g2}
    Sources = {s1, s2}
    PadParts = {}
    AudioPorts = {10, 12}
    VideoPorts = {20}
    Faults = {"element", "state", "driver"}
SYMMETRY RecordingSymmetry
INVARIANT OnePipelinePerMeeting
PROPERTY PipelineIsStable
INVARIANT EndStopsRecordings
INVARIANT RecordedFromItsOwnPort
CHECK_DEADLOCK FALSE
