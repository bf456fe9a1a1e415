SPECIFICATION Spec
CONSTANTS
  Meetings = {m1}
  Participants = {p1}
  Instances = {i1, i2}
  Routers = {ro1}
  Transports = {t1, t2}
  ProducerIds = {x1, x2}
  ConsumerIds = {c1}
  Kinds = {audio}
  Requests = {r1, r2}
  None = None
  Operations = {"create_meeting", "end_meeting", "recreate_transport", "leave_meeting", "create_producer", "close_producer"}
  Publishers = {p1}
  Viewers = {}
  Recording = {FALSE}
  Faults = {}
  CallerWaits = TRUE
  get_shard <- OneShard
SYMMETRY Symmetry
INVARIANTS
  ProducersAgree
