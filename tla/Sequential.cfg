SPECIFICATION Spec
CONSTANTS
  Meetings = {m1}
  Participants = {p1, p2}
  Instances = {i1, i2}
  Routers = {ro1, ro2}
  Transports = {t1, t2, t3}
  ProducerIds = {x1, x2}
  ConsumerIds = {c1, c2}
  Kinds = {audio}
  Requests = {r1}
  None = None
  Operations = {"create_meeting", "replace_meeting", "end_meeting", "recreate_transport", "leave_meeting", "create_producer", "close_producer", "create_consumer", "close_consumer"}
  Publishers = {p1}
  Viewers = {p2}
  Recording = {TRUE}
  Faults = {"mediasoup", "driver", "pipeline", "crash"}
  CallerWaits = TRUE
  get_shard <- OneShard
SYMMETRY Symmetry
INVARIANTS
  TypeOK
  ProducersAgree
  RecordedConsumersAreLive
  RecordingsFollowProducers
PROPERTIES
  ImplementsRoster
