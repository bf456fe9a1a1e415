SPECIFICATION FairSpec
CONSTANTS
  Meetings = {m1}
  Participants = {p1}
  Instances = {i1, i2}
  Routers = {ro1}
  Transports = {t1, t2}
  ProducerIds = {x1}
  ConsumerIds = {c1}
  Kinds = {audio}
  Requests = {r1, r2}
  None = None
  Operations = {"create_meeting", "recreate_transport", "create_producer"}
  Publishers = {p1}
  Viewers = {}
  Recording = {FALSE}
  Faults = {"mediasoup"}
  CallerWaits = FALSE
  get_shard <- OneShard
PROPERTIES
  EveryRequestEnds
