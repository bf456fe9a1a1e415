--------------------------- MODULE ProcessProofs ----------------------------
(***************************************************************************)
(* What Process guarantees for every capacity of the channel and every set *)
(* of participants, meetings, instances and requests, proved with TLAPS.   *)
(***************************************************************************)
EXTENDS Process, TLAPS

USE UserEventsAssumption, ProcessAssumption

-----------------------------------------------------------------------------
(* Events *)

\* What hearing event e does to the sessions known: it is about one of them.
LEMMA HearOne ==
  ASSUME NEW s \in Sessions, NEW e \in Event
  PROVE  /\ Hear(s, e) \in Sessions
         /\ \A p \in Participants, m \in Meetings :
               Hear(s, e)[p][m] = IF p = e.p /\ m = e.m THEN After(s[p][m], e) ELSE s[p][m]
<1>1. e.p \in Participants /\ e.m \in Meetings /\ e.i \in Instances
  BY DEF Event
<1>2. s[e.p] \in [Meetings -> Session] /\ s[e.p][e.m] \in Session
  BY <1>1 DEF Sessions
<1>3. After(s[e.p][e.m], e) \in Session
  BY <1>1, <1>2 DEF After, Session
<1>4. Hear(s, e) = [s EXCEPT ![e.p] = [s[e.p] EXCEPT ![e.m] = After(s[e.p][e.m], e)]]
  BY <1>1, <1>2 DEF Hear, Sessions
<1>5. [s[e.p] EXCEPT ![e.m] = After(s[e.p][e.m], e)] \in [Meetings -> Session]
  BY <1>2, <1>3
<1> QED
  BY <1>1, <1>2, <1>3, <1>4, <1>5 DEF Sessions

\* A LEAVE of another instance than the one that joined says nothing.
LEMMA AfterOther ==
  ASSUME NEW x \in Instances, NEW e \in Event, e.type = "LEAVE", e.i # x
  PROVE  After([join |-> x, left |-> FALSE], e) = [join |-> x, left |-> FALSE]
<1>1. (FALSE \/ x = e.i) = FALSE
  OBVIOUS
<1>2. After([join |-> x, left |-> FALSE], e) = [join |-> x, left |-> FALSE \/ x = e.i]
  BY DEF After
<1> QED
  BY <1>1, <1>2

\* The sessions nobody was heard of are sessions.
LEMMA NoSessionsType == NoSessions \in Sessions
  BY DEF NoSessions, Sessions, NoSession, Session

\* A send waits for room: the channel keeps to its capacity.
LEMMA PushTyped ==
  ASSUME EventsTypeOK, NEW e \in Event, push_user_session_event(e)
  PROVE  EventsTypeOK'
<1>1. announced' \in Sessions
  BY HearOne DEF EventsTypeOK, push_user_session_event
<1>2. channel' \in Seq(Event) /\ Len(channel') = Len(channel) + 1
  BY DEF EventsTypeOK, push_user_session_event
<1>3. Len(channel') <= IF Capacity = 0 THEN 1 ELSE Capacity
  <2>1. CASE Len(channel) < Capacity
    BY <1>2, <2>1 DEF EventsTypeOK
  <2>2. CASE Capacity = 0 /\ channel = <<>>
    BY <1>2, <2>2
  <2> QED
    BY <2>1, <2>2 DEF push_user_session_event, Room
<1> QED
  BY <1>1, <1>2, <1>3 DEF EventsTypeOK, push_user_session_event

\* The receiving task takes an event.
LEMMA ReceiveTyped ==
  ASSUME EventsTypeOK, Receive
  PROVE  EventsTypeOK'
<1>1. Head(channel) \in Event /\ channel' \in Seq(Event) /\ Len(channel') = Len(channel) - 1
  BY DEF EventsTypeOK, Receive
<1>2. Len(channel') <= IF Capacity = 0 THEN 1 ELSE Capacity
  BY <1>1 DEF EventsTypeOK
<1>3. receiver' \in Task
  BY <1>1 DEF Receive, Task, Retries
<1> QED
  BY <1>1, <1>2, <1>3 DEF EventsTypeOK, Receive

\* After a failed post the task tries again or waits for the next event.
LEMMA RetryTyped ==
  ASSUME EventsTypeOK, receiver.pc = "post", Retry
  PROVE  receiver' \in Task /\ channel' = channel
<1>1. receiver \in [pc : {"post"}, event : Event, attempt : 0 .. Retries - 1]
  BY DEF EventsTypeOK, Task, NoTask, Waiting
<1> QED
  BY <1>1 DEF Retry, Task, Retries

\* A post that was heard, refused or lost.
LEMMA PostTyped ==
  ASSUME EventsTypeOK, PostHeard \/ PostRefused \/ PostFails
  PROVE  EventsTypeOK'
<1>1. receiver.pc = "post" /\ announced' = announced
  BY DEF PostHeard, PostRefused, PostFails
<1>2. receiver \in [pc : {"post"}, event : Event, attempt : 0 .. Retries - 1]
  BY <1>1 DEF EventsTypeOK, Task, NoTask, Waiting
<1>3. NextEvent => receiver' \in Task /\ channel' = channel
  BY DEF NextEvent, Task
<1>4. receiver' \in Task /\ channel' = channel
  BY <1>1, <1>3, RetryTyped DEF PostHeard, PostRefused, PostFails
<1>5. view' \in Sessions \cup {None}
  <2>1. receiver.event \in Event
    BY <1>2
  <2>2. view # None => Hear(view, receiver.event) \in Sessions
    BY <2>1, HearOne DEF EventsTypeOK
  <2> QED
    BY <2>2 DEF EventsTypeOK, PostHeard, PostRefused, PostFails
<1> QED
  BY <1>1, <1>4, <1>5 DEF EventsTypeOK

\* The end of the process.
LEMMA LoseTyped ==
  ASSUME EventsTypeOK, LoseEvents
  PROVE  EventsTypeOK'
<1>1. channel' \in Seq(Event) /\ Len(channel') = 0
  BY DEF LoseEvents
<1>2. view' \in Sessions \cup {None} /\ receiver' \in Task /\ announced' \in Sessions
  BY DEF LoseEvents, EventsTypeOK, Task
<1> QED
  BY <1>1, <1>2 DEF EventsTypeOK
-----------------------------------------------------------------------------
(* Types *)

\* The local state of a request is that of an idle one or of a handler at a step.
LEMMA NoRequestType == NoRequest \in Request /\ NoRequest.pc = "idle" /\ "idle" \notin Steps
  BY DEF Request, NoRequest, Steps

\* A request that is not idle names its caller.
LEMMA ActiveRequest ==
  ASSUME ProcessTypeOK, NEW r \in Requests, request[r].pc \in Steps
  PROVE  request[r] \in [pc : Steps, p : Participants, m : Meetings, i : Instances]
  BY NoRequestType DEF ProcessTypeOK, Request

\* A handler goes on.
LEMMA GoTyped ==
  ASSUME ProcessTypeOK, NEW r \in Requests, request[r].pc \in Steps, NEW step \in Steps,
         Go(r, step)
  PROVE  request' \in [Requests -> Request]
<1>1. [request[r] EXCEPT !.pc = step] \in Request
  BY ActiveRequest DEF Request
<1> QED
  BY <1>1 DEF Go, ProcessTypeOK

\* A handler ends.
LEMMA DoneTyped ==
  ASSUME ProcessTypeOK, NEW r \in Requests, Done(r)
  PROVE  /\ request' \in [Requests -> Request]
         /\ lock_map' \in [Participants -> Requests \cup {None}]
  BY NoRequestType DEF Done, ProcessTypeOK

\* The event of a request is an event.
LEMMA EventOfType ==
  ASSUME NEW q \in [pc : Steps, p : Participants, m : Meetings, i : Instances],
         NEW type \in {"JOIN", "LEAVE"}
  PROVE  EventOf(q, type) \in Event
  BY DEF EventOf, Event

\* The end of the process leaves typed state.
LEMMA EndTyped ==
  ASSUME ProcessTypeOK, EndProcess,
         UNCHANGED <<boot, container_heartbeat, worker_container, present>>
  PROVE  ProcessTypeOK'
<1>1. EventsTypeOK'
  BY LoseTyped DEF EndProcess, ProcessTypeOK
<1> QED
  BY <1>1, NoRequestType DEF EndProcess, ProcessTypeOK, Workers

\* Nothing but the events changes.
LEMMA EventsOnly ==
  ASSUME ProcessTypeOK, EventsTypeOK', UNCHANGED <<lifecycle, beat, serving>>
  PROVE  ProcessTypeOK'
  BY DEF ProcessTypeOK, lifecycle, serving

\* Every step keeps the process typed.
LEMMA StepTypeOK == ProcessTypeOK /\ [Next]_vars => ProcessTypeOK'
<1> SUFFICES ASSUME ProcessTypeOK, [Next]_vars
             PROVE  ProcessTypeOK'
  OBVIOUS
<1>a. UNCHANGED events => EventsTypeOK'
  BY DEF ProcessTypeOK, EventsTypeOK, events
<1>1. CASE Lifecycle
  <2>1. CASE Panics
    BY <2>1, EndTyped DEF Panics
  <2>2. CASE Configure
    BY <2>2, <1>a DEF Configure, ProcessTypeOK, serving
  <2>3. CASE CreateWorker
    BY <2>1, <2>3, <1>a DEF CreateWorker, ProcessTypeOK, serving, Workers
  <2>4. CASE RegisterContainer
    <3>1. CASE phase' = "registered" /\ receiver' = Waiting
      <4>1. EventsTypeOK'
        BY <2>4, <2>1, <3>1 DEF RegisterContainer, ProcessTypeOK, EventsTypeOK, Task, Panics, EndProcess
      <4> QED
        BY <2>4, <3>1, <4>1 DEF RegisterContainer, ProcessTypeOK, serving, Panics, EndProcess
    <3> QED
      BY <2>1, <2>4, <3>1 DEF RegisterContainer
  <2>5. CASE Listen
    BY <2>1, <2>5, <1>a DEF Listen, ProcessTypeOK, serving
  <2>6. CASE ShutdownSignal
    BY <2>6, <1>a DEF ShutdownSignal, ProcessTypeOK, serving
  <2>7. CASE Exit
    BY <2>7, EndTyped DEF Exit
  <2> QED
    BY <1>1, <2>2, <2>3, <2>4, <2>5, <2>6, <2>7 DEF Lifecycle
<1>2. CASE Heartbeat \/ \E b \in Boots : HeartbeatAges(b)
  BY <1>2, <1>a DEF Heartbeat, HeartbeatOk, HeartbeatErr, HeartbeatPanics, Misses, HeartbeatAges,
                    ProcessTypeOK, serving
<1>3. ASSUME NEW r \in Requests, CallJoin(r) \/ CallLeave(r)
      PROVE  ProcessTypeOK'
  <2>1. request' \in [Requests -> Request]
    BY <1>3 DEF CallJoin, CallLeave, Call, ProcessTypeOK, Request, Steps
  <2> QED
    BY <1>3, <1>a, <2>1 DEF CallJoin, CallLeave, Call, ProcessTypeOK, lifecycle
<1>4. ASSUME NEW r \in Requests, Step(r)
      PROVE  ProcessTypeOK'
  <2> DEFINE q == request[r]
  <2>0. /\ q.pc \in Steps
        /\ q \in [pc : Steps, p : Participants, m : Meetings, i : Instances]
    <3>1. q.pc \in Steps
      BY <1>4 DEF Step, JoinLock, JoinTx, JoinPush, JoinRest, LeaveTx, LeaveClose, LeavePush, Steps
    <3> QED
      BY <3>1, ActiveRequest
  <2> HIDE DEF q
  <2>1. CASE JoinLock(r)
    <3>1. request' \in [Requests -> Request]
      BY <2>1, <2>0, GoTyped DEF JoinLock, Steps, q
    <3> QED
      BY <2>1, <3>1, <1>a DEF JoinLock, ProcessTypeOK, lifecycle
  <2>2. CASE JoinTx(r)
    <3>1. request' \in [Requests -> Request] /\ lock_map' \in [Participants -> Requests \cup {None}]
      BY <2>2, <2>0, GoTyped, DoneTyped DEF JoinTx, Steps, q, ProcessTypeOK
    <3>2. present' \in [Participants -> {None} \cup [m : Meetings, i : Instances]]
      BY <2>2, <2>0 DEF JoinTx, q, ProcessTypeOK
    <3> QED
      BY <2>2, <3>1, <3>2, <1>a DEF JoinTx, ProcessTypeOK, lifecycle
  <2>3. CASE JoinPush(r)
    <3>1. request' \in [Requests -> Request]
      BY <2>3, <2>0, GoTyped DEF JoinPush, Steps, q
    <3>2. EventsTypeOK'
      BY <2>3, <2>0, EventOfType, PushTyped DEF JoinPush, ProcessTypeOK, q
    <3> QED
      BY <2>3, <3>1, <3>2 DEF JoinPush, ProcessTypeOK, lifecycle
  <2>4. CASE JoinRest(r)
    BY <2>4, <1>a, DoneTyped DEF JoinRest, ProcessTypeOK, lifecycle
  <2>5. CASE LeaveTx(r)
    <3>1. request' \in [Requests -> Request] /\ lock_map' \in [Participants -> Requests \cup {None}]
      BY <2>5, <2>0, GoTyped, DoneTyped DEF LeaveTx, Steps, q, ProcessTypeOK
    <3>2. present' \in [Participants -> {None} \cup [m : Meetings, i : Instances]]
      BY <2>5, <2>0 DEF LeaveTx, q, ProcessTypeOK
    <3> QED
      BY <2>5, <3>1, <3>2, <1>a DEF LeaveTx, ProcessTypeOK, lifecycle
  <2>6. CASE LeaveClose(r)
    <3>1. request' \in [Requests -> Request] /\ lock_map' \in [Participants -> Requests \cup {None}]
      BY <2>6, <2>0, GoTyped, DoneTyped DEF LeaveClose, Steps, q, ProcessTypeOK
    <3> QED
      BY <2>6, <3>1, <1>a DEF LeaveClose, ProcessTypeOK, lifecycle
  <2>7. CASE LeavePush(r)
    <3>1. EventsTypeOK'
      BY <2>7, <2>0, EventOfType, PushTyped DEF LeavePush, ProcessTypeOK, q
    <3> QED
      BY <2>7, <3>1, DoneTyped DEF LeavePush, ProcessTypeOK, lifecycle
  <2> QED
    BY <1>4, <2>1, <2>2, <2>3, <2>4, <2>5, <2>6, <2>7 DEF Step
<1>5. ASSUME NEW m \in Meetings, EndMeeting(m)
      PROVE  ProcessTypeOK'
  BY <1>5, <1>a DEF EndMeeting, ProcessTypeOK, lifecycle
<1>6. CASE ReceivingTask
  BY <1>6, ReceiveTyped, PostTyped, EventsOnly DEF ReceivingTask, ProcessTypeOK
<1>7. CASE UNCHANGED vars
  BY <1>7, <1>a, EventsOnly DEF vars
<1> QED
  BY <1>1, <1>2, <1>3, <1>4, <1>5, <1>6, <1>7 DEF Next

\* The first state is typed.
LEMMA InitTypeOK == Init => ProcessTypeOK
<1> SUFFICES ASSUME Init
             PROVE  ProcessTypeOK
  OBVIOUS
<1>1. EventsTypeOK
  BY NoSessionsType DEF Init, EventsInit, EventsTypeOK, Task
<1> QED
  BY <1>1, NoRequestType DEF Init, ProcessTypeOK, Boots, Workers

\* The state of the process stays typed and the channel within its capacity, whatever
\* fails, for any capacity and any sets of participants, meetings and requests.
THEOREM TypeCorrectness == Spec => []ProcessTypeOK
<1> QED
  BY InitTypeOK, StepTypeOK, PTL DEF Spec
-----------------------------------------------------------------------------
(* Registration *)

\* From its registration on, the process has the number of its boot, all its workers
\* and its rows; the requests come and go after it.
Registered ==
    /\ phase # "down" => boot \in Boots
    /\ phase \in {"registered", "serving", "draining"} =>
          /\ container_heartbeat[boot] # "absent"
          /\ worker_container[boot] = workers /\ workers = Workers
    /\ phase \notin {"serving", "draining"} => \A r \in Requests : request[r] = NoRequest

\* Every step keeps what the registration established.
LEMMA StepRegistered == ProcessTypeOK /\ Registered /\ [Next]_vars => Registered'
<1> SUFFICES ASSUME ProcessTypeOK, Registered, [Next]_vars
             PROVE  Registered'
  OBVIOUS
<1>1. CASE Lifecycle
  <2>1. CASE Panics \/ Exit
    BY <2>1 DEF Panics, Exit, EndProcess, Registered
  <2>2. CASE Configure
    BY <2>2 DEF Configure, Registered, ProcessTypeOK, Boots, serving
  <2>3. CASE CreateWorker
    BY <2>1, <2>3 DEF CreateWorker, Registered, serving
  <2>4. CASE RegisterContainer
    BY <2>1, <2>4 DEF RegisterContainer, Registered, ProcessTypeOK, serving
  <2>5. CASE Listen \/ ShutdownSignal
    BY <2>1, <2>5 DEF Listen, ShutdownSignal, Registered, serving
  <2> QED
    BY <1>1, <2>1, <2>2, <2>3, <2>4, <2>5 DEF Lifecycle
<1>2. CASE Heartbeat \/ \E b \in Boots : HeartbeatAges(b)
  <2>1. UNCHANGED <<phase, boot, workers, worker_container, serving>>
    BY <1>2 DEF Heartbeat, HeartbeatOk, HeartbeatErr, HeartbeatPanics, Misses, HeartbeatAges
  <2>2. \A b \in Boots : container_heartbeat[b] # "absent" => container_heartbeat'[b] # "absent"
    BY <1>2 DEF Heartbeat, HeartbeatOk, HeartbeatErr, HeartbeatPanics, Misses, HeartbeatAges,
                ProcessTypeOK
  <2> QED
    BY <2>1, <2>2 DEF Registered, serving
<1>3. ASSUME NEW r \in Requests, CallJoin(r) \/ CallLeave(r)
      PROVE  Registered'
  BY <1>3 DEF CallJoin, CallLeave, Call, Registered, lifecycle
<1>4. ASSUME NEW r \in Requests, Step(r)
      PROVE  Registered'
  <2>1. UNCHANGED lifecycle
    BY <1>4 DEF Step, JoinLock, JoinTx, JoinPush, JoinRest, LeaveTx, LeaveClose, LeavePush
  <2>2. request[r].pc \in Steps
    BY <1>4 DEF Step, JoinLock, JoinTx, JoinPush, JoinRest, LeaveTx, LeaveClose, LeavePush, Steps
  <2>3. phase \in {"serving", "draining"}
    BY <2>2, NoRequestType DEF Registered
  <2> QED
    BY <2>1, <2>3 DEF Registered, lifecycle
<1>5. ASSUME NEW m \in Meetings, EndMeeting(m)
      PROVE  Registered'
  BY <1>5 DEF EndMeeting, Registered, lifecycle
<1>6. CASE ReceivingTask \/ UNCHANGED vars
  BY <1>6 DEF ReceivingTask, Registered, lifecycle, serving, vars
<1> QED
  BY <1>1, <1>2, <1>3, <1>4, <1>5, <1>6 DEF Next

\* No process serves before its container and all its workers are recorded, whatever
\* fails while it starts and however often it is started.
THEOREM ServingIsRegistered == Spec => []ServesRegistered
<1>1. Init => Registered
  BY DEF Init, Registered
<1>2. Spec => []Registered
  BY <1>1, TypeCorrectness, StepRegistered, PTL DEF Spec
<1>3. Registered => ServesRegistered
  BY DEF Registered, ServesRegistered
<1> QED
  BY <1>2, <1>3, PTL

-----------------------------------------------------------------------------
(* Announcements *)

Joining == {"jn_tx", "jn_push", "jn_rest"}
Left == {"lv_close", "lv_push"}

\* A join holds the mutex of its participant from the lock to its end.
JoinsAreLocked ==
    \A r \in Requests : request[r].pc \in Joining => lock_map[request[r].p] = r

\* An instance has one call in progress.
CallsAreAlone ==
    \A r, o \in Requests :
        /\ request[r].pc \in Steps /\ request[o].pc \in Steps
        /\ request[r].p = request[o].p /\ request[r].i = request[o].i
        => r = o

\* A leave that deleted its row is not of the instance that is recorded since.
LeftIsGone ==
    \A r \in Requests : request[r].pc \in Left =>
        present[request[r].p] = None \/ present[request[r].p].i # request[r].i

\* A join that is to be announced is still the one recorded in its meeting, unless
\* the row is gone: nobody else joined for the participant in between.
JoinIsCurrent ==
    \A r \in Requests : request[r].pc = "jn_push" =>
        \/ present[request[r].p] = None
        \/ present[request[r].p].m # request[r].m
        \/ present[request[r].p].i = request[r].i

AInv == JoinsAreLocked /\ CallsAreAlone /\ LeftIsGone /\ JoinIsCurrent /\ PresenceIsAnnounced

\* A handler that goes on to `step` has only its place changed.
LEMMA GoOne ==
  ASSUME ProcessTypeOK, NEW r \in Requests, request[r].pc \in Steps, NEW step \in Steps,
         Go(r, step)
  PROVE  /\ \A o \in Requests : o # r => request'[o] = request[o]
         /\ request'[r].pc = step
         /\ request'[r].p = request[r].p /\ request'[r].m = request[r].m
         /\ request'[r].i = request[r].i
<1>1. request[r] \in [pc : Steps, p : Participants, m : Meetings, i : Instances]
  BY ActiveRequest
<1> QED
  BY <1>1 DEF Go, ProcessTypeOK

\* A handler that ends is idle and drops its own mutex only.
LEMMA DoneOne ==
  ASSUME ProcessTypeOK, NEW r \in Requests, Done(r)
  PROVE  /\ \A o \in Requests : o # r => request'[o] = request[o]
         /\ request'[r].pc = "idle"
         /\ \A p \in Participants : lock_map[p] # r => lock_map'[p] = lock_map[p]
  BY NoRequestType DEF Done, ProcessTypeOK

\* A request that goes on or ends, without taking or dropping the mutex of another,
\* leaves the calls alone and the joins locked.
LEMMA ControlKept ==
  ASSUME ProcessTypeOK, AInv, NEW r \in Requests, request[r].pc \in Steps,
         \/ \E step \in Steps :
               Go(r, step) /\ UNCHANGED lock_map /\ (step \in Joining => request[r].pc \in Joining)
         \/ Done(r)
  PROVE  JoinsAreLocked' /\ CallsAreAlone'
<1>0. \A o \in Requests : request[o].pc \in Joining => request[o].p \in Participants
  BY ActiveRequest DEF Joining, Steps
<1>1. CASE Done(r)
  <2>1. JoinsAreLocked'
    BY <1>0, <1>1, DoneOne DEF AInv, JoinsAreLocked, Joining
  <2>2. CallsAreAlone'
    BY <1>1, DoneOne DEF AInv, CallsAreAlone, Steps
  <2> QED
    BY <2>1, <2>2
<1>2. ASSUME NEW step \in Steps, Go(r, step), UNCHANGED lock_map,
             step \in Joining => request[r].pc \in Joining
      PROVE  JoinsAreLocked' /\ CallsAreAlone'
  <2>1. JoinsAreLocked'
    BY <1>2, GoOne DEF AInv, JoinsAreLocked
  <2>2. CallsAreAlone'
    BY <1>2, GoOne DEF AInv, CallsAreAlone
  <2> QED
    BY <2>1, <2>2
<1> QED
  BY <1>1, <1>2

\* What a step that changes neither rows nor announcements must leave: the sends that
\* are due, and no new ones.
LEMMA RowsKept ==
  ASSUME AInv, UNCHANGED <<present, announced>>, NEW r \in Requests,
         \A o \in Requests : o # r => request'[o] = request[o],
         request[r].pc # "jn_push", request'[r].pc # "jn_push",
         \/ request'[r].pc \notin Left
         \/ request[r].pc \in Left /\ request'[r].p = request[r].p /\ request'[r].i = request[r].i
  PROVE  LeftIsGone' /\ JoinIsCurrent' /\ PresenceIsAnnounced'
<1>1. LeftIsGone'
  BY DEF AInv, LeftIsGone
<1>2. JoinIsCurrent'
  BY DEF AInv, JoinIsCurrent
<1>3. PresenceIsAnnounced'
  BY DEF AInv, PresenceIsAnnounced
<1> QED
  BY <1>1, <1>2, <1>3

\* A call of an instance that waits for its replies.
LEMMA CallAnnounced ==
  ASSUME CallerWaits, ProcessTypeOK, AInv, NEW r \in Requests, CallJoin(r) \/ CallLeave(r)
  PROVE  AInv'
<1>1. PICK step \in {"jn_lock", "lv_tx"} : Call(r, step)
  BY DEF CallJoin, CallLeave
<1>2. PICK p \in Participants, m \in Meetings, i \in Instances :
          /\ \A o \in Requests : request[o].p # p \/ request[o].i # i
          /\ request' = [request EXCEPT ![r] = [pc |-> step, p |-> p, m |-> m, i |-> i]]
  BY <1>1 DEF Call
<1>3. /\ \A o \in Requests : o # r => request'[o] = request[o]
      /\ request'[r] = [pc |-> step, p |-> p, m |-> m, i |-> i]
  BY <1>2 DEF ProcessTypeOK
<1>4. request[r].pc = "idle" /\ UNCHANGED <<present, lock_map, announced>>
  BY <1>1, NoRequestType DEF Call, events
<1>5. JoinsAreLocked'
  BY <1>3, <1>4 DEF AInv, JoinsAreLocked, Joining
<1>6. CallsAreAlone'
  BY <1>2, <1>3 DEF AInv, CallsAreAlone
<1>7. LeftIsGone' /\ JoinIsCurrent' /\ PresenceIsAnnounced'
  BY <1>3, <1>4, RowsKept DEF Left
<1> QED
  BY <1>5, <1>6, <1>7 DEF AInv

\* A step of a handler.
LEMMA StepAnnounced ==
  ASSUME ProcessTypeOK, AInv, NEW r \in Requests, Step(r)
  PROVE  AInv'
<1> DEFINE q == request[r]
<1>0. /\ q.pc \in Steps
      /\ q \in [pc : Steps, p : Participants, m : Meetings, i : Instances]
  <2>1. q.pc \in Steps
    BY DEF Step, JoinLock, JoinTx, JoinPush, JoinRest, LeaveTx, LeaveClose, LeavePush, Steps
  <2> QED
    BY <2>1, ActiveRequest
<1>a. \A o \in Requests : request[o].pc \in Steps => request[o].p \in Participants
  BY ActiveRequest
<1> HIDE DEF q
<1>1. CASE JoinLock(r)
  <2>1. Go(r, "jn_tx") /\ q.pc = "jn_lock" /\ UNCHANGED <<present, announced>>
    BY <1>1 DEF JoinLock, events, q
  <2>2. /\ \A o \in Requests : o # r => request'[o] = request[o]
        /\ request'[r].pc = "jn_tx" /\ request'[r].p = q.p /\ request'[r].i = q.i
    BY <2>1, <1>0, GoOne DEF q, Steps
  <2>3. JoinsAreLocked'
    <3>1. lock_map[q.p] = None /\ lock_map' = [lock_map EXCEPT ![q.p] = r]
      BY <1>1 DEF JoinLock, q
    <3>2. \A o \in Requests : request[o].pc \in Joining => request[o].p \in Participants
      BY <1>a DEF Joining, Steps
    <3> QED
      BY <3>1, <3>2, <2>2, <1>0 DEF AInv, JoinsAreLocked, ProcessTypeOK
  <2>4. CallsAreAlone'
    BY <2>2, <1>0 DEF AInv, CallsAreAlone, q
  <2>5. LeftIsGone' /\ JoinIsCurrent' /\ PresenceIsAnnounced'
    BY <2>1, <2>2, RowsKept DEF q, Left
  <2> QED
    BY <2>3, <2>4, <2>5 DEF AInv
<1>2. CASE JoinTx(r)
  <2>0. q.pc = "jn_tx" /\ announced' = announced
    BY <1>2 DEF JoinTx, q, events
  <2>1. CASE Done(r) /\ UNCHANGED present
    <3>1. JoinsAreLocked' /\ CallsAreAlone'
      BY <2>1, <1>0, ControlKept DEF q
    <3>2. LeftIsGone' /\ JoinIsCurrent' /\ PresenceIsAnnounced'
      BY <2>0, <2>1, DoneOne, RowsKept DEF q, Left
    <3> QED
      BY <3>1, <3>2 DEF AInv
  <2>2. CASE Go(r, "jn_push") /\ UNCHANGED lock_map
    <3> DEFINE row == present[q.p]
    <3>1. present' = [present EXCEPT ![q.p] =
                        IF row = None \/ row.m = q.m THEN [m |-> q.m, i |-> q.i] ELSE row]
      BY <1>2, <2>2, <2>0, DoneOne, GoOne, <1>0 DEF JoinTx, q, Steps
    <3>2. /\ \A o \in Requests : o # r => request'[o] = request[o]
          /\ request'[r].pc = "jn_push" /\ request'[r].p = q.p /\ request'[r].m = q.m
          /\ request'[r].i = q.i
      BY <2>2, <1>0, GoOne DEF q, Steps
    <3>3. JoinsAreLocked' /\ CallsAreAlone'
      BY <2>0, <2>2, <1>0, ControlKept DEF q, Steps, Joining
    <3>4. /\ \A p \in Participants : p # q.p => present'[p] = present[p]
          /\ \/ present'[q.p] = [m |-> q.m, i |-> q.i]
             \/ row # None /\ row.m # q.m /\ present'[q.p] = row
      BY <3>1, <1>0 DEF ProcessTypeOK
    <3>5. LeftIsGone'
      <4> SUFFICES ASSUME NEW o \in Requests, request'[o].pc \in Left
                   PROVE  \/ present'[request'[o].p] = None
                          \/ present'[request'[o].p].i # request'[o].i
        BY DEF LeftIsGone
      <4>1. o # r /\ request'[o] = request[o] /\ request[o].pc \in Steps
        BY <3>2 DEF Left, Steps
      <4>2. request[o].p \in Participants
        BY <4>1, <1>a
      <4>3. CASE request[o].p = q.p /\ present'[q.p] = [m |-> q.m, i |-> q.i]
        <5>1. request[o].i # q.i
          BY <4>1, <4>3, <1>0 DEF AInv, CallsAreAlone, q
        <5> QED
          BY <4>1, <4>3, <5>1
      <4>4. CASE present'[request[o].p] = present[request[o].p]
        BY <4>1, <4>4 DEF AInv, LeftIsGone
      <4> QED
        BY <4>2, <4>3, <4>4, <3>4
    <3>6. JoinIsCurrent'
      <4> SUFFICES ASSUME NEW o \in Requests, request'[o].pc = "jn_push"
                   PROVE  \/ present'[request'[o].p] = None
                          \/ present'[request'[o].p].m # request'[o].m
                          \/ present'[request'[o].p].i = request'[o].i
        BY DEF JoinIsCurrent
      <4>1. CASE o = r
        BY <4>1, <3>2, <3>4
      <4>2. CASE o # r
        <5>1. request'[o] = request[o] /\ request[o].pc = "jn_push"
          BY <4>2, <3>2
        <5>2. request[o].p \in Participants
          BY <5>1, <1>a DEF Steps
        <5>3. request[o].p # q.p
          BY <5>1, <4>2, <2>0 DEF AInv, JoinsAreLocked, Joining, q
        <5> QED
          BY <5>1, <5>2, <5>3, <3>4 DEF AInv, JoinIsCurrent
      <4> QED
        BY <4>1, <4>2
    <3>7. PresenceIsAnnounced'
      <4> SUFFICES ASSUME NEW p \in Participants, present'[p] # None
                   PROVE  \/ announced'[p][present'[p].m] = [join |-> present'[p].i, left |-> FALSE]
                          \/ \E o \in Requests : /\ request'[o].pc = "jn_push"
                                                 /\ request'[o].p = p
                                                 /\ request'[o].m = present'[p].m
        BY DEF PresenceIsAnnounced
      <4>1. CASE p = q.p /\ present'[q.p] = [m |-> q.m, i |-> q.i]
        BY <4>1, <3>2
      <4>2. CASE present'[p] = present[p]
        <5>1. \A o \in Requests : request[o].pc = "jn_push" => request'[o] = request[o]
          BY <3>2, <2>0 DEF q
        <5> QED
          BY <4>2, <5>1, <2>0 DEF AInv, PresenceIsAnnounced
      <4> QED
        BY <4>1, <4>2, <3>4
    <3> QED
      BY <3>3, <3>5, <3>6, <3>7 DEF AInv
  <2> QED
    BY <1>2, <2>1, <2>2 DEF JoinTx
<1>3. CASE JoinPush(r)
  <2>0. /\ q.pc = "jn_push" /\ Go(r, "jn_rest") /\ UNCHANGED <<present, lock_map>>
        /\ announced' = Hear(announced, EventOf(q, "JOIN"))
    BY <1>3 DEF JoinPush, push_user_session_event, q
  <2>1. \A p \in Participants, m \in Meetings :
            announced'[p][m] = IF p = q.p /\ m = q.m THEN [join |-> q.i, left |-> FALSE]
                               ELSE announced[p][m]
    <3>1. /\ EventOf(q, "JOIN") \in Event
          /\ EventOf(q, "JOIN").p = q.p /\ EventOf(q, "JOIN").m = q.m
      BY <1>0, EventOfType DEF EventOf
    <3>2. \A s : After(s, EventOf(q, "JOIN")) = [join |-> q.i, left |-> FALSE]
      BY DEF After, EventOf
    <3>3. announced \in Sessions
      BY DEF ProcessTypeOK, EventsTypeOK
    <3>4. \A p \in Participants, m \in Meetings :
              announced'[p][m] = IF p = q.p /\ m = q.m
                                 THEN After(announced[p][m], EventOf(q, "JOIN"))
                                 ELSE announced[p][m]
      BY <2>0, <3>1, <3>3, HearOne
    <3> QED
      BY <3>2, <3>4
  <2>2. /\ \A o \in Requests : o # r => request'[o] = request[o]
        /\ request'[r].pc = "jn_rest"
    BY <2>0, <1>0, GoOne DEF q, Steps
  <2>3. JoinsAreLocked' /\ CallsAreAlone'
    BY <2>0, <1>0, ControlKept DEF q, Steps, Joining
  <2>4. LeftIsGone' /\ JoinIsCurrent'
    BY <2>0, <2>2 DEF AInv, LeftIsGone, JoinIsCurrent, Left
  <2>5. PresenceIsAnnounced'
    <3> SUFFICES ASSUME NEW p \in Participants, present[p] # None
                 PROVE  \/ announced'[p][present[p].m] = [join |-> present[p].i, left |-> FALSE]
                        \/ \E o \in Requests : /\ request'[o].pc = "jn_push"
                                               /\ request'[o].p = p
                                               /\ request'[o].m = present[p].m
      BY <2>0 DEF PresenceIsAnnounced
    <3>1. present[p].m \in Meetings
      BY DEF ProcessTypeOK
    <3>2. CASE p = q.p /\ present[p].m = q.m
      <4>1. present[p].i = q.i
        BY <3>2, <2>0 DEF AInv, JoinIsCurrent, q
      <4> QED
        BY <3>1, <3>2, <4>1, <2>1
    <3>3. CASE ~(p = q.p /\ present[p].m = q.m)
      <4>1. announced'[p][present[p].m] = announced[p][present[p].m]
        BY <3>1, <3>3, <2>1
      <4> QED
        BY <3>3, <4>1, <2>2 DEF AInv, PresenceIsAnnounced, q
    <3> QED
      BY <3>2, <3>3
  <2> QED
    BY <2>3, <2>4, <2>5 DEF AInv
<1>4. CASE JoinRest(r)
  <2>1. Done(r) /\ q.pc = "jn_rest" /\ UNCHANGED <<present, announced>>
    BY <1>4 DEF JoinRest, events, q
  <2>2. JoinsAreLocked' /\ CallsAreAlone'
    BY <2>1, <1>0, ControlKept DEF q
  <2>3. LeftIsGone' /\ JoinIsCurrent' /\ PresenceIsAnnounced'
    BY <2>1, DoneOne, RowsKept DEF q, Left
  <2> QED
    BY <2>2, <2>3 DEF AInv
<1>5. CASE LeaveTx(r)
  <2>0. q.pc = "lv_tx" /\ announced' = announced
    BY <1>5 DEF LeaveTx, q, events
  <2>1. CASE Done(r) /\ UNCHANGED present
    <3>1. JoinsAreLocked' /\ CallsAreAlone'
      BY <2>1, <1>0, ControlKept DEF q
    <3>2. LeftIsGone' /\ JoinIsCurrent' /\ PresenceIsAnnounced'
      BY <2>0, <2>1, DoneOne, RowsKept DEF q, Left
    <3> QED
      BY <3>1, <3>2 DEF AInv
  <2>2. CASE /\ Go(r, "lv_close") /\ UNCHANGED lock_map
             /\ present' = [present EXCEPT ![q.p] = None]
    <3>1. /\ \A o \in Requests : o # r => request'[o] = request[o]
          /\ request'[r].pc = "lv_close" /\ request'[r].p = q.p
      BY <2>2, <1>0, GoOne DEF q, Steps
    <3>2. JoinsAreLocked' /\ CallsAreAlone'
      BY <2>2, <1>0, ControlKept DEF q, Steps, Joining
    <3>3. \A p \in Participants : present'[p] \in {None, present[p]}
      BY <2>2 DEF ProcessTypeOK
    <3>4. LeftIsGone'
      <4>1. \A o \in Requests : request[o].pc \in Left => request[o].p \in Participants
        BY <1>a DEF Left, Steps
      <4>2. present'[q.p] = None
        BY <2>2, <1>0 DEF ProcessTypeOK
      <4> QED
        BY <3>1, <3>3, <4>1, <4>2 DEF AInv, LeftIsGone
    <3>5. JoinIsCurrent'
      <4>1. \A o \in Requests : request[o].pc = "jn_push" => request[o].p \in Participants
        BY <1>a DEF Steps
      <4> QED
        BY <3>1, <3>3, <4>1 DEF AInv, JoinIsCurrent
    <3>6. PresenceIsAnnounced'
      BY <3>1, <3>3, <2>0 DEF AInv, PresenceIsAnnounced, q
    <3> QED
      BY <3>2, <3>4, <3>5, <3>6 DEF AInv
  <2> QED
    BY <1>5, <2>1, <2>2 DEF LeaveTx, q
<1>6. CASE LeaveClose(r)
  <2>0. q.pc = "lv_close" /\ UNCHANGED <<present, announced>>
    BY <1>6 DEF LeaveClose, q, events
  <2>1. JoinsAreLocked' /\ CallsAreAlone'
    BY <1>6, <1>0, ControlKept DEF LeaveClose, q, Steps, Joining
  <2>2. CASE Done(r)
    BY <2>0, <2>1, <2>2, DoneOne, RowsKept DEF AInv, q, Left
  <2>3. CASE Go(r, "lv_push")
    <3>1. /\ \A o \in Requests : o # r => request'[o] = request[o]
          /\ request'[r].pc = "lv_push" /\ request'[r].p = q.p /\ request'[r].i = q.i
      BY <2>3, <1>0, GoOne DEF q, Steps
    <3>2. LeftIsGone' /\ JoinIsCurrent' /\ PresenceIsAnnounced'
      BY <2>0, <3>1, RowsKept DEF q, Left
    <3> QED
      BY <2>1, <3>2 DEF AInv
  <2> QED
    BY <1>6, <2>2, <2>3 DEF LeaveClose
<1>7. CASE LeavePush(r)
  <2>0. /\ q.pc = "lv_push" /\ Done(r) /\ UNCHANGED present
        /\ announced' = Hear(announced, EventOf(q, "LEAVE"))
    BY <1>7 DEF LeavePush, push_user_session_event, q
  <2>1. \A p \in Participants, m \in Meetings :
            announced'[p][m] = IF p = q.p /\ m = q.m
                               THEN After(announced[p][m], EventOf(q, "LEAVE"))
                               ELSE announced[p][m]
    <3>1. /\ EventOf(q, "LEAVE") \in Event
          /\ EventOf(q, "LEAVE").p = q.p /\ EventOf(q, "LEAVE").m = q.m
      BY <1>0, EventOfType DEF EventOf
    <3>2. announced \in Sessions
      BY DEF ProcessTypeOK, EventsTypeOK
    <3> QED
      BY <2>0, <3>1, <3>2, HearOne
  <2>2. /\ \A o \in Requests : o # r => request'[o] = request[o]
        /\ request'[r].pc = "idle"
    BY <2>0, DoneOne
  <2>3. JoinsAreLocked' /\ CallsAreAlone'
    BY <2>0, <1>0, ControlKept DEF q
  <2>4. LeftIsGone' /\ JoinIsCurrent'
    BY <2>0, <2>2 DEF AInv, LeftIsGone, JoinIsCurrent, Left
  <2>5. PresenceIsAnnounced'
    <3> SUFFICES ASSUME NEW p \in Participants, present[p] # None,
                        announced[p][present[p].m] = [join |-> present[p].i, left |-> FALSE]
                 PROVE  announced'[p][present[p].m] = [join |-> present[p].i, left |-> FALSE]
      BY <2>0, <2>2 DEF AInv, PresenceIsAnnounced, q
    <3>1. present[p].m \in Meetings
      BY DEF ProcessTypeOK
    <3>2. CASE p = q.p /\ present[p].m = q.m
      <4>1. present[p].i # q.i
        BY <3>2, <2>0 DEF AInv, LeftIsGone, Left, q
      <4>2. /\ EventOf(q, "LEAVE") \in Event /\ EventOf(q, "LEAVE").type = "LEAVE"
            /\ EventOf(q, "LEAVE").i = q.i
        BY <1>0, EventOfType DEF EventOf
      <4>3. present[p].i \in Instances
        BY DEF ProcessTypeOK
      <4> QED
        BY <3>1, <3>2, <4>1, <4>2, <4>3, <2>1, AfterOther
    <3>3. CASE ~(p = q.p /\ present[p].m = q.m)
      BY <3>1, <3>3, <2>1
    <3> QED
      BY <3>2, <3>3
  <2> QED
    BY <2>3, <2>4, <2>5 DEF AInv
<1> QED
  BY <1>1, <1>2, <1>3, <1>4, <1>5, <1>6, <1>7 DEF Step

\* Every step of a process whose callers wait keeps presence and announcements together.
LEMMA NextAnnounced ==
  ASSUME CallerWaits, ProcessTypeOK, Registered, AInv, [Next]_vars
  PROVE  AInv'
<1>1. CASE EndProcess /\ UNCHANGED present /\ \A r \in Requests : request[r] = NoRequest
  <2>1. \A r \in Requests : request'[r] = request[r]
    BY <1>1 DEF EndProcess
  <2>2. announced' = announced
    BY <1>1 DEF EndProcess, LoseEvents
  <2>3. \A r \in Requests : request'[r].pc = "idle"
    BY <1>1, NoRequestType DEF EndProcess
  <2> QED
    BY <1>1, <2>1, <2>2, <2>3, NoRequestType
       DEF AInv, JoinsAreLocked, CallsAreAlone, LeftIsGone, JoinIsCurrent, PresenceIsAnnounced,
           Joining, Left
<1>2. CASE UNCHANGED <<serving, announced>>
  BY <1>2 DEF AInv, JoinsAreLocked, CallsAreAlone, LeftIsGone, JoinIsCurrent,
              PresenceIsAnnounced, serving
<1>3. CASE Lifecycle
  BY <1>1, <1>2, <1>3 DEF Lifecycle, Configure, CreateWorker, RegisterContainer, Listen,
                          ShutdownSignal, Exit, Panics, Registered, events
<1>4. CASE Heartbeat \/ \E b \in Boots : HeartbeatAges(b)
  BY <1>2, <1>4 DEF Heartbeat, HeartbeatOk, HeartbeatErr, HeartbeatPanics, Misses, HeartbeatAges,
                    events
<1>5. ASSUME NEW m \in Meetings, EndMeeting(m)
      PROVE  AInv'
  <2>1. UNCHANGED <<lock_map, request, announced>>
    BY <1>5 DEF EndMeeting, events
  <2>2. \A p \in Participants : present'[p] \in {None, present[p]}
    BY <1>5 DEF EndMeeting
  <2>3. \A o \in Requests : request[o].pc \in Left \cup {"jn_push"} => request[o].p \in Participants
    BY ActiveRequest DEF Left, Steps
  <2>4. JoinsAreLocked' /\ CallsAreAlone'
    BY <2>1 DEF AInv, JoinsAreLocked, CallsAreAlone
  <2>5. LeftIsGone' /\ JoinIsCurrent'
    BY <2>1, <2>2, <2>3 DEF AInv, LeftIsGone, JoinIsCurrent
  <2>6. PresenceIsAnnounced'
    BY <2>1, <2>2 DEF AInv, PresenceIsAnnounced
  <2> QED
    BY <2>4, <2>5, <2>6 DEF AInv
<1>6. CASE ReceivingTask
  BY <1>2, <1>6 DEF ReceivingTask, Receive, PostHeard, PostRefused, PostFails
<1>7. CASE UNCHANGED vars
  BY <1>2, <1>7 DEF vars, events
<1> QED
  BY <1>3, <1>4, <1>5, <1>6, <1>7, CallAnnounced, StepAnnounced DEF Next

\* Where an instance awaits its replies, whoever is recorded in a meeting was announced
\* there or its announcement is being sent, for any number of participants, meetings,
\* instances, requests, threads and any capacity of the channel.
THEOREM PresenceAnnounced ==
  ASSUME CallerWaits
  PROVE  Spec => []PresenceIsAnnounced
<1>1. Init => Registered /\ AInv
  BY NoRequestType DEF Init, Registered, AInv, JoinsAreLocked, CallsAreAlone, LeftIsGone,
                       JoinIsCurrent, PresenceIsAnnounced, Joining, Left
<1>2. ProcessTypeOK /\ Registered /\ AInv /\ [Next]_vars => Registered' /\ AInv'
  BY StepRegistered, NextAnnounced
<1>3. AInv => PresenceIsAnnounced
  BY DEF AInv
<1> QED
  BY <1>1, <1>2, <1>3, TypeCorrectness, PTL DEF Spec

-----------------------------------------------------------------------------
(* What the analytics service knows *)

\* Whoever knows v and hears the events of s in order knows a in the end; f[k] is what
\* is known after the first k of them.
Leads(f, v, s, a) ==
    /\ f \in [0 .. Len(s) -> Sessions]
    /\ f[0] = v
    /\ \A k \in 1 .. Len(s) : f[k] = Hear(f[k - 1], s[k])
    /\ f[Len(s)] = a

LeadsTo(v, s, a) == \E f : Leads(f, v, s, a)

\* An empty channel holds nothing back.
LEMMA LeadsNowhere ==
  ASSUME NEW v, NEW a, LeadsTo(v, <<>>, a)
  PROVE  v = a
  BY DEF LeadsTo, Leads

\* No event leads from what is known to itself.
LEMMA LeadsHere ==
  ASSUME NEW v \in Sessions
  PROVE  LeadsTo(v, <<>>, v)
<1> DEFINE f == [k \in 0 .. 0 |-> v]
<1>1. Leads(f, v, <<>>, v)
  BY DEF Leads
<1> QED
  BY <1>1 DEF LeadsTo

\* An event is sent.
LEMMA LeadsAppend ==
  ASSUME NEW v, NEW s \in Seq(Event), NEW a \in Sessions, NEW e \in Event, LeadsTo(v, s, a)
  PROVE  LeadsTo(v, Append(s, e), Hear(a, e))
<1>1. PICK f : Leads(f, v, s, a)
  BY DEF LeadsTo
<1>2. PICK n \in Nat : n = Len(s)
  OBVIOUS
<1>3. PICK b \in Sessions : b = Hear(a, e)
  BY HearOne
<1>4. PICK t \in Seq(Event) : t = Append(s, e)
  <2>1. Append(s, e) \in Seq(Event)
    OBVIOUS
  <2> QED
    BY <2>1, Zenon
<1>5. Len(t) = n + 1 /\ t[n + 1] = e /\ \A k \in 1 .. n : t[k] = s[k]
  BY <1>2, <1>4
<1> DEFINE g == [k \in 0 .. n + 1 |-> IF k = n + 1 THEN b ELSE f[k]]
<1>6. f \in [0 .. n -> Sessions] /\ f[0] = v /\ f[n] = a
      /\ \A k \in 1 .. n : f[k] = Hear(f[k - 1], s[k])
  BY <1>1, <1>2 DEF Leads
<1>7. g \in [0 .. n + 1 -> Sessions]
  BY <1>6
<1>8. g[0] = v /\ g[n + 1] = b
  BY <1>6
<1>9. \A k \in 1 .. n + 1 : g[k] = Hear(g[k - 1], t[k])
  <2> SUFFICES ASSUME NEW k \in 1 .. n + 1 PROVE g[k] = Hear(g[k - 1], t[k])
    OBVIOUS
  <2>1. CASE k = n + 1
    <3>1. g[k - 1] = f[n] /\ t[k] = e /\ g[k] = b
      BY <1>5, <2>1
    <3> QED
      BY <1>3, <1>6, <3>1
  <2>2. CASE k \in 1 .. n
    <3>1. g[k] = f[k] /\ g[k - 1] = f[k - 1] /\ t[k] = s[k]
      BY <1>5, <2>2
    <3> QED
      BY <1>6, <2>2, <3>1
  <2> QED
    BY <2>1, <2>2
<1> HIDE DEF g
<1>10. Leads(g, v, t, b)
  BY <1>5, <1>7, <1>8, <1>9 DEF Leads
<1> QED
  BY <1>3, <1>4, <1>10 DEF LeadsTo

\* An event is received.
LEMMA LeadsTail ==
  ASSUME NEW v, NEW s \in Seq(Event), s # <<>>, NEW a, LeadsTo(v, s, a)
  PROVE  LeadsTo(Hear(v, Head(s)), Tail(s), a)
<1>1. PICK f : Leads(f, v, s, a)
  BY DEF LeadsTo
<1>2. PICK n \in Nat : n + 1 = Len(s)
  <2>1. Len(s) \in Nat /\ Len(s) # 0
    OBVIOUS
  <2>2. Len(s) - 1 \in Nat
    BY <2>1
  <2> QED
    BY <2>2
<1>3. PICK t \in Seq(Event) : t = Tail(s)
  <2>1. Tail(s) \in Seq(Event)
    OBVIOUS
  <2> QED
    BY <2>1, Zenon
<1>4. Len(t) = n /\ Head(s) = s[1] /\ \A k \in 1 .. n : t[k] = s[k + 1]
  BY <1>2, <1>3
<1> DEFINE g == [k \in 0 .. n |-> f[k + 1]]
<1>5. f \in [0 .. n + 1 -> Sessions] /\ f[0] = v /\ f[n + 1] = a
      /\ \A k \in 1 .. n + 1 : f[k] = Hear(f[k - 1], s[k])
  BY <1>1, <1>2 DEF Leads
<1>6. g \in [0 .. n -> Sessions] /\ g[n] = a
  BY <1>5
<1>7. g[0] = Hear(v, Head(s))
  <2>1. f[1] = Hear(f[1 - 1], s[1])
    BY <1>5
  <2>2. f[1 - 1] = v
    BY <1>5
  <2> QED
    BY <1>4, <2>1, <2>2
<1>8. \A k \in 1 .. n : g[k] = Hear(g[k - 1], t[k])
  <2> SUFFICES ASSUME NEW k \in 1 .. n PROVE g[k] = Hear(g[k - 1], t[k])
    OBVIOUS
  <2>1. g[k] = f[k + 1] /\ g[k - 1] = f[k] /\ t[k] = s[k + 1]
    BY <1>4
  <2>2. f[k + 1] = Hear(f[(k + 1) - 1], s[k + 1])
    BY <1>5
  <2>3. (k + 1) - 1 = k
    OBVIOUS
  <2> QED
    BY <2>1, <2>2, <2>3
<1> HIDE DEF g
<1>9. Leads(g, Hear(v, Head(s)), t, a)
  BY <1>4, <1>6, <1>7, <1>8 DEF Leads
<1> QED
  BY <1>3, <1>9 DEF LeadsTo

\* A post that is repeated, as its answer was lost, tells the service nothing new.
LEMMA HearTwice ==
  ASSUME NEW s \in Sessions, NEW e \in Event
  PROVE  Hear(Hear(s, e), e) = Hear(s, e)
<1>1. PICK t \in Sessions : t = Hear(s, e)
  BY HearOne
<1>2. PICK u \in Sessions : u = Hear(t, e)
  BY HearOne
<1>3. \A p \in Participants, m \in Meetings : s[p][m] \in Session /\ t[p][m] \in Session
  BY DEF Sessions
<1>4. \A x \in Session : After(After(x, e), e) = After(x, e)
  <2> SUFFICES ASSUME NEW x \in Session PROVE After(After(x, e), e) = After(x, e)
    OBVIOUS
  <2>1. CASE e.type = "JOIN"
    BY <2>1 DEF After
  <2>2. CASE e.type # "JOIN"
    <3>1. PICK l \in BOOLEAN : l = (x.left \/ x.join = e.i)
      BY DEF Session
    <3>2. After(x, e) = [join |-> x.join, left |-> l]
      BY <2>2, <3>1 DEF After, Session
    <3>3. PICK y : y = [join |-> x.join, left |-> l]
      OBVIOUS
    <3>4. After(y, e) = [join |-> x.join, left |-> l \/ x.join = e.i]
      BY <2>2, <3>3 DEF After
    <3>5. (l \/ x.join = e.i) = l
      BY <3>1
    <3> QED
      BY <3>2, <3>3, <3>4, <3>5
  <2> QED
    BY <2>1, <2>2
<1>5. \A p \in Participants, m \in Meetings : u[p][m] = t[p][m]
  <2>1. \A p \in Participants, m \in Meetings :
           t[p][m] = IF p = e.p /\ m = e.m THEN After(s[p][m], e) ELSE s[p][m]
    BY <1>1, HearOne
  <2>2. \A p \in Participants, m \in Meetings :
           u[p][m] = IF p = e.p /\ m = e.m THEN After(t[p][m], e) ELSE t[p][m]
    BY <1>2, HearOne
  <2> QED
    BY <1>3, <1>4, <2>1, <2>2
<1>6. \A p \in Participants : u[p] = t[p]
  BY <1>5 DEF Sessions
<1>7. u = t
  BY <1>6 DEF Sessions
<1> QED
  BY <1>1, <1>2, <1>7

\* What the service knows once it heard the event that is being posted.
Heard == IF receiver.pc = "post" THEN Hear(view, receiver.event) ELSE view

\* The events in the channel are what the service lacks of what was announced; the
\* task that posts them is started with the process.
ChannelInv ==
    /\ view # None => LeadsTo(Heard, channel, announced)
    /\ phase \in {"down", "workers"} => receiver = NoTask

\* A send adds the event to what is announced and to what the service lacks.
LEMMA PushLeads ==
  ASSUME EventsTypeOK, ChannelInv, NEW e \in Event, push_user_session_event(e)
  PROVE  view' # None => LeadsTo(Heard', channel', announced')
<1>1. /\ view' = view /\ Heard' = Heard
      /\ channel' = Append(channel, e) /\ announced' = Hear(announced, e)
  BY DEF push_user_session_event, Heard
<1>2. channel \in Seq(Event) /\ announced \in Sessions
  BY DEF EventsTypeOK
<1> QED
  BY <1>1, <1>2, LeadsAppend DEF ChannelInv

\* A step of the receiving task.
LEMMA TaskLeads ==
  ASSUME EventsTypeOK, ChannelInv, Receive \/ PostHeard \/ PostRefused \/ PostFails
  PROVE  view' # None => LeadsTo(Heard', channel', announced')
<1>1. CASE Receive
  <2>1. /\ view' = view /\ announced' = announced /\ channel' = Tail(channel)
        /\ channel \in Seq(Event) /\ channel # <<>>
        /\ Heard = view /\ Heard' = Hear(view, Head(channel))
    BY <1>1 DEF Receive, EventsTypeOK, Heard, Waiting
  <2> QED
    BY <2>1, LeadsTail DEF ChannelInv
<1>2. ASSUME receiver.pc = "post"
      PROVE  receiver \in [pc : {"post"}, event : Event, attempt : 0 .. Retries - 1]
  BY <1>2 DEF EventsTypeOK, Task, NoTask, Waiting
<1>3. ASSUME receiver.pc = "post", NextEvent \/ Retry
      PROVE  /\ channel' = channel
             /\ \/ receiver'.pc # "post"
                \/ receiver'.pc = "post" /\ receiver'.event = receiver.event
  BY <1>2, <1>3 DEF NextEvent, Retry, Waiting
<1>4. CASE PostHeard /\ view # None
  <2>1. /\ receiver.pc = "post" /\ announced' = announced
        /\ view' = Hear(view, receiver.event) /\ (NextEvent \/ Retry)
    BY <1>4 DEF PostHeard
  <2>2. view \in Sessions /\ receiver.event \in Event
    BY <1>2, <1>4, <2>1 DEF EventsTypeOK
  <2>3. Hear(view', receiver.event) = view'
    BY <2>1, <2>2, HearTwice
  <2>4. Heard' = Heard
    BY <1>3, <2>1, <2>3 DEF Heard
  <2> QED
    BY <1>3, <1>4, <2>1, <2>4 DEF ChannelInv
<1>5. CASE (PostHeard /\ view = None) \/ PostRefused
  BY <1>5 DEF PostHeard, PostRefused
<1>6. CASE PostFails /\ view' # None
  <2>1. /\ receiver.pc = "post" /\ announced' = announced /\ Retry
        /\ view' = view /\ receiver' # Waiting
    BY <1>6 DEF PostFails
  <2>2. receiver'.pc = "post" /\ receiver'.event = receiver.event
    BY <1>2, <2>1 DEF Retry
  <2>3. Heard' = Heard
    BY <2>1, <2>2 DEF Heard
  <2> QED
    BY <1>3, <1>6, <2>1, <2>3 DEF ChannelInv
<1> QED
  BY <1>1, <1>4, <1>5, <1>6

\* The process ends: what the service lacks is lost.
LEMMA LoseLeads ==
  ASSUME EventsTypeOK, ChannelInv, LoseEvents
  PROVE  view' # None => LeadsTo(Heard', channel', announced')
<1> SUFFICES ASSUME view' # None PROVE LeadsTo(Heard', channel', announced')
  OBVIOUS
<1>1. /\ channel = <<>> /\ channel' = <<>> /\ view' = view /\ announced' = announced
      /\ Heard = view /\ Heard' = view
  BY DEF LoseEvents, Heard, NoTask
<1> QED
  BY <1>1 DEF ChannelInv

\* ChannelInv is inductive.
LEMMA StepChannel ==
  ASSUME ProcessTypeOK, ChannelInv, [Next]_vars
  PROVE  ChannelInv'
<1>0. EventsTypeOK
  BY DEF ProcessTypeOK
<1>1. CASE EndProcess
  BY <1>0, <1>1, LoseLeads DEF EndProcess, ChannelInv, LoseEvents
<1>2. CASE UNCHANGED <<phase, events>>
  BY <1>2 DEF ChannelInv, events, Heard
<1>3. CASE Lifecycle
  <2>1. CASE Panics \/ Exit
    BY <1>1, <2>1 DEF Panics, Exit
  <2>2. CASE Configure
    <3>1. receiver = NoTask /\ receiver' = NoTask
      BY <2>2 DEF Configure, ChannelInv, events
    <3>2. view' = view /\ channel' = channel /\ announced' = announced /\ Heard' = Heard
      BY <2>2 DEF Configure, events, Heard
    <3> QED
      BY <3>1, <3>2 DEF ChannelInv
  <2>3. CASE CreateWorker
    BY <1>2, <2>1, <2>3 DEF CreateWorker
  <2>4. CASE RegisterContainer /\ ~Panics
    <3>1. receiver = NoTask /\ receiver' = Waiting /\ phase' = "registered"
          /\ UNCHANGED <<channel, announced, view>>
      BY <2>4 DEF RegisterContainer, ChannelInv
    <3>2. Heard' = Heard
      BY <3>1 DEF Heard, NoTask, Waiting
    <3> QED
      BY <3>1, <3>2 DEF ChannelInv
  <2>5. CASE (Listen /\ ~Panics) \/ ShutdownSignal
    <3>1. phase' \in {"serving", "draining"} /\ UNCHANGED events
      BY <2>5 DEF Listen, ShutdownSignal
    <3>2. Heard' = Heard
      BY <3>1 DEF Heard, events
    <3> QED
      BY <3>1, <3>2 DEF ChannelInv, events
  <2> QED
    BY <1>3, <2>1, <2>2, <2>3, <2>4, <2>5 DEF Lifecycle
<1>4. CASE Heartbeat \/ \E b \in Boots : HeartbeatAges(b)
  BY <1>2, <1>4 DEF Heartbeat, HeartbeatOk, HeartbeatErr, HeartbeatPanics, Misses, HeartbeatAges
<1>5. ASSUME NEW r \in Requests, CallJoin(r) \/ CallLeave(r) PROVE ChannelInv'
  BY <1>2, <1>5 DEF CallJoin, CallLeave, Call, lifecycle
<1>6. ASSUME NEW r \in Requests, Step(r) PROVE ChannelInv'
  <2>1. CASE JoinPush(r) \/ LeavePush(r)
    <3>1. request[r].pc \in Steps
      BY <2>1 DEF JoinPush, LeavePush, Steps
    <3>2. request[r] \in [pc : Steps, p : Participants, m : Meetings, i : Instances]
      BY <3>1, ActiveRequest
    <3>3. PICK e \in Event : push_user_session_event(e)
      <4>1. EventOf(request[r], "JOIN") \in Event /\ EventOf(request[r], "LEAVE") \in Event
        BY <3>2, EventOfType
      <4> QED
        BY <2>1, <4>1 DEF JoinPush, LeavePush
    <3>4. phase' = phase /\ receiver' = receiver
      BY <2>1, <3>3 DEF JoinPush, LeavePush, lifecycle, push_user_session_event
    <3> QED
      BY <1>0, <3>3, <3>4, PushLeads DEF ChannelInv
  <2>2. CASE ~(JoinPush(r) \/ LeavePush(r))
    BY <1>2, <1>6, <2>2 DEF Step, JoinLock, JoinTx, JoinRest, LeaveTx, LeaveClose, lifecycle
  <2> QED
    BY <2>1, <2>2
<1>7. ASSUME NEW m \in Meetings, EndMeeting(m) PROVE ChannelInv'
  BY <1>2, <1>7 DEF EndMeeting, lifecycle
<1>8. CASE ReceivingTask
  <2>1. phase' = phase /\ receiver # NoTask
    BY <1>8 DEF ReceivingTask, lifecycle, Receive, PostHeard, PostRefused, PostFails, NoTask, Waiting
  <2> QED
    BY <1>0, <1>8, <2>1, TaskLeads DEF ReceivingTask, ChannelInv
<1>9. CASE UNCHANGED vars
  BY <1>2, <1>9 DEF vars, lifecycle
<1> QED
  BY <1>3, <1>4, <1>5, <1>6, <1>7, <1>8, <1>9 DEF Next

\* Once the channel is drained the analytics service knows exactly what was announced,
\* unless an event was given up, refused or lost with its process: lost answers and
\* retries neither reorder events nor bring one back, for any capacity of the channel.
THEOREM ServiceAgrees == Spec => []AnalyticsAgrees
<1>1. Init => ChannelInv
  BY NoSessionsType, LeadsHere DEF Init, EventsInit, ChannelInv, Heard, NoTask
<1>2. ProcessTypeOK /\ ChannelInv /\ [Next]_vars => ChannelInv'
  BY StepChannel
<1>3. ChannelInv => AnalyticsAgrees
  <2> SUFFICES ASSUME ChannelInv, channel = <<>>, receiver.pc # "post", view # None
               PROVE  view = announced
    BY DEF AnalyticsAgrees
  <2>1. LeadsTo(view, <<>>, announced)
    BY DEF ChannelInv, Heard
  <2> QED
    BY <2>1, LeadsNowhere
<1> QED
  BY <1>1, <1>2, <1>3, TypeCorrectness, PTL DEF Spec
=============================================================================
