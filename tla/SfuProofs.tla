------------------------------ MODULE SfuProofs ------------------------------
(***************************************************************************)
(* What Sfu guarantees for every set of meetings, participants, instances, *)
(* identifiers and requests, proved with TLAPS.                            *)
(***************************************************************************)
EXTENDS Sfu, DatabaseProofs

-----------------------------------------------------------------------------
(* The inductive invariant *)

RecreateSteps == {"rt_lock"} \cup ParticipantLocked
ProduceSteps  == {"cp_lock"} \cup MeetingLocked
LeaveSteps    == {"lv_delete", "lv_transports", "lv_own_read", "lv_own_close",
                  "lv_producers_read", "lv_producers_close", "lv_dependents_read",
                  "lv_dependents_close"}
ConsumeSteps  == {"cc_transport", "cc_shard", "cc_consume", "cc_publish"}
CloseSteps    == {"cl_delete", "cl_close", "cz_delete", "cz_close"}

\* What a handler relies on when it is about to take `step`: the arguments its
\* endpoint takes are there, and so are the local variables it has assigned.
StepTyped(step, c, l) ==
    /\ step # "idle" => c.m \in Meetings
    /\ step \in RecreateSteps \cup ProduceSteps \cup LeaveSteps \cup ConsumeSteps \cup CloseSteps
          => c.p \in Participants /\ c.i \in Instances
    /\ step \in RecreateSteps => c.kind \in TransportKinds /\ c.router \in Routers
    /\ step \in ProduceSteps => c.kind \in Kinds /\ c.t \in Transports
    /\ step \in ConsumeSteps => c.t \in Transports
    /\ step \in {"rt_register", "rt_publish"} => l.transport \in Transports
    /\ step \in {"cp_routers", "cp_register", "cp_publish", "cp_plain",
                 "cp_plain_consumer", "cp_pipeline"} => l.producer \in ProducerIds

DataOK ==
    /\ db \in Databases
    /\ routers_map \subseteq Routers
    /\ transport_map \subseteq TransportInMemory
    /\ producer_map \subseteq ProducerInMemory
    /\ consumer_map \subseteq ConsumerInMemory
    /\ plain_transport_map \subseteq ProducerIds
    /\ plain_transport_consumer_map \subseteq ProducerIds
    /\ pipeline_map \subseteq Meetings

ControlOK ==
    /\ lock_map \in [LockKeys -> Requests \cup {None}]
    /\ pc \in [Requests -> Steps]
    /\ call \in [Requests -> Calls]
    /\ local \in [Requests -> Locals]
    /\ \A r \in Requests : StepTyped(pc[r], call[r], local[r])
    /\ LockDiscipline

\* Between its search of producer_map and its insertion, a create_producer is alone
\* with its (meeting, participant, kind).
NoneWhileProducing ==
    \A r \in Requests :
       pc[r] \in Producing => ProducerOf(call[r].m, call[r].p, call[r].kind) = {}

IInv == DataOK /\ ControlOK /\ NoneWhileProducing /\ OneProducerPerKind

USE SfuAssumption

\* A free mutex has no request as its holder.
LEMMA NoneIsNoRequest == None \notin Requests
  BY DEF SfuAssumption

\* The call of an idle request is a call.
LEMMA NoCallType == NoCall \in Calls
  BY DEF NoCall, Calls

\* The local variables of an idle request are typed.
LEMMA NoLocalType == NoLocal \in Locals
  BY DEF NoLocal, Locals

-----------------------------------------------------------------------------
(* The control of a request *)

\* A handler that goes on keeps the locks it holds.
LEMMA ContinueControl ==
  ASSUME ControlOK, NEW r \in Requests, NEW step \in Steps, NEW vals \in Locals,
         Continue(r, step, vals), Held(step, call[r]) = Held(pc[r], call[r]),
         StepTyped(step, call[r], vals)
  PROVE  ControlOK'
<1>1. /\ lock_map' = lock_map /\ call' = call
      /\ pc' = [pc EXCEPT ![r] = step]
      /\ local' = [local EXCEPT ![r] = vals]
  BY DEF Continue
<1>2. /\ lock_map' \in [LockKeys -> Requests \cup {None}]
      /\ pc' \in [Requests -> Steps]
      /\ call' \in [Requests -> Calls]
      /\ local' \in [Requests -> Locals]
  BY <1>1 DEF ControlOK
<1>3. \A q \in Requests : StepTyped(pc'[q], call'[q], local'[q])
  <2> TAKE q \in Requests
  <2>1. CASE q = r
    BY <2>1, <1>1 DEF ControlOK
  <2>2. CASE q # r
    <3>1. pc'[q] = pc[q] /\ call'[q] = call[q] /\ local'[q] = local[q]
      BY <2>2, <1>1 DEF ControlOK
    <3> QED
      BY <3>1 DEF ControlOK
  <2> QED
    BY <2>1, <2>2
<1>4. LockDiscipline'
  <2> SUFFICES ASSUME NEW q \in Requests
               PROVE  {k \in LockKeys : lock_map'[k] = q} = Held(pc'[q], call'[q])
    BY DEF LockDiscipline, Held
  <2>1. Held(pc'[q], call'[q]) = Held(pc[q], call[q])
    BY <1>1 DEF ControlOK
  <2> QED
    BY <2>1, <1>1 DEF ControlOK, LockDiscipline
<1> QED
  BY <1>2, <1>3, <1>4 DEF ControlOK

\* A handler that ends, however it ends, leaves nothing locked.
LEMMA DoneControl ==
  ASSUME ControlOK, NEW r \in Requests, Done(r)
  PROVE  ControlOK'
<1>1. /\ pc' = [pc EXCEPT ![r] = "idle"]
      /\ call' = [call EXCEPT ![r] = NoCall]
      /\ local' = [local EXCEPT ![r] = NoLocal]
      /\ lock_map' = [k \in LockKeys |-> IF lock_map[k] = r THEN None ELSE lock_map[k]]
  BY DEF Done
<1>2. /\ lock_map' \in [LockKeys -> Requests \cup {None}]
      /\ pc' \in [Requests -> Steps]
      /\ call' \in [Requests -> Calls]
      /\ local' \in [Requests -> Locals]
  BY <1>1, NoCallType, NoLocalType DEF ControlOK, Steps, Unlocked
<1>3. \A q \in Requests : StepTyped(pc'[q], call'[q], local'[q])
  <2> TAKE q \in Requests
  <2>1. CASE q = r
    <3>1. pc'[q] = "idle"
      BY <2>1, <1>1 DEF ControlOK
    <3> QED
      BY <3>1 DEF StepTyped, RecreateSteps, ProduceSteps, LeaveSteps, ConsumeSteps, CloseSteps,
                  ParticipantLocked, MeetingLocked, Producing
  <2>2. CASE q # r
    <3>1. pc'[q] = pc[q] /\ call'[q] = call[q] /\ local'[q] = local[q]
      BY <2>2, <1>1 DEF ControlOK
    <3> QED
      BY <3>1 DEF ControlOK
  <2> QED
    BY <2>1, <2>2
<1>4. LockDiscipline'
  <2> SUFFICES ASSUME NEW q \in Requests
               PROVE  {k \in LockKeys : lock_map'[k] = q} = Held(pc'[q], call'[q])
    BY DEF LockDiscipline, Held
  <2>1. CASE q = r
    <3>1. pc'[q] = "idle"
      BY <2>1, <1>1 DEF ControlOK
    <3>2. Held(pc'[q], call'[q]) = {}
      BY <3>1 DEF Held, ParticipantLocked, MeetingLocked, Producing
    <3>3. \A k \in LockKeys : lock_map'[k] # q
      BY <2>1, <1>1, NoneIsNoRequest
    <3> QED
      BY <3>2, <3>3
  <2>2. CASE q # r
    <3>1. pc'[q] = pc[q] /\ call'[q] = call[q]
      BY <2>2, <1>1 DEF ControlOK
    <3>2. \A k \in LockKeys : lock_map'[k] = q <=> lock_map[k] = q
      BY <2>2, <1>1, NoneIsNoRequest
    <3> QED
      BY <3>1, <3>2 DEF ControlOK, LockDiscipline
  <2> QED
    BY <2>1, <2>2
<1> QED
  BY <1>2, <1>3, <1>4 DEF ControlOK

\* A handler that acquires a free mutex holds that one and no other.
LEMMA AcquireControl ==
  ASSUME ControlOK, NEW r \in Requests, NEW key \in LockKeys, NEW step \in Steps,
         Acquire(r, key, step), Held(pc[r], call[r]) = {}, Held(step, call[r]) = {key},
         StepTyped(step, call[r], local[r])
  PROVE  ControlOK'
<1>1. /\ lock_map[key] = None
      /\ lock_map' = [lock_map EXCEPT ![key] = r]
      /\ pc' = [pc EXCEPT ![r] = step]
      /\ call' = call /\ local' = local
  BY DEF Acquire
<1>2. /\ lock_map' \in [LockKeys -> Requests \cup {None}]
      /\ pc' \in [Requests -> Steps]
      /\ call' \in [Requests -> Calls]
      /\ local' \in [Requests -> Locals]
  BY <1>1 DEF ControlOK
<1>3. \A q \in Requests : StepTyped(pc'[q], call'[q], local'[q])
  <2> TAKE q \in Requests
  <2>1. CASE q = r
    BY <2>1, <1>1 DEF ControlOK
  <2>2. CASE q # r
    <3>1. pc'[q] = pc[q]
      BY <2>2, <1>1 DEF ControlOK
    <3> QED
      BY <3>1, <1>1 DEF ControlOK
  <2> QED
    BY <2>1, <2>2
<1>4. LockDiscipline'
  <2> SUFFICES ASSUME NEW q \in Requests
               PROVE  {k \in LockKeys : lock_map'[k] = q} = Held(pc'[q], call'[q])
    BY DEF LockDiscipline, Held
  <2>1. CASE q = r
    <3>1. Held(pc'[q], call'[q]) = {key}
      BY <2>1, <1>1 DEF ControlOK
    <3>2. {k \in LockKeys : lock_map[k] = q} = {}
      BY <2>1 DEF ControlOK, LockDiscipline
    <3>3. \A k \in LockKeys : lock_map'[k] = q <=> k = key
      BY <2>1, <3>2, <1>1 DEF ControlOK
    <3> QED
      BY <3>1, <3>3
  <2>2. CASE q # r
    <3>1. pc'[q] = pc[q] /\ call'[q] = call[q]
      BY <2>2, <1>1 DEF ControlOK
    <3>2. \A k \in LockKeys : lock_map'[k] = q <=> lock_map[k] = q
      BY <2>2, <1>1, NoneIsNoRequest DEF ControlOK
    <3> QED
      BY <3>1, <3>2 DEF ControlOK, LockDiscipline
  <2> QED
    BY <2>1, <2>2
<1> QED
  BY <1>2, <1>3, <1>4 DEF ControlOK

\* A call starts with no lock.
LEMMA BeginControl ==
  ASSUME ControlOK, NEW r \in Requests, NEW step \in Steps, NEW c \in Calls,
         Begin(r, step, c), Held(step, c) = {}, StepTyped(step, c, local[r])
  PROVE  ControlOK'
<1>1. /\ pc[r] = "idle" /\ lock_map' = lock_map /\ local' = local
      /\ pc' = [pc EXCEPT ![r] = step]
      /\ call' = [call EXCEPT ![r] = c]
  BY DEF Begin
<1>2. /\ lock_map' \in [LockKeys -> Requests \cup {None}]
      /\ pc' \in [Requests -> Steps]
      /\ call' \in [Requests -> Calls]
      /\ local' \in [Requests -> Locals]
  BY <1>1 DEF ControlOK
<1>3. \A q \in Requests : StepTyped(pc'[q], call'[q], local'[q])
  <2> TAKE q \in Requests
  <2>1. CASE q = r
    BY <2>1, <1>1 DEF ControlOK
  <2>2. CASE q # r
    <3>1. pc'[q] = pc[q] /\ call'[q] = call[q]
      BY <2>2, <1>1 DEF ControlOK
    <3> QED
      BY <3>1, <1>1 DEF ControlOK
  <2> QED
    BY <2>1, <2>2
<1>4. LockDiscipline'
  <2> SUFFICES ASSUME NEW q \in Requests
               PROVE  {k \in LockKeys : lock_map'[k] = q} = Held(pc'[q], call'[q])
    BY DEF LockDiscipline, Held
  <2>1. Held(pc[r], call[r]) = {}
    BY <1>1 DEF Held, ParticipantLocked, MeetingLocked, Producing
  <2>2. Held(pc'[q], call'[q]) = Held(pc[q], call[q])
    <3>1. CASE q = r
      BY <3>1, <2>1, <1>1 DEF ControlOK
    <3>2. CASE q # r
      BY <3>2, <1>1 DEF ControlOK
    <3> QED
      BY <3>1, <3>2
  <2> QED
    BY <2>2, <1>1 DEF ControlOK, LockDiscipline
<1> QED
  BY <1>2, <1>3, <1>4 DEF ControlOK

-----------------------------------------------------------------------------
(* What the handlers read and write has the types of the maps. *)

\* The readers of producer_map and consumer_map return ids of its entries.
LEMMA GetterTypes ==
  ASSUME DataOK, NEW p, NEW m, NEW i, NEW ids
  PROVE  /\ get_participant_producers_for_instance_in_meeting(p, m, i) \in SUBSET ProducerIds
         /\ get_participant_producers_excluding_instance(p, m, i) \in SUBSET ProducerIds
         /\ get_all_producers_for_meeting(m) \in SUBSET ProducerIds
         /\ get_participant_consumers_for_instance_in_meeting(p, m, i) \in SUBSET ConsumerIds
         /\ get_participant_consumers_excluding_instance(p, m, i) \in SUBSET ConsumerIds
         /\ get_consumers_for_producer_ids(ids, m) \in SUBSET ConsumerIds
         /\ get_all_consumers_for_meeting(m) \in SUBSET ConsumerIds
<1>1. /\ \A x \in producer_map : x.id \in ProducerIds
      /\ \A x \in consumer_map : x.id \in ConsumerIds
  BY DEF DataOK, ProducerInMemory, ConsumerInMemory
<1> QED
  BY <1>1 DEF get_participant_producers_for_instance_in_meeting,
              get_participant_producers_excluding_instance, get_all_producers_for_meeting,
              get_participant_consumers_for_instance_in_meeting,
              get_participant_consumers_excluding_instance, get_consumers_for_producer_ids,
              get_all_consumers_for_meeting, Shard

\* A transaction that may fail in the driver still ends in a database.
LEMMA OutcomesType ==
  ASSUME DataOK, NEW tx \in Transactions, NEW out \in Outcomes(tx)
  PROVE  out.db \in Databases /\ out.duplicate \in BOOLEAN
<1>1. out \in Transactions
  BY FailedType DEF Outcomes, DataOK
<1> QED
  BY <1>1 DEF Transactions

\* Closing producers or consumers only removes entries.
LEMMA CloseProducersType ==
  ASSUME DataOK, NEW ids, close_all_producers_in_memory(ids)
  PROVE  /\ producer_map' \subseteq producer_map
         /\ plain_transport_map' \subseteq plain_transport_map
         /\ plain_transport_consumer_map' \subseteq plain_transport_consumer_map
  BY DEF close_all_producers_in_memory

\* Closing consumers in memory only removes entries of consumer_map.
LEMMA CloseConsumersType ==
  ASSUME DataOK, NEW ids, NEW m, close_all_consumers_in_memory(ids, m)
  PROVE  consumer_map' \subseteq consumer_map
  BY DEF close_all_consumers_in_memory

-----------------------------------------------------------------------------
(* Each handler preserves the types and the lock discipline. *)

\* createMeeting, replaceMeetings and endMeeting.
LEMMA MeetingStep ==
  ASSUME DataOK, ControlOK, NEW r \in Requests,
         CreateMeeting(r) \/ ReplaceMeeting(r) \/ PublishRouters(r) \/ EndMeeting(r)
  PROVE  DataOK' /\ ControlOK'
<1> DEFINE c == call[r]
           l == local[r]
<1>1. /\ pc[r] \in Steps /\ c \in Calls /\ l \in Locals
      /\ StepTyped(pc[r], c, l)
  BY DEF ControlOK
<1> USE DEF RecreateSteps, ProduceSteps, LeaveSteps, ConsumeSteps, CloseSteps,
            ParticipantLocked, MeetingLocked, Producing
<1>2. ASSUME NEW step \in {"cm_routers", "rm_routers"},
             NEW next \in {"cm_register", "rm_register"}, CreateRouters(r, step, next)
      PROVE  DataOK' /\ ControlOK'
  <2>1. DataOK'
    BY <1>2 DEF CreateRouters, DataOK, memory, recordings
  <2>2. CASE Done(r)
    BY <2>2, <2>1, DoneControl
  <2>3. ASSUME NEW R \in SUBSET FreshRouters,
               Continue(r, next, [local[r] EXCEPT !.routers = R])
        PROVE  ControlOK'
    <3>1. [local[r] EXCEPT !.routers = R] \in Locals
      BY <1>1 DEF FreshRouters, Locals
    <3>2. next \in Steps /\ Held(next, call[r]) = Held(pc[r], call[r])
      BY <1>2 DEF CreateRouters, Steps, Unlocked, Held
    <3>3. StepTyped(next, call[r], [local[r] EXCEPT !.routers = R])
      BY <1>1, <1>2 DEF StepTyped, CreateRouters
    <3> QED
      BY <2>3, <3>1, <3>2, <3>3, ContinueControl
  <2> QED
    BY <1>2, <2>1, <2>2, <2>3 DEF CreateRouters
<1>3. ASSUME NEW step \in {"cm_register", "rm_register"}, NEW tx \in Transactions,
             RegisterRouters(r, step, tx)
      PROVE  DataOK' /\ ControlOK'
  <2>1. PICK out \in Outcomes(tx) :
           /\ db' = out.db
           /\ \/ Continue(r, "mk_publish", local[r])
              \/ Done(r)
    BY <1>3 DEF RegisterRouters
  <2>2. DataOK'
    BY <1>3, <2>1, OutcomesType DEF RegisterRouters, DataOK, memory, recordings
  <2>3. CASE Continue(r, "mk_publish", local[r])
    <3>1. "mk_publish" \in Steps /\ Held("mk_publish", call[r]) = Held(pc[r], call[r])
      BY <1>3 DEF RegisterRouters, Steps, Unlocked, Held
    <3>2. StepTyped("mk_publish", call[r], local[r])
      BY <1>1, <1>3 DEF StepTyped, RegisterRouters
    <3> QED
      BY <1>1, <2>2, <2>3, <3>1, <3>2, ContinueControl
  <2> QED
    BY <2>1, <2>2, <2>3, DoneControl
<1>4. CASE CreateMeeting(r)
  <2>1. CASE CreateRouters(r, "cm_routers", "cm_register")
    BY <1>2, <2>1
  <2>2. CASE RegisterRouters(r, "cm_register", CreateMeetingTx(db, call[r].m, local[r].routers))
    <3>1. pc[r] = "cm_register" /\ call[r].m \in Meetings /\ local[r].routers \in SUBSET Routers
      BY <1>1, <2>2 DEF RegisterRouters, StepTyped, Locals
    <3>2. CreateMeetingTx(db, call[r].m, local[r].routers) \in Transactions
      BY <3>1, CreateMeetingTxType DEF DataOK
    <3> QED
      BY <1>3, <2>2, <3>2
  <2> QED
    BY <1>4, <2>1, <2>2 DEF CreateMeeting
<1>5. CASE ReplaceMeeting(r)
  <2>1. CASE CreateRouters(r, "rm_routers", "rm_register")
    BY <1>2, <2>1
  <2>2. CASE RegisterRouters(r, "rm_register", ReplaceMeetingTx(db, call[r].m, local[r].routers))
    <3>1. pc[r] = "rm_register" /\ call[r].m \in Meetings /\ local[r].routers \in SUBSET Routers
      BY <1>1, <2>2 DEF RegisterRouters, StepTyped, Locals
    <3>2. ReplaceMeetingTx(db, call[r].m, local[r].routers) \in Transactions
      BY <3>1, ReplaceMeetingTxType DEF DataOK
    <3> QED
      BY <1>3, <2>2, <3>2
  <2> QED
    BY <1>5, <2>1, <2>2 DEF ReplaceMeeting
<1>6. CASE PublishRouters(r)
  <2>1. DataOK'
    BY <1>1, <1>6 DEF PublishRouters, DataOK, recordings, Locals
  <2> QED
    BY <1>6, <2>1, DoneControl DEF PublishRouters
\* A step of end_meeting that goes on.
<1>7. ASSUME NEW step \in {"em_routers", "em_transports", "em_consumers_read", "em_consumers_close",
                           "em_producers_read", "em_producers_close"},
             NEW vals \in Locals, Continue(r, step, vals),
             pc[r] \in {"em_delete", "em_routers", "em_transports", "em_consumers_read",
                        "em_consumers_close", "em_producers_read"}
      PROVE  ControlOK'
  <2>1. step \in Steps /\ Held(step, call[r]) = Held(pc[r], call[r])
    BY <1>7 DEF Steps, Unlocked, Held
  <2>2. StepTyped(step, call[r], vals)
    BY <1>1, <1>7 DEF StepTyped
  <2> QED
    BY <1>7, <2>1, <2>2, ContinueControl
<1>8. CASE EndMeeting(r)
  <2>1. CASE EndDelete(r)
    <3>1. PICK out \in Outcomes(EndMeetingTx(db, call[r].m)) :
             db' = out.db /\ (Continue(r, "em_routers", local[r]) \/ Done(r))
      BY <2>1 DEF EndDelete
    <3>2. DataOK'
      <4>1. EndMeetingTx(db, call[r].m) \in Transactions
        BY DeleteTxTypes DEF DataOK
      <4> QED
        BY <2>1, <3>1, <4>1, OutcomesType DEF EndDelete, DataOK, memory, recordings
    <3> QED
      BY <1>1, <1>7, <2>1, <3>1, <3>2, DoneControl DEF EndDelete
  <2>2. CASE EndRouters(r)
    <3>1. DataOK'
      BY <2>2 DEF EndRouters, DataOK, recordings
    <3> QED
      BY <1>1, <1>7, <2>2, <3>1 DEF EndRouters
  <2>3. CASE EndTransports(r)
    <3>1. DataOK'
      BY <2>3 DEF EndTransports, DataOK, recordings
    <3> QED
      BY <1>1, <1>7, <2>3, <3>1 DEF EndTransports
  <2>4. CASE EndReadConsumers(r)
    <3>1. DataOK'
      BY <2>4 DEF EndReadConsumers, DataOK, memory, recordings
    <3>2. [local[r] EXCEPT !.consumers = get_all_consumers_for_meeting(call[r].m)] \in Locals
      <4>1. get_all_consumers_for_meeting(call[r].m)
              \in SUBSET ConsumerIds
        BY GetterTypes
      <4> QED
        BY <1>1, <4>1 DEF Locals
    <3> QED
      BY <1>7, <2>4, <3>1, <3>2 DEF EndReadConsumers
  <2>5. CASE EndCloseConsumers(r)
    <3>1. DataOK'
      BY <2>5, CloseConsumersType DEF EndCloseConsumers, DataOK, recordings
    <3>2. [local[r] EXCEPT !.consumers = {}] \in Locals
      BY <1>1 DEF Locals
    <3> QED
      BY <1>7, <2>5, <3>1, <3>2 DEF EndCloseConsumers
  <2>6. CASE EndReadProducers(r)
    <3>1. DataOK'
      BY <2>6 DEF EndReadProducers, DataOK, memory, recordings
    <3>2. [local[r] EXCEPT !.producers = get_all_producers_for_meeting(call[r].m)] \in Locals
      <4>1. get_all_producers_for_meeting(call[r].m)
              \in SUBSET ProducerIds
        BY GetterTypes
      <4> QED
        BY <1>1, <4>1 DEF Locals
    <3> QED
      BY <1>7, <2>6, <3>1, <3>2 DEF EndReadProducers
  <2>7. CASE EndCloseProducers(r)
    <3>1. DataOK'
      BY <2>7, CloseProducersType DEF EndCloseProducers, DataOK
    <3> QED
      BY <2>7, <3>1, DoneControl DEF EndCloseProducers
  <2>8. CASE EndCloseProducersPanics(r)
    <3>1. DataOK'
      BY <2>8 DEF EndCloseProducersPanics, DataOK, recordings
    <3> QED
      BY <2>8, <3>1, DoneControl DEF EndCloseProducersPanics
  <2> QED
    BY <1>8, <2>1, <2>2, <2>3, <2>4, <2>5, <2>6, <2>7, <2>8 DEF EndMeeting
<1> QED
  BY <1>4, <1>5, <1>6, <1>8

\* recreateProducerTransport and recreateConsumerTransport.
LEMMA RecreateStep ==
  ASSUME DataOK, ControlOK, NEW r \in Requests, RecreateTransport(r)
  PROVE  DataOK' /\ ControlOK'
<1>1. /\ pc[r] \in Steps /\ call[r] \in Calls /\ local[r] \in Locals
      /\ StepTyped(pc[r], call[r], local[r])
  BY DEF ControlOK
<1> USE DEF RecreateSteps, ProduceSteps, LeaveSteps, ConsumeSteps, CloseSteps,
            ParticipantLocked, MeetingLocked, Producing
\* A step under the participant's mutex that goes on.
<1>2. ASSUME NEW step \in ParticipantLocked, NEW vals \in Locals, Continue(r, step, vals),
             pc[r] \in ParticipantLocked,
             step \in {"rt_register", "rt_publish"} => vals.transport \in Transports
      PROVE  ControlOK'
  <2>1. step \in Steps /\ Held(step, call[r]) = Held(pc[r], call[r])
    BY <1>2 DEF Steps, Held
  <2>2. StepTyped(step, call[r], vals)
    BY <1>1, <1>2 DEF StepTyped
  <2> QED
    BY <1>2, <2>1, <2>2, ContinueControl
<1>3. CASE RecreateLock(r)
  <2>1. DataOK'
    BY <1>3 DEF RecreateLock, Acquire, DataOK, memory, recordings
  <2>2. pc[r] = "rt_lock" /\ Acquire(r, call[r].p, "rt_join")
    BY <1>3 DEF RecreateLock
  <2>3. call[r].p \in LockKeys
    BY <1>1, <2>2 DEF StepTyped, LockKeys
  <2>4. "rt_join" \in Steps /\ Held(pc[r], call[r]) = {} /\ Held("rt_join", call[r]) = {call[r].p}
    BY <2>2 DEF Steps, Held
  <2>5. StepTyped("rt_join", call[r], local[r])
    BY <1>1, <2>2 DEF StepTyped
  <2> QED
    BY <2>1, <2>2, <2>3, <2>4, <2>5, AcquireControl
<1>4. CASE RecreateJoin(r)
  <2> DEFINE tx == JoinTx(db, call[r].p, call[r].m, call[r].i, call[r].kind, call[r].router)
  <2>1. pc[r] = "rt_join"
    BY <1>4 DEF RecreateJoin
  <2>2. tx \in Transactions
    BY <1>1, <2>1, JoinTxType DEF StepTyped, DataOK
  <2>3. PICK out \in Outcomes(tx) :
           /\ db' = out.db
           /\ \/ Continue(r, "rt_own_read", [local[r] EXCEPT !.new_user = ~out.duplicate])
              \/ Done(r)
    BY <1>4 DEF RecreateJoin
  <2> HIDE DEF tx
  <2>4. DataOK'
    BY <1>4, <2>2, <2>3, OutcomesType DEF RecreateJoin, DataOK, memory, recordings
  <2>5. [local[r] EXCEPT !.new_user = ~out.duplicate] \in Locals
    BY <1>1, <2>2, OutcomesType DEF Locals
  <2> QED
    BY <1>2, <2>1, <2>3, <2>4, <2>5, DoneControl
<1>5. CASE RecreateReadOwn(r)
  <2>1. DataOK'
    BY <1>5 DEF RecreateReadOwn, DataOK, memory, recordings
  <2>2. [local[r] EXCEPT !.consumers =
            get_participant_consumers_excluding_instance(call[r].p, call[r].m, call[r].i)] \in Locals
    <3>1. get_participant_consumers_excluding_instance(call[r].p, call[r].m, call[r].i)
            \in SUBSET ConsumerIds
      BY GetterTypes
    <3> QED
      BY <1>1, <3>1 DEF Locals
  <2> QED
    BY <1>2, <1>5, <2>1, <2>2 DEF RecreateReadOwn
<1>6. CASE RecreateCloseOwn(r)
  <2>1. DataOK'
    BY <1>6, CloseConsumersType DEF RecreateCloseOwn, DataOK, recordings
  <2>2. [local[r] EXCEPT !.consumers = {}] \in Locals
    BY <1>1 DEF Locals
  <2> QED
    BY <1>2, <1>6, <2>1, <2>2 DEF RecreateCloseOwn
<1>7. CASE RecreateReadProducers(r)
  <2>1. DataOK'
    BY <1>7 DEF RecreateReadProducers, DataOK, memory, recordings
  <2>2. [local[r] EXCEPT !.producers =
            get_participant_producers_excluding_instance(call[r].p, call[r].m, call[r].i)] \in Locals
    <3>1. get_participant_producers_excluding_instance(call[r].p, call[r].m, call[r].i)
             \in SUBSET ProducerIds
      BY GetterTypes
    <3> QED
      BY <1>1, <3>1 DEF Locals
  <2> QED
    BY <1>2, <1>7, <2>1, <2>2 DEF RecreateReadProducers
<1>8. CASE RecreateReadDependents(r)
  <2>1. DataOK'
    BY <1>8 DEF RecreateReadDependents, DataOK, memory, recordings
  <2>2. [local[r] EXCEPT !.dependents =
            get_consumers_for_producer_ids(local[r].producers, call[r].m)] \in Locals
    <3>1. get_consumers_for_producer_ids(local[r].producers, call[r].m)
            \in SUBSET ConsumerIds
      BY GetterTypes
    <3> QED
      BY <1>1, <3>1 DEF Locals
  <2> QED
    BY <1>2, <1>8, <2>1, <2>2 DEF RecreateReadDependents
<1>9. CASE RecreateCloseProducers(r)
  <2>1. DataOK'
    BY <1>9, CloseProducersType DEF RecreateCloseProducers, DataOK
  <2> QED
    BY <1>1, <1>2, <1>9, <2>1 DEF RecreateCloseProducers
<1>10. CASE RecreateCloseDependents(r)
  <2>1. DataOK'
    BY <1>10, CloseConsumersType DEF RecreateCloseDependents, DataOK, recordings
  <2>2. [local[r] EXCEPT !.producers = {}, !.dependents = {}] \in Locals
    BY <1>1 DEF Locals
  <2> QED
    BY <1>2, <1>10, <2>1, <2>2, DoneControl DEF RecreateCloseDependents
<1>11. CASE RecreateCreate(r)
  <2>1. DataOK'
    BY <1>11 DEF RecreateCreate, DataOK, memory, recordings
  <2>2. ASSUME NEW t \in FreshTransports,
               Continue(r, "rt_register", [local[r] EXCEPT !.transport = t])
        PROVE  ControlOK'
    <3>1. /\ [local[r] EXCEPT !.transport = t] \in Locals
          /\ [local[r] EXCEPT !.transport = t].transport \in Transports
      BY <1>1 DEF Locals, FreshTransports
    <3> QED
      BY <1>2, <1>11, <2>2, <3>1 DEF RecreateCreate
  <2> QED
    BY <1>11, <2>1, <2>2, DoneControl DEF RecreateCreate
<1>12. CASE RecreateRegister(r)
  <2> DEFINE tx == RegisterTransportTx(db, call[r].p, call[r].kind, local[r].transport)
  <2>1. pc[r] = "rt_register"
    BY <1>12 DEF RecreateRegister
  <2>2. tx \in Transactions /\ local[r].transport \in Transports
    BY <1>1, <2>1, RegisterTransportTxType DEF StepTyped, DataOK
  <2>3. PICK out \in Outcomes(tx) :
           /\ db' = out.db
           /\ \/ Continue(r, "rt_publish", local[r])
              \/ Continue(r, "rt_existing", local[r])
              \/ Done(r)
    BY <1>12 DEF RecreateRegister
  <2> HIDE DEF tx
  <2>4. DataOK'
    BY <1>12, <2>2, <2>3, OutcomesType DEF RecreateRegister, DataOK, memory, recordings
  <2> QED
    BY <1>1, <1>2, <2>1, <2>2, <2>3, <2>4, DoneControl
<1>13. CASE RecreatePublish(r)
  <2>1. pc[r] = "rt_publish"
    BY <1>13 DEF RecreatePublish
  <2>2. [id |-> local[r].transport, m |-> call[r].m, p |-> call[r].p, kind |-> call[r].kind]
           \in TransportInMemory
    BY <1>1, <2>1 DEF StepTyped, TransportInMemory
  <2>3. DataOK'
    BY <1>13, <2>2 DEF RecreatePublish, DataOK, recordings
  <2> QED
    BY <1>1, <1>2, <1>13, <2>3 DEF RecreatePublish
<1>14. CASE RecreateExisting(r)
  <2>1. DataOK'
    BY <1>14 DEF RecreateExisting, DataOK, memory, recordings
  <2>2. ASSUME NEW x \in transport_map,
               Continue(r, "rt_reply", [local[r] EXCEPT !.transport = x.id])
        PROVE  ControlOK'
    <3>1. x.id \in Transports
      BY DEF DataOK, TransportInMemory
    <3>2. [local[r] EXCEPT !.transport = x.id] \in Locals
      BY <1>1, <3>1 DEF Locals
    <3> QED
      BY <1>2, <1>14, <2>2, <3>2 DEF RecreateExisting
  <2> QED
    BY <1>14, <2>1, <2>2, DoneControl DEF RecreateExisting
<1>15. CASE RecreateReply(r)
  <2>1. DataOK'
    BY <1>15 DEF RecreateReply, DataOK, memory, recordings
  <2> QED
    BY <1>15, <2>1, DoneControl DEF RecreateReply
<1> QED
  BY <1>3, <1>4, <1>5, <1>6, <1>7, <1>8, <1>9, <1>10, <1>11, <1>12, <1>13, <1>14, <1>15
     DEF RecreateTransport

\* leaveMeeting.
LEMMA LeaveStep ==
  ASSUME DataOK, ControlOK, NEW r \in Requests, LeaveMeeting(r)
  PROVE  DataOK' /\ ControlOK'
<1>1. /\ pc[r] \in Steps /\ call[r] \in Calls /\ local[r] \in Locals
      /\ StepTyped(pc[r], call[r], local[r])
  BY DEF ControlOK
<1> USE DEF RecreateSteps, ProduceSteps, LeaveSteps, ConsumeSteps, CloseSteps,
            ParticipantLocked, MeetingLocked, Producing
\* A step that goes on.
<1>2. ASSUME NEW step \in LeaveSteps, NEW vals \in Locals, Continue(r, step, vals),
             pc[r] \in LeaveSteps
      PROVE  ControlOK'
  <2>1. step \in Steps /\ Held(step, call[r]) = Held(pc[r], call[r])
    BY <1>2 DEF Steps, Unlocked, Held
  <2>2. StepTyped(step, call[r], vals)
    BY <1>1, <1>2 DEF StepTyped
  <2> QED
    BY <1>2, <2>1, <2>2, ContinueControl
<1>3. CASE LeaveDelete(r)
  <2> DEFINE tx == LeaveTx(db, call[r].p, call[r].m, call[r].i)
  <2>1. tx \in Transactions
    BY DeleteTxTypes DEF DataOK
  <2>2. PICK out \in Outcomes(tx) :
           db' = out.db /\ (Continue(r, "lv_transports", local[r]) \/ Done(r))
    BY <1>3 DEF LeaveDelete
  <2> HIDE DEF tx
  <2>3. DataOK'
    BY <1>3, <2>1, <2>2, OutcomesType DEF LeaveDelete, DataOK, memory, recordings
  <2> QED
    BY <1>1, <1>2, <1>3, <2>2, <2>3, DoneControl DEF LeaveDelete
<1>4. CASE LeaveTransports(r)
  <2>1. DataOK'
    BY <1>4 DEF LeaveTransports, DataOK, recordings
  <2> QED
    BY <1>1, <1>2, <1>4, <2>1 DEF LeaveTransports
<1>5. CASE LeaveReadOwn(r)
  <2>1. DataOK'
    BY <1>5 DEF LeaveReadOwn, DataOK, memory, recordings
  <2>2. [local[r] EXCEPT !.consumers =
           get_participant_consumers_for_instance_in_meeting(call[r].p, call[r].m, call[r].i)]
           \in Locals
    <3>1. get_participant_consumers_for_instance_in_meeting(call[r].p, call[r].m, call[r].i)
            \in SUBSET ConsumerIds
      BY GetterTypes
    <3> QED
      BY <1>1, <3>1 DEF Locals
  <2> QED
    BY <1>2, <1>5, <2>1, <2>2 DEF LeaveReadOwn
<1>6. CASE LeaveCloseOwn(r)
  <2>1. DataOK'
    BY <1>6, CloseConsumersType DEF LeaveCloseOwn, DataOK, recordings
  <2>2. [local[r] EXCEPT !.consumers = {}] \in Locals
    BY <1>1 DEF Locals
  <2> QED
    BY <1>2, <1>6, <2>1, <2>2 DEF LeaveCloseOwn
<1>7. CASE LeaveReadProducers(r)
  <2>1. DataOK'
    BY <1>7 DEF LeaveReadProducers, DataOK, memory, recordings
  <2>2. [local[r] EXCEPT !.producers =
           get_participant_producers_for_instance_in_meeting(call[r].p, call[r].m, call[r].i)]
           \in Locals
    <3>1. get_participant_producers_for_instance_in_meeting(call[r].p, call[r].m, call[r].i)
             \in SUBSET ProducerIds
      BY GetterTypes
    <3> QED
      BY <1>1, <3>1 DEF Locals
  <2> QED
    BY <1>2, <1>7, <2>1, <2>2 DEF LeaveReadProducers
<1>8. CASE LeaveCloseProducers(r)
  <2>1. DataOK'
    BY <1>8, CloseProducersType DEF LeaveCloseProducers, DataOK
  <2> QED
    BY <1>1, <1>2, <1>8, <2>1 DEF LeaveCloseProducers
<1>9. CASE LeaveReadDependents(r)
  <2>1. DataOK'
    BY <1>9 DEF LeaveReadDependents, DataOK, memory, recordings
  <2>2. [local[r] EXCEPT !.dependents =
           get_consumers_for_producer_ids(local[r].producers, call[r].m)] \in Locals
    <3>1. get_consumers_for_producer_ids(local[r].producers, call[r].m)
            \in SUBSET ConsumerIds
      BY GetterTypes
    <3> QED
      BY <1>1, <3>1 DEF Locals
  <2> QED
    BY <1>2, <1>9, <2>1, <2>2, DoneControl DEF LeaveReadDependents
<1>10. CASE LeaveCloseDependents(r)
  <2>1. DataOK'
    BY <1>10, CloseConsumersType DEF LeaveCloseDependents, DataOK, recordings
  <2> QED
    BY <1>10, <2>1, DoneControl DEF LeaveCloseDependents
<1> QED
  BY <1>3, <1>4, <1>5, <1>6, <1>7, <1>8, <1>9, <1>10 DEF LeaveMeeting

\* createProducer and closeProducer.
LEMMA ProduceStep ==
  ASSUME DataOK, ControlOK, NEW r \in Requests, CreateProducer(r) \/ CloseProducer(r)
  PROVE  DataOK' /\ ControlOK'
<1>1. /\ pc[r] \in Steps /\ call[r] \in Calls /\ local[r] \in Locals
      /\ StepTyped(pc[r], call[r], local[r])
  BY DEF ControlOK
<1> USE DEF RecreateSteps, ProduceSteps, LeaveSteps, ConsumeSteps, CloseSteps,
            ParticipantLocked, MeetingLocked, Producing
\* A step under the meeting's mutex that goes on.
<1>2. ASSUME NEW step \in MeetingLocked, NEW vals \in Locals, Continue(r, step, vals),
             pc[r] \in MeetingLocked,
             step \notin {"cp_check", "cp_produce"} => vals.producer \in ProducerIds
      PROVE  ControlOK'
  <2>1. step \in Steps /\ Held(step, call[r]) = Held(pc[r], call[r])
    BY <1>2 DEF Steps, Held
  <2>2. StepTyped(step, call[r], vals)
    BY <1>1, <1>2 DEF StepTyped
  <2> QED
    BY <1>2, <2>1, <2>2, ContinueControl
<1>3. CASE ProduceLock(r)
  <2>1. DataOK'
    BY <1>3 DEF ProduceLock, Acquire, DataOK, memory, recordings
  <2>2. pc[r] = "cp_lock" /\ Acquire(r, call[r].m, "cp_check")
    BY <1>3 DEF ProduceLock
  <2>3. call[r].m \in LockKeys
    BY <1>1, <2>2 DEF StepTyped, LockKeys
  <2>4. "cp_check" \in Steps /\ Held(pc[r], call[r]) = {} /\ Held("cp_check", call[r]) = {call[r].m}
    BY <2>2 DEF Steps, Held
  <2>5. StepTyped("cp_check", call[r], local[r])
    BY <1>1, <2>2 DEF StepTyped
  <2> QED
    BY <2>1, <2>2, <2>3, <2>4, <2>5, AcquireControl
<1>4. CASE ProduceCheck(r)
  <2>1. DataOK'
    BY <1>4 DEF ProduceCheck, DataOK, memory, recordings
  <2> QED
    BY <1>1, <1>2, <1>4, <2>1, DoneControl DEF ProduceCheck
<1>5. CASE ProduceOnTransport(r)
  <2>1. DataOK'
    BY <1>5 DEF ProduceOnTransport, DataOK, memory, recordings
  <2>2. ASSUME NEW id \in FreshProducers,
               Continue(r, "cp_routers", [local[r] EXCEPT !.producer = id])
        PROVE  ControlOK'
    <3>1. /\ [local[r] EXCEPT !.producer = id] \in Locals
          /\ [local[r] EXCEPT !.producer = id].producer \in ProducerIds
      BY <1>1 DEF Locals, FreshProducers
    <3> QED
      BY <1>2, <1>5, <2>2, <3>1 DEF ProduceOnTransport
  <2> QED
    BY <1>5, <2>1, <2>2, DoneControl DEF ProduceOnTransport
<1>6. CASE ProduceRouters(r)
  <2>1. DataOK'
    BY <1>6 DEF ProduceRouters, DataOK, memory, recordings
  <2>2. local[r].producer \in ProducerIds
    BY <1>1, <1>6 DEF StepTyped, ProduceRouters
  <2> QED
    BY <1>1, <1>2, <1>6, <2>1, <2>2, DoneControl DEF ProduceRouters
<1>7. CASE ProduceRegister(r)
  <2> DEFINE row == [id |-> local[r].producer, p |-> call[r].p, kind |-> call[r].kind,
                     m |-> call[r].m, t |-> call[r].t]
             tx == RegisterProducerTx(db, row)
  <2>1. pc[r] = "cp_register"
    BY <1>7 DEF ProduceRegister
  <2>2. local[r].producer \in ProducerIds /\ row \in ParticipantProducers
    BY <1>1, <2>1 DEF StepTyped, ParticipantProducers
  <2>3. PICK out \in Outcomes(tx) :
           /\ db' = out.db
           /\ \/ Continue(r, "cp_publish", local[r])
              \/ Continue(r, "cp_pipeline", local[r])
              \/ Done(r)
    BY <1>7 DEF ProduceRegister
  <2> HIDE DEF row
  <2>4. tx \in Transactions
    BY <2>2, RegisterProducerTxType DEF DataOK
  <2> HIDE DEF tx
  <2>5. DataOK'
    BY <1>7, <2>3, <2>4, OutcomesType DEF ProduceRegister, DataOK, memory, recordings
  <2> QED
    BY <1>1, <1>2, <2>1, <2>2, <2>3, <2>5, DoneControl
<1>8. CASE ProducePublish(r)
  <2>1. pc[r] = "cp_publish"
    BY <1>8 DEF ProducePublish
  <2>2. /\ local[r].producer \in ProducerIds
        /\ [id |-> local[r].producer, m |-> call[r].m, p |-> call[r].p, kind |-> call[r].kind,
            i |-> call[r].i] \in ProducerInMemory
    BY <1>1, <2>1 DEF StepTyped, ProducerInMemory
  <2>3. DataOK'
    BY <1>8, <2>2 DEF ProducePublish, DataOK, recordings
  <2> QED
    BY <1>1, <1>2, <1>8, <2>2, <2>3, DoneControl DEF ProducePublish
<1>9. CASE ProducePlain(r)
  <2>1. local[r].producer \in ProducerIds
    BY <1>1, <1>9 DEF StepTyped, ProducePlain
  <2>2. DataOK'
    BY <1>9, <2>1 DEF ProducePlain, DataOK
  <2> QED
    BY <1>1, <1>2, <1>9, <2>1, <2>2 DEF ProducePlain
<1>10. CASE ProducePlainConsumer(r)
  <2>1. local[r].producer \in ProducerIds
    BY <1>1, <1>10 DEF StepTyped, ProducePlainConsumer
  <2>2. DataOK'
    BY <1>10, <2>1 DEF ProducePlainConsumer, DataOK
  <2> QED
    BY <1>1, <1>2, <1>10, <2>1, <2>2 DEF ProducePlainConsumer
<1>11. CASE ProducePipeline(r)
  <2>1. call[r].m \in Meetings
    BY <1>1, <1>11 DEF StepTyped, ProducePipeline
  <2>2. DataOK'
    BY <1>11, <2>1 DEF ProducePipeline, DataOK
  <2> QED
    BY <1>11, <2>2, DoneControl DEF ProducePipeline
<1>12. CASE CloseProducerDelete(r)
  <2> DEFINE tx == DeleteProducersTx(db, call[r].p, call[r].ids)
  <2>1. tx \in Transactions
    BY DeleteTxTypes DEF DataOK
  <2>2. PICK out \in Outcomes(tx) :
           db' = out.db /\ (Continue(r, "cl_close", local[r]) \/ Done(r))
    BY <1>12 DEF CloseProducerDelete
  <2> HIDE DEF tx
  <2>3. DataOK'
    BY <1>12, <2>1, <2>2, OutcomesType DEF CloseProducerDelete, DataOK, memory, recordings
  <2>4. CASE Continue(r, "cl_close", local[r])
    <3>1. "cl_close" \in Steps /\ Held("cl_close", call[r]) = Held(pc[r], call[r])
      BY <1>12 DEF CloseProducerDelete, Steps, Unlocked, Held
    <3>2. StepTyped("cl_close", call[r], local[r])
      BY <1>1, <1>12 DEF StepTyped, CloseProducerDelete
    <3> QED
      BY <1>1, <2>3, <2>4, <3>1, <3>2, ContinueControl
  <2> QED
    BY <2>2, <2>3, <2>4, DoneControl
<1>13. CASE CloseProducerInMemory(r)
  <2>1. DataOK'
    BY <1>13, CloseProducersType DEF CloseProducerInMemory, DataOK
  <2> QED
    BY <1>13, <2>1, DoneControl DEF CloseProducerInMemory
<1> QED
  BY <1>3, <1>4, <1>5, <1>6, <1>7, <1>8, <1>9, <1>10, <1>11, <1>12, <1>13
     DEF CreateProducer, CloseProducer

\* createConsumer and closeConsumer.
LEMMA ConsumeStep ==
  ASSUME DataOK, ControlOK, NEW r \in Requests, CreateConsumer(r) \/ CloseConsumer(r)
  PROVE  DataOK' /\ ControlOK'
<1>1. /\ pc[r] \in Steps /\ call[r] \in Calls /\ local[r] \in Locals
      /\ StepTyped(pc[r], call[r], local[r])
  BY DEF ControlOK
<1> USE DEF RecreateSteps, ProduceSteps, LeaveSteps, ConsumeSteps, CloseSteps,
            ParticipantLocked, MeetingLocked, Producing
\* A step of create_consumer that goes on.
<1>2. ASSUME NEW step \in ConsumeSteps, NEW vals \in Locals, Continue(r, step, vals),
             pc[r] \in ConsumeSteps
      PROVE  ControlOK'
  <2>1. step \in Steps /\ Held(step, call[r]) = Held(pc[r], call[r])
    BY <1>2 DEF Steps, Unlocked, Held
  <2>2. StepTyped(step, call[r], vals)
    BY <1>1, <1>2 DEF StepTyped
  <2> QED
    BY <1>2, <2>1, <2>2, ContinueControl
<1>3. CASE ConsumeOnTransport(r)
  <2>1. DataOK'
    BY <1>3 DEF ConsumeOnTransport, DataOK, memory, recordings
  <2>2. [local[r] EXCEPT !.want = call[r].want] \in Locals
    BY <1>1 DEF Locals, Calls
  <2> QED
    BY <1>2, <1>3, <2>1, <2>2, DoneControl DEF ConsumeOnTransport
<1>4. CASE ConsumeSnapshot(r)
  <2> DEFINE seen == {x \in Shard(call[r].m) : x.p = call[r].p /\ x.m = call[r].m /\ x.i = call[r].i}
  <2>1. DataOK'
    BY <1>4 DEF ConsumeSnapshot, DataOK, memory, recordings
  <2>2. seen \in SUBSET ConsumerInMemory
    BY DEF DataOK, Shard
  <2>3. pc[r] = "cc_shard" /\ Continue(r, "cc_consume", [local[r] EXCEPT !.seen = seen])
    BY <1>4 DEF ConsumeSnapshot
  <2> HIDE DEF seen
  <2>4. [local[r] EXCEPT !.seen = seen] \in Locals
    BY <1>1, <2>2 DEF Locals
  <2> QED
    BY <1>2, <2>1, <2>3, <2>4
<1>5. CASE ConsumeReuse(r)
  <2>1. DataOK'
    BY <1>5 DEF ConsumeReuse, DataOK, memory, recordings
  <2>2. PICK w \in local[r].want :
           Continue(r, "cc_consume", [local[r] EXCEPT !.want = @ \ {w}])
    BY <1>5 DEF ConsumeReuse
  <2>3. [local[r] EXCEPT !.want = @ \ {w}] \in Locals
    BY <1>1 DEF Locals
  <2> QED
    BY <1>2, <1>5, <2>1, <2>2, <2>3 DEF ConsumeReuse
<1>6. CASE ConsumeNew(r)
  <2>1. DataOK'
    BY <1>6 DEF ConsumeNew, DataOK, memory, recordings
  <2> DEFINE made(w, id) == [id |-> id, m |-> call[r].m, p |-> call[r].p, target |-> w.target,
                             kind |-> w.kind, i |-> call[r].i, producer |-> w.producer]
  <2>2. PICK w \in local[r].want, id \in FreshConsumers :
           Continue(r, "cc_consume",
                    [local[r] EXCEPT !.want = @ \ {w}, !.made = @ \cup {made(w, id)}])
    BY <1>6 DEF ConsumeNew
  <2>3. w \in Wants /\ id \in ConsumerIds
    BY <1>1 DEF Locals, FreshConsumers
  <2>4. made(w, id) \in ConsumerInMemory
    BY <1>1, <1>6, <2>3 DEF StepTyped, ConsumeNew, Wants, ConsumerInMemory
  <2> HIDE DEF made
  <2>5. [local[r] EXCEPT !.want = @ \ {w}, !.made = @ \cup {made(w, id)}] \in Locals
    BY <1>1, <2>4 DEF Locals
  <2> QED
    BY <1>2, <1>6, <2>1, <2>2, <2>5 DEF ConsumeNew
<1>7. CASE ConsumeFails(r)
  <2>1. DataOK'
    BY <1>7 DEF ConsumeFails, DataOK, memory, recordings
  <2> QED
    BY <1>7, <2>1, DoneControl DEF ConsumeFails
<1>8. CASE ConsumeRegister(r)
  <2> DEFINE rows == {[id |-> x.id, p |-> x.p, target |-> x.target, kind |-> x.kind,
                       m |-> x.m, t |-> call[r].t] : x \in local[r].made}
             tx == RegisterConsumersTx(db, rows)
  <2>1. pc[r] = "cc_consume" /\ call[r].t \in Transports
    BY <1>1, <1>8 DEF ConsumeRegister, StepTyped
  <2>2. rows \in SUBSET ParticipantConsumers
    <3>1. local[r].made \in SUBSET ConsumerInMemory
      BY <1>1 DEF Locals
    <3> QED
      BY <2>1, <3>1 DEF ConsumerInMemory, ParticipantConsumers
  <2>3. PICK out \in Outcomes(tx) :
           db' = out.db /\ (Continue(r, "cc_publish", local[r]) \/ Done(r))
    BY <1>8 DEF ConsumeRegister
  <2> HIDE DEF rows
  <2>4. tx \in Transactions
    BY <2>2, RegisterConsumersTxType DEF DataOK
  <2> HIDE DEF tx
  <2>5. DataOK'
    BY <1>8, <2>3, <2>4, OutcomesType DEF ConsumeRegister, DataOK, memory, recordings
  <2> QED
    BY <1>1, <1>2, <2>1, <2>3, <2>5, DoneControl
<1>9. CASE ConsumePublish(r)
  <2>1. DataOK'
    BY <1>1, <1>9 DEF ConsumePublish, DataOK, recordings, Locals
  <2> QED
    BY <1>9, <2>1, DoneControl DEF ConsumePublish
<1>10. CASE CloseConsumerDelete(r)
  <2> DEFINE tx == DeleteConsumersTx(db, call[r].ids)
  <2>1. tx \in Transactions
    BY DeleteTxTypes DEF DataOK
  <2>2. PICK out \in Outcomes(tx) :
           db' = out.db /\ (Continue(r, "cz_close", local[r]) \/ Done(r))
    BY <1>10 DEF CloseConsumerDelete
  <2> HIDE DEF tx
  <2>3. DataOK'
    BY <1>10, <2>1, <2>2, OutcomesType DEF CloseConsumerDelete, DataOK, memory, recordings
  <2>4. CASE Continue(r, "cz_close", local[r])
    <3>1. "cz_close" \in Steps /\ Held("cz_close", call[r]) = Held(pc[r], call[r])
      BY <1>10 DEF CloseConsumerDelete, Steps, Unlocked, Held
    <3>2. StepTyped("cz_close", call[r], local[r])
      BY <1>1, <1>10 DEF StepTyped, CloseConsumerDelete
    <3> QED
      BY <1>1, <2>3, <2>4, <3>1, <3>2, ContinueControl
  <2> QED
    BY <2>2, <2>3, <2>4, DoneControl
<1>11. CASE CloseConsumerInMemory(r)
  <2>1. DataOK'
    BY <1>11, CloseConsumersType DEF CloseConsumerInMemory, DataOK, recordings
  <2> QED
    BY <1>11, <2>1, DoneControl DEF CloseConsumerInMemory
<1> QED
  BY <1>3, <1>4, <1>5, <1>6, <1>7, <1>8, <1>9, <1>10, <1>11
     DEF CreateConsumer, CloseConsumer

\* The calls: the arguments a caller takes from the tables and the maps are typed.
LEMMA CallStep ==
  ASSUME DataOK, ControlOK, NEW r \in Requests, Call(r)
  PROVE  DataOK' /\ ControlOK'
<1> USE DEF RecreateSteps, ProduceSteps, LeaveSteps, ConsumeSteps, CloseSteps,
            ParticipantLocked, MeetingLocked, Producing
<1> DEFINE Starts == {"cm_routers", "rm_routers", "em_delete", "rt_lock", "lv_delete",
                      "cp_lock", "cl_delete", "cc_transport", "cz_delete"}
<1>1. ASSUME NEW step \in Starts, NEW c \in Calls, Begin(r, step, c),
             StepTyped(step, c, local[r])
      PROVE  DataOK' /\ ControlOK'
  <2>1. DataOK'
    BY <1>1 DEF Begin, DataOK, memory, recordings
  <2>2. step \in Steps /\ Held(step, c) = {}
    BY DEF Steps, Unlocked, Held
  <2> QED
    BY <1>1, <2>1, <2>2, BeginControl
<1> HIDE DEF Starts
<1>2. PICK m \in Meetings :
         \/ CallCreateMeeting(r, m)
         \/ CallReplaceMeeting(r, m)
         \/ CallEndMeeting(r, m)
         \/ \E p \in Participants, i \in Instances :
               \/ \E kind \in TransportKinds : CallRecreate(r, p, m, i, kind)
               \/ CallLeave(r, p, m, i)
               \/ CallCreateProducer(r, p, m, i)
               \/ CallCloseProducer(r, p, m, i)
               \/ CallCreateConsumer(r, p, m, i)
               \/ CallCloseConsumer(r, p, m, i)
  BY DEF Call
<1>3. RoutersOfMeeting(m) \subseteq Routers
  BY DEF RoutersOfMeeting, DataOK, Databases, RouterMeeting
<1>4. ASSUME NEW p, NEW old \in OldTransports(p, m)
      PROVE  old \subseteq Transports
  <2>1. \A x \in transport_map : x.id \in Transports
    BY DEF DataOK, TransportInMemory
  <2>2. PICK S \in SUBSET transport_map : old = {x.id : x \in S}
    BY <1>4 DEF OldTransports
  <2> QED
    BY <2>1, <2>2
<1>5. CASE CallCreateMeeting(r, m)
  <2>1. [NoCall EXCEPT !.m = m] \in Calls
    BY NoCallType DEF Calls
  <2>2. StepTyped("cm_routers", [NoCall EXCEPT !.m = m], local[r])
    BY DEF StepTyped, NoCall
  <2> QED
    BY <1>1, <1>5, <2>1, <2>2 DEF CallCreateMeeting, Starts
<1>6. CASE CallReplaceMeeting(r, m)
  <2>1. [NoCall EXCEPT !.m = m] \in Calls
    BY NoCallType DEF Calls
  <2>2. StepTyped("rm_routers", [NoCall EXCEPT !.m = m], local[r])
    BY DEF StepTyped, NoCall
  <2> QED
    BY <1>1, <1>6, <2>1, <2>2 DEF CallReplaceMeeting, Starts
<1>7. CASE CallEndMeeting(r, m)
  <2> DEFINE ids == RoutersOfMeeting(m)
                    \cup TransportsOf(db.participant_producer_transport, ParticipantsOf(m))
                    \cup TransportsOf(db.participant_consumer_transport, ParticipantsOf(m))
             listed == ParticipantsOf(m) # {}
             c == [NoCall EXCEPT !.m = m, !.ids = ids, !.listed = listed]
  <2>1. ids \in SUBSET (Routers \cup Transports)
    <3>1. /\ TransportsOf(db.participant_producer_transport, ParticipantsOf(m)) \subseteq Transports
          /\ TransportsOf(db.participant_consumer_transport, ParticipantsOf(m)) \subseteq Transports
      BY DEF TransportsOf, DataOK, Databases, ParticipantTransport
    <3> QED
      BY <1>3, <3>1
  <2>2. listed \in BOOLEAN
    OBVIOUS
  <2>3. Begin(r, "em_delete", c)
    BY <1>7 DEF CallEndMeeting
  <2> HIDE DEF ids, listed
  <2>4. c \in Calls
    BY <2>1, <2>2, NoCallType DEF Calls
  <2>5. StepTyped("em_delete", c, local[r])
    BY DEF StepTyped, NoCall
  <2> QED
    BY <1>1, <2>3, <2>4, <2>5 DEF Starts
<1>8. ASSUME NEW p \in Participants, NEW i \in Instances, NEW kind \in TransportKinds,
             CallRecreate(r, p, m, i, kind)
      PROVE  DataOK' /\ ControlOK'
  <2>1. PICK router \in RoutersOfMeeting(m), old \in OldTransports(p, m) :
           Begin(r, "rt_lock", [NoCall EXCEPT !.p = p, !.m = m, !.i = i, !.kind = kind,
                                              !.router = router, !.ids = old])
    BY <1>8 DEF CallRecreate
  <2> DEFINE c == [NoCall EXCEPT !.p = p, !.m = m, !.i = i, !.kind = kind,
                                 !.router = router, !.ids = old]
  <2>2. router \in Routers /\ old \in SUBSET Transports
    BY <1>3, <1>4
  <2>3. c \in Calls
    BY <2>2, NoCallType DEF Calls
  <2>4. StepTyped("rt_lock", c, local[r])
    BY <2>2 DEF StepTyped, NoCall
  <2> QED
    BY <1>1, <2>1, <2>3, <2>4 DEF Starts
<1>9. ASSUME NEW p \in Participants, NEW i \in Instances, CallLeave(r, p, m, i)
      PROVE  DataOK' /\ ControlOK'
  <2>1. PICK old \in OldTransports(p, m) :
           Begin(r, "lv_delete", [NoCall EXCEPT !.p = p, !.m = m, !.i = i, !.ids = old])
    BY <1>9 DEF CallLeave
  <2> DEFINE c == [NoCall EXCEPT !.p = p, !.m = m, !.i = i, !.ids = old]
  <2>2. old \in SUBSET Transports
    BY <1>4
  <2>3. c \in Calls
    BY <2>2, NoCallType DEF Calls
  <2>4. StepTyped("lv_delete", c, local[r])
    BY DEF StepTyped, NoCall
  <2> QED
    BY <1>1, <2>1, <2>3, <2>4 DEF Starts
<1>10. ASSUME NEW p \in Participants, NEW i \in Instances, CallCreateProducer(r, p, m, i)
       PROVE  DataOK' /\ ControlOK'
  <2>1. PICK kind \in Kinds, record \in Recording, router \in RoutersOfMeeting(m),
             x \in transport_map, others \in SUBSET RoutersOfMeeting(m) :
           Begin(r, "cp_lock", [NoCall EXCEPT !.p = p, !.m = m, !.i = i, !.kind = kind,
                                   !.router = router, !.t = x.id, !.record = record,
                                   !.ids = others])
    <3>1. PICK kind \in Kinds, record \in Recording, router \in RoutersOfMeeting(m),
               x \in transport_map :
             \E others \in {{}, RoutersOfMeeting(m) \ {router}} :
                Begin(r, "cp_lock", [NoCall EXCEPT !.p = p, !.m = m, !.i = i, !.kind = kind,
                                        !.router = router, !.t = x.id, !.record = record,
                                        !.ids = others])
      BY <1>10 DEF CallCreateProducer
    <3>2. PICK others \in {{}, RoutersOfMeeting(m) \ {router}} :
             Begin(r, "cp_lock", [NoCall EXCEPT !.p = p, !.m = m, !.i = i, !.kind = kind,
                                     !.router = router, !.t = x.id, !.record = record,
                                     !.ids = others])
      BY <3>1
    <3>3. others \in SUBSET RoutersOfMeeting(m)
      OBVIOUS
    <3> QED
      BY <3>2, <3>3
  <2>2. /\ router \in Routers /\ others \in SUBSET Routers
        /\ x.id \in Transports /\ record \in BOOLEAN
    BY <1>3 DEF SfuAssumption, DataOK, TransportInMemory
  <2> DEFINE c == [NoCall EXCEPT !.p = p, !.m = m, !.i = i, !.kind = kind,
                                 !.router = router, !.t = x.id, !.record = record, !.ids = others]
  <2>3. c \in Calls
    BY <2>2, NoCallType DEF Calls
  <2>4. StepTyped("cp_lock", c, local[r])
    BY <2>2 DEF StepTyped, NoCall
  <2> QED
    BY <1>1, <2>1, <2>3, <2>4 DEF Starts
<1>11. ASSUME NEW p \in Participants, NEW i \in Instances, CallCloseProducer(r, p, m, i)
       PROVE  DataOK' /\ ControlOK'
  <2>1. PICK x \in producer_map :
           Begin(r, "cl_delete", [NoCall EXCEPT !.p = p, !.m = m, !.i = i, !.ids = {x.id}])
    BY <1>11 DEF CallCloseProducer
  <2>2. x.id \in ProducerIds
    BY DEF DataOK, ProducerInMemory
  <2> DEFINE c == [NoCall EXCEPT !.p = p, !.m = m, !.i = i, !.ids = {x.id}]
  <2>3. c \in Calls
    BY <2>2, NoCallType DEF Calls
  <2>4. StepTyped("cl_delete", c, local[r])
    BY DEF StepTyped, NoCall
  <2> QED
    BY <1>1, <2>1, <2>3, <2>4 DEF Starts
<1>12. ASSUME NEW p \in Participants, NEW i \in Instances, CallCreateConsumer(r, p, m, i)
       PROVE  DataOK' /\ ControlOK'
  <2>1. PICK W \in Requested(p, m), x \in transport_map :
           Begin(r, "cc_transport", [NoCall EXCEPT !.p = p, !.m = m, !.i = i,
                                                   !.t = x.id, !.want = W])
    BY <1>12 DEF CallCreateConsumer
  <2>2. x.id \in Transports
    BY DEF DataOK, TransportInMemory
  <2>3. W \in SUBSET Wants
    <3>1. Offers(p, m) \subseteq Wants
      BY DEF Offers, Wants, ProducersOfMeeting, DataOK, Databases, ParticipantProducers
    <3> QED
      BY <3>1 DEF Requested
  <2> DEFINE c == [NoCall EXCEPT !.p = p, !.m = m, !.i = i, !.t = x.id, !.want = W]
  <2>4. c \in Calls
    BY <2>2, <2>3, NoCallType DEF Calls
  <2>5. StepTyped("cc_transport", c, local[r])
    BY <2>2 DEF StepTyped, NoCall
  <2> QED
    BY <1>1, <2>1, <2>4, <2>5 DEF Starts
<1>13. ASSUME NEW p \in Participants, NEW i \in Instances, CallCloseConsumer(r, p, m, i)
       PROVE  DataOK' /\ ControlOK'
  <2>1. PICK x \in consumer_map :
           Begin(r, "cz_delete", [NoCall EXCEPT !.p = p, !.m = m, !.i = i, !.ids = {x.id}])
    BY <1>13 DEF CallCloseConsumer
  <2>2. x.id \in ConsumerIds
    BY DEF DataOK, ConsumerInMemory
  <2> DEFINE c == [NoCall EXCEPT !.p = p, !.m = m, !.i = i, !.ids = {x.id}]
  <2>3. c \in Calls
    BY <2>2, NoCallType DEF Calls
  <2>4. StepTyped("cz_delete", c, local[r])
    BY DEF StepTyped, NoCall
  <2> QED
    BY <1>1, <2>1, <2>3, <2>4 DEF Starts
<1> QED
  BY <1>2, <1>5, <1>6, <1>7, <1>8, <1>9, <1>10, <1>11, <1>12, <1>13

\* A process that starts is idle and holds no lock.
LEMMA InitStep ==
  ASSUME Init
  PROVE  IInv
<1>1. /\ lock_map \in [LockKeys -> Requests \cup {None}]
      /\ pc \in [Requests -> Steps]
      /\ call \in [Requests -> Calls]
      /\ local \in [Requests -> Locals]
  BY NoCallType, NoLocalType DEF Init, Steps, Unlocked
<1>2. \A r \in Requests : pc[r] = "idle"
  BY DEF Init
<1>3. \A r \in Requests : StepTyped(pc[r], call[r], local[r])
  BY <1>2 DEF StepTyped, RecreateSteps, ProduceSteps, LeaveSteps, ConsumeSteps, CloseSteps,
              ParticipantLocked, MeetingLocked, Producing
<1>4. \A r \in Requests : Held(pc[r], call[r]) = {}
  BY <1>2 DEF Held, ParticipantLocked, MeetingLocked, Producing
<1>5. \A r \in Requests : {k \in LockKeys : lock_map[k] = r} = {}
  BY NoneIsNoRequest DEF Init
<1>6. LockDiscipline
  BY <1>4, <1>5 DEF LockDiscipline, Held
<1>7. DataOK
  BY EmptyDatabaseType DEF Init, DataOK
<1>8. NoneWhileProducing /\ OneProducerPerKind
  BY <1>2 DEF Init, NoneWhileProducing, Producing, OneProducerPerKind
<1> QED
  BY <1>1, <1>3, <1>6, <1>7, <1>8 DEF ControlOK, IInv

\* So is a process that starts again.
LEMMA RestartStep ==
  ASSUME IInv, Restart
  PROVE  IInv'
<1>1. /\ lock_map' \in [LockKeys -> Requests \cup {None}]
      /\ pc' \in [Requests -> Steps]
      /\ call' \in [Requests -> Calls]
      /\ local' \in [Requests -> Locals]
  BY NoCallType, NoLocalType DEF Restart, Steps, Unlocked
<1>2. \A r \in Requests : pc'[r] = "idle"
  BY DEF Restart
<1>3. \A r \in Requests : StepTyped(pc'[r], call'[r], local'[r])
  BY <1>2 DEF StepTyped, RecreateSteps, ProduceSteps, LeaveSteps, ConsumeSteps, CloseSteps,
              ParticipantLocked, MeetingLocked, Producing
<1>4. \A r \in Requests : Held(pc'[r], call'[r]) = {}
  BY <1>2 DEF Held, ParticipantLocked, MeetingLocked, Producing
<1>5. \A r \in Requests : {k \in LockKeys : lock_map'[k] = r} = {}
  BY NoneIsNoRequest DEF Restart
<1>6. LockDiscipline'
  BY <1>4, <1>5 DEF LockDiscipline, Held
<1>7. DataOK'
  BY DEF Restart, DataOK, IInv
<1>8. NoneWhileProducing' /\ OneProducerPerKind'
  BY <1>2 DEF Restart, NoneWhileProducing, Producing, OneProducerPerKind
<1> QED
  BY <1>1, <1>3, <1>6, <1>7, <1>8 DEF ControlOK, IInv

-----------------------------------------------------------------------------
(* One producer per kind: the meeting's mutex keeps the search of              *)
(* create_producer and its insertion together.                                 *)

\* No create_producer has passed its search in this step.
KeepsProducing ==
    \A q \in Requests : pc'[q] \in Producing => pc[q] \in Producing /\ call'[q] = call[q]

\* A request that goes on to another step puts no other request past the search of create_producer.
LEMMA ContinueKeeps ==
  ASSUME ControlOK, NEW r \in Requests, NEW step, NEW vals, Continue(r, step, vals),
         step \in Producing => pc[r] \in Producing
  PROVE  KeepsProducing
  BY DEF ControlOK, Continue, KeepsProducing

\* Nor does a request that ends, ...
LEMMA DoneKeeps ==
  ASSUME ControlOK, NEW r \in Requests, Done(r)
  PROVE  KeepsProducing
  BY DEF ControlOK, Done, KeepsProducing, Producing

\* ... one that acquires a mutex, ...
LEMMA AcquireKeeps ==
  ASSUME ControlOK, NEW r \in Requests, NEW key, NEW step, Acquire(r, key, step),
         step \notin Producing
  PROVE  KeepsProducing
  BY DEF ControlOK, Acquire, KeepsProducing

\* ... or one that arrives, which adds no producer either.
LEMMA BeginKeeps ==
  ASSUME ControlOK, NEW r \in Requests, NEW step, NEW c, Begin(r, step, c),
         step \notin Producing
  PROVE  producer_map' \subseteq producer_map /\ KeepsProducing
  BY DEF ControlOK, Begin, KeepsProducing, memory

\* The handlers of meetings add no producer.
LEMMA MeetingKeeps ==
  ASSUME ControlOK, NEW r \in Requests, 
         CreateMeeting(r) \/ ReplaceMeeting(r) \/ PublishRouters(r) \/ EndMeeting(r)
  PROVE  producer_map' \subseteq producer_map /\ KeepsProducing
<1> USE DEF Producing
<1>1. CASE CreateRouters(r, "cm_routers", "cm_register")
  BY <1>1, ContinueKeeps, DoneKeeps DEF CreateRouters, memory
<1>2. CASE CreateRouters(r, "rm_routers", "rm_register")
  BY <1>2, ContinueKeeps, DoneKeeps DEF CreateRouters, memory
<1>3. CASE RegisterRouters(r, "cm_register", CreateMeetingTx(db, call[r].m, local[r].routers))
  BY <1>3, ContinueKeeps, DoneKeeps DEF RegisterRouters, memory
<1>4. CASE RegisterRouters(r, "rm_register", ReplaceMeetingTx(db, call[r].m, local[r].routers))
  BY <1>4, ContinueKeeps, DoneKeeps DEF RegisterRouters, memory
<1>5. CASE PublishRouters(r)
  BY <1>5, ContinueKeeps, DoneKeeps DEF PublishRouters
<1>6. CASE EndDelete(r)
  BY <1>6, ContinueKeeps, DoneKeeps DEF EndDelete, memory
<1>7. CASE EndRouters(r)
  BY <1>7, ContinueKeeps, DoneKeeps DEF EndRouters
<1>8. CASE EndTransports(r)
  BY <1>8, ContinueKeeps, DoneKeeps DEF EndTransports
<1>9. CASE EndReadConsumers(r)
  BY <1>9, ContinueKeeps, DoneKeeps DEF EndReadConsumers, memory
<1>10. CASE EndCloseConsumers(r)
  BY <1>10, ContinueKeeps, DoneKeeps DEF EndCloseConsumers
<1>11. CASE EndReadProducers(r)
  BY <1>11, ContinueKeeps, DoneKeeps DEF EndReadProducers, memory
<1>12. CASE EndCloseProducers(r)
  BY <1>12, ContinueKeeps, DoneKeeps DEF EndCloseProducers, close_all_producers_in_memory
<1>13. CASE EndCloseProducersPanics(r)
  BY <1>13, ContinueKeeps, DoneKeeps DEF EndCloseProducersPanics
<1> QED
  BY <1>1, <1>2, <1>3, <1>4, <1>5, <1>6, <1>7, <1>8, <1>9, <1>10, <1>11, <1>12, <1>13
     DEF CreateMeeting, ReplaceMeeting, EndMeeting

\* Neither do those of participants.
LEMMA ParticipantKeeps ==
  ASSUME ControlOK, NEW r \in Requests, RecreateTransport(r) \/ LeaveMeeting(r)
  PROVE  producer_map' \subseteq producer_map /\ KeepsProducing
<1> USE DEF Producing
<1>1. CASE RecreateLock(r)
  BY <1>1, ContinueKeeps, DoneKeeps, AcquireKeeps DEF RecreateLock, Acquire, memory
<1>2. CASE RecreateJoin(r)
  BY <1>2, ContinueKeeps, DoneKeeps DEF RecreateJoin, memory
<1>3. CASE RecreateReadOwn(r)
  BY <1>3, ContinueKeeps, DoneKeeps DEF RecreateReadOwn, memory
<1>4. CASE RecreateCloseOwn(r)
  BY <1>4, ContinueKeeps, DoneKeeps DEF RecreateCloseOwn
<1>5. CASE RecreateReadProducers(r)
  BY <1>5, ContinueKeeps, DoneKeeps DEF RecreateReadProducers, memory
<1>6. CASE RecreateReadDependents(r)
  BY <1>6, ContinueKeeps, DoneKeeps DEF RecreateReadDependents, memory
<1>7. CASE RecreateCloseProducers(r)
  BY <1>7, ContinueKeeps, DoneKeeps DEF RecreateCloseProducers, close_all_producers_in_memory
<1>8. CASE RecreateCloseDependents(r)
  BY <1>8, ContinueKeeps, DoneKeeps DEF RecreateCloseDependents
<1>9. CASE RecreateCreate(r)
  BY <1>9, ContinueKeeps, DoneKeeps DEF RecreateCreate, memory
<1>10. CASE RecreateRegister(r)
  BY <1>10, ContinueKeeps, DoneKeeps DEF RecreateRegister, memory
<1>11. CASE RecreatePublish(r)
  BY <1>11, ContinueKeeps, DoneKeeps DEF RecreatePublish
<1>12. CASE RecreateExisting(r)
  BY <1>12, ContinueKeeps, DoneKeeps DEF RecreateExisting, memory
<1>13. CASE RecreateReply(r)
  BY <1>13, ContinueKeeps, DoneKeeps DEF RecreateReply, memory
<1>14. CASE LeaveDelete(r)
  BY <1>14, ContinueKeeps, DoneKeeps DEF LeaveDelete, memory
<1>15. CASE LeaveTransports(r)
  BY <1>15, ContinueKeeps, DoneKeeps DEF LeaveTransports
<1>16. CASE LeaveReadOwn(r)
  BY <1>16, ContinueKeeps, DoneKeeps DEF LeaveReadOwn, memory
<1>17. CASE LeaveCloseOwn(r)
  BY <1>17, ContinueKeeps, DoneKeeps DEF LeaveCloseOwn
<1>18. CASE LeaveReadProducers(r)
  BY <1>18, ContinueKeeps, DoneKeeps DEF LeaveReadProducers, memory
<1>19. CASE LeaveCloseProducers(r)
  BY <1>19, ContinueKeeps, DoneKeeps DEF LeaveCloseProducers, close_all_producers_in_memory
<1>20. CASE LeaveReadDependents(r)
  BY <1>20, ContinueKeeps, DoneKeeps DEF LeaveReadDependents, memory
<1>21. CASE LeaveCloseDependents(r)
  BY <1>21, ContinueKeeps, DoneKeeps DEF LeaveCloseDependents
<1> QED
  BY <1>1, <1>2, <1>3, <1>4, <1>5, <1>6, <1>7, <1>8, <1>9, <1>10, <1>11, <1>12, <1>13, <1>14, <1>15, <1>16, <1>17, <1>18, <1>19, <1>20, <1>21
     DEF RecreateTransport, LeaveMeeting

\* Neither do createConsumer, closeConsumer and closeProducer.
LEMMA ConsumerKeeps ==
  ASSUME ControlOK, NEW r \in Requests, 
         CreateConsumer(r) \/ CloseConsumer(r) \/ CloseProducer(r)
  PROVE  producer_map' \subseteq producer_map /\ KeepsProducing
<1> USE DEF Producing
<1>1. CASE ConsumeOnTransport(r)
  BY <1>1, ContinueKeeps, DoneKeeps DEF ConsumeOnTransport, memory
<1>2. CASE ConsumeSnapshot(r)
  BY <1>2, ContinueKeeps, DoneKeeps DEF ConsumeSnapshot, memory
<1>3. CASE ConsumeReuse(r)
  BY <1>3, ContinueKeeps, DoneKeeps DEF ConsumeReuse, memory
<1>4. CASE ConsumeNew(r)
  BY <1>4, ContinueKeeps, DoneKeeps DEF ConsumeNew, memory
<1>5. CASE ConsumeFails(r)
  BY <1>5, ContinueKeeps, DoneKeeps DEF ConsumeFails, memory
<1>6. CASE ConsumeRegister(r)
  BY <1>6, ContinueKeeps, DoneKeeps DEF ConsumeRegister, memory
<1>7. CASE ConsumePublish(r)
  BY <1>7, ContinueKeeps, DoneKeeps DEF ConsumePublish
<1>8. CASE CloseConsumerDelete(r)
  BY <1>8, ContinueKeeps, DoneKeeps DEF CloseConsumerDelete, memory
<1>9. CASE CloseConsumerInMemory(r)
  BY <1>9, ContinueKeeps, DoneKeeps DEF CloseConsumerInMemory
<1>10. CASE CloseProducerDelete(r)
  BY <1>10, ContinueKeeps, DoneKeeps DEF CloseProducerDelete, memory
<1>11. CASE CloseProducerInMemory(r)
  BY <1>11, ContinueKeeps, DoneKeeps DEF CloseProducerInMemory, close_all_producers_in_memory
<1> QED
  BY <1>1, <1>2, <1>3, <1>4, <1>5, <1>6, <1>7, <1>8, <1>9, <1>10, <1>11
     DEF CreateConsumer, CloseConsumer, CloseProducer

\* Nor do the steps of createProducer but its search and its insertion.
LEMMA ProducerKeeps ==
  ASSUME ControlOK, NEW r \in Requests, 
         CreateProducer(r), ~ProduceCheck(r), ~ProducePublish(r)
  PROVE  producer_map' \subseteq producer_map /\ KeepsProducing
<1> USE DEF Producing
<1>1. CASE ProduceLock(r)
  BY <1>1, ContinueKeeps, DoneKeeps, AcquireKeeps DEF ProduceLock, Acquire, memory
<1>2. CASE ProduceOnTransport(r)
  BY <1>2, ContinueKeeps, DoneKeeps DEF ProduceOnTransport, memory
<1>3. CASE ProduceRouters(r)
  BY <1>3, ContinueKeeps, DoneKeeps DEF ProduceRouters, memory
<1>4. CASE ProduceRegister(r)
  BY <1>4, ContinueKeeps, DoneKeeps DEF ProduceRegister, memory
<1>5. CASE ProducePlain(r)
  BY <1>5, ContinueKeeps, DoneKeeps DEF ProducePlain
<1>6. CASE ProducePlainConsumer(r)
  BY <1>6, ContinueKeeps, DoneKeeps DEF ProducePlainConsumer
<1>7. CASE ProducePipeline(r)
  BY <1>7, ContinueKeeps, DoneKeeps DEF ProducePipeline
<1> QED
  BY <1>1, <1>2, <1>3, <1>4, <1>5, <1>6, <1>7
     DEF CreateProducer

\* A call that arrives adds no producer and is not past the search of create_producer.
LEMMA CallKeeps ==
  ASSUME ControlOK, NEW r \in Requests, Call(r)
  PROVE  producer_map' \subseteq producer_map /\ KeepsProducing
<1> DEFINE Kept == producer_map' \subseteq producer_map /\ KeepsProducing
<1> USE DEF Producing
<1>1. \A m : CallCreateMeeting(r, m) \/ CallReplaceMeeting(r, m) \/ CallEndMeeting(r, m) => Kept
  BY BeginKeeps DEF CallCreateMeeting, CallReplaceMeeting, CallEndMeeting
<1>2. \A p, m, i, kind : CallRecreate(r, p, m, i, kind) => Kept
  BY BeginKeeps DEF CallRecreate
<1>3. \A p, m, i : CallLeave(r, p, m, i) => Kept
  BY BeginKeeps DEF CallLeave
<1>4. \A p, m, i : CallCreateProducer(r, p, m, i) => Kept
  BY BeginKeeps DEF CallCreateProducer
<1>5. \A p, m, i : CallCloseProducer(r, p, m, i) => Kept
  BY BeginKeeps DEF CallCloseProducer
<1>6. \A p, m, i : CallCreateConsumer(r, p, m, i) => Kept
  BY BeginKeeps DEF CallCreateConsumer
<1>7. \A p, m, i : CallCloseConsumer(r, p, m, i) => Kept
  BY BeginKeeps DEF CallCloseConsumer
<1> HIDE DEF Kept
<1>8. Kept
  BY <1>1, <1>2, <1>3, <1>4, <1>5, <1>6, <1>7 DEF Call
<1> QED
  BY <1>8 DEF Kept

\* Removing producers cannot break the invariants.
LEMMA KeepsInvariants ==
  ASSUME IInv, producer_map' \subseteq producer_map, KeepsProducing
  PROVE  NoneWhileProducing' /\ OneProducerPerKind'
<1>1. OneProducerPerKind'
  BY DEF IInv, OneProducerPerKind
<1>2. NoneWhileProducing'
  <2> SUFFICES ASSUME NEW q \in Requests, pc'[q] \in Producing
               PROVE  ProducerOf(call[q].m, call[q].p, call[q].kind)' = {}
    BY DEF NoneWhileProducing
  <2>1. pc[q] \in Producing /\ call'[q] = call[q]
    BY DEF KeepsProducing
  <2> QED
    BY <2>1 DEF IInv, NoneWhileProducing, ProducerOf
<1> QED
  BY <1>1, <1>2

\* The search: create_producer goes on only if there is none.
LEMMA CheckInvariants ==
  ASSUME IInv, NEW r \in Requests, ProduceCheck(r)
  PROVE  NoneWhileProducing' /\ OneProducerPerKind'
<1>1. CASE Done(r)
  BY <1>1, DoneKeeps, KeepsInvariants DEF ProduceCheck, IInv, memory
<1>2. CASE /\ ProducerOf(call[r].m, call[r].p, call[r].kind) = {}
           /\ Continue(r, "cp_produce", local[r])
  <2>1. producer_map' = producer_map /\ call' = call /\ pc' = [pc EXCEPT ![r] = "cp_produce"]
    BY <1>2 DEF ProduceCheck, Continue, memory
  <2>2. OneProducerPerKind'
    BY <2>1 DEF IInv, OneProducerPerKind
  <2>3. NoneWhileProducing'
    <3> SUFFICES ASSUME NEW q \in Requests, pc'[q] \in Producing
                 PROVE  ProducerOf(call[q].m, call[q].p, call[q].kind)' = {}
      BY DEF NoneWhileProducing
    <3>1. q = r \/ pc[q] \in Producing
      BY <2>1 DEF IInv, ControlOK
    <3> QED
      BY <1>2, <2>1, <3>1 DEF IInv, NoneWhileProducing, ProducerOf
  <2> QED
    BY <2>2, <2>3
<1> QED
  BY <1>1, <1>2 DEF ProduceCheck

\* The insertion: every other create_producer past its search is in another meeting,
\* for it holds that meeting's mutex.
LEMMA PublishInvariants ==
  ASSUME IInv, NEW r \in Requests, ProducePublish(r)
  PROVE  NoneWhileProducing' /\ OneProducerPerKind'
<1> DEFINE new == [id |-> local[r].producer, m |-> call[r].m, p |-> call[r].p,
                   kind |-> call[r].kind, i |-> call[r].i]
<1>1. /\ pc[r] = "cp_publish" /\ producer_map' = producer_map \cup {new}
      /\ \/ Continue(r, "cp_plain", local[r])
         \/ Done(r)
  BY DEF ProducePublish
<1>2. /\ new.m = call[r].m /\ new.p = call[r].p /\ new.kind = call[r].kind
  OBVIOUS
<1> HIDE DEF new
<1>3. \A x \in producer_map : ~(x.m = new.m /\ x.p = new.p /\ x.kind = new.kind)
  BY <1>1, <1>2 DEF IInv, NoneWhileProducing, ProducerOf, Producing
<1>4. OneProducerPerKind'
  BY <1>1, <1>3 DEF IInv, OneProducerPerKind
<1>5. NoneWhileProducing'
  <2> SUFFICES ASSUME NEW q \in Requests, pc'[q] \in Producing
               PROVE  ProducerOf(call[q].m, call[q].p, call[q].kind)' = {}
    BY DEF NoneWhileProducing
  <2>1. q # r /\ pc[q] \in Producing /\ call'[q] = call[q]
    <3>1. pc'[r] \notin Producing
      BY <1>1 DEF IInv, ControlOK, Continue, Done, Producing
    <3>2. KeepsProducing
      BY <1>1, ContinueKeeps, DoneKeeps DEF IInv, Producing
    <3> QED
      BY <3>1, <3>2 DEF KeepsProducing
  <2>2. call[q].m \in {k \in LockKeys : lock_map[k] = q}
    <3>1. Held(pc[q], call[q]) = {call[q].m}
      BY <2>1 DEF Held, MeetingLocked, Producing, ParticipantLocked
    <3> QED
      BY <3>1 DEF IInv, ControlOK, LockDiscipline
  <2>3. call[r].m \in {k \in LockKeys : lock_map[k] = r}
    <3>1. Held(pc[r], call[r]) = {call[r].m}
      BY <1>1 DEF Held, MeetingLocked, Producing, ParticipantLocked
    <3> QED
      BY <3>1 DEF IInv, ControlOK, LockDiscipline
  <2>4. call[q].m # new.m
    BY <1>2, <2>1, <2>2, <2>3
  <2> QED
    BY <1>1, <2>1, <2>4 DEF IInv, NoneWhileProducing, ProducerOf
<1> QED
  BY <1>4, <1>5

-----------------------------------------------------------------------------
(* Invariance *)

\* Every step of the system preserves the inductive invariant.
LEMMA NextStep ==
  ASSUME IInv, [Next]_vars
  PROVE  IInv'
<1>1. DataOK /\ ControlOK
  BY DEF IInv
<1>2. CASE UNCHANGED vars
  BY <1>2 DEF vars, memory, recordings, IInv, DataOK, ControlOK, NoneWhileProducing,
              OneProducerPerKind, LockDiscipline, Held, ProducerOf
<1>3. CASE Restart
  BY <1>3, RestartStep
<1>4. ASSUME NEW r \in Requests, Call(r)
      PROVE  IInv'
  BY <1>1, <1>4, CallStep, CallKeeps, KeepsInvariants DEF IInv
<1>5. ASSUME NEW r \in Requests, Step(r)
      PROVE  IInv'
  <2>1. CASE CreateMeeting(r) \/ ReplaceMeeting(r) \/ PublishRouters(r) \/ EndMeeting(r)
    BY <1>1, <2>1, MeetingStep, MeetingKeeps, KeepsInvariants DEF IInv
  <2>2. CASE RecreateTransport(r)
    BY <1>1, <2>2, RecreateStep, ParticipantKeeps, KeepsInvariants DEF IInv
  <2>3. CASE LeaveMeeting(r)
    BY <1>1, <2>3, LeaveStep, ParticipantKeeps, KeepsInvariants DEF IInv
  <2>4. CASE CreateConsumer(r) \/ CloseConsumer(r)
    BY <1>1, <2>4, ConsumeStep, ConsumerKeeps, KeepsInvariants DEF IInv
  <2>5. CASE CloseProducer(r)
    BY <1>1, <2>5, ProduceStep, ConsumerKeeps, KeepsInvariants DEF IInv
  <2>6. CASE CreateProducer(r)
    <3>1. DataOK' /\ ControlOK'
      BY <1>1, <2>6, ProduceStep
    <3>2. NoneWhileProducing' /\ OneProducerPerKind'
      BY <1>1, <2>6, ProducerKeeps, KeepsInvariants, CheckInvariants, PublishInvariants
    <3> QED
      BY <3>1, <3>2 DEF IInv
  <2> QED
    BY <1>5, <2>1, <2>2, <2>3, <2>4, <2>5, <2>6 DEF Step
<1> QED
  BY <1>2, <1>3, <1>4, <1>5 DEF Next

\* The inductive invariant holds in every reachable state.
THEOREM Invariance == Spec => []IInv
  BY InitStep, NextStep, PTL DEF Spec

\* Whatever the callers call, the handlers interleave, fail or panic, and whenever
\* the process restarts, the tables, the maps and the requests are well typed: no
\* handler goes on without an argument or a local variable it needs.
THEOREM TypeCorrectness == Spec => []TypeOK
<1>1. IInv => TypeOK
  BY DEF IInv, DataOK, ControlOK, TypeOK
<1> QED
  BY <1>1, Invariance, PTL

\* The mutex of a participant or a meeting is held exactly by the recreate helper or
\* the create_producer that is between its lock().await and its return.
THEOREM LocksAreReleased == Spec => []LockDiscipline
<1>1. IInv => LockDiscipline
  BY DEF IInv, ControlOK
<1> QED
  BY <1>1, Invariance, PTL

\* For any number of concurrent requests, participants, instances and meetings,
\* producer_map holds at most one producer of each kind per participant and meeting.
THEOREM ProducersAreUnique == Spec => []OneProducerPerKind
<1>1. IInv => OneProducerPerKind
  BY DEF IInv
<1> QED
  BY <1>1, Invariance, PTL
=============================================================================
