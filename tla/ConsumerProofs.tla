--------------------------- MODULE ConsumerProofs ---------------------------
(***************************************************************************)
(* One consumer of each kind of each target per instance, proved for every *)
(* set of meetings, participants, instances, identifiers and requests, of  *)
(* callers that await a reply before their next call.                      *)
(***************************************************************************)
EXTENDS SfuProofs

-----------------------------------------------------------------------------
(* The inductive invariant *)

\* Two entries, or an entry and a request for one, of one kind of one target.
SameTarget(x, y) == x.target = y.target /\ x.kind = y.kind

\* Consumer x belongs to the instance that made call c.
OfCaller(x, c) == x.m = c.m /\ x.p = c.p /\ x.i = c.i

\* A create_consumer has its snapshot of the shard.
Snapshot == {"cc_consume", "cc_publish"}

\* No two create_consumer requests of one instance are in progress.
OneCallPerInstance ==
    \A r, q \in Requests :
       /\ pc[r] \in ConsumeSteps /\ pc[q] \in ConsumeSteps
       /\ call[r].p = call[q].p /\ call[r].i = call[q].i
       => r = q

\* target_participants is a map, of which the loop has some entries left, and
\* nothing is made before the loop.
LoopStarts(r) ==
    /\ pc[r] \in ConsumeSteps => \A v, w \in call[r].want : SameTarget(v, w) => v = w
    /\ pc[r] \in {"cc_shard"} \cup Snapshot => local[r].want \subseteq call[r].want
    /\ pc[r] \in {"idle", "cc_transport", "cc_shard"} => local[r].made = {}

\* The snapshot is not stale: every consumer of the instance in consumer_map is in it.
SnapshotIsComplete(r) ==
    pc[r] \in Snapshot => \A x \in consumer_map : OfCaller(x, call[r]) => x \in local[r].seen

\* What the loop has made belongs to the caller and duplicates nothing: no entry of
\* the snapshot, nothing still to be made and nothing else it has made.
MadeIsNew(r) ==
    pc[r] \in Snapshot =>
       \A x \in local[r].made :
          /\ OfCaller(x, call[r])
          /\ \A y \in local[r].seen : ~SameTarget(x, y)
          /\ \A w \in local[r].want : ~SameTarget(x, w)
          /\ \A y \in local[r].made : SameTarget(x, y) => x = y

ConsumerInv ==
    /\ OneCallPerInstance
    /\ \A r \in Requests : LoopStarts(r) /\ SnapshotIsComplete(r) /\ MadeIsNew(r)
    /\ OneConsumerPerTarget

-----------------------------------------------------------------------------
(* The steps that are not create_consumer's add no consumer, and leave every   *)
(* create_consumer where it is or end it.                                      *)

LeavesConsuming ==
    \A q \in Requests :
       \/ pc'[q] = pc[q] /\ call'[q] = call[q] /\ local'[q] = local[q]
       \/ pc'[q] = "idle" /\ local'[q] = NoLocal
       \/ pc'[q] \notin ConsumeSteps \cup {"idle"}

\* A request that goes on to a step of another handler, ...
LEMMA ContinueLeaves ==
  ASSUME ControlOK, NEW r \in Requests, NEW step, NEW vals, Continue(r, step, vals),
         step \notin ConsumeSteps \cup {"idle"}
  PROVE  LeavesConsuming
  BY DEF ControlOK, Continue, LeavesConsuming

\* ... one that ends, ...
LEMMA DoneLeaves ==
  ASSUME ControlOK, NEW r \in Requests, Done(r)
  PROVE  LeavesConsuming
  BY DEF ControlOK, Done, LeavesConsuming

\* ... one that acquires a mutex, ...
LEMMA AcquireLeaves ==
  ASSUME ControlOK, NEW r \in Requests, NEW key, NEW step, Acquire(r, key, step),
         step \notin ConsumeSteps \cup {"idle"}
  PROVE  LeavesConsuming
  BY DEF ControlOK, Acquire, LeavesConsuming

\* ... and one that arrives leave every create_consumer alone.
LEMMA BeginLeaves ==
  ASSUME ControlOK, NEW r \in Requests, NEW step, NEW c, Begin(r, step, c),
         step \notin ConsumeSteps \cup {"idle"}
  PROVE  consumer_map' \subseteq consumer_map /\ LeavesConsuming
  BY DEF ControlOK, Begin, LeavesConsuming, memory

\* The handlers of meetings add no consumer.
LEMMA MeetingLeaves ==
  ASSUME ControlOK, NEW r \in Requests,
         CreateMeeting(r) \/ ReplaceMeeting(r) \/ PublishRouters(r) \/ EndMeeting(r)
  PROVE  consumer_map' \subseteq consumer_map /\ LeavesConsuming
<1> USE DEF ConsumeSteps
<1>1. CASE CreateRouters(r, "cm_routers", "cm_register")
  BY <1>1, ContinueLeaves, DoneLeaves DEF CreateRouters, memory
<1>2. CASE CreateRouters(r, "rm_routers", "rm_register")
  BY <1>2, ContinueLeaves, DoneLeaves DEF CreateRouters, memory
<1>3. CASE RegisterRouters(r, "cm_register", CreateMeetingTx(db, call[r].m, local[r].routers))
  BY <1>3, ContinueLeaves, DoneLeaves DEF RegisterRouters, memory
<1>4. CASE RegisterRouters(r, "rm_register", ReplaceMeetingTx(db, call[r].m, local[r].routers))
  BY <1>4, ContinueLeaves, DoneLeaves DEF RegisterRouters, memory
<1>5. CASE PublishRouters(r)
  BY <1>5, ContinueLeaves, DoneLeaves DEF PublishRouters
<1>6. CASE EndDelete(r)
  BY <1>6, ContinueLeaves, DoneLeaves DEF EndDelete, memory
<1>7. CASE EndRouters(r)
  BY <1>7, ContinueLeaves, DoneLeaves DEF EndRouters
<1>8. CASE EndTransports(r)
  BY <1>8, ContinueLeaves, DoneLeaves DEF EndTransports
<1>9. CASE EndReadConsumers(r)
  BY <1>9, ContinueLeaves, DoneLeaves DEF EndReadConsumers, memory
<1>10. CASE EndCloseConsumers(r)
  BY <1>10, ContinueLeaves, DoneLeaves DEF EndCloseConsumers, close_all_consumers_in_memory
<1>11. CASE EndReadProducers(r)
  BY <1>11, ContinueLeaves, DoneLeaves DEF EndReadProducers, memory
<1>12. CASE EndCloseProducers(r)
  BY <1>12, ContinueLeaves, DoneLeaves DEF EndCloseProducers, close_all_producers_in_memory
<1>13. CASE EndCloseProducersPanics(r)
  BY <1>13, ContinueLeaves, DoneLeaves DEF EndCloseProducersPanics
<1> QED
  BY <1>1, <1>2, <1>3, <1>4, <1>5, <1>6, <1>7, <1>8, <1>9, <1>10, <1>11, <1>12, <1>13
     DEF CreateMeeting, ReplaceMeeting, EndMeeting

\* Neither do those of participants.
LEMMA ParticipantLeaves ==
  ASSUME ControlOK, NEW r \in Requests, RecreateTransport(r) \/ LeaveMeeting(r)
  PROVE  consumer_map' \subseteq consumer_map /\ LeavesConsuming
<1> USE DEF ConsumeSteps
<1>1. CASE RecreateLock(r)
  BY <1>1, ContinueLeaves, DoneLeaves, AcquireLeaves DEF RecreateLock, Acquire, memory
<1>2. CASE RecreateJoin(r)
  BY <1>2, ContinueLeaves, DoneLeaves DEF RecreateJoin, memory
<1>3. CASE RecreateReadOwn(r)
  BY <1>3, ContinueLeaves, DoneLeaves DEF RecreateReadOwn, memory
<1>4. CASE RecreateCloseOwn(r)
  BY <1>4, ContinueLeaves, DoneLeaves DEF RecreateCloseOwn, close_all_consumers_in_memory
<1>5. CASE RecreateReadProducers(r)
  BY <1>5, ContinueLeaves, DoneLeaves DEF RecreateReadProducers, memory
<1>6. CASE RecreateReadDependents(r)
  BY <1>6, ContinueLeaves, DoneLeaves DEF RecreateReadDependents, memory
<1>7. CASE RecreateCloseProducers(r)
  BY <1>7, ContinueLeaves, DoneLeaves DEF RecreateCloseProducers, close_all_producers_in_memory
<1>8. CASE RecreateCloseDependents(r)
  BY <1>8, ContinueLeaves, DoneLeaves DEF RecreateCloseDependents, close_all_consumers_in_memory
<1>9. CASE RecreateCreate(r)
  BY <1>9, ContinueLeaves, DoneLeaves DEF RecreateCreate, memory
<1>10. CASE RecreateRegister(r)
  BY <1>10, ContinueLeaves, DoneLeaves DEF RecreateRegister, memory
<1>11. CASE RecreatePublish(r)
  BY <1>11, ContinueLeaves, DoneLeaves DEF RecreatePublish
<1>12. CASE RecreateExisting(r)
  BY <1>12, ContinueLeaves, DoneLeaves DEF RecreateExisting, memory
<1>13. CASE RecreateReply(r)
  BY <1>13, ContinueLeaves, DoneLeaves DEF RecreateReply, memory
<1>14. CASE LeaveDelete(r)
  BY <1>14, ContinueLeaves, DoneLeaves DEF LeaveDelete, memory
<1>15. CASE LeaveTransports(r)
  BY <1>15, ContinueLeaves, DoneLeaves DEF LeaveTransports
<1>16. CASE LeaveReadOwn(r)
  BY <1>16, ContinueLeaves, DoneLeaves DEF LeaveReadOwn, memory
<1>17. CASE LeaveCloseOwn(r)
  BY <1>17, ContinueLeaves, DoneLeaves DEF LeaveCloseOwn, close_all_consumers_in_memory
<1>18. CASE LeaveReadProducers(r)
  BY <1>18, ContinueLeaves, DoneLeaves DEF LeaveReadProducers, memory
<1>19. CASE LeaveCloseProducers(r)
  BY <1>19, ContinueLeaves, DoneLeaves DEF LeaveCloseProducers, close_all_producers_in_memory
<1>20. CASE LeaveReadDependents(r)
  BY <1>20, ContinueLeaves, DoneLeaves DEF LeaveReadDependents, memory
<1>21. CASE LeaveCloseDependents(r)
  BY <1>21, ContinueLeaves, DoneLeaves DEF LeaveCloseDependents, close_all_consumers_in_memory
<1> QED
  BY <1>1, <1>2, <1>3, <1>4, <1>5, <1>6, <1>7, <1>8, <1>9, <1>10, <1>11, <1>12, <1>13, <1>14, <1>15, <1>16, <1>17, <1>18, <1>19, <1>20, <1>21
     DEF RecreateTransport, LeaveMeeting

\* Neither do closeConsumer and closeProducer.
LEMMA CloseLeaves ==
  ASSUME ControlOK, NEW r \in Requests, CloseConsumer(r) \/ CloseProducer(r)
  PROVE  consumer_map' \subseteq consumer_map /\ LeavesConsuming
<1> USE DEF ConsumeSteps
<1>1. CASE CloseConsumerDelete(r)
  BY <1>1, ContinueLeaves, DoneLeaves DEF CloseConsumerDelete, memory
<1>2. CASE CloseConsumerInMemory(r)
  BY <1>2, DoneLeaves DEF CloseConsumerInMemory, close_all_consumers_in_memory
<1>3. CASE CloseProducerDelete(r)
  BY <1>3, ContinueLeaves, DoneLeaves DEF CloseProducerDelete, memory
<1>4. CASE CloseProducerInMemory(r)
  BY <1>4, DoneLeaves DEF CloseProducerInMemory
<1> QED
  BY <1>1, <1>2, <1>3, <1>4 DEF CloseConsumer, CloseProducer

\* Neither does createProducer.
LEMMA ProduceLeaves ==
  ASSUME ControlOK, NEW r \in Requests,
         CreateProducer(r)
  PROVE  consumer_map' \subseteq consumer_map /\ LeavesConsuming
<1> USE DEF ConsumeSteps
<1>1. CASE ProduceLock(r)
  BY <1>1, ContinueLeaves, DoneLeaves, AcquireLeaves DEF ProduceLock, Acquire, memory
<1>2. CASE ProduceOnTransport(r)
  BY <1>2, ContinueLeaves, DoneLeaves DEF ProduceOnTransport, memory
<1>3. CASE ProduceRouters(r)
  BY <1>3, ContinueLeaves, DoneLeaves DEF ProduceRouters, memory
<1>4. CASE ProduceRegister(r)
  BY <1>4, ContinueLeaves, DoneLeaves DEF ProduceRegister, memory
<1>5. CASE ProducePlain(r)
  BY <1>5, ContinueLeaves, DoneLeaves DEF ProducePlain
<1>6. CASE ProducePlainConsumer(r)
  BY <1>6, ContinueLeaves, DoneLeaves DEF ProducePlainConsumer
<1>7. CASE ProducePipeline(r)
  BY <1>7, ContinueLeaves, DoneLeaves DEF ProducePipeline
<1>8. CASE ProduceCheck(r)
  BY <1>8, ContinueLeaves, DoneLeaves DEF ProduceCheck, memory
<1>9. CASE ProducePublish(r)
  BY <1>9, ContinueLeaves, DoneLeaves DEF ProducePublish
<1> QED
  BY <1>1, <1>2, <1>3, <1>4, <1>5, <1>6, <1>7, <1>8, <1>9 DEF CreateProducer

\* Neither does a call, but that of createConsumer.
LEMMA CallLeaves ==
  ASSUME ControlOK, NEW r \in Requests, Call(r)
  PROVE  \/ consumer_map' \subseteq consumer_map /\ LeavesConsuming
         \/ \E m \in Meetings, p \in Participants, i \in Instances : CallCreateConsumer(r, p, m, i)
<1> DEFINE Kept == consumer_map' \subseteq consumer_map /\ LeavesConsuming
<1> USE DEF ConsumeSteps
<1>1. \A m : CallCreateMeeting(r, m) \/ CallReplaceMeeting(r, m) \/ CallEndMeeting(r, m) => Kept
  BY BeginLeaves DEF CallCreateMeeting, CallReplaceMeeting, CallEndMeeting
<1>2. \A p, m, i, kind : CallRecreate(r, p, m, i, kind) => Kept
  BY BeginLeaves DEF CallRecreate
<1>3. \A p, m, i : CallLeave(r, p, m, i) => Kept
  BY BeginLeaves DEF CallLeave
<1>4. \A p, m, i : CallCreateProducer(r, p, m, i) => Kept
  BY BeginLeaves DEF CallCreateProducer
<1>5. \A p, m, i : CallCloseProducer(r, p, m, i) => Kept
  BY BeginLeaves DEF CallCloseProducer
<1>6. \A p, m, i : CallCloseConsumer(r, p, m, i) => Kept
  BY BeginLeaves DEF CallCloseConsumer
<1> HIDE DEF Kept
<1>7. Kept \/ \E m \in Meetings, p \in Participants, i \in Instances : CallCreateConsumer(r, p, m, i)
  BY <1>1, <1>2, <1>3, <1>4, <1>5, <1>6 DEF Call
<1> QED
  BY <1>7 DEF Kept

-----------------------------------------------------------------------------
(* The steps of create_consumer *)

\* A step that adds no consumer and leaves create_consumer alone keeps the invariant.
LEMMA LeavesInvariant ==
  ASSUME ConsumerInv, consumer_map' \subseteq consumer_map, LeavesConsuming
  PROVE  ConsumerInv'
<1> USE DEF ConsumeSteps, Snapshot
<1>1. OneConsumerPerTarget'
  BY DEF ConsumerInv, OneConsumerPerTarget
<1>2. \A q \in Requests : pc'[q] \in ConsumeSteps =>
         pc'[q] = pc[q] /\ call'[q] = call[q] /\ local'[q] = local[q]
  BY DEF LeavesConsuming
<1>3. OneCallPerInstance'
  BY <1>2 DEF ConsumerInv, OneCallPerInstance
<1>4. ASSUME NEW q \in Requests
      PROVE  (LoopStarts(q) /\ SnapshotIsComplete(q) /\ MadeIsNew(q))'
  <2>1. CASE pc'[q] = pc[q] /\ call'[q] = call[q] /\ local'[q] = local[q]
    BY <2>1 DEF ConsumerInv, LoopStarts, SnapshotIsComplete, MadeIsNew, SameTarget, OfCaller
  <2>2. CASE pc'[q] = "idle" /\ local'[q] = NoLocal
    BY <2>2 DEF LoopStarts, SnapshotIsComplete, MadeIsNew, NoLocal
  <2>3. CASE pc'[q] \notin ConsumeSteps \cup {"idle"}
    BY <2>3 DEF LoopStarts, SnapshotIsComplete, MadeIsNew
  <2> QED
    BY <2>1, <2>2, <2>3 DEF LeavesConsuming
<1> QED
  BY <1>1, <1>3, <1>4 DEF ConsumerInv

\* A step of request r within create_consumer that changes no map: what is left to
\* show is what it does to r.
LEMMA LoopStep ==
  ASSUME ControlOK, ConsumerInv, NEW r \in Requests, NEW step \in ConsumeSteps, NEW vals,
         pc[r] \in ConsumeSteps, Continue(r, step, vals), consumer_map' = consumer_map,
         (LoopStarts(r) /\ SnapshotIsComplete(r) /\ MadeIsNew(r))'
  PROVE  ConsumerInv'
<1>1. /\ call' = call /\ pc' = [pc EXCEPT ![r] = step] /\ local' = [local EXCEPT ![r] = vals]
      /\ pc \in [Requests -> Steps] /\ local \in [Requests -> Locals]
  BY DEF Continue, ControlOK
<1>2. OneConsumerPerTarget'
  BY DEF ConsumerInv, OneConsumerPerTarget
<1>3. \A q \in Requests : q # r => pc'[q] = pc[q] /\ local'[q] = local[q]
  BY <1>1
<1>4. \A q \in Requests : pc'[q] \in ConsumeSteps => pc[q] \in ConsumeSteps
  BY <1>3
<1>5. OneCallPerInstance'
  BY <1>1, <1>4 DEF ConsumerInv, OneCallPerInstance
<1>6. ASSUME NEW q \in Requests
      PROVE  (LoopStarts(q) /\ SnapshotIsComplete(q) /\ MadeIsNew(q))'
  <2>1. CASE q = r
    BY <2>1
  <2>2. CASE q # r
    BY <2>2, <1>1, <1>3 DEF ConsumerInv, LoopStarts, SnapshotIsComplete, MadeIsNew,
                            SameTarget, OfCaller
  <2> QED
    BY <2>1, <2>2
<1> QED
  BY <1>2, <1>5, <1>6 DEF ConsumerInv

\* The loop's variables are set up from the request, and the snapshot taken from the
\* shard of the meeting holds every consumer of the caller in the meeting.
LEMMA SnapshotStep ==
  ASSUME ControlOK, ConsumerInv, NEW r \in Requests, ConsumeOnTransport(r) \/ ConsumeSnapshot(r)
  PROVE  ConsumerInv'
<1> USE DEF ConsumeSteps, Snapshot
<1>1. local[r] \in Locals /\ pc \in [Requests -> Steps] /\ local \in [Requests -> Locals]
  BY DEF ControlOK
<1>2. LoopStarts(r)
  BY DEF ConsumerInv
<1>3. CASE Done(r)
  BY <1>3, DoneLeaves, LeavesInvariant DEF ConsumeOnTransport, ConsumeSnapshot, memory
<1>4. CASE ConsumeOnTransport(r) /\ ~Done(r)
  <2> DEFINE vals == [local[r] EXCEPT !.want = call[r].want]
  <2>1. pc[r] = "cc_transport" /\ Continue(r, "cc_shard", vals) /\ consumer_map' = consumer_map
    BY <1>4 DEF ConsumeOnTransport, memory
  <2>2. vals.want = call[r].want /\ vals.made = local[r].made
    BY <1>1 DEF Locals
  <2>3. pc'[r] = "cc_shard" /\ call'[r] = call[r] /\ local'[r] = vals
    BY <1>1, <2>1 DEF Continue
  <2>4. (LoopStarts(r) /\ SnapshotIsComplete(r) /\ MadeIsNew(r))'
    BY <1>2, <2>1, <2>2, <2>3 DEF LoopStarts, SnapshotIsComplete, MadeIsNew, SameTarget
  <2> HIDE DEF vals
  <2> QED
    BY <2>1, <2>4, LoopStep
<1>5. CASE ConsumeSnapshot(r)
  <2> DEFINE seen == {x \in Shard(call[r].m) :
                        x.p = call[r].p /\ x.m = call[r].m /\ x.i = call[r].i}
             vals == [local[r] EXCEPT !.seen = seen]
  <2>1. pc[r] = "cc_shard" /\ Continue(r, "cc_consume", vals) /\ consumer_map' = consumer_map
    BY <1>5 DEF ConsumeSnapshot, memory
  <2>2. vals.want = local[r].want /\ vals.made = {} /\ vals.seen = seen
    BY <1>1, <1>2, <2>1 DEF Locals, LoopStarts
  <2>3. pc'[r] = "cc_consume" /\ call'[r] = call[r] /\ local'[r] = vals
    BY <1>1, <2>1 DEF Continue
  <2>4. \A x \in consumer_map : OfCaller(x, call[r]) => x \in seen
    BY DEF OfCaller, Shard
  <2> HIDE DEF vals, seen
  <2>5. (LoopStarts(r) /\ SnapshotIsComplete(r) /\ MadeIsNew(r))'
    BY <1>2, <2>1, <2>2, <2>3, <2>4
       DEF LoopStarts, SnapshotIsComplete, MadeIsNew, SameTarget, OfCaller
  <2> QED
    BY <2>1, <2>5, LoopStep
<1> QED
  BY <1>3, <1>4, <1>5

\* One iteration of the loop: what it makes has no counterpart in the snapshot, and
\* what is left to be made is for other targets or kinds.
LEMMA IterationStep ==
  ASSUME ControlOK, ConsumerInv, NEW r \in Requests,
         ConsumeReuse(r) \/ ConsumeNew(r) \/ ConsumeFails(r) \/ ConsumeRegister(r)
  PROVE  ConsumerInv'
<1> USE DEF ConsumeSteps, Snapshot
<1>1. local[r] \in Locals /\ pc \in [Requests -> Steps] /\ local \in [Requests -> Locals]
  BY DEF ControlOK
<1>2. LoopStarts(r) /\ SnapshotIsComplete(r) /\ MadeIsNew(r)
  BY DEF ConsumerInv
<1>3. pc[r] = "cc_consume" /\ consumer_map' = consumer_map
  BY DEF ConsumeReuse, ConsumeNew, ConsumeFails, ConsumeRegister, memory
<1>4. CASE Done(r)
  BY <1>3, <1>4, DoneLeaves, LeavesInvariant
<1>5. CASE ConsumeReuse(r)
  <2>1. PICK w \in local[r].want :
           Continue(r, "cc_consume", [local[r] EXCEPT !.want = local[r].want \ {w}])
    BY <1>5 DEF ConsumeReuse
  <2> DEFINE vals == [local[r] EXCEPT !.want = local[r].want \ {w}]
  <2>2. /\ vals.want = local[r].want \ {w} /\ vals.made = local[r].made
        /\ vals.seen = local[r].seen
    BY <1>1 DEF Locals
  <2>3. pc'[r] = "cc_consume" /\ call'[r] = call[r] /\ local'[r] = vals
    BY <1>1, <2>1 DEF Continue
  <2>4. Continue(r, "cc_consume", vals)
    BY <2>1
  <2> HIDE DEF vals
  <2>5. (LoopStarts(r) /\ SnapshotIsComplete(r) /\ MadeIsNew(r))'
    BY <1>2, <1>3, <2>2, <2>3
       DEF LoopStarts, SnapshotIsComplete, MadeIsNew, SameTarget, OfCaller
  <2> QED
    BY <1>3, <2>4, <2>5, LoopStep
<1>6. CASE ConsumeNew(r)
  <2> DEFINE New(w, id) == [id |-> id, m |-> call[r].m, p |-> call[r].p, target |-> w.target,
                            kind |-> w.kind, i |-> call[r].i, producer |-> w.producer]
             Vals(w, id) == [local[r] EXCEPT !.want = local[r].want \ {w},
                                             !.made = local[r].made \cup {New(w, id)}]
  <2>1. PICK w \in local[r].want, id \in FreshConsumers :
           Existing(r, w) = {} /\ Continue(r, "cc_consume", Vals(w, id))
    BY <1>6 DEF ConsumeNew
  <2> DEFINE new == New(w, id)
             vals == Vals(w, id)
  <2>2. /\ vals.want = local[r].want \ {w} /\ vals.made = local[r].made \cup {new}
        /\ vals.seen = local[r].seen
    BY <1>1 DEF Locals
  <2>3. pc'[r] = "cc_consume" /\ call'[r] = call[r] /\ local'[r] = vals
    BY <1>1, <2>1 DEF Continue
  <2>4. Continue(r, "cc_consume", vals)
    BY <2>1
  <2>5. OfCaller(new, call[r]) /\ SameTarget(new, w)
    BY DEF OfCaller, SameTarget
  <2> HIDE DEF vals, new, New, Vals
  <2>6. \A y \in local[r].seen : ~SameTarget(new, y)
    BY <2>1, <2>5 DEF Existing, SameTarget
  <2>7. \A v \in vals.want : ~SameTarget(new, v)
    BY <1>2, <1>3, <2>2, <2>5 DEF LoopStarts, SameTarget
  <2>8. \A x \in local[r].made : ~SameTarget(x, new) /\ ~SameTarget(new, x)
    BY <1>2, <1>3, <2>5 DEF MadeIsNew, SameTarget
  <2>9. MadeIsNew(r)'
    <3> SUFFICES ASSUME NEW x \in vals.made
                 PROVE  /\ OfCaller(x, call[r])
                        /\ \A y \in vals.seen : ~SameTarget(x, y)
                        /\ \A v \in vals.want : ~SameTarget(x, v)
                        /\ \A y \in vals.made : SameTarget(x, y) => x = y
      BY <2>3 DEF MadeIsNew, OfCaller, SameTarget
    <3>1. CASE x = new
      BY <3>1, <2>2, <2>5, <2>6, <2>7, <2>8
    <3>2. CASE x \in local[r].made
      BY <3>2, <1>2, <1>3, <2>2, <2>8 DEF MadeIsNew
    <3> QED
      BY <3>1, <3>2, <2>2
  <2>10. (LoopStarts(r) /\ SnapshotIsComplete(r))'
    BY <1>2, <1>3, <2>2, <2>3 DEF LoopStarts, SnapshotIsComplete, SameTarget, OfCaller
  <2> QED
    BY <1>3, <2>4, <2>9, <2>10, LoopStep
<1>7. CASE Continue(r, "cc_publish", local[r])
  <2>1. pc'[r] = "cc_publish" /\ call'[r] = call[r] /\ local'[r] = local[r]
    BY <1>1, <1>7 DEF Continue
  <2>2. (LoopStarts(r) /\ SnapshotIsComplete(r) /\ MadeIsNew(r))'
    BY <1>2, <1>3, <2>1 DEF LoopStarts, SnapshotIsComplete, MadeIsNew, SameTarget, OfCaller
  <2> QED
    BY <1>3, <1>7, <2>2, LoopStep
<1> QED
  BY <1>4, <1>5, <1>6, <1>7 DEF ConsumeFails, ConsumeRegister

\* The insertion: the caller's consumers in consumer_map are those of the snapshot, and
\* a create_consumer that goes on elsewhere is another instance's.
LEMMA InsertStep ==
  ASSUME ControlOK, ConsumerInv, NEW r \in Requests, ConsumePublish(r)
  PROVE  ConsumerInv'
<1> USE DEF ConsumeSteps, Snapshot
<1>1. pc[r] = "cc_publish" /\ consumer_map' = consumer_map \cup local[r].made /\ Done(r)
  BY DEF ConsumePublish
<1>2. SnapshotIsComplete(r) /\ MadeIsNew(r)
  BY DEF ConsumerInv
<1>3. ASSUME NEW x \in consumer_map, NEW y \in local[r].made,
             x.m = y.m, x.p = y.p, x.i = y.i, SameTarget(y, x)
      PROVE  FALSE
  BY <1>1, <1>2, <1>3 DEF SnapshotIsComplete, MadeIsNew, OfCaller
<1>4. OneConsumerPerTarget'
  <2> SUFFICES ASSUME NEW x \in consumer_map', NEW y \in consumer_map',
                      x.m = y.m, x.p = y.p, x.i = y.i, x.target = y.target, x.kind = y.kind
               PROVE  x = y
    BY DEF OneConsumerPerTarget
  <2>1. CASE x \in consumer_map /\ y \in consumer_map
    BY <2>1 DEF ConsumerInv, OneConsumerPerTarget
  <2>2. CASE x \in local[r].made /\ y \in local[r].made
    BY <2>2, <1>1, <1>2 DEF MadeIsNew, SameTarget
  <2> QED
    BY <2>1, <2>2, <1>1, <1>3 DEF SameTarget
<1>5. /\ pc'[r] = "idle" /\ local'[r] = NoLocal
      /\ \A q \in Requests : q # r =>
            pc'[q] = pc[q] /\ call'[q] = call[q] /\ local'[q] = local[q]
  BY <1>1 DEF Done, ControlOK
<1>6. OneCallPerInstance'
  BY <1>5 DEF ConsumerInv, OneCallPerInstance
<1>7. ASSUME NEW q \in Requests
      PROVE  (LoopStarts(q) /\ SnapshotIsComplete(q) /\ MadeIsNew(q))'
  <2>1. CASE q = r
    BY <2>1, <1>5 DEF LoopStarts, SnapshotIsComplete, MadeIsNew, NoLocal
  <2>2. CASE q # r
    <3>1. (LoopStarts(q) /\ MadeIsNew(q))'
      BY <2>2, <1>5 DEF ConsumerInv, LoopStarts, MadeIsNew, SameTarget, OfCaller
    <3>2. ASSUME pc[q] \in Snapshot, NEW x \in local[r].made
          PROVE  ~OfCaller(x, call[q])
      BY <2>2, <3>2, <1>1, <1>2 DEF ConsumerInv, OneCallPerInstance, MadeIsNew, OfCaller
    <3>3. SnapshotIsComplete(q)'
      BY <2>2, <1>1, <1>5, <3>2 DEF ConsumerInv, SnapshotIsComplete, OfCaller
    <3> QED
      BY <3>1, <3>3
  <2> QED
    BY <2>1, <2>2
<1> QED
  BY <1>4, <1>6, <1>7 DEF ConsumerInv

\* The call: its instance has no other call in progress, its target_participants is a map.
LEMMA ConsumeCallStep ==
  ASSUME CallerWaits, ControlOK, ConsumerInv, NEW r \in Requests, NEW m, NEW p, NEW i,
         CallCreateConsumer(r, p, m, i)
  PROVE  ConsumerInv'
<1> USE DEF ConsumeSteps, Snapshot
<1>1. PICK W \in Requested(p, m), x \in transport_map :
         Begin(r, "cc_transport", [NoCall EXCEPT !.p = p, !.m = m, !.i = i,
                                                 !.t = x.id, !.want = W])
  BY DEF CallCreateConsumer
<1> DEFINE c == [NoCall EXCEPT !.p = p, !.m = m, !.i = i, !.t = x.id, !.want = W]
<1>2. c.p = p /\ c.i = i /\ c.want = W
  BY DEF NoCall
<1>3. /\ pc[r] = "idle" /\ consumer_map' = consumer_map /\ local' = local
      /\ pc'[r] = "cc_transport" /\ call'[r] = c
      /\ \A q \in Requests : q # r => pc'[q] = pc[q] /\ call'[q] = call[q]
  BY <1>1 DEF Begin, memory, ControlOK
<1> HIDE DEF c
<1>4. \A q \in Requests : pc[q] # "idle" => ~(call[q].p = p /\ call[q].i = i)
  BY DEF CallCreateConsumer, InstanceFree, Busy
<1>5. OneCallPerInstance'
  BY <1>2, <1>3, <1>4 DEF ConsumerInv, OneCallPerInstance
<1>6. OneConsumerPerTarget'
  BY <1>3 DEF ConsumerInv, OneConsumerPerTarget
<1>7. ASSUME NEW q \in Requests
      PROVE  (LoopStarts(q) /\ SnapshotIsComplete(q) /\ MadeIsNew(q))'
  <2>1. CASE q = r
    BY <2>1, <1>2, <1>3
       DEF ConsumerInv, LoopStarts, SnapshotIsComplete, MadeIsNew, SameTarget, Requested
  <2>2. CASE q # r
    BY <2>2, <1>3 DEF ConsumerInv, LoopStarts, SnapshotIsComplete, MadeIsNew,
                      SameTarget, OfCaller
  <2> QED
    BY <2>1, <2>2
<1> QED
  BY <1>5, <1>6, <1>7 DEF ConsumerInv

-----------------------------------------------------------------------------
(* Invariance *)

\* Every step of callers that await their replies preserves the invariant.
LEMMA ConsumerStep ==
  ASSUME CallerWaits, IInv, ConsumerInv, [Next]_vars
  PROVE  ConsumerInv'
<1>1. ControlOK
  BY DEF IInv
<1>2. CASE UNCHANGED vars
  <2>1. consumer_map' \subseteq consumer_map /\ LeavesConsuming
    BY <1>2 DEF vars, memory, LeavesConsuming
  <2> QED
    BY <2>1, LeavesInvariant
<1>3. CASE Restart
  <2>1. consumer_map' \subseteq consumer_map /\ LeavesConsuming
    BY <1>3 DEF Restart, LeavesConsuming
  <2> QED
    BY <2>1, LeavesInvariant
<1>4. ASSUME NEW r \in Requests, Call(r)
      PROVE  ConsumerInv'
  BY <1>1, <1>4, CallLeaves, LeavesInvariant, ConsumeCallStep
<1>5. ASSUME NEW r \in Requests, Step(r)
      PROVE  ConsumerInv'
  <2>1. CASE CreateMeeting(r) \/ ReplaceMeeting(r) \/ PublishRouters(r) \/ EndMeeting(r)
    BY <1>1, <2>1, MeetingLeaves, LeavesInvariant
  <2>2. CASE RecreateTransport(r) \/ LeaveMeeting(r)
    BY <1>1, <2>2, ParticipantLeaves, LeavesInvariant
  <2>3. CASE CreateProducer(r)
    BY <1>1, <2>3, ProduceLeaves, LeavesInvariant
  <2>4. CASE CloseConsumer(r) \/ CloseProducer(r)
    BY <1>1, <2>4, CloseLeaves, LeavesInvariant
  <2>5. CASE CreateConsumer(r)
    BY <1>1, <2>5, SnapshotStep, IterationStep, InsertStep DEF CreateConsumer
  <2> QED
    BY <1>5, <2>1, <2>2, <2>3, <2>4, <2>5 DEF Step
<1> QED
  BY <1>2, <1>3, <1>4, <1>5 DEF Next

\* With callers that await each reply, create_consumer never finds two consumers to
\* reuse: for any number of requests, meetings and instances, and whatever fails or
\* restarts, consumer_map holds at most one consumer of each kind of each target for an
\* instance of a participant.
THEOREM ConsumersAreUnique ==
  ASSUME CallerWaits
  PROVE  Spec => []OneConsumerPerTarget
<1>1. Init => ConsumerInv
  BY DEF Init, ConsumerInv, OneCallPerInstance, LoopStarts, SnapshotIsComplete, MadeIsNew,
         OneConsumerPerTarget, ConsumeSteps, Snapshot, NoLocal
<1>2. IInv /\ ConsumerInv /\ [Next]_vars => ConsumerInv'
  BY ConsumerStep
<1>3. ConsumerInv => OneConsumerPerTarget
  BY DEF ConsumerInv
<1> QED
  BY <1>1, <1>2, <1>3, Invariance, PTL DEF Spec
=============================================================================
