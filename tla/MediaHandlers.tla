--------------------------- MODULE MediaHandlers ----------------------------
(***************************************************************************)
(* createProducer, closeProducer, createConsumer and closeConsumer.        *)
(* create_producer runs under the mutex of the meeting, in the same        *)
(* lock_map the recreate helpers key by participant; the others take no    *)
(* lock.                                                                   *)
(***************************************************************************)
EXTENDS SfuState

(* create_producer *)

\* Mutant of ProduceLock: the mutex is not awaited.
ProduceNoLock(r) ==
    /\ pc[r] = "cp_lock"
    /\ pc' = [pc EXCEPT ![r] = "cp_check"]
    /\ UNCHANGED <<db, memory, lock_map, call, local>>

ProduceLock(r) == pc[r] = "cp_lock" /\ Acquire(r, call[r].m, "cp_check")

\* The entry of producer_map that create_producer would return, whatever
\* instance of the participant made it.
ProducerOf(m, p, kind) == {x \in producer_map : x.m = m /\ x.p = p /\ x.kind = kind}

\* Mutant of ProduceCheck: the early return leaves the mutex locked.
ProduceCheckKeepsLock(r) ==
    LET c == call[r] IN
    /\ pc[r] = "cp_check"
    /\ \/ ProducerOf(c.m, c.p, c.kind) = {} /\ Continue(r, "cp_produce", local[r])
       \/ ProducerOf(c.m, c.p, c.kind) # {} /\ DoneKeepsLock(r)
    /\ UNCHANGED <<db, memory>>

ProduceCheck(r) ==
    LET c == call[r] IN
    /\ pc[r] = "cp_check"
    /\ \/ ProducerOf(c.m, c.p, c.kind) = {} /\ Continue(r, "cp_produce", local[r])
       \/ ProducerOf(c.m, c.p, c.kind) # {} /\ Done(r)
    /\ UNCHANGED <<db, memory>>

\* Mutant of ProduceOnTransport: a transport that is gone is waited for, under the
\* mutex, instead of failing the request.
ProduceRetries(r) ==
    /\ pc[r] = "cp_produce"
    /\ \/ /\ \E x \in transport_map : x.id = call[r].t
          /\ \E id \in FreshProducers :
                Continue(r, "cp_routers", [local[r] EXCEPT !.producer = id])
       \/ (\A x \in transport_map : x.id # call[r].t) /\ Continue(r, "cp_check", local[r])
    /\ UNCHANGED <<db, memory>>

\* An unknown transport panics.
ProduceOnTransport(r) ==
    /\ pc[r] = "cp_produce"
    /\ \/ /\ \E x \in transport_map : x.id = call[r].t
          /\ \E id \in FreshProducers :
                Continue(r, "cp_routers", [local[r] EXCEPT !.producer = id])
       \/ /\ \/ \A x \in transport_map : x.id # call[r].t
             \/ MediasoupFails(FreshProducers)
          /\ Done(r)
    /\ UNCHANGED <<db, memory>>

\* The router produced on and the routers it is piped to.
RoutersOf(c) == {c.router} \cup c.ids

\* The snapshot of routers_map, with the recording and the piping set up from it:
\* an unknown router panics, each mediasoup and gstreamer call may fail.
ProduceRouters(r) ==
    /\ pc[r] = "cp_routers"
    /\ \/ RoutersOf(call[r]) \subseteq routers_map /\ Continue(r, "cp_register", local[r])
       \/ /\ ~(RoutersOf(call[r]) \subseteq routers_map) \/ "mediasoup" \in Faults
          /\ Done(r)
    /\ UNCHANGED <<db, memory>>

\* Even when the row cannot be written, a recording's pipeline is kept.
ProduceRegister(r) ==
    LET c == call[r] IN
    /\ pc[r] = "cp_register"
    /\ \E out \in Outcomes(RegisterProducerTx(db,
                     [id |-> local[r].producer, p |-> c.p, kind |-> c.kind,
                      m |-> c.m, t |-> c.t])) :
          /\ db' = out.db
          /\ \/ out.error = NoError /\ Continue(r, "cp_publish", local[r])
             \/ out.error # NoError /\ c.record /\ Continue(r, "cp_pipeline", local[r])
             \/ out.error # NoError /\ ~c.record /\ Done(r)
    /\ UNCHANGED memory

ProducePublish(r) ==
    LET c == call[r] IN
    /\ pc[r] = "cp_publish"
    /\ producer_map' = producer_map \cup
          {[id |-> local[r].producer, m |-> c.m, p |-> c.p, kind |-> c.kind, i |-> c.i]}
    /\ \/ c.record /\ Continue(r, "cp_plain", local[r])
       \/ ~c.record /\ Done(r)
    /\ UNCHANGED <<db, routers_map, transport_map, consumer_map, recordings>>

ProducePlain(r) ==
    /\ pc[r] = "cp_plain"
    /\ plain_transport_map' = plain_transport_map \cup {local[r].producer}
    /\ Continue(r, "cp_plain_consumer", local[r])
    /\ UNCHANGED <<db, routers_map, transport_map, producer_map, consumer_map,
                   plain_transport_consumer_map, pipeline_map>>

ProducePlainConsumer(r) ==
    /\ pc[r] = "cp_plain_consumer"
    /\ plain_transport_consumer_map' = plain_transport_consumer_map \cup {local[r].producer}
    /\ Continue(r, "cp_pipeline", local[r])
    /\ UNCHANGED <<db, routers_map, transport_map, producer_map, consumer_map,
                   plain_transport_map, pipeline_map>>

\* Mutant of ProducePipeline: the key is the producer, as in the two other maps.
ProducePipelineByProducer(r) ==
    /\ pc[r] = "cp_pipeline"
    /\ pipeline_map' = pipeline_map \cup {local[r].producer}
    /\ Done(r)
    /\ UNCHANGED <<db, routers_map, transport_map, producer_map, consumer_map,
                   plain_transport_map, plain_transport_consumer_map>>

ProducePipeline(r) ==
    /\ pc[r] = "cp_pipeline"
    /\ pipeline_map' = pipeline_map \cup {call[r].m}
    /\ Done(r)
    /\ UNCHANGED <<db, routers_map, transport_map, producer_map, consumer_map,
                   plain_transport_map, plain_transport_consumer_map>>

CreateProducer(r) ==
    \/ ProduceLock(r)
    \/ ProduceCheck(r)
    \/ ProduceOnTransport(r)
    \/ ProduceRouters(r)
    \/ ProduceRegister(r)
    \/ ProducePublish(r)
    \/ ProducePlain(r)
    \/ ProducePlainConsumer(r)
    \/ ProducePipeline(r)

-----------------------------------------------------------------------------
(* close_producer *)

CloseProducerDelete(r) ==
    /\ pc[r] = "cl_delete"
    /\ \E out \in Outcomes(DeleteProducersTx(db, call[r].p, call[r].ids)) :
          /\ db' = out.db
          /\ \/ out.error = NoError /\ Continue(r, "cl_close", local[r])
             \/ out.error # NoError /\ Done(r)
    /\ UNCHANGED memory

\* Taking a producer out of the pipeline, which is not done for a lone
\* screenshare, comes last: its outcome is the reply and no map changes.
CloseProducerInMemory(r) ==
    /\ pc[r] = "cl_close"
    /\ close_all_producers_in_memory(call[r].ids)
    /\ Done(r)
    /\ UNCHANGED <<db, routers_map, transport_map, consumer_map, pipeline_map>>

CloseProducer(r) == CloseProducerDelete(r) \/ CloseProducerInMemory(r)

-----------------------------------------------------------------------------
(* create_consumer *)

\* An unknown transport panics.
ConsumeOnTransport(r) ==
    /\ pc[r] = "cc_transport"
    /\ \/ /\ \E x \in transport_map : x.id = call[r].t
          /\ Continue(r, "cc_shard", [local[r] EXCEPT !.want = call[r].want])
       \/ (\A x \in transport_map : x.id # call[r].t) /\ Done(r)
    /\ UNCHANGED <<db, memory>>

\* The snapshot of the shard; only the entries the handler matches are kept.
ConsumeSnapshot(r) ==
    LET c == call[r] IN
    /\ pc[r] = "cc_shard"
    /\ Continue(r, "cc_consume",
                [local[r] EXCEPT !.seen =
                     {x \in Shard(c.m) : x.p = c.p /\ x.m = c.m /\ x.i = c.i}])
    /\ UNCHANGED <<db, memory>>

\* Mutant of Existing: a consumer of another producer is not reused.
ExistingOfProducer(r, w) ==
    {x \in local[r].seen : x.target = w.target /\ x.kind = w.kind /\ x.producer = w.producer}

\* The consumers of the snapshot that serve w: the producer is not compared.
Existing(r, w) == {x \in local[r].seen : x.target = w.target /\ x.kind = w.kind}

\* One iteration of the loop, in any order: a sole existing consumer is reused.
ConsumeReuse(r) ==
    /\ pc[r] = "cc_consume"
    /\ \E w \in local[r].want :
          /\ \E x \in Existing(r, w) : Existing(r, w) = {x}
          /\ Continue(r, "cc_consume", [local[r] EXCEPT !.want = @ \ {w}])
    /\ UNCHANGED <<db, memory>>

ConsumeNew(r) ==
    LET c == call[r] IN
    /\ pc[r] = "cc_consume"
    /\ \E w \in local[r].want :
          /\ Existing(r, w) = {}
          /\ w.producer \in LiveProducers
          /\ \E id \in FreshConsumers :
                Continue(r, "cc_consume",
                   [local[r] EXCEPT
                      !.want = @ \ {w},
                      !.made = @ \cup {[id |-> id, m |-> c.m, p |-> c.p, target |-> w.target,
                                        kind |-> w.kind, i |-> c.i, producer |-> w.producer]}])
    /\ UNCHANGED <<db, memory>>

\* Several existing consumers, a producer that is gone or a failing call.
ConsumeFails(r) ==
    /\ pc[r] = "cc_consume"
    /\ \E w \in local[r].want :
          \/ \E x, y \in Existing(r, w) : x # y
          \/ /\ Existing(r, w) = {}
             /\ w.producer \notin LiveProducers \/ MediasoupFails(FreshConsumers)
    /\ Done(r)
    /\ UNCHANGED <<db, memory>>

ConsumeRegister(r) ==
    /\ pc[r] = "cc_consume"
    /\ local[r].want = {}
    /\ \E out \in Outcomes(RegisterConsumersTx(db,
                     {[id |-> x.id, p |-> x.p, target |-> x.target, kind |-> x.kind,
                       m |-> x.m, t |-> call[r].t] : x \in local[r].made})) :
          /\ db' = out.db
          /\ \/ out.error = NoError /\ Continue(r, "cc_publish", local[r])
             \/ out.error # NoError /\ Done(r)
    /\ UNCHANGED memory

ConsumePublish(r) ==
    /\ pc[r] = "cc_publish"
    /\ consumer_map' = consumer_map \cup local[r].made
    /\ Done(r)
    /\ UNCHANGED <<db, routers_map, transport_map, producer_map, recordings>>

CreateConsumer(r) ==
    \/ ConsumeOnTransport(r)
    \/ ConsumeSnapshot(r)
    \/ ConsumeReuse(r)
    \/ ConsumeNew(r)
    \/ ConsumeFails(r)
    \/ ConsumeRegister(r)
    \/ ConsumePublish(r)

-----------------------------------------------------------------------------
(* close_consumer *)

CloseConsumerDelete(r) ==
    /\ pc[r] = "cz_delete"
    /\ \E out \in Outcomes(DeleteConsumersTx(db, call[r].ids)) :
          /\ db' = out.db
          /\ \/ out.error = NoError /\ Continue(r, "cz_close", local[r])
             \/ out.error # NoError /\ Done(r)
    /\ UNCHANGED memory

CloseConsumerInMemory(r) ==
    /\ pc[r] = "cz_close"
    /\ close_all_consumers_in_memory(call[r].ids, call[r].m)
    /\ Done(r)
    /\ UNCHANGED <<db, routers_map, transport_map, producer_map, recordings>>

CloseConsumer(r) == CloseConsumerDelete(r) \/ CloseConsumerInMemory(r)
=============================================================================
