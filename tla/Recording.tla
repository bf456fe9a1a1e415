----------------------------- MODULE Recording ------------------------------
(***************************************************************************)
(* Recording the producers of a process: the part of create_producer that  *)
(* starts a recording, under the mutex of the meeting; the removal from    *)
(* the pipeline when producers are closed; the end of a meeting; the       *)
(* pad-added callback and the bus thread.                                  *)
(*                                                                         *)
(* One step is one critical section.  The sections of the start functions  *)
(* hold one mutex for one statement; making the elements of a start is one *)
(* step, and so is adding them, as no other thread sees the ones between.  *)
(* A panic in the callback crosses a C frame and aborts the process.       *)
(***************************************************************************)
EXTENDS Gstreamer

\* The request goes on to `step` with its local variables `q`.
Go(r, step, q) == request' = [request EXCEPT ![r] = [q EXCEPT !.pc = step]]

\* The request ends, with a reply or an error; the guards it holds are dropped.
Done(r) == request' = [request EXCEPT ![r] = NoRequest]

Release(mutex, g, who) == [mutex EXCEPT ![g] = IF @ = who THEN None ELSE @]

\* The guards `who` holds of the mutexes of instance g are dropped.
Unlock(g, who) ==
    /\ inner_mutex' = Release(inner_mutex, g, who)
    /\ pipeline_mutex' = Release(pipeline_mutex, g, who)

Failing(fault, r) == fault \in Faults /\ Done(r)

-----------------------------------------------------------------------------
(* start_recording *)

StartSteps == {"st_lookup", "st_port", "st_rtp", "st_shared", "st_pause",
               "st_add", "st_link", "st_meta", "st_clone", "st_play", "st_fail",
               "st_abort", "st_drop", "st_replay", "st_connect", "st_register", "st_publish", "st_insert"}

\* Mutant: the mutex is the one of the participant, not of the meeting.
BeginStartPerParticipant(r) ==
    \E m \in Meetings, p \in Participants, kind \in RecordedKinds :
        /\ "start" \in Operations
        /\ request[r] = NoRequest
        /\ \A o \in Requests : ~(request[o].pc \in StartSteps /\ request[o].m = m /\ request[o].p = p)
        /\ ~\E x \in producers : x.m = m /\ x.p = p /\ x.kind = kind
        /\ Go(r, "st_lookup", [NoRequest EXCEPT !.m = m, !.p = p, !.kind = kind])
        /\ UNCHANGED <<gst, mutexes, bus, pad, pipeline_map, producers, issued>>

\* create_producer found no such producer, under the mutex of the meeting.
BeginStart(r) ==
    \E m \in Meetings, p \in Participants, kind \in RecordedKinds :
        /\ "start" \in Operations
        /\ request[r] = NoRequest
        /\ \A o \in Requests : ~(request[o].pc \in StartSteps /\ request[o].m = m)
        /\ ~\E x \in producers : x.m = m /\ x.p = p /\ x.kind = kind
        /\ Go(r, "st_lookup", [NoRequest EXCEPT !.m = m, !.p = p, !.kind = kind])
        /\ UNCHANGED <<gst, mutexes, bus, pad, pipeline_map, producers, issued>>

\* Mutant: a new instance is entered into pipeline_map before it plays.
LookupInserts(r) ==
    LET q == request[r] IN
    /\ q.pc = "st_lookup"
    /\ \/ /\ pipeline_map[q.m] # None
          /\ Go(r, "st_port", [q EXCEPT !.g = pipeline_map[q.m], !.exists = TRUE])
          /\ UNCHANGED <<gst, pipeline_map>>
       \/ /\ pipeline_map[q.m] = None
          /\ \E g \in Gstreamers :
                /\ gst[g] = NewGstreamer
                /\ gst' = [gst EXCEPT ![g].m = q.m]
                /\ pipeline_map' = [pipeline_map EXCEPT ![q.m] = g]
                /\ Go(r, "st_port", [q EXCEPT !.g = g])
    /\ UNCHANGED <<mutexes, bus, pad, producers, issued>>

\* The instance of the meeting, or a new one.
Lookup(r) ==
    LET q == request[r] IN
    /\ q.pc = "st_lookup"
    /\ \/ /\ pipeline_map[q.m] # None
          /\ Go(r, "st_port", [q EXCEPT !.g = pipeline_map[q.m], !.exists = TRUE])
          /\ UNCHANGED gst
       \/ /\ pipeline_map[q.m] = None
          /\ \E g \in Gstreamers :
                /\ gst[g] = NewGstreamer
                /\ gst' = [gst EXCEPT ![g].m = q.m]
                /\ Go(r, "st_port", [q EXCEPT !.g = g])
    /\ UNCHANGED <<mutexes, bus, pad, pipeline_map, producers, issued>>

PortRange(kind) == IF kind = "audio" THEN AudioPorts ELSE VideoPorts

\* Mutant: no socket is bound to find out whether a port is free.
PortRangeUntried(kind) == PortRange(kind)

\* The ports of the range a socket can be bound to; the RTCP port is not tried.
FreePorts(kind) ==
    {port \in PortRange(kind) :
        \A x \in Bound(Gstreamers) : ~(x.part = "rtp" /\ x.port = port)}

\* get_free_audio_port and get_free_video_port: the first free port, whose socket
\* is closed again at once.
GetFreePort(r) ==
    LET q == request[r]
        free == FreePorts(q.kind)
    IN
    /\ q.pc = "st_port"
    /\ \/ /\ free # {}
          /\ \E src \in Sources \ issued :
                /\ issued' = issued \cup {src}
                /\ Go(r, "st_rtp", [q EXCEPT !.src = src,
                       !.port = CHOOSE port \in free : \A other \in free : port <= other])
       \/ free = {} /\ Done(r) /\ UNCHANGED issued
    /\ UNCHANGED <<gst, mutexes, bus, pad, pipeline_map, producers>>

\* The udpsrc of RTP is made and put into its map.
MakeSource(r) ==
    LET q == request[r] IN
    /\ q.pc = "st_rtp"
    /\ \/ /\ inner_mutex[q.g] = None
          /\ gst' = [gst EXCEPT ![q.g].udp_src = Insert(@, SourceElement(q, "rtp"))]
          /\ Go(r, "st_shared", q)
       \/ Failing("element", r) /\ UNCHANGED gst
    /\ UNCHANGED <<mutexes, bus, pad, pipeline_map, producers, issued>>

\* Instance i once the first n elements of the order are made.
Made(i, q, n) ==
    LET order == CreationOrder(Media(q.kind))
        made == {order[k] : k \in 1 .. n}
    IN  [i EXCEPT !.shared = @ \cup (made \ {"rtcpsrc"}),
                  !.udp_src = IF "rtcpsrc" \in made THEN Insert(@, SourceElement(q, "rtcp"))
                              ELSE @]

\* Mutant: the new shared elements are not kept in inner.
MakeElementsForgets(r) ==
    LET q == request[r] IN
    /\ q.pc = "st_shared"
    /\ inner_mutex[q.g] = None
    /\ gst' = [gst EXCEPT ![q.g].udp_src = Insert(@, SourceElement(q, "rtcp"))]
    /\ Go(r, "st_pause", [q EXCEPT !.fresh = Needed(Media(q.kind)) \ gst[q.g].shared])
    /\ UNCHANGED <<mutexes, bus, pad, pipeline_map, producers, issued>>

\* The other elements are made, the shared ones unless they exist; the first that
\* cannot be made ends the request.
MakeElements(r) ==
    LET q == request[r]
        last == Len(CreationOrder(Media(q.kind)))
    IN
    /\ q.pc = "st_shared"
    /\ inner_mutex[q.g] = None
    /\ \/ /\ gst' = [gst EXCEPT ![q.g] = Made(@, q, last)]
          /\ Go(r, "st_pause",
                [q EXCEPT !.fresh = Needed(Media(q.kind)) \ gst[q.g].shared])
       \/ \E n \in 0 .. last - 1 :
             /\ gst' = [gst EXCEPT ![q.g] = Made(@, q, n)]
             /\ Failing("element", r)
    /\ UNCHANGED <<mutexes, bus, pad, pipeline_map, producers, issued>>

PausePipeline(r) ==
    LET q == request[r] IN
    /\ q.pc = "st_pause"
    /\ pipeline_mutex[q.g] = None
    /\ \E out \in SetState(q.g, gst[q.g], "Paused") :
          /\ gst' = [gst EXCEPT ![q.g] = out.to]
          /\ \/ out.ok /\ Go(r, "st_add", q)
             \/ ~out.ok /\ Done(r)
    /\ UNCHANGED <<mutexes, bus, pad, pipeline_map, producers, issued>>

\* A group of which only a part is new cannot be added.
Torn(fresh, group) == fresh \cap group \notin {{}, group}

\* Instance i once the udpsrc elements and the first n groups are added.
Added(i, q, n) ==
    [i EXCEPT !.elements = @ \cup {SourceElement(q, part) : part \in Parts},
              !.attached = @ \cup (q.fresh \cap UNION {Groups[k] : k \in 1 .. n})]

\* The new elements are added; the first group that is torn or fails ends the request.
AddElements(r) ==
    LET q == request[r]
        whole(n) == \A k \in 1 .. n : ~Torn(q.fresh, Groups[k])
    IN
    /\ q.pc = "st_add"
    /\ pipeline_mutex[q.g] = None
    /\ \/ /\ whole(Len(Groups))
          /\ gst' = [gst EXCEPT ![q.g] = Added(@, q, Len(Groups))]
          /\ Go(r, "st_link", q)
       \/ \E n \in 0 .. Len(Groups) - 1 :
             /\ whole(n)
             /\ Torn(q.fresh, Groups[n + 1]) \/ "element" \in Faults
             /\ gst' = [gst EXCEPT ![q.g] = Added(@, q, n)]
             /\ Done(r)
       \/ Failing("element", r) /\ UNCHANGED gst
    /\ UNCHANGED <<mutexes, bus, pad, pipeline_map, producers, issued>>

\* Request pads of rtpbin are linked to the udpsrc elements.
LinkSource(r) ==
    LET q == request[r] IN
    /\ q.pc = "st_link"
    /\ \/ /\ gst' = [gst EXCEPT ![q.g].linked = @ \cup {q.src}]
          /\ Go(r, "st_meta", q)
       \/ Failing("element", r) /\ UNCHANGED gst
    /\ UNCHANGED <<mutexes, bus, pad, pipeline_map, producers, issued>>

InsertSession(r) ==
    LET q == request[r] IN
    /\ q.pc = "st_meta"
    /\ inner_mutex[q.g] = None
    /\ gst' = [gst EXCEPT ![q.g].sessions = @ \cup {SourceElement(q, "rtp")}]
    /\ \/ Go(r, "st_clone", q)
       \/ Failing("element", r)
    /\ UNCHANGED <<mutexes, bus, pad, pipeline_map, producers, issued>>

\* Mutant: the test of `exists` is inverted.
WatchBusIfKnown(r) ==
    LET q == request[r] IN
    /\ q.pc = "st_clone"
    /\ pipeline_mutex[q.g] = None
    /\ bus' = [bus EXCEPT ![q.g] = IF q.exists THEN "watching" ELSE @]
    /\ Go(r, "st_play", q)
    /\ UNCHANGED <<gst, mutexes, pad, pipeline_map, producers, issued>>

\* A new pipeline gets its bus thread.
WatchBus(r) ==
    LET q == request[r] IN
    /\ q.pc = "st_clone"
    /\ pipeline_mutex[q.g] = None
    /\ bus' = [bus EXCEPT ![q.g] = IF q.exists THEN @ ELSE "watching"]
    /\ Go(r, "st_play", q)
    /\ UNCHANGED <<gst, mutexes, pad, pipeline_map, producers, issued>>

\* Mutant: the result of the state change is logged and not returned.
PlayPipelineIgnores(r) ==
    LET q == request[r] IN
    /\ q.pc = "st_play"
    /\ \E out \in SetState(q.g, gst[q.g], "Playing") : gst' = [gst EXCEPT ![q.g] = out.to]
    /\ Go(r, "st_connect", q)
    /\ UNCHANGED <<mutexes, bus, pad, pipeline_map, producers, issued>>

\* set_state is called on a clone of the pipeline, outside its mutex.
PlayPipeline(r) ==
    LET q == request[r] IN
    /\ q.pc = "st_play"
    /\ \E out \in SetState(q.g, gst[q.g], "Playing") :
          /\ gst' = [gst EXCEPT ![q.g] = out.to]
          /\ \/ out.ok /\ Go(r, "st_connect", q)
             \/ ~out.ok /\ q.exists /\ Go(r, "st_fail", q)
             \/ ~out.ok /\ ~q.exists /\ Done(r)
    /\ UNCHANGED <<mutexes, bus, pad, pipeline_map, producers, issued>>

\* handle_udp_src_failure: under the mutex of inner the elements of the participant's
\* media leave the maps, ...
FailSource(r) ==
    LET q == request[r]
        mine(x) == x.p = q.p /\ x.media = Media(q.kind)
    IN
    /\ q.pc = "st_fail"
    /\ inner_mutex[q.g] = None
    /\ inner_mutex' = [inner_mutex EXCEPT ![q.g] = r]
    /\ gst' = [gst EXCEPT ![q.g].udp_src = {x \in @ : ~mine(x)},
                          ![q.g].sessions = {x \in @ : ~mine(x)}]
    /\ Go(r, "st_abort", [q EXCEPT !.closed = {x \in gst[q.g].udp_src : mine(x)},
                                   !.pads = {x.src : x \in {y \in gst[q.g].sessions : mine(y)}}])
    /\ UNCHANGED <<pipeline_mutex, bus, pad, pipeline_map, producers, issued>>

\* ... the pipeline is cloned out of its mutex ...
AbortState(r) ==
    LET q == request[r] IN
    /\ q.pc = "st_abort"
    /\ pipeline_mutex[q.g] = None
    /\ Go(r, "st_drop", q)
    /\ UNCHANGED <<gst, mutexes, bus, pad, pipeline_map, producers, issued>>

\* ... and the elements and the pads of rtpbin leave it.
DropSource(r) ==
    LET q == request[r] IN
    /\ q.pc = "st_drop"
    /\ gst' = [gst EXCEPT ![q.g].elements = @ \ q.closed, ![q.g].bound = @ \ q.closed,
                          ![q.g].linked = @ \ q.pads, ![q.g].fed = @ \ q.pads]
    /\ Unlock(q.g, r)
    /\ Go(r, "st_replay", q)
    /\ UNCHANGED <<bus, pad, pipeline_map, producers, issued>>

ReplayPipeline(r) ==
    LET q == request[r] IN
    /\ q.pc = "st_replay"
    /\ \E out \in SetState(q.g, gst[q.g], "Playing") : gst' = [gst EXCEPT ![q.g] = out.to]
    /\ Done(r)
    /\ UNCHANGED <<mutexes, bus, pad, pipeline_map, producers, issued>>

(* The rest of create_producer *)

\* The plain transport is connected and its consumer resumed.
ConnectPlain(r) ==
    LET q == request[r] IN
    /\ q.pc = "st_connect"
    /\ \/ /\ gst' = [gst EXCEPT ![q.g].fed = @ \cup {q.src}]
          /\ Go(r, "st_register", q)
       \/ Failing("mediasoup", r) /\ UNCHANGED gst
    /\ UNCHANGED <<mutexes, bus, pad, pipeline_map, producers, issued>>

RegisterProducer(r) ==
    LET q == request[r] IN
    /\ q.pc = "st_register"
    /\ \/ Go(r, "st_publish", q)
       \/ "driver" \in Faults /\ Go(r, "st_insert", q)
    /\ UNCHANGED <<gst, mutexes, bus, pad, pipeline_map, producers, issued>>

PublishProducer(r) ==
    LET q == request[r] IN
    /\ q.pc = "st_publish"
    /\ producers' = producers \cup
          {[m |-> q.m, p |-> q.p, kind |-> q.kind, src |-> q.src, g |-> q.g]}
    /\ Go(r, "st_insert", q)
    /\ UNCHANGED <<gst, mutexes, bus, pad, pipeline_map, issued>>

\* Requests that hold the read guard of pipeline_map.
MapReaders == {r \in Requests : request[r].pc \in {"cl_inner", "cl_pipeline", "cl_pause", "cl_remove"}}

InsertPipeline(r) ==
    LET q == request[r] IN
    /\ q.pc = "st_insert"
    /\ MapReaders = {}
    /\ pipeline_map' = [pipeline_map EXCEPT ![q.m] = q.g]
    /\ Done(r)
    /\ UNCHANGED <<gst, mutexes, bus, pad, producers, issued>>

-----------------------------------------------------------------------------
(* close_all_producers_in_memory *)

\* closeProducer names producers of some kinds; leaving or recreating a transport
\* names all of them.  Only closeProducer of a screen share spares the pipeline.
BeginClose(r) ==
    \E m \in Meetings, p \in Participants, kinds \in SUBSET RecordedKinds \ {{}}, remove \in BOOLEAN :
        /\ "close" \in Operations
        /\ request[r] = NoRequest
        /\ \/ remove
           \/ kinds = {"screenshare"}
        /\ Go(r, "cl_maps",
              [NoRequest EXCEPT !.m = m, !.p = p, !.kinds = kinds, !.remove = remove])
        /\ UNCHANGED <<gst, mutexes, bus, pad, pipeline_map, producers, issued>>

CloseInMaps(r) ==
    LET q == request[r] IN
    /\ q.pc = "cl_maps"
    /\ producers' = {x \in producers : ~(x.m = q.m /\ x.p = q.p /\ x.kind \in q.kinds)}
    /\ \/ q.remove /\ Go(r, "cl_lookup", q)
       \/ ~q.remove /\ Done(r)
    /\ UNCHANGED <<gst, mutexes, bus, pad, pipeline_map, issued>>

\* The read guard of pipeline_map is held until the request ends.
CloseLookup(r) ==
    LET q == request[r] IN
    /\ q.pc = "cl_lookup"
    /\ \/ pipeline_map[q.m] # None /\ Go(r, "cl_inner", [q EXCEPT !.g = pipeline_map[q.m]])
       \/ pipeline_map[q.m] = None /\ Done(r)
    /\ UNCHANGED <<gst, mutexes, bus, pad, pipeline_map, producers, issued>>

CloseLocksInner(r) ==
    LET q == request[r] IN
    /\ q.pc = "cl_inner"
    /\ inner_mutex[q.g] = None
    /\ inner_mutex' = [inner_mutex EXCEPT ![q.g] = r]
    /\ Go(r, "cl_pipeline", q)
    /\ UNCHANGED <<gst, pipeline_mutex, bus, pad, pipeline_map, producers, issued>>

CloseLocksPipeline(r) ==
    LET q == request[r] IN
    /\ q.pc = "cl_pipeline"
    /\ pipeline_mutex[q.g] = None
    /\ pipeline_mutex' = [pipeline_mutex EXCEPT ![q.g] = r]
    /\ Go(r, "cl_pause", q)
    /\ UNCHANGED <<gst, inner_mutex, bus, pad, pipeline_map, producers, issued>>

\* Every element of the participant leaves the maps, except the RTCP sinks of its
\* video; its udpsrc elements are set to Null.
Cleared(i, p) ==
    [i EXCEPT
        !.udp_src = {x \in @ : x.p # p},
        !.bound = @ \ {x \in i.udp_src : x.p = p},
        !.branches = {x \in @ : x.p # p \/ (x.media = "video" /\ x.part = "rtcp")},
        !.sessions = {x \in @ : x.p # p}]

\* The request takes what leaves the maps of instance i: the udpsrc elements, the
\* decoding elements and the pads of rtpbin.
TakeCleared(q, i) ==
    [q EXCEPT !.closed = {x \in i.udp_src : x.p = q.p},
              !.branches = i.branches \ Cleared(i, q.p).branches,
              !.pads = {x.src : x \in {y \in i.sessions : y.p = q.p}}]

\* The orders in which the elements are set to Null and removed from the pipeline.
NullOrder ==
    <<<<"audio", "rtp">>, <<"video", "rtp">>, <<"audio", "rtcp">>, <<"audio", "decoding">>,
      <<"video", "rtcp">>, <<"video", "decoding">>>>
RemoveOrder ==
    <<<<"audio", "rtp">>, <<"audio", "rtcp">>, <<"audio", "decoding">>,
      <<"video", "rtp">>, <<"video", "rtcp">>, <<"video", "decoding">>>>

\* The places of an order at which the request has an element to handle.
Turns(order, q) ==
    {n \in DOMAIN order :
        \/ \E x \in q.closed : order[n] = <<x.media, x.part>>
        \/ \E x \in q.branches : order[n] = <<x.media, "decoding">>}

\* The udpsrc elements whose turn comes before place n.
Before(order, n, q) ==
    {x \in q.closed : \E k \in 1 .. n - 1 : order[k] = <<x.media, x.part>>}

\* Mutant: a pause that fails is unwrapped and poisons both mutexes.
ClosePausesUnwraps(r) ==
    LET q == request[r]
        c == TakeCleared(q, gst[q.g])
    IN
    /\ q.pc = "cl_pause"
    /\ \E out \in SetState(q.g, Cleared(gst[q.g], q.p), "Paused") :
          \/ /\ out.ok
             /\ gst' = [gst EXCEPT ![q.g] = [out.to EXCEPT !.bound = @ \ c.closed]]
             /\ Go(r, "cl_remove", c)
             /\ UNCHANGED mutexes
          \/ /\ ~out.ok
             /\ gst' = [gst EXCEPT ![q.g] = out.to]
             /\ inner_mutex' = [inner_mutex EXCEPT ![q.g] = "poisoned"]
             /\ pipeline_mutex' = [pipeline_mutex EXCEPT ![q.g] = "poisoned"]
             /\ Done(r)
    /\ UNCHANGED <<bus, pad, pipeline_map, producers, issued>>

\* The pipeline is paused, and the elements are set to Null once more; the first that
\* fails ends the request.
ClosePauses(r) ==
    LET q == request[r]
        c == TakeCleared(q, gst[q.g])
    IN
    /\ q.pc = "cl_pause"
    /\ \E out \in SetState(q.g, Cleared(gst[q.g], q.p), "Paused") :
          \/ /\ out.ok
             /\ gst' = [gst EXCEPT ![q.g] = [out.to EXCEPT !.bound = @ \ c.closed]]
             /\ Go(r, "cl_remove", c)
             /\ UNCHANGED mutexes
          \/ /\ out.ok /\ "element" \in Faults
             /\ \E n \in Turns(NullOrder, c) :
                   gst' = [gst EXCEPT ![q.g] =
                             [out.to EXCEPT !.bound = @ \ Before(NullOrder, n, c)]]
             /\ Unlock(q.g, r) /\ Done(r)
          \/ /\ ~out.ok
             /\ gst' = [gst EXCEPT ![q.g] = out.to]
             /\ Unlock(q.g, r) /\ Done(r)
    /\ UNCHANGED <<bus, pad, pipeline_map, producers, issued>>

\* Instance i without the elements removed before place n; the pads of rtpbin are
\* released after the udpsrc elements of audio.
Without(i, n, q) ==
    [i EXCEPT !.elements = @ \ Before(RemoveOrder, n, q),
              !.bound = @ \ Before(RemoveOrder, n, q),
              !.linked = IF n > 2 THEN @ \ q.pads ELSE @,
              !.fed = IF n > 2 THEN @ \ q.pads ELSE @]

AllRemoved == Len(RemoveOrder) + 1

\* Every removal before place n succeeds: the udpsrc elements are in the pipeline.
Removes(i, n, q) == Before(RemoveOrder, n, q) \subseteq i.elements

\* Mutant: only sources of audio make the pipeline play again.
CloseRemovesResumesAudio(r) ==
    LET q == request[r]
        i == gst[q.g]
        playing == \E x \in i.udp_src : x.part = "rtp" /\ x.media = "audio"
    IN
    /\ q.pc = "cl_remove"
    /\ \/ \E n \in Turns(RemoveOrder, q) :
             /\ Removes(i, n, q)
             /\ ~Removes(i, n + 1, q) \/ "element" \in Faults
             /\ gst' = [gst EXCEPT ![q.g] = Without(i, n, q)]
       \/ /\ Removes(i, AllRemoved, q) /\ ~playing
          /\ gst' = [gst EXCEPT ![q.g] = Without(i, AllRemoved, q)]
       \/ /\ Removes(i, AllRemoved, q) /\ playing
          /\ \E out \in SetState(q.g, Without(i, AllRemoved, q), "Playing") :
                gst' = [gst EXCEPT ![q.g] = out.to]
    /\ Unlock(q.g, r)
    /\ Done(r)
    /\ UNCHANGED <<bus, pad, pipeline_map, producers, issued>>

\* The elements leave the pipeline; one that is not in it, or cannot be removed, ends
\* the request.  The pipeline plays again if other sources are left.
CloseRemoves(r) ==
    LET q == request[r]
        i == gst[q.g]
        playing == \E x \in i.udp_src : x.part = "rtp"
    IN
    /\ q.pc = "cl_remove"
    /\ \/ \E n \in Turns(RemoveOrder, q) :
             /\ Removes(i, n, q)
             /\ ~Removes(i, n + 1, q) \/ "element" \in Faults
             /\ gst' = [gst EXCEPT ![q.g] = Without(i, n, q)]
       \/ /\ Removes(i, AllRemoved, q) /\ ~playing
          /\ gst' = [gst EXCEPT ![q.g] = Without(i, AllRemoved, q)]
       \/ /\ Removes(i, AllRemoved, q) /\ playing
          /\ \E out \in SetState(q.g, Without(i, AllRemoved, q), "Playing") :
                gst' = [gst EXCEPT ![q.g] = out.to]
    /\ Unlock(q.g, r)
    /\ Done(r)
    /\ UNCHANGED <<bus, pad, pipeline_map, producers, issued>>

-----------------------------------------------------------------------------
(* end_meeting *)

BeginEnd(r) ==
    \E m \in Meetings :
        /\ "end" \in Operations
        /\ request[r] = NoRequest
        /\ Go(r, "en_maps", [NoRequest EXCEPT !.m = m])
        /\ UNCHANGED <<gst, mutexes, bus, pad, pipeline_map, producers, issued>>

EndInMaps(r) ==
    LET q == request[r] IN
    /\ q.pc = "en_maps"
    /\ producers' = {x \in producers : x.m # q.m}
    /\ Go(r, "en_lookup", q)
    /\ UNCHANGED <<gst, mutexes, bus, pad, pipeline_map, issued>>

\* The entry is removed from a clone of pipeline_map: the map keeps it.
EndLookup(r) ==
    LET q == request[r] IN
    /\ q.pc = "en_lookup"
    /\ MapReaders = {}
    /\ \/ pipeline_map[q.m] = None /\ Done(r)
       \/ pipeline_map[q.m] # None /\ Go(r, "en_null", [q EXCEPT !.g = pipeline_map[q.m]])
    /\ UNCHANGED <<gst, mutexes, bus, pad, pipeline_map, producers, issued>>

\* A blocking task stops the pipeline after the reply.
EndStops(r) ==
    LET q == request[r] IN
    /\ q.pc = "en_null"
    /\ pipeline_mutex[q.g] = None
    /\ \E out \in SetState(q.g, gst[q.g], "Null") : gst' = [gst EXCEPT ![q.g] = out.to]
    /\ Done(r)
    /\ UNCHANGED <<mutexes, bus, pad, pipeline_map, producers, issued>>

-----------------------------------------------------------------------------
(* rtp_bin_element_handling, the pad-added callback of rtpbin *)

\* rtpbin adds a pad for a session data arrives on.  The mutex around the
\* callback's clone of the instance lets one callback run at a time.
PadAdded(g) ==
    /\ pad[g] = NoPad
    /\ gst[g].state = "Playing"
    /\ \E src \in gst[g].linked \cap gst[g].fed, part \in PadParts :
          pad' = [pad EXCEPT ![g] = [pc |-> "pad_pipeline", src |-> src, part |-> part]]
    /\ UNCHANGED <<gst, mutexes, bus, pipeline_map, producers, request, issued>>

\* A state change of the callback: one that fails is posted on the bus.
PadSetsState(g, i, s) ==
    \E out \in SetState(g, i, s) :
        gst' = [gst EXCEPT ![g] =
                  IF out.ok THEN out.to ELSE [out.to EXCEPT !.errors = @ \cup {"failed"}]]

PadLocksPipeline(g) ==
    /\ pad[g].pc = "pad_pipeline"
    /\ pipeline_mutex[g] = None
    /\ pipeline_mutex' = [pipeline_mutex EXCEPT ![g] = "pad"]
    /\ pad' = [pad EXCEPT ![g].pc = "pad_inner"]
    /\ PadSetsState(g, gst[g], "Paused")
    /\ UNCHANGED <<inner_mutex, bus, pipeline_map, producers, request, issued>>

PadLocksInner(g) ==
    /\ pad[g].pc = "pad_inner"
    /\ inner_mutex[g] = None
    /\ inner_mutex' = [inner_mutex EXCEPT ![g] = "pad"]
    /\ pad' = [pad EXCEPT ![g].pc = "pad_insert"]
    /\ UNCHANGED <<gst, pipeline_mutex, bus, pipeline_map, producers, request, issued>>

\* The callback works on session x of its pad, and ends.
PadHandles(g, x) ==
    /\ pad[g].pc = "pad_insert"
    /\ x \in gst[g].sessions /\ x.src = pad[g].src
    /\ pad' = [pad EXCEPT ![g] = NoPad]
    /\ Unlock(g, "pad")
    /\ UNCHANGED <<bus, pipeline_map, producers, request, issued>>

Posted(i) == [i EXCEPT !.errors = @ \cup {"failed"}]

\* The new elements of session x replace those of its participant.
ReplaceBranch(i, x, part) == [i EXCEPT !.branches = Insert(@, [x EXCEPT !.part = part])]

\* An element that cannot be made ends the callback before anything is replaced.
PadCannotMake(g) == "element" \in Faults /\ gst' = [gst EXCEPT ![g] = Posted(@)]

\* The elements are replaced and the pipeline plays; one that cannot be added,
\* removed or linked is posted on the bus and left.
PadReplaces(g, x) ==
    LET i == ReplaceBranch(gst[g], x, pad[g].part) IN
    \/ PadSetsState(g, i, "Playing")
    \/ "element" \in Faults /\ PadSetsState(g, Posted(i), "Playing")

PadVideo(g) ==
    \E x \in gst[g].sessions :
        /\ PadHandles(g, x)
        /\ pad[g].part = "rtp" /\ x.media = "video"
        /\ PadCannotMake(g) \/ PadReplaces(g, x)

\* Without a pad of the mixer the callback ends with the pipeline paused.
PadAudio(g) ==
    \E x \in gst[g].sessions :
        /\ PadHandles(g, x)
        /\ pad[g].part = "rtp" /\ x.media = "audio"
        /\ \/ PadCannotMake(g)
           \/ PadReplaces(g, x)
           \/ /\ "element" \in Faults
              /\ gst' = [gst EXCEPT ![g] = Posted(ReplaceBranch(@, x, "rtp"))]

PadRtcp(g) ==
    \E x \in gst[g].sessions :
        /\ PadHandles(g, x)
        /\ pad[g].part = "rtcp"
        /\ PadCannotMake(g) \/ PadReplaces(g, x)

Restart ==
    /\ gst' = [g \in Gstreamers |-> NewGstreamer]
    /\ inner_mutex' = [g \in Gstreamers |-> None]
    /\ pipeline_mutex' = [g \in Gstreamers |-> None]
    /\ bus' = [g \in Gstreamers |-> "none"]
    /\ pad' = [g \in Gstreamers |-> NoPad]
    /\ pipeline_map' = [m \in Meetings |-> None]
    /\ producers' = {}
    /\ request' = [r \in Requests |-> NoRequest]
    /\ UNCHANGED issued

\* The session is not in session_participant_meta_map, the compositor gives no pad,
\* the sink of audio RTCP cannot be added or a mutex is poisoned: unwrap panics and
\* the process aborts.
PadPanics(g) ==
    /\ \/ pad[g].pc = "pad_insert" /\ \A x \in gst[g].sessions : x.src # pad[g].src
       \/ /\ pad[g].pc = "pad_insert" /\ "element" \in Faults
          /\ \E x \in gst[g].sessions :
                x.src = pad[g].src /\ (pad[g].part = "rtp") = (x.media = "video")
       \/ pad[g].pc = "pad_pipeline" /\ pipeline_mutex[g] = "poisoned"
       \/ pad[g].pc = "pad_inner" /\ inner_mutex[g] = "poisoned"
    /\ Restart

-----------------------------------------------------------------------------
(* The bus thread and the messages GStreamer posts *)

\* Data arrives on a pad whose decoding elements were replaced by those of the
\* participant's other video.
PadNotLinked(g) ==
    /\ gst[g].state = "Playing" /\ pad[g] = NoPad
    /\ "not-linked" \notin gst[g].errors
    /\ \E x \in gst[g].sessions :
          /\ x.src \in gst[g].fed
          /\ \A y \in gst[g].branches : y.src # x.src
          /\ \E y \in gst[g].branches : SameKey(x, y)
    /\ gst' = [gst EXCEPT ![g].errors = @ \cup {"not-linked"}]
    /\ UNCHANGED <<mutexes, bus, pad, pipeline_map, producers, request, issued>>

PipelineError(g) ==
    /\ "bus" \in Faults
    /\ gst[g].state = "Playing"
    /\ "failed" \notin gst[g].errors
    /\ gst' = [gst EXCEPT ![g].errors = @ \cup {"failed"}]
    /\ UNCHANGED <<mutexes, bus, pad, pipeline_map, producers, request, issued>>

\* A pad that is not linked: the pipeline is restarted, Null and then Playing.
BusRestarts(g) ==
    /\ bus[g] = "watching"
    /\ "not-linked" \in gst[g].errors
    /\ pipeline_mutex[g] = None
    /\ bus' = [bus EXCEPT ![g] = "restarting"]
    /\ \E out \in SetState(g, gst[g], "Null") :
          gst' = [gst EXCEPT ![g] = [out.to EXCEPT !.errors = @ \ {"not-linked"}]]
    /\ UNCHANGED <<mutexes, pad, pipeline_map, producers, request, issued>>

\* Should Playing fail, unwrap panics with the guard of the pipeline held, which
\* poisons its mutex.
BusPlays(g) ==
    /\ bus[g] = "restarting"
    /\ pipeline_mutex[g] = None
    /\ \E out \in SetState(g, gst[g], "Playing") :
          /\ gst' = [gst EXCEPT ![g] = out.to]
          /\ \/ /\ out.ok
                /\ bus' = [bus EXCEPT ![g] = "watching"]
                /\ UNCHANGED pipeline_mutex
             \/ /\ ~out.ok
                /\ bus' = [bus EXCEPT ![g] = "ended"]
                /\ pipeline_mutex' = [pipeline_mutex EXCEPT ![g] = "poisoned"]
    /\ UNCHANGED <<inner_mutex, pad, pipeline_map, producers, request, issued>>

\* Any other error, or the end of the stream: the pipeline is stopped for good.
BusStops(g) ==
    /\ bus[g] = "watching"
    /\ "failed" \in gst[g].errors
    /\ pipeline_mutex[g] = None
    /\ bus' = [bus EXCEPT ![g] = "ended"]
    /\ \E out \in SetState(g, gst[g], "Null") :
          gst' = [gst EXCEPT ![g] = [out.to EXCEPT !.errors = @ \ {"failed"}]]
    /\ UNCHANGED <<mutexes, pad, pipeline_map, producers, request, issued>>

(* A request that locks a poisoned mutex panics, and poisons those it holds. *)

InnerSteps == {"st_rtp", "st_shared", "st_meta", "st_fail", "cl_inner"}
PipelineSteps == {"st_pause", "st_add", "st_clone", "st_abort", "cl_pipeline", "en_null"}

RequestPanics(r) ==
    LET q == request[r] IN
    /\ \/ q.pc \in InnerSteps /\ inner_mutex[q.g] = "poisoned"
       \/ q.pc \in PipelineSteps /\ pipeline_mutex[q.g] = "poisoned"
    /\ inner_mutex' = [g \in Gstreamers |->
                          IF inner_mutex[g] = r THEN "poisoned" ELSE inner_mutex[g]]
    /\ Done(r)
    /\ UNCHANGED <<gst, pipeline_mutex, bus, pad, pipeline_map, producers, issued>>

-----------------------------------------------------------------------------
StartRecording(r) ==
    \/ BeginStart(r) \/ Lookup(r) \/ GetFreePort(r)
    \/ MakeSource(r) \/ MakeElements(r)
    \/ PausePipeline(r) \/ AddElements(r) \/ LinkSource(r) \/ InsertSession(r)
    \/ WatchBus(r) \/ PlayPipeline(r)
    \/ FailSource(r) \/ AbortState(r) \/ DropSource(r) \/ ReplayPipeline(r)
    \/ ConnectPlain(r) \/ RegisterProducer(r) \/ PublishProducer(r) \/ InsertPipeline(r)

CloseProducers(r) ==
    \/ BeginClose(r) \/ CloseInMaps(r) \/ CloseLookup(r)
    \/ CloseLocksInner(r) \/ CloseLocksPipeline(r) \/ ClosePauses(r) \/ CloseRemoves(r)

EndMeeting(r) == BeginEnd(r) \/ EndInMaps(r) \/ EndLookup(r) \/ EndStops(r)

Callback(g) ==
    \/ PadAdded(g) \/ PadLocksPipeline(g) \/ PadLocksInner(g)
    \/ PadVideo(g) \/ PadAudio(g) \/ PadRtcp(g) \/ PadPanics(g)

BusThread(g) ==
    \/ PadNotLinked(g) \/ PipelineError(g) \/ BusRestarts(g) \/ BusPlays(g) \/ BusStops(g)

Next ==
    \/ \E r \in Requests :
          StartRecording(r) \/ CloseProducers(r) \/ EndMeeting(r) \/ RequestPanics(r)
    \/ \E g \in Gstreamers : Callback(g) \/ BusThread(g)

Spec == Init /\ [][Next]_vars

-----------------------------------------------------------------------------
(* Properties *)

\* Type correctness: the maps hold elements, every mutex has a holder, is free or is
\* poisoned, and every request, callback and bus thread is at a step it can be at.
RecordingTypeOK ==
    /\ \A g \in Gstreamers :
          /\ gst[g].m \in Meetings \cup {None}
          /\ gst[g].state \in {"Null", "Paused", "Playing"}
          /\ gst[g].attached \subseteq gst[g].shared
          /\ gst[g].udp_src \cup gst[g].elements \cup gst[g].sessions
               \cup gst[g].branches \subseteq Element
          /\ gst[g].bound \subseteq gst[g].elements
          /\ gst[g].linked \cup gst[g].fed \subseteq Sources
          /\ inner_mutex[g] \in Requests \cup {None, "pad", "poisoned"}
          /\ pipeline_mutex[g] \in Requests \cup {None, "pad", "poisoned"}
          /\ bus[g] \in {"none", "watching", "restarting", "ended"}
          /\ pad[g].pc \in {"idle", "pad_pipeline", "pad_inner", "pad_insert"}
    /\ \A m \in Meetings : pipeline_map[m] \in Gstreamers \cup {None}
    /\ \A r \in Requests :
          request[r].pc \in StartSteps \cup {"idle", "cl_maps", "cl_lookup", "cl_inner",
              "cl_pipeline", "cl_pause", "cl_remove", "en_maps", "en_lookup", "en_null"}

\* Nothing is under way on the pipeline of instance g, and its mutexes are usable.
Quiet(g) ==
    /\ \A r \in Requests : request[r].m # gst[g].m \/ request[r] = NoRequest
    /\ pad[g] = NoPad
    /\ bus[g] # "restarting" /\ gst[g].errors = {}
    /\ inner_mutex[g] = None /\ pipeline_mutex[g] = None

\* Starting a recording, closing producers and the callback all pause the pipeline.
\* When they are over and sources are left, it is not left paused, whatever the
\* order in which they ran: the recording of the other participants goes on.
NotLeftPaused ==
    \A g \in Gstreamers :
        Quiet(g) /\ (\E x \in gst[g].udp_src : x.part = "rtp") => gst[g].state # "Paused"

\* A meeting is recorded by one pipeline: the mutex of the meeting covers the lookup
\* in pipeline_map, the start of a new pipeline and its insertion.
OnePipelinePerMeeting ==
    \A g, h \in Gstreamers :
        gst[g].state = "Playing" /\ gst[h].state = "Playing" /\ gst[g].m = gst[h].m => g = h

\* The pipeline of a meeting is never replaced by another one, which would leave the
\* first recording with nothing to stop it; only the end of the process clears the map.
PipelineIsStable ==
    [][\/ \A m \in Meetings : pipeline_map[m] \in {None, pipeline_map'[m]}
       \/ Restart]_vars

\* A pipeline plays only once a thread was started to watch its bus.
PlayingWasWatched == \A g \in Gstreamers : gst[g].state = "Playing" => bus[g] # "none"

\* Only the unwrap of the bus thread poisons a mutex, and the mutex of inner follows
\* that of the pipeline: the failures of a start or of a close are returned, so the
\* recording of the other participants and the callbacks can go on.
PoisonedByTheBusThread ==
    \A g \in Gstreamers :
        /\ inner_mutex[g] = "poisoned" => pipeline_mutex[g] = "poisoned"
        /\ pipeline_mutex[g] = "poisoned" => bus[g] = "ended"

\* "Fields are intentionally wrapped with Arc<Mutex<...>> so they can be safely shared
\* across the async code paths and the synchronous GStreamer callbacks": no request
\* and callback wait for the mutex the other holds.
NoCircularWait ==
    \A g \in Gstreamers, r \in Requests :
        ~ /\ request[r].g = g /\ request[r].pc \in {"cl_pipeline", "st_abort"}
          /\ pad[g].pc = "pad_inner"
          /\ inner_mutex[g] = r /\ pipeline_mutex[g] = "pad"

\* "Only the specified producers will be closed": a producer that is still open keeps
\* the udpsrc that records it.
OpenProducersAreRecorded ==
    \A x \in producers :
        Quiet(x.g) => \E y \in gst[x.g].elements : y.src = x.src /\ y.part = "rtp"

\* The probe of get_free_audio_port and get_free_video_port closes its socket again, so
\* the port is unreserved until the pipeline plays.  Where requests come one at a time
\* and no screen share makes the bus thread restart the pipeline, the port is still free
\* then, or bound by this start, whatever the callbacks did to the pipeline in between.
PortIsStillFree ==
    \A r \in Requests : request[r].pc = "st_play" =>
        \A x \in Bound(Gstreamers) :
            x.part = "rtp" /\ x.port = request[r].port => x.src = request[r].src

\* Whatever mix of audio and video is recorded and whichever starts failed half-way, a
\* producer is published only into a pipeline that holds the rtpbin, the compositor, the
\* encoder and the sink of the file, never with half of the mixer; and the start that
\* makes a pipeline leaves it whole for its own media.  What a start that failed made and
\* did not add is thus never taken for added by the next one, but for a mixer whose
\* first audio failed in a pipeline of video.
PublishedIntoWholePipeline ==
    /\ \A x \in producers :
          /\ Needed("video") \subseteq gst[x.g].attached
          /\ ~Torn(gst[x.g].attached, {"audiomixer", "opusenc"})
    /\ \A r \in Requests :
          request[r].pc \in {"st_connect", "st_register", "st_publish", "st_insert"}
            /\ ~request[r].exists
          => Needed(Media(request[r].kind)) \subseteq gst[request[r].g].attached

\* The port a start probed may be bound by anybody until its pipeline plays: by another
\* start, or by elements that an end or a restart had unbound.  A start that lost its
\* port, or the one of RTCP, which is not probed, is not published: while a pipeline is
\* not stopped, the udpsrc elements of a published producer hold their own sockets, so no
\* recording receives the media of another.
RecordedFromItsOwnPort ==
    \A x \in producers : gst[x.g].state # "Null" =>
        \A e \in gst[x.g].udp_src : e.src = x.src =>
            /\ e \in gst[x.g].bound
            /\ \A f \in Bound(Gstreamers) : ~Clash(e, f)

\* end_meeting "stops any active recording pipelines" (mod.rs:3158): in a meeting
\* without requests, whose pipeline of the map is stopped, no other pipeline plays,
\* even where a start failed before its pipeline was entered into the map.
EndStopsRecordings ==
    \A m \in Meetings :
        /\ pipeline_map[m] # None
        /\ gst[pipeline_map[m]].state = "Null"
        /\ \A r \in Requests : request[r].m # m
        => \A g \in Gstreamers : gst[g].m = m => gst[g].state # "Playing"
=============================================================================
