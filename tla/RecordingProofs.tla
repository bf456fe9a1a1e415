-------------------------- MODULE RecordingProofs ---------------------------
(***************************************************************************)
(* What Recording guarantees for every set of meetings, participants,      *)
(* requests, instances and ports, proved with TLAPS.                       *)
(***************************************************************************)
EXTENDS Recording, TLAPS, WellFoundedInduction

USE GstreamerAssumption

-----------------------------------------------------------------------------
(* Types *)

Steps == StartSteps \cup {"idle", "cl_maps", "cl_lookup", "cl_inner",
              "cl_pipeline", "cl_pause", "cl_remove", "en_maps", "en_lookup", "en_null"}

\* Steps of a start that found or made its instance.
Started == StartSteps \ {"st_lookup"}

\* The steps of a close that hold the read guard of pipeline_map.
CloseSteps == {"cl_inner", "cl_pipeline", "cl_pause", "cl_remove"}

SharedElements ==
    {"rtpbin", "audiomixer", "opusenc", "compositor", "x264enc", "splitmuxsink"}

Instance ==
    [m : Meetings \cup {None}, state : {"Null", "Paused", "Playing"},
     shared : SUBSET SharedElements, attached : SUBSET SharedElements,
     udp_src : SUBSET Element, elements : SUBSET Element, bound : SUBSET Element,
     linked : SUBSET Sources, fed : SUBSET Sources,
     sessions : SUBSET Element, branches : SUBSET Element,
     errors : SUBSET {"not-linked", "failed"}]

\* An instance whose pipeline holds only elements that were made, and whose sockets
\* belong to elements of the pipeline.
Sound(i) == i \in Instance /\ i.attached \subseteq i.shared /\ i.bound \subseteq i.elements

Call ==
    [pc : Steps, m : Meetings \cup {None}, p : Participants \cup {None},
     kind : RecordedKinds \cup {None}, kinds : SUBSET RecordedKinds, remove : BOOLEAN,
     g : Gstreamers \cup {None}, exists : BOOLEAN, src : Sources \cup {None},
     port : Ports \cup {None}, fresh : SUBSET SharedElements, closed : SUBSET Element,
     branches : SUBSET Element, pads : SUBSET Sources]

\* What a request knows at its step.
CallOK(q) ==
    /\ q \in Call
    /\ q.pc = "idle" => q = NoRequest
    /\ q.pc # "idle" => q.m \in Meetings
    /\ q.pc \in StartSteps => q.p \in Participants /\ q.kind \in RecordedKinds
    /\ q.pc \in Started => q.g \in Gstreamers
    /\ q.exists => q.pc \in Started
    /\ q.pc \in Started \ {"st_port"} => q.src \in Sources /\ q.port \in Ports
    /\ q.pc \in CloseSteps \cup {"en_null"} => q.g \in Gstreamers
    /\ q.pc \in {"cl_maps", "cl_lookup"} \cup CloseSteps => q.p \in Participants

Pad == [pc : {"idle", "pad_pipeline", "pad_inner", "pad_insert"},
        src : Sources \cup {None}, part : PadParts \cup {None}]

Published == [m : Meetings, p : Participants, kind : RecordedKinds, src : Sources, g : Gstreamers]

\* Types of the variables but gst and request.
OthersOK ==
    /\ inner_mutex \in [Gstreamers -> Requests \cup {None, "pad", "poisoned"}]
    /\ pipeline_mutex \in [Gstreamers -> Requests \cup {None, "pad", "poisoned"}]
    /\ bus \in [Gstreamers -> {"none", "watching", "restarting", "ended"}]
    /\ pad \in [Gstreamers -> Pad]
    /\ pipeline_map \in [Meetings -> Gstreamers \cup {None}]
    /\ producers \subseteq Published
    /\ issued \subseteq Sources

GstOK == gst = [g \in Gstreamers |-> gst[g]] /\ \A g \in Gstreamers : Sound(gst[g])

RequestOK == request = [r \in Requests |-> request[r]] /\ \A r \in Requests : CallOK(request[r])

\* The elements a start is about to add were made: what is attached was made.
FreshMade ==
    \A r \in Requests : request[r].pc \in {"st_pause", "st_add"} =>
        request[r].fresh \subseteq gst[request[r].g].shared

Typed == GstOK /\ RequestOK /\ OthersOK /\ FreshMade

-----------------------------------------------------------------------------
(* Inductive invariants *)

\* Requests that work on a pipeline whose bus is watched.
WatchedSteps == {"st_play", "st_fail", "st_abort", "st_drop", "st_replay", "st_connect",
                 "st_register", "st_publish", "st_insert"} \cup CloseSteps
Watching(q) == q.exists \/ q.pc \in WatchedSteps

WatchInv ==
    /\ PlayingWasWatched
    /\ \A m \in Meetings : pipeline_map[m] # None => bus[pipeline_map[m]] # "none"
    /\ \A r \in Requests : Watching(request[r]) => bus[request[r].g] # "none"
    /\ \A g \in Gstreamers : pad[g] # NoPad => bus[g] # "none"

InnerHeld == {"cl_pipeline", "cl_pause", "cl_remove", "st_abort", "st_drop"}

LockInv ==
    /\ PoisonedByTheBusThread
    /\ \A g \in Gstreamers, r \in Requests :
          inner_mutex[g] = r => request[r].g = g /\ request[r].pc \in InnerHeld

MapInv ==
    /\ \A r, o \in Requests :
          request[r].pc \in StartSteps /\ request[o].pc \in StartSteps
            /\ request[r].m = request[o].m => r = o
    /\ \A r \in Requests : request[r].pc \in Started =>
          pipeline_map[request[r].m] = IF request[r].exists THEN request[r].g ELSE None

MeetingInv ==
    /\ \A m \in Meetings : pipeline_map[m] # None => gst[pipeline_map[m]].m = m
    /\ \A r \in Requests : request[r].pc \in Started => gst[request[r].g].m = request[r].m

\* A start that will enter its pipeline into the map.
Entering(q) == q.pc \in {"st_connect", "st_register", "st_publish", "st_insert"}

Known(g) ==
    \/ \E m \in Meetings : pipeline_map[m] = g
    \/ \E r \in Requests : Entering(request[r]) /\ request[r].g = g

\* Something goes on, or may, on the pipeline of instance g.
Active(g) ==
    \/ gst[g].state = "Playing"
    \/ gst[g].errors # {}
    \/ pad[g] # NoPad
    \/ bus[g] = "restarting"

FailSteps == {"st_fail", "st_abort", "st_drop", "st_replay"}

KnownInv ==
    /\ \A g \in Gstreamers : Active(g) => Known(g)
    /\ \A r \in Requests : request[r].pc \in CloseSteps => pipeline_map[request[r].m] = request[r].g
    /\ \A r \in Requests : request[r].pc \in FailSteps => request[r].exists

\* The steps of a start before it makes, and before it adds, the shared elements.
Making == {"st_port", "st_rtp", "st_shared"}
Adding == {"st_pause", "st_add"}

StartWhole(r) ==
    LET q == request[r] IN
    /\ q.pc \in Making /\ ~q.exists => gst[q.g].shared = {}
    /\ q.pc \in Adding /\ ~q.exists => q.fresh = Needed(Media(q.kind))
    /\ q.pc \in Started \ (Making \cup Adding) =>
          /\ Needed("video") \subseteq gst[q.g].attached
          /\ ~q.exists => Needed(Media(q.kind)) \subseteq gst[q.g].attached

\* The mixer and its encoder are added together.
Unbroken(i) == ~Torn(i.attached, {"audiomixer", "opusenc"})

WholeInv ==
    /\ \A g \in Gstreamers : Unbroken(gst[g])
    /\ \A m \in Meetings : pipeline_map[m] # None =>
          Needed("video") \subseteq gst[pipeline_map[m]].attached
    /\ \A r \in Requests : StartWhole(r)
    /\ \A x \in producers : Needed("video") \subseteq gst[x.g].attached
-----------------------------------------------------------------------------
(* Lemmas about the operators of the model *)

\* Every shared element a start makes is in a group that is added to the pipeline.
LEMMA NeededShared ==
  ASSUME NEW media \in {"audio", "video"}
  PROVE  Needed(media) \subseteq SharedElements
  BY DEF Needed, CreationOrder, SharedElements

\* create_*_elements make a finite sequence of shared elements.
LEMMA OrderTyped ==
  ASSUME NEW media \in {"audio", "video"}
  PROVE  /\ Len(CreationOrder(media)) \in Nat
         /\ DOMAIN CreationOrder(media) = 1 .. Len(CreationOrder(media))
<1>1. CASE media = "audio"
  <2>1. CreationOrder(media) = <<"rtcpsrc", "rtpbin", "audiomixer", "opusenc",
                                 "compositor", "x264enc", "splitmuxsink">>
    BY <1>1 DEF CreationOrder
  <2> QED
    BY <2>1
<1>2. CASE media = "video"
  <2>1. CreationOrder(media) = <<"compositor", "x264enc", "splitmuxsink", "rtcpsrc", "rtpbin">>
    BY <1>2 DEF CreationOrder
  <2> QED
    BY <2>1
<1> QED
  BY <1>1, <1>2

\* A screenshare is video, like a camera.
LEMMA MediaTyped == \A kind : Media(kind) \in {"audio", "video"}
  BY DEF Media

\* The groups hold all shared elements.
LEMMA GroupsCover ==
  /\ Len(Groups) = 4
  /\ UNION {Groups[k] : k \in 1 .. Len(Groups)} = SharedElements
  /\ \A n \in 0 .. Len(Groups) : UNION {Groups[k] : k \in 1 .. n} \subseteq SharedElements
<1>1. Len(Groups) = 4
  BY DEF Groups
<1>2. SharedElements = Groups[1] \cup Groups[2] \cup Groups[3] \cup Groups[4]
  BY DEF Groups, SharedElements
<1>3. \A k \in 1 .. 4 : k = 1 \/ k = 2 \/ k = 3 \/ k = 4
  OBVIOUS
<1> QED
  BY <1>1, <1>2, <1>3

\* set_state leaves everything of an instance alone but its state and its sockets; a
\* change that fails leaves the state, too.
LEMMA SetStateSound ==
  ASSUME NEW g \in Gstreamers, NEW i, Sound(i), NEW s \in {"Null", "Paused", "Playing"},
         NEW out \in SetState(g, i, s)
  PROVE  /\ Sound(out.to)
         /\ out.ok \in BOOLEAN
         /\ out.ok => out.to.state = s
         /\ ~out.ok => out.to.state = i.state
         /\ out.to.state \in {i.state, s}
         /\ s = "Null" => out.to.state = "Null"
         /\ out.to.m = i.m
         /\ out.to.shared = i.shared
         /\ out.to.attached = i.attached
         /\ out.to.errors = i.errors
         /\ out.to.udp_src = i.udp_src
         /\ out.to.sessions = i.sessions
         /\ out.to.elements = i.elements
<1>1. i \in Instance /\ i.attached \subseteq i.shared /\ i.bound \subseteq i.elements
  BY DEF Sound
<1>2. CASE s = "Null"
  <2>1. out = [ok |-> TRUE, to |-> [i EXCEPT !.state = "Null", !.bound = {}]]
    BY <1>2 DEF SetState
  <2> QED
    BY <1>1, <1>2, <2>1 DEF Sound, Instance
<1>3. CASE s # "Null" /\ out = [ok |-> TRUE, to |-> [i EXCEPT !.state = s, !.bound = i.elements]]
  BY <1>1, <1>3 DEF Sound, Instance
<1>4. CASE s # "Null" /\ out = [ok |-> FALSE, to |-> i]
  BY <1>1, <1>4 DEF Sound, Instance
<1>5. ASSUME s # "Null", NEW S \in Bindable(g, i), out = [ok |-> FALSE, to |-> [i EXCEPT !.bound = S]]
      PROVE  /\ Sound(out.to)
             /\ out.ok = FALSE
             /\ out.to.state = i.state
             /\ out.to.m = i.m
             /\ out.to.shared = i.shared
             /\ out.to.attached = i.attached
             /\ out.to.errors = i.errors
             /\ out.to.udp_src = i.udp_src
             /\ out.to.sessions = i.sessions
             /\ out.to.elements = i.elements
  <2>1. S \subseteq i.elements
    BY DEF Bindable
  <2> QED
    BY <1>1, <1>5, <2>1 DEF Sound, Instance
<1>6. \/ s = "Null"
      \/ s # "Null" /\ out = [ok |-> TRUE, to |-> [i EXCEPT !.state = s, !.bound = i.elements]]
      \/ s # "Null" /\ out = [ok |-> FALSE, to |-> i]
      \/ s # "Null" /\ \E S \in Bindable(g, i) : out = [ok |-> FALSE, to |-> [i EXCEPT !.bound = S]]
  <2>1. CASE s = "Null"
    BY <2>1
  <2>2. CASE s # "Null" /\ i.elements \in Bindable(g, i)
    BY <2>2, Zenon DEF SetState
  <2>3. CASE s # "Null" /\ i.elements \notin Bindable(g, i)
    BY <2>3, Zenon DEF SetState
  <2> QED
    BY <2>1, <2>2, <2>3
<1> QED
  BY <1>2, <1>3, <1>4, <1>5, <1>6

-----------------------------------------------------------------------------
(* Steps of a request *)

\* The request goes on to `step` and keeps what it knows; the others do not move.
Walks(r, step) ==
    /\ request'[r].pc = step
    /\ request'[r].m = request[r].m
    /\ request'[r].p = request[r].p
    /\ request'[r].kind = request[r].kind
    /\ request'[r].g = request[r].g
    /\ request'[r].exists = request[r].exists
    /\ request'[r].fresh = request[r].fresh
    /\ \A o \in Requests \ {r} : request'[o] = request[o]

Ends(r) == request'[r] = NoRequest /\ \A o \in Requests \ {r} : request'[o] = request[o]

\* A request at `pc` knows what it needs to know at `step`.
Follows(pc, step) ==
    /\ pc # "idle" /\ step # "idle" /\ step \in Steps
    /\ step \in StartSteps => pc \in StartSteps
    /\ step \in Started <=> pc \in Started
    /\ step \in Started \ {"st_port"} => pc \in Started \ {"st_port"}
    /\ step \in CloseSteps \cup {"en_null"} => pc \in CloseSteps
    /\ step \in {"cl_maps", "cl_lookup"} \cup CloseSteps =>
          pc \in {"cl_maps", "cl_lookup"} \cup CloseSteps

\* A free slot is typed.
LEMMA NoRequestOK == CallOK(NoRequest)
  BY DEF CallOK, NoRequest, Call, Steps, StartSteps, Started, CloseSteps

\* Go assigns the step and the local variables of one request, and no other.
LEMMA GoFields ==
  ASSUME RequestOK, NEW r \in Requests, NEW q \in Call, NEW step \in Steps, Go(r, step, q)
  PROVE  /\ request' = [o \in Requests |-> request'[o]]
         /\ \A o \in Requests \ {r} : request'[o] = request[o]
         /\ request'[r] \in Call
         /\ request'[r].pc = step
         /\ request'[r].m = q.m
         /\ request'[r].p = q.p
         /\ request'[r].kind = q.kind
         /\ request'[r].kinds = q.kinds
         /\ request'[r].remove = q.remove
         /\ request'[r].g = q.g
         /\ request'[r].exists = q.exists
         /\ request'[r].src = q.src
         /\ request'[r].port = q.port
         /\ request'[r].fresh = q.fresh
         /\ request'[r].closed = q.closed
<1> DEFINE n == [q EXCEPT !.pc = step]
<1>1. request' = [request EXCEPT ![r] = n] /\ request = [o \in Requests |-> request[o]]
  BY DEF Go, RequestOK
<1>2. n \in Call /\ n.pc = step /\ n.m = q.m /\ n.p = q.p /\ n.kind = q.kind /\ n.g = q.g
      /\ n.kinds = q.kinds /\ n.remove = q.remove
      /\ n.exists = q.exists /\ n.src = q.src /\ n.port = q.port /\ n.fresh = q.fresh
      /\ n.closed = q.closed
  BY DEF Call
<1> HIDE DEF n
<1>3. request'[r] = n /\ \A o \in Requests \ {r} : request'[o] = request[o]
  BY <1>1
<1>4. request' = [o \in Requests |-> request'[o]]
  BY <1>1
<1> QED
  BY <1>2, <1>3, <1>4

\* A request that goes on with what it knows.
LEMMA GoWalks ==
  ASSUME RequestOK, NEW r \in Requests, NEW step, Go(r, step, request[r]),
         Follows(request[r].pc, step)
  PROVE  RequestOK' /\ Walks(r, step)
<1>1. CallOK(request[r]) /\ request[r] \in Call /\ step \in Steps
  BY DEF RequestOK, CallOK, Follows
<1>2. /\ request' = [o \in Requests |-> request'[o]]
      /\ \A o \in Requests \ {r} : request'[o] = request[o]
      /\ request'[r] \in Call
      /\ Walks(r, step)
      /\ request'[r].src = request[r].src
      /\ request'[r].port = request[r].port
  BY <1>1, GoFields DEF Walks
<1>3. CallOK(request'[r])
  BY <1>1, <1>2 DEF CallOK, Follows, Walks
<1> QED
  BY <1>2, <1>3 DEF RequestOK

\* A request that is done frees its slot.
LEMMA DoneEnds ==
  ASSUME RequestOK, NEW r \in Requests, Done(r)
  PROVE  RequestOK' /\ Ends(r)
<1>1. request' = [request EXCEPT ![r] = NoRequest] /\ request = [o \in Requests |-> request[o]]
  BY DEF Done, RequestOK
<1>2. Ends(r) /\ request' = [o \in Requests |-> request'[o]]
  BY <1>1 DEF Ends
<1> QED
  BY <1>2, NoRequestOK DEF RequestOK, Ends

\* What GstOK says of an instance that is changed.
LEMMA GstUpdate ==
  ASSUME GstOK, NEW g \in Gstreamers, NEW j, Sound(j), gst' = [gst EXCEPT ![g] = j]
  PROVE  GstOK' /\ gst'[g] = j /\ \A h \in Gstreamers \ {g} : gst'[h] = gst[h]
<1>1. gst = [h \in Gstreamers |-> gst[h]]
  BY DEF GstOK
<1>2. gst'[g] = j /\ \A h \in Gstreamers \ {g} : gst'[h] = gst[h]
  BY <1>1
<1>3. gst' = [h \in Gstreamers |-> gst'[h]]
  BY <1>1
<1> QED
  BY <1>2, <1>3 DEF GstOK

\* A set of ports has a first one.
LEMMA LeastPort ==
  ASSUME NEW S \in SUBSET Nat, S # {}
  PROVE  \E n \in S : \A k \in S : n <= k
<1>1. PICK n \in S : \A k \in S : ~(<<k, n>> \in OpToRel(<, Nat))
  BY NatLessThanWellFounded, WFMin, Zenon
<1>2. \A k \in S : ~(k < n)
  BY <1>1 DEF OpToRel
<1> QED
  BY <1>2

\* What start, close and the threads do not tell apart in an instance.
Alike(i, j) ==
    /\ j.m = i.m
    /\ j.state = i.state
    /\ j.shared = i.shared
    /\ j.attached = i.attached
    /\ j.errors = i.errors

Steady == \A g \in Gstreamers : Alike(gst[g], gst'[g])

\* Elements of the pipeline and of the maps stay, and so does the meeting.
Retains == \A g \in Gstreamers :
    /\ gst'[g].m = gst[g].m
    /\ gst[g].shared \subseteq gst'[g].shared
    /\ gst[g].attached \subseteq gst'[g].attached

\* Instances that do not change keep their elements.
LEMMA SteadyRetains == Steady => Retains
  BY DEF Steady, Retains, Alike

\* Untouched instances are steady and typed.
LEMMA SameSteady == gst' = gst => Steady /\ (GstOK => GstOK')
  BY DEF Steady, Alike, GstOK

\* Untouched requests are typed.
LEMMA SameRequests == request' = request => (RequestOK => RequestOK')
  BY DEF RequestOK

\* One instance changes, in nothing that matters to the others.
LEMMA AlikeSteady ==
  ASSUME GstOK, NEW g \in Gstreamers, NEW j, Sound(j), Alike(gst[g], j),
         gst' = [gst EXCEPT ![g] = j]
  PROVE  GstOK' /\ Steady
  BY GstUpdate DEF Steady, Alike

\* Elements that were made stay made for the starts that add them.
LEMMA FreshKept ==
  ASSUME RequestOK, FreshMade, Retains, NEW r \in Requests, NEW step,
         \/ Ends(r)
         \/ Walks(r, step) /\ (step \in {"st_pause", "st_add"} => request[r].pc = "st_pause")
  PROVE  FreshMade'
<1> SUFFICES ASSUME NEW o \in Requests, request'[o].pc \in {"st_pause", "st_add"}
             PROVE  request'[o].fresh \subseteq gst'[request'[o].g].shared
  BY DEF FreshMade
<1>1. request'[o].fresh = request[o].fresh /\ request'[o].g = request[o].g
      /\ request[o].pc \in {"st_pause", "st_add"}
  BY DEF Ends, Walks, NoRequest
<1>2. request[o].g \in Gstreamers
  BY <1>1 DEF RequestOK, CallOK, StartSteps, Started
<1> QED
  BY <1>1, <1>2 DEF FreshMade, Retains

\* The elements a start is about to add are still in the maps of its instance.
LEMMA FreshStays ==
  ASSUME RequestOK, FreshMade, Retains, request' = request
  PROVE  FreshMade'
  BY DEF FreshMade, Retains, RequestOK, CallOK, StartSteps, Started
-----------------------------------------------------------------------------
(* What the steps of a start do *)

\* A start begins only when no other start of its meeting is in progress.
LEMMA BeginStartStep ==
  ASSUME Typed, NEW r \in Requests, BeginStart(r)
  PROVE  /\ Typed' /\ Steady
         /\ UNCHANGED <<gst, mutexes, bus, pad, pipeline_map, producers, issued>>
         /\ request[r] = NoRequest
         /\ request'[r].pc = "st_lookup" /\ ~request'[r].exists /\ request'[r].m \in Meetings
         /\ \A o \in Requests : request[o].pc \in StartSteps => request[o].m # request'[r].m
         /\ \A o \in Requests \ {r} : request'[o] = request[o]
<1>1. PICK m \in Meetings, p \in Participants, kind \in RecordedKinds :
        /\ request[r] = NoRequest
        /\ \A o \in Requests : ~(request[o].pc \in StartSteps /\ request[o].m = m)
        /\ Go(r, "st_lookup", [NoRequest EXCEPT !.m = m, !.p = p, !.kind = kind])
        /\ UNCHANGED <<gst, mutexes, bus, pad, pipeline_map, producers, issued>>
  BY DEF BeginStart
<1> DEFINE q == [NoRequest EXCEPT !.m = m, !.p = p, !.kind = kind]
<1>2. q \in Call /\ q.m = m /\ q.p = p /\ q.kind = kind /\ q.exists = FALSE
  BY DEF Call, NoRequest, Steps
<1>3. "st_lookup" \in Steps /\ Go(r, "st_lookup", q) /\ RequestOK
  BY <1>1 DEF Steps, StartSteps, Typed
<1> HIDE DEF q
<1>4. /\ request' = [o \in Requests |-> request'[o]]
      /\ \A o \in Requests \ {r} : request'[o] = request[o]
      /\ request'[r] \in Call /\ request'[r].pc = "st_lookup" /\ request'[r].m = m
      /\ request'[r].p = p /\ request'[r].kind = kind /\ request'[r].exists = FALSE
  BY <1>2, <1>3, GoFields
<1>5. RequestOK'
  BY <1>4 DEF Typed, RequestOK, CallOK, StartSteps, Started, CloseSteps
<1>6. FreshMade'
  BY <1>1, <1>4 DEF Typed, FreshMade
<1>7. Steady /\ GstOK' /\ OthersOK'
  BY <1>1, SameSteady DEF Typed, OthersOK, mutexes
<1> QED
  BY <1>1, <1>4, <1>5, <1>6, <1>7 DEF Typed

\* A new Gstreamer has no elements, no sockets and no pipeline that plays.
LEMMA NewSound == Sound(NewGstreamer)
  BY DEF Sound, NewGstreamer, Instance

\* The lookup takes the pipeline of the map, or makes an instance that was nowhere.
LEMMA LookupStep ==
  ASSUME Typed, NEW r \in Requests, Lookup(r)
  PROVE  /\ Typed'
         /\ UNCHANGED <<mutexes, bus, pad, pipeline_map, producers, issued>>
         /\ request[r].pc = "st_lookup" /\ request'[r].pc = "st_port"
         /\ request[r].m \in Meetings /\ request'[r].m = request[r].m
         /\ \A o \in Requests \ {r} : request'[o] = request[o]
         /\ request'[r].g \in Gstreamers
         /\ \A g \in Gstreamers \ {request'[r].g} : gst'[g] = gst[g]
         /\ \/ /\ request'[r].exists /\ request'[r].g = pipeline_map[request[r].m]
               /\ gst' = gst
            \/ /\ ~request'[r].exists /\ pipeline_map[request[r].m] = None
               /\ gst[request'[r].g] = NewGstreamer
               /\ gst'[request'[r].g].m = request[r].m
               /\ Alike([NewGstreamer EXCEPT !.m = request[r].m], gst'[request'[r].g])
<1> DEFINE q == request[r]
<1>1. /\ q.pc = "st_lookup" /\ q \in Call /\ q.m \in Meetings /\ q.p \in Participants
      /\ q.kind \in RecordedKinds /\ q.exists = FALSE /\ "st_port" \in Steps /\ CallOK(q)
      /\ RequestOK
      /\ UNCHANGED <<mutexes, bus, pad, pipeline_map, producers, issued>>
  BY DEF Lookup, Typed, RequestOK, CallOK, Call, Steps, StartSteps, Started
<1>2. OthersOK' /\ pipeline_map[q.m] \in Gstreamers \cup {None}
  BY <1>1 DEF Typed, OthersOK, mutexes
<1>3. CASE pipeline_map[q.m] # None
  <2> DEFINE n == [q EXCEPT !.g = pipeline_map[q.m], !.exists = TRUE]
  <2>1. gst' = gst /\ Go(r, "st_port", n)
    BY <1>3 DEF Lookup
  <2>2. n \in Call /\ n.m = q.m /\ n.p = q.p /\ n.kind = q.kind /\ n.exists = TRUE
        /\ n.g = pipeline_map[q.m] /\ n.g \in Gstreamers
    BY <1>1, <1>2, <1>3 DEF Call
  <2> HIDE DEF n
  <2>3. /\ request' = [o \in Requests |-> request'[o]]
        /\ \A o \in Requests \ {r} : request'[o] = request[o]
        /\ request'[r] \in Call /\ request'[r].pc = "st_port" /\ request'[r].m = q.m
        /\ request'[r].p = q.p /\ request'[r].kind = q.kind /\ request'[r].exists = TRUE
        /\ request'[r].g = pipeline_map[q.m] /\ request'[r].g \in Gstreamers
    BY <1>1, <2>1, <2>2, GoFields
  <2>4. RequestOK'
    BY <1>1, <2>3 DEF RequestOK, CallOK, StartSteps, Started, CloseSteps
  <2>5. FreshMade'
    BY <2>1, <2>3 DEF Typed, FreshMade
  <2>6. GstOK'
    BY <2>1, SameSteady DEF Typed
  <2> QED
    BY <1>1, <1>2, <2>1, <2>3, <2>4, <2>5, <2>6 DEF Typed
<1>4. CASE pipeline_map[q.m] = None
  <2>1. PICK g \in Gstreamers :
           /\ gst[g] = NewGstreamer
           /\ gst' = [gst EXCEPT ![g].m = q.m]
           /\ Go(r, "st_port", [q EXCEPT !.g = g])
    BY <1>4 DEF Lookup
  <2> DEFINE n == [q EXCEPT !.g = g]
             j == [NewGstreamer EXCEPT !.m = q.m]
  <2>2. n \in Call /\ n.m = q.m /\ n.p = q.p /\ n.kind = q.kind /\ n.exists = FALSE /\ n.g = g
    BY <1>1 DEF Call
  <2>3. Sound(j) /\ j.m = q.m
    BY <1>1, NewSound DEF Sound, NewGstreamer, Instance
  <2>4. gst' = [gst EXCEPT ![g] = j] /\ Go(r, "st_port", n) /\ GstOK
    BY <2>1 DEF Typed
  <2> HIDE DEF n, j
  <2>5. GstOK' /\ gst'[g] = j /\ \A h \in Gstreamers \ {g} : gst'[h] = gst[h]
    BY <2>3, <2>4, GstUpdate
  <2>6. /\ request' = [o \in Requests |-> request'[o]]
        /\ \A o \in Requests \ {r} : request'[o] = request[o]
        /\ request'[r] \in Call /\ request'[r].pc = "st_port" /\ request'[r].m = q.m
        /\ request'[r].p = q.p /\ request'[r].kind = q.kind /\ request'[r].exists = FALSE
        /\ request'[r].g = g
    BY <1>1, <2>2, <2>4, GoFields
  <2>7. RequestOK'
    BY <1>1, <2>6 DEF RequestOK, CallOK, StartSteps, Started, CloseSteps
  <2>8. \A o \in Requests : request[o].pc \in {"st_pause", "st_add"} =>
           request[o].fresh \subseteq gst'[request[o].g].shared
    <3>1. \A o \in Requests : request[o].pc \in {"st_pause", "st_add"} => request[o].g \in Gstreamers
      BY <1>1 DEF RequestOK, CallOK, StartSteps, Started
    <3>2. gst[g].shared = gst'[g].shared
      BY <2>1, <2>5 DEF j, NewGstreamer
    <3> QED
      BY <2>5, <3>1, <3>2 DEF Typed, FreshMade
  <2>9. FreshMade'
    BY <2>6, <2>8 DEF FreshMade
  <2>10. Alike([NewGstreamer EXCEPT !.m = q.m], gst'[g])
    BY <2>5 DEF Alike, j
  <2> QED
    BY <1>1, <1>2, <1>4, <2>1, <2>3, <2>5, <2>6, <2>7, <2>9, <2>10 DEF Typed
<1> QED
  BY <1>3, <1>4

\* The request goes on, or ends, and the instances only gain elements.
LEMMA WalkTyped ==
  ASSUME Typed, NEW r \in Requests, GstOK', Retains, OthersOK', NEW step,
         Go(r, step, request[r]), Follows(request[r].pc, step),
         step \in {"st_pause", "st_add"} => request[r].pc = "st_pause"
  PROVE  Typed' /\ Walks(r, step)
<1>1. RequestOK' /\ Walks(r, step)
  BY GoWalks DEF Typed
<1>2. FreshMade'
  BY <1>1, FreshKept DEF Typed
<1> QED
  BY <1>1, <1>2 DEF Typed

\* A request that ends leaves a typed state.
LEMMA EndTyped ==
  ASSUME Typed, NEW r \in Requests, GstOK', Retains, OthersOK', Done(r)
  PROVE  Typed' /\ Ends(r)
<1>1. RequestOK' /\ Ends(r)
  BY DoneEnds DEF Typed
<1>2. FreshMade'
  BY <1>1, FreshKept DEF Typed
<1> QED
  BY <1>1, <1>2 DEF Typed

\* What a request that is recording knows.
LEMMA StartedKnows ==
  ASSUME Typed, NEW r \in Requests
  PROVE  /\ request[r] \in Call
         /\ request[r].pc \in StartSteps => request[r].m \in Meetings
                 /\ request[r].p \in Participants /\ request[r].kind \in RecordedKinds
         /\ request[r].pc \in Started => request[r].g \in Gstreamers /\ Sound(gst[request[r].g])
         /\ request[r].pc \in Started \ {"st_port"} =>
                 request[r].src \in Sources /\ request[r].port \in Ports
  BY DEF Typed, RequestOK, CallOK, GstOK, StartSteps, Started

\* get_free_port issues a port or fails the start.
LEMMA GetFreePortStep ==
  ASSUME Typed, NEW r \in Requests, GetFreePort(r)
  PROVE  /\ Typed' /\ Steady
         /\ UNCHANGED <<gst, mutexes, bus, pad, pipeline_map, producers>>
         /\ request[r].pc = "st_port"
         /\ Walks(r, "st_rtp") \/ Ends(r)
<1> DEFINE q == request[r]
           free == FreePorts(q.kind)
           port == CHOOSE port \in free : \A other \in free : port <= other
<1>1. q.pc = "st_port" /\ UNCHANGED <<gst, mutexes, bus, pad, pipeline_map, producers>>
  BY DEF GetFreePort
<1>2. Steady /\ GstOK' /\ Retains
  BY <1>1, SameSteady, SteadyRetains DEF Typed
<1>3. /\ q \in Call /\ q.m \in Meetings /\ q.p \in Participants /\ q.kind \in RecordedKinds
      /\ q.g \in Gstreamers /\ "st_rtp" \in Steps /\ CallOK(q) /\ RequestOK
  BY <1>1 DEF Typed, RequestOK, CallOK, StartSteps, Started, Steps
<1>4. ASSUME NEW src \in Sources \ issued, free # {}, issued' = issued \cup {src},
             Go(r, "st_rtp", [q EXCEPT !.src = src, !.port = port])
      PROVE  Typed' /\ Walks(r, "st_rtp")
  <2>1. free \subseteq Ports /\ free \subseteq Nat
    BY DEF FreePorts, PortRange, Ports
  <2>2. \E n \in free : \A other \in free : n <= other
    BY <1>4, <2>1, LeastPort
  <2>3. port \in Ports
    BY <2>1, <2>2
  <2> HIDE DEF port, free
  <2> DEFINE n == [q EXCEPT !.src = src, !.port = port]
  <2>4. n \in Call /\ n.m = q.m /\ n.p = q.p /\ n.kind = q.kind /\ n.exists = q.exists
        /\ n.g = q.g /\ n.src = src /\ n.port = port /\ n.fresh = q.fresh /\ Go(r, "st_rtp", n)
    BY <1>3, <1>4, <2>3 DEF Call
  <2> HIDE DEF n
  <2>5. /\ request' = [o \in Requests |-> request'[o]]
        /\ request'[r] \in Call /\ Walks(r, "st_rtp")
        /\ request'[r].src = src /\ request'[r].port = port
    BY <1>3, <2>4, GoFields DEF Walks
  <2>6. RequestOK'
    BY <1>3, <2>3, <2>5 DEF RequestOK, CallOK, Walks, StartSteps, Started, CloseSteps
  <2>7. FreshMade'
    BY <1>1, <1>2, <2>5, FreshKept DEF Typed
  <2>8. OthersOK'
    BY <1>1, <1>4 DEF Typed, OthersOK, mutexes
  <2> QED
    BY <1>2, <2>5, <2>6, <2>7, <2>8 DEF Typed
<1>5. ASSUME Done(r), UNCHANGED issued
      PROVE  Typed' /\ Ends(r)
  <2>1. OthersOK'
    BY <1>1, <1>5 DEF Typed, OthersOK, mutexes
  <2> QED
    BY <1>2, <1>5, <2>1, EndTyped
<1> QED
  BY <1>1, <1>2, <1>4, <1>5 DEF GetFreePort

\* The elements of a source are typed.
LEMMA SourceElementTyped ==
  ASSUME Typed, NEW r \in Requests, request[r].pc \in Started \ {"st_port"}, NEW part \in Parts
  PROVE  SourceElement(request[r], part) \in Element
<1>1. request[r].src \in Sources /\ request[r].port \in Ports /\ request[r].p \in Participants
  BY StartedKnows DEF Started
<1> QED
  BY <1>1, MediaTyped DEF SourceElement, Element

\* An insertion into a map of elements leaves a map of elements.
LEMMA InsertTyped ==
  ASSUME NEW map \in SUBSET Element, NEW x \in Element
  PROVE  Insert(map, x) \in SUBSET Element
  BY DEF Insert

\* The elements of the source are made, or the start fails.
LEMMA MakeSourceStep ==
  ASSUME Typed, NEW r \in Requests, MakeSource(r)
  PROVE  /\ Typed' /\ Steady
         /\ UNCHANGED <<mutexes, bus, pad, pipeline_map, producers, issued>>
         /\ request[r].pc = "st_rtp"
         /\ Walks(r, "st_shared") \/ Ends(r)
<1> DEFINE q == request[r]
           x == SourceElement(q, "rtp")
           j == [gst[q.g] EXCEPT !.udp_src = Insert(@, x)]
<1>1. q.pc = "st_rtp" /\ UNCHANGED <<mutexes, bus, pad, pipeline_map, producers, issued>>
  BY DEF MakeSource
<1>2. q.g \in Gstreamers /\ Sound(gst[q.g]) /\ x \in Element
  BY <1>1, StartedKnows, SourceElementTyped DEF StartSteps, Started, Parts
<1>3. OthersOK'
  BY <1>1 DEF Typed, OthersOK, mutexes
<1>4. CASE gst' = [gst EXCEPT ![q.g] = j] /\ Go(r, "st_shared", q)
  <2> HIDE DEF x
  <2>1. Sound(j) /\ Alike(gst[q.g], j)
    BY <1>2, InsertTyped DEF Sound, Instance, Alike
  <2>2. GstOK' /\ Steady /\ Retains
    BY <1>2, <1>4, <2>1, AlikeSteady, SteadyRetains DEF Typed
  <2>3. Follows(q.pc, "st_shared")
    BY <1>1 DEF Follows, Steps, StartSteps, Started, CloseSteps
  <2> QED
    BY <1>1, <1>3, <1>4, <2>2, <2>3, WalkTyped
<1>5. CASE Done(r) /\ gst' = gst
  BY <1>1, <1>3, <1>5, SameSteady, SteadyRetains, EndTyped DEF Typed
<1> QED
  BY <1>4, <1>5 DEF MakeSource, Failing

\* Nothing is played, paused or posted on a bus.
Calm == \A g \in Gstreamers :
    gst'[g].state = gst[g].state /\ gst'[g].errors = gst[g].errors

\* Making elements adds shared elements and the udpsrc of RTCP.
LEMMA MadeSound ==
  ASSUME NEW q, SourceElement(q, "rtcp") \in Element,
         NEW n \in 0 .. Len(CreationOrder(Media(q.kind))),
         NEW i, Sound(i), NEW j, j = Made(i, q, n)
  PROVE  /\ Sound(j)
         /\ j.m = i.m /\ j.state = i.state /\ j.errors = i.errors /\ j.attached = i.attached
         /\ i.shared \subseteq j.shared
         /\ n = Len(CreationOrder(Media(q.kind))) => Needed(Media(q.kind)) \subseteq j.shared
<1> DEFINE media == Media(q.kind)
           order == CreationOrder(media)
           made == {order[k] : k \in 1 .. n}
           x == SourceElement(q, "rtcp")
           udp == IF "rtcpsrc" \in made THEN Insert(i.udp_src, x) ELSE i.udp_src
           shared == i.shared \cup (made \ {"rtcpsrc"})
<1>1. x \in Element
  OBVIOUS
<1>2. i.udp_src \in SUBSET Element /\ i.shared \in SUBSET SharedElements
  BY DEF Sound, Instance
<1>3. udp \in SUBSET Element
  BY <1>1, <1>2, InsertTyped
<1>4. media \in {"audio", "video"}
  BY MediaTyped
<1> HIDE DEF media
<1>5. Len(order) \in Nat /\ DOMAIN order = 1 .. Len(order)
  BY <1>4, OrderTyped
<1> HIDE DEF order
<1>6. Needed(media) = {order[k] : k \in 1 .. Len(order)} \ {"rtcpsrc"}
  BY <1>5 DEF Needed, order
<1>7. n \in 0 .. Len(order)
  BY DEF order, media
<1>8. made \ {"rtcpsrc"} \subseteq Needed(media)
  <2>1. \A k \in 1 .. n : k \in 1 .. Len(order)
    BY <1>5, <1>7
  <2> QED
    BY <1>6, <2>1
<1>9. shared \in SUBSET SharedElements
  BY <1>2, <1>4, <1>8, NeededShared
<1>10. n = Len(order) => Needed(media) \subseteq shared
  BY <1>6
<1>11. j = [i EXCEPT !.shared = shared, !.udp_src = udp]
  BY DEF Made, order, media
<1> HIDE DEF shared, udp, made, x
<1>12. i.shared \subseteq shared
  BY DEF shared
<1>13. /\ Sound(j)
       /\ j.m = i.m /\ j.state = i.state /\ j.errors = i.errors /\ j.attached = i.attached
       /\ j.shared = shared
  BY <1>3, <1>9, <1>11, <1>12 DEF Sound, Instance
<1> QED
  BY <1>10, <1>12, <1>13 DEF order, media

\* The shared elements that are missing are made, up to the one that fails.
LEMMA MakeElementsStep ==
  ASSUME Typed, NEW r \in Requests, MakeElements(r)
  PROVE  /\ Typed' /\ Retains /\ Calm
         /\ UNCHANGED <<mutexes, bus, pad, pipeline_map, producers, issued>>
         /\ request[r].pc = "st_shared" /\ request[r].g \in Gstreamers
         /\ \A h \in Gstreamers \ {request[r].g} : gst'[h] = gst[h]
         /\ \A o \in Requests \ {r} : request'[o] = request[o]
         /\ \/ Ends(r)
            \/ /\ request'[r].pc = "st_pause"
               /\ request'[r].m = request[r].m
               /\ request'[r].kind = request[r].kind
               /\ request'[r].g = request[r].g
               /\ request'[r].exists = request[r].exists
               /\ request'[r].fresh = Needed(Media(request[r].kind)) \ gst[request[r].g].shared
<1> DEFINE q == request[r]
           last == Len(CreationOrder(Media(q.kind)))
<1>1. q.pc = "st_shared" /\ UNCHANGED <<mutexes, bus, pad, pipeline_map, producers, issued>>
  BY DEF MakeElements
<1>2. q.g \in Gstreamers /\ Sound(gst[q.g]) /\ q \in Call /\ CallOK(q) /\ RequestOK /\ GstOK
  BY <1>1, StartedKnows DEF StartSteps, Started, Typed, RequestOK
<1>3. OthersOK'
  BY <1>1 DEF Typed, OthersOK, mutexes
<1>4. last \in Nat
  BY MediaTyped, OrderTyped
<1>4a. SourceElement(q, "rtcp") \in Element
  BY <1>1, SourceElementTyped DEF StartSteps, Started, Parts
<1>5. ASSUME NEW n \in 0 .. last, gst' = [gst EXCEPT ![q.g] = Made(@, q, n)]
      PROVE  /\ GstOK' /\ Retains /\ Calm /\ \A h \in Gstreamers \ {q.g} : gst'[h] = gst[h]
             /\ n = last => Needed(Media(q.kind)) \subseteq gst'[q.g].shared
  <2>0. PICK j : j = Made(gst[q.g], request[r], n)
    OBVIOUS
  <2>1. /\ Sound(j)
        /\ j.m = gst[q.g].m /\ j.state = gst[q.g].state /\ j.errors = gst[q.g].errors
        /\ j.attached = gst[q.g].attached /\ gst[q.g].shared \subseteq j.shared
        /\ n = last => Needed(Media(q.kind)) \subseteq j.shared
    BY <1>2, <1>4a, <2>0, MadeSound
  <2>2. gst' = [gst EXCEPT ![q.g] = j]
    BY <1>5, <2>0
  <2>3. GstOK' /\ gst'[q.g] = j /\ \A h \in Gstreamers \ {q.g} : gst'[h] = gst[h]
    BY <1>2, <2>1, <2>2, GstUpdate
  <2> QED
    BY <2>1, <2>3 DEF Retains, Calm
<1>6. ASSUME gst' = [gst EXCEPT ![q.g] = Made(@, q, last)],
             Go(r, "st_pause", [q EXCEPT !.fresh = Needed(Media(q.kind)) \ gst[q.g].shared])
      PROVE  /\ Typed' /\ \A o \in Requests \ {r} : request'[o] = request[o]
             /\ request'[r].pc = "st_pause"
             /\ request'[r].m = q.m
             /\ request'[r].kind = q.kind
             /\ request'[r].g = q.g
             /\ request'[r].exists = q.exists
             /\ request'[r].fresh = Needed(Media(q.kind)) \ gst[q.g].shared
  <2> DEFINE fresh == Needed(Media(q.kind)) \ gst[q.g].shared
             n == [q EXCEPT !.fresh = fresh]
  <2>1. fresh \in SUBSET SharedElements
    BY NeededShared, MediaTyped
  <2> HIDE DEF last
  <2>2. /\ GstOK' /\ Retains /\ \A h \in Gstreamers \ {q.g} : gst'[h] = gst[h]
        /\ Needed(Media(q.kind)) \subseteq gst'[q.g].shared
    <3>1. last \in 0 .. last
      BY <1>4
    <3> QED
      BY <1>5, <1>6, <3>1
  <2>3. fresh \subseteq gst'[q.g].shared
    BY <2>2
  <2> HIDE DEF fresh
  <2>4. n \in Call /\ n.m = q.m /\ n.p = q.p /\ n.kind = q.kind /\ n.exists = q.exists
        /\ n.g = q.g /\ n.src = q.src /\ n.port = q.port /\ n.fresh = fresh
    BY <1>2, <2>1 DEF Call
  <2>5. Go(r, "st_pause", n) /\ "st_pause" \in Steps
    BY <1>6 DEF fresh, Steps, StartSteps
  <2> HIDE DEF n
  <2>6. /\ request' = [o \in Requests |-> request'[o]]
        /\ \A o \in Requests \ {r} : request'[o] = request[o]
        /\ request'[r] \in Call
        /\ request'[r].pc = "st_pause" /\ request'[r].m = q.m /\ request'[r].p = q.p
        /\ request'[r].kind = q.kind /\ request'[r].g = q.g /\ request'[r].exists = q.exists
        /\ request'[r].src = q.src /\ request'[r].port = q.port /\ request'[r].fresh = fresh
    BY <1>2, <2>4, <2>5, GoFields
  <2>7. RequestOK'
    BY <1>1, <1>2, <2>6 DEF RequestOK, CallOK, StartSteps, Started, CloseSteps
  <2>8. \A o \in Requests \ {r} : request[o].pc \in {"st_pause", "st_add"} =>
           request[o].fresh \subseteq gst'[request[o].g].shared
    BY <1>2, <2>2 DEF Typed, FreshMade, Retains, RequestOK, CallOK, StartSteps, Started
  <2>9. FreshMade'
    BY <2>3, <2>6, <2>8 DEF FreshMade
  <2> QED
    BY <1>3, <2>2, <2>6, <2>7, <2>9 DEF Typed, fresh
<1>7. ASSUME NEW n \in 0 .. last - 1, gst' = [gst EXCEPT ![q.g] = Made(@, q, n)], Done(r)
      PROVE  Typed' /\ Ends(r)
  <2> HIDE DEF last
  <2>1. n \in 0 .. last
    BY <1>4
  <2> QED
    BY <1>3, <1>5, <1>7, <2>1, EndTyped
<1>8. \/ /\ gst' = [gst EXCEPT ![q.g] = Made(@, q, last)]
         /\ Go(r, "st_pause", [q EXCEPT !.fresh = Needed(Media(q.kind)) \ gst[q.g].shared])
      \/ \E n \in 0 .. last - 1 : gst' = [gst EXCEPT ![q.g] = Made(@, q, n)] /\ Done(r)
  BY DEF MakeElements, Failing
<1>9. Retains /\ Calm /\ \A h \in Gstreamers \ {q.g} : gst'[h] = gst[h]
  <2> HIDE DEF last
  <2>1. last \in 0 .. last /\ \A n \in 0 .. last - 1 : n \in 0 .. last
    BY <1>4
  <2> QED
    BY <1>5, <1>8, <2>1
<1> QED
  BY <1>1, <1>2, <1>6, <1>7, <1>8, <1>9 DEF Ends

\* set_state(s) is called on the pipeline of instance g, and may fail.
Switches(g, s) ==
    /\ \A h \in Gstreamers \ {g} : gst'[h] = gst[h]
    /\ gst'[g].m = gst[g].m
    /\ gst'[g].shared = gst[g].shared
    /\ gst'[g].attached = gst[g].attached
    /\ gst'[g].errors = gst[g].errors
    /\ gst'[g].state \in {gst[g].state, s}

\* set_state changes nothing of an instance but its state and its sockets.
LEMMA SetStateSwitches ==
  ASSUME GstOK, NEW g \in Gstreamers, NEW i, Sound(i), Alike(gst[g], i),
         NEW s \in {"Null", "Paused", "Playing"}, NEW out \in SetState(g, i, s),
         gst' = [gst EXCEPT ![g] = out.to]
  PROVE  /\ GstOK' /\ Retains /\ Switches(g, s)
         /\ gst'[g] = out.to /\ out.ok \in BOOLEAN
         /\ out.ok \/ s = "Null" => gst'[g].state = s
         /\ ~out.ok => gst'[g].state = gst[g].state
<1>1. /\ Sound(out.to) /\ out.ok \in BOOLEAN
      /\ out.ok \/ s = "Null" => out.to.state = s
      /\ ~out.ok => out.to.state = i.state
      /\ out.to.state \in {i.state, s}
      /\ out.to.m = i.m /\ out.to.shared = i.shared
      /\ out.to.attached = i.attached /\ out.to.errors = i.errors
  BY SetStateSound
<1>2. GstOK' /\ gst'[g] = out.to /\ \A h \in Gstreamers \ {g} : gst'[h] = gst[h]
  BY <1>1, GstUpdate
<1> QED
  BY <1>1, <1>2 DEF Switches, Retains, Alike

\* An instance is like itself.
LEMMA AlikeSelf == \A i : Alike(i, i)
  BY DEF Alike

\* The pipeline is paused before it is changed, or the start fails.
LEMMA PausePipelineStep ==
  ASSUME Typed, NEW r \in Requests, PausePipeline(r)
  PROVE  /\ Typed' /\ Retains /\ Switches(request[r].g, "Paused")
         /\ UNCHANGED <<mutexes, bus, pad, pipeline_map, producers, issued>>
         /\ request[r].pc = "st_pause" /\ request[r].g \in Gstreamers
         /\ Walks(r, "st_add") \/ Ends(r)
<1> DEFINE q == request[r]
<1>1. PICK out \in SetState(q.g, gst[q.g], "Paused") :
        /\ q.pc = "st_pause"
        /\ gst' = [gst EXCEPT ![q.g] = out.to]
        /\ Go(r, "st_add", q) \/ Done(r)
        /\ UNCHANGED <<mutexes, bus, pad, pipeline_map, producers, issued>>
  BY DEF PausePipeline
<1>2. q.g \in Gstreamers /\ Sound(gst[q.g]) /\ GstOK
  BY <1>1, StartedKnows DEF StartSteps, Started, Typed
<1>3. GstOK' /\ Retains /\ Switches(q.g, "Paused")
  BY <1>1, <1>2, SetStateSwitches, AlikeSelf
<1>4. OthersOK'
  BY <1>1 DEF Typed, OthersOK, mutexes
<1>5. Follows(q.pc, "st_add")
  BY <1>1 DEF Follows, Steps, StartSteps, Started, CloseSteps
<1>6. CASE Go(r, "st_add", q)
  BY <1>1, <1>2, <1>3, <1>4, <1>5, <1>6, WalkTyped
<1>7. CASE Done(r)
  BY <1>1, <1>2, <1>3, <1>4, <1>7, EndTyped
<1> QED
  BY <1>1, <1>2, <1>3, <1>6, <1>7

\* Adding elements: those of a start were made.
LEMMA AddedSound ==
  ASSUME NEW q, \A part \in Parts : SourceElement(q, part) \in Element,
         NEW n \in 0 .. Len(Groups), NEW i, Sound(i), q.fresh \subseteq i.shared,
         NEW j, j = Added(i, q, n)
  PROVE  /\ Sound(j)
         /\ j.m = i.m /\ j.state = i.state /\ j.errors = i.errors /\ j.shared = i.shared
         /\ i.attached \subseteq j.attached
         /\ n = Len(Groups) => q.fresh \subseteq j.attached
<1> DEFINE elements == i.elements \cup {SourceElement(q, part) : part \in Parts}
           groups == UNION {Groups[k] : k \in 1 .. n}
           attached == i.attached \cup (q.fresh \cap groups)
<1>1. i \in Instance /\ i.attached \subseteq i.shared /\ i.bound \subseteq i.elements
      /\ i.shared \subseteq SharedElements
  BY DEF Sound, Instance
<1>2. elements \in SUBSET Element /\ i.bound \subseteq elements
  BY <1>1 DEF Instance
<1>3. j = [i EXCEPT !.elements = elements, !.attached = attached]
  BY DEF Added
<1>4. n = Len(Groups) => groups = SharedElements
  BY GroupsCover
<1> HIDE DEF groups
<1>5. attached \in SUBSET SharedElements /\ attached \subseteq i.shared
  BY <1>1
<1>6. n = Len(Groups) => q.fresh \subseteq attached
  BY <1>1, <1>4
<1>7. i.attached \subseteq attached
  OBVIOUS
<1> HIDE DEF elements, attached
<1>8. /\ j.m = i.m /\ j.state = i.state /\ j.errors = i.errors /\ j.shared = i.shared
      /\ j.attached = attached /\ j.elements = elements /\ j.bound = i.bound
  BY <1>1, <1>3 DEF Instance
<1>9. j \in Instance
  BY <1>1, <1>2, <1>3, <1>5 DEF Instance
<1> QED
  BY <1>2, <1>5, <1>6, <1>7, <1>8, <1>9 DEF Sound

\* The new shared elements are added to the pipeline, or the start fails.
LEMMA AddElementsStep ==
  ASSUME Typed, NEW r \in Requests, AddElements(r)
  PROVE  /\ Typed' /\ Retains /\ Calm
         /\ \A g \in Gstreamers : gst'[g].shared = gst[g].shared
         /\ UNCHANGED <<mutexes, bus, pad, pipeline_map, producers, issued>>
         /\ request[r].pc = "st_add" /\ request[r].g \in Gstreamers
         /\ \/ Walks(r, "st_link") /\ request[r].fresh \subseteq gst'[request[r].g].attached
            \/ Ends(r)
<1> DEFINE q == request[r]
<1>1. q.pc = "st_add" /\ UNCHANGED <<mutexes, bus, pad, pipeline_map, producers, issued>>
  BY DEF AddElements
<1>2. q.g \in Gstreamers /\ Sound(gst[q.g]) /\ GstOK
  BY <1>1, StartedKnows DEF StartSteps, Started, Typed
<1>3. OthersOK'
  BY <1>1 DEF Typed, OthersOK, mutexes
<1>4. /\ \A part \in Parts : SourceElement(q, part) \in Element
      /\ q.fresh \subseteq gst[q.g].shared
  <2>1. q.pc \in Started \ {"st_port"}
    BY <1>1 DEF StartSteps, Started
  <2>2. \A part \in Parts : SourceElement(q, part) \in Element
    BY <2>1, SourceElementTyped
  <2>3. q.fresh \subseteq gst[q.g].shared
    BY <1>1 DEF Typed, FreshMade
  <2> QED
    BY <2>2, <2>3
<1>5. ASSUME NEW n \in 0 .. Len(Groups), gst' = [gst EXCEPT ![q.g] = Added(@, q, n)]
      PROVE  /\ GstOK' /\ Retains /\ Calm
             /\ \A g \in Gstreamers : gst'[g].shared = gst[g].shared
             /\ n = Len(Groups) => q.fresh \subseteq gst'[q.g].attached
  <2>1. PICK j : j = Added(gst[q.g], q, n)
    OBVIOUS
  <2>2. /\ Sound(j)
        /\ j.m = gst[q.g].m /\ j.state = gst[q.g].state /\ j.errors = gst[q.g].errors
        /\ j.shared = gst[q.g].shared /\ gst[q.g].attached \subseteq j.attached
        /\ n = Len(Groups) => q.fresh \subseteq j.attached
    BY <1>2, <1>4, <2>1, AddedSound
  <2>3. GstOK' /\ gst'[q.g] = j /\ \A h \in Gstreamers \ {q.g} : gst'[h] = gst[h]
    BY <1>2, <1>5, <2>1, <2>2, GstUpdate
  <2> QED
    BY <2>2, <2>3 DEF Retains, Calm
<1>6. CASE gst' = [gst EXCEPT ![q.g] = Added(@, q, Len(Groups))] /\ Go(r, "st_link", q)
  <2>1. Len(Groups) \in 0 .. Len(Groups)
    BY GroupsCover
  <2>2. Follows(q.pc, "st_link")
    BY <1>1 DEF Follows, Steps, StartSteps, Started, CloseSteps
  <2> QED
    BY <1>1, <1>2, <1>3, <1>5, <1>6, <2>1, <2>2, WalkTyped
<1>7. ASSUME NEW n \in 0 .. Len(Groups) - 1, gst' = [gst EXCEPT ![q.g] = Added(@, q, n)], Done(r)
      PROVE  Typed' /\ Ends(r) /\ Retains /\ Calm
             /\ \A g \in Gstreamers : gst'[g].shared = gst[g].shared
  <2>1. n \in 0 .. Len(Groups)
    BY GroupsCover
  <2> QED
    BY <1>3, <1>5, <1>7, <2>1, EndTyped
<1>8. CASE Done(r) /\ gst' = gst
  BY <1>1, <1>2, <1>3, <1>8, SameSteady, SteadyRetains, EndTyped DEF Calm, Typed
<1> QED
  BY <1>1, <1>2, <1>6, <1>7, <1>8 DEF AddElements, Failing

\* The source is added and linked, or the start fails.
LEMMA LinkSourceStep ==
  ASSUME Typed, NEW r \in Requests, LinkSource(r)
  PROVE  /\ Typed' /\ Steady
         /\ UNCHANGED <<mutexes, bus, pad, pipeline_map, producers, issued>>
         /\ request[r].pc = "st_link"
         /\ Walks(r, "st_meta") \/ Ends(r)
<1> DEFINE q == request[r]
           j == [gst[q.g] EXCEPT !.linked = @ \cup {q.src}]
<1>1. q.pc = "st_link" /\ UNCHANGED <<mutexes, bus, pad, pipeline_map, producers, issued>>
  BY DEF LinkSource
<1>2. q.g \in Gstreamers /\ Sound(gst[q.g]) /\ q.src \in Sources
  BY <1>1, StartedKnows DEF StartSteps, Started
<1>3. OthersOK'
  BY <1>1 DEF Typed, OthersOK, mutexes
<1>4. CASE gst' = [gst EXCEPT ![q.g] = j] /\ Go(r, "st_meta", q)
  <2>1. Sound(j) /\ Alike(gst[q.g], j)
    BY <1>2 DEF Sound, Instance, Alike
  <2>2. GstOK' /\ Steady /\ Retains
    BY <1>2, <1>4, <2>1, AlikeSteady, SteadyRetains DEF Typed
  <2>3. Follows(q.pc, "st_meta")
    BY <1>1 DEF Follows, Steps, StartSteps, Started, CloseSteps
  <2> QED
    BY <1>1, <1>3, <1>4, <2>2, <2>3, WalkTyped
<1>5. CASE Done(r) /\ gst' = gst
  BY <1>1, <1>3, <1>5, SameSteady, SteadyRetains, EndTyped DEF Typed
<1> QED
  BY <1>4, <1>5 DEF LinkSource, Failing

\* The session is entered, or the start fails.
LEMMA InsertSessionStep ==
  ASSUME Typed, NEW r \in Requests, InsertSession(r)
  PROVE  /\ Typed' /\ Steady
         /\ UNCHANGED <<mutexes, bus, pad, pipeline_map, producers, issued>>
         /\ request[r].pc = "st_meta"
         /\ Walks(r, "st_clone") \/ Ends(r)
<1> DEFINE q == request[r]
           x == SourceElement(q, "rtp")
           j == [gst[q.g] EXCEPT !.sessions = @ \cup {x}]
<1>1. /\ q.pc = "st_meta" /\ UNCHANGED <<mutexes, bus, pad, pipeline_map, producers, issued>>
      /\ gst' = [gst EXCEPT ![q.g] = j]
      /\ Go(r, "st_clone", q) \/ Done(r)
  BY DEF InsertSession, Failing
<1>2. q.g \in Gstreamers /\ Sound(gst[q.g]) /\ x \in Element
  BY <1>1, StartedKnows, SourceElementTyped DEF StartSteps, Started, Parts
<1>3. OthersOK'
  BY <1>1 DEF Typed, OthersOK, mutexes
<1> HIDE DEF x
<1>4. Sound(j) /\ Alike(gst[q.g], j)
  BY <1>2 DEF Sound, Instance, Alike
<1>5. GstOK' /\ Steady /\ Retains
  BY <1>1, <1>2, <1>4, AlikeSteady, SteadyRetains DEF Typed
<1>6. Follows(q.pc, "st_clone")
  BY <1>1 DEF Follows, Steps, StartSteps, Started, CloseSteps
<1>7. CASE Go(r, "st_clone", q)
  BY <1>1, <1>3, <1>5, <1>6, <1>7, WalkTyped
<1>8. CASE Done(r)
  BY <1>1, <1>3, <1>5, <1>8, EndTyped
<1> QED
  BY <1>1, <1>7, <1>8

\* The bus of a new pipeline is watched; that of a known one already is.
LEMMA WatchBusStep ==
  ASSUME Typed, NEW r \in Requests, WatchBus(r)
  PROVE  /\ Typed' /\ Steady
         /\ UNCHANGED <<mutexes, pad, pipeline_map, producers, issued>>
         /\ request[r].pc = "st_clone" /\ request[r].g \in Gstreamers
         /\ pipeline_mutex[request[r].g] = None
         /\ \A g \in Gstreamers \ {request[r].g} : bus'[g] = bus[g]
         /\ bus'[request[r].g] = IF request[r].exists THEN bus[request[r].g] ELSE "watching"
         /\ Walks(r, "st_play")
<1> DEFINE q == request[r]
<1>1. /\ q.pc = "st_clone" /\ UNCHANGED <<gst, mutexes, pad, pipeline_map, producers, issued>>
      /\ pipeline_mutex[q.g] = None
      /\ bus' = [bus EXCEPT ![q.g] = IF q.exists THEN @ ELSE "watching"]
      /\ Go(r, "st_play", q)
  BY DEF WatchBus
<1>2. q.g \in Gstreamers
  BY <1>1, StartedKnows DEF StartSteps, Started
<1>3. bus \in [Gstreamers -> {"none", "watching", "restarting", "ended"}]
  BY DEF Typed, OthersOK
<1>4. /\ bus' \in [Gstreamers -> {"none", "watching", "restarting", "ended"}]
      /\ \A g \in Gstreamers \ {q.g} : bus'[g] = bus[g]
      /\ bus'[q.g] = IF q.exists THEN bus[q.g] ELSE "watching"
  BY <1>1, <1>2, <1>3
<1>5. OthersOK'
  BY <1>1, <1>4 DEF Typed, OthersOK, mutexes
<1>6. GstOK' /\ Steady /\ Retains
  BY <1>1, SameSteady, SteadyRetains DEF Typed
<1>7. Follows(q.pc, "st_play")
  BY <1>1 DEF Follows, Steps, StartSteps, Started, CloseSteps
<1>8. Typed' /\ Walks(r, "st_play")
  BY <1>1, <1>5, <1>6, <1>7, WalkTyped
<1> QED
  BY <1>1, <1>2, <1>4, <1>6, <1>8

\* The pipeline plays, or the start undoes its part of a known pipeline.
LEMMA PlayPipelineStep ==
  ASSUME Typed, NEW r \in Requests, PlayPipeline(r)
  PROVE  /\ Typed' /\ Retains /\ Switches(request[r].g, "Playing")
         /\ UNCHANGED <<mutexes, bus, pad, pipeline_map, producers, issued>>
         /\ request[r].pc = "st_play" /\ request[r].g \in Gstreamers
         /\ \/ Walks(r, "st_connect")
            \/ /\ Walks(r, "st_fail") /\ request[r].exists
            \/ /\ Ends(r) /\ ~request[r].exists
               /\ gst'[request[r].g].state = gst[request[r].g].state
<1> DEFINE q == request[r]
<1>1. PICK out \in SetState(q.g, gst[q.g], "Playing") :
        /\ q.pc = "st_play"
        /\ gst' = [gst EXCEPT ![q.g] = out.to]
        /\ \/ out.ok /\ Go(r, "st_connect", q)
           \/ ~out.ok /\ q.exists /\ Go(r, "st_fail", q)
           \/ ~out.ok /\ ~q.exists /\ Done(r)
        /\ UNCHANGED <<mutexes, bus, pad, pipeline_map, producers, issued>>
  BY DEF PlayPipeline
<1>2. q.g \in Gstreamers /\ Sound(gst[q.g]) /\ GstOK
  BY <1>1, StartedKnows DEF StartSteps, Started, Typed
<1>3. GstOK' /\ Retains /\ Switches(q.g, "Playing")
  BY <1>1, <1>2, SetStateSwitches, AlikeSelf
<1>4. ~out.ok => gst'[q.g].state = gst[q.g].state
  BY <1>1, <1>2, SetStateSwitches, AlikeSelf
<1>5. OthersOK'
  BY <1>1 DEF Typed, OthersOK, mutexes
<1>6. Follows(q.pc, "st_connect") /\ Follows(q.pc, "st_fail")
  BY <1>1 DEF Follows, Steps, StartSteps, Started, CloseSteps
<1>7. CASE out.ok /\ Go(r, "st_connect", q)
  BY <1>1, <1>2, <1>3, <1>5, <1>6, <1>7, WalkTyped
<1>8. CASE q.exists /\ Go(r, "st_fail", q)
  BY <1>1, <1>2, <1>3, <1>5, <1>6, <1>8, WalkTyped
<1>9. CASE ~out.ok /\ ~q.exists /\ Done(r)
  BY <1>1, <1>2, <1>3, <1>4, <1>5, <1>9, EndTyped
<1> QED
  BY <1>1, <1>7, <1>8, <1>9

\* What a request is about does not change with the elements it takes.
SameCall(q, n) ==
    /\ n.m = q.m /\ n.p = q.p /\ n.kind = q.kind /\ n.exists = q.exists
    /\ n.g = q.g /\ n.src = q.src /\ n.port = q.port /\ n.fresh = q.fresh

\* The request goes on with elements to remove and pads to release.
LEMMA WalkWith ==
  ASSUME Typed, NEW r \in Requests, GstOK', Retains, OthersOK',
         NEW step \in Steps \ {"st_pause", "st_add"},
         NEW n \in Call, SameCall(request[r], n), Go(r, step, n),
         Follows(request[r].pc, step)
  PROVE  Typed' /\ Walks(r, step)
<1> DEFINE q == request[r]
<1>1. CallOK(q) /\ q \in Call /\ RequestOK
  BY DEF Typed, RequestOK, CallOK
<1>3. /\ request' = [o \in Requests |-> request'[o]]
      /\ request'[r] \in Call
      /\ Walks(r, step)
      /\ request'[r].src = request[r].src
      /\ request'[r].port = request[r].port
  BY <1>1, GoFields DEF Walks, SameCall
<1>4. RequestOK'
  BY <1>1, <1>3 DEF RequestOK, CallOK, Follows, Walks
<1>5. FreshMade'
  BY <1>3, FreshKept DEF Typed
<1> QED
  BY <1>3, <1>4, <1>5 DEF Typed

\* The failed start takes the mutex of inner.
LEMMA FailSourceStep ==
  ASSUME Typed, NEW r \in Requests, FailSource(r)
  PROVE  /\ Typed' /\ Steady
         /\ UNCHANGED <<pipeline_mutex, bus, pad, pipeline_map, producers, issued>>
         /\ request[r].pc = "st_fail" /\ request[r].g \in Gstreamers
         /\ inner_mutex[request[r].g] = None
         /\ inner_mutex' = [inner_mutex EXCEPT ![request[r].g] = r]
         /\ Walks(r, "st_abort")
<1> DEFINE q == request[r]
           i == gst[q.g]
           mine(x) == x.p = q.p /\ x.media = Media(q.kind)
           udp == {x \in i.udp_src : ~mine(x)}
           sessions == {x \in i.sessions : ~mine(x)}
           closed == {x \in i.udp_src : mine(x)}
           pads == {x.src : x \in {y \in i.sessions : mine(y)}}
           j == [i EXCEPT !.udp_src = udp, !.sessions = sessions]
<1>1. /\ q.pc = "st_fail" /\ UNCHANGED <<pipeline_mutex, bus, pad, pipeline_map, producers, issued>>
      /\ inner_mutex[q.g] = None
      /\ inner_mutex' = [inner_mutex EXCEPT ![q.g] = r]
      /\ Go(r, "st_abort", [q EXCEPT !.closed = closed, !.pads = pads])
  BY DEF FailSource
<1>2. q.g \in Gstreamers /\ Sound(i) /\ GstOK
  BY <1>1, StartedKnows DEF StartSteps, Started, Typed
<1>3. gst' = [gst EXCEPT ![q.g] = j]
  BY <1>2, Zenon DEF FailSource, GstOK
<1>4. udp \in SUBSET Element /\ sessions \in SUBSET Element /\ closed \in SUBSET Element
  BY <1>2 DEF Sound, Instance
<1>5. pads \in SUBSET Sources
  BY <1>2 DEF Sound, Instance, Element
<1> HIDE DEF udp, sessions, closed, pads
<1>6. Sound(j) /\ Alike(i, j)
  BY <1>2, <1>4 DEF Sound, Instance, Alike
<1>7. GstOK' /\ Steady /\ Retains
  BY <1>2, <1>3, <1>6, AlikeSteady, SteadyRetains
<1>8. inner_mutex' \in [Gstreamers -> Requests \cup {None, "pad", "poisoned"}]
  BY <1>1, <1>2 DEF Typed, OthersOK
<1>9. OthersOK'
  BY <1>1, <1>8 DEF Typed, OthersOK
<1>10. Follows(q.pc, "st_abort") /\ "st_abort" \in Steps \ {"st_pause", "st_add"}
  BY <1>1 DEF Follows, Steps, StartSteps, Started, CloseSteps
<1>11. PICK n : n = [q EXCEPT !.closed = closed, !.pads = pads]
  OBVIOUS
<1>12. n \in Call /\ SameCall(q, n)
  <2>1. q \in Call
    BY DEF Typed, RequestOK, CallOK
  <2> QED
    BY <1>4, <1>5, <1>11, <2>1 DEF Call, SameCall
<1>13. Typed' /\ Walks(r, "st_abort")
  BY <1>1, <1>7, <1>9, <1>10, <1>11, <1>12, WalkWith
<1> QED
  BY <1>1, <1>2, <1>7, <1>13

\* It sets its elements to Null, ...
LEMMA AbortStateStep ==
  ASSUME Typed, NEW r \in Requests, AbortState(r)
  PROVE  /\ Typed' /\ Steady
         /\ UNCHANGED <<mutexes, bus, pad, pipeline_map, producers, issued>>
         /\ request[r].pc = "st_abort"
         /\ Walks(r, "st_drop")
<1> DEFINE q == request[r]
<1>1. /\ q.pc = "st_abort" /\ Go(r, "st_drop", q)
      /\ UNCHANGED <<gst, mutexes, bus, pad, pipeline_map, producers, issued>>
  BY DEF AbortState
<1>2. OthersOK'
  BY <1>1 DEF Typed, OthersOK, mutexes
<1>3. GstOK' /\ Steady /\ Retains
  BY <1>1, SameSteady, SteadyRetains DEF Typed
<1>4. Follows(q.pc, "st_drop")
  BY <1>1 DEF Follows, Steps, StartSteps, Started, CloseSteps
<1> QED
  BY <1>1, <1>2, <1>3, <1>4, WalkTyped

\* Dropping the guards of a holder.
LEMMA UnlockTyped ==
  ASSUME OthersOK, NEW h \in Gstreamers, NEW who, Unlock(h, who)
  PROVE  /\ inner_mutex' \in [Gstreamers -> Requests \cup {None, "pad", "poisoned"}]
         /\ pipeline_mutex' \in [Gstreamers -> Requests \cup {None, "pad", "poisoned"}]
         /\ \A g \in Gstreamers :
               /\ inner_mutex'[g] =
                     IF g = h /\ inner_mutex[g] = who THEN None ELSE inner_mutex[g]
               /\ pipeline_mutex'[g] =
                     IF g = h /\ pipeline_mutex[g] = who THEN None ELSE pipeline_mutex[g]
  BY DEF OthersOK, Unlock, Release

\* Elements and pads leave an instance.
LEMMA WithoutSound ==
  ASSUME NEW i, Sound(i), NEW removed, NEW pads, NEW j,
         j = [i EXCEPT !.elements = @ \ removed, !.bound = @ \ removed,
                       !.linked = @ \ pads, !.fed = @ \ pads]
  PROVE  Sound(j) /\ Alike(i, j)
  BY DEF Sound, Instance, Alike

\* ... takes them out of the pipeline and releases the mutex, ...
LEMMA DropSourceStep ==
  ASSUME Typed, NEW r \in Requests, DropSource(r)
  PROVE  /\ Typed' /\ Steady /\ request[r].g \in Gstreamers /\ Unlock(request[r].g, r)
         /\ UNCHANGED <<bus, pad, pipeline_map, producers, issued>>
         /\ request[r].pc = "st_drop"
         /\ Walks(r, "st_replay")
<1> DEFINE q == request[r]
           i == gst[q.g]
           j == [i EXCEPT !.elements = @ \ q.closed, !.bound = @ \ q.closed,
                          !.linked = @ \ q.pads, !.fed = @ \ q.pads]
<1>1. /\ q.pc = "st_drop" /\ Go(r, "st_replay", q) /\ Unlock(q.g, r)
      /\ UNCHANGED <<bus, pad, pipeline_map, producers, issued>>
  BY DEF DropSource
<1>2. q.g \in Gstreamers /\ Sound(i) /\ GstOK
  BY <1>1, StartedKnows DEF StartSteps, Started, Typed
<1>3. gst' = [gst EXCEPT ![q.g] = j]
  BY <1>2, Zenon DEF DropSource, GstOK
<1>4. Sound(j) /\ Alike(i, j)
  BY <1>2, WithoutSound
<1> HIDE DEF j
<1>5. GstOK' /\ Steady /\ Retains
  BY <1>2, <1>3, <1>4, AlikeSteady, SteadyRetains
<1>6. OthersOK'
  BY <1>1, <1>2, UnlockTyped DEF Typed, OthersOK
<1>7. Follows(q.pc, "st_replay")
  BY <1>1 DEF Follows, Steps, StartSteps, Started, CloseSteps
<1> QED
  BY <1>1, <1>2, <1>5, <1>6, <1>7, WalkTyped

\* ... and plays the pipeline again for the others.
LEMMA ReplayPipelineStep ==
  ASSUME Typed, NEW r \in Requests, ReplayPipeline(r)
  PROVE  /\ Typed' /\ Retains /\ Switches(request[r].g, "Playing")
         /\ UNCHANGED <<mutexes, bus, pad, pipeline_map, producers, issued>>
         /\ request[r].pc = "st_replay" /\ request[r].g \in Gstreamers
         /\ Ends(r)
<1> DEFINE q == request[r]
<1>1. PICK out \in SetState(q.g, gst[q.g], "Playing") :
        /\ q.pc = "st_replay" /\ gst' = [gst EXCEPT ![q.g] = out.to] /\ Done(r)
        /\ UNCHANGED <<mutexes, bus, pad, pipeline_map, producers, issued>>
  BY DEF ReplayPipeline
<1>2. q.g \in Gstreamers /\ Sound(gst[q.g]) /\ GstOK
  BY <1>1, StartedKnows DEF StartSteps, Started, Typed
<1>3. GstOK' /\ Retains /\ Switches(q.g, "Playing")
  BY <1>1, <1>2, SetStateSwitches, AlikeSelf
<1>4. OthersOK'
  BY <1>1 DEF Typed, OthersOK, mutexes
<1> QED
  BY <1>1, <1>2, <1>3, <1>4, EndTyped

\* The plain transport is connected, or the start returns early.
LEMMA ConnectPlainStep ==
  ASSUME Typed, NEW r \in Requests, ConnectPlain(r)
  PROVE  /\ Typed' /\ Steady
         /\ UNCHANGED <<mutexes, bus, pad, pipeline_map, producers, issued>>
         /\ request[r].pc = "st_connect"
         /\ Walks(r, "st_register") \/ ("mediasoup" \in Faults /\ Ends(r))
<1> DEFINE q == request[r]
           j == [gst[q.g] EXCEPT !.fed = @ \cup {q.src}]
<1>1. q.pc = "st_connect" /\ UNCHANGED <<mutexes, bus, pad, pipeline_map, producers, issued>>
  BY DEF ConnectPlain
<1>2. q.g \in Gstreamers /\ Sound(gst[q.g]) /\ q.src \in Sources
  BY <1>1, StartedKnows DEF StartSteps, Started
<1>3. OthersOK'
  BY <1>1 DEF Typed, OthersOK, mutexes
<1>4. CASE gst' = [gst EXCEPT ![q.g] = j] /\ Go(r, "st_register", q)
  <2>1. Sound(j) /\ Alike(gst[q.g], j)
    BY <1>2 DEF Sound, Instance, Alike
  <2>2. GstOK' /\ Steady /\ Retains
    BY <1>2, <1>4, <2>1, AlikeSteady, SteadyRetains DEF Typed
  <2>3. Follows(q.pc, "st_register")
    BY <1>1 DEF Follows, Steps, StartSteps, Started, CloseSteps
  <2> QED
    BY <1>1, <1>3, <1>4, <2>2, <2>3, WalkTyped
<1>5. CASE "mediasoup" \in Faults /\ Done(r) /\ gst' = gst
  BY <1>1, <1>3, <1>5, SameSteady, SteadyRetains, EndTyped DEF Typed
<1> QED
  BY <1>4, <1>5 DEF ConnectPlain, Failing

\* The row of the producer is written, or not.
LEMMA RegisterProducerStep ==
  ASSUME Typed, NEW r \in Requests, RegisterProducer(r)
  PROVE  /\ Typed' /\ Steady
         /\ UNCHANGED <<mutexes, bus, pad, pipeline_map, producers, issued>>
         /\ request[r].pc = "st_register"
         /\ Walks(r, "st_publish") \/ Walks(r, "st_insert")
<1> DEFINE q == request[r]
<1>1. /\ q.pc = "st_register"
      /\ Go(r, "st_publish", q) \/ Go(r, "st_insert", q)
      /\ UNCHANGED <<gst, mutexes, bus, pad, pipeline_map, producers, issued>>
  BY DEF RegisterProducer
<1>2. OthersOK'
  BY <1>1 DEF Typed, OthersOK, mutexes
<1>3. GstOK' /\ Steady /\ Retains
  BY <1>1, SameSteady, SteadyRetains DEF Typed
<1>4. Follows(q.pc, "st_publish") /\ Follows(q.pc, "st_insert")
  BY <1>1 DEF Follows, Steps, StartSteps, Started, CloseSteps
<1>5. CASE Go(r, "st_publish", q)
  BY <1>1, <1>2, <1>3, <1>4, <1>5, WalkTyped
<1>6. CASE Go(r, "st_insert", q)
  BY <1>1, <1>2, <1>3, <1>4, <1>6, WalkTyped
<1> QED
  BY <1>1, <1>5, <1>6

\* The producer is entered into producer_map.
LEMMA PublishProducerStep ==
  ASSUME Typed, NEW r \in Requests, PublishProducer(r)
  PROVE  /\ Typed' /\ Steady
         /\ UNCHANGED <<mutexes, bus, pad, pipeline_map, issued>>
         /\ producers' = producers \cup
               {[m |-> request[r].m, p |-> request[r].p, kind |-> request[r].kind,
                 src |-> request[r].src, g |-> request[r].g]}
         /\ request[r].pc = "st_publish"
         /\ Walks(r, "st_insert")
<1> DEFINE q == request[r]
           x == [m |-> q.m, p |-> q.p, kind |-> q.kind, src |-> q.src, g |-> q.g]
<1>1. /\ q.pc = "st_publish" /\ Go(r, "st_insert", q)
      /\ producers' = producers \cup {x}
      /\ UNCHANGED <<gst, mutexes, bus, pad, pipeline_map, issued>>
  BY DEF PublishProducer
<1>2. x \in Published
  BY <1>1, StartedKnows DEF StartSteps, Started, Published
<1>3. OthersOK'
  BY <1>1, <1>2 DEF Typed, OthersOK, mutexes
<1>4. GstOK' /\ Steady /\ Retains
  BY <1>1, SameSteady, SteadyRetains DEF Typed
<1>5. Follows(q.pc, "st_insert")
  BY <1>1 DEF Follows, Steps, StartSteps, Started, CloseSteps
<1>6. Typed' /\ Walks(r, "st_insert")
  BY <1>1, <1>3, <1>4, <1>5, WalkTyped
<1> QED
  BY <1>1, <1>4, <1>6

\* The pipeline is entered into pipeline_map, the last step of a start.
LEMMA InsertPipelineStep ==
  ASSUME Typed, NEW r \in Requests, InsertPipeline(r)
  PROVE  /\ Typed' /\ Steady
         /\ UNCHANGED <<gst, mutexes, bus, pad, producers, issued>>
         /\ request[r].pc = "st_insert" /\ request[r].g \in Gstreamers /\ request[r].m \in Meetings
         /\ pipeline_map' = [pipeline_map EXCEPT ![request[r].m] = request[r].g]
         /\ Ends(r)
<1> DEFINE q == request[r]
<1>1. /\ q.pc = "st_insert" /\ Done(r)
      /\ pipeline_map' = [pipeline_map EXCEPT ![q.m] = q.g]
      /\ UNCHANGED <<gst, mutexes, bus, pad, producers, issued>>
  BY DEF InsertPipeline
<1>2. q.g \in Gstreamers /\ q.m \in Meetings
  BY <1>1, StartedKnows DEF StartSteps, Started
<1>3. OthersOK'
  BY <1>1, <1>2 DEF Typed, OthersOK, mutexes
<1>4. GstOK' /\ Steady /\ Retains
  BY <1>1, SameSteady, SteadyRetains DEF Typed
<1> QED
  BY <1>1, <1>2, <1>3, <1>4, EndTyped

-----------------------------------------------------------------------------
(* What the steps of a close and of the end of a meeting do *)

\* A close or an end begins, or finds the instance of its meeting.
LEMMA GoOff ==
  ASSUME Typed, NEW r \in Requests, Steady, GstOK', OthersOK',
         NEW n \in Call, n.m \in Meetings, n.exists = FALSE,
         NEW step \in {"cl_maps", "en_maps", "cl_inner", "en_null"},
         step \in {"cl_maps", "cl_inner"} => n.p \in Participants,
         step \in {"cl_inner", "en_null"} => n.g \in Gstreamers,
         Go(r, step, n)
  PROVE  /\ Typed'
         /\ request'[r].pc = step /\ request'[r].m = n.m /\ request'[r].g = n.g
         /\ request'[r].exists = FALSE
         /\ \A o \in Requests \ {r} : request'[o] = request[o]
<1>1. step \in Steps /\ RequestOK
  BY DEF Steps, Typed
<1>2. /\ request' = [o \in Requests |-> request'[o]]
      /\ \A o \in Requests \ {r} : request'[o] = request[o]
      /\ request'[r] \in Call /\ request'[r].pc = step /\ request'[r].m = n.m
      /\ request'[r].p = n.p /\ request'[r].g = n.g /\ request'[r].exists = FALSE
  BY <1>1, GoFields
<1>3. RequestOK'
  BY <1>1, <1>2 DEF RequestOK, CallOK, StartSteps, Started, CloseSteps
<1>4. \A o \in Requests \ {r} : request[o].pc \in {"st_pause", "st_add"} =>
         request[o].fresh \subseteq gst'[request[o].g].shared
  BY <1>1 DEF Typed, FreshMade, Steady, Alike, RequestOK, CallOK, StartSteps, Started
<1>5. FreshMade'
  BY <1>2, <1>4 DEF FreshMade
<1> QED
  BY <1>2, <1>3, <1>5 DEF Typed

\* A close begins.
LEMMA BeginCloseStep ==
  ASSUME Typed, NEW r \in Requests, BeginClose(r)
  PROVE  /\ Typed' /\ Steady
         /\ UNCHANGED <<gst, mutexes, bus, pad, pipeline_map, producers, issued>>
         /\ request[r] = NoRequest
         /\ request'[r].pc = "cl_maps" /\ request'[r].exists = FALSE
         /\ \A o \in Requests \ {r} : request'[o] = request[o]
<1>1. PICK m \in Meetings, p \in Participants, kinds \in SUBSET RecordedKinds \ {{}}, remove \in BOOLEAN :
        /\ request[r] = NoRequest
        /\ Go(r, "cl_maps",
              [NoRequest EXCEPT !.m = m, !.p = p, !.kinds = kinds, !.remove = remove])
        /\ UNCHANGED <<gst, mutexes, bus, pad, pipeline_map, producers, issued>>
  BY DEF BeginClose
<1> DEFINE n == [NoRequest EXCEPT !.m = m, !.p = p, !.kinds = kinds, !.remove = remove]
<1>2. n \in Call /\ n.m = m /\ n.p = p /\ n.exists = FALSE /\ Go(r, "cl_maps", n)
  BY <1>1 DEF Call, NoRequest, Steps
<1> HIDE DEF n
<1>3. Steady /\ GstOK' /\ OthersOK'
  BY <1>1, SameSteady DEF Typed, OthersOK, mutexes
<1>4. /\ Typed' /\ request'[r].pc = "cl_maps" /\ request'[r].exists = FALSE
      /\ \A o \in Requests \ {r} : request'[o] = request[o]
  BY <1>2, <1>3, GoOff
<1> QED
  BY <1>1, <1>3, <1>4

\* The end of a meeting begins.
LEMMA BeginEndStep ==
  ASSUME Typed, NEW r \in Requests, BeginEnd(r)
  PROVE  /\ Typed' /\ Steady
         /\ UNCHANGED <<gst, mutexes, bus, pad, pipeline_map, producers, issued>>
         /\ request[r] = NoRequest
         /\ request'[r].pc = "en_maps" /\ request'[r].exists = FALSE
         /\ \A o \in Requests \ {r} : request'[o] = request[o]
<1>1. PICK m \in Meetings :
        /\ request[r] = NoRequest
        /\ Go(r, "en_maps", [NoRequest EXCEPT !.m = m])
        /\ UNCHANGED <<gst, mutexes, bus, pad, pipeline_map, producers, issued>>
  BY DEF BeginEnd
<1> DEFINE n == [NoRequest EXCEPT !.m = m]
<1>2. n \in Call /\ n.m = m /\ n.exists = FALSE /\ Go(r, "en_maps", n)
  BY <1>1 DEF Call, NoRequest, Steps
<1> HIDE DEF n
<1>3. Steady /\ GstOK' /\ OthersOK'
  BY <1>1, SameSteady DEF Typed, OthersOK, mutexes
<1>4. /\ Typed' /\ request'[r].pc = "en_maps" /\ request'[r].exists = FALSE
      /\ \A o \in Requests \ {r} : request'[o] = request[o]
  BY <1>2, <1>3, GoOff
<1> QED
  BY <1>1, <1>3, <1>4

\* Producers leave producer_map.
LEMMA CloseInMapsStep ==
  ASSUME Typed, NEW r \in Requests, CloseInMaps(r)
  PROVE  /\ Typed' /\ Steady
         /\ UNCHANGED <<gst, mutexes, bus, pad, pipeline_map, issued>>
         /\ producers' \subseteq producers
         /\ request[r].pc = "cl_maps"
         /\ Walks(r, "cl_lookup") \/ Ends(r)
<1> DEFINE q == request[r]
<1>1. /\ q.pc = "cl_maps" /\ producers' \subseteq producers
      /\ Go(r, "cl_lookup", q) \/ Done(r)
      /\ UNCHANGED <<gst, mutexes, bus, pad, pipeline_map, issued>>
  BY DEF CloseInMaps
<1>2. OthersOK'
  BY <1>1 DEF Typed, OthersOK, mutexes
<1>3. GstOK' /\ Steady /\ Retains
  BY <1>1, SameSteady, SteadyRetains DEF Typed
<1>4. Follows(q.pc, "cl_lookup")
  BY <1>1 DEF Follows, Steps, StartSteps, Started, CloseSteps
<1>5. CASE Go(r, "cl_lookup", q)
  BY <1>1, <1>2, <1>3, <1>4, <1>5, WalkTyped
<1>6. CASE Done(r)
  BY <1>1, <1>2, <1>3, <1>6, EndTyped
<1> QED
  BY <1>1, <1>5, <1>6

\* It removes producers from producer_map.
LEMMA EndInMapsStep ==
  ASSUME Typed, NEW r \in Requests, EndInMaps(r)
  PROVE  /\ Typed' /\ Steady
         /\ UNCHANGED <<gst, mutexes, bus, pad, pipeline_map, issued>>
         /\ producers' \subseteq producers
         /\ request[r].pc = "en_maps"
         /\ Walks(r, "en_lookup")
<1> DEFINE q == request[r]
<1>1. /\ q.pc = "en_maps" /\ producers' \subseteq producers /\ Go(r, "en_lookup", q)
      /\ UNCHANGED <<gst, mutexes, bus, pad, pipeline_map, issued>>
  BY DEF EndInMaps
<1>2. OthersOK'
  BY <1>1 DEF Typed, OthersOK, mutexes
<1>3. GstOK' /\ Steady /\ Retains
  BY <1>1, SameSteady, SteadyRetains DEF Typed
<1>4. Follows(q.pc, "en_lookup")
  BY <1>1 DEF Follows, Steps, StartSteps, Started, CloseSteps
<1> QED
  BY <1>1, <1>2, <1>3, <1>4, WalkTyped

\* The instance is looked up in pipeline_map, by a close or by an end.
LEMMA FindStep ==
  ASSUME Typed, NEW r \in Requests, CloseLookup(r) \/ EndLookup(r)
  PROVE  /\ Typed' /\ Steady
         /\ UNCHANGED <<gst, mutexes, bus, pad, pipeline_map, producers, issued>>
         /\ request[r].pc \in {"cl_lookup", "en_lookup"}
         /\ \A o \in Requests \ {r} : request'[o] = request[o]
         /\ \/ /\ request'[r].pc \in {"cl_inner", "en_null"}
               /\ request'[r].exists = FALSE
               /\ request'[r].m = request[r].m /\ request'[r].m \in Meetings
               /\ request'[r].g = pipeline_map[request[r].m] /\ request'[r].g \in Gstreamers
            \/ Ends(r)
<1> DEFINE q == request[r]
           n == [q EXCEPT !.g = pipeline_map[q.m]]
<1>1. /\ UNCHANGED <<gst, mutexes, bus, pad, pipeline_map, producers, issued>>
      /\ \/ q.pc = "cl_lookup" /\ pipeline_map[q.m] # None /\ Go(r, "cl_inner", n)
         \/ q.pc = "en_lookup" /\ pipeline_map[q.m] # None /\ Go(r, "en_null", n)
         \/ q.pc \in {"cl_lookup", "en_lookup"} /\ Done(r)
  BY DEF CloseLookup, EndLookup
<1>2. OthersOK'
  BY <1>1 DEF Typed, OthersOK, mutexes
<1>3. GstOK' /\ Steady /\ Retains
  BY <1>1, SameSteady, SteadyRetains DEF Typed
<1>4. /\ q \in Call /\ q.m \in Meetings /\ q.exists = FALSE
      /\ q.pc = "cl_lookup" => q.p \in Participants
  BY <1>1 DEF Typed, RequestOK, CallOK, Call, StartSteps, Started, CloseSteps
<1>5. ASSUME pipeline_map[q.m] # None
      PROVE  /\ n \in Call /\ n.m = q.m /\ n.p = q.p /\ n.exists = FALSE
             /\ n.g = pipeline_map[q.m] /\ n.g \in Gstreamers
  BY <1>4, <1>5 DEF Typed, OthersOK, Call
<1> HIDE DEF n
<1>6. CASE q.pc = "cl_lookup" /\ pipeline_map[q.m] # None /\ Go(r, "cl_inner", n)
  BY <1>1, <1>2, <1>3, <1>4, <1>5, <1>6, GoOff
<1>7. CASE q.pc = "en_lookup" /\ pipeline_map[q.m] # None /\ Go(r, "en_null", n)
  BY <1>1, <1>2, <1>3, <1>4, <1>5, <1>7, GoOff
<1>8. CASE q.pc \in {"cl_lookup", "en_lookup"} /\ Done(r)
  BY <1>1, <1>2, <1>3, <1>8, EndTyped DEF Ends
<1> QED
  BY <1>1, <1>6, <1>7, <1>8

\* A close takes the mutex of inner, ...
LEMMA CloseLocksInnerStep ==
  ASSUME Typed, NEW r \in Requests, CloseLocksInner(r)
  PROVE  /\ Typed' /\ Steady
         /\ UNCHANGED <<gst, pipeline_mutex, bus, pad, pipeline_map, producers, issued>>
         /\ request[r].pc = "cl_inner" /\ request[r].g \in Gstreamers
         /\ inner_mutex[request[r].g] = None
         /\ inner_mutex' = [inner_mutex EXCEPT ![request[r].g] = r]
         /\ Walks(r, "cl_pipeline")
<1> DEFINE q == request[r]
<1>1. /\ q.pc = "cl_inner" /\ Go(r, "cl_pipeline", q)
      /\ inner_mutex[q.g] = None
      /\ inner_mutex' = [inner_mutex EXCEPT ![q.g] = r]
      /\ UNCHANGED <<gst, pipeline_mutex, bus, pad, pipeline_map, producers, issued>>
  BY DEF CloseLocksInner
<1>2. q.g \in Gstreamers
  BY <1>1 DEF Typed, RequestOK, CallOK, CloseSteps
<1>3. OthersOK'
  BY <1>1, <1>2 DEF Typed, OthersOK
<1>4. GstOK' /\ Steady /\ Retains
  BY <1>1, SameSteady, SteadyRetains DEF Typed
<1>5. Follows(q.pc, "cl_pipeline")
  BY <1>1 DEF Follows, Steps, StartSteps, Started, CloseSteps
<1>6. Typed' /\ Walks(r, "cl_pipeline")
  BY <1>1, <1>3, <1>4, <1>5, WalkTyped
<1> QED
  BY <1>1, <1>2, <1>4, <1>6

\* ... then that of the pipeline, ...
LEMMA CloseLocksPipelineStep ==
  ASSUME Typed, NEW r \in Requests, CloseLocksPipeline(r)
  PROVE  /\ Typed' /\ Steady
         /\ UNCHANGED <<gst, inner_mutex, bus, pad, pipeline_map, producers, issued>>
         /\ request[r].pc = "cl_pipeline" /\ request[r].g \in Gstreamers
         /\ pipeline_mutex[request[r].g] = None
         /\ pipeline_mutex' = [pipeline_mutex EXCEPT ![request[r].g] = r]
         /\ Walks(r, "cl_pause")
<1> DEFINE q == request[r]
<1>1. /\ q.pc = "cl_pipeline" /\ Go(r, "cl_pause", q)
      /\ pipeline_mutex[q.g] = None
      /\ pipeline_mutex' = [pipeline_mutex EXCEPT ![q.g] = r]
      /\ UNCHANGED <<gst, inner_mutex, bus, pad, pipeline_map, producers, issued>>
  BY DEF CloseLocksPipeline
<1>2. q.g \in Gstreamers
  BY <1>1 DEF Typed, RequestOK, CallOK, CloseSteps
<1>3. OthersOK'
  BY <1>1, <1>2 DEF Typed, OthersOK
<1>4. GstOK' /\ Steady /\ Retains
  BY <1>1, SameSteady, SteadyRetains DEF Typed
<1>5. Follows(q.pc, "cl_pause")
  BY <1>1 DEF Follows, Steps, StartSteps, Started, CloseSteps
<1>6. Typed' /\ Walks(r, "cl_pause")
  BY <1>1, <1>3, <1>4, <1>5, WalkTyped
<1> QED
  BY <1>1, <1>2, <1>4, <1>6

\* The elements of a participant leave the maps.
LEMMA ClearedSound ==
  ASSUME NEW i, Sound(i), NEW p, NEW j, j = Cleared(i, p)
  PROVE  Sound(j) /\ Alike(i, j)
<1> DEFINE udp == {x \in i.udp_src : x.p # p}
           bound == i.bound \ {x \in i.udp_src : x.p = p}
           branches == {x \in i.branches : x.p # p \/ (x.media = "video" /\ x.part = "rtcp")}
           sessions == {x \in i.sessions : x.p # p}
<1>1. j = [i EXCEPT !.udp_src = udp, !.bound = bound, !.branches = branches, !.sessions = sessions]
  BY DEF Cleared
<1>2. /\ udp \in SUBSET Element /\ branches \in SUBSET Element /\ sessions \in SUBSET Element
      /\ bound \in SUBSET Element /\ bound \subseteq i.elements
  BY DEF Sound, Instance
<1> HIDE DEF udp, bound, branches, sessions
<1>3. j.bound = bound /\ j.elements = i.elements /\ Alike(i, j)
  BY <1>1 DEF Sound, Instance, Alike
<1>4. j \in Instance
  <2>1. PICK k : k = [i EXCEPT !.udp_src = udp, !.bound = bound]
    OBVIOUS
  <2>2. k \in Instance
    BY <1>2, <2>1 DEF Sound, Instance
  <2>3. j = [k EXCEPT !.branches = branches, !.sessions = sessions]
    BY <1>1, <2>1
  <2> QED
    BY <1>2, <2>2, <2>3 DEF Instance
<1> QED
  BY <1>2, <1>3, <1>4 DEF Sound, Alike

\* Sockets are closed.
LEMMA UnboundSound ==
  ASSUME NEW i, Sound(i), NEW closed, NEW j, j = [i EXCEPT !.bound = @ \ closed]
  PROVE  Sound(j) /\ Alike(i, j)
  BY DEF Sound, Instance, Alike

\* What the request takes from the maps are elements and pads.
LEMMA TakeClearedTyped ==
  ASSUME NEW q \in Call, NEW i, Sound(i)
  PROVE  /\ TakeCleared(q, i) \in Call
         /\ SameCall(q, TakeCleared(q, i))
         /\ TakeCleared(q, i).closed = {x \in i.udp_src : x.p = q.p}
<1> DEFINE closed == {x \in i.udp_src : x.p = q.p}
           branches == i.branches \ Cleared(i, q.p).branches
           pads == {x.src : x \in {y \in i.sessions : y.p = q.p}}
<1>1. TakeCleared(q, i) = [q EXCEPT !.closed = closed, !.branches = branches, !.pads = pads]
  BY DEF TakeCleared
<1>2. closed \in SUBSET Element /\ branches \in SUBSET Element /\ pads \in SUBSET Sources
  BY DEF Sound, Instance, Element
<1> HIDE DEF branches, pads
<1> QED
  BY <1>1, <1>2 DEF Call, SameCall

\* ... pauses the pipeline or fails, ...
LEMMA ClosePausesStep ==
  ASSUME Typed, NEW r \in Requests, ClosePauses(r)
  PROVE  /\ Typed' /\ Retains /\ Switches(request[r].g, "Paused")
         /\ UNCHANGED <<bus, pad, pipeline_map, producers, issued>>
         /\ request[r].pc = "cl_pause" /\ request[r].g \in Gstreamers
         /\ \/ Walks(r, "cl_remove") /\ UNCHANGED mutexes
            \/ Ends(r) /\ Unlock(request[r].g, r)
<1> DEFINE q == request[r]
           i == gst[q.g]
           c == Cleared(i, q.p)
           n == TakeCleared(q, i)
<1>1. PICK out \in SetState(q.g, c, "Paused") :
        /\ q.pc = "cl_pause"
        /\ \/ /\ gst' = [gst EXCEPT ![q.g] = [out.to EXCEPT !.bound = @ \ n.closed]]
              /\ Go(r, "cl_remove", n)
              /\ UNCHANGED mutexes
           \/ /\ \E nulled : gst' = [gst EXCEPT ![q.g] = [out.to EXCEPT !.bound = @ \ nulled]]
              /\ Unlock(q.g, r) /\ Done(r)
           \/ /\ gst' = [gst EXCEPT ![q.g] = out.to]
              /\ Unlock(q.g, r) /\ Done(r)
        /\ UNCHANGED <<bus, pad, pipeline_map, producers, issued>>
  BY Zenon DEF ClosePauses
<1>2. q.g \in Gstreamers /\ Sound(i) /\ GstOK /\ q \in Call
  BY <1>1 DEF Typed, RequestOK, CallOK, CloseSteps, GstOK
<1>3. Sound(c) /\ Alike(i, c)
  BY <1>2, ClearedSound
<1>4. n \in Call /\ SameCall(q, n)
  BY <1>2, TakeClearedTyped
<1> HIDE DEF c, n
<1>5. /\ Sound(out.to)
      /\ out.to.state \in {i.state, "Paused"}
      /\ out.to.m = i.m /\ out.to.shared = i.shared
      /\ out.to.attached = i.attached /\ out.to.errors = i.errors
  BY <1>1, <1>2, <1>3, SetStateSound DEF Alike
<1>6. ASSUME NEW j, Sound(j), Alike(out.to, j), gst' = [gst EXCEPT ![q.g] = j]
      PROVE  GstOK' /\ Retains /\ Switches(q.g, "Paused")
  <2>1. GstOK' /\ gst'[q.g] = j /\ \A h \in Gstreamers \ {q.g} : gst'[h] = gst[h]
    BY <1>2, <1>6, GstUpdate
  <2> QED
    BY <1>5, <1>6, <2>1 DEF Switches, Retains, Alike
<1>7. ASSUME NEW nulled, gst' = [gst EXCEPT ![q.g] = [out.to EXCEPT !.bound = @ \ nulled]]
      PROVE  GstOK' /\ Retains /\ Switches(q.g, "Paused")
  <2>1. PICK j : j = [out.to EXCEPT !.bound = @ \ nulled]
    OBVIOUS
  <2> QED
    BY <1>5, <1>6, <1>7, <2>1, UnboundSound
<1>8. CASE /\ gst' = [gst EXCEPT ![q.g] = [out.to EXCEPT !.bound = @ \ n.closed]]
           /\ Go(r, "cl_remove", n)
           /\ UNCHANGED mutexes
  <2>2. GstOK' /\ Retains /\ Switches(q.g, "Paused")
    BY <1>7, <1>8
  <2>3. OthersOK'
    BY <1>1, <1>8 DEF Typed, OthersOK, mutexes
  <2>4. Follows(q.pc, "cl_remove") /\ "cl_remove" \in Steps \ {"st_pause", "st_add"}
    BY <1>1 DEF Follows, Steps, StartSteps, Started, CloseSteps
  <2>5. Typed' /\ Walks(r, "cl_remove")
    BY <1>4, <1>8, <2>2, <2>3, <2>4, WalkWith
  <2> QED
    BY <1>1, <1>2, <1>8, <2>2, <2>5
<1>9. ASSUME GstOK' /\ Retains /\ Switches(q.g, "Paused"), Unlock(q.g, r), Done(r)
      PROVE  Typed' /\ Ends(r)
  <2>1. OthersOK'
    BY <1>1, <1>2, <1>9, UnlockTyped DEF Typed, OthersOK
  <2> QED
    BY <1>9, <2>1, EndTyped
<1>10. CASE /\ \E nulled : gst' = [gst EXCEPT ![q.g] = [out.to EXCEPT !.bound = @ \ nulled]]
            /\ Unlock(q.g, r) /\ Done(r)
  BY <1>1, <1>2, <1>7, <1>9, <1>10
<1>11. CASE gst' = [gst EXCEPT ![q.g] = out.to] /\ Unlock(q.g, r) /\ Done(r)
  <2>1. GstOK' /\ Retains /\ Switches(q.g, "Paused")
    BY <1>5, <1>6, <1>11, AlikeSelf
  <2> QED
    BY <1>1, <1>2, <1>9, <1>11, <2>1
<1> QED
  BY <1>1, <1>8, <1>10, <1>11

\* What is left of an instance after some removals.
LEMMA RemovedSound ==
  ASSUME NEW i, Sound(i), NEW n, NEW q, NEW j, j = Without(i, n, q)
  PROVE  Sound(j) /\ Alike(i, j)
<1> DEFINE linked == IF n > 2 THEN i.linked \ q.pads ELSE i.linked
           fed == IF n > 2 THEN i.fed \ q.pads ELSE i.fed
<1>1. PICK removed : removed = Before(RemoveOrder, n, q)
  OBVIOUS
<1>2. j = [i EXCEPT !.elements = @ \ removed, !.bound = @ \ removed,
                    !.linked = linked, !.fed = fed]
  BY <1>1, Zenon DEF Without
<1>3. linked \in SUBSET Sources /\ fed \in SUBSET Sources
  BY DEF Sound, Instance
<1> HIDE DEF linked, fed
<1>4. PICK elements, bound : elements = i.elements \ removed /\ bound = i.bound \ removed
  OBVIOUS
<1>5. elements \in SUBSET Element /\ bound \in SUBSET Element /\ bound \subseteq elements
  BY <1>4 DEF Sound, Instance
<1>6. j = [i EXCEPT !.elements = elements, !.bound = bound, !.linked = linked, !.fed = fed]
  BY <1>2, <1>4
<1>7. /\ j.elements = elements /\ j.bound = bound /\ Alike(i, j) /\ j.shared = i.shared
  BY <1>6 DEF Sound, Instance, Alike
<1>8. j \in Instance
  <2>1. i \in Instance
    BY DEF Sound
  <2>2. [i EXCEPT !.elements = elements, !.bound = bound] \in Instance
    BY <1>5, <2>1 DEF Instance
  <2>3. PICK k : k = [i EXCEPT !.elements = elements, !.bound = bound]
    OBVIOUS
  <2>4. j = [k EXCEPT !.linked = linked, !.fed = fed]
    BY <1>6, <2>1, <2>3 DEF Instance
  <2>5. k \in Instance
    BY <2>2, <2>3
  <2>6. PICK pads, feeds : pads = linked /\ feeds = fed
    OBVIOUS
  <2>7. [k EXCEPT !.linked = pads, !.fed = feeds] \in Instance
    BY ONLY <1>3, <2>5, <2>6 DEF Instance
  <2> QED
    BY <2>4, <2>6, <2>7
<1>9. j.attached \subseteq j.shared
  BY <1>7 DEF Sound, Alike
<1> QED
  BY <1>5, <1>7, <1>8, <1>9 DEF Sound

\* ... and removes the source, plays the pipeline and releases both.
LEMMA CloseRemovesStep ==
  ASSUME Typed, NEW r \in Requests, CloseRemoves(r)
  PROVE  /\ Typed' /\ Retains /\ Switches(request[r].g, "Playing") /\ Unlock(request[r].g, r)
         /\ UNCHANGED <<bus, pad, pipeline_map, producers, issued>>
         /\ request[r].pc = "cl_remove" /\ request[r].g \in Gstreamers
         /\ Ends(r)
<1> DEFINE q == request[r]
           i == gst[q.g]
<1>1. /\ q.pc = "cl_remove" /\ Unlock(q.g, r) /\ Done(r)
      /\ UNCHANGED <<bus, pad, pipeline_map, producers, issued>>
  BY DEF CloseRemoves
<1>2. \/ \E n : gst' = [gst EXCEPT ![q.g] = Without(i, n, q)]
      \/ \E n : \E out \in SetState(q.g, Without(i, n, q), "Playing") :
            gst' = [gst EXCEPT ![q.g] = out.to]
  BY Zenon DEF CloseRemoves
<1>3. q.g \in Gstreamers /\ Sound(i) /\ GstOK
  BY <1>1 DEF Typed, RequestOK, CallOK, CloseSteps, GstOK
<1>4. \A n : Sound(Without(i, n, q)) /\ Alike(i, Without(i, n, q))
  BY <1>3, RemovedSound
<1>5. GstOK' /\ Retains /\ Switches(q.g, "Playing")
  <2>2. ASSUME NEW n, gst' = [gst EXCEPT ![q.g] = Without(i, n, q)]
        PROVE  GstOK' /\ Retains /\ Switches(q.g, "Playing")
    <3>1. /\ GstOK' /\ gst'[q.g] = Without(i, n, q)
          /\ \A h \in Gstreamers \ {q.g} : gst'[h] = gst[h]
      BY <1>3, <1>4, <2>2, GstUpdate
    <3> QED
      BY <1>4, <3>1 DEF Switches, Retains, Alike
  <2>3. ASSUME NEW n, NEW out \in SetState(q.g, Without(i, n, q), "Playing"),
               gst' = [gst EXCEPT ![q.g] = out.to]
        PROVE  GstOK' /\ Retains /\ Switches(q.g, "Playing")
    BY <1>3, <1>4, <2>3, SetStateSwitches
  <2> QED
    BY <1>2, <2>2, <2>3
<1>6. OthersOK'
  BY <1>1, <1>3, UnlockTyped DEF Typed, OthersOK
<1> QED
  BY <1>1, <1>3, <1>5, <1>6, EndTyped

\* The end of the meeting sets the pipeline to Null.
LEMMA EndStopsStep ==
  ASSUME Typed, NEW r \in Requests, EndStops(r)
  PROVE  /\ Typed' /\ Retains /\ Switches(request[r].g, "Null")
         /\ UNCHANGED <<mutexes, bus, pad, pipeline_map, producers, issued>>
         /\ request[r].pc = "en_null" /\ request[r].g \in Gstreamers
         /\ Ends(r)
<1> DEFINE q == request[r]
<1>1. PICK out \in SetState(q.g, gst[q.g], "Null") :
        /\ q.pc = "en_null" /\ gst' = [gst EXCEPT ![q.g] = out.to] /\ Done(r)
        /\ UNCHANGED <<mutexes, bus, pad, pipeline_map, producers, issued>>
  BY DEF EndStops
<1>2. q.g \in Gstreamers /\ Sound(gst[q.g]) /\ GstOK
  BY <1>1 DEF Typed, RequestOK, CallOK, CloseSteps, GstOK
<1>3. GstOK' /\ Retains /\ Switches(q.g, "Null")
  BY <1>1, <1>2, SetStateSwitches, AlikeSelf
<1>4. OthersOK'
  BY <1>1 DEF Typed, OthersOK, mutexes
<1> QED
  BY <1>1, <1>2, <1>3, <1>4, EndTyped

\* A request that meets a poisoned mutex panics, and poisons what it holds.
LEMMA RequestPanicsStep ==
  ASSUME Typed, NEW r \in Requests, RequestPanics(r)
  PROVE  /\ Typed' /\ Steady
         /\ UNCHANGED <<gst, pipeline_mutex, bus, pad, pipeline_map, producers, issued>>
         /\ \/ request[r].pc \in InnerSteps
            \/ request[r].pc \in PipelineSteps /\ pipeline_mutex[request[r].g] = "poisoned"
         /\ \A g \in Gstreamers :
               inner_mutex'[g] = IF inner_mutex[g] = r THEN "poisoned" ELSE inner_mutex[g]
         /\ Ends(r)
<1>1. /\ \/ request[r].pc \in InnerSteps
         \/ request[r].pc \in PipelineSteps /\ pipeline_mutex[request[r].g] = "poisoned"
      /\ inner_mutex' = [g \in Gstreamers |->
                            IF inner_mutex[g] = r THEN "poisoned" ELSE inner_mutex[g]]
      /\ Done(r)
      /\ UNCHANGED <<gst, pipeline_mutex, bus, pad, pipeline_map, producers, issued>>
  BY DEF RequestPanics
<1>2. /\ inner_mutex' \in [Gstreamers -> Requests \cup {None, "pad", "poisoned"}]
      /\ \A g \in Gstreamers :
            inner_mutex'[g] = IF inner_mutex[g] = r THEN "poisoned" ELSE inner_mutex[g]
  BY <1>1 DEF Typed, OthersOK
<1>3. OthersOK'
  BY <1>1, <1>2 DEF Typed, OthersOK
<1>4. GstOK' /\ Steady /\ Retains
  BY <1>1, SameSteady, SteadyRetains DEF Typed
<1>5. Typed' /\ Ends(r)
  BY <1>1, <1>3, <1>4, EndTyped
<1> QED
  BY <1>1, <1>2, <1>4, <1>5
-----------------------------------------------------------------------------
(* What the steps of the callback and of the bus thread do *)

\* The loss of the process leaves a typed state.
LEMMA RestartTyped ==
  ASSUME Typed, Restart
  PROVE  Typed'
<1>1. gst' = [g \in Gstreamers |-> NewGstreamer] /\ request' = [r \in Requests |-> NoRequest]
  BY DEF Restart
<1>2. GstOK'
  BY <1>1, NewSound DEF GstOK
<1>3. RequestOK'
  BY <1>1, NoRequestOK DEF RequestOK
<1>4. FreshMade'
  BY <1>1 DEF FreshMade, NoRequest
<1>5. OthersOK'
  BY DEF Restart, OthersOK, Typed, NoPad, Pad
<1> QED
  BY <1>2, <1>3, <1>4, <1>5 DEF Typed

\* No request moves: what was typed stays so when the instances and the rest do.
LEMMA ThreadTyped ==
  ASSUME Typed, GstOK', Retains, OthersOK', request' = request
  PROVE  Typed'
  BY SameRequests, FreshStays DEF Typed

\* A callback begins on a playing pipeline.
LEMMA PadAddedStep ==
  ASSUME Typed, NEW g \in Gstreamers, PadAdded(g)
  PROVE  /\ Typed' /\ Steady
         /\ UNCHANGED <<gst, mutexes, bus, pipeline_map, producers, request, issued>>
         /\ gst[g].state = "Playing"
         /\ \A h \in Gstreamers \ {g} : pad'[h] = pad[h]
<1>1. PICK src \in gst[g].linked \cap gst[g].fed, part \in PadParts :
        /\ gst[g].state = "Playing"
        /\ pad' = [pad EXCEPT ![g] = [pc |-> "pad_pipeline", src |-> src, part |-> part]]
        /\ UNCHANGED <<gst, mutexes, bus, pipeline_map, producers, request, issued>>
  BY DEF PadAdded
<1>2. src \in Sources
  BY DEF Typed, GstOK, Sound, Instance
<1>3. pad' \in [Gstreamers -> Pad] /\ \A h \in Gstreamers \ {g} : pad'[h] = pad[h]
  BY <1>1, <1>2 DEF Typed, OthersOK, Pad
<1>4. OthersOK'
  BY <1>1, <1>3 DEF Typed, OthersOK, mutexes
<1>5. Steady /\ Retains /\ GstOK'
  BY <1>1, SameSteady, SteadyRetains DEF Typed
<1> QED
  BY <1>1, <1>3, <1>4, <1>5, ThreadTyped

\* A thread changes the state of the pipeline of g, its branches and its bus.
Disturbs(g) ==
    /\ \A h \in Gstreamers \ {g} : gst'[h] = gst[h]
    /\ gst'[g].m = gst[g].m
    /\ gst'[g].shared = gst[g].shared
    /\ gst'[g].attached = gst[g].attached

\* A thread that replaces an instance by a sound one with the same elements disturbs it.
LEMMA Disturbing ==
  ASSUME GstOK, NEW g \in Gstreamers, NEW j, Sound(j), gst' = [gst EXCEPT ![g] = j],
         j.m = gst[g].m, j.shared = gst[g].shared, j.attached = gst[g].attached
  PROVE  GstOK' /\ Retains /\ Disturbs(g)
<1>1. GstOK' /\ gst'[g] = j /\ \A h \in Gstreamers \ {g} : gst'[h] = gst[h]
  BY GstUpdate
<1> QED
  BY <1>1 DEF Retains, Disturbs

\* A message on the bus leaves the elements alone.
LEMMA PostedSound ==
  ASSUME NEW i, Sound(i), NEW j, j = Posted(i)
  PROVE  Sound(j) /\ j.m = i.m /\ j.shared = i.shared /\ j.attached = i.attached
  BY DEF Posted, Sound, Instance

\* So does the state a callback sets.
LEMMA PadSetsStateDisturbs ==
  ASSUME GstOK, NEW g \in Gstreamers, NEW i, Sound(i), NEW s \in {"Paused", "Playing"},
         i.m = gst[g].m, i.shared = gst[g].shared, i.attached = gst[g].attached,
         PadSetsState(g, i, s)
  PROVE  GstOK' /\ Retains /\ Disturbs(g)
<1>1. PICK out \in SetState(g, i, s) :
         gst' = [gst EXCEPT ![g] = IF out.ok THEN out.to ELSE Posted(out.to)]
  BY DEF PadSetsState, Posted
<1>2. Sound(out.to) /\ out.to.m = i.m /\ out.to.shared = i.shared /\ out.to.attached = i.attached
  BY SetStateSound
<1>3. PICK j : j = IF out.ok THEN out.to ELSE Posted(out.to)
  OBVIOUS
<1>4. Sound(j) /\ j.m = i.m /\ j.shared = i.shared /\ j.attached = i.attached
  BY <1>2, <1>3, PostedSound
<1> QED
  BY <1>1, <1>3, <1>4, Disturbing

\* The callback takes the mutex of the pipeline, ...
LEMMA PadLocksPipelineStep ==
  ASSUME Typed, NEW g \in Gstreamers, PadLocksPipeline(g)
  PROVE  /\ Typed' /\ Retains /\ Disturbs(g)
         /\ UNCHANGED <<inner_mutex, bus, pipeline_map, producers, request, issued>>
         /\ pad[g] # NoPad /\ \A h \in Gstreamers \ {g} : pad'[h] = pad[h]
         /\ pipeline_mutex[g] = None
         /\ pipeline_mutex' = [pipeline_mutex EXCEPT ![g] = "pad"]
<1>1. /\ pad[g].pc = "pad_pipeline" /\ pad' = [pad EXCEPT ![g].pc = "pad_inner"]
      /\ pipeline_mutex[g] = None
      /\ pipeline_mutex' = [pipeline_mutex EXCEPT ![g] = "pad"]
      /\ PadSetsState(g, gst[g], "Paused")
      /\ UNCHANGED <<inner_mutex, bus, pipeline_map, producers, request, issued>>
  BY DEF PadLocksPipeline
<1>2. GstOK' /\ Retains /\ Disturbs(g)
  BY <1>1, PadSetsStateDisturbs DEF Typed, GstOK
<1>3. /\ pad' \in [Gstreamers -> Pad] /\ \A h \in Gstreamers \ {g} : pad'[h] = pad[h]
      /\ pad[g] # NoPad
  BY <1>1 DEF Typed, OthersOK, Pad, NoPad
<1>4. OthersOK'
  BY <1>1, <1>3 DEF Typed, OthersOK
<1>5. Typed'
  BY <1>1, <1>2, <1>4, ThreadTyped
<1> QED
  BY <1>1, <1>2, <1>3, <1>5

\* ... then that of inner, ...
LEMMA PadLocksInnerStep ==
  ASSUME Typed, NEW g \in Gstreamers, PadLocksInner(g)
  PROVE  /\ Typed' /\ Retains /\ Disturbs(g)
         /\ UNCHANGED <<gst, pipeline_mutex, bus, pipeline_map, producers, request, issued>>
         /\ pad[g] # NoPad /\ \A h \in Gstreamers \ {g} : pad'[h] = pad[h]
         /\ inner_mutex[g] = None
         /\ inner_mutex' = [inner_mutex EXCEPT ![g] = "pad"]
<1>1. /\ pad[g].pc = "pad_inner" /\ pad' = [pad EXCEPT ![g].pc = "pad_insert"]
      /\ inner_mutex[g] = None
      /\ inner_mutex' = [inner_mutex EXCEPT ![g] = "pad"]
      /\ UNCHANGED <<gst, pipeline_mutex, bus, pipeline_map, producers, request, issued>>
  BY DEF PadLocksInner
<1>2. GstOK' /\ Retains /\ Disturbs(g)
  BY <1>1, SameSteady, SteadyRetains DEF Typed, Disturbs
<1>3. /\ pad' \in [Gstreamers -> Pad] /\ \A h \in Gstreamers \ {g} : pad'[h] = pad[h]
      /\ pad[g] # NoPad
  BY <1>1 DEF Typed, OthersOK, Pad, NoPad
<1>4. OthersOK'
  BY <1>1, <1>3 DEF Typed, OthersOK
<1>5. Typed'
  BY <1>1, <1>2, <1>4, ThreadTyped
<1> QED
  BY <1>1, <1>2, <1>3, <1>5

\* The elements of a pad are made for its session.
LEMMA ReplaceBranchSound ==
  ASSUME NEW i, Sound(i), NEW x \in Element, NEW part \in Parts, NEW j, j = ReplaceBranch(i, x, part)
  PROVE  Sound(j) /\ j.m = i.m /\ j.shared = i.shared /\ j.attached = i.attached
<1>1. PICK y : y = [x EXCEPT !.part = part]
  OBVIOUS
<1>2. y \in Element
  BY <1>1 DEF Element
<1>3. PICK branches : branches = Insert(i.branches, y)
  OBVIOUS
<1>4. branches \in SUBSET Element
  BY <1>2, <1>3, InsertTyped DEF Sound, Instance
<1>5. j = [i EXCEPT !.branches = branches]
  BY <1>1, <1>3 DEF ReplaceBranch
<1> QED
  BY <1>4, <1>5 DEF Sound, Instance

\* ... links the pad, and releases both.
LEMMA PadHandlesStep ==
  ASSUME Typed, NEW g \in Gstreamers, PadVideo(g) \/ PadAudio(g) \/ PadRtcp(g)
  PROVE  /\ Typed' /\ Retains /\ Disturbs(g) /\ Unlock(g, "pad")
         /\ UNCHANGED <<bus, pipeline_map, producers, request, issued>>
         /\ pad[g] # NoPad /\ \A h \in Gstreamers \ {g} : pad'[h] = pad[h]
<1>1. PICK x \in gst[g].sessions :
        /\ PadHandles(g, x) /\ pad[g].part \in Parts
        /\ \/ gst' = [gst EXCEPT ![g] = Posted(@)]
           \/ PadReplaces(g, x)
           \/ gst' = [gst EXCEPT ![g] = Posted(ReplaceBranch(@, x, "rtp"))]
  BY DEF PadVideo, PadAudio, PadRtcp, PadCannotMake, Parts
<1>2. /\ pad[g].pc = "pad_insert" /\ pad' = [pad EXCEPT ![g] = NoPad] /\ Unlock(g, "pad")
      /\ UNCHANGED <<bus, pipeline_map, producers, request, issued>>
  BY <1>1 DEF PadHandles
<1>3. GstOK /\ Sound(gst[g]) /\ x \in Element /\ "rtp" \in Parts
  BY <1>1 DEF Typed, GstOK, Sound, Instance, Parts
<1>4. GstOK' /\ Retains /\ Disturbs(g)
  <2>1. PICK b : b = ReplaceBranch(gst[g], x, pad[g].part)
    OBVIOUS
  <2>2. PICK c : c = ReplaceBranch(gst[g], x, "rtp")
    OBVIOUS
  <2>3. /\ Sound(b) /\ b.m = gst[g].m /\ b.shared = gst[g].shared /\ b.attached = gst[g].attached
        /\ Sound(c) /\ c.m = gst[g].m /\ c.shared = gst[g].shared /\ c.attached = gst[g].attached
    BY <1>1, <1>3, <2>1, <2>2, ReplaceBranchSound
  <2>4. ASSUME NEW i, Sound(i), NEW j, j = Posted(i),
               i.m = gst[g].m, i.shared = gst[g].shared, i.attached = gst[g].attached
        PROVE  Sound(j) /\ j.m = gst[g].m /\ j.shared = gst[g].shared /\ j.attached = gst[g].attached
    BY <2>4, PostedSound
  <2>5. CASE gst' = [gst EXCEPT ![g] = Posted(@)]
    BY <1>3, <2>4, <2>5, Disturbing
  <2>6. CASE PadReplaces(g, x)
    <3>1. CASE PadSetsState(g, b, "Playing")
      BY <1>3, <2>3, <3>1, PadSetsStateDisturbs
    <3>2. CASE PadSetsState(g, Posted(b), "Playing")
      BY <1>3, <2>3, <2>4, <3>2, PadSetsStateDisturbs
    <3> QED
      BY <2>1, <2>6, <3>1, <3>2 DEF PadReplaces
  <2>7. CASE gst' = [gst EXCEPT ![g] = Posted(ReplaceBranch(@, x, "rtp"))]
    <3>1. gst' = [gst EXCEPT ![g] = Posted(c)]
      BY <2>2, <2>7
    <3> QED
      BY <1>3, <2>3, <2>4, <3>1, Disturbing
  <2> QED
    BY <1>1, <2>5, <2>6, <2>7
<1>5. /\ pad' \in [Gstreamers -> Pad] /\ \A h \in Gstreamers \ {g} : pad'[h] = pad[h]
      /\ pad[g] # NoPad
  BY <1>2 DEF Typed, OthersOK, Pad, NoPad
<1>6. OthersOK'
  BY <1>2, <1>5, UnlockTyped DEF Typed, OthersOK
<1>7. Typed'
  BY <1>2, <1>4, <1>6, ThreadTyped
<1> QED
  BY <1>2, <1>4, <1>5, <1>7

\* Errors are posted by playing pipelines.
LEMMA ErrorStep ==
  ASSUME Typed, NEW g \in Gstreamers, PadNotLinked(g) \/ PipelineError(g)
  PROVE  /\ Typed' /\ Retains /\ Disturbs(g)
         /\ UNCHANGED <<mutexes, bus, pad, pipeline_map, producers, request, issued>>
         /\ gst[g].state = "Playing" /\ gst'[g].state = "Playing"
<1>1. PICK e \in {"not-linked", "failed"} :
        /\ gst' = [gst EXCEPT ![g].errors = @ \cup {e}] /\ gst[g].state = "Playing"
        /\ UNCHANGED <<mutexes, bus, pad, pipeline_map, producers, request, issued>>
  BY DEF PadNotLinked, PipelineError
<1>2. Sound(gst[g]) /\ GstOK
  BY DEF Typed, GstOK
<1>3. PICK j : j = [gst[g] EXCEPT !.errors = @ \cup {e}]
  OBVIOUS
<1>4. /\ Sound(j) /\ j.m = gst[g].m /\ j.shared = gst[g].shared /\ j.attached = gst[g].attached
      /\ j.state = gst[g].state
  BY <1>2, <1>3 DEF Sound, Instance
<1>5. gst' = [gst EXCEPT ![g] = j]
  BY <1>1, <1>3
<1>6. GstOK' /\ Retains /\ Disturbs(g)
  BY <1>2, <1>4, <1>5, Disturbing
<1>7. gst'[g] = j
  BY <1>2, <1>5 DEF GstOK
<1>8. OthersOK'
  BY <1>1 DEF Typed, OthersOK, mutexes
<1> QED
  BY <1>1, <1>4, <1>6, <1>7, <1>8, ThreadTyped

\* The bus thread stops the pipeline, for good or to play it again.
LEMMA BusNullStep ==
  ASSUME Typed, NEW g \in Gstreamers, BusRestarts(g) \/ BusStops(g)
  PROVE  /\ Typed' /\ Retains /\ Disturbs(g)
         /\ UNCHANGED <<mutexes, pad, pipeline_map, producers, request, issued>>
         /\ pipeline_mutex[g] = None
         /\ bus[g] = "watching" /\ bus'[g] \in {"restarting", "ended"}
         /\ \A h \in Gstreamers \ {g} : bus'[h] = bus[h]
         /\ gst[g].errors # {} /\ gst'[g].state = "Null"
<1>1. PICK e \in {"not-linked", "failed"}, b \in {"restarting", "ended"},
           out \in SetState(g, gst[g], "Null") :
        /\ bus[g] = "watching" /\ e \in gst[g].errors
        /\ pipeline_mutex[g] = None
        /\ bus' = [bus EXCEPT ![g] = b]
        /\ gst' = [gst EXCEPT ![g] = [out.to EXCEPT !.errors = @ \ {e}]]
        /\ UNCHANGED <<mutexes, pad, pipeline_map, producers, request, issued>>
  <2>1. CASE BusRestarts(g)
    BY <2>1, Zenon DEF BusRestarts
  <2>2. CASE BusStops(g)
    BY <2>2, Zenon DEF BusStops
  <2> QED
    BY <2>1, <2>2
<1>2. Sound(gst[g]) /\ GstOK
  BY DEF Typed, GstOK
<1>3. /\ Sound(out.to) /\ out.to.state = "Null" /\ out.to.m = gst[g].m
      /\ out.to.shared = gst[g].shared /\ out.to.attached = gst[g].attached
  BY <1>2, SetStateSound
<1>4. PICK j : j = [out.to EXCEPT !.errors = @ \ {e}]
  OBVIOUS
<1>5. /\ Sound(j) /\ j.m = gst[g].m /\ j.shared = gst[g].shared /\ j.attached = gst[g].attached
      /\ j.state = "Null"
  BY <1>3, <1>4 DEF Sound, Instance
<1>6. gst' = [gst EXCEPT ![g] = j]
  BY <1>1, <1>4
<1>7. GstOK' /\ Retains /\ Disturbs(g)
  BY <1>2, <1>5, <1>6, Disturbing
<1>8. gst'[g] = j
  BY <1>2, <1>6 DEF GstOK
<1>9. bus \in [Gstreamers -> {"none", "watching", "restarting", "ended"}]
  BY DEF Typed, OthersOK
<1>10. /\ bus' \in [Gstreamers -> {"none", "watching", "restarting", "ended"}]
       /\ bus'[g] \in {"restarting", "ended"} /\ \A h \in Gstreamers \ {g} : bus'[h] = bus[h]
  BY <1>1, <1>9
<1>11. OthersOK'
  BY <1>1, <1>10 DEF Typed, OthersOK, mutexes
<1>12. Typed'
  BY <1>1, <1>7, <1>11, ThreadTyped
<1> QED
  BY <1>1, <1>5, <1>7, <1>8, <1>10, <1>12

\* The bus thread plays the pipeline again, or panics and poisons its mutex.
LEMMA BusPlaysStep ==
  ASSUME Typed, NEW g \in Gstreamers, BusPlays(g)
  PROVE  /\ Typed' /\ Retains /\ Disturbs(g)
         /\ UNCHANGED <<inner_mutex, pad, pipeline_map, producers, request, issued>>
         /\ pipeline_mutex[g] = None
         /\ bus[g] = "restarting" /\ bus'[g] \in {"watching", "ended"}
         /\ \A h \in Gstreamers \ {g} : bus'[h] = bus[h] /\ pipeline_mutex'[h] = pipeline_mutex[h]
         /\ pipeline_mutex'[g] = IF bus'[g] = "ended" THEN "poisoned" ELSE None
<1>1. PICK out \in SetState(g, gst[g], "Playing") :
        /\ bus[g] = "restarting" /\ pipeline_mutex[g] = None
        /\ gst' = [gst EXCEPT ![g] = out.to]
        /\ \/ bus' = [bus EXCEPT ![g] = "watching"] /\ UNCHANGED pipeline_mutex
           \/ /\ bus' = [bus EXCEPT ![g] = "ended"]
              /\ pipeline_mutex' = [pipeline_mutex EXCEPT ![g] = "poisoned"]
        /\ UNCHANGED <<inner_mutex, pad, pipeline_map, producers, request, issued>>
  BY DEF BusPlays
<1>2. Sound(gst[g]) /\ GstOK
  BY DEF Typed, GstOK
<1>3. /\ Sound(out.to) /\ out.to.m = gst[g].m
      /\ out.to.shared = gst[g].shared /\ out.to.attached = gst[g].attached
  BY <1>2, SetStateSound
<1>4. GstOK' /\ Retains /\ Disturbs(g)
  BY <1>1, <1>2, <1>3, Disturbing
<1>5. /\ bus \in [Gstreamers -> {"none", "watching", "restarting", "ended"}]
      /\ pipeline_mutex \in [Gstreamers -> Requests \cup {None, "pad", "poisoned"}]
  BY DEF Typed, OthersOK
<1>6. /\ bus' \in [Gstreamers -> {"none", "watching", "restarting", "ended"}]
      /\ pipeline_mutex' \in [Gstreamers -> Requests \cup {None, "pad", "poisoned"}]
      /\ bus'[g] \in {"watching", "ended"}
      /\ \A h \in Gstreamers \ {g} : bus'[h] = bus[h] /\ pipeline_mutex'[h] = pipeline_mutex[h]
      /\ pipeline_mutex'[g] = IF bus'[g] = "ended" THEN "poisoned" ELSE None
  BY <1>1, <1>5
<1>7. OthersOK'
  BY <1>1, <1>6 DEF Typed, OthersOK
<1>8. Typed'
  BY <1>1, <1>4, <1>7, ThreadTyped
<1> QED
  BY <1>1, <1>4, <1>6, <1>8
-----------------------------------------------------------------------------
(* Type correctness *)

\* Initially nothing is recorded.
LEMMA InitTyped == Init => Typed
<1> SUFFICES ASSUME Init PROVE Typed
  OBVIOUS
<1>1. GstOK
  BY NewSound DEF Init, GstOK
<1>2. RequestOK
  BY NoRequestOK DEF Init, RequestOK
<1>3. OthersOK
  BY DEF Init, OthersOK, NoPad, Pad
<1>4. FreshMade
  BY DEF Init, FreshMade, NoRequest
<1> QED
  BY <1>1, <1>2, <1>3, <1>4 DEF Typed

\* Stuttering keeps the types.
LEMMA StutterTyped == Typed /\ UNCHANGED vars => Typed'
  BY SameSteady, SteadyRetains, ThreadTyped DEF Typed, vars, OthersOK

\* Every step keeps the types.
LEMMA StepTyped == Typed /\ [Next]_vars => Typed'
<1> SUFFICES ASSUME Typed, [Next]_vars PROVE Typed'
  OBVIOUS
<1>1. ASSUME NEW r \in Requests, StartRecording(r) PROVE Typed'
  BY <1>1, BeginStartStep, LookupStep, GetFreePortStep, MakeSourceStep, MakeElementsStep,
     PausePipelineStep, AddElementsStep, LinkSourceStep, InsertSessionStep, WatchBusStep,
     PlayPipelineStep, FailSourceStep, AbortStateStep, DropSourceStep, ReplayPipelineStep,
     ConnectPlainStep, RegisterProducerStep, PublishProducerStep, InsertPipelineStep
     DEF StartRecording
<1>2. ASSUME NEW r \in Requests, CloseProducers(r) PROVE Typed'
  BY <1>2, BeginCloseStep, CloseInMapsStep, FindStep, CloseLocksInnerStep,
     CloseLocksPipelineStep, ClosePausesStep, CloseRemovesStep DEF CloseProducers
<1>3. ASSUME NEW r \in Requests, EndMeeting(r) PROVE Typed'
  BY <1>3, BeginEndStep, EndInMapsStep, FindStep, EndStopsStep DEF EndMeeting
<1>4. ASSUME NEW r \in Requests, RequestPanics(r) PROVE Typed'
  BY <1>4, RequestPanicsStep
<1>5. ASSUME NEW g \in Gstreamers, Callback(g) PROVE Typed'
  BY <1>5, PadAddedStep, PadLocksPipelineStep, PadLocksInnerStep, PadHandlesStep,
     RestartTyped DEF Callback, PadPanics
<1>6. ASSUME NEW g \in Gstreamers, BusThread(g) PROVE Typed'
  BY <1>6, ErrorStep, BusNullStep, BusPlaysStep DEF BusThread
<1> QED
  BY <1>1, <1>2, <1>3, <1>4, <1>5, <1>6, StutterTyped DEF Next

\* Type correctness of the recording pipelines: what is attached to a pipeline was made,
\* bound sockets belong to elements of the pipeline, and every mutex, bus thread, callback
\* and request is in a state it can be in, whatever fails and however the requests, the
\* callbacks and the bus threads interleave.
THEOREM TypeCorrectness == Spec => []RecordingTypeOK
<1>1. Typed => RecordingTypeOK
  <2> SUFFICES ASSUME Typed PROVE RecordingTypeOK
    OBVIOUS
  <2>1. \A g \in Gstreamers : /\ Sound(gst[g]) /\ pad[g] \in Pad
    BY DEF Typed, GstOK, OthersOK
  <2>2. \A r \in Requests : request[r].pc \in Steps
    BY DEF Typed, RequestOK, CallOK, Call
  <2> QED
    BY <2>1, <2>2 DEF RecordingTypeOK, Typed, OthersOK, Sound, Instance, Pad, Steps
<1> QED
  BY <1>1, InitTyped, StepTyped, PTL DEF Spec

-----------------------------------------------------------------------------
(* A pipeline that plays is watched *)

\* A step of request r that starts no thread.
LEMMA WatchKept ==
  ASSUME Typed, WatchInv, NEW r \in Requests, UNCHANGED <<bus, pad, pipeline_map>>,
         \A g \in Gstreamers : gst'[g].state = "Playing" => gst[g].state = "Playing" \/ bus[g] # "none",
         \A o \in Requests \ {r} : request'[o] = request[o],
         Watching(request'[r]) => bus[request'[r].g] # "none"
  PROVE  WatchInv'
<1>1. PlayingWasWatched'
  BY DEF WatchInv, PlayingWasWatched
<1>2. \A o \in Requests : Watching(request'[o]) => bus'[request'[o].g] # "none"
  BY DEF WatchInv
<1> QED
  BY <1>1, <1>2 DEF WatchInv, Watching

\* The request walks on along the steps of a watched pipeline, or ends.
LEMMA WatchWalks ==
  ASSUME Typed, WatchInv, NEW r \in Requests, UNCHANGED <<bus, pad, pipeline_map>>, NEW step,
         \A g \in Gstreamers : gst'[g].state = "Playing" => gst[g].state = "Playing" \/ bus[g] # "none",
         \/ Walks(r, step) /\ (step \in WatchedSteps => request[r].pc \in WatchedSteps)
         \/ Ends(r)
  PROVE  WatchInv'
<1>1. \A o \in Requests \ {r} : request'[o] = request[o]
  BY DEF Walks, Ends
<1>2. Watching(request'[r]) => bus[request'[r].g] # "none"
  <2>1. CASE Ends(r)
    BY <2>1 DEF Ends, NoRequest, Watching, WatchedSteps, CloseSteps
  <2>2. CASE Walks(r, step) /\ (step \in WatchedSteps => request[r].pc \in WatchedSteps)
    BY <2>2 DEF Walks, Watching, WatchInv
  <2> QED
    BY <2>1, <2>2
<1> QED
  BY <1>1, <1>2, WatchKept

\* What Steady, Calm and Switches mean for a watched pipeline.
LEMMA WatchStates ==
  ASSUME Steady \/ Calm
  PROVE  \A g \in Gstreamers : gst'[g].state = "Playing" => gst[g].state = "Playing" \/ bus[g] # "none"
  BY DEF Steady, Calm, Alike

\* Only set_state(Playing) makes a pipeline play.
LEMMA WatchSwitch ==
  ASSUME NEW g \in Gstreamers, NEW s, Switches(g, s), s # "Playing" \/ bus[g] # "none"
  PROVE  \A h \in Gstreamers : gst'[h].state = "Playing" => gst[h].state = "Playing" \/ bus[h] # "none"
  BY DEF Switches

\* A start plays a pipeline only after WatchBus.
LEMMA WatchStart ==
  ASSUME Typed, WatchInv, NEW r \in Requests, StartRecording(r)
  PROVE  WatchInv'
<1> USE DEF WatchedSteps, CloseSteps
<1>1. CASE BeginStart(r)
  BY <1>1, BeginStartStep, WatchStates, WatchKept DEF Watching
<1>2. CASE Lookup(r)
  <2>1. \A g \in Gstreamers : gst'[g].state = "Playing" => gst[g].state = "Playing"
    BY <1>2, LookupStep DEF Alike, NewGstreamer
  <2>2. Watching(request'[r]) => request'[r].exists = TRUE
    BY <1>2, LookupStep DEF Watching
  <2>3. Watching(request'[r]) => bus[request'[r].g] # "none"
    <3> SUFFICES ASSUME request'[r].exists = TRUE PROVE bus[request'[r].g] # "none"
      BY <2>2
    <3>1. request'[r].g = pipeline_map[request[r].m] /\ request'[r].g \in Gstreamers
          /\ request[r].m \in Meetings
      BY <1>2, LookupStep
    <3> QED
      BY <3>1 DEF WatchInv
  <2> QED
    BY <1>2, <2>1, <2>3, LookupStep, WatchKept
<1>3. CASE GetFreePort(r)
  BY <1>3, GetFreePortStep, WatchStates, WatchWalks
<1>4. CASE MakeSource(r)
  BY <1>4, MakeSourceStep, WatchStates, WatchWalks
<1>5. CASE MakeElements(r)
  <2>1. Watching(request'[r]) => bus[request'[r].g] # "none"
    BY <1>5, MakeElementsStep DEF Watching, WatchInv, Ends, NoRequest
  <2> QED
    BY <1>5, <2>1, MakeElementsStep, WatchStates, WatchKept
<1>6. CASE PausePipeline(r)
  BY <1>6, PausePipelineStep, WatchSwitch, WatchWalks
<1>7. CASE AddElements(r)
  BY <1>7, AddElementsStep, WatchStates, WatchWalks
<1>8. CASE LinkSource(r)
  BY <1>8, LinkSourceStep, WatchStates, WatchWalks
<1>9. CASE InsertSession(r)
  BY <1>9, InsertSessionStep, WatchStates, WatchWalks
<1>10. CASE WatchBus(r)
  <2>1. bus[request[r].g] # "none" \/ ~request[r].exists
    BY DEF WatchInv, Watching
  <2>2. \A g \in Gstreamers : bus[g] # "none" => bus'[g] # "none"
    BY <1>10, WatchBusStep
  <2>3. bus'[request[r].g] # "none"
    BY <1>10, <2>1, WatchBusStep
  <2>4. PlayingWasWatched'
    BY <1>10, <2>2, WatchBusStep DEF WatchInv, PlayingWasWatched, Steady, Alike
  <2>5. \A m \in Meetings : pipeline_map'[m] # None => bus'[pipeline_map'[m]] # "none"
    BY <1>10, <2>2, WatchBusStep DEF WatchInv, Typed, OthersOK
  <2>6. \A o \in Requests \ {r} : Watching(request[o]) => request[o].g \in Gstreamers
    BY DEF Typed, RequestOK, CallOK, Watching, Started, StartSteps
  <2>7. \A o \in Requests : Watching(request'[o]) => bus'[request'[o].g] # "none"
    BY <1>10, <2>2, <2>3, <2>6, WatchBusStep DEF WatchInv, Walks
  <2>8. \A g \in Gstreamers : pad'[g] # NoPad => bus'[g] # "none"
    BY <1>10, <2>2, WatchBusStep DEF WatchInv
  <2> QED
    BY <2>4, <2>5, <2>7, <2>8 DEF WatchInv, Watching
<1>11. CASE PlayPipeline(r)
  <2>1. bus[request[r].g] # "none"
    BY <1>11, PlayPipelineStep DEF WatchInv, Watching
  <2> QED
    BY <1>11, <2>1, PlayPipelineStep, WatchSwitch, WatchWalks
<1>12. CASE FailSource(r)
  BY <1>12, FailSourceStep, WatchStates, WatchWalks
<1>13. CASE AbortState(r)
  BY <1>13, AbortStateStep, WatchStates, WatchWalks
<1>14. CASE DropSource(r)
  BY <1>14, DropSourceStep, WatchStates, WatchWalks
<1>15. CASE ReplayPipeline(r)
  <2>1. bus[request[r].g] # "none"
    BY <1>15, ReplayPipelineStep DEF WatchInv, Watching
  <2> QED
    BY <1>15, <2>1, ReplayPipelineStep, WatchSwitch, WatchWalks
<1>16. CASE ConnectPlain(r)
  BY <1>16, ConnectPlainStep, WatchStates, WatchWalks
<1>17. CASE RegisterProducer(r)
  BY <1>17, RegisterProducerStep, WatchStates, WatchWalks
<1>18. CASE PublishProducer(r)
  BY <1>18, PublishProducerStep, WatchStates, WatchWalks
<1>19. CASE InsertPipeline(r)
  <2>1. bus[request[r].g] # "none"
    BY <1>19, InsertPipelineStep DEF WatchInv, Watching
  <2>2. \A m \in Meetings : pipeline_map'[m] \in {pipeline_map[m], request[r].g}
    BY <1>19, InsertPipelineStep DEF Typed, OthersOK
  <2>3. \A o \in Requests : Watching(request'[o]) => Watching(request[o]) /\ request'[o] = request[o]
    BY <1>19, InsertPipelineStep DEF Ends, NoRequest, Watching
  <2>4. PlayingWasWatched'
    BY <1>19, InsertPipelineStep DEF WatchInv, PlayingWasWatched
  <2> QED
    BY <1>19, <2>1, <2>2, <2>3, <2>4, InsertPipelineStep DEF WatchInv, Watching
<1> QED
  BY <1>1, <1>2, <1>3, <1>4, <1>5, <1>6, <1>7, <1>8, <1>9, <1>10, <1>11, <1>12, <1>13,
     <1>14, <1>15, <1>16, <1>17, <1>18, <1>19 DEF StartRecording

\* The other requests play only pipelines they found in pipeline_map.
LEMMA WatchRequest ==
  ASSUME Typed, WatchInv, NEW r \in Requests,
         CloseProducers(r) \/ EndMeeting(r) \/ RequestPanics(r)
  PROVE  WatchInv'
<1> USE DEF WatchedSteps, CloseSteps
<1>1. CASE BeginClose(r)
  BY <1>1, BeginCloseStep, WatchStates, WatchKept DEF Watching
<1>2. CASE CloseInMaps(r)
  BY <1>2, CloseInMapsStep, WatchStates, WatchWalks
<1>3. CASE CloseLookup(r) \/ EndLookup(r)
  <2>1. Watching(request'[r]) => bus[request'[r].g] # "none"
    <3>1. CASE Ends(r)
      BY <3>1 DEF Ends, NoRequest, Watching
    <3>2. CASE request'[r].g = pipeline_map[request[r].m] /\ request'[r].g \in Gstreamers
               /\ request'[r].m = request[r].m /\ request'[r].m \in Meetings
      BY <3>2 DEF WatchInv
    <3> QED
      BY <1>3, <3>1, <3>2, FindStep
  <2> QED
    BY <1>3, <2>1, FindStep, WatchStates, WatchKept
<1>4. CASE CloseLocksInner(r)
  BY <1>4, CloseLocksInnerStep, WatchStates, WatchWalks
<1>5. CASE CloseLocksPipeline(r)
  BY <1>5, CloseLocksPipelineStep, WatchStates, WatchWalks
<1>6. CASE ClosePauses(r)
  BY <1>6, ClosePausesStep, WatchSwitch, WatchWalks
<1>7. CASE CloseRemoves(r)
  <2>1. bus[request[r].g] # "none"
    BY <1>7, CloseRemovesStep DEF WatchInv, Watching
  <2> QED
    BY <1>7, <2>1, CloseRemovesStep, WatchSwitch, WatchWalks
<1>8. CASE BeginEnd(r)
  BY <1>8, BeginEndStep, WatchStates, WatchKept DEF Watching
<1>9. CASE EndInMaps(r)
  BY <1>9, EndInMapsStep, WatchStates, WatchWalks
<1>10. CASE EndStops(r)
  BY <1>10, EndStopsStep, WatchSwitch, WatchWalks
<1>11. CASE RequestPanics(r)
  BY <1>11, RequestPanicsStep, WatchStates, WatchWalks
<1> QED
  BY <1>1, <1>2, <1>3, <1>4, <1>5, <1>6, <1>7, <1>8, <1>9, <1>10, <1>11
     DEF CloseProducers, EndMeeting

\* A thread of a pipeline that is watched.
LEMMA WatchThread ==
  ASSUME Typed, WatchInv, NEW g \in Gstreamers, UNCHANGED <<pipeline_map, request>>,
         bus[g] # "none", bus'[g] # "none",
         \A h \in Gstreamers \ {g} : bus'[h] = bus[h] /\ pad'[h] = pad[h] /\ gst'[h] = gst[h]
  PROVE  WatchInv'
<1>1. \A h \in Gstreamers : bus[h] # "none" => bus'[h] # "none"
  OBVIOUS
<1>2. PlayingWasWatched'
  BY <1>1 DEF WatchInv, PlayingWasWatched
<1>3. \A r \in Requests : Watching(request[r]) => request[r].g \in Gstreamers
  BY DEF Typed, RequestOK, CallOK, Watching, Started, StartSteps, WatchedSteps, CloseSteps
<1>4. \A r \in Requests : Watching(request'[r]) => bus'[request'[r].g] # "none"
  BY <1>1, <1>3 DEF WatchInv
<1>5. \A m \in Meetings : pipeline_map'[m] # None => bus'[pipeline_map'[m]] # "none"
  BY <1>1 DEF WatchInv, Typed, OthersOK
<1>6. \A h \in Gstreamers : pad'[h] # NoPad => bus'[h] # "none"
  BY <1>1 DEF WatchInv
<1> QED
  BY <1>2, <1>4, <1>5, <1>6 DEF WatchInv, Watching

\* Initially nothing plays.
LEMMA InitWatch == Init => WatchInv
  BY DEF Init, WatchInv, PlayingWasWatched, NewGstreamer, NoRequest, Watching, WatchedSteps, CloseSteps

\* After the loss of the process nothing plays.
LEMMA RestartWatch == Restart => WatchInv'
  BY DEF Restart, WatchInv, PlayingWasWatched, NewGstreamer, NoRequest, Watching, WatchedSteps, CloseSteps

\* WatchInv is inductive.
LEMMA StepWatch == Typed /\ WatchInv /\ [Next]_vars => WatchInv'
<1> SUFFICES ASSUME Typed, WatchInv, [Next]_vars PROVE WatchInv'
  OBVIOUS
<1>1. ASSUME NEW r \in Requests,
             StartRecording(r) \/ CloseProducers(r) \/ EndMeeting(r) \/ RequestPanics(r)
      PROVE  WatchInv'
  BY <1>1, WatchStart, WatchRequest
<1>2. ASSUME NEW g \in Gstreamers, Callback(g) PROVE WatchInv'
  <2>1. CASE PadAdded(g)
    <3>1. bus[g] # "none"
      BY <2>1, PadAddedStep DEF WatchInv, PlayingWasWatched
    <3> QED
      BY <2>1, <3>1, PadAddedStep, WatchThread
  <2>2. CASE PadLocksPipeline(g)
    BY <2>2, PadLocksPipelineStep, WatchThread DEF WatchInv, Disturbs
  <2>3. CASE PadLocksInner(g)
    BY <2>3, PadLocksInnerStep, WatchThread DEF WatchInv, Disturbs
  <2>4. CASE PadVideo(g) \/ PadAudio(g) \/ PadRtcp(g)
    BY <2>4, PadHandlesStep, WatchThread DEF WatchInv, Disturbs
  <2> QED
    BY <1>2, <2>1, <2>2, <2>3, <2>4, RestartWatch DEF Callback, PadPanics
<1>3. ASSUME NEW g \in Gstreamers, BusThread(g) PROVE WatchInv'
  <2>1. CASE PadNotLinked(g) \/ PipelineError(g)
    BY <2>1, ErrorStep, WatchThread DEF WatchInv, PlayingWasWatched, Disturbs
  <2>2. CASE BusRestarts(g) \/ BusStops(g)
    BY <2>2, BusNullStep, WatchThread DEF Disturbs
  <2>3. CASE BusPlays(g)
    BY <2>3, BusPlaysStep, WatchThread DEF Disturbs
  <2> QED
    BY <1>3, <2>1, <2>2, <2>3 DEF BusThread
<1>4. CASE UNCHANGED vars
  BY <1>4 DEF vars, WatchInv, PlayingWasWatched, Watching
<1> QED
  BY <1>1, <1>2, <1>3, <1>4 DEF Next

\* However starts, closes, callbacks and bus threads interleave, a pipeline plays only
\* once WatchBus started its bus thread: the threads and the closes that set it to
\* Playing reach it through pipeline_map or from a pipeline that was watched.
THEOREM PlayingIsWatched == Spec => []PlayingWasWatched
<1>1. WatchInv => PlayingWasWatched
  BY DEF WatchInv
<1> QED
  BY <1>1, InitTyped, StepTyped, InitWatch, StepWatch, PTL DEF Spec

-----------------------------------------------------------------------------
(* Who poisons a mutex *)

\* A step of request r that leaves the mutexes alone, and holds that of inner as before.
LEMMA LockKept ==
  ASSUME LockInv, NEW r \in Requests, UNCHANGED <<inner_mutex, pipeline_mutex, bus>>,
         \A o \in Requests \ {r} : request'[o] = request[o],
         request[r].pc \in InnerHeld => request'[r].pc \in InnerHeld /\ request'[r].g = request[r].g
  PROVE  LockInv'
<1>1. PoisonedByTheBusThread'
  BY DEF LockInv, PoisonedByTheBusThread
<1>2. \A g \in Gstreamers, o \in Requests :
          inner_mutex'[g] = o => request'[o].g = g /\ request'[o].pc \in InnerHeld
  BY DEF LockInv
<1> QED
  BY <1>1, <1>2 DEF LockInv

\* A request that goes on or ends without touching a mutex keeps LockInv.
LEMMA LockWalks ==
  ASSUME LockInv, NEW r \in Requests, UNCHANGED <<inner_mutex, pipeline_mutex, bus>>, NEW step,
         \/ Walks(r, step) /\ (request[r].pc \in InnerHeld => step \in InnerHeld)
         \/ Ends(r) /\ request[r].pc \notin InnerHeld
  PROVE  LockInv'
  BY LockKept DEF Walks, Ends

\* r locks inner.
LEMMA LockTaken ==
  ASSUME Typed, LockInv, NEW r \in Requests, UNCHANGED <<pipeline_mutex, bus>>, NEW step \in InnerHeld,
         request[r].g \in Gstreamers, inner_mutex[request[r].g] = None,
         inner_mutex' = [inner_mutex EXCEPT ![request[r].g] = r],
         request[r].pc \notin InnerHeld, Walks(r, step)
  PROVE  LockInv'
<1>1. \A g \in Gstreamers \ {request[r].g} : inner_mutex'[g] = inner_mutex[g]
  BY DEF Typed, OthersOK
<1>2. inner_mutex'[request[r].g] = r
  BY DEF Typed, OthersOK
<1>3. r # "poisoned" /\ request'[r].g = request[r].g
  BY DEF Walks
<1>4. PoisonedByTheBusThread'
  BY <1>1, <1>2, <1>3 DEF LockInv, PoisonedByTheBusThread
<1>5. \A g \in Gstreamers, o \in Requests :
          inner_mutex'[g] = o => request'[o].g = g /\ request'[o].pc \in InnerHeld
  BY <1>1, <1>2, <1>3 DEF LockInv, Walks
<1> QED
  BY <1>4, <1>5 DEF LockInv

\* r releases its mutexes.
LEMMA LockReleased ==
  ASSUME Typed, LockInv, NEW r \in Requests, UNCHANGED bus, Unlock(request[r].g, r),
         request[r].g \in Gstreamers,
         \A o \in Requests \ {r} : request'[o] = request[o]
  PROVE  LockInv'
<1>1. \A g \in Gstreamers :
         /\ inner_mutex'[g] =
               IF g = request[r].g /\ inner_mutex[g] = r THEN None ELSE inner_mutex[g]
         /\ pipeline_mutex'[g] =
               IF g = request[r].g /\ pipeline_mutex[g] = r THEN None ELSE pipeline_mutex[g]
  BY UnlockTyped DEF Typed
<1>2. r # "poisoned" /\ None # "poisoned" /\ None \notin Requests
  OBVIOUS
<1>3. PoisonedByTheBusThread'
  BY <1>1, <1>2 DEF LockInv, PoisonedByTheBusThread
<1>4. \A g \in Gstreamers, o \in Requests :
          inner_mutex'[g] = o => request'[o].g = g /\ request'[o].pc \in InnerHeld
  BY <1>1, <1>2 DEF LockInv
<1> QED
  BY <1>3, <1>4 DEF LockInv

\* Every step of a request keeps it: where it panics with the mutex of inner, that of
\* the pipeline is poisoned.
LEMMA LockRequest ==
  ASSUME Typed, LockInv, NEW r \in Requests,
         StartRecording(r) \/ CloseProducers(r) \/ EndMeeting(r) \/ RequestPanics(r)
  PROVE  LockInv'
<1> USE DEF InnerHeld
<1>1. CASE BeginStart(r) \/ BeginClose(r) \/ BeginEnd(r)
  <2>1. /\ UNCHANGED <<inner_mutex, pipeline_mutex, bus>>
        /\ \A o \in Requests \ {r} : request'[o] = request[o]
        /\ request[r] = NoRequest
    BY <1>1, BeginStartStep, BeginCloseStep, BeginEndStep DEF mutexes
  <2> QED
    BY <2>1, LockKept DEF NoRequest
<1>2. CASE Lookup(r)
  BY <1>2, LookupStep, LockKept DEF mutexes
<1>3. CASE GetFreePort(r)
  BY <1>3, GetFreePortStep, LockWalks DEF mutexes
<1>4. CASE MakeSource(r)
  BY <1>4, MakeSourceStep, LockWalks DEF mutexes
<1>5. CASE MakeElements(r)
  BY <1>5, MakeElementsStep, LockKept DEF mutexes
<1>6. CASE PausePipeline(r)
  BY <1>6, PausePipelineStep, LockWalks DEF mutexes
<1>7. CASE AddElements(r)
  BY <1>7, AddElementsStep, LockWalks DEF mutexes
<1>8. CASE LinkSource(r)
  BY <1>8, LinkSourceStep, LockWalks DEF mutexes
<1>9. CASE InsertSession(r)
  BY <1>9, InsertSessionStep, LockWalks DEF mutexes
<1>10. CASE WatchBus(r)
  <2>1. PoisonedByTheBusThread'
    BY <1>10, WatchBusStep DEF LockInv, PoisonedByTheBusThread, mutexes
  <2>2. \A g \in Gstreamers, o \in Requests :
            inner_mutex'[g] = o => request'[o].g = g /\ request'[o].pc \in InnerHeld
    BY <1>10, WatchBusStep DEF LockInv, mutexes, Walks
  <2> QED
    BY <2>1, <2>2 DEF LockInv
<1>11. CASE PlayPipeline(r)
  BY <1>11, PlayPipelineStep, LockWalks DEF mutexes
<1>12. CASE FailSource(r)
  BY <1>12, FailSourceStep, LockTaken
<1>13. CASE AbortState(r)
  BY <1>13, AbortStateStep, LockWalks DEF mutexes
<1>14. CASE DropSource(r)
  BY <1>14, DropSourceStep, LockReleased DEF Walks
<1>15. CASE ReplayPipeline(r)
  BY <1>15, ReplayPipelineStep, LockWalks DEF mutexes
<1>16. CASE ConnectPlain(r)
  BY <1>16, ConnectPlainStep, LockWalks DEF mutexes
<1>17. CASE RegisterProducer(r)
  BY <1>17, RegisterProducerStep, LockWalks DEF mutexes
<1>18. CASE PublishProducer(r)
  BY <1>18, PublishProducerStep, LockWalks DEF mutexes
<1>19. CASE InsertPipeline(r)
  BY <1>19, InsertPipelineStep, LockWalks DEF mutexes
<1>20. CASE CloseInMaps(r)
  BY <1>20, CloseInMapsStep, LockWalks DEF mutexes
<1>21. CASE CloseLookup(r) \/ EndLookup(r)
  BY <1>21, FindStep, LockKept DEF mutexes
<1>22. CASE CloseLocksInner(r)
  BY <1>22, CloseLocksInnerStep, LockTaken
<1>23. CASE CloseLocksPipeline(r)
  <2>1. /\ inner_mutex' = inner_mutex
        /\ r # "poisoned"
        /\ \A g \in Gstreamers : pipeline_mutex'[g] = "poisoned" <=> pipeline_mutex[g] = "poisoned"
    BY <1>23, CloseLocksPipelineStep DEF Typed, OthersOK
  <2>2. PoisonedByTheBusThread'
    BY <1>23, <2>1, CloseLocksPipelineStep DEF LockInv, PoisonedByTheBusThread
  <2>3. \A g \in Gstreamers, o \in Requests :
            inner_mutex'[g] = o => request'[o].g = g /\ request'[o].pc \in InnerHeld
    BY <1>23, <2>1, CloseLocksPipelineStep DEF LockInv, Walks
  <2> QED
    BY <2>2, <2>3 DEF LockInv
<1>24. CASE ClosePauses(r)
  BY <1>24, ClosePausesStep, LockReleased, LockWalks DEF mutexes, Ends
<1>25. CASE CloseRemoves(r)
  BY <1>25, CloseRemovesStep, LockReleased DEF Ends
<1>26. CASE EndInMaps(r)
  BY <1>26, EndInMapsStep, LockWalks DEF mutexes
<1>27. CASE EndStops(r)
  BY <1>27, EndStopsStep, LockWalks DEF mutexes
<1>28. CASE RequestPanics(r)
  <2>1. \A g \in Gstreamers : inner_mutex[g] = r => pipeline_mutex[g] = "poisoned"
    BY <1>28, RequestPanicsStep DEF LockInv, InnerSteps
  <2>2. PoisonedByTheBusThread'
    BY <1>28, <2>1, RequestPanicsStep DEF LockInv, PoisonedByTheBusThread
  <2>3. \A g \in Gstreamers, o \in Requests :
            inner_mutex'[g] = o => inner_mutex[g] = o /\ o # r
    BY <1>28, RequestPanicsStep
  <2>4. \A g \in Gstreamers, o \in Requests :
            inner_mutex'[g] = o => request'[o].g = g /\ request'[o].pc \in InnerHeld
    BY <1>28, <2>3, RequestPanicsStep DEF LockInv, Ends
  <2> QED
    BY <2>2, <2>4 DEF LockInv
<1> QED
  BY <1>1, <1>2, <1>3, <1>4, <1>5, <1>6, <1>7, <1>8, <1>9, <1>10, <1>11, <1>12, <1>13,
     <1>14, <1>15, <1>16, <1>17, <1>18, <1>19, <1>20, <1>21, <1>22, <1>23, <1>24, <1>25,
     <1>26, <1>27, <1>28 DEF StartRecording, CloseProducers, EndMeeting

\* LockInv is inductive.
LEMMA StepLock == Typed /\ LockInv /\ [Next]_vars => LockInv'
<1> SUFFICES ASSUME Typed, LockInv, [Next]_vars PROVE LockInv'
  OBVIOUS
<1>1. ASSUME NEW r \in Requests,
             StartRecording(r) \/ CloseProducers(r) \/ EndMeeting(r) \/ RequestPanics(r)
      PROVE  LockInv'
  BY <1>1, LockRequest
\* The threads take a mutex that is free and release what is theirs.
<1>2. ASSUME request' = request,
             \A g \in Gstreamers :
                /\ \A r \in Requests : inner_mutex'[g] = r => inner_mutex[g] = r
                /\ inner_mutex'[g] = "poisoned" => inner_mutex[g] = "poisoned"
                /\ pipeline_mutex[g] = "poisoned" => pipeline_mutex'[g] = "poisoned"
                /\ pipeline_mutex'[g] = "poisoned" =>
                      pipeline_mutex[g] = "poisoned" \/ bus'[g] = "ended"
                /\ pipeline_mutex[g] = "poisoned" => bus'[g] = bus[g]
      PROVE  LockInv'
  <2>1. PoisonedByTheBusThread'
    BY <1>2 DEF LockInv, PoisonedByTheBusThread
  <2>2. \A g \in Gstreamers, o \in Requests :
            inner_mutex'[g] = o => request'[o].g = g /\ request'[o].pc \in InnerHeld
    BY <1>2 DEF LockInv
  <2> QED
    BY <2>1, <2>2 DEF LockInv
<1>3. "pad" \notin Requests /\ "poisoned" \notin Requests /\ "pad" # "poisoned" /\ None # "poisoned"
      /\ None \notin Requests
  OBVIOUS
<1>4. ASSUME NEW g \in Gstreamers, Callback(g) PROVE LockInv'
  <2>1. CASE PadAdded(g)
    BY <2>1, <1>2, PadAddedStep DEF mutexes
  <2>2. CASE PadLocksPipeline(g)
    BY <2>2, <1>2, <1>3, PadLocksPipelineStep DEF Typed, OthersOK
  <2>3. CASE PadLocksInner(g)
    BY <2>3, <1>2, <1>3, PadLocksInnerStep DEF Typed, OthersOK
  <2>4. CASE PadVideo(g) \/ PadAudio(g) \/ PadRtcp(g)
    <3>1. \A h \in Gstreamers :
             /\ inner_mutex'[h] \in {inner_mutex[h], None}
             /\ pipeline_mutex'[h] \in {pipeline_mutex[h], None}
             /\ pipeline_mutex[h] = "poisoned" => pipeline_mutex'[h] = "poisoned"
      BY <2>4, <1>3, PadHandlesStep, UnlockTyped DEF Typed
    <3> QED
      BY <2>4, <1>2, <1>3, <3>1, PadHandlesStep
  <2>5. CASE PadPanics(g)
    BY <2>5, <1>3 DEF PadPanics, Restart, LockInv, PoisonedByTheBusThread
  <2> QED
    BY <1>4, <2>1, <2>2, <2>3, <2>4, <2>5 DEF Callback
<1>5. ASSUME NEW g \in Gstreamers, BusThread(g) PROVE LockInv'
  <2>1. CASE PadNotLinked(g) \/ PipelineError(g)
    BY <2>1, <1>2, ErrorStep DEF mutexes
  <2>2. CASE BusRestarts(g) \/ BusStops(g)
    BY <2>2, <1>2, <1>3, BusNullStep DEF mutexes
  <2>3. CASE BusPlays(g)
    BY <2>3, <1>2, <1>3, BusPlaysStep
  <2> QED
    BY <1>5, <2>1, <2>2, <2>3 DEF BusThread
<1>6. CASE UNCHANGED vars
  BY <1>6 DEF vars, LockInv, PoisonedByTheBusThread
<1> QED
  BY <1>1, <1>4, <1>5, <1>6 DEF Next

\* A request that panics poisons the mutex of inner only where the bus thread poisoned
\* that of the pipeline: between FailSource or CloseLocksInner and the release, the only
\* lock a request takes is that of the pipeline.
THEOREM PoisonStartsAtTheBusThread == Spec => []PoisonedByTheBusThread
<1>1. Init => LockInv
  BY DEF Init, LockInv, PoisonedByTheBusThread
<1>2. LockInv => PoisonedByTheBusThread
  BY DEF LockInv
<1> QED
  BY <1>1, <1>2, InitTyped, StepTyped, StepLock, PTL DEF Spec

-----------------------------------------------------------------------------
(* The pipeline of a meeting *)

OwnMeeting == \A g \in Gstreamers : gst'[g].m = gst[g].m

\* No instance changes its meeting.
LEMMA OwnMeetingKept ==
  /\ Steady \/ Retains => OwnMeeting
  /\ \A g \in Gstreamers : Disturbs(g) => OwnMeeting
<1>1. Steady \/ Retains => OwnMeeting
  BY DEF Steady, Alike, Retains, OwnMeeting
<1>2. \A g \in Gstreamers : Disturbs(g) => OwnMeeting
  BY DEF Disturbs, OwnMeeting
<1> QED
  BY <1>1, <1>2

\* A step of request r that neither starts nor finds an instance.
LEMMA MapKept ==
  ASSUME Typed, MapInv, MeetingInv, NEW r \in Requests, UNCHANGED pipeline_map, OwnMeeting,
         \A o \in Requests \ {r} : request'[o] = request[o],
         request'[r].pc \in StartSteps => request[r].pc \in StartSteps /\ request'[r].m = request[r].m,
         request'[r].pc \in Started =>
             /\ request[r].pc \in Started
             /\ request'[r].g = request[r].g /\ request'[r].exists = request[r].exists
  PROVE  MapInv' /\ MeetingInv'
<1>1. \A o \in Requests : request'[o].pc \in StartSteps =>
          request[o].pc \in StartSteps /\ request'[o].m = request[o].m
  OBVIOUS
<1>2. \A o \in Requests : request'[o].pc \in Started =>
          /\ request[o].pc \in Started /\ request'[o].m = request[o].m
          /\ request'[o].g = request[o].g /\ request'[o].exists = request[o].exists
  BY <1>1 DEF Started
<1>3. MapInv'
  BY <1>1, <1>2 DEF MapInv
<1>4. \A o \in Requests : request[o].pc \in Started => request[o].g \in Gstreamers
  BY StartedKnows
<1>5. MeetingInv'
  BY <1>2, <1>4 DEF MeetingInv, OwnMeeting, Typed, OthersOK
<1> QED
  BY <1>3, <1>5

\* A request that goes on or ends without touching pipeline_map keeps MapInv and
\* MeetingInv.
LEMMA MapWalks ==
  ASSUME Typed, MapInv, MeetingInv, NEW r \in Requests, UNCHANGED pipeline_map, OwnMeeting, NEW step,
         \/ Walks(r, step) /\ (step \in StartSteps => request[r].pc \in Started)
         \/ Ends(r)
  PROVE  MapInv' /\ MeetingInv'
<1>1. CASE Ends(r)
  BY <1>1, MapKept DEF Ends, NoRequest, Started, StartSteps
<1>2. CASE Walks(r, step) /\ (step \in StartSteps => request[r].pc \in Started)
  BY <1>2, MapKept DEF Walks, Started
<1> QED
  BY <1>1, <1>2

\* A start that begins is the only one of its meeting.
LEMMA MapBegin ==
  ASSUME Typed, MapInv, MeetingInv, NEW r \in Requests, BeginStart(r)
  PROVE  MapInv' /\ MeetingInv'
<1>1. \A o \in Requests : request'[o].pc \in Started => request[o].pc \in Started /\ request'[o] = request[o]
  BY BeginStartStep DEF Started
<1>2. MeetingInv'
  BY <1>1, BeginStartStep DEF MeetingInv
<1>3. \A o, u \in Requests :
          request'[o].pc \in StartSteps /\ request'[u].pc \in StartSteps
            /\ request'[o].m = request'[u].m => o = u
  BY BeginStartStep DEF MapInv
<1>4. MapInv'
  BY <1>1, <1>3, BeginStartStep DEF MapInv
<1> QED
  BY <1>2, <1>4

\* A start knows after its lookup what pipeline_map has for its meeting.
LEMMA MapLookup ==
  ASSUME Typed, MapInv, MeetingInv, NEW r \in Requests, Lookup(r)
  PROVE  MapInv' /\ MeetingInv'
<1>1. \A o \in Requests : request'[o].pc \in StartSteps =>
          request[o].pc \in StartSteps /\ request'[o].m = request[o].m
  BY LookupStep DEF StartSteps
<1>2. \A o \in Requests : request'[o].pc \in Started =>
          \/ o = r
          \/ request[o].pc \in Started /\ request'[o] = request[o]
  BY LookupStep
<1>3. /\ pipeline_map' = pipeline_map /\ request'[r].m = request[r].m /\ request[r].m \in Meetings
      /\ request'[r].g \in Gstreamers
  BY LookupStep
<1>5. /\ pipeline_map[request'[r].m] = IF request'[r].exists THEN request'[r].g ELSE None
      /\ \A g \in Gstreamers : gst[g].m # None => gst'[g].m = gst[g].m
      /\ gst'[request'[r].g].m = request[r].m
  <2>1. CASE /\ request'[r].exists /\ request'[r].g = pipeline_map[request[r].m]
             /\ gst' = gst
    <3>1. pipeline_map[request[r].m] # None
      BY <1>3, <2>1
    <3> QED
      BY <1>3, <2>1, <3>1 DEF MeetingInv
  <2>2. CASE /\ ~request'[r].exists /\ pipeline_map[request[r].m] = None
             /\ gst[request'[r].g] = NewGstreamer
             /\ gst'[request'[r].g].m = request[r].m
    <3>1. gst[request'[r].g].m = None
      BY <2>2 DEF NewGstreamer
    <3>2. \A g \in Gstreamers \ {request'[r].g} : gst'[g] = gst[g]
      BY LookupStep
    <3> QED
      BY <1>3, <2>2, <3>1, <3>2
  <2> QED
    BY <2>1, <2>2, LookupStep
<1>4. MapInv'
  BY <1>1, <1>2, <1>3, <1>5 DEF MapInv
<1>7. \A m \in Meetings : pipeline_map[m] # None => pipeline_map[m] \in Gstreamers
  BY DEF Typed, OthersOK
<1>8. \A o \in Requests : request[o].pc \in Started => request[o].g \in Gstreamers /\ request[o].m \in Meetings
  BY StartedKnows DEF Started
<1>9. MeetingInv'
  BY <1>2, <1>3, <1>5, <1>7, <1>8 DEF MeetingInv
<1> QED
  BY <1>4, <1>9

\* So its insertion overwrites no pipeline of another start.
LEMMA MapInsert ==
  ASSUME Typed, MapInv, MeetingInv, NEW r \in Requests, InsertPipeline(r)
  PROVE  /\ MapInv' /\ MeetingInv'
         /\ \A m \in Meetings : pipeline_map[m] \in {None, pipeline_map'[m]}
<1>1. /\ request[r].pc = "st_insert" /\ request[r].g \in Gstreamers /\ request[r].m \in Meetings
      /\ \A m \in Meetings \ {request[r].m} : pipeline_map'[m] = pipeline_map[m]
      /\ pipeline_map'[request[r].m] = request[r].g
      /\ gst' = gst
  BY InsertPipelineStep DEF Typed, OthersOK
<1>2. \A o \in Requests : request'[o].pc \in StartSteps => request'[o] = request[o] /\ o # r
  BY InsertPipelineStep DEF Ends, NoRequest, StartSteps
<1>3. request[r].pc \in StartSteps /\ request[r].pc \in Started
  BY <1>1 DEF Started, StartSteps
<1>4. \A o \in Requests : request'[o].pc \in StartSteps => request'[o].m # request[r].m
  BY <1>2, <1>3 DEF MapInv
<1>5. \A o \in Requests : request'[o].pc \in Started =>
         request'[o] = request[o] /\ request'[o].m \in Meetings \ {request[r].m}
  BY <1>2, <1>4, StartedKnows DEF Started
<1>6. MapInv'
  BY <1>1, <1>2, <1>5 DEF MapInv
<1>7. MeetingInv'
  BY <1>1, <1>3, <1>5 DEF MeetingInv
<1>8. \A m \in Meetings : pipeline_map[m] \in {None, pipeline_map'[m]}
  BY <1>1, <1>3 DEF MapInv
<1> QED
  BY <1>6, <1>7, <1>8

\* Every step of a request keeps MapInv and MeetingInv and overwrites no pipeline.
LEMMA MapRequest ==
  ASSUME Typed, MapInv, MeetingInv, NEW r \in Requests,
         StartRecording(r) \/ CloseProducers(r) \/ EndMeeting(r) \/ RequestPanics(r)
  PROVE  /\ MapInv' /\ MeetingInv'
         /\ \A m \in Meetings : pipeline_map[m] \in {None, pipeline_map'[m]}
<1> USE DEF Started, StartSteps
<1>1. CASE BeginStart(r)
  BY <1>1, BeginStartStep, MapBegin
<1>2. CASE Lookup(r)
  BY <1>2, LookupStep, MapLookup
<1>3. CASE GetFreePort(r)
  BY <1>3, GetFreePortStep, OwnMeetingKept, MapWalks
<1>4. CASE MakeSource(r)
  BY <1>4, MakeSourceStep, OwnMeetingKept, MapWalks
<1>5. CASE MakeElements(r)
  <2>1. CASE Ends(r)
    BY <1>5, <2>1, MakeElementsStep, OwnMeetingKept, MapWalks
  <2>2. CASE ~Ends(r)
    BY <1>5, <2>2, MakeElementsStep, OwnMeetingKept, MapKept
  <2> QED
    BY <2>1, <2>2
<1>6. CASE PausePipeline(r)
  BY <1>6, PausePipelineStep, OwnMeetingKept, MapWalks
<1>7. CASE AddElements(r)
  BY <1>7, AddElementsStep, OwnMeetingKept, MapWalks
<1>8. CASE LinkSource(r)
  BY <1>8, LinkSourceStep, OwnMeetingKept, MapWalks
<1>9. CASE InsertSession(r)
  BY <1>9, InsertSessionStep, OwnMeetingKept, MapWalks
<1>10. CASE WatchBus(r)
  BY <1>10, WatchBusStep, OwnMeetingKept, MapWalks
<1>11. CASE PlayPipeline(r)
  BY <1>11, PlayPipelineStep, OwnMeetingKept, MapWalks
<1>12. CASE FailSource(r)
  BY <1>12, FailSourceStep, OwnMeetingKept, MapWalks
<1>13. CASE AbortState(r)
  BY <1>13, AbortStateStep, OwnMeetingKept, MapWalks
<1>14. CASE DropSource(r)
  BY <1>14, DropSourceStep, OwnMeetingKept, MapWalks
<1>15. CASE ReplayPipeline(r)
  BY <1>15, ReplayPipelineStep, OwnMeetingKept, MapWalks
<1>16. CASE ConnectPlain(r)
  BY <1>16, ConnectPlainStep, OwnMeetingKept, MapWalks
<1>17. CASE RegisterProducer(r)
  BY <1>17, RegisterProducerStep, OwnMeetingKept, MapWalks
<1>18. CASE PublishProducer(r)
  BY <1>18, PublishProducerStep, OwnMeetingKept, MapWalks
<1>19. CASE InsertPipeline(r)
  BY <1>19, MapInsert
<1>20. CASE BeginClose(r) \/ BeginEnd(r)
  <2>1. /\ UNCHANGED pipeline_map /\ Steady
        /\ request'[r].pc \notin StartSteps
        /\ \A o \in Requests \ {r} : request'[o] = request[o]
    BY <1>20, BeginCloseStep, BeginEndStep
  <2> QED
    BY <2>1, OwnMeetingKept, MapKept
<1>21. CASE CloseInMaps(r)
  BY <1>21, CloseInMapsStep, OwnMeetingKept, MapWalks
<1>22. CASE CloseLookup(r) \/ EndLookup(r)
  <2>1. /\ UNCHANGED pipeline_map /\ Steady
        /\ request'[r].pc \notin StartSteps
        /\ \A o \in Requests \ {r} : request'[o] = request[o]
    <3>1. Ends(r) => request'[r].pc \notin StartSteps
      BY DEF Ends, NoRequest
    <3> QED
      BY <1>22, <3>1, FindStep
  <2> QED
    BY <2>1, OwnMeetingKept, MapKept
<1>23. CASE CloseLocksInner(r)
  BY <1>23, CloseLocksInnerStep, OwnMeetingKept, MapWalks
<1>24. CASE CloseLocksPipeline(r)
  BY <1>24, CloseLocksPipelineStep, OwnMeetingKept, MapWalks
<1>25. CASE ClosePauses(r)
  BY <1>25, ClosePausesStep, OwnMeetingKept, MapWalks
<1>26. CASE CloseRemoves(r)
  BY <1>26, CloseRemovesStep, OwnMeetingKept, MapWalks
<1>27. CASE EndInMaps(r)
  BY <1>27, EndInMapsStep, OwnMeetingKept, MapWalks
<1>28. CASE EndStops(r)
  BY <1>28, EndStopsStep, OwnMeetingKept, MapWalks
<1>29. CASE RequestPanics(r)
  BY <1>29, RequestPanicsStep, OwnMeetingKept, MapWalks
<1> QED
  BY <1>1, <1>2, <1>3, <1>4, <1>5, <1>6, <1>7, <1>8, <1>9, <1>10, <1>11, <1>12, <1>13,
     <1>14, <1>15, <1>16, <1>17, <1>18, <1>19, <1>20, <1>21, <1>22, <1>23, <1>24, <1>25,
     <1>26, <1>27, <1>28, <1>29 DEF StartRecording, CloseProducers, EndMeeting

\* MapInv and MeetingInv are inductive.
LEMMA StepMap ==
  ASSUME Typed, MapInv, MeetingInv, [Next]_vars
  PROVE  /\ MapInv' /\ MeetingInv'
         /\ (\A m \in Meetings : pipeline_map[m] \in {None, pipeline_map'[m]}) \/ Restart
<1>1. ASSUME NEW r \in Requests,
             StartRecording(r) \/ CloseProducers(r) \/ EndMeeting(r) \/ RequestPanics(r)
      PROVE  /\ MapInv' /\ MeetingInv'
             /\ \A m \in Meetings : pipeline_map[m] \in {None, pipeline_map'[m]}
  BY <1>1, MapRequest
<1>2. ASSUME UNCHANGED <<pipeline_map, request>>, OwnMeeting
      PROVE  /\ MapInv' /\ MeetingInv'
             /\ \A m \in Meetings : pipeline_map[m] \in {None, pipeline_map'[m]}
  <2>1. \A o \in Requests : request[o].pc \in Started => request[o].g \in Gstreamers
    BY StartedKnows
  <2>2. MapInv'
    BY <1>2 DEF MapInv
  <2>3. MeetingInv'
    BY <1>2, <2>1 DEF MeetingInv, OwnMeeting, Typed, OthersOK
  <2> QED
    BY <1>2, <2>2, <2>3
<1>3. Restart => MapInv' /\ MeetingInv'
  BY DEF Restart, MapInv, MeetingInv, NoRequest, Started, StartSteps
<1>4. ASSUME NEW g \in Gstreamers, Callback(g)
      PROVE  Restart \/ (UNCHANGED <<pipeline_map, request>> /\ OwnMeeting)
  BY <1>4, PadAddedStep, PadLocksPipelineStep, PadLocksInnerStep, PadHandlesStep, OwnMeetingKept
     DEF Callback, PadPanics
<1>5. ASSUME NEW g \in Gstreamers, BusThread(g)
      PROVE  UNCHANGED <<pipeline_map, request>> /\ OwnMeeting
  BY <1>5, ErrorStep, BusNullStep, BusPlaysStep, OwnMeetingKept DEF BusThread
<1>6. CASE UNCHANGED vars
  BY <1>2, <1>6 DEF vars, OwnMeeting
<1> QED
  BY <1>1, <1>2, <1>3, <1>4, <1>5, <1>6 DEF Next

\* Initially there is neither a pipeline nor a request.
LEMMA InitMap == Init => MapInv /\ MeetingInv
  BY DEF Init, MapInv, MeetingInv, NoRequest, Started, StartSteps

\* InsertPipeline never overwrites the pipeline of another start: the starts of one
\* meeting exclude each other from the lookup to the insertion, whatever fails in them.
THEOREM PipelineStaysInMap == Spec => PipelineIsStable
<1>1. Typed /\ MapInv /\ MeetingInv /\ [Next]_vars => MapInv' /\ MeetingInv'
  BY StepMap
<1>2. Typed /\ MapInv /\ MeetingInv /\ [Next]_vars =>
         [\/ \A m \in Meetings : pipeline_map[m] \in {None, pipeline_map'[m]}
          \/ Restart]_vars
  BY StepMap
<1> QED
  BY <1>1, <1>2, InitTyped, StepTyped, InitMap, PTL DEF Spec, PipelineIsStable

-----------------------------------------------------------------------------
(* A pipeline on which something goes on is in pipeline_map, or on its way there *)

MapGrows == \A m \in Meetings : pipeline_map[m] \in {None, pipeline_map'[m]}

\* What a step must do to keep KnownInv: activate only what is known, and forget nothing
\* active.
LEMMA KnownKept ==
  ASSUME Typed, KnownInv, MapGrows,
         \A r \in Requests : Entering(request[r]) =>
             \/ Entering(request'[r]) /\ request'[r].g = request[r].g
             \/ \E m \in Meetings : pipeline_map'[m] = request[r].g,
         \A g \in Gstreamers : Active(g)' => Active(g) \/ Known(g)',
         \A r \in Requests : request'[r].pc \in CloseSteps =>
             \/ /\ request[r].pc \in CloseSteps
                /\ request'[r].m = request[r].m /\ request'[r].g = request[r].g
             \/ pipeline_map'[request'[r].m] = request'[r].g,
         \A r \in Requests : request'[r].pc \in FailSteps => request'[r].exists
  PROVE  KnownInv'
<1>1. \A g \in Gstreamers : Known(g) => Known(g)'
  <2> SUFFICES ASSUME NEW g \in Gstreamers, Known(g) PROVE Known(g)'
    OBVIOUS
  <2>1. CASE \E m \in Meetings : pipeline_map[m] = g
    BY <2>1 DEF Known, MapGrows
  <2>2. ASSUME NEW r \in Requests, Entering(request[r]), request[r].g = g PROVE Known(g)'
    BY <2>2 DEF Known, Entering
  <2> QED
    BY <2>1, <2>2 DEF Known
<1>2. \A g \in Gstreamers : Active(g)' => Known(g)'
  BY <1>1 DEF KnownInv
<1>3. \A r \in Requests : request[r].pc \in CloseSteps => request[r].m \in Meetings /\ request[r].g \in Gstreamers
  BY DEF Typed, RequestOK, CallOK, CloseSteps
<1>4. \A r \in Requests : request'[r].pc \in CloseSteps => pipeline_map'[request'[r].m] = request'[r].g
  BY <1>3 DEF KnownInv, MapGrows
<1> QED
  BY <1>2, <1>4 DEF KnownInv

\* A step of request r that leaves pipeline_map and the threads alone.
LEMMA KnownWalks ==
  ASSUME Typed, KnownInv, NEW r \in Requests, UNCHANGED pipeline_map, NEW step,
         \A g \in Gstreamers : Active(g)' => Active(g) \/ Known(g)',
         \/ /\ Walks(r, step)
            /\ step \in CloseSteps => request[r].pc \in CloseSteps
            /\ Entering(request[r]) => step \in {"st_register", "st_publish", "st_insert"}
            /\ step \in FailSteps => request[r].exists
         \/ Ends(r) /\ ~Entering(request[r])
  PROVE  KnownInv'
<1>1. MapGrows
  BY DEF MapGrows
<1>2. CASE Ends(r) /\ ~Entering(request[r])
  <2>1. request'[r].pc = "idle" /\ \A o \in Requests \ {r} : request'[o] = request[o]
    BY <1>2 DEF Ends, NoRequest
  <2>2. \A o \in Requests : Entering(request[o]) => Entering(request'[o]) /\ request'[o].g = request[o].g
    BY <1>2, <2>1 DEF Entering
  <2>3. \A o \in Requests : request'[o].pc \in CloseSteps \cup FailSteps => request'[o] = request[o]
    BY <2>1 DEF CloseSteps, FailSteps
  <2> QED
    BY <1>1, <2>2, <2>3, KnownKept DEF KnownInv
<1>3. CASE Walks(r, step) /\ ~(Ends(r) /\ ~Entering(request[r]))
  <2>1. \A o \in Requests : Entering(request[o]) => Entering(request'[o]) /\ request'[o].g = request[o].g
    BY <1>3 DEF Entering, Walks
  <2>2. \A o \in Requests : request'[o].pc \in CloseSteps =>
             /\ request[o].pc \in CloseSteps
             /\ request'[o].m = request[o].m /\ request'[o].g = request[o].g
    BY <1>3 DEF Walks
  <2>3. \A o \in Requests : request'[o].pc \in FailSteps => request'[o].exists
    BY <1>3 DEF Walks, KnownInv
  <2> QED
    BY <1>1, <2>1, <2>2, <2>3, KnownKept
<1> QED
  BY <1>2, <1>3

\* What the shapes of a step of a request mean for activity.
LEMMA CalmActive ==
  ASSUME Steady \/ Calm, UNCHANGED <<bus, pad>>
  PROVE  \A g \in Gstreamers : Active(g)' => Active(g) \/ Known(g)'
<1>1. \A g \in Gstreamers : gst'[g].state = gst[g].state /\ gst'[g].errors = gst[g].errors
  BY DEF Steady, Alike, Calm
<1> QED
  BY <1>1 DEF Active

\* A change of state activates nothing but a known pipeline that is set to Playing.
LEMMA SwitchActive ==
  ASSUME NEW g \in Gstreamers, NEW s, Switches(g, s), UNCHANGED <<bus, pad>>,
         s # "Playing" \/ Known(g)'
  PROVE  \A h \in Gstreamers : Active(h)' => Active(h) \/ Known(h)'
<1>1. \A h \in Gstreamers \ {g} : Active(h)' => Active(h)
  BY DEF Switches, Active
<1>2. s # "Playing" => (Active(g)' => Active(g))
  BY DEF Switches, Active
<1> QED
  BY <1>1, <1>2

\* The instance a start found in pipeline_map is still there.
LEMMA ExistsKnown ==
  ASSUME Typed, MapInv, NEW r \in Requests, request[r].pc \in Started, request[r].exists
  PROVE  pipeline_map[request[r].m] = request[r].g /\ Known(request[r].g)
<1>1. request[r].m \in Meetings /\ pipeline_map[request[r].m] = request[r].g
  BY StartedKnows DEF MapInv, Started
<1> QED
  BY <1>1 DEF Known

\* A start that plays its pipeline goes on to enter it into pipeline_map.
LEMMA KnownStart ==
  ASSUME "mediasoup" \notin Faults, Typed, MapInv, MeetingInv, KnownInv,
         NEW r \in Requests, StartRecording(r)
  PROVE  KnownInv'
<1> USE DEF CloseSteps, FailSteps
<1>1. CASE BeginStart(r)
  <2>1. \A o \in Requests : Entering(request[o]) => Entering(request'[o]) /\ request'[o].g = request[o].g
    BY <1>1, BeginStartStep DEF Entering, NoRequest
  <2>2. \A o \in Requests : request'[o].pc \in CloseSteps \cup FailSteps => request'[o] = request[o]
    BY <1>1, BeginStartStep
  <2>3. MapGrows
    BY <1>1, BeginStartStep DEF MapGrows
  <2>4. \A g \in Gstreamers : Active(g)' => Active(g) \/ Known(g)'
    BY <1>1, BeginStartStep, CalmActive
  <2> QED
    BY <2>1, <2>2, <2>3, <2>4, KnownKept DEF KnownInv
<1>2. CASE Lookup(r)
  <2>1. \A o \in Requests : Entering(request[o]) => Entering(request'[o]) /\ request'[o].g = request[o].g
    BY <1>2, LookupStep DEF Entering
  <2>2. \A o \in Requests : request'[o].pc \in CloseSteps \cup FailSteps => request'[o] = request[o]
    BY <1>2, LookupStep
  <2>3. MapGrows
    BY <1>2, LookupStep DEF MapGrows
  <2>4. \A g \in Gstreamers : gst'[g].state = gst[g].state /\ gst'[g].errors = gst[g].errors
    <3>1. CASE gst' = gst
      BY <3>1
    <3>2. CASE gst' # gst
      <4>1. PICK h \in Gstreamers : h = request'[r].g
        BY <1>2, LookupStep
      <4>2. \A g \in Gstreamers \ {h} : gst'[g] = gst[g]
        BY <1>2, <4>1, LookupStep
      <4>3. gst'[h].state = gst[h].state /\ gst'[h].errors = gst[h].errors
        BY <1>2, <3>2, <4>1, LookupStep DEF Alike, NewGstreamer
      <4> QED
        BY <4>2, <4>3
    <3> QED
      BY <3>1, <3>2
  <2>5. \A g \in Gstreamers : Active(g)' => Active(g) \/ Known(g)'
    BY <1>2, <2>4, LookupStep DEF Active
  <2> QED
    BY <2>1, <2>2, <2>3, <2>5, KnownKept DEF KnownInv
<1>3. CASE GetFreePort(r)
  BY <1>3, GetFreePortStep, CalmActive, KnownWalks DEF Entering
<1>4. CASE MakeSource(r)
  BY <1>4, MakeSourceStep, CalmActive, KnownWalks DEF Entering
<1>5. CASE MakeElements(r)
  <2>1. CASE Ends(r)
    BY <1>5, <2>1, MakeElementsStep, CalmActive, KnownWalks DEF Entering
  <2>2. CASE ~Ends(r)
    <3>1. \A o \in Requests : Entering(request[o]) => Entering(request'[o]) /\ request'[o].g = request[o].g
      BY <1>5, <2>2, MakeElementsStep DEF Entering
    <3>2. \A o \in Requests : request'[o].pc \in CloseSteps \cup FailSteps => request'[o] = request[o]
      BY <1>5, <2>2, MakeElementsStep
    <3>3. MapGrows
      BY <1>5, MakeElementsStep DEF MapGrows
    <3>4. \A g \in Gstreamers : Active(g)' => Active(g) \/ Known(g)'
      BY <1>5, MakeElementsStep, CalmActive
    <3> QED
      BY <3>1, <3>2, <3>3, <3>4, KnownKept DEF KnownInv
  <2> QED
    BY <2>1, <2>2
<1>6. CASE PausePipeline(r)
  BY <1>6, PausePipelineStep, SwitchActive, KnownWalks DEF Entering
<1>7. CASE AddElements(r)
  BY <1>7, AddElementsStep, CalmActive, KnownWalks DEF Entering
<1>8. CASE LinkSource(r)
  BY <1>8, LinkSourceStep, CalmActive, KnownWalks DEF Entering
<1>9. CASE InsertSession(r)
  BY <1>9, InsertSessionStep, CalmActive, KnownWalks DEF Entering
<1>10. CASE WatchBus(r)
  <2>1. \A g \in Gstreamers : gst'[g].state = gst[g].state /\ gst'[g].errors = gst[g].errors
    BY <1>10, WatchBusStep DEF Steady, Alike
  <2>2. \A g \in Gstreamers : bus'[g] = "restarting" => bus[g] = "restarting"
    BY <1>10, WatchBusStep
  <2>3. \A g \in Gstreamers : Active(g)' => Active(g) \/ Known(g)'
    BY <1>10, <2>1, <2>2, WatchBusStep DEF Active
  <2> QED
    BY <1>10, <2>3, WatchBusStep, KnownWalks DEF Entering
<1>11. CASE PlayPipeline(r)
  <2>1. PICK g \in Gstreamers : g = request[r].g
    BY <1>11, PlayPipelineStep
  <2>2. /\ Switches(g, "Playing") /\ UNCHANGED <<bus, pad, pipeline_map>>
        /\ request[r].pc = "st_play"
    BY <1>11, <2>1, PlayPipelineStep
  <2>3. CASE Walks(r, "st_connect")
    <3>1. Known(g)'
      BY <2>1, <2>3 DEF Known, Walks, Entering
    <3>2. \A h \in Gstreamers : Active(h)' => Active(h) \/ Known(h)'
      BY <2>2, <3>1, SwitchActive
    <3> QED
      BY <2>2, <2>3, <3>2, KnownWalks DEF Entering
  <2>4. CASE Walks(r, "st_fail") /\ request[r].exists
    <3>1. pipeline_map[request[r].m] = g /\ request[r].m \in Meetings
      BY <2>1, <2>2, <2>4, ExistsKnown, StartedKnows DEF Started, StartSteps
    <3>2. Known(g)'
      BY <2>2, <3>1 DEF Known
    <3>3. \A h \in Gstreamers : Active(h)' => Active(h) \/ Known(h)'
      BY <2>2, <3>2, SwitchActive
    <3> QED
      BY <2>2, <2>4, <3>3, KnownWalks DEF Entering
  <2>5. CASE Ends(r) /\ gst'[request[r].g].state = gst[request[r].g].state
    <3>1. \A h \in Gstreamers : gst'[h].state = gst[h].state /\ gst'[h].errors = gst[h].errors
      BY <2>1, <2>2, <2>5 DEF Switches
    <3>2. \A h \in Gstreamers : Active(h)' => Active(h) \/ Known(h)'
      BY <2>2, <3>1 DEF Active
    <3> QED
      BY <2>2, <2>5, <3>2, KnownWalks DEF Entering
  <2> QED
    BY <1>11, <2>3, <2>4, <2>5, PlayPipelineStep
<1>12. CASE FailSource(r)
  BY <1>12, FailSourceStep, CalmActive, KnownWalks DEF Entering, KnownInv
<1>13. CASE AbortState(r)
  BY <1>13, AbortStateStep, CalmActive, KnownWalks DEF Entering, KnownInv
<1>14. CASE DropSource(r)
  BY <1>14, DropSourceStep, CalmActive, KnownWalks DEF Entering, KnownInv
<1>15. CASE ReplayPipeline(r)
  <2>1. PICK g \in Gstreamers : g = request[r].g
    BY <1>15, ReplayPipelineStep
  <2>2. /\ request[r].pc = "st_replay"
        /\ Switches(g, "Playing") /\ UNCHANGED <<bus, pad, pipeline_map>> /\ Ends(r)
    BY <1>15, <2>1, ReplayPipelineStep
  <2>3. request[r].exists
    BY <2>2 DEF KnownInv
  <2>4. pipeline_map[request[r].m] = g /\ request[r].m \in Meetings
    BY <2>1, <2>2, <2>3, ExistsKnown, StartedKnows DEF Started, StartSteps
  <2>5. Known(g)'
    BY <2>2, <2>4 DEF Known
  <2>6. \A h \in Gstreamers : Active(h)' => Active(h) \/ Known(h)'
    BY <2>2, <2>5, SwitchActive
  <2> QED
    BY <2>2, <2>6, KnownWalks DEF Entering
<1>16. CASE ConnectPlain(r)
  BY <1>16, ConnectPlainStep, CalmActive, KnownWalks DEF Entering
<1>17. CASE RegisterProducer(r)
  BY <1>17, RegisterProducerStep, CalmActive, KnownWalks DEF Entering
<1>18. CASE PublishProducer(r)
  BY <1>18, PublishProducerStep, CalmActive, KnownWalks DEF Entering
<1>19. CASE InsertPipeline(r)
  <2>1. MapGrows
    BY <1>19, MapInsert DEF MapGrows
  <2>2. pipeline_map'[request[r].m] = request[r].g /\ request[r].m \in Meetings
    BY <1>19, InsertPipelineStep DEF Typed, OthersOK
  <2>3. request'[r].pc = "idle" /\ \A o \in Requests \ {r} : request'[o] = request[o]
    BY <1>19, InsertPipelineStep DEF Ends, NoRequest
  <2>4. \A o \in Requests : Entering(request[o]) =>
             \/ Entering(request'[o]) /\ request'[o].g = request[o].g
             \/ \E m \in Meetings : pipeline_map'[m] = request[o].g
    BY <2>2, <2>3
  <2>5. \A o \in Requests : request'[o].pc \in CloseSteps \cup FailSteps => request'[o] = request[o]
    BY <2>3
  <2>6. \A g \in Gstreamers : Active(g)' => Active(g) \/ Known(g)'
    BY <1>19, InsertPipelineStep, CalmActive
  <2> QED
    BY <2>1, <2>4, <2>5, <2>6, KnownKept DEF KnownInv
<1> QED
  BY <1>1, <1>2, <1>3, <1>4, <1>5, <1>6, <1>7, <1>8, <1>9, <1>10, <1>11, <1>12, <1>13,
     <1>14, <1>15, <1>16, <1>17, <1>18, <1>19 DEF StartRecording

\* The other requests work on pipelines of the map.
LEMMA KnownRequest ==
  ASSUME Typed, MapInv, MeetingInv, KnownInv, NEW r \in Requests,
         CloseProducers(r) \/ EndMeeting(r) \/ RequestPanics(r)
  PROVE  KnownInv'
<1> USE DEF CloseSteps, FailSteps
<1>1. CASE BeginClose(r) \/ BeginEnd(r)
  <2>1. /\ UNCHANGED <<bus, pad, pipeline_map>> /\ Steady /\ request[r] = NoRequest
        /\ request'[r].pc \in {"cl_maps", "en_maps"}
        /\ \A o \in Requests \ {r} : request'[o] = request[o]
    BY <1>1, BeginCloseStep, BeginEndStep
  <2>2. \A o \in Requests : Entering(request[o]) => Entering(request'[o]) /\ request'[o].g = request[o].g
    BY <2>1 DEF Entering, NoRequest
  <2>3. \A o \in Requests : request'[o].pc \in CloseSteps \cup FailSteps => request'[o] = request[o]
    BY <2>1
  <2>4. MapGrows
    BY <2>1 DEF MapGrows
  <2> QED
    BY <2>1, <2>2, <2>3, <2>4, CalmActive, KnownKept DEF KnownInv
<1>2. CASE CloseInMaps(r)
  BY <1>2, CloseInMapsStep, CalmActive, KnownWalks DEF Entering
<1>3. CASE CloseLookup(r) \/ EndLookup(r)
  <2>1. /\ UNCHANGED <<bus, pad, pipeline_map>> /\ Steady
        /\ request[r].pc \in {"cl_lookup", "en_lookup"}
        /\ \A o \in Requests \ {r} : request'[o] = request[o]
    BY <1>3, FindStep
  <2>2. /\ request'[r].pc \notin FailSteps
        /\ request'[r].pc \in CloseSteps => pipeline_map'[request'[r].m] = request'[r].g
    <3>1. CASE Ends(r)
      BY <3>1 DEF Ends, NoRequest
    <3>2. CASE ~Ends(r)
      BY <1>3, <3>2, FindStep
    <3> QED
      BY <3>1, <3>2
  <2>3. \A o \in Requests : Entering(request[o]) => Entering(request'[o]) /\ request'[o].g = request[o].g
    BY <2>1 DEF Entering
  <2>4. MapGrows
    BY <2>1 DEF MapGrows
  <2>5. \A o \in Requests : request'[o].pc \in CloseSteps =>
           \/ request'[o] = request[o]
           \/ pipeline_map'[request'[o].m] = request'[o].g
    BY <2>1, <2>2
  <2>6. \A o \in Requests : request'[o].pc \in FailSteps => request'[o].exists
    BY <2>1, <2>2 DEF KnownInv
  <2> QED
    BY <2>1, <2>3, <2>4, <2>5, <2>6, CalmActive, KnownKept
<1>4. CASE CloseLocksInner(r)
  BY <1>4, CloseLocksInnerStep, CalmActive, KnownWalks DEF Entering
<1>5. CASE CloseLocksPipeline(r)
  BY <1>5, CloseLocksPipelineStep, CalmActive, KnownWalks DEF Entering
<1>6. CASE ClosePauses(r)
  BY <1>6, ClosePausesStep, SwitchActive, KnownWalks DEF Entering
<1>7. CASE CloseRemoves(r)
  <2>1. PICK g \in Gstreamers : g = request[r].g
    BY <1>7, CloseRemovesStep
  <2>2. /\ request[r].pc = "cl_remove"
        /\ Switches(g, "Playing") /\ UNCHANGED <<bus, pad, pipeline_map>> /\ Ends(r)
    BY <1>7, <2>1, CloseRemovesStep
  <2>3. pipeline_map[request[r].m] = g /\ request[r].m \in Meetings
    BY <2>1, <2>2 DEF KnownInv, Typed, RequestOK, CallOK
  <2>4. Known(g)'
    BY <2>2, <2>3 DEF Known
  <2>5. \A h \in Gstreamers : Active(h)' => Active(h) \/ Known(h)'
    BY <2>2, <2>4, SwitchActive
  <2> QED
    BY <2>2, <2>5, KnownWalks DEF Entering
<1>8. CASE EndInMaps(r)
  BY <1>8, EndInMapsStep, CalmActive, KnownWalks DEF Entering
<1>9. CASE EndStops(r)
  BY <1>9, EndStopsStep, SwitchActive, KnownWalks DEF Entering
<1>10. CASE RequestPanics(r)
  BY <1>10, RequestPanicsStep, CalmActive, KnownWalks DEF Entering, InnerSteps, PipelineSteps
<1> QED
  BY <1>1, <1>2, <1>3, <1>4, <1>5, <1>6, <1>7, <1>8, <1>9, <1>10
     DEF CloseProducers, EndMeeting

\* A thread works on a pipeline that is active, and known.
LEMMA KnownThread ==
  ASSUME Typed, KnownInv, NEW g \in Gstreamers, Active(g), UNCHANGED <<pipeline_map, request>>,
         \A h \in Gstreamers \ {g} : gst'[h] = gst[h] /\ bus'[h] = bus[h] /\ pad'[h] = pad[h]
  PROVE  KnownInv'
<1>1. Known(g)'
  BY DEF KnownInv, Known, Entering
<1>2. \A h \in Gstreamers \ {g} : Active(h)' => Active(h)
  BY DEF Active
<1>3. MapGrows
  BY DEF MapGrows
<1> QED
  BY <1>1, <1>2, <1>3, KnownKept DEF KnownInv

\* KnownInv is inductive if mediasoup does not fail.
LEMMA StepKnown ==
  ASSUME "mediasoup" \notin Faults, Typed, MapInv, MeetingInv, KnownInv, [Next]_vars
  PROVE  KnownInv'
<1>1. ASSUME NEW r \in Requests,
             StartRecording(r) \/ CloseProducers(r) \/ EndMeeting(r) \/ RequestPanics(r)
      PROVE  KnownInv'
  BY <1>1, KnownStart, KnownRequest
<1>2. ASSUME NEW g \in Gstreamers, Callback(g) PROVE KnownInv'
  <2>1. CASE PadAdded(g)
    BY <2>1, PadAddedStep, KnownThread DEF Active
  <2>2. CASE PadLocksPipeline(g)
    BY <2>2, PadLocksPipelineStep, KnownThread DEF Active, Disturbs
  <2>3. CASE PadLocksInner(g)
    BY <2>3, PadLocksInnerStep, KnownThread DEF Active, Disturbs
  <2>4. CASE PadVideo(g) \/ PadAudio(g) \/ PadRtcp(g)
    BY <2>4, PadHandlesStep, KnownThread DEF Active, Disturbs
  <2>5. CASE PadPanics(g)
    BY <2>5 DEF PadPanics, Restart, KnownInv, Active, NewGstreamer, NoRequest, CloseSteps, FailSteps
  <2> QED
    BY <1>2, <2>1, <2>2, <2>3, <2>4, <2>5 DEF Callback
<1>3. ASSUME NEW g \in Gstreamers, BusThread(g) PROVE KnownInv'
  <2>1. CASE PadNotLinked(g) \/ PipelineError(g)
    BY <2>1, ErrorStep, KnownThread DEF Active, Disturbs
  <2>2. CASE BusRestarts(g) \/ BusStops(g)
    BY <2>2, BusNullStep, KnownThread DEF Active, Disturbs
  <2>3. CASE BusPlays(g)
    BY <2>3, BusPlaysStep, KnownThread DEF Active, Disturbs
  <2> QED
    BY <1>3, <2>1, <2>2, <2>3 DEF BusThread
<1>4. CASE UNCHANGED vars
  BY <1>4 DEF vars, KnownInv, Known, Active, Entering
<1> QED
  BY <1>1, <1>2, <1>3, <1>4 DEF Next

\* Initially nothing is active.
LEMMA InitKnown == Init => KnownInv
  BY DEF Init, KnownInv, Active, NewGstreamer, NoRequest, CloseSteps, FailSteps

\* An instance that plays is the one of its meeting in pipeline_map, or that of the one
\* start that is about to enter it.
LEMMA PlaysForMeeting ==
  ASSUME Typed, MapInv, MeetingInv, KnownInv, NEW g \in Gstreamers, gst[g].state = "Playing"
  PROVE  /\ gst[g].m \in Meetings
         /\ \/ pipeline_map[gst[g].m] = g
            \/ \E r \in Requests :
                  request[r].pc \in Started /\ request[r].g = g /\ request[r].m = gst[g].m
<1>1. Known(g)
  BY DEF KnownInv, Active
<1>2. ASSUME NEW m \in Meetings, pipeline_map[m] = g PROVE gst[g].m = m
  BY <1>2 DEF MeetingInv
<1>3. ASSUME NEW r \in Requests, Entering(request[r]), request[r].g = g
      PROVE  request[r].pc \in Started /\ request[r].m = gst[g].m /\ request[r].m \in Meetings
  <2>1. request[r].pc \in Started /\ request[r].pc \in StartSteps
    BY <1>3 DEF Entering, Started, StartSteps
  <2> QED
    BY <1>3, <2>1, StartedKnows DEF MeetingInv
<1> QED
  BY <1>1, <1>2, <1>3 DEF Known

\* A meeting is recorded by one pipeline at a time, provided that no call of mediasoup
\* fails between the start of a pipeline and its insertion into pipeline_map: such a
\* failure returns early and leaves a playing pipeline that nothing knows.
THEOREM OneRecording ==
  ASSUME "mediasoup" \notin Faults PROVE Spec => []OnePipelinePerMeeting
<1>1. Typed /\ MapInv /\ MeetingInv /\ KnownInv => OnePipelinePerMeeting
  <2> SUFFICES ASSUME Typed, MapInv, MeetingInv, KnownInv, NEW g \in Gstreamers, NEW h \in Gstreamers,
                      gst[g].state = "Playing", gst[h].state = "Playing", gst[g].m = gst[h].m
               PROVE  g = h
    BY DEF OnePipelinePerMeeting
  <2>1. gst[g].m \in Meetings
    BY PlaysForMeeting
  <2>2. CASE pipeline_map[gst[g].m] = g
    BY <2>1, <2>2, PlaysForMeeting DEF MapInv
  <2>3. CASE pipeline_map[gst[h].m] = h
    BY <2>1, <2>3, PlaysForMeeting DEF MapInv
  <2>4. ASSUME NEW r \in Requests, request[r].pc \in Started, request[r].g = g, request[r].m = gst[g].m,
               NEW o \in Requests, request[o].pc \in Started, request[o].g = h, request[o].m = gst[h].m
        PROVE  g = h
    BY <2>4 DEF MapInv, Started
  <2> QED
    BY <2>2, <2>3, <2>4, PlaysForMeeting
<1>2. Typed /\ MapInv /\ MeetingInv /\ [Next]_vars => MapInv' /\ MeetingInv'
  BY StepMap
<1>3. Typed /\ MapInv /\ MeetingInv /\ KnownInv /\ [Next]_vars => KnownInv'
  BY StepKnown
<1> QED
  BY <1>1, <1>2, <1>3, InitTyped, StepTyped, InitMap, InitKnown, PTL DEF Spec

\* The end of a meeting stops what records it, under the same proviso: once the pipeline
\* of the map is stopped and no request of the meeting is left, nothing else plays.
THEOREM EndIsTheEnd ==
  ASSUME "mediasoup" \notin Faults PROVE Spec => []EndStopsRecordings
<1>1. Typed /\ MapInv /\ MeetingInv /\ KnownInv => EndStopsRecordings
  BY PlaysForMeeting DEF EndStopsRecordings
<1>2. Typed /\ MapInv /\ MeetingInv /\ [Next]_vars => MapInv' /\ MeetingInv'
  BY StepMap
<1>3. Typed /\ MapInv /\ MeetingInv /\ KnownInv /\ [Next]_vars => KnownInv'
  BY StepKnown
<1> QED
  BY <1>1, <1>2, <1>3, InitTyped, StepTyped, InitMap, InitKnown, PTL DEF Spec

-----------------------------------------------------------------------------
(* Producers are published into whole pipelines *)

\* No shared element leaves a pipeline, and the mixer is not torn.
Grows == \A g \in Gstreamers :
    /\ gst[g].attached \subseteq gst'[g].attached
    /\ Unbroken(gst[g]) => Unbroken(gst'[g])

\* Nor is any made.
Keeps == Grows /\ \A g \in Gstreamers : gst'[g].shared = gst[g].shared

\* Steps that only change states, sources or the bus keep the shared elements.
LEMMA ShapesKeep ==
  /\ Steady => Keeps
  /\ \A g \in Gstreamers : \A s : Switches(g, s) => Keeps
  /\ \A g \in Gstreamers : Disturbs(g) => Keeps
  /\ Keeps => Grows
<1>1. Steady => Keeps
  BY DEF Steady, Alike, Keeps, Grows, Unbroken
<1>2. \A g \in Gstreamers : \A s : Switches(g, s) => Keeps
  BY DEF Switches, Keeps, Grows, Unbroken
<1>3. \A g \in Gstreamers : Disturbs(g) => Keeps
  BY DEF Disturbs, Keeps, Grows, Unbroken
<1>4. Keeps => Grows
  BY DEF Keeps
<1> QED
  BY <1>1, <1>2, <1>3, <1>4

\* Video needs nothing that audio does not.
LEMMA VideoNeedsLess == \A kind : Needed("video") \subseteq Needed(Media(kind))
<1>1. Needed("video") = {"compositor", "x264enc", "splitmuxsink", "rtpbin"}
  <2>1. CreationOrder("video") = <<"compositor", "x264enc", "splitmuxsink", "rtcpsrc", "rtpbin">>
    BY DEF CreationOrder
  <2>2. DOMAIN CreationOrder("video") = 1 .. 5
    BY <2>1
  <2> QED
    BY <2>1, <2>2 DEF Needed
<1>2. Needed("video") \subseteq Needed("audio")
  <2>1. CreationOrder("audio") = <<"rtcpsrc", "rtpbin", "audiomixer", "opusenc",
                                   "compositor", "x264enc", "splitmuxsink">>
    BY DEF CreationOrder
  <2>2. DOMAIN CreationOrder("audio") = 1 .. 7
    BY <2>1
  <2>3. {"rtpbin", "compositor", "x264enc", "splitmuxsink"} \subseteq Needed("audio")
    BY <2>1, <2>2 DEF Needed
  <2> QED
    BY <1>1, <2>3
<1> QED
  BY <1>2, MediaTyped

\* Groups that are not torn are added whole.
LEMMA AddedUnbroken ==
  ASSUME NEW i, Sound(i), Unbroken(i), NEW q, NEW n \in 0 .. Len(Groups),
         \A k \in 1 .. n : ~Torn(q.fresh, Groups[k])
  PROVE  Unbroken(Added(i, q, n))
<1> DEFINE groups == UNION {Groups[k] : k \in 1 .. n}
           mixer == {"audiomixer", "opusenc"}
<1>1. Added(i, q, n).attached = i.attached \cup (q.fresh \cap groups)
  BY DEF Added, Sound, Instance
<1>2. /\ Len(Groups) = 4 /\ Groups[1] = {"rtpbin"} /\ Groups[2] = mixer
      /\ Groups[3] = {"compositor", "x264enc"} /\ Groups[4] = {"splitmuxsink"}
  BY DEF Groups
<1>3. groups \cap mixer = IF n >= 2 THEN mixer ELSE {}
  <2>1. \A k \in 1 .. n : k = 1 \/ k = 2 \/ k = 3 \/ k = 4
    BY <1>2
  <2>2. \A k \in 1 .. n : k # 2 => Groups[k] \cap mixer = {}
    BY <1>2, <2>1
  <2>3. n >= 2 => mixer \subseteq groups
    BY <1>2
  <2>4. n < 2 => groups \cap mixer = {}
    BY <2>2
  <2> QED
    BY <2>3, <2>4
<1>4. n >= 2 => (q.fresh \cap mixer = {} \/ q.fresh \cap mixer = mixer)
  BY <1>2 DEF Torn
<1>5. i.attached \cap mixer = {} \/ i.attached \cap mixer = mixer
  BY DEF Unbroken, Torn
<1> HIDE DEF groups
<1>6. Added(i, q, n).attached \cap mixer \in {{}, mixer}
  BY <1>1, <1>3, <1>4, <1>5
<1> QED
  BY <1>6 DEF Unbroken, Torn

\* What is in the map and what is published stays whole.
LEMMA WholeGrows ==
  ASSUME Typed, WholeInv, Grows, UNCHANGED pipeline_map, producers' \subseteq producers,
         \A r \in Requests : StartWhole(r)'
  PROVE  WholeInv'
<1>1. \A m \in Meetings : pipeline_map'[m] # None =>
          Needed("video") \subseteq gst'[pipeline_map'[m]].attached
  BY DEF WholeInv, Grows, Typed, OthersOK
<1>2. \A x \in producers' : Needed("video") \subseteq gst'[x.g].attached
  BY DEF WholeInv, Grows, Typed, OthersOK, Published
<1>3. \A g \in Gstreamers : Unbroken(gst[g])'
  BY DEF WholeInv, Grows, Unbroken
<1> QED
  BY <1>1, <1>2, <1>3 DEF WholeInv

\* A start that does not move.
LEMMA WholeStays ==
  ASSUME Typed, NEW o \in Requests, StartWhole(o), request'[o] = request[o], Grows,
         request[o].pc \in Making /\ ~request[o].exists =>
             gst'[request[o].g].shared = gst[request[o].g].shared
  PROVE  StartWhole(o)'
<1>1. request[o].pc \in Started => request[o].g \in Gstreamers
  BY StartedKnows
<1>2. request[o].pc \in Started =>
         gst[request[o].g].attached \subseteq gst'[request[o].g].attached
  BY <1>1 DEF Grows
<1> QED
  BY <1>2 DEF StartWhole

\* The request walks on, or ends, and no shared element is made.
LEMMA WholeWalks ==
  ASSUME Typed, WholeInv, Keeps, UNCHANGED pipeline_map, producers' \subseteq producers,
         NEW r \in Requests, NEW step,
         \/ /\ Walks(r, step)
            /\ step \in Making => request[r].pc \in Making
            /\ step \in Adding => request[r].pc \in Adding
            /\ step \in Started \ (Making \cup Adding) =>
                  request[r].pc \in Started \ (Making \cup Adding)
         \/ Ends(r)
  PROVE  WholeInv'
<1>1. Grows
  BY ShapesKeep
<1>2. \A o \in Requests : request[o].pc \in Started => request[o].g \in Gstreamers
  BY StartedKnows
<1>3. Making \subseteq Started
  BY DEF Making, Started, StartSteps
<1>4. \A o \in Requests \ {r} : StartWhole(o)'
  <2> SUFFICES ASSUME NEW o \in Requests \ {r} PROVE StartWhole(o)'
    OBVIOUS
  <2>1. request'[o] = request[o]
    BY DEF Walks, Ends
  <2>2. request[o].pc \in Making => gst'[request[o].g].shared = gst[request[o].g].shared
    BY <1>2, <1>3 DEF Keeps
  <2> QED
    BY <1>1, <2>1, <2>2, WholeStays DEF WholeInv
<1>5. StartWhole(r)'
  <2>1. CASE Ends(r)
    BY <2>1 DEF Ends, NoRequest, StartWhole, Making, Adding, Started, StartSteps
  <2>2. CASE /\ Walks(r, step)
             /\ step \in Making => request[r].pc \in Making
             /\ step \in Adding => request[r].pc \in Adding
             /\ step \in Started \ (Making \cup Adding) =>
                   request[r].pc \in Started \ (Making \cup Adding)
    <3>1. request'[r].pc \in Making /\ ~request'[r].exists => gst'[request'[r].g].shared = {}
      BY <1>2, <1>3, <2>2 DEF Walks, WholeInv, StartWhole, Keeps
    <3>2. request'[r].pc \in Adding /\ ~request'[r].exists =>
             request'[r].fresh = Needed(Media(request'[r].kind))
      BY <2>2 DEF Walks, WholeInv, StartWhole
    <3>3. request'[r].pc \in Started \ (Making \cup Adding) =>
             /\ Needed("video") \subseteq gst'[request'[r].g].attached
             /\ ~request'[r].exists =>
                   Needed(Media(request'[r].kind)) \subseteq gst'[request'[r].g].attached
      BY <1>2, <2>2 DEF Walks, WholeInv, StartWhole, Keeps, Grows
    <3> QED
      BY <3>1, <3>2, <3>3 DEF StartWhole
  <2> QED
    BY <2>1, <2>2
<1> QED
  BY <1>1, <1>4, <1>5, WholeGrows

\* The first start of a meeting is alone with its instance.
LEMMA AloneWithInstance ==
  ASSUME Typed, MapInv, MeetingInv, NEW r \in Requests, NEW o \in Requests,
         request[r].pc \in Started, request[o].pc \in Started, request[o].g = request[r].g
  PROVE  o = r
<1>1. request[o].m = request[r].m
  BY DEF MeetingInv
<1> QED
  BY <1>1 DEF MapInv, Started

\* A start that makes a new instance begins with no shared element.
LEMMA WholeLookup ==
  ASSUME Typed, MeetingInv, WholeInv, NEW r \in Requests, Lookup(r)
  PROVE  WholeInv'
<1>1. /\ UNCHANGED pipeline_map /\ producers' = producers
      /\ \A o \in Requests \ {r} : request'[o] = request[o]
      /\ request'[r].pc = "st_port" /\ request'[r].g \in Gstreamers
  BY LookupStep
<1>2. CASE /\ request'[r].exists
           /\ gst' = gst
  <2>1. Grows /\ Keeps
    BY <1>2 DEF Grows, Keeps, Unbroken
  <2>2. \A o \in Requests \ {r} : StartWhole(o)'
    BY <1>1, <1>2, <2>1, WholeStays DEF WholeInv
  <2>3. StartWhole(r)'
    BY <1>1, <1>2 DEF StartWhole, Making, Adding, Started
  <2> QED
    BY <1>1, <2>1, <2>2, <2>3, WholeGrows
<1>3. CASE /\ gst[request'[r].g] = NewGstreamer
           /\ Alike([NewGstreamer EXCEPT !.m = request[r].m], gst'[request'[r].g])
  <2>1. /\ gst[request'[r].g].m = None /\ gst[request'[r].g].attached = {}
        /\ gst'[request'[r].g].shared = {}
    BY <1>3 DEF Alike, NewGstreamer
  <2>2. \A g \in Gstreamers \ {request'[r].g} : gst'[g] = gst[g]
    BY LookupStep
  <2>3. Grows
    <3>1. Unbroken(gst'[request'[r].g])
      BY <1>3 DEF Alike, NewGstreamer, Unbroken, Torn
    <3> QED
      BY <2>1, <2>2, <3>1 DEF Grows
  <2>4. \A o \in Requests : request[o].pc \in Started =>
           request[o].g \in Gstreamers /\ request[o].g # request'[r].g
    <3> SUFFICES ASSUME NEW o \in Requests, request[o].pc \in Started
                 PROVE  request[o].g \in Gstreamers /\ request[o].g # request'[r].g
      OBVIOUS
    <3>1. request[o].g \in Gstreamers /\ request[o].m \in Meetings
      BY StartedKnows DEF Started
    <3> QED
      BY <2>1, <3>1 DEF MeetingInv
  <2>5. \A o \in Requests \ {r} : StartWhole(o)'
    BY <1>1, <2>2, <2>3, <2>4, WholeStays DEF WholeInv, Making, Started, StartSteps
  <2>6. StartWhole(r)'
    BY <1>1, <2>1 DEF StartWhole, Making, Adding, Started
  <2> QED
    BY <1>1, <2>3, <2>5, <2>6, WholeGrows
<1> QED
  BY <1>2, <1>3, LookupStep

\* It makes all of the shared elements it needs, ...
LEMMA WholeMake ==
  ASSUME Typed, MapInv, MeetingInv, WholeInv, NEW r \in Requests, MakeElements(r)
  PROVE  WholeInv'
<1>1. /\ UNCHANGED pipeline_map /\ producers' = producers
      /\ \A o \in Requests \ {r} : request'[o] = request[o]
      /\ request[r].pc = "st_shared" /\ request[r].g \in Gstreamers
      /\ \A h \in Gstreamers \ {request[r].g} : gst'[h] = gst[h]
      /\ Retains
  BY MakeElementsStep
<1>2. Grows
  <2>1. Sound(gst[request[r].g])
    BY <1>1 DEF Typed, GstOK
  <2>2. PICK n : gst' = [gst EXCEPT ![request[r].g] = Made(@, request[r], n)]
    BY Zenon DEF MakeElements
  <2>3. gst'[request[r].g].attached = gst[request[r].g].attached
    BY <1>1, <2>1, <2>2 DEF Typed, GstOK, Made, Sound, Instance
  <2> QED
    BY <1>1, <2>3 DEF Grows, Unbroken
<1>3. \A o \in Requests \ {r} : request[o].pc \in Started =>
          request[o].g \in Gstreamers /\ request[o].g # request[r].g
  BY <1>1, AloneWithInstance, StartedKnows DEF Started, StartSteps
<1>4. \A o \in Requests \ {r} : StartWhole(o)'
  BY <1>1, <1>2, <1>3, WholeStays DEF WholeInv, Making, Started, StartSteps
<1>5. StartWhole(r)'
  <2>1. CASE Ends(r)
    BY <2>1 DEF Ends, NoRequest, StartWhole, Making, Adding, Started, StartSteps
  <2>2. CASE ~Ends(r)
    <3>1. /\ request'[r].pc = "st_pause"
          /\ request'[r].kind = request[r].kind
          /\ request'[r].exists = request[r].exists
          /\ request'[r].fresh = Needed(Media(request[r].kind)) \ gst[request[r].g].shared
      BY <2>2, MakeElementsStep
    <3>2. ~request[r].exists => gst[request[r].g].shared = {}
      BY <1>1 DEF WholeInv, StartWhole, Making
    <3>3. ~request'[r].exists => request'[r].fresh = Needed(Media(request'[r].kind))
      BY <3>1, <3>2
    <3> QED
      BY <3>1, <3>3 DEF StartWhole, Making, Adding, Started
  <2> QED
    BY <2>1, <2>2
<1> QED
  BY <1>1, <1>2, <1>4, <1>5, WholeGrows

\* ... adds all of them, ...
LEMMA WholeAdd ==
  ASSUME Typed, MapInv, WholeInv, NEW r \in Requests, AddElements(r)
  PROVE  WholeInv'
<1>1. /\ UNCHANGED pipeline_map /\ producers' = producers
      /\ request[r].pc = "st_add" /\ request[r].g \in Gstreamers
      /\ \A g \in Gstreamers : gst'[g].shared = gst[g].shared
      /\ \A g \in Gstreamers : gst[g].attached \subseteq gst'[g].attached
  BY AddElementsStep DEF Retains
<1>5. Keeps /\ Grows
  <2>1. Sound(gst[request[r].g]) /\ Unbroken(gst[request[r].g]) /\ GstOK
    BY <1>1 DEF Typed, GstOK, WholeInv
  <2>2. \/ gst' = gst
        \/ \E n \in 0 .. Len(Groups) :
              /\ \A k \in 1 .. n : ~Torn(request[r].fresh, Groups[k])
              /\ gst' = [gst EXCEPT ![request[r].g] = Added(@, request[r], n)]
    BY GroupsCover DEF AddElements
  <2>3. \A g \in Gstreamers : Unbroken(gst[g]) => Unbroken(gst'[g])
    <3>1. CASE gst' = gst
      BY <3>1
    <3>2. ASSUME NEW n \in 0 .. Len(Groups),
                 \A k \in 1 .. n : ~Torn(request[r].fresh, Groups[k]),
                 gst' = [gst EXCEPT ![request[r].g] = Added(@, request[r], n)]
          PROVE  \A g \in Gstreamers : Unbroken(gst[g]) => Unbroken(gst'[g])
      <4>1. Unbroken(Added(gst[request[r].g], request[r], n))
        BY <2>1, <3>2, AddedUnbroken
      <4>2. /\ gst'[request[r].g] = Added(gst[request[r].g], request[r], n)
            /\ \A g \in Gstreamers \ {request[r].g} : gst'[g] = gst[g]
        BY <1>1, <2>1, <3>2 DEF GstOK
      <4> QED
        BY <4>1, <4>2
    <3> QED
      BY <2>2, <3>1, <3>2
  <2> QED
    BY <1>1, <2>3 DEF Keeps, Grows
<1>2. CASE Ends(r)
  BY <1>1, <1>2, <1>5, WholeWalks
<1>3. CASE Walks(r, "st_link") /\ request[r].fresh \subseteq gst'[request[r].g].attached
  <2>1. \A o \in Requests \ {r} : request[o].pc \in Making =>
            gst'[request[o].g].shared = gst[request[o].g].shared
    BY <1>1, StartedKnows DEF Making, Started, StartSteps
  <2>2. \A o \in Requests \ {r} : StartWhole(o)'
    BY <1>3, <1>5, <2>1, WholeStays DEF WholeInv, Walks
  <2>3. /\ Needed("video") \subseteq gst'[request[r].g].attached
        /\ ~request[r].exists => Needed(Media(request[r].kind)) \subseteq gst'[request[r].g].attached
    <3>1. CASE request[r].exists
      <4>1. request[r].m \in Meetings /\ pipeline_map[request[r].m] = request[r].g
        BY <1>1, <3>1, ExistsKnown, StartedKnows DEF Started, StartSteps
      <4>2. Needed("video") \subseteq gst[request[r].g].attached
        BY <1>1, <4>1 DEF WholeInv, Typed, OthersOK
      <4> QED
        BY <1>1, <3>1, <4>2
    <3>2. CASE ~request[r].exists
      <4>1. Needed(Media(request[r].kind)) \subseteq gst'[request[r].g].attached
        BY <1>1, <1>3, <3>2 DEF WholeInv, StartWhole, Adding
      <4> QED
        BY <4>1, VideoNeedsLess
    <3> QED
      BY <3>1, <3>2
  <2>4. StartWhole(r)'
    BY <1>3, <2>3 DEF StartWhole, Walks, Making, Adding, Started
  <2> QED
    BY <1>1, <1>5, <2>2, <2>4, WholeGrows
<1> QED
  BY <1>2, <1>3, AddElementsStep

\* ... publishes only then, ...
LEMMA WholePublish ==
  ASSUME Typed, WholeInv, NEW r \in Requests, PublishProducer(r)
  PROVE  WholeInv'
<1>1. /\ UNCHANGED pipeline_map /\ Keeps /\ Walks(r, "st_insert") /\ request[r].pc = "st_publish"
      /\ producers' = producers \cup
            {[m |-> request[r].m, p |-> request[r].p, kind |-> request[r].kind,
              src |-> request[r].src, g |-> request[r].g]}
  BY PublishProducerStep, ShapesKeep
<1>2. \A o \in Requests : StartWhole(o)'
  <2>1. Grows
    BY <1>1, ShapesKeep
  <2>2. \A o \in Requests \ {r} : request[o].pc \in Making =>
            gst'[request[o].g].shared = gst[request[o].g].shared
    BY <1>1, StartedKnows DEF Keeps, Making, Started, StartSteps
  <2>3. \A o \in Requests \ {r} : StartWhole(o)'
    BY <1>1, <2>1, <2>2, WholeStays DEF WholeInv, Walks
  <2>4. request[r].g \in Gstreamers
    BY <1>1, StartedKnows DEF Started, StartSteps
  <2>5. /\ Needed("video") \subseteq gst'[request[r].g].attached
        /\ ~request[r].exists => Needed(Media(request[r].kind)) \subseteq gst'[request[r].g].attached
    BY <1>1, <2>1, <2>4 DEF WholeInv, StartWhole, Grows, Making, Adding, Started, StartSteps
  <2>6. StartWhole(r)'
    BY <1>1, <2>5 DEF StartWhole, Walks, Making, Adding
  <2> QED
    BY <2>3, <2>6
<1>3. \A m \in Meetings : pipeline_map'[m] # None =>
          Needed("video") \subseteq gst'[pipeline_map'[m]].attached
  BY <1>1 DEF WholeInv, Keeps, Grows, Typed, OthersOK
<1>4. \A x \in producers' : Needed("video") \subseteq gst'[x.g].attached
  <2> SUFFICES ASSUME NEW x \in producers'
               PROVE  Needed("video") \subseteq gst'[x.g].attached
    OBVIOUS
  <2>1. CASE x \in producers
    BY <1>1, <2>1 DEF WholeInv, Keeps, Grows, Typed, OthersOK, Published
  <2>2. CASE x.g = request[r].g
    <3>1. request[r].g \in Gstreamers
      BY <1>1, StartedKnows DEF Started, StartSteps
    <3>2. Needed("video") \subseteq gst[request[r].g].attached
      BY <1>1 DEF WholeInv, StartWhole, Making, Adding, Started, StartSteps
    <3> QED
      BY <1>1, <2>2, <3>1, <3>2 DEF Keeps, Grows
  <2> QED
    BY <1>1, <2>1, <2>2
<1>5. \A g \in Gstreamers : Unbroken(gst[g])'
  BY <1>1 DEF WholeInv, Keeps, Grows, Unbroken
<1> QED
  BY <1>2, <1>3, <1>4, <1>5 DEF WholeInv

\* ... and enters a pipeline that can write its file.
LEMMA WholeInsert ==
  ASSUME Typed, WholeInv, NEW r \in Requests, InsertPipeline(r)
  PROVE  WholeInv'
<1>1. /\ gst' = gst /\ producers' = producers /\ Ends(r) /\ request[r].pc = "st_insert"
      /\ \A m \in Meetings : pipeline_map'[m] # pipeline_map[m] => pipeline_map'[m] = request[r].g
  BY InsertPipelineStep DEF Typed, OthersOK, StartSteps
<1>2. Needed("video") \subseteq gst[request[r].g].attached
  BY <1>1 DEF WholeInv, StartWhole, Making, Adding, Started, StartSteps
<1>4. \A m \in Meetings : pipeline_map'[m] # None =>
          Needed("video") \subseteq gst'[pipeline_map'[m]].attached
  BY <1>1, <1>2 DEF WholeInv
<1>5. Grows
  BY <1>1 DEF Grows, Unbroken
<1>6. \A o \in Requests \ {r} : StartWhole(o)'
  BY <1>1, <1>5, WholeStays DEF WholeInv, Ends
<1>7. StartWhole(r)'
  BY <1>1 DEF Ends, NoRequest, StartWhole, Making, Adding, Started, StartSteps
<1>8. /\ \A x \in producers' : Needed("video") \subseteq gst'[x.g].attached
      /\ \A g \in Gstreamers : Unbroken(gst[g])'
  BY <1>1 DEF WholeInv, Unbroken
<1> QED
  BY <1>4, <1>6, <1>7, <1>8 DEF WholeInv

\* A request that is at no step of a start before or after.
LEMMA WholeAside ==
  ASSUME Typed, WholeInv, Keeps, UNCHANGED pipeline_map, producers' \subseteq producers,
         NEW r \in Requests, request'[r].pc \notin Started,
         \A o \in Requests \ {r} : request'[o] = request[o]
  PROVE  WholeInv'
<1>1. Grows
  BY ShapesKeep
<1>2. \A o \in Requests \ {r} : request[o].pc \in Making =>
          gst'[request[o].g].shared = gst[request[o].g].shared
  BY StartedKnows DEF Keeps, Making, Started, StartSteps
<1>3. \A o \in Requests \ {r} : StartWhole(o)'
  BY <1>1, <1>2, WholeStays DEF WholeInv
<1>4. StartWhole(r)'
  BY DEF StartWhole, Making, Adding, Started, StartSteps
<1> QED
  BY <1>1, <1>3, <1>4, WholeGrows

\* Every step of a request keeps WholeInv.
LEMMA WholeRequest ==
  ASSUME Typed, MapInv, MeetingInv, WholeInv, NEW r \in Requests,
         StartRecording(r) \/ CloseProducers(r) \/ EndMeeting(r) \/ RequestPanics(r)
  PROVE  WholeInv'
<1> USE DEF Making, Adding, Started, StartSteps
<1>1. CASE BeginStart(r) \/ BeginClose(r) \/ BeginEnd(r)
  <2>1. /\ Keeps /\ UNCHANGED <<pipeline_map, producers>> /\ request'[r].pc \notin Started
        /\ \A o \in Requests \ {r} : request'[o] = request[o]
    BY <1>1, BeginStartStep, BeginCloseStep, BeginEndStep, ShapesKeep
  <2> QED
    BY <2>1, WholeAside
<1>2. CASE Lookup(r)
  BY <1>2, WholeLookup
<1>3. CASE GetFreePort(r)
  BY <1>3, GetFreePortStep, ShapesKeep, WholeWalks
<1>4. CASE MakeSource(r)
  BY <1>4, MakeSourceStep, ShapesKeep, WholeWalks
<1>5. CASE MakeElements(r)
  BY <1>5, WholeMake
<1>6. CASE PausePipeline(r)
  BY <1>6, PausePipelineStep, ShapesKeep, WholeWalks
<1>7. CASE AddElements(r)
  BY <1>7, WholeAdd
<1>8. CASE LinkSource(r)
  BY <1>8, LinkSourceStep, ShapesKeep, WholeWalks
<1>9. CASE InsertSession(r)
  BY <1>9, InsertSessionStep, ShapesKeep, WholeWalks
<1>10. CASE WatchBus(r)
  BY <1>10, WatchBusStep, ShapesKeep, WholeWalks
<1>11. CASE PlayPipeline(r)
  BY <1>11, PlayPipelineStep, ShapesKeep, WholeWalks
<1>12. CASE FailSource(r)
  BY <1>12, FailSourceStep, ShapesKeep, WholeWalks
<1>13. CASE AbortState(r)
  BY <1>13, AbortStateStep, ShapesKeep, WholeWalks
<1>14. CASE DropSource(r)
  BY <1>14, DropSourceStep, ShapesKeep, WholeWalks
<1>15. CASE ReplayPipeline(r)
  BY <1>15, ReplayPipelineStep, ShapesKeep, WholeWalks
<1>16. CASE ConnectPlain(r)
  BY <1>16, ConnectPlainStep, ShapesKeep, WholeWalks
<1>17. CASE RegisterProducer(r)
  BY <1>17, RegisterProducerStep, ShapesKeep, WholeWalks
<1>18. CASE PublishProducer(r)
  BY <1>18, WholePublish
<1>19. CASE InsertPipeline(r)
  BY <1>19, WholeInsert
<1>20. CASE CloseInMaps(r)
  BY <1>20, CloseInMapsStep, ShapesKeep, WholeWalks
<1>21. CASE CloseLookup(r) \/ EndLookup(r)
  <2>1. Ends(r) => request'[r].pc \notin Started
    BY DEF Ends, NoRequest
  <2>2. /\ Keeps /\ UNCHANGED <<pipeline_map, producers>> /\ request'[r].pc \notin Started
        /\ \A o \in Requests \ {r} : request'[o] = request[o]
    BY <1>21, <2>1, FindStep, ShapesKeep
  <2> QED
    BY <2>2, WholeAside
<1>22. CASE CloseLocksInner(r)
  BY <1>22, CloseLocksInnerStep, ShapesKeep, WholeWalks
<1>23. CASE CloseLocksPipeline(r)
  BY <1>23, CloseLocksPipelineStep, ShapesKeep, WholeWalks
<1>24. CASE ClosePauses(r)
  BY <1>24, ClosePausesStep, ShapesKeep, WholeWalks
<1>25. CASE CloseRemoves(r)
  BY <1>25, CloseRemovesStep, ShapesKeep, WholeWalks
<1>26. CASE EndInMaps(r)
  BY <1>26, EndInMapsStep, ShapesKeep, WholeWalks
<1>27. CASE EndStops(r)
  BY <1>27, EndStopsStep, ShapesKeep, WholeWalks
<1>28. CASE RequestPanics(r)
  BY <1>28, RequestPanicsStep, ShapesKeep, WholeWalks
<1> QED
  BY <1>1, <1>2, <1>3, <1>4, <1>5, <1>6, <1>7, <1>8, <1>9, <1>10, <1>11, <1>12, <1>13,
     <1>14, <1>15, <1>16, <1>17, <1>18, <1>19, <1>20, <1>21, <1>22, <1>23, <1>24, <1>25,
     <1>26, <1>27, <1>28 DEF StartRecording, CloseProducers, EndMeeting

\* WholeInv is inductive.
LEMMA StepWhole ==
  ASSUME Typed, MapInv, MeetingInv, WholeInv, [Next]_vars
  PROVE  WholeInv'
<1>1. ASSUME NEW r \in Requests,
             StartRecording(r) \/ CloseProducers(r) \/ EndMeeting(r) \/ RequestPanics(r)
      PROVE  WholeInv'
  BY <1>1, WholeRequest
<1>2. ASSUME UNCHANGED <<pipeline_map, producers, request>>, Keeps PROVE WholeInv'
  <2>1. Grows
    BY <1>2, ShapesKeep
  <2>2. \A o \in Requests : request[o].pc \in Making =>
            gst'[request[o].g].shared = gst[request[o].g].shared
    BY <1>2, StartedKnows DEF Keeps, Making, Started, StartSteps
  <2>3. \A o \in Requests : StartWhole(o)'
    BY <1>2, <2>1, <2>2, WholeStays DEF WholeInv
  <2> QED
    BY <1>2, <2>1, <2>3, WholeGrows
<1>3. ASSUME NEW g \in Gstreamers, Callback(g) PROVE WholeInv'
  <2>1. CASE PadPanics(g)
    <3>1. \A o \in Requests : StartWhole(o)'
      BY <2>1 DEF PadPanics, Restart, StartWhole, NoRequest, Making, Adding, Started, StartSteps
    <3>2. \A h \in Gstreamers : Unbroken(gst[h])'
      BY <2>1 DEF PadPanics, Restart, NewGstreamer, Unbroken, Torn
    <3> QED
      BY <2>1, <3>1, <3>2 DEF PadPanics, Restart, WholeInv
  <2>2. CASE ~PadPanics(g)
    BY <1>2, <1>3, <2>2, PadAddedStep, PadLocksPipelineStep, PadLocksInnerStep, PadHandlesStep,
       ShapesKeep DEF Callback
  <2> QED
    BY <2>1, <2>2
<1>4. ASSUME NEW g \in Gstreamers, BusThread(g) PROVE WholeInv'
  BY <1>2, <1>4, ErrorStep, BusNullStep, BusPlaysStep, ShapesKeep DEF BusThread
<1>5. CASE UNCHANGED vars
  BY <1>2, <1>5 DEF vars, Keeps, Grows, Unbroken
<1> QED
  BY <1>1, <1>3, <1>4, <1>5 DEF Next

\* Whatever mix of media is recorded and whatever fails, producers are published only into
\* pipelines that can write their file and whose mixer is whole or absent, and the start
\* that makes a pipeline adds all that its media needs: only such a pipeline is entered
\* into pipeline_map, and an instance that failed before is not used again.
THEOREM PublishedWhole == Spec => []PublishedIntoWholePipeline
<1>1. Init => WholeInv
  <2>1. Init => \A g \in Gstreamers : Unbroken(gst[g])
    BY DEF Init, NewGstreamer, Unbroken, Torn
  <2>2. Init => \A r \in Requests : StartWhole(r)
    BY DEF Init, StartWhole, NoRequest, Making, Adding, Started, StartSteps
  <2> QED
    BY <2>1, <2>2 DEF Init, WholeInv
<1>2. Typed /\ WholeInv => PublishedIntoWholePipeline
  BY DEF Typed, OthersOK, Published, WholeInv, Unbroken, StartWhole, PublishedIntoWholePipeline,
         Making, Adding, Started, StartSteps
<1>3. Typed /\ MapInv /\ MeetingInv /\ [Next]_vars => MapInv' /\ MeetingInv'
  BY StepMap
<1>4. Typed /\ MapInv /\ MeetingInv /\ WholeInv /\ [Next]_vars => WholeInv'
  BY StepWhole
<1> QED
  BY <1>1, <1>2, <1>3, <1>4, InitTyped, StepTyped, InitMap, PTL DEF Spec

-----------------------------------------------------------------------------
(* One request at a time *)

\* Requests come one at a time, no element, state change, mediasoup call or transaction
\* fails, no screen share is recorded and no meeting ends.
OneByOne ==
    /\ \A r, o \in Requests : r = o
    /\ Faults = {}
    /\ "end" \notin Operations
    /\ "screenshare" \notin RecordedKinds

\* The steps of a start that has made elements, and has added but not played them.
Bringing == {"st_shared", "st_pause", "st_add"}
Binding == {"st_link", "st_meta", "st_clone", "st_play"}

\* The udpsrc elements of a start.
Own(q) == {SourceElement(q, part) : part \in Parts}

\* No error is on a bus, no mutex is poisoned, and the callback and a close exclude each
\* other with the mutex of the pipeline.
Unharmed ==
    /\ \A g \in Gstreamers :
          /\ gst[g].errors = {} /\ bus[g] \in {"none", "watching"}
          /\ inner_mutex[g] # "poisoned" /\ pipeline_mutex[g] # "poisoned"
          /\ pipeline_mutex[g] = "pad" <=> pad[g].pc \in {"pad_inner", "pad_insert"}
    /\ \A r \in Requests :
          /\ request[r].pc = "cl_maps" => request[r].remove
          /\ request[r].pc \in {"cl_pause", "cl_remove"} => pipeline_mutex[request[r].g] = r
          /\ request[r].pc \notin FailSteps \cup {"en_maps", "en_lookup", "en_null"}

\* The elements of a pipeline at rest are those of the maps, and their sockets are bound.
Rests(i) == i.bound = i.elements /\ i.udp_src = i.elements

\* The same of the instance that request q works on.
Works(i, q) ==
    /\ q.pc \notin Binding \cup {"cl_remove"} => i.bound = i.elements
    /\ q.pc \notin Bringing \cup {"cl_remove"} => i.udp_src = i.elements
    /\ q.pc = "st_shared" => i.udp_src = i.elements \cup {SourceElement(q, "rtp")}
    /\ q.pc \in {"st_pause", "st_add"} => i.udp_src = i.elements \cup Own(q)
    /\ q.pc \in Binding => Own(q) \subseteq i.elements /\ i.elements \ Own(q) \subseteq i.bound
    /\ q.pc = "cl_remove" => /\ i.bound = i.elements \ q.closed /\ i.udp_src = i.bound
                             /\ q.closed = {x \in i.elements : x.p = q.p}

SocketInv ==
    \A g \in Gstreamers, r \in Requests :
        IF request[r].g = g THEN Works(gst[g], request[r]) ELSE Rests(gst[g])

\* Elements of the same port are the two of one producer, ...
OfOne(x, y) == x.src = y.src /\ x.p = y.p /\ x.media = y.media

Ported ==
    \A g, h \in Gstreamers : \A x \in gst[g].elements :
        /\ \A y \in gst[h].elements : x.port = y.port => OfOne(x, y)
        /\ \E y \in gst[g].elements : y.port = x.port /\ y.part = "rtp"

\* ... and the port that a start probed is that of no other.
Probed ==
    \A r \in Requests, g \in Gstreamers : \A x \in gst[g].elements :
        x.port = request[r].port =>
            /\ request[r].pc \notin Bringing \cup {"st_rtp"}
            /\ request[r].pc \in Binding => OfOne(x, SourceElement(request[r], "rtp"))

\* The shared elements are made, and added, group by group.
Grouped(S) == \A k \in 1 .. Len(Groups) : ~Torn(S, Groups[k])

GroupInv ==
    /\ \A g \in Gstreamers : Grouped(gst[g].shared)
    /\ \A r \in Requests : request[r].pc \in {"st_pause", "st_add"} => Grouped(request[r].fresh)

\* A participant has one session of each media, and the callback's elements are of it.
SessionInv ==
    \A g \in Gstreamers :
        /\ \A x, y \in gst[g].sessions :
              x.part = "rtp" /\ (x.p = y.p /\ x.media = y.media => x = y)
        /\ \A y \in gst[g].branches : y.part = "rtp" => y \in gst[g].sessions

Mine(x, q) == x.p = q.p /\ x.media = Media(q.kind)

\* The participant and media of a source are those of a producer, of a start or of a close.
Accounted(g, x) ==
    \/ \E z \in producers : z.m = gst[g].m /\ z.p = x.p /\ Media(z.kind) = x.media
    \/ \E r \in Requests :
          /\ request[r].pc \in Bringing \cup Binding \cup {"st_connect", "st_register", "st_publish"}
          /\ request[r].g = g /\ Mine(x, request[r])
    \/ \E r \in Requests :
          /\ request[r].pc \in {"cl_lookup", "cl_inner", "cl_pipeline", "cl_pause"}
          /\ request[r].m = gst[g].m /\ request[r].p = x.p

\* The instance is in the map, or a start will enter it.
Entered(g) ==
    \/ gst[g].m \in Meetings /\ pipeline_map[gst[g].m] = g
    \/ \E r \in Requests :
          /\ request[r].pc \in Bringing \cup Binding
                 \cup {"st_connect", "st_register", "st_publish", "st_insert"}
          /\ request[r].g = g

SourceInv ==
    /\ \A g \in Gstreamers : \A x \in gst[g].udp_src \cup gst[g].sessions :
          Accounted(g, x) /\ Entered(g)
    /\ \A r \in Requests : request[r].pc \in {"st_lookup", "st_port", "st_rtp"} =>
          \A z \in producers : ~(z.m = request[r].m /\ z.p = request[r].p /\ z.kind = request[r].kind)
    /\ \A r \in Requests : request[r].pc \in {"st_port", "st_rtp"} \cup Bringing =>
          \A x \in gst[request[r].g].elements : ~Mine(x, request[r])
    /\ \A r \in Requests : request[r].pc \in {"st_port", "st_rtp", "st_link", "st_meta"} \cup Bringing =>
          \A x \in gst[request[r].g].sessions : ~Mine(x, request[r])

\* A paused pipeline with sources will play again.
Resumed ==
    \A g \in Gstreamers :
        gst[g].state = "Paused" /\ (\E x \in gst[g].udp_src : x.part = "rtp") =>
            \/ pad[g].pc \in {"pad_inner", "pad_insert"}
            \/ \E r \in Requests :
                  request[r].g = g /\ request[r].pc \in Bringing \cup Binding \cup {"cl_remove"}

Orderly ==
    /\ Unharmed /\ SocketInv /\ Ported /\ Probed
    /\ GroupInv /\ SessionInv /\ SourceInv /\ Resumed

\* Where no state change fails and the ports are apart, set_state binds every socket.
LEMMA Opens ==
  ASSUME GstOK, Ported, Faults = {}, NEW g \in Gstreamers, NEW i, Sound(i),
         i.elements \subseteq gst[g].elements, NEW s \in {"Paused", "Playing"},
         NEW out \in SetState(g, i, s)
  PROVE  /\ out.ok /\ Sound(out.to)
         /\ out.to.state = s /\ out.to.bound = i.elements
         /\ out.to.m = i.m /\ out.to.shared = i.shared /\ out.to.errors = i.errors
         /\ out.to.udp_src = i.udp_src /\ out.to.elements = i.elements
         /\ out.to.sessions = i.sessions /\ out.to.branches = i.branches
<1>1. i \in Instance /\ i.bound \subseteq i.elements /\ i.elements \subseteq Element
  BY DEF Sound, Instance
<1>2. \A y \in Bound(Gstreamers \ {g}) : \E h \in Gstreamers : y \in gst[h].elements
  BY DEF Bound, GstOK, Sound
<1>3. ASSUME NEW x \in i.elements, NEW h \in Gstreamers, NEW y \in gst[h].elements, Clash(x, y)
      PROVE  FALSE
  <2>1. x \in gst[g].elements /\ x \in Element /\ y \in Element /\ x # y
        /\ x.port = y.port /\ x.part = y.part
    BY <1>1, <1>3 DEF Clash, GstOK, Sound, Instance
  <2>2. OfOne(x, y)
    BY <2>1 DEF Ported
  <2> QED
    BY <2>1, <2>2 DEF OfOne, Element
<1>4. i.elements \in Bindable(g, i)
  BY <1>1, <1>2, <1>3 DEF Bindable
<1>5. out = [ok |-> TRUE, to |-> [i EXCEPT !.state = s, !.bound = i.elements]]
  BY <1>4 DEF SetState
<1> QED
  BY <1>1, <1>5 DEF Sound, Instance

\* The elements of a start are known by its source, participant, kind and port.
LEMMA OwnSame ==
  ASSUME NEW q, NEW n, n.src = q.src, n.p = q.p, n.kind = q.kind, n.port = q.port
  PROVE  Own(n) = Own(q) /\ \A part : SourceElement(n, part) = SourceElement(q, part)
  BY DEF Own, SourceElement

\* The two elements of a start.
LEMMA OwnElements ==
  ASSUME NEW q
  PROVE  /\ Own(q) = {SourceElement(q, "rtp"), SourceElement(q, "rtcp")}
         /\ \A x \in Own(q) : x.port = q.port /\ x.src = q.src /\ Mine(x, q)
         /\ \A x \in Own(q) : OfOne(x, SourceElement(q, "rtp"))
         /\ SourceElement(q, "rtp").part = "rtp"
  BY DEF Own, SourceElement, Parts, Mine, OfOne

\* The request goes on to `step` with the local variables it has.
Proceeds(r, step) ==
    /\ request'[r].pc = step
    /\ request'[r].m = request[r].m
    /\ request'[r].p = request[r].p
    /\ request'[r].kind = request[r].kind
    /\ request'[r].g = request[r].g
    /\ request'[r].src = request[r].src
    /\ request'[r].port = request[r].port
    /\ request'[r].fresh = request[r].fresh
    /\ request'[r].closed = request[r].closed

\* Go without an assignment to a local variable.
LEMMA GoProceeds ==
  ASSUME Typed, NEW r \in Requests, NEW step \in Steps, Go(r, step, request[r])
  PROVE  Proceeds(r, step)
<1>1. request[r] \in Call /\ RequestOK
  BY DEF Typed, RequestOK, CallOK
<1> QED
  BY <1>1, GoFields DEF Proceeds

\* At most the meeting, the pads and the plain transports of an instance change.
SameInstance(i, j) ==
    /\ j.state = i.state /\ j.shared = i.shared
    /\ j.udp_src = i.udp_src /\ j.elements = i.elements /\ j.bound = i.bound
    /\ j.sessions = i.sessions /\ j.branches = i.branches /\ j.errors = i.errors

SameInstances == \A g \in Gstreamers : SameInstance(gst[g], gst'[g])

\* The parts of the invariant that are about instances alone.
LEMMA InstancesStay ==
  ASSUME Orderly, SameInstances
  PROVE  Ported' /\ SessionInv' /\ \A g \in Gstreamers : Grouped(gst'[g].shared)
<1>1. Ported'
  BY DEF Orderly, Ported, SameInstances, SameInstance
<1>2. SessionInv'
  BY DEF Orderly, SessionInv, SameInstances, SameInstance
<1> QED
  BY <1>1, <1>2 DEF Orderly, GroupInv, SameInstances, SameInstance

\* Steps after which the invariant says of a request what it said before.
Onward(pc, step) ==
    \/ pc = "st_link" /\ step = "st_meta"
    \/ pc = "st_clone" /\ step = "st_play"
    \/ pc = "st_connect" /\ step = "st_register"
    \/ pc = "st_register" /\ step = "st_publish"
    \/ pc = "cl_inner" /\ step = "cl_pipeline"
    \/ pc = "cl_pipeline" /\ step = "cl_pause"

\* They keep it.
LEMMA OnwardKeeps ==
  ASSUME Typed, Orderly, OneByOne, NEW r \in Requests, SameInstances, OwnMeeting,
         UNCHANGED <<pad, producers, pipeline_map>>, NEW step, Proceeds(r, step),
         Onward(request[r].pc, step), Unharmed'
  PROVE  Orderly'
<1> USE DEF Bringing, Binding
<1> DEFINE q == request[r]
           n == request'[r]
<1>1. \A o \in Requests : o = r
  BY DEF OneByOne
<1>2. /\ n.pc = step /\ n.m = q.m /\ n.p = q.p /\ n.kind = q.kind /\ n.g = q.g /\ n.src = q.src
      /\ n.port = q.port /\ n.fresh = q.fresh /\ n.closed = q.closed
      /\ Own(n) = Own(q) /\ SourceElement(n, "rtp") = SourceElement(q, "rtp")
  BY OwnSame DEF Proceeds
<1>3. \A g \in Gstreamers : SameInstance(gst[g], gst'[g]) /\ gst'[g].m = gst[g].m
  BY DEF SameInstances, OwnMeeting
<1>4. pad' = pad /\ producers' = producers /\ pipeline_map' = pipeline_map
  OBVIOUS
<1>5. Ported' /\ SessionInv' /\ \A g \in Gstreamers : Grouped(gst'[g].shared)
  BY InstancesStay
<1>6. SocketInv'
  <2>1. \A g \in Gstreamers : IF q.g = g THEN Works(gst[g], q) ELSE Rests(gst[g])
    BY <1>1 DEF Orderly, SocketInv
  <2>2. \A g \in Gstreamers : IF n.g = g THEN Works(gst'[g], n) ELSE Rests(gst'[g])
    BY <1>2, <1>3, <2>1 DEF Works, Rests, Onward, SameInstance
  <2> QED
    BY <1>1, <2>2 DEF SocketInv
<1>7. Probed'
  <2>1. \A g \in Gstreamers : \A x \in gst[g].elements : x.port = q.port =>
            /\ q.pc \notin Bringing \cup {"st_rtp"}
            /\ q.pc \in Binding => OfOne(x, SourceElement(q, "rtp"))
    BY <1>1 DEF Orderly, Probed
  <2>2. \A g \in Gstreamers : \A x \in gst'[g].elements : x.port = n.port =>
            /\ n.pc \notin Bringing \cup {"st_rtp"}
            /\ n.pc \in Binding => OfOne(x, SourceElement(n, "rtp"))
    BY <1>2, <1>3, <2>1 DEF Onward, SameInstance
  <2> QED
    BY <1>1, <2>2 DEF Probed
<1>8. GroupInv'
  BY <1>1, <1>2, <1>5 DEF GroupInv, Onward
<1>9. SourceInv'
  <2>1. ASSUME NEW g \in Gstreamers, NEW x, Accounted(g, x) PROVE Accounted(g, x)'
    BY <1>1, <1>2, <1>3, <1>4, <2>1 DEF Accounted, Mine, Onward, SameInstance
  <2>2. ASSUME NEW g \in Gstreamers, Entered(g) PROVE Entered(g)'
    BY <1>1, <1>2, <1>3, <1>4, <2>2 DEF Entered, Onward, SameInstance
  <2>3. \A g \in Gstreamers : \A x \in gst'[g].udp_src \cup gst'[g].sessions :
            Accounted(g, x)' /\ Entered(g)'
    BY <1>3, <2>1, <2>2 DEF Orderly, SourceInv, SameInstance
  <2>4. n.pc \in {"st_port", "st_rtp", "st_link", "st_meta"} \cup Bringing =>
            \A x \in gst'[n.g].sessions : ~Mine(x, n)
    <3>1. SUFFICES ASSUME n.pc = "st_meta", q.pc = "st_link"
                   PROVE  \A x \in gst'[n.g].sessions : ~Mine(x, n)
      BY <1>2 DEF Onward
    <3>2. \A x \in gst[q.g].sessions : ~Mine(x, q)
      BY <3>1 DEF Orderly, SourceInv
    <3>3. q.g \in Gstreamers
      BY <3>1 DEF Typed, RequestOK, CallOK, Started, StartSteps
    <3> QED
      BY <1>2, <1>3, <3>2, <3>3 DEF Mine, SameInstance
  <2> QED
    BY <1>1, <1>2, <2>3, <2>4 DEF SourceInv, Onward
<1>10. Resumed'
  BY <1>1, <1>2, <1>3, <1>4 DEF Orderly, Resumed, Onward, SameInstance
<1> QED
  BY <1>5, <1>6, <1>7, <1>8, <1>9, <1>10 DEF Orderly

\* A request that works on no instance, before or after its step.
Aside(q) == q.pc \notin Bringing \cup Binding \cup {"cl_remove"}

\* Such a step leaves the instances as they are.
LEMMA AsideKeeps ==
  ASSUME Typed, Orderly, OneByOne, NEW r \in Requests, SameInstances, pad' = pad,
         Aside(request[r]), Aside(request'[r]), Unharmed', Probed', SourceInv'
  PROVE  Orderly'
<1> USE DEF Aside
<1>1. \A o \in Requests : o = r
  BY DEF OneByOne
<1>2. \A g \in Gstreamers : SameInstance(gst[g], gst'[g])
  BY DEF SameInstances
<1>3. Ported' /\ SessionInv' /\ \A g \in Gstreamers : Grouped(gst'[g].shared)
  BY InstancesStay
<1>4. SocketInv'
  <2>1. \A g \in Gstreamers : Rests(gst[g])
    BY DEF Orderly, SocketInv, Works, Rests
  <2>2. \A g \in Gstreamers : Rests(gst'[g])
    BY <1>2, <2>1 DEF Rests, SameInstance
  <2> QED
    BY <1>1, <2>2 DEF SocketInv, Works, Rests, Bringing, Binding
<1>5. GroupInv'
  BY <1>1, <1>3 DEF GroupInv, Bringing
<1>6. Resumed'
  BY <1>1, <1>2 DEF Orderly, Resumed, SameInstance
<1> QED
  BY <1>3, <1>4, <1>5, <1>6 DEF Orderly

\* A start begins only for a producer that is not there.
LEMMA OrderlyBeginStart ==
  ASSUME Typed, Orderly, OneByOne, NEW r \in Requests, BeginStart(r)
  PROVE  Orderly'
<1>1. PICK m \in Meetings, p \in Participants, kind \in RecordedKinds :
        /\ "start" \in Operations
        /\ request[r] = NoRequest
        /\ \A o \in Requests : ~(request[o].pc \in StartSteps /\ request[o].m = m)
        /\ ~\E x \in producers : x.m = m /\ x.p = p /\ x.kind = kind
        /\ Go(r, "st_lookup", [NoRequest EXCEPT !.m = m, !.p = p, !.kind = kind])
        /\ UNCHANGED <<gst, mutexes, bus, pad, pipeline_map, producers, issued>>
  BY Zenon DEF BeginStart
<1> DEFINE q == [NoRequest EXCEPT !.m = m, !.p = p, !.kind = kind]
<1>2. /\ q \in Call /\ q.m = m /\ q.p = p /\ q.kind = kind
      /\ "st_lookup" \in Steps /\ RequestOK /\ Go(r, "st_lookup", q)
  BY <1>1 DEF Call, NoRequest, Steps, StartSteps, Typed
<1> HIDE DEF q
<1>3. /\ request'[r].pc = "st_lookup" /\ request'[r].m = m
      /\ request'[r].p = p /\ request'[r].kind = kind
  BY <1>2, GoFields
<1>4. request[r].pc = "idle" /\ \A o \in Requests : o = r
  BY <1>1 DEF NoRequest, OneByOne
<1>5. /\ gst' = gst /\ inner_mutex' = inner_mutex /\ pipeline_mutex' = pipeline_mutex
      /\ bus' = bus /\ pad' = pad /\ pipeline_map' = pipeline_map /\ producers' = producers
  BY <1>1 DEF mutexes
<1>6. Aside(request[r]) /\ Aside(request'[r]) /\ SameInstances
  BY <1>3, <1>4, <1>5 DEF Aside, Bringing, Binding, SameInstances, SameInstance
<1>7. Unharmed'
  BY <1>3, <1>4, <1>5 DEF Orderly, Unharmed, FailSteps
<1>8. Probed'
  BY <1>3, <1>4, <1>5 DEF Probed, Bringing, Binding
<1>9. SourceInv'
  BY <1>1, <1>3, <1>4, <1>5
     DEF Orderly, SourceInv, Accounted, Entered, Bringing, Binding
<1> QED
  BY <1>5, <1>6, <1>7, <1>8, <1>9, AsideKeeps

\* A close begins: it will take the pipeline along, as no screen share is recorded.
LEMMA OrderlyBeginClose ==
  ASSUME Typed, Orderly, OneByOne, NEW r \in Requests, BeginClose(r)
  PROVE  Orderly'
<1>1. PICK m \in Meetings, p \in Participants, kinds \in SUBSET RecordedKinds \ {{}}, remove \in BOOLEAN :
        /\ request[r] = NoRequest
        /\ remove \/ kinds = {"screenshare"}
        /\ Go(r, "cl_maps", [NoRequest EXCEPT !.m = m, !.p = p, !.kinds = kinds, !.remove = remove])
        /\ UNCHANGED <<gst, mutexes, bus, pad, pipeline_map, producers, issued>>
  BY DEF BeginClose
<1> DEFINE q == [NoRequest EXCEPT !.m = m, !.p = p, !.kinds = kinds, !.remove = remove]
<1>2. q \in Call /\ q.remove = remove /\ "cl_maps" \in Steps /\ RequestOK /\ Go(r, "cl_maps", q)
  BY <1>1 DEF Call, NoRequest, Steps, StartSteps, Typed
<1> HIDE DEF q
<1>3. request'[r].pc = "cl_maps" /\ request'[r].remove = remove
  BY <1>2, GoFields
<1>4. request[r].pc = "idle" /\ \A o \in Requests : o = r
  BY <1>1 DEF NoRequest, OneByOne
<1>5. /\ gst' = gst /\ inner_mutex' = inner_mutex /\ pipeline_mutex' = pipeline_mutex
      /\ bus' = bus /\ pad' = pad /\ pipeline_map' = pipeline_map /\ producers' = producers
  BY <1>1 DEF mutexes
<1>6. Aside(request[r]) /\ Aside(request'[r]) /\ SameInstances
  BY <1>3, <1>4, <1>5 DEF Aside, Bringing, Binding, SameInstances, SameInstance
<1>7. remove
  BY <1>1 DEF OneByOne
<1>8. Unharmed'
  BY <1>3, <1>4, <1>5, <1>7 DEF Orderly, Unharmed, FailSteps
<1>9. Probed'
  BY <1>3, <1>4, <1>5 DEF Probed, Bringing, Binding
<1>10. SourceInv'
  BY <1>3, <1>4, <1>5 DEF Orderly, SourceInv, Accounted, Entered, Bringing, Binding
<1> QED
  BY <1>5, <1>6, <1>8, <1>9, <1>10, AsideKeeps

\* A step that neither touches an instance nor a mutex harms nothing.
LEMMA UnharmedStays ==
  ASSUME Orderly, OneByOne, NEW r \in Requests, SameInstances, UNCHANGED <<mutexes, bus, pad>>,
         request'[r].pc \notin FailSteps \cup
             {"cl_maps", "cl_pause", "cl_remove", "en_maps", "en_lookup", "en_null"}
  PROVE  Unharmed'
<1>1. \A o \in Requests : o = r
  BY DEF OneByOne
<1>2. \A g \in Gstreamers : gst'[g].errors = gst[g].errors
  BY DEF SameInstances, SameInstance
<1>3. inner_mutex' = inner_mutex /\ pipeline_mutex' = pipeline_mutex /\ bus' = bus /\ pad' = pad
  BY DEF mutexes
<1> QED
  BY <1>1, <1>2, <1>3 DEF Orderly, Unharmed

\* The same for the whole invariant, but for the sources.
LEMMA AsideStep ==
  ASSUME Typed, Orderly, OneByOne, NEW r \in Requests, SameInstances,
         UNCHANGED <<mutexes, bus, pad>>, Aside(request[r]), Aside(request'[r]),
         request'[r].pc \notin FailSteps \cup
             {"cl_maps", "cl_pause", "st_rtp", "en_maps", "en_lookup", "en_null"},
         SourceInv'
  PROVE  Orderly'
<1>1. Unharmed'
  BY UnharmedStays DEF Aside
<1>2. \A o \in Requests : o = r
  BY DEF OneByOne
<1>3. Probed'
  BY <1>2 DEF Probed, Aside
<1> QED
  BY <1>1, <1>3, AsideKeeps

\* The sources of the instance a lookup takes are of other producers.
LEMMA OrderlyLookup ==
  ASSUME Typed, MapInv, MeetingInv, Orderly, OneByOne, NEW r \in Requests, Lookup(r)
  PROVE  Orderly'
<1> DEFINE q == request[r]
           n == request'[r]
<1>1. /\ q.pc = "st_lookup" /\ q \in Call /\ q.m \in Meetings /\ q.kind \in RecordedKinds
      /\ "st_port" \in Steps /\ RequestOK /\ GstOK
      /\ UNCHANGED <<mutexes, bus, pad, pipeline_map, producers, issued>>
  BY DEF Lookup, Typed, RequestOK, CallOK, Steps, StartSteps
<1>2. \A o \in Requests : o = r
  BY DEF OneByOne
<1>3. pipeline_map[q.m] \in Gstreamers \cup {None}
  BY <1>1 DEF Typed, OthersOK
<1>4. pipeline_map' = pipeline_map /\ producers' = producers
  BY <1>1
<1>5. \A z \in producers : ~(z.m = q.m /\ z.p = q.p /\ z.kind = q.kind)
  BY <1>1 DEF Orderly, SourceInv
<1>6. ASSUME NEW g \in Gstreamers, gst[g].m = q.m,
             NEW x \in gst[g].udp_src \cup gst[g].sessions, Mine(x, q)
      PROVE  FALSE
  <2>1. Accounted(g, x)
    BY <1>6 DEF Orderly, SourceInv
  <2>2. PICK z \in producers : z.m = q.m /\ z.p = q.p /\ Media(z.kind) = Media(q.kind)
    BY <1>1, <1>2, <1>6, <2>1 DEF Accounted, Mine, Bringing, Binding
  <2>3. z.kind \in RecordedKinds /\ RecordedKinds \subseteq {"audio", "video"}
    BY DEF OneByOne, Typed, OthersOK, Published
  <2>4. z.kind \in {"audio", "video"} /\ q.kind \in {"audio", "video"}
    BY <1>1, <2>3
  <2> QED
    BY <1>5, <2>2, <2>4 DEF Media
<1>7. CASE pipeline_map[q.m] # None
  <2> DEFINE c == [q EXCEPT !.g = pipeline_map[q.m], !.exists = TRUE]
  <2>1. gst' = gst /\ Go(r, "st_port", c)
    BY <1>7 DEF Lookup
  <2>2. c \in Call /\ c.m = q.m /\ c.p = q.p /\ c.kind = q.kind /\ c.g = pipeline_map[q.m]
    BY <1>1, <1>3, <1>7 DEF Call
  <2> HIDE DEF c
  <2>3. n.pc = "st_port" /\ n.m = q.m /\ n.p = q.p /\ n.kind = q.kind /\ n.g = pipeline_map[q.m]
    BY <1>1, <2>1, <2>2, GoFields
  <2>4. Aside(q) /\ Aside(n) /\ SameInstances
    BY <1>1, <2>1, <2>3 DEF Aside, Bringing, Binding, SameInstances, SameInstance
  <2>5. n.g \in Gstreamers /\ gst[n.g].m = q.m
    BY <1>1, <1>3, <1>7, <2>3 DEF MeetingInv
  <2>6. \A x \in gst[n.g].elements \cup gst[n.g].sessions : ~Mine(x, n)
    <3>1. gst[n.g].udp_src = gst[n.g].elements
      BY <2>4, <2>5 DEF Orderly, SocketInv, Works, Rests, Aside
    <3> QED
      BY <1>6, <2>3, <2>5, <3>1 DEF Mine
  <2>7. \A g \in Gstreamers : \A x \in gst[g].udp_src \cup gst[g].sessions :
            Accounted(g, x)' /\ Entered(g)'
    BY <1>1, <1>2, <1>4, <2>1, <2>3 DEF Orderly, SourceInv, Accounted, Entered, Bringing, Binding
  <2>8. SourceInv'
    BY <1>2, <1>4, <1>5, <2>1, <2>3, <2>6, <2>7 DEF SourceInv, Bringing
  <2> QED
    BY <1>1, <2>3, <2>4, <2>8, AsideStep DEF FailSteps
<1>8. CASE pipeline_map[q.m] = None
  <2>1. PICK g \in Gstreamers :
           /\ gst[g] = NewGstreamer
           /\ gst' = [gst EXCEPT ![g].m = q.m]
           /\ Go(r, "st_port", [q EXCEPT !.g = g])
    BY <1>8 DEF Lookup
  <2> DEFINE c == [q EXCEPT !.g = g]
             j == [NewGstreamer EXCEPT !.m = q.m]
  <2>2. c \in Call /\ c.m = q.m /\ c.p = q.p /\ c.kind = q.kind /\ c.g = g
    BY <1>1 DEF Call
  <2>3. SameInstance(gst[g], j) /\ j.udp_src = {} /\ j.sessions = {} /\ j.elements = {}
    BY <2>1 DEF SameInstance, NewGstreamer
  <2>4. gst' = [gst EXCEPT ![g] = j] /\ Go(r, "st_port", c) /\ gst = [h \in Gstreamers |-> gst[h]]
    BY <1>1, <2>1 DEF GstOK
  <2> HIDE DEF c, j
  <2>5. gst'[g] = j /\ \A h \in Gstreamers \ {g} : gst'[h] = gst[h]
    BY <2>4
  <2>6. n.pc = "st_port" /\ n.m = q.m /\ n.p = q.p /\ n.kind = q.kind /\ n.g = g
    BY <1>1, <2>2, <2>4, GoFields
  <2>7. Aside(q) /\ Aside(n) /\ SameInstances
    BY <1>1, <2>3, <2>5, <2>6 DEF Aside, Bringing, Binding, SameInstances, SameInstance
  <2>8. \A h \in Gstreamers : \A x \in gst'[h].udp_src \cup gst'[h].sessions :
            Accounted(h, x)' /\ Entered(h)'
    BY <1>1, <1>2, <1>4, <2>3, <2>5, <2>6
       DEF Orderly, SourceInv, Accounted, Entered, Bringing, Binding
  <2>9. SourceInv'
    BY <1>2, <1>4, <1>5, <2>3, <2>5, <2>6, <2>8 DEF SourceInv, Bringing
  <2> QED
    BY <1>1, <2>6, <2>7, <2>9, AsideStep DEF FailSteps
<1> QED
  BY <1>3, <1>7, <1>8

\* The probe: an element of any pipeline at rest holds the socket of its port.
LEMMA OrderlyGetFreePort ==
  ASSUME Typed, Orderly, OneByOne, NEW r \in Requests, GetFreePort(r)
  PROVE  Orderly'
<1> DEFINE q == request[r]
           n == request'[r]
           free == FreePorts(q.kind)
           port == CHOOSE port \in free : \A other \in free : port <= other
<1>1. /\ q.pc = "st_port" /\ q \in Call /\ q.g \in Gstreamers /\ "st_rtp" \in Steps /\ RequestOK
      /\ UNCHANGED <<gst, mutexes, bus, pad, pipeline_map, producers>>
  BY DEF GetFreePort, Typed, RequestOK, CallOK, Steps, StartSteps, Started
<1>2. /\ \A o \in Requests : o = r
      /\ gst' = gst /\ pad' = pad /\ pipeline_map' = pipeline_map /\ producers' = producers
  BY <1>1 DEF OneByOne
<1>3. SameInstances /\ Aside(q)
  BY <1>1, <1>2 DEF SameInstances, SameInstance, Aside, Bringing, Binding
<1>4. ASSUME n.pc \in {"st_rtp", "idle"}
      PROVE  \A g \in Gstreamers : \A x \in gst[g].udp_src \cup gst[g].sessions :
                 Accounted(g, x)' /\ Entered(g)'
  BY <1>1, <1>2, <1>4 DEF Orderly, SourceInv, Accounted, Entered, Bringing, Binding
<1>5. ASSUME NEW src \in Sources \ issued, free # {},
             Go(r, "st_rtp", [q EXCEPT !.src = src, !.port = port])
      PROVE  Orderly'
  <2>1. free \subseteq Ports /\ free \subseteq Nat
    BY DEF FreePorts, PortRange, Ports
  <2>2. \E k \in free : \A other \in free : k <= other
    BY <1>5, <2>1, LeastPort
  <2>3. port \in free /\ port \in Ports
    BY <2>1, <2>2
  <2>4. \A x \in Bound(Gstreamers) : ~(x.part = "rtp" /\ x.port = port)
    BY <2>3 DEF FreePorts
  <2> HIDE DEF port, free
  <2> DEFINE c == [q EXCEPT !.src = src, !.port = port]
  <2>5. c \in Call /\ c.m = q.m /\ c.p = q.p /\ c.kind = q.kind /\ c.g = q.g
        /\ c.port = port /\ Go(r, "st_rtp", c)
    BY <1>1, <1>5, <2>3 DEF Call
  <2> HIDE DEF c
  <2>6. /\ n.pc = "st_rtp" /\ n.m = q.m /\ n.p = q.p /\ n.kind = q.kind /\ n.g = q.g
        /\ n.port = port
    BY <1>1, <2>5, GoFields
  <2>7. ASSUME NEW g \in Gstreamers, NEW x \in gst[g].elements, x.port = port PROVE FALSE
    <3>1. PICK y \in gst[g].elements : y.port = x.port /\ y.part = "rtp"
      BY DEF Orderly, Ported
    <3>2. gst[g].bound = gst[g].elements
      BY <1>1 DEF Orderly, SocketInv, Works, Rests, Bringing, Binding
    <3> QED
      BY <2>4, <2>7, <3>1, <3>2 DEF Bound
  <2>8. Probed'
    BY <1>2, <2>6, <2>7 DEF Probed
  <2>9. SourceInv'
    BY <1>1, <1>2, <1>4, <2>6 DEF Orderly, SourceInv, Mine, Bringing
  <2>10. Unharmed' /\ Aside(n)
    BY <1>1, <1>3, <2>6, UnharmedStays DEF Aside, Bringing, Binding, FailSteps
  <2> QED
    BY <1>2, <1>3, <2>8, <2>9, <2>10, AsideKeeps
<1>6. ASSUME Done(r) PROVE Orderly'
  <2>1. n.pc = "idle"
    BY <1>1, <1>6, DoneEnds DEF Ends, NoRequest
  <2>2. SourceInv' /\ Aside(n)
    BY <1>2, <1>4, <2>1 DEF SourceInv, Aside, Bringing, Binding
  <2> QED
    BY <1>1, <1>3, <2>1, <2>2, AsideStep DEF FailSteps
<1> QED
  BY <1>5, <1>6 DEF GetFreePort

\* The producer that is published accounts for its sources.
LEMMA OrderlyPublish ==
  ASSUME Typed, MeetingInv, Orderly, OneByOne, NEW r \in Requests, PublishProducer(r)
  PROVE  Orderly'
<1> DEFINE q == request[r]
           n == request'[r]
<1>1. /\ q.pc = "st_publish" /\ "st_insert" \in Steps /\ q.g \in Gstreamers
      /\ producers' = producers \cup
            {[m |-> q.m, p |-> q.p, kind |-> q.kind, src |-> q.src, g |-> q.g]}
      /\ Go(r, "st_insert", q)
      /\ UNCHANGED <<gst, mutexes, bus, pad, pipeline_map, issued>>
  BY DEF PublishProducer, Typed, RequestOK, CallOK, Steps, StartSteps, Started
<1>2. /\ \A o \in Requests : o = r
      /\ gst' = gst /\ pipeline_map' = pipeline_map
  BY <1>1 DEF OneByOne
<1>3. n.pc = "st_insert" /\ n.g = q.g
  BY <1>1, GoProceeds DEF Proceeds
<1>4. SameInstances /\ Aside(q) /\ Aside(n)
  BY <1>1, <1>2, <1>3 DEF SameInstances, SameInstance, Aside, Bringing, Binding
<1>5. gst[q.g].m = q.m
  BY <1>1 DEF MeetingInv, Started, StartSteps
<1>6. ASSUME NEW g \in Gstreamers, NEW x, Accounted(g, x) PROVE Accounted(g, x)'
  <2>1. CASE \E z \in producers : z.m = gst[g].m /\ z.p = x.p /\ Media(z.kind) = x.media
    BY <1>1, <1>2, <2>1 DEF Accounted
  <2>2. CASE g = q.g /\ Mine(x, q)
    <3> DEFINE z == [m |-> q.m, p |-> q.p, kind |-> q.kind, src |-> q.src, g |-> q.g]
    <3>1. z \in producers' /\ z.m = q.m /\ z.p = q.p /\ z.kind = q.kind
      BY <1>1
    <3> HIDE DEF z
    <3>2. z.m = gst'[g].m /\ z.p = x.p /\ Media(z.kind) = x.media
      BY <1>2, <1>5, <2>2, <3>1 DEF Mine
    <3> QED
      BY <3>1, <3>2, Zenon DEF Accounted
  <2> QED
    BY <1>1, <1>2, <1>6, <2>1, <2>2 DEF Accounted
<1>7. ASSUME NEW g \in Gstreamers, Entered(g) PROVE Entered(g)'
  BY <1>1, <1>2, <1>3, <1>7 DEF Entered
<1>8. SourceInv'
  BY <1>2, <1>3, <1>6, <1>7 DEF Orderly, SourceInv, Bringing
<1> QED
  BY <1>1, <1>3, <1>4, <1>8, AsideStep DEF FailSteps

\* The instance of a start is entered into the map.
LEMMA OrderlyInsert ==
  ASSUME Typed, MapInv, MeetingInv, Orderly, OneByOne, NEW r \in Requests, InsertPipeline(r)
  PROVE  Orderly'
<1> DEFINE q == request[r]
           n == request'[r]
<1>1. /\ q.pc = "st_insert" /\ q.g \in Gstreamers /\ q.m \in Meetings /\ RequestOK
      /\ pipeline_map' = [pipeline_map EXCEPT ![q.m] = q.g]
      /\ Done(r)
      /\ UNCHANGED <<gst, mutexes, bus, pad, producers, issued>>
  BY DEF InsertPipeline, Typed, RequestOK, CallOK, StartSteps, Started
<1>2. /\ \A o \in Requests : o = r
      /\ gst' = gst /\ producers' = producers
  BY <1>1 DEF OneByOne
<1>3. n.pc = "idle"
  BY <1>1, DoneEnds DEF Ends, NoRequest
<1>4. SameInstances /\ Aside(q) /\ Aside(n)
  BY <1>1, <1>2, <1>3 DEF SameInstances, SameInstance, Aside, Bringing, Binding
<1>5. /\ gst[q.g].m = q.m
      /\ pipeline_map[q.m] \in {q.g, None}
  BY <1>1 DEF MeetingInv, MapInv, Started, StartSteps
<1>6. ASSUME NEW g \in Gstreamers, NEW x, Accounted(g, x) PROVE Accounted(g, x)'
  BY <1>1, <1>2, <1>6 DEF Accounted, Bringing, Binding
<1>7. ASSUME NEW g \in Gstreamers, Entered(g) PROVE Entered(g)'
  <2>1. pipeline_map'[q.m] = q.g /\ \A m \in Meetings \ {q.m} : pipeline_map'[m] = pipeline_map[m]
    BY <1>1 DEF Typed, OthersOK
  <2>2. g # None
    OBVIOUS
  <2> QED
    BY <1>1, <1>2, <1>5, <1>7, <2>1, <2>2 DEF Entered
<1>8. SourceInv'
  BY <1>2, <1>3, <1>6, <1>7 DEF Orderly, SourceInv, Bringing
<1> QED
  BY <1>1, <1>3, <1>4, <1>8, AsideStep DEF FailSteps

\* A close accounts for the sources of the producers it takes out of the map.
LEMMA OrderlyCloseInMaps ==
  ASSUME Typed, Orderly, OneByOne, NEW r \in Requests, CloseInMaps(r)
  PROVE  Orderly'
<1> DEFINE q == request[r]
           n == request'[r]
<1>1. /\ q.pc = "cl_maps" /\ "cl_lookup" \in Steps
      /\ producers' = {x \in producers : ~(x.m = q.m /\ x.p = q.p /\ x.kind \in q.kinds)}
      /\ UNCHANGED <<gst, mutexes, bus, pad, pipeline_map, issued>>
  BY DEF CloseInMaps, Steps
<1>2. q.remove
  BY <1>1 DEF Orderly, Unharmed
<1>3. /\ \A o \in Requests : o = r
      /\ gst' = gst /\ pipeline_map' = pipeline_map
  BY <1>1 DEF OneByOne
<1>4. n.pc = "cl_lookup" /\ n.m = q.m /\ n.p = q.p
  BY <1>1, <1>2, GoProceeds DEF CloseInMaps, Proceeds
<1>5. SameInstances /\ Aside(q) /\ Aside(n)
  BY <1>1, <1>3, <1>4 DEF SameInstances, SameInstance, Aside, Bringing, Binding
<1>6. ASSUME NEW g \in Gstreamers, NEW x, Accounted(g, x) PROVE Accounted(g, x)'
  BY <1>1, <1>3, <1>4, <1>6 DEF Accounted, Bringing, Binding
<1>7. ASSUME NEW g \in Gstreamers, Entered(g) PROVE Entered(g)'
  BY <1>1, <1>3, <1>4, <1>7 DEF Entered, Bringing, Binding
<1>8. SourceInv'
  BY <1>3, <1>4, <1>6, <1>7 DEF Orderly, SourceInv, Bringing
<1> QED
  BY <1>1, <1>4, <1>5, <1>8, AsideStep DEF FailSteps

\* It finds the pipeline of its meeting, or there are no sources of the meeting.
LEMMA OrderlyCloseLookup ==
  ASSUME Typed, Orderly, OneByOne, NEW r \in Requests, CloseLookup(r)
  PROVE  Orderly'
<1> DEFINE q == request[r]
           n == request'[r]
           c == [q EXCEPT !.g = pipeline_map[q.m]]
<1>1. /\ q.pc = "cl_lookup" /\ "cl_inner" \in Steps /\ q \in Call /\ q.m \in Meetings /\ RequestOK
      /\ UNCHANGED <<gst, mutexes, bus, pad, pipeline_map, producers, issued>>
  BY DEF CloseLookup, Steps, Typed, RequestOK, CallOK
<1>2. /\ \A o \in Requests : o = r
      /\ gst' = gst /\ pipeline_map' = pipeline_map /\ producers' = producers
  BY <1>1 DEF OneByOne
<1>3. SameInstances /\ Aside(q)
  BY <1>1, <1>2 DEF SameInstances, SameInstance, Aside, Bringing, Binding
<1>4. CASE pipeline_map[q.m] # None /\ Go(r, "cl_inner", c)
  <2>1. c \in Call /\ c.m = q.m /\ c.p = q.p
    BY <1>1, <1>4 DEF Call, Typed, OthersOK
  <2> HIDE DEF c
  <2>2. n.pc = "cl_inner" /\ n.m = q.m /\ n.p = q.p
    BY <1>1, <1>4, <2>1, GoFields
  <2>3. \A g \in Gstreamers : \A x \in gst[g].udp_src \cup gst[g].sessions :
                 Accounted(g, x)' /\ Entered(g)'
    BY <1>1, <1>2, <2>2 DEF Orderly, SourceInv, Accounted, Entered, Bringing, Binding
  <2>4. SourceInv' /\ Aside(n)
    BY <1>2, <2>2, <2>3 DEF SourceInv, Aside, Bringing, Binding
  <2> QED
    BY <1>1, <1>3, <2>2, <2>4, AsideStep DEF FailSteps
<1>5. CASE pipeline_map[q.m] = None /\ Done(r)
  <2>1. n.pc = "idle"
    BY <1>1, <1>5, DoneEnds DEF Ends, NoRequest
  <2>2. ASSUME NEW g \in Gstreamers, NEW x \in gst[g].udp_src \cup gst[g].sessions
        PROVE  Accounted(g, x)' /\ Entered(g)'
    <3>1. Accounted(g, x) /\ Entered(g)
      BY DEF Orderly, SourceInv
    <3>2. gst[g].m # q.m /\ Entered(g)'
      BY <1>1, <1>2, <1>5, <3>1 DEF Entered, Bringing, Binding
    <3> QED
      BY <1>1, <1>2, <3>1, <3>2 DEF Accounted, Bringing, Binding
  <2>3. SourceInv' /\ Aside(n)
    BY <1>2, <2>1, <2>2 DEF SourceInv, Aside, Bringing, Binding
  <2> QED
    BY <1>1, <1>3, <2>1, <2>3, AsideStep DEF FailSteps
<1> QED
  BY <1>4, <1>5 DEF CloseLookup

\* Steps that link, watch, connect, register or lock.
LEMMA OrderlyOnward ==
  ASSUME Typed, Orderly, OneByOne, NEW r \in Requests,
         \/ LinkSource(r) \/ WatchBus(r) \/ ConnectPlain(r) \/ RegisterProducer(r)
         \/ CloseLocksInner(r) \/ CloseLocksPipeline(r)
  PROVE  Orderly'
<1> DEFINE q == request[r]
<1>1. \A o \in Requests : o = r
  BY DEF OneByOne
<1>2. \A f : ~Failing(f, r)
  BY DEF Failing, OneByOne
<1>3. q.pc \in Started \cup CloseSteps => q.g \in Gstreamers
  BY DEF Typed, RequestOK, CallOK
<1>4. r # "poisoned" /\ r # "pad" /\ r # None
  OBVIOUS
<1>5. {"st_meta", "st_play", "st_register", "st_publish", "cl_pipeline", "cl_pause"} \subseteq Steps
  BY DEF Steps, StartSteps
<1>6. gst = [g \in Gstreamers |-> gst[g]] /\ \A g \in Gstreamers : gst[g] \in Instance
  BY DEF Typed, GstOK, Sound
<1>8. ASSUME gst' = gst PROVE SameInstances /\ OwnMeeting
  BY <1>8 DEF SameInstances, SameInstance, OwnMeeting
<1>9. CASE LinkSource(r)
  <2>1. q.pc = "st_link" /\ Go(r, "st_meta", q) /\ UNCHANGED <<mutexes, bus, pad, pipeline_map, producers, issued>>
        /\ gst' = [gst EXCEPT ![q.g].linked = @ \cup {q.src}]
    BY <1>2, <1>9 DEF LinkSource
  <2>2. q.g \in Gstreamers
    BY <1>3, <2>1 DEF Started, StartSteps
  <2>3. SameInstances /\ OwnMeeting
    <3> DEFINE j == [gst[q.g] EXCEPT !.linked = @ \cup {q.src}]
    <3>1. SameInstance(gst[q.g], j) /\ j.m = gst[q.g].m
      BY <1>6, <2>2 DEF SameInstance, Instance
    <3>2. gst' = [gst EXCEPT ![q.g] = j]
      BY <2>1
    <3> HIDE DEF j
    <3>3. gst'[q.g] = j /\ \A h \in Gstreamers \ {q.g} : gst'[h] = gst[h]
      BY <1>6, <2>2, <3>2
    <3> QED
      BY <3>1, <3>3 DEF SameInstances, SameInstance, OwnMeeting
  <2>4. Proceeds(r, "st_meta") /\ Onward(q.pc, "st_meta")
    BY <1>5, <2>1, GoProceeds DEF Onward
  <2>5. Unharmed'
    BY <2>1, <2>3, <2>4, UnharmedStays DEF Proceeds, FailSteps
  <2> QED
    BY <2>1, <2>3, <2>4, <2>5, OnwardKeeps
<1>10. CASE WatchBus(r)
  <2>1. /\ q.pc = "st_clone" /\ Go(r, "st_play", q)
        /\ UNCHANGED <<gst, mutexes, pad, pipeline_map, producers, issued>>
        /\ bus' = [bus EXCEPT ![q.g] = IF q.exists THEN @ ELSE "watching"]
    BY <1>10 DEF WatchBus
  <2>2. Proceeds(r, "st_play") /\ Onward(q.pc, "st_play")
    BY <1>5, <2>1, GoProceeds DEF Onward
  <2>3. \A g \in Gstreamers : bus'[g] \in {"none", "watching"}
    BY <2>1 DEF Orderly, Unharmed, Typed, OthersOK
  <2>4. Unharmed'
    BY <1>1, <2>1, <2>2, <2>3 DEF Orderly, Unharmed, Proceeds, FailSteps, mutexes
  <2> QED
    BY <1>8, <2>1, <2>2, <2>4, OnwardKeeps
<1>11. CASE ConnectPlain(r)
  <2>1. q.pc = "st_connect" /\ Go(r, "st_register", q) /\ UNCHANGED <<mutexes, bus, pad, pipeline_map, producers, issued>>
        /\ gst' = [gst EXCEPT ![q.g].fed = @ \cup {q.src}]
    BY <1>2, <1>11 DEF ConnectPlain
  <2>2. q.g \in Gstreamers
    BY <1>3, <2>1 DEF Started, StartSteps
  <2>3. SameInstances /\ OwnMeeting
    <3> DEFINE j == [gst[q.g] EXCEPT !.fed = @ \cup {q.src}]
    <3>1. SameInstance(gst[q.g], j) /\ j.m = gst[q.g].m
      BY <1>6, <2>2 DEF SameInstance, Instance
    <3>2. gst' = [gst EXCEPT ![q.g] = j]
      BY <2>1
    <3> HIDE DEF j
    <3>3. gst'[q.g] = j /\ \A h \in Gstreamers \ {q.g} : gst'[h] = gst[h]
      BY <1>6, <2>2, <3>2
    <3> QED
      BY <3>1, <3>3 DEF SameInstances, SameInstance, OwnMeeting
  <2>4. Proceeds(r, "st_register") /\ Onward(q.pc, "st_register")
    BY <1>5, <2>1, GoProceeds DEF Onward
  <2>5. Unharmed'
    BY <2>1, <2>3, <2>4, UnharmedStays DEF Proceeds, FailSteps
  <2> QED
    BY <2>1, <2>3, <2>4, <2>5, OnwardKeeps
<1>12. CASE RegisterProducer(r)
  <2>1. /\ q.pc = "st_register" /\ Go(r, "st_publish", q)
        /\ UNCHANGED <<gst, mutexes, bus, pad, pipeline_map, producers, issued>>
    BY <1>12 DEF RegisterProducer, OneByOne
  <2>2. Proceeds(r, "st_publish") /\ Onward(q.pc, "st_publish")
    BY <1>5, <2>1, GoProceeds DEF Onward
  <2>3. Unharmed'
    BY <1>8, <2>1, <2>2, UnharmedStays DEF Proceeds, FailSteps
  <2> QED
    BY <1>8, <2>1, <2>2, <2>3, OnwardKeeps
<1>13. CASE CloseLocksInner(r)
  <2>1. /\ q.pc = "cl_inner" /\ inner_mutex[q.g] = None
        /\ inner_mutex' = [inner_mutex EXCEPT ![q.g] = r] /\ Go(r, "cl_pipeline", q)
        /\ UNCHANGED <<gst, pipeline_mutex, bus, pad, pipeline_map, producers, issued>>
    BY <1>13 DEF CloseLocksInner
  <2>2. Proceeds(r, "cl_pipeline") /\ Onward(q.pc, "cl_pipeline")
    BY <1>5, <2>1, GoProceeds DEF Onward
  <2>3. \A g \in Gstreamers : inner_mutex'[g] \in {inner_mutex[g], r}
    BY <2>1 DEF Typed, OthersOK
  <2>4. Unharmed'
    BY <1>1, <1>4, <2>1, <2>2, <2>3 DEF Orderly, Unharmed, Proceeds, FailSteps
  <2> QED
    BY <1>8, <2>1, <2>2, <2>4, OnwardKeeps
<1>14. CASE CloseLocksPipeline(r)
  <2>1. /\ q.pc = "cl_pipeline" /\ pipeline_mutex[q.g] = None
        /\ pipeline_mutex' = [pipeline_mutex EXCEPT ![q.g] = r] /\ Go(r, "cl_pause", q)
        /\ UNCHANGED <<gst, inner_mutex, bus, pad, pipeline_map, producers, issued>>
    BY <1>14 DEF CloseLocksPipeline
  <2>2. Proceeds(r, "cl_pause") /\ Onward(q.pc, "cl_pause")
    BY <1>5, <2>1, GoProceeds DEF Onward
  <2>3. /\ \A g \in Gstreamers \ {q.g} : pipeline_mutex'[g] = pipeline_mutex[g]
        /\ q.g \in Gstreamers /\ pipeline_mutex'[q.g] = r
    BY <1>3, <2>1 DEF Typed, OthersOK, CloseSteps
  <2>4. Unharmed'
    <3>1. None # "pad" /\ None # "poisoned"
      OBVIOUS
    <3>2. \A g \in Gstreamers :
            /\ pipeline_mutex'[g] # "poisoned"
            /\ pipeline_mutex'[g] = "pad" <=> pad[g].pc \in {"pad_inner", "pad_insert"}
      BY <1>4, <2>1, <2>3, <3>1 DEF Orderly, Unharmed
    <3> QED
      BY <1>1, <1>4, <2>1, <2>2, <2>3, <3>2 DEF Orderly, Unharmed, Proceeds, FailSteps
  <2> QED
    BY <1>8, <2>1, <2>2, <2>4, OnwardKeeps
<1> QED
  BY <1>9, <1>10, <1>11, <1>12, <1>13, <1>14

\* The shared elements of a media are whole groups.
LEMMA GroupsNeeded ==
  ASSUME NEW media \in {"audio", "video"}, NEW S \in SUBSET SharedElements, Grouped(S)
  PROVE  Grouped(S \cup Needed(media)) /\ Grouped(Needed(media) \ S)
<1>1. Len(Groups) = 4 /\ \A k \in 1 .. 4 : k = 1 \/ k = 2 \/ k = 3 \/ k = 4
  BY DEF Groups
<1>2. /\ Groups[1] = {"rtpbin"} /\ Groups[2] = {"audiomixer", "opusenc"}
      /\ Groups[3] = {"compositor", "x264enc"} /\ Groups[4] = {"splitmuxsink"}
  BY DEF Groups
<1>3. Needed(media) = IF media = "audio" THEN SharedElements
                      ELSE {"compositor", "x264enc", "splitmuxsink", "rtpbin"}
  <2>1. CASE media = "audio"
    <3> DEFINE o == <<"rtcpsrc", "rtpbin", "audiomixer", "opusenc", "compositor", "x264enc", "splitmuxsink">>
    <3>1. CreationOrder(media) = o
      BY <2>1 DEF CreationOrder
    <3>2. DOMAIN o = 1 .. 7
      OBVIOUS
    <3>3. {o[k] : k \in 1 .. 7} = {o[1], o[2], o[3], o[4], o[5], o[6], o[7]}
      OBVIOUS
    <3> QED
      BY <2>1, <3>1, <3>2, <3>3 DEF Needed, SharedElements
  <2>2. CASE media = "video"
    <3> DEFINE o == <<"compositor", "x264enc", "splitmuxsink", "rtcpsrc", "rtpbin">>
    <3>1. CreationOrder(media) = o
      BY <2>2 DEF CreationOrder
    <3>2. DOMAIN o = 1 .. 5
      OBVIOUS
    <3>3. {o[k] : k \in 1 .. 5} = {o[1], o[2], o[3], o[4], o[5]}
      OBVIOUS
    <3> QED
      BY <2>2, <3>1, <3>2, <3>3 DEF Needed
  <2> QED
    BY <2>1, <2>2
<1>4. ASSUME NEW G, NEW N, N \cap G \in {{}, G}, ~Torn(S, G)
      PROVE  ~Torn(S \cup N, G) /\ ~Torn(N \ S, G)
  <2>1. CASE N \cap G = {}
    <3>1. (S \cup N) \cap G = S \cap G /\ (N \ S) \cap G = {}
      BY <2>1
    <3> QED
      BY <1>4, <3>1 DEF Torn
  <2>2. CASE N \cap G = G
    <3>1. (S \cup N) \cap G = G /\ (N \ S) \cap G = G \ S
      BY <2>2
    <3>2. S \cap G \in {{}, G}
      BY <1>4 DEF Torn
    <3>3. G \ S \in {{}, G}
      BY <3>2
    <3> QED
      BY <3>1, <3>3 DEF Torn
  <2> QED
    BY <1>4, <2>1, <2>2
<1>5. \A k \in 1 .. 4 : Needed(media) \cap Groups[k] \in {{}, Groups[k]}
  BY <1>1, <1>2, <1>3 DEF SharedElements
<1>6. ASSUME NEW k \in 1 .. 4
      PROVE  ~Torn(S \cup Needed(media), Groups[k]) /\ ~Torn(Needed(media) \ S, Groups[k])
  <2>1. PICK G : G = Groups[k]
    OBVIOUS
  <2>2. PICK N : N = Needed(media)
    OBVIOUS
  <2>3. ~Torn(S, G) /\ N \cap G \in {{}, G}
    BY <1>1, <1>5, <2>1, <2>2 DEF Grouped
  <2>4. ~Torn(S \cup N, G) /\ ~Torn(N \ S, G)
    BY <1>4, <2>3
  <2> QED
    BY <2>1, <2>2, <2>4
<1> QED
  BY <1>1, <1>6 DEF Grouped

\* A start changes its own instance, and only adds sources that are its own.
LEMMA StartKeeps ==
  ASSUME Typed, Orderly, OneByOne, NEW r \in Requests, NEW g \in Gstreamers,
         request[r].g = g, request'[r].g = g,
         request'[r].p = request[r].p, request'[r].kind = request[r].kind,
         request[r].pc \in {"st_rtp"} \cup Bringing \cup Binding,
         request'[r].pc \in Bringing \cup Binding \cup {"st_connect"},
         \A h \in Gstreamers \ {g} : gst'[h] = gst[h],
         gst'[g].m = gst[g].m, gst'[g].errors = gst[g].errors,
         UNCHANGED <<mutexes, bus, pad, producers, pipeline_map>>,
         Works(gst'[g], request'[r]), Ported', Probed', SessionInv',
         Grouped(gst'[g].shared),
         request'[r].pc \in {"st_pause", "st_add"} => Grouped(request'[r].fresh),
         \A x \in gst'[g].udp_src \cup gst'[g].sessions :
             x \in gst[g].udp_src \cup gst[g].sessions \/ Mine(x, request[r]),
         request'[r].pc \in Bringing => \A x \in gst'[g].elements : ~Mine(x, request[r]),
         request'[r].pc \in {"st_link", "st_meta"} \cup Bringing =>
             \A x \in gst'[g].sessions : ~Mine(x, request[r]),
         gst'[g].state = "Playing" \/ request'[r].pc # "st_connect"
  PROVE  Orderly'
<1> DEFINE q == request[r]
           n == request'[r]
<1>1. \A o \in Requests : o = r
  BY DEF OneByOne
<1>2. pad' = pad /\ producers' = producers /\ pipeline_map' = pipeline_map /\ bus' = bus
      /\ inner_mutex' = inner_mutex /\ pipeline_mutex' = pipeline_mutex
  BY DEF mutexes
<1>3. Unharmed'
  <2>1. \A h \in Gstreamers : gst'[h].errors = gst[h].errors
    OBVIOUS
  <2>2. n.pc \notin FailSteps \cup {"cl_maps", "cl_pause", "cl_remove", "en_maps", "en_lookup", "en_null"}
    BY DEF FailSteps, Bringing, Binding
  <2> QED
    BY <1>1, <1>2, <2>1, <2>2 DEF Orderly, Unharmed
<1>4. SocketInv'
  <2>1. \A h \in Gstreamers \ {g} : Rests(gst[h])
    BY DEF Orderly, SocketInv
  <2>2. \A h \in Gstreamers \ {g} : Rests(gst'[h])
    BY <2>1
  <2> QED
    BY <1>1, <2>2 DEF SocketInv
<1>5. GroupInv'
  BY <1>1 DEF Orderly, GroupInv
<1>6. \A x : Mine(x, n) <=> Mine(x, q)
  BY DEF Mine
<1>7. ASSUME NEW h \in Gstreamers, NEW x \in gst'[h].udp_src \cup gst'[h].sessions
      PROVE  Accounted(h, x)' /\ Entered(h)'
  <2>1. CASE h = g /\ Mine(x, q)
    BY <1>6, <2>1 DEF Accounted, Entered
  <2>2. CASE x \in gst[h].udp_src \cup gst[h].sessions
    <3>1. Accounted(h, x) /\ Entered(h) /\ gst'[h].m = gst[h].m
      BY <2>2 DEF Orderly, SourceInv
    <3>2. \/ \E z \in producers : z.m = gst[h].m /\ z.p = x.p /\ Media(z.kind) = x.media
          \/ q.g = h /\ Mine(x, q)
      BY <1>1, <3>1 DEF Accounted, Bringing, Binding
    <3>3. Accounted(h, x)'
      BY <1>2, <1>6, <3>1, <3>2 DEF Accounted
    <3>4. \/ gst[h].m \in Meetings /\ pipeline_map[gst[h].m] = h
          \/ q.g = h
      BY <1>1, <3>1 DEF Entered
    <3>5. Entered(h)'
      BY <1>2, <3>1, <3>4 DEF Entered
    <3> QED
      BY <3>3, <3>5
  <2> QED
    BY <2>1, <2>2
<1>8. SourceInv'
  <2>1. n.pc \notin {"st_lookup", "st_port", "st_rtp"}
    BY DEF Bringing, Binding
  <2> QED
    BY <1>1, <1>6, <1>7, <2>1 DEF SourceInv
<1>9. Resumed'
  <2>1. ASSUME NEW h \in Gstreamers \ {g}
        PROVE  gst'[h].state = "Paused" /\ (\E x \in gst'[h].udp_src : x.part = "rtp") =>
                   pad'[h].pc \in {"pad_inner", "pad_insert"}
    BY <1>1, <1>2 DEF Orderly, Resumed
  <2>2. gst'[g].state = "Playing" \/ n.pc \in Bringing \cup Binding
    OBVIOUS
  <2> QED
    BY <2>1, <2>2 DEF Resumed
<1> QED
  BY <1>3, <1>4, <1>5, <1>8, <1>9 DEF Orderly

\* What the steps of a start have in common.
LEMMA StartFacts ==
  ASSUME Typed, Orderly, OneByOne, NEW r \in Requests,
         request[r].pc \in {"st_rtp"} \cup Bringing \cup Binding
  PROVE  LET q == request[r]
             i == gst[q.g]
         IN  /\ q \in Call /\ q.g \in Gstreamers /\ q.kind \in RecordedKinds /\ RequestOK /\ GstOK
             /\ Sound(i) /\ i \in Instance /\ gst = [h \in Gstreamers |-> gst[h]]
             /\ Works(i, q)
             /\ SourceElement(q, "rtp") \in Element /\ SourceElement(q, "rtcp") \in Element
             /\ \A o \in Requests : o = r
             /\ \A fault : ~Failing(fault, r)
             /\ {"st_shared", "st_pause", "st_add", "st_link", "st_meta", "st_clone",
                 "st_play", "st_connect"} \subseteq Steps
<1>1. request[r].pc \in Started \ {"st_port"} /\ request[r].pc \in StartSteps
  BY DEF Bringing, Binding, Started, StartSteps
<1>2. SourceElement(request[r], "rtp") \in Element /\ SourceElement(request[r], "rtcp") \in Element
  BY <1>1, SourceElementTyped DEF Parts
<1>3. request[r].g \in Gstreamers /\ Sound(gst[request[r].g]) /\ request[r].kind \in RecordedKinds
  BY <1>1, StartedKnows
<1>4. Works(gst[request[r].g], request[r])
  BY <1>3 DEF Orderly, SocketInv
<1> QED
  BY <1>2, <1>3, <1>4
     DEF Typed, RequestOK, CallOK, GstOK, Sound, OneByOne, Failing, Steps, StartSteps

\* An instance that keeps its elements keeps the ports apart, and one that keeps its
\* sessions and branches keeps them unique.
LEMMA ElementsStay ==
  ASSUME Orderly, \A h \in Gstreamers : gst'[h].elements = gst[h].elements
  PROVE  Ported'
  BY DEF Orderly, Ported

\* The same for the sessions.
LEMMA SessionsStay ==
  ASSUME Orderly, \A h \in Gstreamers : gst'[h].sessions = gst[h].sessions
                                     /\ gst'[h].branches = gst[h].branches
  PROVE  SessionInv'
  BY DEF Orderly, SessionInv

\* The probed port stays that of the start alone.
LEMMA ProbedStays ==
  ASSUME Orderly, OneByOne, NEW r \in Requests,
         \A h \in Gstreamers : gst'[h].elements = gst[h].elements,
         request'[r].src = request[r].src, request'[r].p = request[r].p,
         request'[r].kind = request[r].kind, request'[r].port = request[r].port,
         request'[r].pc \in Bringing \cup {"st_rtp"} => request[r].pc \in Bringing \cup {"st_rtp"},
         request'[r].pc \in Binding => request[r].pc \in Binding
  PROVE  Probed'
<1>1. \A o \in Requests : o = r
  BY DEF OneByOne
<1>2. SourceElement(request'[r], "rtp") = SourceElement(request[r], "rtp")
  BY OwnSame
<1> QED
  BY <1>1, <1>2 DEF Orderly, Probed

\* The udpsrc of RTP is the first of its participant and media.
LEMMA OrderlyMakeSource ==
  ASSUME Typed, Orderly, OneByOne, NEW r \in Requests, MakeSource(r)
  PROVE  Orderly'
<1> DEFINE q == request[r]
           n == request'[r]
           i == gst[q.g]
           x == SourceElement(q, "rtp")
           j == [i EXCEPT !.udp_src = Insert(@, x)]
<1>1. q.pc = "st_rtp" /\ UNCHANGED <<mutexes, bus, pad, pipeline_map, producers, issued>>
  BY DEF MakeSource
<1>2. /\ q.g \in Gstreamers /\ i \in Instance /\ Works(i, q) /\ Sound(i) /\ RequestOK
      /\ gst = [h \in Gstreamers |-> gst[h]] /\ \A fault : ~Failing(fault, r)
      /\ "st_shared" \in Steps
  BY <1>1, StartFacts
<1>3. gst' = [gst EXCEPT ![q.g] = j] /\ Go(r, "st_shared", q)
  BY <1>2 DEF MakeSource
<1>4. i.udp_src = i.elements /\ i.bound = i.elements
  BY <1>1, <1>2 DEF Works, Bringing, Binding
<1>5. /\ \A y \in i.elements : ~Mine(y, q)
      /\ \A y \in i.sessions : ~Mine(y, q)
  BY <1>1 DEF Orderly, SourceInv
<1>6. Insert(i.udp_src, x) = i.elements \cup {x}
  BY <1>4, <1>5 DEF Insert, SameKey, Mine, SourceElement
<1>7. /\ j.udp_src = i.elements \cup {x} /\ j.elements = i.elements /\ j.bound = i.bound
      /\ j.m = i.m /\ j.errors = i.errors /\ j.shared = i.shared
      /\ j.sessions = i.sessions /\ j.branches = i.branches
  BY <1>2, <1>6 DEF Instance
<1> HIDE DEF j
<1>8. gst'[q.g] = j /\ \A h \in Gstreamers \ {q.g} : gst'[h] = gst[h]
  BY <1>2, <1>3
<1>9. Proceeds(r, "st_shared")
  BY <1>2, <1>3, GoProceeds
<1>10. Works(j, n)
  <2>1. SourceElement(n, "rtp") = x
    BY <1>9, OwnSame DEF Proceeds
  <2> HIDE DEF x
  <2> QED
    BY <1>4, <1>7, <1>9, <2>1 DEF Works, Proceeds, Bringing, Binding
<1>11. Ported' /\ SessionInv'
  BY <1>7, <1>8, ElementsStay, SessionsStay
<1>12. Probed'
  BY <1>1, <1>7, <1>8, <1>9, ProbedStays DEF Proceeds, Bringing, Binding
<1>13. Grouped(j.shared)
  BY <1>2, <1>7 DEF Orderly, GroupInv
<1>14. Mine(x, q)
  BY DEF Mine, SourceElement
<1> HIDE DEF x
<1> QED
  BY <1>1, <1>2, <1>4, <1>5, <1>7, <1>8, <1>9, <1>10, <1>11, <1>12, <1>13, <1>14, StartKeeps
     DEF Proceeds, Bringing

\* The instance once all elements of a start are made.
LEMMA MadeAll ==
  ASSUME NEW q, NEW i \in Instance, NEW j, j = Made(i, q, Len(CreationOrder(Media(q.kind))))
  PROVE  /\ j.shared = i.shared \cup Needed(Media(q.kind))
         /\ j.udp_src = Insert(i.udp_src, SourceElement(q, "rtcp"))
         /\ j.elements = i.elements /\ j.bound = i.bound /\ j.m = i.m /\ j.errors = i.errors
         /\ j.sessions = i.sessions /\ j.branches = i.branches
<1> DEFINE media == Media(q.kind)
           order == CreationOrder(media)
           made == {order[k] : k \in 1 .. Len(order)}
           x == SourceElement(q, "rtcp")
<1>1. media \in {"audio", "video"}
  BY MediaTyped
<1>2. DOMAIN order = 1 .. Len(order)
  BY <1>1, OrderTyped
<1>3. Needed(media) = made \ {"rtcpsrc"}
  BY <1>2 DEF Needed
<1>4. "rtcpsrc" \in made
  <2>1. CASE media = "audio"
    <3>1. order = <<"rtcpsrc", "rtpbin", "audiomixer", "opusenc", "compositor", "x264enc", "splitmuxsink">>
      BY <2>1 DEF CreationOrder
    <3>2. Len(order) = 7 /\ order[1] = "rtcpsrc"
      BY <3>1
    <3> QED
      BY <3>2
  <2>2. CASE media = "video"
    <3>1. order = <<"compositor", "x264enc", "splitmuxsink", "rtcpsrc", "rtpbin">>
      BY <2>2 DEF CreationOrder
    <3>2. Len(order) = 5 /\ order[4] = "rtcpsrc"
      BY <3>1
    <3> QED
      BY <3>2
  <2> QED
    BY <1>1, <2>1, <2>2
<1>5. j = [i EXCEPT !.shared = @ \cup (made \ {"rtcpsrc"}), !.udp_src = Insert(@, x)]
  BY <1>4 DEF Made
<1> HIDE DEF made, x, order, media
<1>6. /\ j.shared = i.shared \cup (made \ {"rtcpsrc"})
      /\ j.udp_src = Insert(i.udp_src, x)
      /\ j.elements = i.elements /\ j.bound = i.bound /\ j.m = i.m /\ j.errors = i.errors
      /\ j.sessions = i.sessions /\ j.branches = i.branches
  BY <1>5 DEF Instance
<1> QED
  BY <1>3, <1>6 DEF x, media

\* The udpsrc of RTCP joins that of RTP.
LEMMA OrderlyMakeElements ==
  ASSUME Typed, Orderly, OneByOne, NEW r \in Requests, MakeElements(r)
  PROVE  Orderly'
<1> DEFINE q == request[r]
           n == request'[r]
           i == gst[q.g]
           x == SourceElement(q, "rtp")
           y == SourceElement(q, "rtcp")
           last == Len(CreationOrder(Media(q.kind)))
           j == Made(i, q, last)
           fresh == Needed(Media(q.kind)) \ i.shared
           c == [q EXCEPT !.fresh = fresh]
<1>1. q.pc = "st_shared" /\ UNCHANGED <<mutexes, bus, pad, pipeline_map, producers, issued>>
  BY DEF MakeElements
<1>2. /\ q.g \in Gstreamers /\ i \in Instance /\ Works(i, q) /\ Sound(i) /\ RequestOK /\ q \in Call
      /\ gst = [h \in Gstreamers |-> gst[h]] /\ \A fault : ~Failing(fault, r)
      /\ "st_pause" \in Steps
  BY <1>1, StartFacts DEF Bringing
<1>3. gst' = [gst EXCEPT ![q.g] = j] /\ Go(r, "st_pause", c)
  BY <1>2 DEF MakeElements
<1>4. i.udp_src = i.elements \cup {x} /\ i.bound = i.elements
  BY <1>1, <1>2 DEF Works, Bringing, Binding
<1>5. /\ \A z \in i.elements : ~Mine(z, q)
      /\ \A z \in i.sessions : ~Mine(z, q)
  BY <1>1 DEF Orderly, SourceInv, Bringing
<1>6. Insert(i.udp_src, y) = i.elements \cup Own(q)
  <2>1. Own(q) = {x, y}
    BY OwnElements
  <2>2. x.part = "rtp" /\ y.part = "rtcp" /\ Mine(y, q)
    BY DEF SourceElement, Mine
  <2> HIDE DEF x, y
  <2> QED
    BY <1>4, <1>5, <2>1, <2>2 DEF Insert, SameKey, Mine
<1>7. /\ j.udp_src = i.elements \cup Own(q) /\ j.elements = i.elements /\ j.bound = i.bound
      /\ j.m = i.m /\ j.errors = i.errors /\ j.shared = i.shared \cup Needed(Media(q.kind))
      /\ j.sessions = i.sessions /\ j.branches = i.branches
  <2>1. PICK made : made = j
    OBVIOUS
  <2>2. made = Made(i, q, Len(CreationOrder(Media(q.kind)))) /\ i \in Instance
    BY <1>2, <2>1
  <2> HIDE DEF j, y, i, q
  <2>3. /\ made.shared = i.shared \cup Needed(Media(q.kind))
        /\ made.udp_src = Insert(i.udp_src, SourceElement(q, "rtcp"))
        /\ made.elements = i.elements /\ made.bound = i.bound /\ made.m = i.m
        /\ made.errors = i.errors
        /\ made.sessions = i.sessions /\ made.branches = i.branches
    BY <2>2, MadeAll
  <2> QED
    BY <1>6, <2>1, <2>3 DEF y
<1>8. fresh \subseteq SharedElements /\ Grouped(j.shared) /\ Grouped(fresh)
  <2>1. Media(q.kind) \in {"audio", "video"} /\ i.shared \in SUBSET SharedElements /\ Grouped(i.shared)
    BY <1>2, MediaTyped DEF Instance, Orderly, GroupInv
  <2> QED
    BY <1>7, <2>1, GroupsNeeded, NeededShared
<1> HIDE DEF j, fresh
<1>9. c \in Call /\ c.m = q.m /\ c.p = q.p /\ c.kind = q.kind /\ c.g = q.g /\ c.src = q.src
      /\ c.port = q.port /\ c.fresh = fresh /\ c.closed = q.closed
  BY <1>2, <1>8 DEF Call
<1> HIDE DEF c
<1>10. /\ n.pc = "st_pause" /\ n.g = q.g /\ n.p = q.p /\ n.kind = q.kind /\ n.src = q.src
       /\ n.port = q.port /\ n.fresh = fresh
  BY <1>2, <1>3, <1>9, GoFields
<1>11. gst'[q.g] = j /\ \A h \in Gstreamers \ {q.g} : gst'[h] = gst[h]
  BY <1>2, <1>3
<1>12. Own(n) = Own(q)
  BY <1>10, OwnSame
<1>13. Works(j, n)
  BY <1>4, <1>7, <1>10, <1>12 DEF Works, Bringing, Binding
<1>14. Ported' /\ SessionInv'
  BY <1>7, <1>11, ElementsStay, SessionsStay
<1>15. Probed'
  BY <1>1, <1>7, <1>10, <1>11, ProbedStays DEF Bringing, Binding
<1>16. \A z \in Own(q) : Mine(z, q)
  BY OwnElements
<1>17. \A z \in gst'[q.g].udp_src \cup gst'[q.g].sessions :
             z \in gst[q.g].udp_src \cup gst[q.g].sessions \/ Mine(z, q)
  BY <1>4, <1>7, <1>11, <1>16
<1> QED
  BY <1>1, <1>2, <1>5, <1>7, <1>8, <1>10, <1>11, <1>13, <1>14, <1>15, <1>17, StartKeeps
     DEF Bringing

\* The pipeline that is paused binds what it has bound.
LEMMA OrderlyPause ==
  ASSUME Typed, Orderly, OneByOne, NEW r \in Requests, PausePipeline(r)
  PROVE  Orderly'
<1> DEFINE q == request[r]
           n == request'[r]
           i == gst[q.g]
<1>1. PICK out \in SetState(q.g, i, "Paused") :
         /\ q.pc = "st_pause"
         /\ gst' = [gst EXCEPT ![q.g] = out.to]
         /\ out.ok => Go(r, "st_add", q)
         /\ UNCHANGED <<mutexes, bus, pad, pipeline_map, producers, issued>>
  BY DEF PausePipeline
<1>2. /\ q.g \in Gstreamers /\ i \in Instance /\ Works(i, q) /\ Sound(i) /\ GstOK
      /\ gst = [h \in Gstreamers |-> gst[h]]
      /\ "st_add" \in Steps
  BY <1>1, StartFacts DEF Bringing
<1>3. /\ out.ok /\ out.to.bound = i.elements
      /\ out.to.m = i.m /\ out.to.shared = i.shared /\ out.to.errors = i.errors
      /\ out.to.udp_src = i.udp_src /\ out.to.elements = i.elements
      /\ out.to.sessions = i.sessions /\ out.to.branches = i.branches
  BY <1>2, Opens DEF Orderly, OneByOne
<1>4. gst'[q.g] = out.to /\ \A h \in Gstreamers \ {q.g} : gst'[h] = gst[h]
  BY <1>1, <1>2
<1>5. Proceeds(r, "st_add")
  BY <1>1, <1>2, <1>3, GoProceeds
<1>6. Own(n) = Own(q)
  BY <1>5, OwnSame DEF Proceeds
<1>7. Works(out.to, n)
  BY <1>1, <1>2, <1>3, <1>5, <1>6 DEF Works, Proceeds, Bringing, Binding
<1>8. Ported' /\ SessionInv'
  BY <1>3, <1>4, ElementsStay, SessionsStay
<1>9. Probed'
  BY <1>1, <1>3, <1>4, <1>5, ProbedStays DEF Proceeds, Bringing, Binding
<1>10. Grouped(out.to.shared) /\ Grouped(n.fresh)
  BY <1>1, <1>2, <1>3, <1>5 DEF Orderly, GroupInv, Proceeds
<1>11. /\ \A x \in i.elements : ~Mine(x, q)
       /\ \A x \in i.sessions : ~Mine(x, q)
  BY <1>1 DEF Orderly, SourceInv, Bringing
<1> QED
  BY <1>1, <1>2, <1>3, <1>4, <1>5, <1>7, <1>8, <1>9, <1>10, <1>11, StartKeeps
     DEF Proceeds, Bringing

\* The pipeline plays: the port is still free, so every socket is bound.
LEMMA OrderlyPlay ==
  ASSUME Typed, Orderly, OneByOne, NEW r \in Requests, PlayPipeline(r)
  PROVE  Orderly'
<1> DEFINE q == request[r]
           n == request'[r]
           i == gst[q.g]
<1>1. PICK out \in SetState(q.g, i, "Playing") :
         /\ q.pc = "st_play"
         /\ gst' = [gst EXCEPT ![q.g] = out.to]
         /\ out.ok => Go(r, "st_connect", q)
         /\ UNCHANGED <<mutexes, bus, pad, pipeline_map, producers, issued>>
  BY DEF PlayPipeline
<1>2. /\ q.g \in Gstreamers /\ i \in Instance /\ Works(i, q) /\ Sound(i) /\ GstOK
      /\ gst = [h \in Gstreamers |-> gst[h]]
      /\ "st_connect" \in Steps
  BY <1>1, StartFacts DEF Binding
<1>3. /\ out.ok /\ out.to.bound = i.elements /\ out.to.state = "Playing"
      /\ out.to.m = i.m /\ out.to.shared = i.shared /\ out.to.errors = i.errors
      /\ out.to.udp_src = i.udp_src /\ out.to.elements = i.elements
      /\ out.to.sessions = i.sessions /\ out.to.branches = i.branches
  BY <1>2, Opens DEF Orderly, OneByOne
<1>4. gst'[q.g] = out.to /\ \A h \in Gstreamers \ {q.g} : gst'[h] = gst[h]
  BY <1>1, <1>2
<1>5. Proceeds(r, "st_connect")
  BY <1>1, <1>2, <1>3, GoProceeds
<1>6. Works(out.to, n)
  BY <1>1, <1>2, <1>3, <1>5 DEF Works, Proceeds, Bringing, Binding
<1>7. Ported' /\ SessionInv'
  BY <1>3, <1>4, ElementsStay, SessionsStay
<1>8. Probed'
  BY <1>1, <1>3, <1>4, <1>5, ProbedStays DEF Proceeds, Bringing, Binding
<1>9. Grouped(out.to.shared)
  BY <1>2, <1>3 DEF Orderly, GroupInv
<1> QED
  BY <1>1, <1>2, <1>3, <1>4, <1>5, <1>6, <1>7, <1>8, <1>9, StartKeeps
     DEF Proceeds, Bringing, Binding

\* The elements of a start are added, all of them, next to those of other ports.
LEMMA OrderlyAddElements ==
  ASSUME Typed, Orderly, OneByOne, NEW r \in Requests, AddElements(r)
  PROVE  Orderly'
<1> DEFINE q == request[r]
           n == request'[r]
           i == gst[q.g]
           j == Added(i, q, Len(Groups))
<1>1. q.pc = "st_add" /\ UNCHANGED <<mutexes, bus, pad, pipeline_map, producers, issued>>
  BY DEF AddElements
<1>2. /\ q.g \in Gstreamers /\ i \in Instance /\ Works(i, q) /\ RequestOK
      /\ gst = [h \in Gstreamers |-> gst[h]] /\ \A fault : ~Failing(fault, r)
      /\ "st_link" \in Steps
  BY <1>1, StartFacts DEF Bringing
<1>3. Grouped(q.fresh)
  BY <1>1 DEF Orderly, GroupInv
<1>4. \A k \in 0 .. Len(Groups) - 1 : ~Torn(q.fresh, Groups[k + 1])
  <2>1. Len(Groups) = 4
    BY DEF Groups
  <2>2. \A k \in 0 .. Len(Groups) - 1 : k + 1 \in 1 .. Len(Groups)
    BY <2>1
  <2> QED
    BY <1>3, <2>2 DEF Grouped
<1>5. gst' = [gst EXCEPT ![q.g] = j] /\ Go(r, "st_link", q)
  BY <1>2, <1>4 DEF AddElements, OneByOne
<1>6. /\ j.elements = i.elements \cup Own(q) /\ j.bound = i.bound /\ j.udp_src = i.udp_src
      /\ j.m = i.m /\ j.errors = i.errors /\ j.shared = i.shared
      /\ j.sessions = i.sessions /\ j.branches = i.branches
  BY <1>2 DEF Added, Own, Instance
<1> HIDE DEF j
<1>7. gst'[q.g] = j /\ \A h \in Gstreamers \ {q.g} : gst'[h] = gst[h]
  BY <1>2, <1>5
<1>8. Proceeds(r, "st_link")
  BY <1>2, <1>5, GoProceeds
<1>9. Own(n) = Own(q) /\ SourceElement(n, "rtp") = SourceElement(q, "rtp")
  BY <1>8, OwnSame DEF Proceeds
<1>10. Works(j, n)
  <2>1. i.udp_src = i.elements \cup Own(q) /\ i.bound = i.elements
    BY <1>1, <1>2 DEF Works, Bringing, Binding
  <2> QED
    BY <1>6, <1>8, <1>9, <2>1 DEF Works, Proceeds, Bringing, Binding
<1>11. \A h \in Gstreamers : \A x \in gst[h].elements : x.port # q.port
  BY <1>1 DEF Orderly, Probed, Bringing
<1>12. /\ \A x \in Own(q) : x.port = q.port /\ OfOne(x, SourceElement(q, "rtp"))
       /\ SourceElement(q, "rtp") \in Own(q) /\ SourceElement(q, "rtp").part = "rtp"
  BY OwnElements
<1>13. \A h \in Gstreamers : \A x \in gst'[h].elements :
          x \in gst[h].elements \/ (h = q.g /\ x \in Own(q))
  BY <1>6, <1>7
<1>14. Ported'
  <2>1. ASSUME NEW g \in Gstreamers, NEW h \in Gstreamers,
               NEW x \in gst'[g].elements, NEW y \in gst'[h].elements, x.port = y.port
        PROVE  OfOne(x, y)
    <3>1. CASE x \in gst[g].elements /\ y \in gst[h].elements
      BY <2>1, <3>1 DEF Orderly, Ported
    <3>2. CASE x \in Own(q) /\ y \in Own(q)
      BY <1>12, <3>2 DEF OfOne
    <3> QED
      BY <1>11, <1>12, <1>13, <2>1, <3>1, <3>2
  <2>2. ASSUME NEW g \in Gstreamers, NEW x \in gst'[g].elements
        PROVE  \E y \in gst'[g].elements : y.port = x.port /\ y.part = "rtp"
    <3>1. CASE x \in gst[g].elements
      <4>1. PICK y \in gst[g].elements : y.port = x.port /\ y.part = "rtp"
        BY <3>1 DEF Orderly, Ported
      <4>2. y \in gst'[g].elements
        BY <1>6, <1>7
      <4> QED
        BY <4>1, <4>2
    <3>2. CASE g = q.g /\ x \in Own(q)
      BY <1>6, <1>7, <1>12, <3>2
    <3> QED
      BY <1>13, <3>1, <3>2
  <2> QED
    BY <2>1, <2>2 DEF Ported
<1>15. Probed'
  <2>1. \A o \in Requests : o = r
    BY DEF OneByOne
  <2>2. n.pc = "st_link" /\ n.port = q.port
    BY <1>8 DEF Proceeds
  <2>3. \A h \in Gstreamers : \A x \in gst'[h].elements :
            x.port = q.port => OfOne(x, SourceElement(q, "rtp"))
    BY <1>11, <1>12, <1>13
  <2> QED
    BY <1>9, <2>1, <2>2, <2>3 DEF Probed, Bringing
<1>16. SessionInv'
  BY <1>6, <1>7, SessionsStay
<1>17. Grouped(j.shared)
  BY <1>2, <1>6 DEF Orderly, GroupInv
<1>18. \A x \in i.sessions : ~Mine(x, q)
  BY <1>1 DEF Orderly, SourceInv, Bringing
<1> QED
  BY <1>1, <1>2, <1>6, <1>7, <1>8, <1>10, <1>14, <1>15, <1>16, <1>17, <1>18, StartKeeps
     DEF Proceeds, Bringing, Binding

\* The session of a start is the first of its participant and media.
LEMMA OrderlyInsertSession ==
  ASSUME Typed, Orderly, OneByOne, NEW r \in Requests, InsertSession(r)
  PROVE  Orderly'
<1> DEFINE q == request[r]
           n == request'[r]
           i == gst[q.g]
           x == SourceElement(q, "rtp")
           j == [i EXCEPT !.sessions = @ \cup {x}]
<1>1. q.pc = "st_meta" /\ UNCHANGED <<mutexes, bus, pad, pipeline_map, producers, issued>>
  BY DEF InsertSession
<1>2. /\ q.g \in Gstreamers /\ i \in Instance /\ Works(i, q) /\ RequestOK
      /\ gst = [h \in Gstreamers |-> gst[h]] /\ \A fault : ~Failing(fault, r)
      /\ "st_clone" \in Steps
  BY <1>1, StartFacts DEF Binding
<1>3. gst' = [gst EXCEPT ![q.g] = j] /\ Go(r, "st_clone", q)
  BY <1>2 DEF InsertSession
<1>4. x.part = "rtp" /\ Mine(x, q)
  BY DEF SourceElement, Mine
<1>5. /\ j.sessions = i.sessions \cup {x} /\ j.elements = i.elements /\ j.bound = i.bound
      /\ j.udp_src = i.udp_src /\ j.m = i.m /\ j.errors = i.errors /\ j.shared = i.shared
      /\ j.branches = i.branches
  BY <1>2 DEF Instance
<1> HIDE DEF j, x
<1>6. gst'[q.g] = j /\ \A h \in Gstreamers \ {q.g} : gst'[h] = gst[h]
  BY <1>2, <1>3
<1>7. Proceeds(r, "st_clone")
  BY <1>2, <1>3, GoProceeds
<1>8. Works(j, n)
  <2>1. Own(n) = Own(q)
    BY <1>7, OwnSame DEF Proceeds
  <2> QED
    BY <1>1, <1>2, <1>5, <1>7, <2>1 DEF Works, Proceeds, Bringing, Binding
<1>9. Ported'
  BY <1>5, <1>6, ElementsStay
<1>10. Probed'
  BY <1>1, <1>5, <1>6, <1>7, ProbedStays DEF Proceeds, Bringing, Binding
<1>11. SessionInv'
  <2>1. \A y \in i.sessions : ~Mine(y, q)
    BY <1>1 DEF Orderly, SourceInv
  <2>2. /\ \A y, z \in i.sessions : y.part = "rtp" /\ (y.p = z.p /\ y.media = z.media => y = z)
        /\ \A y \in i.branches : y.part = "rtp" => y \in i.sessions
    BY <1>2 DEF Orderly, SessionInv
  <2>3. /\ \A y, z \in j.sessions : y.part = "rtp" /\ (y.p = z.p /\ y.media = z.media => y = z)
        /\ \A y \in j.branches : y.part = "rtp" => y \in j.sessions
    BY <1>4, <1>5, <2>1, <2>2 DEF Mine
  <2> QED
    BY <1>6, <2>3 DEF Orderly, SessionInv
<1>12. Grouped(j.shared)
  BY <1>2, <1>5 DEF Orderly, GroupInv
<1> QED
  BY <1>1, <1>2, <1>4, <1>5, <1>6, <1>7, <1>8, <1>9, <1>10, <1>11, <1>12, StartKeeps
     DEF Proceeds, Bringing, Binding

\* The sources of the participant leave the maps before the pipeline is paused, and
\* their sockets are closed.
LEMMA OrderlyClosePauses ==
  ASSUME Typed, KnownInv, Orderly, OneByOne, NEW r \in Requests, ClosePauses(r)
  PROVE  Orderly'
<1> DEFINE q == request[r]
           n == request'[r]
           g == q.g
           i == gst[g]
           closed == {x \in i.udp_src : x.p = q.p}
           d == TakeCleared(q, i)
<1>1. PICK out \in SetState(g, Cleared(i, q.p), "Paused") :
        /\ q.pc = "cl_pause"
        /\ out.ok => /\ gst' = [gst EXCEPT ![g] = [out.to EXCEPT !.bound = @ \ d.closed]]
                     /\ Go(r, "cl_remove", d) /\ UNCHANGED mutexes
        /\ UNCHANGED <<bus, pad, pipeline_map, producers, issued>>
  <2>1. Faults = {}
    BY DEF OneByOne
  <2>2. q.pc = "cl_pause" /\ UNCHANGED <<bus, pad, pipeline_map, producers, issued>>
    BY DEF ClosePauses
  <2>3. PICK out \in SetState(g, Cleared(i, q.p), "Paused") :
          \/ /\ out.ok
             /\ gst' = [gst EXCEPT ![g] = [out.to EXCEPT !.bound = @ \ d.closed]]
             /\ Go(r, "cl_remove", d)
             /\ UNCHANGED mutexes
          \/ ~out.ok
    BY <2>1, Zenon DEF ClosePauses
  <2> QED
    BY <2>2, <2>3
<1>2. /\ g \in Gstreamers /\ Sound(i) /\ GstOK /\ RequestOK /\ i \in Instance /\ q \in Call
      /\ gst = [h \in Gstreamers |-> gst[h]] /\ "cl_remove" \in Steps
  BY <1>1 DEF Typed, RequestOK, CallOK, CloseSteps, GstOK, Sound, Steps
<1>3. i.bound = i.elements /\ i.udp_src = i.elements
  BY <1>1, <1>2 DEF Orderly, SocketInv, Works, Bringing, Binding
<1>4. PICK c : c = Cleared(i, q.p)
  OBVIOUS
<1>5. /\ Sound(c) /\ c.elements = i.elements /\ c.udp_src = {x \in i.udp_src : x.p # q.p}
      /\ c.sessions = {x \in i.sessions : x.p # q.p}
      /\ c.branches = {x \in i.branches : x.p # q.p \/ (x.media = "video" /\ x.part = "rtcp")}
      /\ c.m = i.m /\ c.shared = i.shared /\ c.errors = i.errors
  <2>1. Sound(c)
    BY <1>2, <1>4, ClearedSound
  <2> DEFINE udp == {x \in i.udp_src : x.p # q.p}
             bound == i.bound \ {x \in i.udp_src : x.p = q.p}
             branches == {x \in i.branches : x.p # q.p \/ (x.media = "video" /\ x.part = "rtcp")}
             sessions == {x \in i.sessions : x.p # q.p}
  <2>2. c = [i EXCEPT !.udp_src = udp, !.bound = bound, !.branches = branches, !.sessions = sessions]
    BY <1>4 DEF Cleared
  <2> HIDE DEF udp, bound, branches, sessions
  <2>3. /\ c.elements = i.elements /\ c.udp_src = udp /\ c.sessions = sessions
        /\ c.branches = branches /\ c.m = i.m /\ c.shared = i.shared /\ c.errors = i.errors
    BY <1>2, <2>2 DEF Instance
  <2> QED
    BY <2>1, <2>3 DEF udp, branches, sessions
<1>6. /\ out.ok /\ out.to.bound = i.elements /\ Sound(out.to)
      /\ out.to.m = c.m /\ out.to.shared = c.shared /\ out.to.errors = c.errors
      /\ out.to.udp_src = c.udp_src /\ out.to.elements = c.elements
      /\ out.to.sessions = c.sessions /\ out.to.branches = c.branches
  <2>1. Ported /\ Faults = {}
    BY DEF Orderly, OneByOne
  <2>2. out \in SetState(g, c, "Paused") /\ c.elements \subseteq gst[g].elements
    BY <1>4, <1>5
  <2>3. g \in Gstreamers /\ GstOK /\ Sound(c)
    BY <1>2, <1>5
  <2> HIDE DEF g
  <2>4. /\ out.ok /\ out.to.bound = c.elements /\ Sound(out.to)
        /\ out.to.m = c.m /\ out.to.shared = c.shared /\ out.to.errors = c.errors
        /\ out.to.udp_src = c.udp_src /\ out.to.elements = c.elements
        /\ out.to.sessions = c.sessions /\ out.to.branches = c.branches
    BY <2>1, <2>2, <2>3, Opens
  <2> QED
    BY <1>5, <2>4
<1>7. PICK j : j = [out.to EXCEPT !.bound = @ \ closed]
  OBVIOUS
<1>8. /\ j.m = i.m /\ j.shared = i.shared /\ j.errors = i.errors /\ j.elements = i.elements
      /\ j.udp_src = c.udp_src /\ j.sessions = c.sessions /\ j.branches = c.branches
      /\ j.bound = i.elements \ closed
  BY <1>5, <1>6, <1>7 DEF Sound, Instance
<1>9. gst'[g] = j /\ \A h \in Gstreamers \ {g} : gst'[h] = gst[h]
  <2>1. d.closed = closed
    BY <1>2, TakeClearedTyped
  <2> HIDE DEF d, closed
  <2> QED
    BY <1>1, <1>2, <1>6, <1>7, <2>1
<1>10. /\ Go(r, "cl_remove", d) /\ d \in Call /\ d.closed = closed
       /\ d.m = q.m /\ d.p = q.p /\ d.g = q.g
  BY <1>1, <1>2, <1>6, TakeClearedTyped DEF SameCall
<1> HIDE DEF d
<1>11. n.pc = "cl_remove" /\ n.m = q.m /\ n.p = q.p /\ n.g = g /\ n.closed = closed
  BY <1>2, <1>10, GoFields
<1>12. /\ \A o \in Requests : o = r
       /\ inner_mutex' = inner_mutex /\ pipeline_mutex' = pipeline_mutex
       /\ bus' = bus /\ pad' = pad /\ pipeline_map' = pipeline_map /\ producers' = producers
  BY <1>1, <1>6 DEF OneByOne, mutexes
<1>13. Unharmed'
  <2>1. \A h \in Gstreamers : gst'[h].errors = gst[h].errors
    BY <1>8, <1>9
  <2> QED
    BY <1>1, <1>11, <1>12, <2>1 DEF Orderly, Unharmed, FailSteps
<1>14. SocketInv'
  <2>1. Works(j, n)
    BY <1>3, <1>5, <1>8, <1>11 DEF Works, Bringing, Binding
  <2>2. \A h \in Gstreamers \ {g} : Rests(gst[h])
    BY DEF Orderly, SocketInv
  <2>3. \A h \in Gstreamers \ {g} : Rests(gst'[h])
    BY <1>9, <2>2
  <2> QED
    BY <1>9, <1>11, <1>12, <2>1, <2>3 DEF SocketInv
<1>15. Ported'
  BY <1>8, <1>9, ElementsStay
<1>16. Probed'
  BY <1>11, <1>12 DEF Probed, Bringing, Binding
<1>17. GroupInv'
  BY <1>8, <1>9, <1>11, <1>12 DEF Orderly, GroupInv
<1>18. SessionInv'
  BY <1>2, <1>5, <1>8, <1>9 DEF Orderly, SessionInv
<1>19. ASSUME NEW h \in Gstreamers, NEW x \in gst'[h].udp_src \cup gst'[h].sessions
       PROVE  Accounted(h, x)' /\ Entered(h)'
  <2>1. x \in gst[h].udp_src \cup gst[h].sessions /\ (h = g => x.p # q.p)
    BY <1>5, <1>8, <1>9
  <2>2. Accounted(h, x) /\ Entered(h) /\ gst'[h].m = gst[h].m
    BY <1>8, <1>9, <2>1 DEF Orderly, SourceInv
  <2>3. gst[h].m \in Meetings /\ pipeline_map[gst[h].m] = h
    BY <1>1, <1>12, <2>2 DEF Entered, Bringing, Binding
  <2>4. pipeline_map[q.m] = g
    BY <1>1 DEF KnownInv, CloseSteps
  <2>5. ~(q.m = gst[h].m /\ q.p = x.p)
    BY <2>1, <2>3, <2>4
  <2>6. \E z \in producers : z.m = gst[h].m /\ z.p = x.p /\ Media(z.kind) = x.media
    BY <1>1, <1>12, <2>2, <2>5 DEF Accounted, Bringing, Binding
  <2> QED
    BY <1>12, <2>2, <2>3, <2>6 DEF Accounted, Entered
<1>20. SourceInv'
  BY <1>11, <1>12, <1>19 DEF SourceInv, Bringing
<1>21. Resumed'
  <2>1. ASSUME NEW h \in Gstreamers \ {g}
        PROVE  gst'[h].state = "Paused" /\ (\E x \in gst'[h].udp_src : x.part = "rtp") =>
                   pad'[h].pc \in {"pad_inner", "pad_insert"}
    BY <1>9, <1>12 DEF Orderly, Resumed
  <2> QED
    BY <1>11, <2>1 DEF Resumed
<1> QED
  BY <1>13, <1>14, <1>15, <1>16, <1>17, <1>18, <1>20, <1>21 DEF Orderly

\* At the end of the removals every element of the participant had its turn.
LEMMA AllHaveTurns ==
  ASSUME NEW q, q.closed \subseteq Element
  PROVE  /\ AllRemoved > 2
         /\ Before(RemoveOrder, AllRemoved, q) = q.closed
         /\ \A n : Before(RemoveOrder, n, q) \subseteq q.closed
<1>1. AllRemoved = 7
  BY DEF AllRemoved, RemoveOrder
<1>2. ASSUME NEW x \in q.closed
      PROVE  \E k \in 1 .. 7 - 1 : RemoveOrder[k] = <<x.media, x.part>>
  <2>1. x.media \in {"audio", "video"} /\ x.part \in {"rtp", "rtcp"}
    BY DEF Element, Parts
  <2>2. /\ RemoveOrder[1] = <<"audio", "rtp">> /\ RemoveOrder[2] = <<"audio", "rtcp">>
        /\ RemoveOrder[4] = <<"video", "rtp">> /\ RemoveOrder[5] = <<"video", "rtcp">>
    BY DEF RemoveOrder
  <2>3. 1 \in 1 .. 7 - 1 /\ 2 \in 1 .. 7 - 1 /\ 4 \in 1 .. 7 - 1 /\ 5 \in 1 .. 7 - 1
    OBVIOUS
  <2> HIDE DEF RemoveOrder
  <2> QED
    BY <2>1, <2>2, <2>3
<1> QED
  BY <1>1, <1>2 DEF Before

\* The udpsrc elements leave the pipeline, which plays again if sources are left.
LEMMA OrderlyCloseRemoves ==
  ASSUME Typed, Orderly, OneByOne, NEW r \in Requests, CloseRemoves(r)
  PROVE  Orderly'
<1> DEFINE q == request[r]
           g == q.g
           i == gst[g]
           rest == Without(i, AllRemoved, q)
<1>1. /\ q.pc = "cl_remove" /\ Unlock(g, r) /\ Done(r)
      /\ UNCHANGED <<bus, pad, pipeline_map, producers, issued>>
  BY DEF CloseRemoves
<1>2. /\ g \in Gstreamers /\ Sound(i) /\ GstOK /\ RequestOK /\ i \in Instance
      /\ gst = [h \in Gstreamers |-> gst[h]]
  BY <1>1 DEF Typed, RequestOK, CallOK, CloseSteps, GstOK, Sound
<1>3. /\ i.bound = i.elements \ q.closed /\ i.udp_src = i.bound
      /\ q.closed = {x \in i.elements : x.p = q.p}
  BY <1>1, <1>2 DEF Orderly, SocketInv, Works
<1>4. \/ (\A x \in i.udp_src : x.part # "rtp") /\ gst' = [gst EXCEPT ![g] = rest]
      \/ \E out \in SetState(g, rest, "Playing") : gst' = [gst EXCEPT ![g] = out.to]
  <2>1. Faults = {} /\ q.closed \subseteq Element /\ q.closed \subseteq i.elements
    BY <1>2, <1>3 DEF OneByOne, Instance
  <2>2. \A n : Removes(i, n, q)
    BY <2>1, AllHaveTurns DEF Removes
  <2> QED
    BY <2>1, <2>2, Zenon DEF CloseRemoves
<1>5. PICK w : w = rest
  OBVIOUS
<1>6. /\ Sound(w) /\ w.elements = i.elements \ q.closed /\ w.bound = i.bound
      /\ w.udp_src = i.udp_src /\ w.sessions = i.sessions /\ w.branches = i.branches
      /\ w.m = i.m /\ w.shared = i.shared /\ w.errors = i.errors /\ w.state = i.state
  <2>1. Sound(w) /\ Alike(i, w)
    BY <1>2, <1>5, RemovedSound
  <2>2. q.closed \subseteq Element
    BY <1>2, <1>3 DEF Instance
  <2>3. w = [i EXCEPT !.elements = @ \ q.closed, !.bound = @ \ q.closed,
                      !.linked = @ \ q.pads, !.fed = @ \ q.pads]
    BY <1>5, <2>2, AllHaveTurns DEF Without
  <2>4. /\ w.elements = i.elements \ q.closed /\ w.bound = i.bound \ q.closed
        /\ w.udp_src = i.udp_src /\ w.sessions = i.sessions /\ w.branches = i.branches
    BY <1>2, <2>3 DEF Instance
  <2> QED
    BY <1>3, <2>1, <2>4 DEF Alike
<1> HIDE DEF rest
<1> DEFINE Resumes(j) ==
                   /\ gst'[g] = j /\ \A h \in Gstreamers \ {g} : gst'[h] = gst[h]
                   /\ j.state = "Playing" \/ \A x \in i.udp_src : x.part # "rtp"
                   /\ j.elements = i.elements \ q.closed /\ j.bound = j.elements
                   /\ j.udp_src = i.udp_src /\ j.sessions = i.sessions
                   /\ j.branches = i.branches
                   /\ j.m = i.m /\ j.shared = i.shared /\ j.errors = i.errors
<1>7. PICK j : Resumes(j)
  <2>1. CASE (\A x \in i.udp_src : x.part # "rtp") /\ gst' = [gst EXCEPT ![g] = rest]
    <3>1. gst'[g] = w /\ \A h \in Gstreamers \ {g} : gst'[h] = gst[h]
      BY <1>2, <1>5, <2>1
    <3> QED
      BY <1>3, <1>6, <2>1, <3>1
  <2>2. ASSUME NEW out \in SetState(g, rest, "Playing"),
               gst' = [gst EXCEPT ![g] = out.to]
        PROVE  Resumes(out.to)
    <3>1. gst'[g] = out.to /\ \A h \in Gstreamers \ {g} : gst'[h] = gst[h]
      BY <1>2, <2>2
    <3>2. out \in SetState(g, w, "Playing") /\ w.elements \subseteq gst[g].elements
      BY <1>5, <1>6, <2>2
    <3>3. /\ out.to.state = "Playing" /\ out.to.bound = w.elements
          /\ out.to.m = w.m /\ out.to.shared = w.shared /\ out.to.errors = w.errors
          /\ out.to.udp_src = w.udp_src /\ out.to.elements = w.elements
          /\ out.to.sessions = w.sessions /\ out.to.branches = w.branches
      <4>1. Ported /\ Faults = {} /\ g \in Gstreamers /\ GstOK /\ Sound(w)
        BY <1>2, <1>6 DEF Orderly, OneByOne
      <4> HIDE DEF g
      <4> QED
        BY <3>2, <4>1, Opens
    <3> QED
      BY <1>6, <3>1, <3>3
  <2>3. CASE \E out \in SetState(g, rest, "Playing") : gst' = [gst EXCEPT ![g] = out.to]
    <3>1. PICK out \in SetState(g, rest, "Playing") : gst' = [gst EXCEPT ![g] = out.to]
      BY <2>3
    <3>2. Resumes(out.to)
      BY <2>2, <3>1
    <3> HIDE DEF Resumes
    <3> QED
      BY <3>2
  <2> QED
    BY <1>4, <2>1, <2>3
<1>8. /\ \A o \in Requests : o = r
      /\ request'[r] = NoRequest
      /\ bus' = bus /\ pad' = pad /\ pipeline_map' = pipeline_map /\ producers' = producers
  BY <1>1, <1>2 DEF OneByOne, Done, RequestOK
<1>9. NoRequest.pc = "idle" /\ NoRequest.g = None /\ NoRequest.g \notin Gstreamers
  BY GstreamerAssumption DEF NoRequest
<1>10. /\ \A h \in Gstreamers : inner_mutex'[h] \in {inner_mutex[h], None}
       /\ \A h \in Gstreamers \ {g} : pipeline_mutex'[h] = pipeline_mutex[h]
       /\ pipeline_mutex'[g] = None /\ pipeline_mutex[g] = r
  <2>1. pipeline_mutex[g] = r
    BY <1>1 DEF Orderly, Unharmed
  <2> QED
    BY <1>1, <1>2, <2>1 DEF Unlock, Release, Typed, OthersOK
<1>11. Unharmed'
  <2>1. \A h \in Gstreamers : gst'[h].errors = gst[h].errors
    BY <1>7
  <2>2. None # "pad" /\ None # "poisoned" /\ r # "pad"
    BY GstreamerAssumption
  <2>3. \A h \in Gstreamers :
          /\ inner_mutex'[h] # "poisoned" /\ pipeline_mutex'[h] # "poisoned"
          /\ pipeline_mutex'[h] = "pad" <=> pad[h].pc \in {"pad_inner", "pad_insert"}
    BY <1>10, <2>2 DEF Orderly, Unharmed
  <2> QED
    BY <1>8, <1>9, <2>1, <2>3 DEF Orderly, Unharmed, FailSteps
<1>12. SocketInv'
  <2>1. Rests(j)
    BY <1>3, <1>7 DEF Rests
  <2>2. \A h \in Gstreamers \ {g} : Rests(gst[h])
    BY DEF Orderly, SocketInv
  <2>3. \A h \in Gstreamers : Rests(gst'[h])
    BY <1>7, <2>1, <2>2
  <2> QED
    BY <1>8, <1>9, <2>3 DEF SocketInv
<1>13. Ported'
  <2>1. \A h \in Gstreamers : gst'[h].elements \subseteq gst[h].elements
    BY <1>7
  <2>2. ASSUME NEW h \in Gstreamers, NEW x \in gst'[h].elements
        PROVE  \E y \in gst'[h].elements : y.port = x.port /\ y.part = "rtp"
    <3>1. PICK y \in gst[h].elements : y.port = x.port /\ y.part = "rtp"
      BY <2>1 DEF Orderly, Ported
    <3>2. OfOne(x, y)
      BY <2>1, <3>1 DEF Orderly, Ported
    <3>3. y \in gst'[h].elements
      BY <1>3, <1>7, <3>2 DEF OfOne
    <3> QED
      BY <3>1, <3>3
  <2> QED
    BY <2>1, <2>2 DEF Orderly, Ported
<1>14. Probed'
  BY <1>8, <1>9 DEF Probed, Bringing, Binding
<1>15. GroupInv'
  BY <1>7, <1>8, <1>9 DEF Orderly, GroupInv
<1>16. SessionInv'
  BY <1>7, SessionsStay
<1>17. SourceInv'
  <2>1. ASSUME NEW h \in Gstreamers, NEW x \in gst'[h].udp_src \cup gst'[h].sessions
        PROVE  Accounted(h, x)' /\ Entered(h)'
    <3>1. Accounted(h, x) /\ Entered(h) /\ gst'[h].m = gst[h].m
      BY <1>7 DEF Orderly, SourceInv
    <3>2. gst[h].m \in Meetings /\ pipeline_map[gst[h].m] = h
      BY <1>1, <1>8, <3>1 DEF Entered, Bringing, Binding
    <3>3. \E z \in producers : z.m = gst[h].m /\ z.p = x.p /\ Media(z.kind) = x.media
      BY <1>1, <1>8, <3>1 DEF Accounted, Bringing, Binding
    <3> QED
      BY <1>8, <3>1, <3>2, <3>3 DEF Accounted, Entered
  <2> QED
    BY <1>8, <1>9, <2>1 DEF SourceInv, Bringing
<1>18. Resumed'
  <2>1. ASSUME NEW h \in Gstreamers \ {g}
        PROVE  gst'[h].state = "Paused" /\ (\E x \in gst'[h].udp_src : x.part = "rtp") =>
                   pad'[h].pc \in {"pad_inner", "pad_insert"}
    BY <1>7, <1>8 DEF Orderly, Resumed
  <2> QED
    BY <1>7, <2>1 DEF Resumed
<1> QED
  BY <1>11, <1>12, <1>13, <1>14, <1>15, <1>16, <1>17, <1>18 DEF Orderly

\* The callback changes the state, the sockets and the branches of its pipeline.
LEMMA PadKeeps ==
  ASSUME Typed, Orderly, OneByOne, NEW g \in Gstreamers,
         \A h \in Gstreamers \ {g} : gst'[h] = gst[h] /\ pad'[h] = pad[h],
         gst'[g].m = gst[g].m, gst'[g].shared = gst[g].shared,
         gst'[g].udp_src = gst[g].udp_src, gst'[g].elements = gst[g].elements,
         gst'[g].sessions = gst[g].sessions,
         \/ gst'[g].bound = gst[g].bound
         \/ /\ gst'[g].bound = gst[g].elements
            /\ \A r \in Requests : ~(request[r].g = g /\ request[r].pc = "cl_remove"),
         UNCHANGED <<pipeline_map, producers, request>>,
         gst'[g].state = "Playing" \/ pad'[g].pc \in {"pad_inner", "pad_insert"},
         Unharmed', SessionInv'
  PROVE  Orderly'
<1>1. /\ pipeline_map' = pipeline_map /\ producers' = producers /\ request' = request
      /\ \A h \in Gstreamers :
            /\ gst'[h].m = gst[h].m /\ gst'[h].shared = gst[h].shared
            /\ gst'[h].udp_src = gst[h].udp_src /\ gst'[h].elements = gst[h].elements
            /\ gst'[h].sessions = gst[h].sessions
  OBVIOUS
<1>2. SocketInv'
  <2>1. ASSUME NEW r \in Requests
        PROVE  IF request[r].g = g THEN Works(gst'[g], request[r]) ELSE Rests(gst'[g])
    <3>1. CASE request[r].g = g
      <4>1. Works(gst[g], request[r])
        BY <3>1 DEF Orderly, SocketInv
      <4> QED
        BY <3>1, <4>1 DEF Works
    <3>2. CASE request[r].g # g
      <4>1. Rests(gst[g])
        BY <3>2 DEF Orderly, SocketInv
      <4> QED
        BY <3>2, <4>1 DEF Rests
    <3> QED
      BY <3>1, <3>2
  <2>2. ASSUME NEW r \in Requests, NEW h \in Gstreamers \ {g}
        PROVE  IF request[r].g = h THEN Works(gst'[h], request[r]) ELSE Rests(gst'[h])
    BY DEF Orderly, SocketInv
  <2> QED
    BY <1>1, <2>1, <2>2 DEF SocketInv
<1>3. Ported'
  BY <1>1, ElementsStay
<1>4. Probed'
  BY <1>1 DEF Orderly, Probed
<1>5. GroupInv'
  BY <1>1 DEF Orderly, GroupInv
<1>6. SourceInv'
  <2>1. ASSUME NEW h \in Gstreamers, NEW x \in gst'[h].udp_src \cup gst'[h].sessions
        PROVE  Accounted(h, x)' /\ Entered(h)'
    <3>1. Accounted(h, x) /\ Entered(h)
      BY <1>1 DEF Orderly, SourceInv
    <3>2. Accounted(h, x)'
      BY <1>1, <3>1 DEF Accounted
    <3> QED
      BY <1>1, <3>1, <3>2 DEF Entered
  <2>2. ASSUME NEW r \in Requests,
               request[r].pc \in {"st_port", "st_rtp", "st_link", "st_meta"} \cup Bringing
        PROVE  /\ gst'[request[r].g].elements = gst[request[r].g].elements
               /\ gst'[request[r].g].sessions = gst[request[r].g].sessions
    <3>1. request[r].g \in Gstreamers
      BY <2>2 DEF Typed, RequestOK, CallOK, Started, StartSteps, Bringing
    <3> QED
      BY <1>1, <3>1
  <2>3. \A r \in Requests : request[r].pc \in {"st_port", "st_rtp"} \cup Bringing =>
          \A x \in gst'[request[r].g].elements : ~Mine(x, request[r])
    BY <2>2 DEF Orderly, SourceInv
  <2>4. \A r \in Requests :
          request[r].pc \in {"st_port", "st_rtp", "st_link", "st_meta"} \cup Bringing =>
              \A x \in gst'[request[r].g].sessions : ~Mine(x, request[r])
    BY <2>2 DEF Orderly, SourceInv
  <2>5. \A r \in Requests : request[r].pc \in {"st_lookup", "st_port", "st_rtp"} =>
          \A z \in producers : ~(z.m = request[r].m /\ z.p = request[r].p /\ z.kind = request[r].kind)
    BY DEF Orderly, SourceInv
  <2> QED
    BY <1>1, <2>1, <2>3, <2>4, <2>5 DEF SourceInv
<1>7. Resumed'
  <2>1. ASSUME NEW h \in Gstreamers \ {g}
        PROVE  gst'[h].state = "Paused" /\ (\E x \in gst'[h].udp_src : x.part = "rtp") =>
            \/ pad'[h].pc \in {"pad_inner", "pad_insert"}
            \/ \E r \in Requests :
                  request[r].g = h /\ request[r].pc \in Bringing \cup Binding \cup {"cl_remove"}
    BY DEF Orderly, Resumed
  <2> QED
    BY <1>1, <2>1 DEF Resumed
<1> QED
  BY <1>2, <1>3, <1>4, <1>5, <1>6, <1>7 DEF Orderly

\* The callback begins on a pipeline that plays.
LEMMA OrderlyPadAdded ==
  ASSUME Typed, Orderly, OneByOne, NEW g \in Gstreamers, PadAdded(g)
  PROVE  Orderly'
<1>1. PICK src, part :
        /\ pad[g] = NoPad /\ gst[g].state = "Playing"
        /\ pad' = [pad EXCEPT ![g] = [pc |-> "pad_pipeline", src |-> src, part |-> part]]
        /\ UNCHANGED <<gst, mutexes, bus, pipeline_map, producers, request, issued>>
  BY DEF PadAdded
<1>2. /\ pad'[g].pc = "pad_pipeline" /\ pad[g].pc = "idle"
      /\ \A h \in Gstreamers \ {g} : pad'[h] = pad[h]
  BY <1>1 DEF Typed, OthersOK, NoPad
<1>3. /\ gst' = gst /\ inner_mutex' = inner_mutex /\ pipeline_mutex' = pipeline_mutex /\ bus' = bus
      /\ pipeline_map' = pipeline_map /\ producers' = producers /\ request' = request
  BY <1>1 DEF mutexes
<1>4. Unharmed'
  BY <1>2, <1>3 DEF Orderly, Unharmed
<1>5. SessionInv'
  BY <1>3, SessionsStay
<1> QED
  BY <1>1, <1>2, <1>3, <1>4, <1>5, PadKeeps

\* It pauses the pipeline, whose sockets are bound or can be, ...
LEMMA OrderlyPadLocksPipeline ==
  ASSUME Typed, Orderly, OneByOne, NEW g \in Gstreamers, PadLocksPipeline(g)
  PROVE  Orderly'
<1>1. PICK out \in SetState(g, gst[g], "Paused") :
        /\ pad[g].pc = "pad_pipeline" /\ pipeline_mutex[g] = None
        /\ pipeline_mutex' = [pipeline_mutex EXCEPT ![g] = "pad"]
        /\ pad' = [pad EXCEPT ![g].pc = "pad_inner"]
        /\ out.ok => gst' = [gst EXCEPT ![g] = out.to]
        /\ UNCHANGED <<inner_mutex, bus, pipeline_map, producers, request, issued>>
  BY DEF PadLocksPipeline, PadSetsState
<1>2. GstOK /\ Sound(gst[g]) /\ Ported /\ Faults = {}
  BY DEF Typed, GstOK, Orderly, OneByOne
<1>3. /\ out.ok /\ out.to.bound = gst[g].elements /\ out.to.m = gst[g].m
      /\ out.to.shared = gst[g].shared /\ out.to.errors = gst[g].errors
      /\ out.to.udp_src = gst[g].udp_src /\ out.to.elements = gst[g].elements
      /\ out.to.sessions = gst[g].sessions /\ out.to.branches = gst[g].branches
  BY <1>2, Opens
<1>4. gst'[g] = out.to /\ \A h \in Gstreamers \ {g} : gst'[h] = gst[h]
  BY <1>1, <1>2, <1>3 DEF GstOK
<1>5. /\ pad'[g].pc = "pad_inner" /\ pipeline_mutex'[g] = "pad"
      /\ \A h \in Gstreamers \ {g} : pad'[h] = pad[h] /\ pipeline_mutex'[h] = pipeline_mutex[h]
  BY <1>1 DEF Typed, OthersOK, Pad
<1>6. /\ inner_mutex' = inner_mutex /\ bus' = bus
      /\ pipeline_map' = pipeline_map /\ producers' = producers /\ request' = request
  BY <1>1
<1>7. \A r \in Requests : ~(request[r].g = g /\ request[r].pc \in {"cl_pause", "cl_remove"})
  BY <1>1, GstreamerAssumption DEF Orderly, Unharmed
<1>8. Unharmed'
  <2>1. \A h \in Gstreamers :
          /\ gst'[h].errors = gst[h].errors /\ pipeline_mutex'[h] # "poisoned"
          /\ pipeline_mutex'[h] = "pad" <=> pad'[h].pc \in {"pad_inner", "pad_insert"}
    BY <1>3, <1>4, <1>5 DEF Orderly, Unharmed
  <2>2. ASSUME NEW r \in Requests, request[r].pc \in {"cl_pause", "cl_remove"}
        PROVE  pipeline_mutex'[request[r].g] = r
    <3>1. request[r].g \in Gstreamers \ {g}
      BY <1>7, <2>2 DEF Typed, RequestOK, CallOK, CloseSteps
    <3> QED
      BY <1>5, <2>2, <3>1 DEF Orderly, Unharmed
  <2> QED
    BY <1>6, <2>1, <2>2 DEF Orderly, Unharmed
<1>9. SessionInv'
  BY <1>3, <1>4, SessionsStay
<1> QED
  BY <1>3, <1>4, <1>5, <1>6, <1>7, <1>8, <1>9, PadKeeps

\* ... locks inner ...
LEMMA OrderlyPadLocksInner ==
  ASSUME Typed, Orderly, OneByOne, NEW g \in Gstreamers, PadLocksInner(g)
  PROVE  Orderly'
<1>1. /\ pad[g].pc = "pad_inner"
      /\ inner_mutex' = [inner_mutex EXCEPT ![g] = "pad"]
      /\ pad' = [pad EXCEPT ![g].pc = "pad_insert"]
      /\ UNCHANGED <<gst, pipeline_mutex, bus, pipeline_map, producers, request, issued>>
  BY DEF PadLocksInner
<1>2. /\ pad'[g].pc = "pad_insert" /\ inner_mutex'[g] = "pad"
      /\ \A h \in Gstreamers \ {g} : pad'[h] = pad[h] /\ inner_mutex'[h] = inner_mutex[h]
  BY <1>1 DEF Typed, OthersOK, Pad
<1>3. Unharmed'
  BY <1>1, <1>2 DEF Orderly, Unharmed
<1>4. SessionInv'
  BY <1>1, SessionsStay
<1> QED
  BY <1>1, <1>2, <1>3, <1>4, PadKeeps

\* ... and, once the elements of its session are replaced, plays the pipeline.
LEMMA OrderlyPadHandles ==
  ASSUME Typed, Orderly, OneByOne, NEW g \in Gstreamers, PadVideo(g) \/ PadAudio(g) \/ PadRtcp(g)
  PROVE  Orderly'
<1>1. PICK x \in gst[g].sessions : PadHandles(g, x) /\ pad[g].part \in Parts /\ PadReplaces(g, x)
  BY DEF PadVideo, PadAudio, PadRtcp, PadCannotMake, Parts, OneByOne
<1>2. /\ pad[g].pc = "pad_insert" /\ pad' = [pad EXCEPT ![g] = NoPad] /\ Unlock(g, "pad")
      /\ UNCHANGED <<bus, pipeline_map, producers, request, issued>>
  BY <1>1 DEF PadHandles
<1>3. PICK b : b = ReplaceBranch(gst[g], x, pad[g].part)
  OBVIOUS
<1>4. GstOK /\ Sound(gst[g]) /\ x \in Element /\ Ported /\ Faults = {} /\ x.part = "rtp"
  BY <1>1 DEF Typed, GstOK, Orderly, OneByOne, SessionInv, Sound, Instance
<1>5. PICK y : y = [x EXCEPT !.part = pad[g].part]
  OBVIOUS
<1>6. y.part = pad[g].part /\ (y.part = "rtp" => y = x)
  BY <1>4, <1>5 DEF Element
<1>7. /\ Sound(b) /\ b.branches = Insert(gst[g].branches, y)
      /\ b.m = gst[g].m /\ b.shared = gst[g].shared /\ b.errors = gst[g].errors
      /\ b.udp_src = gst[g].udp_src /\ b.elements = gst[g].elements
      /\ b.sessions = gst[g].sessions
  <2>1. Sound(b)
    BY <1>1, <1>3, <1>4, ReplaceBranchSound
  <2>2. b = [gst[g] EXCEPT !.branches = Insert(@, y)]
    BY <1>3, <1>5 DEF ReplaceBranch
  <2> QED
    BY <1>4, <2>1, <2>2 DEF Sound, Instance
<1>8. PICK out \in SetState(g, b, "Playing") : out.ok => gst' = [gst EXCEPT ![g] = out.to]
  BY <1>1, <1>3, <1>4 DEF PadReplaces, PadSetsState
<1>9. /\ out.ok /\ out.to.bound = b.elements /\ out.to.m = b.m /\ out.to.state = "Playing"
      /\ out.to.shared = b.shared /\ out.to.errors = b.errors
      /\ out.to.udp_src = b.udp_src /\ out.to.elements = b.elements
      /\ out.to.sessions = b.sessions /\ out.to.branches = b.branches
  <2>1. b.elements \subseteq gst[g].elements
    BY <1>7
  <2> QED
    BY <1>4, <1>7, <2>1, Opens
<1>10. gst'[g] = out.to /\ \A h \in Gstreamers \ {g} : gst'[h] = gst[h]
  BY <1>4, <1>8, <1>9 DEF GstOK
<1>11. /\ pad'[g].pc = "idle" /\ pipeline_mutex'[g] = None /\ pipeline_mutex[g] = "pad"
       /\ \A h \in Gstreamers \ {g} : pad'[h] = pad[h] /\ pipeline_mutex'[h] = pipeline_mutex[h]
       /\ \A h \in Gstreamers : inner_mutex'[h] \in {inner_mutex[h], None}
  <2>1. pipeline_mutex[g] = "pad"
    BY <1>2 DEF Orderly, Unharmed
  <2> QED
    BY <1>2, <2>1 DEF Typed, OthersOK, Unlock, Release, NoPad
<1>12. bus' = bus /\ pipeline_map' = pipeline_map /\ producers' = producers /\ request' = request
  BY <1>2
<1>13. \A r \in Requests : ~(request[r].g = g /\ request[r].pc \in {"cl_pause", "cl_remove"})
  BY <1>11, GstreamerAssumption DEF Orderly, Unharmed
<1>14. Unharmed'
  <2>1. None # "pad" /\ None # "poisoned"
    BY GstreamerAssumption
  <2>2. \A h \in Gstreamers :
          /\ gst'[h].errors = gst[h].errors
          /\ inner_mutex'[h] # "poisoned" /\ pipeline_mutex'[h] # "poisoned"
          /\ pipeline_mutex'[h] = "pad" <=> pad'[h].pc \in {"pad_inner", "pad_insert"}
    BY <1>7, <1>9, <1>10, <1>11, <2>1 DEF Orderly, Unharmed
  <2>3. ASSUME NEW r \in Requests, request[r].pc \in {"cl_pause", "cl_remove"}
        PROVE  pipeline_mutex'[request[r].g] = r
    <3>1. request[r].g \in Gstreamers \ {g}
      BY <1>13, <2>3 DEF Typed, RequestOK, CallOK, CloseSteps
    <3> QED
      BY <1>11, <2>3, <3>1 DEF Orderly, Unharmed
  <2> QED
    BY <1>12, <2>2, <2>3 DEF Orderly, Unharmed
<1>15. SessionInv'
  <2>1. \A z \in b.branches : z.part = "rtp" => z \in gst[g].sessions
    BY <1>1, <1>6, <1>7 DEF Orderly, SessionInv, Insert
  <2> QED
    BY <1>7, <1>9, <1>10, <2>1 DEF Orderly, SessionInv
<1> QED
  BY <1>7, <1>9, <1>10, <1>11, <1>12, <1>13, <1>14, <1>15, PadKeeps

\* A process without requests and sources is in order.
LEMMA FreshOrderly ==
  ASSUME \A g \in Gstreamers : gst[g] = NewGstreamer /\ pad[g] = NoPad /\ bus[g] = "none"
                               /\ inner_mutex[g] = None /\ pipeline_mutex[g] = None,
         \A r \in Requests : request[r] = NoRequest
  PROVE  Orderly
<1>1. /\ NoRequest.pc = "idle" /\ NoRequest.g = None /\ None \notin Gstreamers
      /\ None # "pad" /\ None # "poisoned" /\ NoPad.pc = "idle"
  BY GstreamerAssumption DEF NoRequest, NoPad
<1>2. /\ NewGstreamer.state = "Null" /\ NewGstreamer.shared = {} /\ NewGstreamer.udp_src = {}
      /\ NewGstreamer.elements = {} /\ NewGstreamer.bound = {} /\ NewGstreamer.sessions = {}
      /\ NewGstreamer.branches = {} /\ NewGstreamer.errors = {}
  BY DEF NewGstreamer
<1>3. Unharmed
  BY <1>1, <1>2 DEF Unharmed, FailSteps
<1>4. SocketInv
  BY <1>1, <1>2 DEF SocketInv, Rests
<1>5. Ported /\ Probed /\ SessionInv /\ Resumed
  BY <1>2 DEF Ported, Probed, SessionInv, Resumed
<1>6. GroupInv
  BY <1>1, <1>2 DEF GroupInv, Grouped, Torn
<1>7. SourceInv
  BY <1>1, <1>2 DEF SourceInv, Bringing
<1> QED
  BY <1>3, <1>4, <1>5, <1>6, <1>7 DEF Orderly

\* The process starts in order, and again after a callback aborted it.
LEMMA InitOrderly == Init => Orderly
  BY FreshOrderly DEF Init

\* The same for the process that replaces it.
LEMMA RestartOrderly ==
  ASSUME Restart
  PROVE  Orderly'
<1>1. /\ NoRequest.pc = "idle" /\ NoRequest.g = None /\ None \notin Gstreamers
      /\ None # "pad" /\ None # "poisoned" /\ NoPad.pc = "idle"
  BY GstreamerAssumption DEF NoRequest, NoPad
<1>2. /\ NewGstreamer.state = "Null" /\ NewGstreamer.shared = {} /\ NewGstreamer.udp_src = {}
      /\ NewGstreamer.elements = {} /\ NewGstreamer.bound = {} /\ NewGstreamer.sessions = {}
      /\ NewGstreamer.branches = {} /\ NewGstreamer.errors = {}
  BY DEF NewGstreamer
<1>3. /\ \A g \in Gstreamers : /\ gst'[g] = NewGstreamer /\ pad'[g] = NoPad /\ bus'[g] = "none"
                               /\ inner_mutex'[g] = None /\ pipeline_mutex'[g] = None
      /\ \A r \in Requests : request'[r] = NoRequest
  BY DEF Restart
<1>4. Unharmed'
  BY <1>1, <1>2, <1>3 DEF Unharmed, FailSteps
<1>5. SocketInv'
  BY <1>1, <1>2, <1>3 DEF SocketInv, Rests
<1>6. Ported' /\ Probed' /\ SessionInv' /\ Resumed'
  BY <1>2, <1>3 DEF Ported, Probed, SessionInv, Resumed
<1>7. GroupInv'
  BY <1>1, <1>2, <1>3 DEF GroupInv, Grouped, Torn
<1>8. SourceInv'
  BY <1>1, <1>2, <1>3 DEF SourceInv, Bringing
<1> QED
  BY <1>4, <1>5, <1>6, <1>7, <1>8 DEF Orderly

\* Every step of a request keeps the order.
LEMMA RequestOrderly ==
  ASSUME Typed, MapInv, MeetingInv, KnownInv, Orderly, OneByOne, NEW r \in Requests,
         StartRecording(r) \/ CloseProducers(r) \/ EndMeeting(r) \/ RequestPanics(r)
  PROVE  Orderly'
<1>1. CASE StartRecording(r)
  <2>1. ~(FailSource(r) \/ AbortState(r) \/ DropSource(r) \/ ReplayPipeline(r))
    BY DEF FailSource, AbortState, DropSource, ReplayPipeline, Orderly, Unharmed, FailSteps
  <2> QED
    BY <1>1, <2>1, OrderlyBeginStart, OrderlyLookup, OrderlyGetFreePort, OrderlyMakeSource,
       OrderlyMakeElements, OrderlyPause, OrderlyAddElements, OrderlyInsertSession, OrderlyPlay,
       OrderlyPublish, OrderlyInsert, OrderlyOnward DEF StartRecording
<1>2. CASE CloseProducers(r)
  BY <1>2, OrderlyBeginClose, OrderlyCloseInMaps, OrderlyCloseLookup, OrderlyOnward,
     OrderlyClosePauses, OrderlyCloseRemoves DEF CloseProducers
<1>3. ~EndMeeting(r)
  BY DEF EndMeeting, BeginEnd, EndInMaps, EndLookup, EndStops, OneByOne, Orderly, Unharmed
<1>4. ~RequestPanics(r)
  <2>1. request[r].pc \in InnerSteps \cup PipelineSteps => request[r].g \in Gstreamers
    BY DEF InnerSteps, PipelineSteps, Typed, RequestOK, CallOK, Started, StartSteps, CloseSteps
  <2> QED
    BY <2>1 DEF RequestPanics, Orderly, Unharmed
<1> QED
  BY <1>1, <1>2, <1>3, <1>4

\* So does every step of a callback, and the bus thread has nothing to do: without a
\* screen share no branch is replaced by that of another source.
LEMMA StepOrderly ==
  ASSUME OneByOne, Typed, MapInv, MeetingInv, KnownInv, Orderly, [Next]_vars
  PROVE  Orderly'
<1>1. ASSUME NEW r \in Requests,
             StartRecording(r) \/ CloseProducers(r) \/ EndMeeting(r) \/ RequestPanics(r)
      PROVE  Orderly'
  BY <1>1, RequestOrderly
<1>2. ASSUME NEW g \in Gstreamers, Callback(g) PROVE Orderly'
  <2>1. CASE PadPanics(g)
    BY <2>1, RestartOrderly DEF PadPanics
  <2> QED
    BY <1>2, <2>1, OrderlyPadAdded, OrderlyPadLocksPipeline, OrderlyPadLocksInner,
       OrderlyPadHandles DEF Callback
<1>3. ASSUME NEW g \in Gstreamers, BusThread(g) PROVE FALSE
  <2>1. gst[g].errors = {} /\ bus[g] \in {"none", "watching"} /\ Faults = {}
    BY DEF Orderly, Unharmed, OneByOne
  <2>2. ~PadNotLinked(g)
    <3> SUFFICES ASSUME NEW x \in gst[g].sessions, NEW y \in gst[g].branches, SameKey(x, y),
                        \A z \in gst[g].branches : z.src # x.src
                 PROVE  FALSE
      BY DEF PadNotLinked
    <3>1. x.part = "rtp" /\ y.part = "rtp" /\ y \in gst[g].sessions
      BY DEF Orderly, SessionInv, SameKey
    <3>2. x = y
      BY <3>1 DEF Orderly, SessionInv, SameKey
    <3> QED
      BY <3>2
  <2> QED
    BY <1>3, <2>1, <2>2 DEF BusThread, PipelineError, BusRestarts, BusPlays, BusStops
<1>4. CASE UNCHANGED vars
  <2>1. /\ gst' = gst /\ inner_mutex' = inner_mutex /\ pipeline_mutex' = pipeline_mutex
        /\ bus' = bus /\ pad' = pad /\ pipeline_map' = pipeline_map /\ producers' = producers
        /\ request' = request
    BY <1>4 DEF vars
  <2> QED
    BY <2>1 DEF Orderly, Unharmed, SocketInv, Works, Rests, Ported, Probed, GroupInv, SessionInv,
                SourceInv, Accounted, Entered, Resumed
<1> QED
  BY <1>1, <1>2, <1>3, <1>4 DEF Next

\* Where requests come one at a time and nothing fails, no start, close or callback leaves
\* the pipeline paused while it has sources: the callback and the close exclude each other
\* with the mutex of the pipeline, the start plays it last, and every set_state finds its
\* sockets free.
THEOREM PlaysAgain ==
  ASSUME OneByOne PROVE Spec => []NotLeftPaused
<1>1. Typed /\ MeetingInv /\ KnownInv /\ Orderly => NotLeftPaused
  <2> SUFFICES ASSUME Typed, MeetingInv, KnownInv, Orderly, NEW g \in Gstreamers, Quiet(g),
                      \E x \in gst[g].udp_src : x.part = "rtp", gst[g].state = "Paused"
               PROVE  FALSE
    BY DEF NotLeftPaused
  <2>1. pad[g].pc = "idle"
    BY DEF Quiet, NoPad
  <2>2. PICK r \in Requests :
          request[r].g = g /\ request[r].pc \in Bringing \cup Binding \cup {"cl_remove"}
    BY <2>1 DEF Orderly, Resumed
  <2>3. request[r].m # gst[g].m
    BY <2>2 DEF Quiet, NoRequest, Bringing, Binding
  <2>4. CASE request[r].pc \in Bringing \cup Binding
    BY <2>2, <2>3, <2>4 DEF MeetingInv, Bringing, Binding, Started, StartSteps
  <2>5. CASE request[r].pc = "cl_remove"
    <3>1. pipeline_map[request[r].m] = g /\ request[r].m \in Meetings /\ g # None
      BY <2>2, <2>5, GstreamerAssumption DEF KnownInv, CloseSteps, Typed, RequestOK, CallOK
    <3> QED
      BY <2>3, <3>1 DEF MeetingInv
  <2> QED
    BY <2>2, <2>4, <2>5
<1>2. Typed /\ MapInv /\ MeetingInv /\ [Next]_vars => MapInv' /\ MeetingInv'
  BY StepMap
<1>3. Typed /\ MapInv /\ MeetingInv /\ KnownInv /\ [Next]_vars => KnownInv'
  BY StepKnown DEF OneByOne
<1>4. Typed /\ MapInv /\ MeetingInv /\ KnownInv /\ Orderly /\ [Next]_vars => Orderly'
  BY StepOrderly
<1> QED
  BY <1>1, <1>2, <1>3, <1>4, InitTyped, StepTyped, InitMap, InitKnown, InitOrderly, PTL DEF Spec

-----------------------------------------------------------------------------
(* The sockets of the published producers *)

\* The udpsrc elements of source src in the maps of instance g.
Receivers(g, src) == {e \in gst[g].udp_src : e.src = src}

\* They are in the pipeline, and hold their sockets unless it is stopped.
Received(g, src) ==
    /\ Receivers(g, src) \subseteq gst[g].elements
    /\ gst[g].state # "Null" => Receivers(g, src) \subseteq gst[g].bound

\* The steps at which a request is about to remove elements it took out of the maps.
Taking == {"cl_remove", "st_abort", "st_drop"}

\* Elements that are in the maps of an instance, or were taken out to be removed.
Taken(q) == IF q.pc \in Taking THEN q.closed ELSE {}
InMaps(instances) == UNION {instances[g].udp_src : g \in Gstreamers}
TakenBy(requests) == UNION {Taken(requests[r]) : r \in Requests}
Traces == InMaps(gst) \cup TakenBy(request)

\* The steps of a start that has its source, and those before it adds its elements.
Sourced == Started \ {"st_port"}
Sourcing == {"st_rtp", "st_shared"} \cup Adding

\* The elements a start has made, until it adds them.
MadeSoFar(q) ==
    CASE q.pc = "st_rtp" -> {}
      [] q.pc = "st_shared" -> {SourceElement(q, "rtp")}
      [] OTHER -> Own(q)

\* What a request relies on: no other source has its elements, a close does not take
\* them, and what it removes itself is in no map.
Keeping(q) ==
    /\ q.pc \in Sourcing => \A e \in Traces : e.src = q.src => e \in MadeSoFar(q)
    /\ q.pc \in Binding => Receivers(q.g, q.src) \subseteq gst[q.g].elements
    /\ Entering(q) => Received(q.g, q.src)
    /\ q.pc \in Taking => q.closed \cap gst[q.g].udp_src = {}
    /\ q.pc \in Sourced => q.src \in issued
    /\ q.pc \in Sourced \ {"st_insert"} => \A x \in producers : x.src # q.src

Separate == \A e, f \in Bound(Gstreamers) : ~Clash(e, f)

PortInv ==
    /\ Separate
    /\ \A r \in Requests : Keeping(request[r])
    /\ \A r, o \in Requests :
          request[r].pc \in Sourced /\ request[o].pc \in Sourced
            /\ request[r].src = request[o].src => r = o
    /\ \A x \in producers : Received(x.g, x.src) /\ x.src \in issued
    /\ \A e \in Traces : e.src \in issued

\* Instance g becomes j: but for the elements just made, the maps only lose elements;
\* those they hold stay in the pipeline and keep their sockets while it is not stopped,
\* and a socket is bound only where no other needs it.
Fits(g, j, made) ==
    /\ j.udp_src \subseteq gst[g].udp_src \cup made
    /\ gst[g].elements \cap j.udp_src \subseteq j.elements
    /\ \/ j.state = "Null"
       \/ j.udp_src \cap j.elements \subseteq j.bound
       \/ gst[g].state # "Null" /\ gst[g].bound \cap j.udp_src \subseteq j.bound
    /\ \/ j.bound \subseteq gst[g].bound
       \/ \A x \in j.bound : \A y \in j.bound \cup Bound(Gstreamers \ {g}) : ~Clash(x, y)

Settled(made) ==
    \A g \in Gstreamers :
        \/ gst'[g] = gst[g]
        \/ /\ Fits(g, gst'[g], made)
           /\ \A h \in Gstreamers \ {g} : gst'[h] = gst[h]

\* The elements of a source stay received when an instance changes like that.
LEMMA ReceiversSettle ==
  ASSUME NEW made, Settled(made), NEW g \in Gstreamers, NEW src, \A e \in made : e.src # src
  PROVE  /\ Receivers(g, src) \subseteq gst[g].elements =>
               Receivers(g, src)' \subseteq gst'[g].elements
         /\ Received(g, src) => Received(g, src)'
<1>1. CASE gst'[g] = gst[g]
  BY <1>1 DEF Received, Receivers
<1>2. CASE Fits(g, gst'[g], made)
  <2>1. Receivers(g, src)' \subseteq Receivers(g, src)
    BY <1>2 DEF Fits, Receivers
  <2>2. Receivers(g, src) \subseteq gst[g].elements =>
            Receivers(g, src)' \subseteq gst'[g].elements
    BY <1>2, <2>1 DEF Fits, Receivers
  <2>3. ASSUME Received(g, src), gst'[g].state # "Null"
        PROVE  Receivers(g, src)' \subseteq gst'[g].bound
    BY <1>2, <2>1, <2>2, <2>3 DEF Fits, Receivers, Received
  <2> QED
    BY <2>2, <2>3 DEF Received
<1> QED
  BY <1>1, <1>2 DEF Settled

\* The bound sockets stay apart.
LEMMA SocketsApart ==
  ASSUME NEW made, Settled(made), Separate
  PROVE  Separate'
<1> SUFFICES ASSUME NEW g \in Gstreamers, NEW e \in gst'[g].bound,
                    NEW h \in Gstreamers, NEW f \in gst'[h].bound, Clash(e, f)
             PROVE  FALSE
  BY DEF Separate, Bound, Clash
<1>1. Clash(f, e)
  BY DEF Clash
<1>2. ~(e \in gst[g].bound /\ f \in gst[h].bound)
  BY DEF Separate, Bound
<1>3. ASSUME NEW k \in Gstreamers, NEW x \in gst'[k].bound, x \notin gst[k].bound,
             NEW l \in Gstreamers, NEW y \in gst'[l].bound
      PROVE  ~Clash(x, y)
  <2>1. /\ Fits(k, gst'[k], made)
        /\ \A i \in Gstreamers \ {k} : gst'[i] = gst[i]
    BY <1>3 DEF Settled
  <2>2. \A z \in gst'[k].bound \cup Bound(Gstreamers \ {k}) : ~Clash(x, z)
    BY <1>3, <2>1 DEF Fits
  <2> QED
    BY <1>3, <2>1, <2>2 DEF Bound
<1> QED
  BY <1>1, <1>2, <1>3

\* The elements of the maps, one by one.
LEMMA InMapsAre ==
  ASSUME NEW instances
  PROVE  \A e : e \in InMaps(instances) <=> \E g \in Gstreamers : e \in instances[g].udp_src
  BY DEF InMaps

\* The same of those taken out.
LEMMA TakenAre ==
  ASSUME NEW requests
  PROVE  \A e : e \in TakenBy(requests) <=>
               \E r \in Requests : requests[r].pc \in Taking /\ e \in requests[r].closed
<1>1. \A e : e \in TakenBy(requests) <=> \E r \in Requests : e \in Taken(requests[r])
  BY DEF TakenBy
<1> QED
  BY <1>1 DEF Taken

\* What is in the maps or was taken out of them is not new, but for what was made.
LEMMA TracesSettle ==
  ASSUME NEW made, Settled(made), NEW R \in SUBSET Requests,
         \A o \in Requests \ R : request'[o] = request[o],
         \A r \in R : request'[r].pc \in Taking => request'[r].closed \subseteq Traces
  PROVE  Traces' \subseteq Traces \cup made
<1> SUFFICES ASSUME NEW e \in Traces', e \notin made PROVE e \in Traces
  OBVIOUS
<1>1. ASSUME NEW g \in Gstreamers, e \in gst'[g].udp_src PROVE e \in Traces
  <2>1. e \in gst[g].udp_src
    BY <1>1 DEF Settled, Fits
  <2> QED
    BY <2>1, InMapsAre, TakenAre DEF Traces
<1>2. ASSUME NEW r \in Requests, request'[r].pc \in Taking, e \in request'[r].closed
      PROVE  e \in Traces
  <2>1. CASE r \in R
    BY <1>2, <2>1
  <2>2. CASE r \notin R
    BY <1>2, <2>2, InMapsAre, TakenAre DEF Traces
  <2> QED
    BY <2>1, <2>2
<1> QED
  BY <1>1, <1>2, InMapsAre, TakenAre DEF Traces

\* What a step of a request, or of a thread, must show for the invariant to go on.
LEMMA PortStep ==
  ASSUME Typed, PortInv, NEW made, Settled(made), NEW R \in SUBSET Requests,
         \A r, o \in R : r = o,
         \A o \in Requests \ R : request'[o] = request[o],
         \A r \in R : request'[r].pc \in Taking => request'[r].closed \subseteq Traces,
         \A e \in made : /\ e \notin Traces
                         /\ \E r \in R : /\ e.src = request[r].src
                                         /\ request[r].pc \in {"st_rtp", "st_shared"},
         issued \subseteq issued',
         \A x \in producers' :
            \/ x \in producers
            \/ /\ Received(x.g, x.src)'
               /\ \E r \in R : /\ x.src = request[r].src
                               /\ request[r].pc \in Sourced /\ request'[r].pc = "st_insert",
         \A r \in R :
            /\ Keeping(request[r])'
            /\ request'[r].pc \in Sourced =>
                  \/ request[r].pc \in Sourced /\ request'[r].src = request[r].src
                  \/ request'[r].src \notin issued
  PROVE  PortInv'
<1>1. Traces' \subseteq Traces \cup made
  BY TracesSettle
<1>2. \A r \in Requests : request[r].pc \in {"st_rtp", "st_shared"} =>
          request[r].pc \in Sourced \ {"st_insert"}
  BY DEF Sourced, Started, StartSteps
<1>3. \A r \in Requests : request[r].pc \in Taking \cup Sourced => request[r].g \in Gstreamers
  BY DEF Typed, RequestOK, CallOK, Taking, CloseSteps, Sourced, Started, StartSteps
<1>4. Separate'
  BY SocketsApart DEF PortInv
<1>5. ASSUME NEW o \in Requests \ R PROVE Keeping(request[o])'
  <2>1. PICK q : q = request[o] /\ q = request'[o] /\ Keeping(q)
    BY DEF PortInv
  <2>2. ASSUME q.pc \in Sourced, NEW r \in R, request[r].pc \in Sourced
        PROVE  request[r].src # q.src
    BY <2>1, <2>2 DEF PortInv
  <2>3. q.pc \in Sourced => \A e \in made : e.src # q.src
    BY <1>2, <2>2
  <2>4. q.pc \in Sourcing => \A e \in Traces' : e.src = q.src => e \in MadeSoFar(q)
    <3>1. q.pc \in Sourcing => q.pc \in Sourced
      BY DEF Sourcing, Adding, Sourced, Started, StartSteps
    <3> QED
      BY <1>1, <2>1, <2>3, <3>1 DEF Keeping
  <2>5. q.pc \in Binding => Receivers(q.g, q.src)' \subseteq gst'[q.g].elements
    <3>1. q.pc \in Binding => q.pc \in Sourced
      BY DEF Binding, Sourced, Started, StartSteps
    <3> QED
      BY <1>3, <2>1, <2>3, <3>1, ReceiversSettle DEF Keeping
  <2>6. Entering(q) => Received(q.g, q.src)'
    <3>1. Entering(q) => q.pc \in Sourced
      BY DEF Entering, Sourced, Started, StartSteps
    <3> QED
      BY <1>3, <2>1, <2>3, <3>1, ReceiversSettle DEF Keeping
  <2>7. q.pc \in Taking => q.closed \cap gst'[q.g].udp_src = {}
    <3> SUFFICES ASSUME q.pc \in Taking, NEW e \in q.closed, e \in gst'[q.g].udp_src
                 PROVE  FALSE
      OBVIOUS
    <3>1. e \in Traces /\ q.g \in Gstreamers
      BY <1>3, <2>1, InMapsAre, TakenAre DEF Traces
    <3>2. e \in gst[q.g].udp_src \cup made
      BY <3>1 DEF Settled, Fits
    <3> QED
      BY <2>1, <3>1, <3>2 DEF Keeping
  <2>8. q.pc \in Sourced => q.src \in issued'
    BY <2>1 DEF Keeping
  <2>9. q.pc \in Sourced \ {"st_insert"} => \A x \in producers' : x.src # q.src
    BY <2>1, <2>2 DEF Keeping
  <2> QED
    BY <2>1, <2>4, <2>5, <2>6, <2>7, <2>8, <2>9 DEF Keeping
<1>6. ASSUME NEW r \in Requests, NEW o \in Requests, request'[r].pc \in Sourced,
             request'[o].pc \in Sourced, request'[r].src = request'[o].src
      PROVE  r = o
  <2>1. ASSUME NEW a \in Requests, NEW b \in Requests \ R, request'[a].pc \in Sourced,
               request'[b].pc \in Sourced, request'[a].src = request'[b].src
        PROVE  a = b
    <3>1. request'[b] = request[b] /\ request[b].src \in issued
      BY <2>1 DEF PortInv, Keeping
    <3>2. request[a].pc \in Sourced /\ request'[a].src = request[a].src
      BY <2>1, <3>1
    <3> QED
      BY <2>1, <3>1, <3>2 DEF PortInv
  <2> QED
    BY <1>6, <2>1
<1>7. ASSUME NEW x \in producers' PROVE Received(x.g, x.src)' /\ x.src \in issued'
  <2>1. CASE x \in producers
    <3>1. Received(x.g, x.src) /\ x.src \in issued /\ x.g \in Gstreamers
      BY <2>1 DEF PortInv, Typed, OthersOK, Published
    <3>2. \A e \in made : e.src # x.src
      BY <1>2, <2>1 DEF PortInv, Keeping
    <3> QED
      BY <3>1, <3>2, ReceiversSettle
  <2>2. CASE x \notin producers
    BY <2>2 DEF PortInv, Keeping
  <2> QED
    BY <2>1, <2>2
<1>8. \A e \in Traces' : e.src \in issued'
  BY <1>1, <1>2 DEF PortInv, Keeping
<1> QED
  BY <1>4, <1>5, <1>6, <1>7, <1>8 DEF PortInv

\* The same where one request moves.
LEMMA PortRequest ==
  ASSUME Typed, PortInv, NEW made, Settled(made), NEW r \in Requests,
         \A o \in Requests \ {r} : request'[o] = request[o],
         request'[r].pc \in Taking => request'[r].closed \subseteq Traces,
         \A e \in made : /\ e \notin Traces /\ e.src = request[r].src
                         /\ request[r].pc \in {"st_rtp", "st_shared"},
         issued \subseteq issued',
         \A x \in producers' :
            \/ x \in producers
            \/ /\ Received(x.g, x.src)' /\ x.src = request[r].src
               /\ request[r].pc \in Sourced /\ request'[r].pc = "st_insert",
         Keeping(request[r])',
         request'[r].pc \in Sourced =>
            \/ request[r].pc \in Sourced /\ request'[r].src = request[r].src
            \/ request'[r].src \notin issued
  PROVE  PortInv'
<1>1. PICK R : R = {r}
  OBVIOUS
<1>2. R \in SUBSET Requests /\ (\A a, b \in R : a = b) /\ r \in R /\ \A a \in R : a = r
  BY <1>1
<1>3. \A o \in Requests \ R : request'[o] = request[o]
  BY <1>1
<1>4. \A a \in R : request'[a].pc \in Taking => request'[a].closed \subseteq Traces
  BY <1>2
<1>5. \A e \in made : /\ e \notin Traces
                      /\ \E a \in R : /\ e.src = request[a].src
                                      /\ request[a].pc \in {"st_rtp", "st_shared"}
  BY <1>2
<1>6. \A x \in producers' :
          \/ x \in producers
          \/ /\ Received(x.g, x.src)'
             /\ \E a \in R : /\ x.src = request[a].src
                             /\ request[a].pc \in Sourced /\ request'[a].pc = "st_insert"
  BY <1>2
<1>7. \A a \in R :
          /\ Keeping(request[a])'
          /\ request'[a].pc \in Sourced =>
                \/ request[a].pc \in Sourced /\ request'[a].src = request[a].src
                \/ request'[a].src \notin issued
  BY <1>2
<1> QED
  BY <1>2, <1>3, <1>4, <1>5, <1>6, <1>7, PortStep

\* A state change, of an instance that lost elements and sockets of its maps at most,
\* fits: it binds all sockets or fails and leaves those that are bound.
LEMMA SetStateFits ==
  ASSUME NEW g \in Gstreamers, NEW i, Sound(i), i.udp_src \subseteq gst[g].udp_src,
         gst[g].elements \cap i.udp_src \subseteq i.elements,
         gst[g].bound \cap i.udp_src \subseteq i.bound, i.bound \subseteq gst[g].bound,
         i.state = gst[g].state,
         NEW s \in {"Null", "Paused", "Playing"}, NEW out \in SetState(g, i, s)
  PROVE  /\ Fits(g, out.to, {})
         /\ out.to.udp_src = i.udp_src /\ out.to.elements = i.elements
         /\ out.ok /\ s # "Null" => out.to.bound = i.elements
<1>1. i \in Instance /\ i.bound \subseteq i.elements
  BY DEF Sound
<1>2. CASE s = "Null"
  <2>1. out = [ok |-> TRUE, to |-> [i EXCEPT !.state = "Null", !.bound = {}]]
    BY <1>2 DEF SetState
  <2>2. /\ out.to.udp_src = i.udp_src /\ out.to.elements = i.elements
        /\ out.to.bound = {} /\ out.to.state = "Null"
    BY <1>1, <2>1 DEF Instance
  <2> QED
    BY <1>2, <2>2 DEF Fits
<1>3. CASE s # "Null" /\ i.elements \in Bindable(g, i)
  <2>1. \A x \in i.elements : \A y \in i.elements \cup Bound(Gstreamers \ {g}) : ~Clash(x, y)
    BY <1>3 DEF Bindable
  <2>2. CASE out = [ok |-> TRUE, to |-> [i EXCEPT !.state = s, !.bound = i.elements]]
    BY <1>1, <2>1, <2>2 DEF Fits, Instance
  <2>3. CASE out = [ok |-> FALSE, to |-> i]
    BY <1>1, <2>3 DEF Fits, Instance
  <2> QED
    BY <1>3, <2>2, <2>3 DEF SetState
<1>4. CASE s # "Null" /\ i.elements \notin Bindable(g, i)
  <2>1. PICK S \in Bindable(g, i) : out = [ok |-> FALSE, to |-> [i EXCEPT !.bound = S]]
    BY <1>4 DEF SetState
  <2>2. /\ S \subseteq i.elements /\ i.bound \subseteq S
        /\ \A x \in S : \A y \in S \cup Bound(Gstreamers \ {g}) : ~Clash(x, y)
    BY <1>1, <2>1 DEF Bindable
  <2>3. /\ out.to.udp_src = i.udp_src /\ out.to.elements = i.elements
        /\ out.to.bound = S /\ out.to.state = i.state /\ ~out.ok
    BY <1>1, <2>1 DEF Instance
  <2> QED
    BY <2>2, <2>3 DEF Fits
<1> QED
  BY <1>2, <1>3, <1>4

\* Sockets of elements that are in no map may be closed besides.
LEMMA FitsLess ==
  ASSUME NEW g \in Gstreamers, NEW i, Fits(g, i, {}), NEW j,
         j.udp_src = i.udp_src, j.elements = i.elements, j.state = i.state,
         j.bound \subseteq i.bound, i.bound \cap i.udp_src \subseteq j.bound
  PROVE  Fits(g, j, {})
  BY DEF Fits

\* An instance whose maps, elements and sockets are as they were fits.
LEMMA FitsSame ==
  ASSUME NEW g \in Gstreamers, NEW j, j.udp_src = gst[g].udp_src,
         gst[g].elements \subseteq j.elements, j.state = gst[g].state, j.bound = gst[g].bound
  PROVE  Fits(g, j, {})
  BY DEF Fits

\* One instance is replaced by a fitting one.
LEMMA OneSettles ==
  ASSUME GstOK, NEW g \in Gstreamers, NEW j, NEW made, Fits(g, j, made),
         gst' = [gst EXCEPT ![g] = j]
  PROVE  Settled(made) /\ gst'[g] = j /\ \A h \in Gstreamers \ {g} : gst'[h] = gst[h]
<1>1. gst'[g] = j /\ \A h \in Gstreamers \ {g} : gst'[h] = gst[h]
  BY DEF GstOK
<1> QED
  BY <1>1 DEF Settled

\* Instances that do not change are settled.
LEMMA SameSettled == gst' = gst => Settled({})
  BY DEF Settled

\* The request goes to a step at which it relies on nothing new, or ends.
Strolls(r, step) ==
    \/ Ends(r)
    \/ /\ Go(r, step, request[r]) /\ step \in Steps
       /\ step \in Sourcing => step = "st_add" /\ request[r].pc = "st_pause"
       /\ step \in Binding => request[r].pc \in Binding
       /\ step \in {"st_connect", "st_register", "st_publish", "st_insert"} =>
             request[r].pc \in {"st_connect", "st_register"}
       /\ step \in Taking => request[r].pc \in Taking
       /\ step \in Sourced => request[r].pc \in Sourced \ {"st_insert"}

\* A step of a request that relies on nothing new.
LEMMA PortWalks ==
  ASSUME Typed, PortInv, NEW r \in Requests, NEW step, Strolls(r, step), Settled({}),
         producers' \subseteq producers, issued' = issued
  PROVE  PortInv'
<1>1. \A o \in Requests \ {r} : request'[o] = request[o]
  BY GoFields DEF Strolls, Ends, Typed, RequestOK, CallOK
<1>2. Keeping(request[r])'
  <2>1. CASE Ends(r)
    BY <2>1 DEF Ends, NoRequest, Keeping, Sourcing, Adding, Binding, Entering, Taking, Sourced,
                Started, StartSteps
  <2>2. CASE ~Ends(r)
    <3>1. PICK q, n : /\ q = request[r] /\ n = request'[r] /\ Keeping(q) /\ n.pc = step
                      /\ n.p = q.p /\ n.kind = q.kind /\ n.g = q.g /\ n.src = q.src
                      /\ n.port = q.port /\ n.closed = q.closed
      BY <2>2, GoFields DEF Strolls, Typed, RequestOK, CallOK, PortInv
    <3>2. q.pc \in Taking \cup Sourced => q.g \in Gstreamers
      BY <3>1 DEF Typed, RequestOK, CallOK, Taking, CloseSteps, Sourced, Started, StartSteps
    <3>3. n.pc \in Sourcing => \A e \in Traces' : e.src = n.src => e \in MadeSoFar(n)
      <4>1. SUFFICES ASSUME n.pc = "st_add", q.pc = "st_pause"
                     PROVE  \A e \in Traces' : e.src = n.src => e \in MadeSoFar(n)
        BY <2>2, <3>1 DEF Strolls
      <4>2. Traces' \subseteq Traces \cup {}
        <5>1. PICK R \in SUBSET Requests : R = {r}
          OBVIOUS
        <5>2. \A o \in Requests \ R : request'[o] = request[o]
          BY <1>1, <5>1
        <5>3. \A o \in R : request'[o].pc \notin Taking
          BY <3>1, <4>1, <5>1 DEF Taking
        <5> QED
          BY <5>2, <5>3, TracesSettle
      <4>3. \A part : SourceElement(n, part) = SourceElement(q, part)
        BY <3>1 DEF SourceElement
      <4>4. MadeSoFar(n) = Own(n) /\ MadeSoFar(q) = Own(q) /\ Own(n) = Own(q)
        BY <4>1, <4>3 DEF MadeSoFar, Own
      <4> QED
        BY <3>1, <4>1, <4>2, <4>4 DEF Keeping, Sourcing, Adding
    <3>4. n.pc \in Binding => Receivers(n.g, n.src)' \subseteq gst'[n.g].elements
      <4>1. n.pc \in Binding => q.pc \in Binding /\ q.g \in Gstreamers
        BY <2>2, <3>1, <3>2 DEF Strolls, Binding, Sourced, Started, StartSteps
      <4> QED
        BY <3>1, <4>1, ReceiversSettle DEF Keeping
    <3>5. Entering(n) => Received(n.g, n.src)'
      <4>1. Entering(n) => Entering(q) /\ q.g \in Gstreamers
        BY <2>2, <3>1, <3>2 DEF Strolls, Entering, Sourced, Started, StartSteps
      <4> QED
        BY <3>1, <4>1, ReceiversSettle DEF Keeping
    <3>6. n.pc \in Taking => n.closed \cap gst'[n.g].udp_src = {}
      <4>1. n.pc \in Taking => q.pc \in Taking /\ q.g \in Gstreamers
        BY <2>2, <3>1, <3>2 DEF Strolls
      <4>2. q.g \in Gstreamers => gst'[q.g].udp_src \subseteq gst[q.g].udp_src
        BY DEF Settled, Fits
      <4> QED
        BY <3>1, <4>1, <4>2 DEF Keeping
    <3>7. n.pc \in Sourced => q.pc \in Sourced \ {"st_insert"}
      BY <2>2, <3>1 DEF Strolls
    <3> QED
      BY <3>1, <3>3, <3>4, <3>5, <3>6, <3>7 DEF Keeping
  <2> QED
    BY <2>1, <2>2
<1>3. request'[r].pc \in Taking => request'[r].closed \subseteq Traces
  <2>1. CASE Ends(r)
    BY <2>1 DEF Ends, NoRequest, Taking
  <2>2. CASE ~Ends(r)
    <3>1. request'[r].pc = step /\ request'[r].closed = request[r].closed
      BY <2>2, GoFields DEF Strolls, Typed, RequestOK, CallOK
    <3>2. request'[r].pc \in Taking => request[r].pc \in Taking
      BY <2>2, <3>1 DEF Strolls
    <3> QED
      BY <3>1, <3>2, TakenAre DEF Traces
  <2> QED
    BY <2>1, <2>2
<1>4. request'[r].pc \in Sourced => request[r].pc \in Sourced /\ request'[r].src = request[r].src
  <2>1. Ends(r) => request'[r].pc \notin Sourced
    BY DEF Ends, NoRequest, Sourced, Started, StartSteps
  <2> QED
    BY <2>1, GoFields DEF Strolls, Typed, RequestOK, CallOK
<1> QED
  BY <1>1, <1>2, <1>3, <1>4, PortRequest

\* A step of a thread.
LEMMA PortThread ==
  ASSUME Typed, PortInv, Settled({}), UNCHANGED <<producers, request, issued>>
  PROVE  PortInv'
<1> DEFINE R == {}
<1>1. R \in SUBSET Requests
  OBVIOUS
<1> QED
  BY <1>1, PortStep

\* A request that has no source and takes nothing out of the maps.
LEMMA PortAside ==
  ASSUME Typed, PortInv, NEW r \in Requests, Settled({}), UNCHANGED <<producers, issued>>,
         \A o \in Requests \ {r} : request'[o] = request[o],
         request'[r].pc \notin Sourced \cup Taking
  PROVE  PortInv'
<1>1. Keeping(request[r])'
  BY DEF Keeping, Sourcing, Adding, Binding, Entering, Taking, Sourced, Started, StartSteps
<1> QED
  BY <1>1, PortRequest

\* Steps that leave the instances alone, or nothing but their sockets.
LEMMA PortAsides ==
  ASSUME Typed, PortInv, NEW r \in Requests,
         \/ BeginStart(r) \/ BeginClose(r) \/ BeginEnd(r)
         \/ Lookup(r) \/ CloseLookup(r) \/ EndLookup(r)
  PROVE  PortInv'
<1> USE DEF Sourced, Taking, Started, StartSteps
<1>1. CASE BeginStart(r) \/ BeginClose(r) \/ BeginEnd(r)
  <2>1. /\ request'[r].pc \in {"st_lookup", "cl_maps", "en_maps"}
        /\ \A o \in Requests \ {r} : request'[o] = request[o]
        /\ gst' = gst /\ UNCHANGED <<producers, issued>>
    BY <1>1, BeginStartStep, BeginCloseStep, BeginEndStep
  <2> QED
    BY <2>1, SameSettled, PortAside
<1>2. CASE CloseLookup(r) \/ EndLookup(r)
  <2>1. /\ request'[r].pc \in {"cl_inner", "en_null", "idle"}
        /\ \A o \in Requests \ {r} : request'[o] = request[o]
        /\ gst' = gst /\ UNCHANGED <<producers, issued>>
    <3>1. Ends(r) => request'[r].pc = "idle"
      BY DEF Ends, NoRequest
    <3> QED
      BY <1>2, <3>1, FindStep
  <2> QED
    BY <2>1, SameSettled, PortAside
<1>3. CASE Lookup(r)
  <2>1. /\ request'[r].pc = "st_port"
        /\ \A o \in Requests \ {r} : request'[o] = request[o]
        /\ UNCHANGED <<producers, issued>>
    BY <1>3, LookupStep
  <2>2. Settled({})
    <3>1. CASE gst' = gst
      BY <3>1, SameSettled
    <3>2. CASE \E g \in Gstreamers : gst' = [gst EXCEPT ![g].m = request[r].m]
      <4>1. PICK g \in Gstreamers : gst' = [gst EXCEPT ![g] = [gst[g] EXCEPT !.m = request[r].m]]
        BY <3>2
      <4>2. PICK j : j = [gst[g] EXCEPT !.m = request[r].m]
        OBVIOUS
      <4>3. GstOK /\ gst[g] \in Instance
        BY DEF Typed, GstOK, Sound
      <4>4. j.udp_src = gst[g].udp_src /\ j.elements = gst[g].elements
            /\ j.state = gst[g].state /\ j.bound = gst[g].bound
        BY <4>2, <4>3 DEF Instance
      <4>5. Fits(g, j, {})
        BY <4>4, FitsSame
      <4> QED
        BY <4>1, <4>2, <4>3, <4>5, OneSettles
    <3> QED
      BY <1>3, <3>1, <3>2 DEF Lookup
  <2> QED
    BY <2>1, <2>2, PortAside
<1> QED
  BY <1>1, <1>2, <1>3

\* The source of a start is new.
LEMMA PortGetFreePort ==
  ASSUME Typed, PortInv, NEW r \in Requests, GetFreePort(r)
  PROVE  PortInv'
<1> DEFINE q == request[r]
<1>1. q.pc = "st_port" /\ gst' = gst /\ producers' = producers /\ q \in Call
  BY DEF GetFreePort, Typed, RequestOK, CallOK
<1>2. CASE Done(r) /\ issued' = issued
  <2>1. Ends(r)
    BY <1>2, DoneEnds DEF Typed
  <2> QED
    BY <1>1, <1>2, <2>1, SameSettled, PortWalks DEF Strolls
<1>3. ASSUME NEW src \in Sources \ issued, NEW port,
             issued' = issued \cup {src},
             Go(r, "st_rtp", [q EXCEPT !.src = src, !.port = port])
      PROVE  PortInv'
  <2>1. /\ request'[r].pc = "st_rtp" /\ request'[r].src = src
        /\ \A o \in Requests \ {r} : request'[o] = request[o]
    BY <1>1, <1>3 DEF Go, Typed, RequestOK, Call
  <2>2. Traces' \subseteq Traces \cup {}
    <3>1. \A o \in {r} : request'[o].pc \in Taking => request'[o].closed \subseteq Traces
      BY <2>1 DEF Taking
    <3>2. Settled({}) /\ {r} \in SUBSET Requests
      BY <1>1, SameSettled
    <3> QED
      BY <2>1, <3>1, <3>2, TracesSettle
  <2>3. \A e \in Traces' : e.src # src
    BY <1>3, <2>2 DEF PortInv
  <2>4. \A x \in producers' : x.src # src
    BY <1>1, <1>3 DEF PortInv
  <2>5. PICK n : n = request'[r]
    OBVIOUS
  <2>6. Keeping(request[r])'
    BY <1>3, <2>1, <2>3, <2>4 DEF Keeping, Binding, Entering, Taking, MadeSoFar
  <2>7. request'[r].pc \notin Taking /\ request'[r].src \notin issued
    BY <1>3, <2>1 DEF Taking
  <2> QED
    BY <1>1, <1>3, <2>1, <2>6, <2>7, SameSettled, PortRequest
<1> QED
  BY <1>2, <1>3 DEF GetFreePort

\* An element that is made has the start's own source, so no other request knows it.
LEMMA PortMade ==
  ASSUME Typed, PortInv, NEW r \in Requests, NEW step, NEW part,
         \/ request[r].pc = "st_rtp" /\ step = "st_shared" /\ part = "rtp"
         \/ request[r].pc = "st_shared" /\ step = "st_pause" /\ part = "rtcp",
         Settled({SourceElement(request[r], part)}), UNCHANGED <<producers, issued>>,
         \A o \in Requests \ {r} : request'[o] = request[o],
         \/ request'[r].pc = "idle"
         \/ /\ request'[r].pc = step /\ request'[r].src = request[r].src
            /\ request'[r].p = request[r].p /\ request'[r].kind = request[r].kind
            /\ request'[r].port = request[r].port
  PROVE  PortInv'
<1>1. PICK q, d, made : q = request[r] /\ d = request'[r] /\ made = {SourceElement(q, part)}
  OBVIOUS
<1>2. /\ q.pc \in Sourcing /\ q.pc \in Sourced \ {"st_insert"} /\ Keeping(q)
      /\ part \in Parts /\ part # "rtp" <=> q.pc = "st_shared"
  BY <1>1 DEF Sourcing, Sourced, Started, StartSteps, Parts, PortInv
<1>3. /\ \A e \in Traces : e.src = q.src => e \in MadeSoFar(q)
      /\ q.src \in issued /\ \A x \in producers : x.src # q.src
  BY <1>2 DEF Keeping
<1>4. \A e \in made : e \notin Traces /\ e.src = q.src
  <2>1. MadeSoFar(q) = IF part = "rtp" THEN {} ELSE {SourceElement(q, "rtp")}
    BY <1>1, <1>2 DEF MadeSoFar
  <2>2. \A e \in made : e.src = q.src /\ e.part = part
    BY <1>1 DEF SourceElement
  <2>3. SourceElement(q, "rtp").part = "rtp"
    BY DEF SourceElement
  <2> QED
    BY <1>3, <2>1, <2>2, <2>3
<1>5. d.pc \notin Taking \cup Binding /\ ~Entering(d) /\ (d.pc \in Sourced => d.src = q.src)
  BY <1>1 DEF Taking, Binding, Entering, Sourced, Started, StartSteps
<1>6. Traces' \subseteq Traces \cup made
  <2>1. PICK R : R = {r}
    OBVIOUS
  <2>2. R \in SUBSET Requests /\ \A o \in Requests \ R : request'[o] = request[o]
    BY <2>1
  <2>3. \A o \in R : request'[o].pc \in Taking => request'[o].closed \subseteq Traces
    BY <1>1, <1>5, <2>1
  <2> QED
    BY <1>1, <2>2, <2>3, TracesSettle
<1>7. ASSUME d.pc = step, NEW e \in Traces', e.src = d.src PROVE e \in MadeSoFar(d)
  <2>1. e \in MadeSoFar(q) \cup made
    BY <1>1, <1>3, <1>6, <1>7
  <2>2. \A other : SourceElement(d, other) = SourceElement(q, other)
    BY <1>1, <1>7 DEF SourceElement
  <2>3. CASE step = "st_shared"
    <3>1. MadeSoFar(q) = {} /\ MadeSoFar(d) = {SourceElement(d, "rtp")} /\ part = "rtp"
      BY <1>1, <1>7, <2>3 DEF MadeSoFar
    <3> QED
      BY <1>1, <2>1, <2>2, <3>1
  <2>4. CASE step = "st_pause"
    <3>1. MadeSoFar(q) = {SourceElement(q, "rtp")} /\ MadeSoFar(d) = Own(d)
      BY <1>1, <1>7, <2>4 DEF MadeSoFar
    <3>2. e = SourceElement(d, "rtp") \/ e = SourceElement(d, "rtcp")
      BY <1>1, <2>1, <2>2, <2>4, <3>1
    <3> QED
      BY <3>1, <3>2 DEF Own, Parts
  <2> QED
    BY <2>3, <2>4
<1>8. Keeping(d)'
  <2>1. d.pc \in Sourced => d.pc = step
    BY <1>1 DEF Sourced, Started, StartSteps
  <2>2. d.pc \in Sourcing => d.pc = step
    BY <1>1 DEF Sourcing, Adding
  <2> QED
    BY <1>3, <1>5, <1>7, <2>1, <2>2 DEF Keeping, Entering, MadeSoFar, Own, SourceElement
<1>9. Keeping(request[r])'
  BY <1>1, <1>8
<1> QED
  BY <1>1, <1>2, <1>4, <1>5, <1>9, PortRequest

\* The two steps that make elements.
LEMMA PortMakes ==
  ASSUME Typed, PortInv, NEW r \in Requests, MakeSource(r) \/ MakeElements(r)
  PROVE  PortInv'
<1> DEFINE q == request[r]
<1>1. /\ q.pc \in {"st_rtp", "st_shared"} /\ UNCHANGED <<producers, issued>>
      /\ q.g \in Gstreamers /\ GstOK /\ q \in Call /\ gst[q.g] \in Instance
  BY StartedKnows DEF MakeSource, MakeElements, Typed, Started, StartSteps, Sound
<1>2. ASSUME NEW part, NEW j, NEW i, i = gst[q.g],
             j.udp_src \subseteq i.udp_src \cup {SourceElement(q, part)},
             j.elements = i.elements, j.bound = i.bound, j.state = i.state,
             gst' = [gst EXCEPT ![q.g] = j]
      PROVE  Settled({SourceElement(q, part)})
  <2>1. Fits(q.g, j, {SourceElement(q, part)})
    BY <1>2 DEF Fits
  <2> QED
    BY <1>1, <1>2, <2>1, OneSettles
<1>3. CASE MakeSource(r)
  <2>1. q.pc = "st_rtp"
    BY <1>3 DEF MakeSource
  <2>2. CASE Done(r) /\ gst' = gst
    BY <1>1, <2>2, DoneEnds, SameSettled, PortWalks DEF Typed, Strolls
  <2>3. CASE /\ gst' = [gst EXCEPT ![q.g].udp_src = Insert(@, SourceElement(q, "rtp"))]
             /\ Go(r, "st_shared", q)
    <3>1. PICK udp_src : udp_src = Insert(gst[q.g].udp_src, SourceElement(q, "rtp"))
      OBVIOUS
    <3>2. PICK j : j = [gst[q.g] EXCEPT !.udp_src = udp_src]
      OBVIOUS
    <3>3. /\ j.udp_src \subseteq gst[q.g].udp_src \cup {SourceElement(q, "rtp")}
          /\ j.elements = gst[q.g].elements /\ j.bound = gst[q.g].bound
          /\ j.state = gst[q.g].state
      BY <1>1, <3>1, <3>2 DEF Instance, Insert
    <3>4. gst' = [gst EXCEPT ![q.g] = j]
      BY <2>3, <3>1, <3>2
    <3>5. Settled({SourceElement(q, "rtp")})
      BY <1>2, <3>3, <3>4
    <3>6. /\ request'[r].pc = "st_shared" /\ request'[r].src = q.src /\ request'[r].p = q.p
          /\ request'[r].kind = q.kind /\ request'[r].port = q.port
          /\ \A o \in Requests \ {r} : request'[o] = request[o]
      BY <1>1, <2>3, GoFields DEF Typed, Steps, StartSteps
    <3> QED
      BY <1>1, <2>1, <3>5, <3>6, PortMade
  <2> QED
    BY <1>3, <2>2, <2>3 DEF MakeSource, Failing
<1>4. CASE MakeElements(r)
  <2>1. PICK n : gst' = [gst EXCEPT ![q.g] = Made(@, q, n)]
    BY <1>4, Zenon DEF MakeElements
  <2>2. PICK shared, udp_src :
          /\ Made(gst[q.g], q, n) = [gst[q.g] EXCEPT !.shared = shared, !.udp_src = udp_src]
          /\ udp_src \subseteq gst[q.g].udp_src \cup {SourceElement(q, "rtcp")}
    BY DEF Made, Insert
  <2>3. PICK j : j = [gst[q.g] EXCEPT !.shared = shared, !.udp_src = udp_src]
    OBVIOUS
  <2>4. /\ j.udp_src \subseteq gst[q.g].udp_src \cup {SourceElement(q, "rtcp")}
        /\ j.elements = gst[q.g].elements /\ j.bound = gst[q.g].bound
        /\ j.state = gst[q.g].state
    BY <1>1, <2>2, <2>3 DEF Instance
  <2>5. gst' = [gst EXCEPT ![q.g] = j]
    BY <2>1, <2>2, <2>3
  <2>6. Settled({SourceElement(q, "rtcp")})
    BY <1>2, <2>4, <2>5
  <2>7. q.pc = "st_shared" /\ \A o \in Requests \ {r} : request'[o] = request[o]
    BY <1>4, MakeElementsStep
  <2>8. CASE Ends(r)
    BY <1>1, <2>6, <2>7, <2>8, PortMade DEF Ends, NoRequest
  <2>9. CASE Go(r, "st_pause", [q EXCEPT !.fresh = Needed(Media(q.kind)) \ gst[q.g].shared])
    <3>1. PICK fresh : fresh = Needed(Media(q.kind)) \ gst[q.g].shared
      OBVIOUS
    <3>2. PICK d : d = [q EXCEPT !.fresh = fresh]
      OBVIOUS
    <3>3. d.src = q.src /\ d.p = q.p /\ d.kind = q.kind /\ d.port = q.port
      BY <1>1, <3>2 DEF Call
    <3>4. request' = [request EXCEPT ![r] = [d EXCEPT !.pc = "st_pause"]]
      BY <2>9, <3>1, <3>2 DEF Go
    <3>5. request'[r] = [d EXCEPT !.pc = "st_pause"]
      BY <3>4 DEF Typed, RequestOK
    <3>6. /\ request'[r].pc = "st_pause" /\ request'[r].src = q.src /\ request'[r].p = q.p
          /\ request'[r].kind = q.kind /\ request'[r].port = q.port
      BY <1>1, <3>2, <3>3, <3>5 DEF Call
    <3> QED
      BY <1>1, <2>6, <2>7, <3>6, PortMade
  <2> QED
    BY <1>4, <2>8, <2>9, DoneEnds DEF MakeElements, Failing, Typed
<1> QED
  BY <1>3, <1>4

\* What a start keeps on its way: with its source it goes on to a later step.
LEMMA PortOnward ==
  ASSUME Typed, PortInv, NEW r \in Requests, NEW step \in Steps, NEW q, q = request[r],
         Go(r, step, q), Settled({}), issued' = issued,
         q.pc \in Sourced \ {"st_insert"},
         \/ /\ step \in {"st_link", "st_connect"} /\ producers' = producers
            /\ step = "st_link" => Receivers(q.g, q.src)' \subseteq gst'[q.g].elements
            /\ step = "st_connect" => Received(q.g, q.src)'
         \/ /\ step = "st_insert" /\ q.pc = "st_publish"
            /\ \A x \in producers' : x \in producers \/ (x.g = q.g /\ x.src = q.src)
  PROVE  PortInv'
<1>1. PICK d : /\ d = request'[r] /\ d.pc = step /\ Keeping(q)
               /\ d.g = q.g /\ d.src = q.src /\ q.g \in Gstreamers
  BY GoFields, StartedKnows DEF Typed, RequestOK, CallOK, PortInv, Sourced
<1>2. \A o \in Requests \ {r} : request'[o] = request[o]
  BY GoFields DEF Typed, RequestOK, CallOK
<1>3. q.pc = "st_publish" => Received(q.g, q.src)'
  BY <1>1, ReceiversSettle DEF Keeping, Entering
<1>4. Keeping(d)'
  <2>1. q.src \in issued /\ (\A x \in producers : x.src # q.src)
    BY <1>1 DEF Keeping
  <2>2. d.pc \notin Sourcing \cup Taking
    BY <1>1 DEF Sourcing, Taking, Adding
  <2>3. d.pc \in Binding => Receivers(d.g, d.src)' \subseteq gst'[d.g].elements
    BY <1>1 DEF Binding
  <2>4. Entering(d) => Received(d.g, d.src)'
    BY <1>1, <1>3 DEF Entering
  <2>5. d.pc \in Sourced \ {"st_insert"} => producers' = producers
    BY <1>1
  <2> QED
    BY <1>1, <2>1, <2>2, <2>3, <2>4, <2>5 DEF Keeping
<1>5. Keeping(request[r])'
  BY <1>1, <1>4
<1>6. request'[r].pc \notin Taking
  BY <1>1 DEF Taking
<1>7. \A x \in producers' :
          \/ x \in producers
          \/ /\ Received(x.g, x.src)' /\ x.src = request[r].src
             /\ request[r].pc \in Sourced /\ request'[r].pc = "st_insert"
  BY <1>1, <1>3
<1> QED
  BY <1>1, <1>2, <1>5, <1>6, <1>7, PortRequest

\* All that a start has made is in the pipeline once it is added, ...
LEMMA PortAddElements ==
  ASSUME Typed, PortInv, NEW r \in Requests, AddElements(r)
  PROVE  PortInv'
<1>1. PICK q, i : q = request[r] /\ i = gst[q.g]
  OBVIOUS
<1>2. /\ q.pc = "st_add" /\ UNCHANGED <<producers, issued>> /\ q.g \in Gstreamers
      /\ GstOK /\ i \in Instance /\ q.pc \in Sourced \ {"st_insert"} /\ Keeping(q)
  BY <1>1, StartedKnows DEF AddElements, Typed, Started, StartSteps, Sound, Sourced, PortInv
<1>3. ASSUME NEW n, gst' = [gst EXCEPT ![q.g] = Added(i, q, n)]
      PROVE  Settled({}) /\ Own(q) \subseteq gst'[q.g].elements
                         /\ gst'[q.g].udp_src = i.udp_src
  <2>1. PICK elements, attached : /\ elements = i.elements \cup Own(q)
                                  /\ Added(i, q, n) =
                                       [i EXCEPT !.elements = elements, !.attached = attached]
    BY DEF Added, Own
  <2>2. PICK j : j = [i EXCEPT !.elements = elements, !.attached = attached]
    OBVIOUS
  <2>3. /\ j.udp_src = i.udp_src /\ j.elements = elements
        /\ j.bound = i.bound /\ j.state = i.state
    BY <1>2, <2>2 DEF Instance
  <2>4. Fits(q.g, j, {})
    <3>1. gst[q.g].elements \subseteq j.elements
      BY <1>1, <2>1, <2>3
    <3> QED
      BY <1>1, <1>2, <2>3, <3>1, FitsSame
  <2>5. gst' = [gst EXCEPT ![q.g] = j]
    BY <1>3, <2>1, <2>2
  <2>6. Settled({}) /\ gst'[q.g] = j
    BY <1>2, <2>4, <2>5, OneSettles
  <2>7. Own(q) \subseteq j.elements
    BY <2>1, <2>3
  <2> QED
    BY <2>3, <2>6, <2>7
<1>4. CASE Done(r) /\ gst' = gst
  BY <1>2, <1>4, DoneEnds, SameSettled, PortWalks DEF Typed, Strolls
<1>5. ASSUME NEW n, gst' = [gst EXCEPT ![q.g] = Added(i, q, n)], Done(r) PROVE PortInv'
  BY <1>2, <1>3, <1>5, DoneEnds, PortWalks DEF Typed, Strolls
<1>6. CASE gst' = [gst EXCEPT ![q.g] = Added(i, q, Len(Groups))] /\ Go(r, "st_link", q)
  <2>1. Receivers(q.g, q.src) \subseteq Own(q)
    <3>1. \A e \in i.udp_src : e \in Traces
      BY <1>1, <1>2, InMapsAre DEF Traces
    <3>2. MadeSoFar(q) = Own(q) /\ q.pc \in Sourcing
      BY <1>2 DEF MadeSoFar, Sourcing, Adding
    <3> QED
      BY <1>1, <1>2, <3>1, <3>2 DEF Receivers, Keeping
  <2>2. Receivers(q.g, q.src)' \subseteq gst'[q.g].elements
    <3>1. Receivers(q.g, q.src)' = Receivers(q.g, q.src)
      BY <1>1, <1>3, <1>6 DEF Receivers
    <3> QED
      BY <1>3, <1>6, <2>1, <3>1
  <2>3. Settled({}) /\ "st_link" \in Steps
    BY <1>3, <1>6 DEF Steps, StartSteps
  <2> QED
    BY <1>1, <1>2, <1>6, <2>2, <2>3, PortOnward
<1> QED
  BY <1>1, <1>4, <1>5, <1>6 DEF AddElements, Failing

\* ... and holds its sockets once the pipeline plays.
LEMMA PortPlayPipeline ==
  ASSUME Typed, PortInv, NEW r \in Requests, PlayPipeline(r)
  PROVE  PortInv'
<1>1. PICK q : q = request[r]
  OBVIOUS
<1>2. /\ q.pc = "st_play" /\ UNCHANGED <<producers, issued>> /\ q.g \in Gstreamers
      /\ GstOK /\ Sound(gst[q.g]) /\ q.pc \in Sourced \ {"st_insert"} /\ Keeping(q)
  BY <1>1, StartedKnows DEF PlayPipeline, Typed, Started, StartSteps, Sourced, PortInv
<1>3. PICK out \in SetState(q.g, gst[q.g], "Playing") :
        /\ gst' = [gst EXCEPT ![q.g] = out.to]
        /\ \/ out.ok /\ Go(r, "st_connect", q)
           \/ Go(r, "st_fail", q)
           \/ Done(r)
  BY <1>1 DEF PlayPipeline
<1>4. /\ Settled({}) /\ gst'[q.g] = out.to
      /\ out.to.udp_src = gst[q.g].udp_src /\ out.to.elements = gst[q.g].elements
      /\ out.ok => out.to.bound = gst[q.g].elements
  <2>1. /\ Fits(q.g, out.to, {}) /\ out.to.udp_src = gst[q.g].udp_src
        /\ out.to.elements = gst[q.g].elements
        /\ out.ok => out.to.bound = gst[q.g].elements
    <3>1. "Playing" \in {"Null", "Paused", "Playing"} /\ "Playing" # "Null"
      OBVIOUS
    <3>2. PICK i : i = gst[q.g]
      OBVIOUS
    <3>3. Sound(i) /\ i.udp_src \subseteq gst[q.g].udp_src
          /\ gst[q.g].elements \cap i.udp_src \subseteq i.elements
          /\ gst[q.g].bound \cap i.udp_src \subseteq i.bound
          /\ i.bound \subseteq gst[q.g].bound /\ i.state = gst[q.g].state
      BY <1>2, <3>2
    <3> QED
      BY <1>2, <1>3, <3>1, <3>2, <3>3, SetStateFits
  <2> QED
    BY <1>2, <1>3, <2>1, OneSettles
<1>5. CASE Done(r)
  BY <1>2, <1>4, <1>5, DoneEnds, PortWalks DEF Typed, Strolls
<1>6. CASE Go(r, "st_fail", q)
  <2>1. Strolls(r, "st_fail")
    BY <1>1, <1>2, <1>6 DEF Strolls, Steps, StartSteps, Sourcing, Adding, Binding, Taking
  <2> QED
    BY <1>2, <1>4, <2>1, PortWalks
<1>7. CASE out.ok /\ Go(r, "st_connect", q)
  <2>1. Receivers(q.g, q.src) \subseteq gst[q.g].elements
    BY <1>2 DEF Keeping, Binding
  <2>2. Received(q.g, q.src)'
    BY <1>4, <1>7, <2>1 DEF Received, Receivers
  <2>3. "st_connect" \in Steps
    BY DEF Steps, StartSteps
  <2> QED
    BY <1>1, <1>2, <1>4, <1>7, <2>2, <2>3, PortOnward
<1> QED
  BY <1>3, <1>5, <1>6, <1>7

\* What is published was received when its pipeline played.
LEMMA PortPublishProducer ==
  ASSUME Typed, PortInv, NEW r \in Requests, PublishProducer(r)
  PROVE  PortInv'
<1>1. /\ request[r].pc = "st_publish" /\ Go(r, "st_insert", request[r]) /\ gst' = gst
      /\ issued' = issued /\ "st_insert" \in Steps
      /\ request[r].pc \in Sourced \ {"st_insert"}
  BY DEF PublishProducer, Steps, StartSteps, Sourced, Started
<1>2. \A x \in producers' : x \in producers \/ (x.g = request[r].g /\ x.src = request[r].src)
  BY DEF PublishProducer
<1> QED
  BY <1>1, <1>2, SameSettled, PortOnward


\* An instance settles that keeps its maps, elements and sockets, ...
LEMMA SameShapeSettles ==
  ASSUME GstOK, NEW g \in Gstreamers, NEW j, gst' = [gst EXCEPT ![g] = j],
         j.udp_src = gst[g].udp_src, j.elements = gst[g].elements,
         j.bound = gst[g].bound, j.state = gst[g].state
  PROVE  Settled({})
<1>1. Fits(g, j, {})
  BY FitsSame
<1> QED
  BY <1>1, OneSettles

\* ... or whose state is changed then, and whose branches or errors are.
LEMMA StateSettles ==
  ASSUME GstOK, NEW g \in Gstreamers, NEW i, Sound(i), i.udp_src = gst[g].udp_src,
         i.elements = gst[g].elements, i.bound = gst[g].bound, i.state = gst[g].state,
         NEW s \in {"Null", "Paused", "Playing"}, NEW out \in SetState(g, i, s),
         NEW j, gst' = [gst EXCEPT ![g] = j], j.udp_src = out.to.udp_src,
         j.elements = out.to.elements, j.bound = out.to.bound, j.state = out.to.state
  PROVE  Settled({})
<1>1. /\ i.udp_src \subseteq gst[g].udp_src
      /\ gst[g].elements \cap i.udp_src \subseteq i.elements
      /\ gst[g].bound \cap i.udp_src \subseteq i.bound
      /\ i.bound \subseteq gst[g].bound
  OBVIOUS
<1>2. Fits(g, out.to, {})
  BY <1>1, SetStateFits
<1>3. Fits(g, j, {})
  BY <1>2 DEF Fits
<1> QED
  BY <1>3, OneSettles

\* Steps of a request that move no elements.
LEMMA PortStrolls ==
  ASSUME Typed, PortInv, NEW r \in Requests,
         \/ PausePipeline(r) \/ LinkSource(r) \/ InsertSession(r) \/ WatchBus(r)
         \/ AbortState(r) \/ ReplayPipeline(r) \/ ConnectPlain(r) \/ RegisterProducer(r)
         \/ InsertPipeline(r) \/ CloseInMaps(r) \/ CloseLocksInner(r)
         \/ CloseLocksPipeline(r) \/ EndInMaps(r) \/ EndStops(r) \/ RequestPanics(r)
  PROVE  PortInv'
<1> DEFINE q == request[r]
<1>1. GstOK /\ (Done(r) => Strolls(r, "idle"))
  BY DoneEnds DEF Typed, Strolls
<1>2. q.pc \in Started \cup {"en_null"} => q.g \in Gstreamers /\ Sound(gst[q.g])
  BY DEF Typed, RequestOK, CallOK, GstOK
<1> USE DEF Steps, StartSteps, Started, Sourcing, Adding, Binding, Taking, Sourced
<1>3. CASE WatchBus(r) \/ AbortState(r) \/ RegisterProducer(r) \/ InsertPipeline(r)
           \/ CloseInMaps(r) \/ CloseLocksInner(r) \/ CloseLocksPipeline(r) \/ EndInMaps(r)
           \/ RequestPanics(r)
  <2>1. gst' = gst /\ producers' \subseteq producers /\ issued' = issued
    BY <1>3 DEF WatchBus, AbortState, RegisterProducer, InsertPipeline, CloseInMaps,
                CloseLocksInner, CloseLocksPipeline, EndInMaps, RequestPanics
  <2>2. \/ Done(r)
        \/ q.pc = "st_clone" /\ Go(r, "st_play", q)
        \/ q.pc = "st_abort" /\ Go(r, "st_drop", q)
        \/ q.pc = "st_register" /\ Go(r, "st_publish", q)
        \/ q.pc = "st_register" /\ Go(r, "st_insert", q)
        \/ Go(r, "cl_lookup", q)
        \/ Go(r, "cl_pipeline", q)
        \/ Go(r, "cl_pause", q)
        \/ Go(r, "en_lookup", q)
    BY <1>3 DEF WatchBus, AbortState, RegisterProducer, InsertPipeline, CloseInMaps,
                CloseLocksInner, CloseLocksPipeline, EndInMaps, RequestPanics
  <2>3. \E step : Strolls(r, step)
    BY <1>1, <2>2 DEF Strolls
  <2> QED
    BY <2>1, <2>3, SameSettled, PortWalks
<1>4. CASE LinkSource(r) \/ InsertSession(r) \/ ConnectPlain(r)
  <2>1. /\ q.pc \in Started /\ UNCHANGED <<producers, issued>>
        /\ \/ gst' = gst
           \/ gst' = [gst EXCEPT ![q.g].linked = @ \cup {q.src}]
           \/ gst' = [gst EXCEPT ![q.g].sessions = @ \cup {SourceElement(q, "rtp")}]
           \/ gst' = [gst EXCEPT ![q.g].fed = @ \cup {q.src}]
        /\ \/ Done(r)
           \/ q.pc = "st_link" /\ Go(r, "st_meta", q)
           \/ q.pc = "st_meta" /\ Go(r, "st_clone", q)
           \/ q.pc = "st_connect" /\ Go(r, "st_register", q)
    BY <1>4 DEF LinkSource, InsertSession, ConnectPlain, Failing
  <2>2. \E step : Strolls(r, step)
    BY <1>1, <2>1 DEF Strolls
  <2>3. Settled({})
    <3>1. CASE gst' = gst
      BY <3>1, SameSettled
    <3>2. CASE gst' # gst
      <4>1. PICK linked, sessions, fed, j :
              /\ j = [gst[q.g] EXCEPT !.linked = linked] \/ j = [gst[q.g] EXCEPT !.fed = fed]
                   \/ j = [gst[q.g] EXCEPT !.sessions = sessions]
              /\ gst' = [gst EXCEPT ![q.g] = j]
        BY <2>1, <3>2
      <4>2. /\ j.udp_src = gst[q.g].udp_src /\ j.elements = gst[q.g].elements
            /\ j.bound = gst[q.g].bound /\ j.state = gst[q.g].state
        BY <1>2, <2>1, <4>1 DEF Sound, Instance
      <4> QED
        BY <1>1, <1>2, <2>1, <4>1, <4>2, SameShapeSettles
    <3> QED
      BY <3>1, <3>2
  <2> QED
    BY <2>1, <2>2, <2>3, PortWalks
<1>5. CASE PausePipeline(r) \/ ReplayPipeline(r) \/ EndStops(r)
  <2>1. PICK s \in {"Null", "Paused", "Playing"} : \E out \in SetState(q.g, gst[q.g], s) :
          /\ gst' = [gst EXCEPT ![q.g] = out.to]
          /\ q.pc \in Started \cup {"en_null"} /\ UNCHANGED <<producers, issued>>
          /\ Done(r) \/ (q.pc = "st_pause" /\ Go(r, "st_add", q))
    <3>1. "Null" \in {"Null", "Paused", "Playing"} /\ "Paused" \in {"Null", "Paused", "Playing"}
          /\ "Playing" \in {"Null", "Paused", "Playing"}
      OBVIOUS
    <3> QED
      BY <1>5, <3>1, Zenon DEF PausePipeline, ReplayPipeline, EndStops
  <2>2. \E step : Strolls(r, step)
    BY <1>1, <2>1 DEF Strolls
  <2>3. Settled({})
    BY <1>1, <1>2, <2>1, StateSettles
  <2> QED
    BY <2>1, <2>2, <2>3, PortWalks
<1> QED
  BY <1>3, <1>4, <1>5

\* A start that fails takes its elements out of the maps.
LEMMA PortFailSource ==
  ASSUME Typed, PortInv, NEW r \in Requests, FailSource(r)
  PROVE  PortInv'
<1> DEFINE mine(x) == x.p = request[r].p /\ x.media = Media(request[r].kind)
<1>1. PICK q, i, udp, sessions, closed, pads :
        /\ q = request[r] /\ i = gst[q.g]
        /\ udp = {x \in i.udp_src : ~mine(x)} /\ closed = {x \in i.udp_src : mine(x)}
        /\ sessions = {x \in i.sessions : ~mine(x)}
        /\ pads = {x.src : x \in {y \in i.sessions : mine(y)}}
  OBVIOUS
<1>2. /\ q.pc = "st_fail" /\ UNCHANGED <<producers, issued>>
      /\ Go(r, "st_abort", [q EXCEPT !.closed = closed, !.pads = pads])
  BY <1>1 DEF FailSource
<1>3. q.g \in Gstreamers /\ Sound(i) /\ GstOK /\ q \in Call /\ Keeping(q)
  BY <1>1, <1>2, StartedKnows DEF StartSteps, Started, Typed, RequestOK, CallOK, PortInv
<1>4. gst' = [gst EXCEPT ![q.g] = [i EXCEPT !.udp_src = udp, !.sessions = sessions]]
  BY <1>1, <1>3, Zenon DEF FailSource, GstOK
<1>5. PICK j : j = [i EXCEPT !.udp_src = udp, !.sessions = sessions]
  OBVIOUS
<1>6. j.udp_src = udp /\ j.elements = i.elements /\ j.bound = i.bound /\ j.state = i.state
  BY <1>3, <1>5 DEF Sound, Instance
<1>7. Settled({}) /\ gst'[q.g] = j
  <2>1. Fits(q.g, j, {})
    BY <1>1, <1>6 DEF Fits
  <2> QED
    BY <1>3, <1>4, <1>5, <2>1, OneSettles
<1>8. PICK n : n = [q EXCEPT !.closed = closed, !.pads = pads]
  OBVIOUS
<1>9. n \in Call /\ n.g = q.g /\ n.src = q.src /\ n.closed = closed
  <2>1. closed \in SUBSET Element /\ pads \in SUBSET Sources
    BY <1>1, <1>3 DEF Sound, Instance, Element
  <2> QED
    BY <1>3, <1>8, <2>1 DEF Call
<1>10. PICK d : /\ d = request'[r] /\ d.pc = "st_abort" /\ d.g = q.g /\ d.src = q.src
                /\ d.closed = closed
                /\ \A o \in Requests \ {r} : request'[o] = request[o]
  <2>1. Go(r, "st_abort", n) /\ "st_abort" \in Steps
    BY <1>2, <1>8 DEF Steps, StartSteps
  <2> QED
    BY <1>9, <2>1, GoFields DEF Typed
<1>11. q.pc \in Sourced \ {"st_insert"}
  BY <1>2 DEF Sourced, Started, StartSteps
<1>12. Keeping(d)'
  <2>1. q.src \in issued' /\ \A x \in producers' : x.src # q.src
    BY <1>2, <1>3, <1>11 DEF Keeping
  <2>2. closed \cap gst'[q.g].udp_src = {}
    BY <1>1, <1>6, <1>7
  <2> QED
    BY <1>10, <2>1, <2>2 DEF Keeping, Sourcing, Adding, Binding, Entering
<1>13. Keeping(request[r])'
  BY <1>10, <1>12
<1>14. request'[r].closed \subseteq Traces
  BY <1>1, <1>3, <1>10, InMapsAre DEF Traces
<1> QED
  BY <1>1, <1>2, <1>7, <1>10, <1>11, <1>13, <1>14, PortRequest

\* The elements that leave the pipeline are in no map any more.
LEMMA PortDropSource ==
  ASSUME Typed, PortInv, NEW r \in Requests, DropSource(r)
  PROVE  PortInv'
<1>1. PICK q, i, j : /\ q = request[r] /\ i = gst[q.g]
                     /\ j = [i EXCEPT !.elements = @ \ q.closed, !.bound = @ \ q.closed,
                                      !.linked = @ \ q.pads, !.fed = @ \ q.pads]
  OBVIOUS
<1>2. q.pc = "st_drop" /\ UNCHANGED <<producers, issued>> /\ Go(r, "st_replay", q)
  BY <1>1 DEF DropSource
<1>3. q.g \in Gstreamers /\ Sound(i) /\ GstOK /\ Keeping(q)
  BY <1>1, <1>2, StartedKnows DEF StartSteps, Started, Typed, PortInv
<1>4. gst' = [gst EXCEPT ![q.g] = j]
  BY <1>1, <1>3, Zenon DEF DropSource, GstOK
<1>5. /\ j.udp_src = i.udp_src /\ j.elements = i.elements \ q.closed
      /\ j.bound = i.bound \ q.closed /\ j.state = i.state
  BY <1>1, <1>3 DEF Sound, Instance
<1>6. q.closed \cap i.udp_src = {}
  BY <1>1, <1>2, <1>3 DEF Keeping, Taking
<1>7. Settled({})
  <2>1. Fits(q.g, j, {})
    BY <1>1, <1>5, <1>6 DEF Fits
  <2> QED
    BY <1>3, <1>4, <2>1, OneSettles
<1>8. Strolls(r, "st_replay")
  BY <1>1, <1>2 DEF Strolls, Steps, StartSteps, Started, Sourcing, Adding, Binding, Taking, Sourced
<1> QED
  BY <1>2, <1>7, <1>8, PortWalks

\* A close takes the elements of the participant out of the maps and closes sockets of
\* no others.
LEMMA PortClosePauses ==
  ASSUME Typed, PortInv, NEW r \in Requests, ClosePauses(r)
  PROVE  PortInv'
<1>1. PICK q, i, c, n : /\ q = request[r] /\ i = gst[q.g] /\ c = Cleared(i, q.p)
                        /\ n = TakeCleared(q, i)
  OBVIOUS
<1>2. PICK out, nulled :
        /\ out \in SetState(q.g, c, "Paused")
        /\ nulled \subseteq n.closed
        /\ \/ gst' = [gst EXCEPT ![q.g] = [out.to EXCEPT !.bound = @ \ nulled]]
           \/ gst' = [gst EXCEPT ![q.g] = out.to]
        /\ Go(r, "cl_remove", n) \/ Done(r)
        /\ q.pc = "cl_pause" /\ UNCHANGED <<producers, issued>>
  <2>1. \A place : Before(NullOrder, place, n) \subseteq n.closed
    BY DEF Before
  <2>2. PICK out \in SetState(q.g, c, "Paused") :
          \/ /\ gst' = [gst EXCEPT ![q.g] = [out.to EXCEPT !.bound = @ \ n.closed]]
             /\ Go(r, "cl_remove", n)
          \/ /\ \E place : gst' = [gst EXCEPT ![q.g] =
                                     [out.to EXCEPT !.bound = @ \ Before(NullOrder, place, n)]]
             /\ Done(r)
          \/ gst' = [gst EXCEPT ![q.g] = out.to] /\ Done(r)
    BY <1>1, Zenon DEF ClosePauses
  <2>3. q.pc = "cl_pause" /\ UNCHANGED <<producers, issued>>
    BY <1>1 DEF ClosePauses
  <2>4. n.closed \subseteq n.closed
    OBVIOUS
  <2> QED
    BY <2>1, <2>2, <2>3, <2>4
<1>3. q.g \in Gstreamers /\ Sound(i) /\ GstOK /\ q \in Call
  BY <1>1, <1>2 DEF Typed, RequestOK, CallOK, CloseSteps, GstOK
<1>4. Sound(c)
  BY <1>1, <1>3, ClearedSound
<1>5. /\ n \in Call /\ n.closed = {x \in i.udp_src : x.p = q.p} /\ n.g = q.g
  BY <1>1, <1>3, TakeClearedTyped DEF SameCall
<1>6. /\ c.udp_src = {x \in i.udp_src : x.p # q.p} /\ c.elements = i.elements
      /\ c.bound = i.bound \ n.closed /\ c.state = i.state
  BY <1>1, <1>3, <1>5 DEF Cleared, Sound, Instance
<1>7. Fits(q.g, out.to, {}) /\ out.to.udp_src = c.udp_src /\ Sound(out.to)
  <2>1. /\ c.udp_src \subseteq gst[q.g].udp_src
        /\ gst[q.g].elements \cap c.udp_src \subseteq c.elements
        /\ gst[q.g].bound \cap c.udp_src \subseteq c.bound
        /\ c.bound \subseteq gst[q.g].bound /\ c.state = gst[q.g].state
    BY <1>1, <1>5, <1>6
  <2>2. "Paused" \in {"Null", "Paused", "Playing"}
    OBVIOUS
  <2> QED
    BY <1>2, <1>3, <1>4, <2>1, <2>2, SetStateFits, SetStateSound
<1>8. PICK j : /\ gst' = [gst EXCEPT ![q.g] = j]
               /\ Fits(q.g, j, {}) /\ j.udp_src = c.udp_src
  <2>1. PICK k : k = [out.to EXCEPT !.bound = @ \ nulled]
    OBVIOUS
  <2>2. /\ k.udp_src = out.to.udp_src /\ k.elements = out.to.elements
        /\ k.state = out.to.state /\ k.bound = out.to.bound \ nulled
    BY <1>7, <2>1 DEF Sound, Instance
  <2>3. out.to.bound \cap out.to.udp_src \subseteq k.bound
    BY <1>2, <1>5, <1>6, <1>7, <2>2
  <2>4. Fits(q.g, k, {})
    BY <1>3, <1>7, <2>2, <2>3, FitsLess
  <2> QED
    BY <1>2, <1>7, <2>1, <2>2, <2>4
<1>9. Settled({}) /\ gst'[q.g].udp_src = c.udp_src
  BY <1>3, <1>8, OneSettles
<1>10. CASE Done(r)
  BY <1>2, <1>9, <1>10, DoneEnds, PortWalks DEF Typed, Strolls
<1>11. CASE Go(r, "cl_remove", n)
  <2>1. "cl_remove" \in Steps
    BY DEF Steps
  <2>2. PICK d : /\ d = request'[r] /\ d.pc = "cl_remove" /\ d.g = q.g /\ d.closed = n.closed
                 /\ \A o \in Requests \ {r} : request'[o] = request[o]
    BY <1>5, <1>11, <2>1, GoFields DEF Typed
  <2>3. d.closed \cap gst'[q.g].udp_src = {}
    BY <1>5, <1>6, <1>9, <2>2
  <2>4. Keeping(d)'
    BY <2>2, <2>3 DEF Keeping, Sourcing, Adding, Binding, Entering, Sourced, Started, StartSteps
  <2>5. Keeping(request[r])'
    BY <2>2, <2>4
  <2>6. request'[r].closed \subseteq Traces
    BY <1>1, <1>3, <1>5, <2>2, InMapsAre DEF Traces
  <2>7. request'[r].pc \notin Sourced
    BY <2>2 DEF Sourced, Started, StartSteps
  <2> QED
    BY <1>2, <1>9, <2>2, <2>5, <2>6, <2>7, PortRequest
<1> QED
  BY <1>2, <1>10, <1>11

\* What a close removes from the pipeline is in no map.
LEMMA PortCloseRemoves ==
  ASSUME Typed, PortInv, NEW r \in Requests, CloseRemoves(r)
  PROVE  PortInv'
<1>1. PICK q, i : q = request[r] /\ i = gst[q.g]
  OBVIOUS
<1>2. q.pc = "cl_remove" /\ Done(r) /\ UNCHANGED <<producers, issued>>
  BY <1>1 DEF CloseRemoves
<1>3. PICK n, w : /\ w = Without(i, n, q)
                  /\ \/ gst' = [gst EXCEPT ![q.g] = w]
                     \/ \E out \in SetState(q.g, w, "Playing") :
                           gst' = [gst EXCEPT ![q.g] = out.to]
  BY <1>1, Zenon DEF CloseRemoves
<1>4. q.g \in Gstreamers /\ Sound(i) /\ GstOK /\ Keeping(q)
  BY <1>1, <1>2 DEF Typed, RequestOK, CallOK, CloseSteps, GstOK, PortInv
<1>5. q.closed \cap i.udp_src = {}
  BY <1>1, <1>2, <1>4 DEF Keeping, Taking
<1>6. PICK removed : removed = Before(RemoveOrder, n, q) /\ removed \subseteq q.closed
  BY DEF Before
<1>7. /\ w.udp_src = i.udp_src /\ w.elements = i.elements \ removed
      /\ w.bound = i.bound \ removed /\ w.state = i.state
  <2>1. PICK linked, fed :
          w = [i EXCEPT !.elements = @ \ removed, !.bound = @ \ removed,
                        !.linked = linked, !.fed = fed]
    BY <1>3, <1>6 DEF Without
  <2> QED
    BY <1>4, <2>1 DEF Sound, Instance
<1>8. Sound(w)
  BY <1>3, <1>4, RemovedSound
<1>9. PICK j : gst' = [gst EXCEPT ![q.g] = j] /\ Fits(q.g, j, {})
  <2>1. Fits(q.g, w, {})
    BY <1>1, <1>5, <1>6, <1>7 DEF Fits
  <2>2. ASSUME NEW out \in SetState(q.g, w, "Playing") PROVE Fits(q.g, out.to, {})
    <3>1. /\ w.udp_src \subseteq gst[q.g].udp_src
          /\ gst[q.g].elements \cap w.udp_src \subseteq w.elements
          /\ gst[q.g].bound \cap w.udp_src \subseteq w.bound
          /\ w.bound \subseteq gst[q.g].bound /\ w.state = gst[q.g].state
      BY <1>1, <1>5, <1>6, <1>7
    <3>2. "Playing" \in {"Null", "Paused", "Playing"}
      OBVIOUS
    <3> QED
      BY <1>4, <1>8, <2>2, <3>1, <3>2, SetStateFits
  <2> QED
    BY <1>3, <2>1, <2>2
<1>10. Settled({})
  BY <1>4, <1>9, OneSettles
<1> QED
  BY <1>2, <1>10, DoneEnds, PortWalks DEF Typed, Strolls

\* A callback and the bus thread change the state, the branches and the errors.
LEMMA PortThreads ==
  ASSUME Typed, PortInv, NEW g \in Gstreamers,
         \/ PadAdded(g) \/ PadLocksPipeline(g) \/ PadLocksInner(g)
         \/ PadVideo(g) \/ PadAudio(g) \/ PadRtcp(g)
         \/ PadNotLinked(g) \/ PipelineError(g) \/ BusRestarts(g) \/ BusPlays(g) \/ BusStops(g)
  PROVE  PortInv'
<1> DEFINE Like(i) == /\ Sound(i) /\ i.udp_src = gst[g].udp_src /\ i.elements = gst[g].elements
                      /\ i.bound = gst[g].bound /\ i.state = gst[g].state
<1>1. GstOK /\ Like(gst[g])
  BY DEF Typed, GstOK
<1>2. ASSUME NEW i, Like(i), NEW s \in {"Null", "Paused", "Playing"}, PadSetsState(g, i, s)
      PROVE  Settled({})
  <2>1. PICK out, errors :
          /\ out \in SetState(g, i, s)
          /\ \/ gst' = [gst EXCEPT ![g] = out.to]
             \/ gst' = [gst EXCEPT ![g] = [out.to EXCEPT !.errors = errors]]
    BY <1>2 DEF PadSetsState
  <2>2. PICK k : k = [out.to EXCEPT !.errors = errors]
    OBVIOUS
  <2>3. Sound(out.to)
    BY <1>2, <2>1, SetStateSound
  <2>4. /\ k.udp_src = out.to.udp_src /\ k.elements = out.to.elements
        /\ k.bound = out.to.bound /\ k.state = out.to.state
    BY <2>2, <2>3 DEF Sound, Instance
  <2>5. gst' = [gst EXCEPT ![g] = out.to] \/ gst' = [gst EXCEPT ![g] = k]
    BY <2>1, <2>2
  <2> QED
    BY <1>1, <1>2, <2>1, <2>4, <2>5, StateSettles
<1>3. ASSUME NEW i, Like(i) PROVE Like(Posted(i))
  BY <1>3, PostedSound DEF Posted, Sound, Instance
<1>4. ASSUME NEW x \in gst[g].sessions, NEW part \in Parts PROVE Like(ReplaceBranch(gst[g], x, part))
  <2>1. x \in Element
    BY <1>1 DEF Sound, Instance
  <2>2. PICK j, branches : /\ j = ReplaceBranch(gst[g], x, part)
                           /\ j = [gst[g] EXCEPT !.branches = branches]
    BY DEF ReplaceBranch
  <2>3. Sound(j)
    <3>1. Sound(gst[g])
      BY <1>1
    <3>2. j = ReplaceBranch(gst[g], x, part)
      BY <2>2
    <3> QED
      BY <2>1, <3>1, <3>2, ReplaceBranchSound
  <2>4. /\ j.udp_src = gst[g].udp_src /\ j.elements = gst[g].elements
        /\ j.bound = gst[g].bound /\ j.state = gst[g].state
    BY <1>1, <2>2 DEF Sound, Instance
  <2> QED
    BY <2>2, <2>3, <2>4
<1>5. ASSUME NEW i, Like(i), gst' = [gst EXCEPT ![g] = i] PROVE Settled({})
  BY <1>1, <1>5, SameShapeSettles
<1> HIDE DEF Like
<1>6. CASE PadAdded(g) \/ PadLocksInner(g)
  <2>1. gst' = gst
    BY <1>6 DEF PadAdded, PadLocksInner
  <2> QED
    BY <1>6, <2>1, SameSettled, PortThread DEF PadAdded, PadLocksInner
<1>7. CASE PadLocksPipeline(g)
  <2>1. Settled({})
    BY <1>1, <1>2, <1>7 DEF PadLocksPipeline
  <2> QED
    BY <1>7, <2>1, PortThread DEF PadLocksPipeline
<1>8. CASE PadVideo(g) \/ PadAudio(g) \/ PadRtcp(g)
  <2>1. PICK x \in gst[g].sessions :
          /\ PadHandles(g, x) /\ pad[g].part \in Parts
          /\ \/ gst' = [gst EXCEPT ![g] = Posted(@)]
             \/ PadReplaces(g, x)
             \/ gst' = [gst EXCEPT ![g] = Posted(ReplaceBranch(@, x, "rtp"))]
    BY <1>8 DEF PadVideo, PadAudio, PadRtcp, PadCannotMake, Parts
  <2>2. Settled({})
    <3>1. CASE gst' = [gst EXCEPT ![g] = Posted(@)]
      BY <1>1, <1>3, <1>5, <3>1
    <3>2. CASE PadReplaces(g, x)
      <4>1. PICK b : b = ReplaceBranch(gst[g], x, pad[g].part) /\ Like(b)
        BY <1>4, <2>1
      <4>2. PadSetsState(g, b, "Playing") \/ PadSetsState(g, Posted(b), "Playing")
        BY <3>2, <4>1 DEF PadReplaces
      <4>3. Like(Posted(b)) /\ "Playing" \in {"Null", "Paused", "Playing"}
        BY <1>3, <4>1
      <4> QED
        BY <1>2, <4>1, <4>2, <4>3
    <3>3. CASE gst' = [gst EXCEPT ![g] = Posted(ReplaceBranch(@, x, "rtp"))]
      <4>1. PICK c : c = ReplaceBranch(gst[g], x, "rtp") /\ Like(c)
        BY <1>4 DEF Parts
      <4>2. Like(Posted(c)) /\ gst' = [gst EXCEPT ![g] = Posted(c)]
        BY <1>3, <3>3, <4>1
      <4> QED
        BY <1>5, <4>2
    <3> QED
      BY <2>1, <3>1, <3>2, <3>3
  <2> QED
    BY <2>1, <2>2, PortThread DEF PadHandles
<1>9. CASE PadNotLinked(g) \/ PipelineError(g)
  <2>1. PICK j, errors : /\ j = [gst[g] EXCEPT !.errors = errors]
                         /\ gst' = [gst EXCEPT ![g] = j]
                         /\ UNCHANGED <<producers, request, issued>>
    BY <1>9 DEF PadNotLinked, PipelineError
  <2>2. /\ j.udp_src = gst[g].udp_src /\ j.elements = gst[g].elements
        /\ j.bound = gst[g].bound /\ j.state = gst[g].state
    BY <1>1, <2>1 DEF Like, Sound, Instance
  <2> QED
    BY <1>1, <2>1, <2>2, SameShapeSettles, PortThread
<1>10. CASE BusRestarts(g) \/ BusStops(g) \/ BusPlays(g)
  <2>1. PICK s \in {"Null", "Paused", "Playing"} : \E out \in SetState(g, gst[g], s) : \E errors :
          /\ \/ gst' = [gst EXCEPT ![g] = out.to]
             \/ gst' = [gst EXCEPT ![g] = [out.to EXCEPT !.errors = errors]]
          /\ UNCHANGED <<producers, request, issued>>
    <3>1. "Null" \in {"Null", "Paused", "Playing"} /\ "Playing" \in {"Null", "Paused", "Playing"}
      OBVIOUS
    <3> QED
      BY <1>10, <3>1 DEF BusRestarts, BusStops, BusPlays
  <2>2. PICK out, k, errors :
          /\ out \in SetState(g, gst[g], s)
          /\ gst' = [gst EXCEPT ![g] = out.to] \/ gst' = [gst EXCEPT ![g] = k]
          /\ k = [out.to EXCEPT !.errors = errors]
    BY <2>1
  <2>3. /\ k.udp_src = out.to.udp_src /\ k.elements = out.to.elements
        /\ k.bound = out.to.bound /\ k.state = out.to.state
    BY <1>1, <2>2, SetStateSound DEF Like, Sound, Instance
  <2>4. Settled({})
    BY <1>1, <2>2, <2>3, StateSettles DEF Like
  <2> QED
    BY <2>1, <2>4, PortThread
<1> QED
  BY <1>6, <1>7, <1>8, <1>9, <1>10

\* At the start, and after the loss of the process, no element, socket or producer is left.
Empty == /\ gst = [g \in Gstreamers |-> NewGstreamer]
         /\ request = [r \in Requests |-> NoRequest]
         /\ producers = {}

\* The sockets are in order then.
LEMMA PortEmpty == Empty => PortInv
<1> SUFFICES ASSUME Empty PROVE PortInv
  OBVIOUS
<1> USE DEF Empty
<1>1. \A g \in Gstreamers : gst[g].bound = {} /\ gst[g].udp_src = {}
  BY DEF NewGstreamer
<1>2. \A r \in Requests : request[r].pc = "idle"
  BY DEF NoRequest
<1>3. Traces = {}
  BY <1>1, <1>2, InMapsAre, TakenAre DEF Traces, Taking
<1>4. Separate
  BY <1>1 DEF Separate, Bound
<1>5. \A r \in Requests : Keeping(request[r]) /\ request[r].pc \notin Sourced
  BY <1>2 DEF Keeping, Sourcing, Adding, Binding, Entering, Taking, Sourced, Started, StartSteps
<1> QED
  BY <1>3, <1>4, <1>5 DEF PortInv

\* Every step keeps the sockets of the published producers.
LEMMA StepPort == Typed /\ PortInv /\ [Next]_vars => PortInv'
<1> SUFFICES ASSUME Typed, PortInv, [Next]_vars PROVE PortInv'
  OBVIOUS
<1>1. ASSUME NEW r \in Requests,
             StartRecording(r) \/ CloseProducers(r) \/ EndMeeting(r) \/ RequestPanics(r)
      PROVE  PortInv'
  BY <1>1, PortAsides, PortGetFreePort, PortMakes, PortAddElements, PortPlayPipeline,
     PortPublishProducer, PortStrolls, PortFailSource, PortDropSource, PortClosePauses,
     PortCloseRemoves DEF StartRecording, CloseProducers, EndMeeting
<1>2. CASE Restart
  <2>1. Empty'
    BY <1>2 DEF Restart, Empty
  <2> QED
    BY <2>1, PortEmpty, PTL
<1>3. ASSUME NEW g \in Gstreamers, Callback(g) \/ BusThread(g) PROVE PortInv'
  BY <1>2, <1>3, PortThreads DEF Callback, BusThread, PadPanics
<1>4. CASE UNCHANGED vars
  BY <1>4, SameSettled, PortThread DEF vars
<1> QED
  BY <1>1, <1>3, <1>4 DEF Next

\* A published producer is recorded from its own port while its pipeline is not stopped:
\* however starts, closes, ends, callbacks and the bus threads race for the ports of the
\* two ranges, and whatever fails, a start that lost the port it had probed, or the port
\* of RTCP it had not, is not published, and no later step takes the sockets of a producer
\* whose elements are in the maps.
THEOREM RecordsOnItsOwnPort == Spec => []RecordedFromItsOwnPort
<1>1. Typed /\ PortInv => RecordedFromItsOwnPort
  <2> SUFFICES ASSUME Typed, PortInv, NEW x \in producers, gst[x.g].state # "Null",
                      NEW e \in gst[x.g].udp_src, e.src = x.src
               PROVE  /\ e \in gst[x.g].bound
                      /\ \A f \in Bound(Gstreamers) : ~Clash(e, f)
    BY DEF RecordedFromItsOwnPort
  <2>1. x.g \in Gstreamers /\ Received(x.g, x.src)
    BY DEF Typed, OthersOK, Published, PortInv
  <2>2. e \in gst[x.g].bound
    BY <2>1 DEF Received, Receivers
  <2> QED
    BY <2>1, <2>2 DEF PortInv, Separate, Bound
<1>2. Init => PortInv
  BY PortEmpty DEF Init, Empty
<1> QED
  BY <1>1, <1>2, InitTyped, StepTyped, StepPort, PTL DEF Spec
=============================================================================
