----------------------------- MODULE Gstreamer ------------------------------
(***************************************************************************)
(* The recording pipelines of the process (gstreamer/mod.rs).  A Gstreamer *)
(* instance records one meeting: its pipeline mixes the streams of all the *)
(* participants into one file.                                             *)
(*                                                                         *)
(* A recorded producer is received by two udpsrc elements, one for RTP on  *)
(* the port and one for RTCP on the next port: elements carry the part     *)
(* they receive.  The maps of `Inner` are sets of elements in which        *)
(* (participant, media, part) is a key; a screen share is recorded as      *)
(* video, so it has the key of the participant's camera.                   *)
(*                                                                         *)
(* Requests run on tokio tasks, pad-added callbacks on GStreamer's         *)
(* streaming threads and one bus thread watches each pipeline.  They meet  *)
(* at two std mutexes, around `Inner` and around the pipeline.             *)
(***************************************************************************)
EXTENDS Naturals, Sequences, FiniteSets

CONSTANTS Meetings, Participants, Requests, None,
          Operations,      \* "start", "close", "end": what the callers ask for
          RecordedKinds,   \* kinds of producers the callers record
          Gstreamers,      \* instances the process can create
          Sources,         \* identities of recorded producers, each given once
          PadParts,        \* the parts rtpbin adds receiving pads for
          AudioPorts, VideoPorts,   \* first ports of the pairs of the two ranges
          Faults           \* "element", "state", "mediasoup", "driver", "bus"

ASSUME GstreamerAssumption ==
    /\ None \notin Meetings \cup Requests \cup Gstreamers \cup Sources
    /\ {"pad", "poisoned"} \cap (Requests \cup {None}) = {}   \* holders of a mutex
    /\ RecordedKinds \subseteq {"audio", "video", "screenshare"}
    /\ AudioPorts \subseteq Nat /\ VideoPorts \subseteq Nat

VARIABLES
    gst,              \* the Gstreamer instances
    inner_mutex,      \* holder of the mutex of `inner`
    pipeline_mutex,   \* holder of the mutex of `pipeline`
    bus,              \* the bus thread: none, watching, restarting, ended
    pad,              \* the pad-added callback running on rtpbin
    pipeline_map,     \* the instance of each meeting
    producers,        \* recorded producers in producer_map
    request,          \* requests in progress
    issued            \* identities already given

vars == <<gst, inner_mutex, pipeline_mutex, bus, pad, pipeline_map, producers, request, issued>>
mutexes == <<inner_mutex, pipeline_mutex>>

Media(kind) == IF kind = "audio" THEN "audio" ELSE "video"
Parts == {"rtp", "rtcp"}
Ports == AudioPorts \cup VideoPorts

Element ==
    [src : Sources, p : Participants, media : {"audio", "video"}, port : Ports, part : Parts]

\* Elements made once and shared by the participants, in the groups in which they
\* are added to the pipeline.
Groups == <<{"rtpbin"}, {"audiomixer", "opusenc"}, {"compositor", "x264enc"}, {"splitmuxsink"}>>

\* The order in which a start makes elements: the udpsrc of RTCP is among them.
CreationOrder(media) ==
    IF media = "audio"
    THEN <<"rtcpsrc", "rtpbin", "audiomixer", "opusenc", "compositor", "x264enc", "splitmuxsink">>
    ELSE <<"compositor", "x264enc", "splitmuxsink", "rtcpsrc", "rtpbin">>
Needed(media) == {CreationOrder(media)[i] : i \in DOMAIN CreationOrder(media)} \ {"rtcpsrc"}

NewGstreamer ==
    [m |-> None, state |-> "Null",
     shared |-> {}, attached |-> {},  \* shared elements made, and those in the pipeline
     udp_src |-> {},      \* udp_src_element_*_map and udp_rtcp_src_element_*_map
     elements |-> {},     \* udpsrc elements in the pipeline
     bound |-> {},        \* those whose socket is bound
     linked |-> {},       \* sources with request pads on rtpbin
     fed |-> {},          \* sources a plain transport sends to
     sessions |-> {},     \* session_participant_meta_map
     branches |-> {},     \* decoding elements by participant: queue_element_*_map, ...
     errors |-> {}]       \* error messages on the bus

NoRequest == [pc |-> "idle", m |-> None, p |-> None, kind |-> None, kinds |-> {},
              remove |-> FALSE, g |-> None, exists |-> FALSE, src |-> None,
              port |-> None, fresh |-> {}, closed |-> {}, branches |-> {}, pads |-> {}]

NoPad == [pc |-> "idle", src |-> None, part |-> None]

Init ==
    /\ gst = [g \in Gstreamers |-> NewGstreamer]
    /\ inner_mutex = [g \in Gstreamers |-> None]
    /\ pipeline_mutex = [g \in Gstreamers |-> None]
    /\ bus = [g \in Gstreamers |-> "none"]
    /\ pad = [g \in Gstreamers |-> NoPad]
    /\ pipeline_map = [m \in Meetings |-> None]
    /\ producers = {}
    /\ request = [r \in Requests |-> NoRequest]
    /\ issued = {}

-----------------------------------------------------------------------------
(* GStreamer: state changes and sockets *)

\* Two elements that need the same socket.
Clash(x, y) == x # y /\ x.port = y.port /\ x.part = y.part

Bound(others) == UNION {gst[h].bound : h \in others}

\* Sets of sockets instance g, in state i, can hold at the same time.
Bindable(g, i) ==
    {S \in SUBSET i.elements :
        /\ i.bound \cap i.elements \subseteq S
        /\ \A x \in S : \A y \in S \cup Bound(Gstreamers \ {g}) : ~Clash(x, y)}

\* What pipeline.set_state(s) can do to instance g, in state i.  Its elements
\* follow the pipeline and a udpsrc binds its port on the way; one that cannot
\* fails the change, which leaves the pipeline in the state it was in.
SetState(g, i, s) ==
    IF s = "Null"
    THEN {[ok |-> TRUE, to |-> [i EXCEPT !.state = "Null", !.bound = {}]]}
    ELSE IF i.elements \in Bindable(g, i)
    THEN {[ok |-> TRUE, to |-> [i EXCEPT !.state = s, !.bound = i.elements]]}
           \cup (IF "state" \in Faults THEN {[ok |-> FALSE, to |-> i]} ELSE {})
    ELSE {[ok |-> FALSE, to |-> [i EXCEPT !.bound = S]] : S \in Bindable(g, i)}

-----------------------------------------------------------------------------
(* The maps of Inner *)

SameKey(x, y) == x.p = y.p /\ x.media = y.media /\ x.part = y.part

\* HashMap::insert: the old element of the key is forgotten.
Insert(map, x) == {y \in map : ~SameKey(x, y)} \cup {x}

SourceElement(q, part) ==
    [src |-> q.src, p |-> q.p, media |-> Media(q.kind), port |-> q.port, part |-> part]
=============================================================================
