------------------------------ MODULE StreamMedia -----------------------------
(***************************************************************************)
(* What the live stream sends to whom (push thread and subscription        *)
(* callbacks of tirtc_stream.c, stream_connection_set.c,                   *)
(* media_subscription_policy.c): the push thread reads one file for all    *)
(* viewers and offers each frame to those that subscribed, while SDK       *)
(* callbacks change the subscriptions, ask for key frames and take viewers *)
(* away.  StreamService has the threads' lives; here the service is on and *)
(* the push thread runs.                                                   *)
(*                                                                         *)
(* A step is one lock section of s_conn_mtx or one send.  Time is left out *)
(* (MediaTimeline): the thread may take a new snapshot instead of reading, *)
(* and reads audio or video.  A handle is not used for a new connection    *)
(* while a send on it is under way.                                        *)
(***************************************************************************)
EXTENDS Naturals, FiniteSets

CONSTANTS
    Handles,   \* connections, at most STREAM_MAX_CONNECTIONS
    Kinds,     \* the media a viewer may subscribe: audio, video or both
    Frames,    \* number of video frames in the file
    Keys,      \* those that are key frames
    MaxFails,  \* consecutive failures that cost the connection: 3
    Tracked    \* the reasons the histories below keep track of

\* What an instance assumes of its constants.
MediaAssumption ==
    /\ Kinds \subseteq {"audio", "video"} /\ Frames \in Nat \ {0}
    /\ Keys # {} /\ Keys \subseteq 1..Frames /\ MaxFails \in Nat \ {0}

VARIABLES
    client,    \* s_connections
    forceKey,  \* s_force_key
    next,      \* video_index of the file, Frames + 1 at its end
    enabled,   \* the timeline's video_was_enabled
    push,      \* where the push thread is: the frame it sends and to whom
    asked,     \* history: a video subscription since the last key frame read
    owed       \* history: why a viewer has to get a key frame before the next
               \* delta frame: connect, subscribe, busy

vars == <<client, forceKey, next, enabled, push, asked, owed>>

Gone == [state |-> "FREE", subs |-> {}, waiting |-> FALSE, fails |-> 0]
Top == [at |-> "top", targets |-> [k \in {"audio", "video"} |-> {}]]

\* Which frame: an audio packet, a key frame or a delta frame.
Kind(frame) == IF frame = "audio" THEN "audio" ELSE "video"
Results == {"ok", "busy", "fatal", "invalid", "error"}

TypeOK ==
    /\ \A h \in Handles :
          /\ client[h].state \in {"FREE", "PENDING", "ACTIVE"}
          /\ client[h].subs \subseteq Kinds /\ client[h].waiting \in BOOLEAN
          /\ client[h].fails \in 0..MaxFails - 1
          /\ client[h].state = "FREE" => client[h] = Gone
          /\ client[h].waiting => "video" \in client[h].subs
    /\ forceKey \in BOOLEAN /\ enabled \in BOOLEAN /\ asked \in BOOLEAN
    /\ next \in 1..Frames + 1
    /\ owed \in [Handles -> SUBSET {"connect", "subscribe", "busy"}]
    /\ push.at \in {"top", "read", "offer", "send", "note"}

Init ==
    /\ client = [h \in Handles |-> Gone]
    /\ forceKey = TRUE /\ next = CHOOSE k \in Keys : \A j \in Keys : k <= j
    /\ enabled = FALSE /\ push = Top
    /\ asked = FALSE /\ owed = [h \in Handles |-> {}]

Active(h) == client[h].state = "ACTIVE"
Subscribers(k) == {h \in Handles : Active(h) /\ k \in client[h].subs}
HasSendMedia == \E h \in Handles : client[h].subs # {}
Owe(h, why) == [owed EXCEPT ![h] = @ \cup (Tracked \cap {why})]
Sending(h) == push.at \in {"send", "note"} /\ push.to = h
-----------------------------------------------------------------------------
(* Callbacks, and the worker that makes a viewer active.                   *)

Accept(h) ==
    /\ client[h].state = "FREE" /\ ~Sending(h)
    /\ client' = [client EXCEPT ![h].state = "PENDING"]
    /\ owed' = [owed EXCEPT ![h] = Tracked \cap {"connect"}]
    /\ UNCHANGED <<forceKey, next, enabled, push, asked>>

Activate(h) ==
    /\ client[h].state = "PENDING"
    /\ client' = [client EXCEPT ![h].state = "ACTIVE"]
    /\ UNCHANGED <<forceKey, next, enabled, push, asked, owed>>

SubscribeAudio(h) ==
    /\ client[h].state # "FREE" /\ "audio" \in Kinds \ client[h].subs
    /\ client' = [client EXCEPT ![h].subs = @ \cup {"audio"}]
    /\ UNCHANGED <<forceKey, next, enabled, push, asked, owed>>

\* The new viewer waits for no key frame.
SubscribeVideoMutant(h) ==
    /\ client[h].state # "FREE" /\ "video" \in Kinds \ client[h].subs
    /\ client' = [client EXCEPT ![h].subs = @ \cup {"video"}]
    /\ forceKey' = (forceKey \/ ~HasSendMedia)
    /\ asked' = ("asked" \in Tracked)
    /\ owed' = Owe(h, "subscribe")
    /\ UNCHANGED <<next, enabled, push>>

\* _on_sub_video: the first subscription of all forces a key frame.
SubscribeVideo(h) ==
    /\ client[h].state # "FREE" /\ "video" \in Kinds \ client[h].subs
    /\ client' = [client EXCEPT ![h].subs = @ \cup {"video"}, ![h].waiting = TRUE]
    /\ forceKey' = (forceKey \/ ~HasSendMedia)
    /\ asked' = ("asked" \in Tracked)
    /\ owed' = Owe(h, "subscribe")
    /\ UNCHANGED <<next, enabled, push>>

Unsubscribe(h) ==
    /\ \E k \in client[h].subs :
          client' = [client EXCEPT ![h].subs = @ \ {k},
                                   ![h].waiting = @ /\ k # "video"]
    /\ UNCHANGED <<forceKey, next, enabled, push, asked, owed>>

\* _on_request_key_frame: the viewer waits for a key frame; the file skips to
\* one only when nobody else watches.
OneViewer == Cardinality(Subscribers("video")) = 1
RequestKey(h) ==
    /\ Active(h)
    /\ client' = [client EXCEPT ![h].waiting = (@ \/ h \in Subscribers("video"))]
    /\ forceKey' = (forceKey \/ OneViewer)
    /\ UNCHANGED <<next, enabled, push, asked, owed>>

\* _on_conn_error, _on_disconnected
Leave(h) ==
    /\ client[h].state # "FREE"
    /\ client' = [client EXCEPT ![h] = Gone]
    /\ UNCHANGED <<forceKey, next, enabled, push, asked, owed>>

Callback(h) ==
    \/ Accept(h) \/ Activate(h) \/ SubscribeAudio(h) \/ SubscribeVideo(h)
    \/ Unsubscribe(h) \/ RequestKey(h) \/ Leave(h)
-----------------------------------------------------------------------------
(* The push thread.                                                        *)

\* Who is subscribed; the timeline starts, or stops, with the first or last.
Snapshot ==
    /\ push.at \in {"top", "read"}
    /\ LET active == \E k \in Kinds : Subscribers(k) # {}
       IN /\ push' = IF active
                     THEN [at |-> "read",
                           targets |-> [k \in {"audio", "video"} |-> Subscribers(k)]]
                     ELSE Top
          /\ forceKey' = (forceKey \/ (active /\ ~enabled))
          /\ enabled' = active
    /\ UNCHANGED <<client, next, asked, owed>>

Offer(frame) ==
    push' = [at |-> "offer", targets |-> push.targets, frame |-> frame,
             todo |-> push.targets[Kind(frame)]]

\* The frame goes to one of its targets.
Sends(h) == [at |-> "send", targets |-> push.targets, frame |-> push.frame,
             todo |-> push.todo, to |-> h]
Returns(h, result) == [at |-> "note", targets |-> push.targets, frame |-> push.frame,
                       todo |-> push.todo, to |-> h, result |-> result]

ReadAudio ==
    /\ push.at = "read" /\ Offer("audio")
    /\ UNCHANGED <<client, forceKey, next, enabled, asked, owed>>

Wrap(i) == IF i > Frames THEN 1 ELSE i

\* file_media_source_next_video: the frame at the reading position, or the
\* next key frame at or after it, round the end of the file.
Ahead(i) == LET later == {k \in Keys : k >= i}
            IN CHOOSE k \in (IF later = {} THEN Keys ELSE later) :
                  \A j \in (IF later = {} THEN Keys ELSE later) : k <= j
Position(force) == IF force THEN Ahead(Wrap(next)) ELSE Wrap(next)

ReadVideo ==
    /\ push.at = "read"
    /\ LET i == Position(forceKey)
           key == i \in Keys
       IN /\ next' = i + 1
          /\ Offer(IF key THEN "key" ELSE "delta")
          /\ asked' = (asked /\ ~key)
    /\ forceKey' = FALSE
    /\ UNCHANGED <<client, enabled, owed>>

\* A target that is not allowed the frame any more, or not yet, is passed.
Allowed(h, frame) ==
    /\ Active(h) /\ Kind(frame) \in client[h].subs
    /\ frame = "delta" => ~client[h].waiting

Without(h) == [at |-> "offer", targets |-> push.targets, frame |-> push.frame,
               todo |-> push.todo \ {h}]

Check(h) ==
    /\ push.at = "offer" /\ h \in push.todo
    /\ push' = IF Allowed(h, push.frame) THEN Sends(h) ELSE Without(h)
    /\ UNCHANGED <<client, forceKey, next, enabled, asked, owed>>
\* TiRtcSendAudioStream, TiRtcSendVideoStream
Send(h, result) ==
    /\ push.at = "send" /\ push.to = h
    /\ push' = Returns(h, result)
    /\ owed' = CASE push.frame = "key" /\ result = "ok" -> [owed EXCEPT ![h] = {}]
                 [] push.frame # "audio" /\ result = "busy" -> Owe(h, "busy")
                 [] OTHER -> owed
    /\ UNCHANGED <<client, forceKey, next, enabled, asked>>

\* Back to the next target, or to the top.
Done(h) == IF push.todo = {h} THEN Top ELSE Without(h)

Noted(h) ==
    /\ push.at = "note" /\ push.to = h /\ push' = Done(h)
    /\ UNCHANGED <<next, enabled, asked, owed>>

\* A key frame that went out ends the waiting.
Sent(h) ==
    /\ Noted(h) /\ push.result = "ok"
    /\ client' = IF Active(h)
                 THEN [client EXCEPT ![h].fails = 0,
                                     ![h].waiting = @ /\ push.frame # "key"]
                 ELSE client
    /\ UNCHANGED forceKey

\* The viewer waits for a key frame; the file skips only for one viewer.
Busy(h) ==
    /\ Noted(h) /\ push.result \in {"busy", "invalid"}
    /\ IF push.result = "busy" /\ push.frame # "audio" /\ h \in Subscribers("video")
       THEN /\ client' = [client EXCEPT ![h].waiting = TRUE]
            /\ forceKey' = (forceKey \/ (~client[h].waiting /\ OneViewer))
       ELSE UNCHANGED <<client, forceKey>>

\* The connection goes, at once or after MaxFails failures in a row.
Failed(h) ==
    LET fails == client[h].fails + 1
    IN /\ Noted(h) /\ push.result \in {"fatal", "error"}
       /\ client' = CASE push.result = "fatal" \/ (Active(h) /\ fails = MaxFails) ->
                           [client EXCEPT ![h] = Gone]
                      [] Active(h) -> [client EXCEPT ![h].fails = fails]
                      [] OTHER -> client
       /\ UNCHANGED forceKey

\* All its targets have been passed.
NoTargets ==
    /\ push.at = "offer" /\ push.todo = {} /\ push' = Top
    /\ UNCHANGED <<client, forceKey, next, enabled, asked, owed>>

Push ==
    \/ Snapshot \/ ReadAudio \/ ReadVideo \/ NoTargets
    \/ \E h \in Handles :
          \/ Check(h) \/ Sent(h) \/ Busy(h) \/ Failed(h)
          \/ \E r \in Results : Send(h, r)

Next == Push \/ \E h \in Handles : Callback(h)

Spec == Init /\ [][Next]_vars
-----------------------------------------------------------------------------
(* Properties.                                                             *)

SentDelta(h) == push.at = "note" /\ push.to = h /\ push.result = "ok" /\ push.frame = "delta"
NoDelta(why) == \A h \in Handles : SentDelta(h) => why \notin owed[h]

\* The first video frame on a connection is a key frame, however subscriptions,
\* other viewers' frames and the activation are interleaved.
FirstFrameIsKey == NoDelta("connect")

\* After a frame was refused for a full buffer, the next one that goes to that
\* viewer is a key frame (tirtc_stream.c:461-470).
BusyNeedsKey == NoDelta("busy")

KeyFrameWhenOwed == FirstFrameIsKey /\ BusyNeedsKey
=============================================================================
