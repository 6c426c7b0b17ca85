------------------------------ MODULE Downlink ------------------------------
(***************************************************************************)
(* What the device receives and hands to the product's media sink          *)
(* (device_adapter.c).  A frame comes on a thread of the SDK; the service  *)
(* looks under its lock whether it wants it, and hands it over without the *)
(* lock, marked with the number the business's session has by then.  The   *)
(* session, which the coordinator starts and stops, ends with a flush of   *)
(* its number.  Live stream, AI, VoIP and device call look inside the      *)
(* callback and their stop waits for the callback guard; the live stream   *)
(* also flushes when its last talking client goes.  The intercom room      *)
(* queues the frames for a worker and shares a lock with it instead.       *)
(*                                                                         *)
(* The sink is the set of what it was given and has not been told to drop, *)
(* so equal frames are one.  Logs, subscriptions that fail later and the   *)
(* recorder that stands in for a sink (AudioRecorder) are left out.        *)
(***************************************************************************)
EXTENDS SdkCallbackGuard, FiniteSets

CONSTANTS
    Handles,      \* connection handles of the SDK, used again when free
    Businesses,   \* which of the five are looked at
    RoomCap,      \* ROOM_QUEUE
    MaxSessions   \* bound: sessions of the business

\* What an instance assumes of its constants.
DownlinkAssumption ==
    /\ IsFiniteSet(Handles)
    /\ Businesses \subseteq {"stream", "ai", "voip", "call", "room"}
    /\ RoomCap \in Nat \ {0} /\ MaxSessions \in Nat

VARIABLES
    business,     \* the business of this device that is looked at
    session,      \* where its session is between start and stop
    generation,   \* s_generations[business]
    link,         \* the SDK's connections
    made,         \* history: the session a connection was made for
    clients,      \* the service's view: known, and listened to
    frames,       \* a media callback of each connection
    guard,        \* the service's callback guard
    flushing,     \* the guard's worker found nobody talking
    epoch,        \* RoomState.generation
    heardQueue,   \* RoomState.audio_queue
    mediaWorker,  \* the room's media_worker
    sink,         \* what the product holds
    refused       \* history: the guard's queue was full for a flush

linkVars == <<link, made>>
roomVars == <<epoch, heardQueue, mediaWorker>>
guardVars == <<guard, flushing, refused>>
downVars == <<business, session, generation, linkVars, clients, frames, guardVars,
              roomVars, sink>>

Sessions == 0..MaxSessions
NoFrame == [at |-> "none", tag |-> 0]
Idle == [at |-> "idle", epoch |-> 0, h |-> "none", of |-> 0, tag |-> 0]
Silent == [h \in Handles |-> "free"]

DownTypeOK ==
    /\ business \in Businesses
    /\ session \in {"off", "on", "stopping"} /\ generation \in Sessions
    /\ link \in [Handles -> {"none", "open", "closing"}]
    /\ made \in [Handles -> Sessions]
    /\ clients \in [Handles -> {"free", "pending", "known", "heard"}]
    /\ frames \in [Handles -> [at : {"none", "in", "wanted", "marked"}, tag : Sessions]]
    /\ guard.active \in 0..Cardinality(Handles) /\ Len(guard.queue) <= GuardCap
    /\ flushing \in BOOLEAN /\ refused \in BOOLEAN
    /\ epoch \in 0..2 * MaxSessions
    /\ Len(heardQueue) <= RoomCap
    /\ mediaWorker.at \in {"idle", "taken", "current", "marked"}
    /\ sink \subseteq [tag : Sessions, of : Sessions]

DownInit ==
    /\ business \in Businesses /\ session = "off" /\ generation = 0
    /\ link = [h \in Handles |-> "none"] /\ made = [h \in Handles |-> 0]
    /\ clients = Silent /\ frames = [h \in Handles |-> NoFrame]
    /\ guard = GuardStart(NewGuard) /\ flushing = FALSE /\ refused = FALSE
    /\ epoch = 0 /\ heardQueue = <<>> /\ mediaWorker = Idle
    /\ sink = {}

\* The product drops what it holds of a session.
Flushed(g) == {f \in sink : f.tag # g}

-----------------------------------------------------------------------------
(* The coordinator: device_adapter_session_starting, the service's start,  *)
(* its stop, and device_adapter_session_stopped.                           *)

StartSession ==
    /\ session = "off" /\ generation < MaxSessions
    /\ generation' = generation + 1
    /\ \/ session' = "on" /\ epoch' = epoch + 1 /\ UNCHANGED sink
       \/ sink' = Flushed(generation') /\ UNCHANGED <<session, epoch>>
    /\ UNCHANGED <<business, linkVars, clients, frames, guardVars, heardQueue,
                   mediaWorker>>

\* Nobody is listened to any more, and the connections are told to close.
StopSession ==
    /\ session = "on" /\ session' = "stopping"
    /\ clients' = Silent
    /\ link' = [h \in Handles |-> IF clients[h] # "free" /\ link[h] = "open"
                                  THEN "closing" ELSE link[h]]
    /\ epoch' = IF business = "room" THEN epoch + 1 ELSE epoch
    /\ UNCHANGED <<business, generation, made, frames, guardVars, heardQueue,
                   mediaWorker, sink>>

\* sdk_callback_wait_all, or the room's media_lock; then the flush.
Quiet == IF business = "room" THEN mediaWorker.at \in {"idle", "taken"}
         ELSE Drained(guard)

SessionStopped ==
    /\ session = "stopping" /\ Quiet /\ session' = "off"
    /\ sink' = Flushed(generation)
    /\ UNCHANGED <<business, generation, linkVars, clients, frames, guardVars, roomVars>>

Coordinator == StartSession \/ StopSession \/ SessionStopped

-----------------------------------------------------------------------------
(* Connections.                                                            *)

connFrame == <<business, session, generation, frames, flushing, roomVars, sink>>

\* What a callback defers; `refused` remembers a flush that found no place.
Deferred(task) ==
    /\ guard' = Defer(guard, task)
    /\ refused' = (refused \/ (task.do = "flush" /\ ~CanDefer(guard)))

\* A viewer comes to the live stream; the guard's worker takes it in.
AcceptClient(h) ==
    /\ business = "stream" /\ session = "on" /\ CanDefer(guard)
    /\ link[h] = "none" /\ clients[h] = "free"
    /\ link' = [link EXCEPT ![h] = "open"]
    /\ made' = [made EXCEPT ![h] = generation]
    /\ clients' = [clients EXCEPT ![h] = "pending"]
    /\ Deferred([do |-> "accept", h |-> h])
    /\ UNCHANGED connFrame

\* The others dial, or are dialled, and hold one connection; the room makes one in
\* a session, and the SDK is taken not to give it the handle of its last one: a
\* frame of the old connection that waits in the queue would pass for a new one.
Dialled(h) ==
    /\ business # "stream" /\ session = "on"
    /\ link[h] = "none" /\ clients = Silent
    /\ business = "room" => made[h] = 0 /\ \A k \in Handles : made[k] # generation
    /\ link' = [link EXCEPT ![h] = "open"]
    /\ made' = [made EXCEPT ![h] = generation]
    /\ clients' = [clients EXCEPT ![h] = "known"]
    /\ UNCHANGED <<guard, refused>>
    /\ UNCHANGED connFrame

\* The call has subscribed the peer's sound, the room is joined.
Listen(h) ==
    /\ business \in {"call", "room"} /\ clients[h] = "known"
    /\ clients' = [clients EXCEPT ![h] = "heard"]
    /\ UNCHANGED <<guard, refused, linkVars>>
    /\ UNCHANGED connFrame

\* The push thread gives a client up.
SendFails(h) ==
    /\ business = "stream" /\ clients[h] \in {"known", "heard"}
    /\ clients' = [clients EXCEPT ![h] = "free"]
    /\ link' = [link EXCEPT ![h] = IF @ = "open" THEN "closing" ELSE @]
    /\ Deferred([do |-> "flush"])
    /\ UNCHANGED made
    /\ UNCHANGED connFrame

\* on_disconnected is the last callback of a connection.
OnDisconnected(h) ==
    /\ link[h] # "none" /\ frames[h] = NoFrame
    /\ link' = [link EXCEPT ![h] = "none"]
    /\ CASE business = "stream" ->
              /\ clients' = [clients EXCEPT ![h] = "free"]
              /\ Deferred([do |-> "flush"])
         [] business = "room" -> UNCHANGED <<clients, guard, refused>>
         [] OTHER -> Deferred([do |-> "finish", h |-> h]) /\ UNCHANGED clients
    /\ UNCHANGED made
    /\ UNCHANGED connFrame

Connection ==
    \E h \in Handles : \/ AcceptClient(h) \/ Dialled(h) \/ Listen(h)
                       \/ SendFails(h) \/ OnDisconnected(h)

-----------------------------------------------------------------------------
(* The worker of the service's guard.                                      *)

workerFrame == <<business, session, generation, linkVars, frames, refused, roomVars>>

\* _accept_connection up to its two subscriptions, _ai_finish_disconnect_deferred
\* and its like, and the check of _flush_downlink_if_unused.
TakeTask ==
    /\ CanTake(guard)
    /\ LET task == Head(guard.queue)
           talking == \E h \in Handles : clients[h] = "heard"
       IN \/ /\ task.do = "accept" /\ clients[task.h] = "pending"
             /\ clients' = [clients EXCEPT ![task.h] = "known"]
             /\ guard' = Take(guard) /\ UNCHANGED flushing
          \/ /\ task.do = "accept" /\ clients[task.h] # "pending"
             /\ guard' = Finish(Take(guard)) /\ UNCHANGED <<clients, flushing>>
          \/ /\ task.do = "finish"
             /\ clients' = [clients EXCEPT ![task.h] = "free"]
             /\ guard' = Finish(Take(guard)) /\ UNCHANGED flushing
          \/ /\ task.do = "flush" /\ flushing' = ~talking
             /\ guard' = IF talking THEN Finish(Take(guard)) ELSE Take(guard)
             /\ UNCHANGED clients
    /\ UNCHANGED sink
    /\ UNCHANGED workerFrame

\* The subscriptions count when the client is still there.
Subscribed ==
    /\ guard.running.do = "accept"
    /\ LET h == guard.running.h
       IN \/ clients[h] = "known" /\ clients' = [clients EXCEPT ![h] = "heard"]
          \/ UNCHANGED clients
    /\ guard' = Finish(guard)
    /\ UNCHANGED <<flushing, sink>>
    /\ UNCHANGED workerFrame

FlushUnused ==
    /\ flushing /\ flushing' = FALSE
    /\ sink' = Flushed(generation)
    /\ guard' = Finish(guard)
    /\ UNCHANGED clients
    /\ UNCHANGED workerFrame

GuardWorker == TakeTask \/ Subscribed \/ FlushUnused

-----------------------------------------------------------------------------
(* Media callbacks.                                                        *)

_on_audio(h) == clients[h] = "heard"
_a_on_audio(h) == clients[h] # "free"
_von_audio(h) == clients[h] # "free"
_call_on_audio(h) == clients[h] = "heard"

Wants(h) ==
    CASE business = "stream" -> _on_audio(h)
      [] business = "ai" -> _a_on_audio(h)
      [] business = "voip" -> _von_audio(h)
      [] business = "call" -> _call_on_audio(h)

frameFrame == <<business, session, generation, linkVars, clients, flushing, refused>>

FrameArrives(h) ==
    /\ business # "room" /\ link[h] # "none" /\ frames[h] = NoFrame
    /\ frames' = [frames EXCEPT ![h].at = "in"]
    /\ guard' = Enter(guard)
    /\ UNCHANGED <<roomVars, sink>>
    /\ UNCHANGED frameFrame

LookAt(h) ==
    /\ frames[h].at = "in"
    /\ IF Wants(h)
       THEN frames' = [frames EXCEPT ![h].at = "wanted"] /\ UNCHANGED guard
       ELSE frames' = [frames EXCEPT ![h] = NoFrame] /\ guard' = Leave(guard)
    /\ UNCHANGED <<roomVars, sink>>
    /\ UNCHANGED frameFrame

\* device_media_sink_submit reads the number of the session ...
Mark(h) ==
    /\ frames[h].at = "wanted"
    /\ frames' = [frames EXCEPT ![h] = [at |-> "marked", tag |-> generation]]
    /\ UNCHANGED <<guard, roomVars, sink>>
    /\ UNCHANGED frameFrame

\* ... and gives the frame away.
Submit(h) ==
    /\ frames[h].at = "marked"
    /\ sink' = sink \cup {[tag |-> frames[h].tag, of |-> made[h]]}
    /\ frames' = [frames EXCEPT ![h] = NoFrame]
    /\ guard' = Leave(guard)
    /\ UNCHANGED roomVars
    /\ UNCHANGED frameFrame

\* The room's audio_cb is one critical section of the queue.
audio_cb(h) ==
    /\ business = "room" /\ link[h] # "none" /\ Len(heardQueue) < RoomCap
    /\ heardQueue' = Append(heardQueue, [epoch |-> epoch, h |-> h, of |-> made[h]])
    /\ UNCHANGED <<frames, guard, epoch, mediaWorker, sink>>
    /\ UNCHANGED frameFrame

Callbacks ==
    \E h \in Handles :
        FrameArrives(h) \/ LookAt(h) \/ Mark(h) \/ Submit(h) \/ audio_cb(h)

-----------------------------------------------------------------------------
(* The room's media_worker: it takes a frame, looks with media_lock held   *)
(* whether it is current, and submits before it lets the lock go.          *)

TakeHeard ==
    /\ mediaWorker.at = "idle" /\ heardQueue # <<>>
    /\ LET f == Head(heardQueue)
       IN mediaWorker' = [at |-> "taken", epoch |-> f.epoch, h |-> f.h, of |-> f.of,
                          tag |-> 0]
    /\ heardQueue' = Tail(heardQueue)
    /\ UNCHANGED <<frames, guard, epoch, sink>>
    /\ UNCHANGED frameFrame

LookAtHeard ==
    /\ mediaWorker.at = "taken"
    /\ mediaWorker' =
           IF mediaWorker.epoch = epoch /\ clients[mediaWorker.h] = "heard"
           THEN [mediaWorker EXCEPT !.at = "current"] ELSE Idle
    /\ UNCHANGED <<frames, guard, epoch, heardQueue, sink>>
    /\ UNCHANGED frameFrame

MarkHeard ==
    /\ mediaWorker.at = "current"
    /\ mediaWorker' = [mediaWorker EXCEPT !.at = "marked", !.tag = generation]
    /\ UNCHANGED <<frames, guard, epoch, heardQueue, sink>>
    /\ UNCHANGED frameFrame

SubmitHeard ==
    /\ mediaWorker.at = "marked"
    /\ sink' = sink \cup {[tag |-> mediaWorker.tag, of |-> mediaWorker.of]}
    /\ mediaWorker' = Idle
    /\ UNCHANGED <<frames, guard, epoch, heardQueue>>
    /\ UNCHANGED frameFrame

RoomWorker == TakeHeard \/ LookAtHeard \/ MarkHeard \/ SubmitHeard

DownNext == Coordinator \/ Connection \/ GuardWorker \/ Callbacks \/ RoomWorker

DownSpec == DownInit /\ [][DownNext]_downVars

-----------------------------------------------------------------------------
\* The product may trust the mark of a frame and the end of a session: a frame is
\* marked with the session its connection belongs to, and the flush that ends the
\* session is the last the product hears of it, whatever callbacks were under way.
MarkedAsReceived == \A f \in sink : f.tag = f.of

NothingAfterTheEnd == session = "off" => sink = {}

\* When the last talking client of the live stream has gone, its sound goes too.
FlushDue ==
    \/ flushing
    \/ \E i \in DOMAIN guard.queue : guard.queue[i].do = "flush"

UnusedIsFlushed ==
    business = "stream" /\ session = "on" /\ sink # {}
        => FlushDue \/ refused \/ \E h \in Handles : clients[h] = "heard"

SinkIsSound == MarkedAsReceived /\ NothingAfterTheEnd /\ UnusedIsFlushed
=============================================================================
