# TLA+ models of the TiRTC server and device example

This directory holds TLA+ models of the parts of `thing-connect/` where the order of steps
of several threads, processes or messages decides whether the program is right, and of the
algorithms in it that are easy to get wrong at a boundary. They are checked with TLC on small
instances and, where stated below, proved with TLAPS for every value of their constants.
Every definition is a translation of code: `PROJECT.json` names the lines ("map"), the
hazards the properties are aimed at ("hazards"), and for each property a plausible bug in
the code that would break it ("mutants").

Contents: 1 the system, 2 the models, 3 what is checked, 4 what is proved, 5 what does not
hold, 6 what is left out, 7 plan.

## 1. The system

A device (`device-sim/device-sim-c`, and a Python twin) holds one TiRTC runtime and uses it
for one *business* at a time: the product's live stream, or one foreground session (VoIP
call with a WeChat user, AI dialogue, call between devices, intercom room). Servers written
in Go bind devices, issue connect tokens and keep the state of calls in Redis and of devices
and contacts in MySQL; they reach devices by MQTT, devices reach them by HTTPS, media flows
peer to peer.

| Component | State | Operations | Hard behaviour | Models |
|---|---|---|---|---|
| Session arbiter, `session_arbiter.c` | owner, generation, pending ticket with deadline, finish queue, closed | offer, admit, cancel, begin, run action, finish (by lease, by kind, asynchronously), shutdown; lifecycle worker | two mutexes, callers on every thread, late ends, cancel against start, bounded queue, shutdown against worker | `SessionArbiter` |
| Session coordinator, `session_coordinator.c` | current business, adapters, product resource | begin, finish, start_stream, shutdown | each step of a switch may fail; one fallback | `SessionCoordinator` |
| Process, `main.c` | the parts, the threads, the lease cache | start-up in twenty steps, commands, MQTT handlers, shutdown | every step has clean-ups of its own; kill and power loss | `DeviceProcess`, and the model of each business |
| SDK callback guard, `sdk_callback_guard.c` | callbacks in flight, deferred actions, worker | enter, leave, defer, wait | waiting for oneself, full queue | `SdkCallbackGuard` |
| TiRTC runtime, `tirtc_runtime.c` | connection table with handlers | start, stop, activate, bind, dispatch | handler looked up under a lock and called outside it | `TirtcRuntime` |
| Live stream, `tirtc_stream.c`, `stream_connection_set.c` | clients, subscriptions, push thread | accept, subscribe, push, stop | disconnect while sending; key frames owed to late subscribers | `StreamService`, `StreamMedia`, `MediaTimeline` |
| Media files, `file_media_source.c`, `audio_recorder.c` | positions, frames; queue of a recorder | open, next, jump; submit, close | cutting at boundaries; several threads close at once | `VideoFile`, `MediaContainers`, `AudioRecorder` |
| Device call, `call_session.c`, `tirtc_call.c` | pending and active call, ring timer, connection, media thread | call, accept, reject, hang up, cancel, expire | server answers, notices and peer events in any order; timer against answer | `CallTransport`, `CallSession`, `DeviceCall`, `CallMedia` |
| VoIP and AI sessions, `tirtc_voip.c`, `tirtc_ai.c` | dialogue with a peer or a server, one connection | dial, answer, poll, stop | late answers, timeouts against success, two stops at once | `VoipSession`, `AiSession` |
| Intercom room client, `tirtc_room.c` | assignment, connection, bounded event queue, two workers | reconcile, connect, preempt, talk, stop | dropped events; preemption while joining | `RoomClient` |
| Rejections and WeChat list | ring of slots; list of WeChat users | reject; fetch, refresh, dial | wrap-around, lost wake-up; a notice while a refresh runs | `RejectQueue`, `Contacts` |
| Device adapter, `device_adapter.c` | numbers of the sessions, the media sink | start, stop, submit, flush | a frame handed over after its session's end | `Downlink` |
| Call rooms, `call-server/handler/call.go`, `room.go` | Redis: lock of a device, hash of a room, winner, refusals | request, answer, cancel, hang up, reject, query, unbind | handlers interleave between Redis calls and stop halfway | `CallRooms` |
| Contacts, `contact*.go`, `cleanup/outbox.go` | table `call_contact`, outbox | request, respond, delete, list, automatic contact, clean-up | limits counted before rows are written; repeated delivery | `CallContacts` |
| Binding, `internal/service`, `internal/store/mysql`, `mqttc`, `device_flow.c` | users' quota, ids, devices, verify records | report, bind, claim, unbind, grant | transactions and Redis records of several requests | `DeviceBinding` |
| Presence, `mqttc/broker.go`, `device_flow.c` | one Redis key per device | connect, heartbeat, end, unbind | messages late, lost, in another order at another server | `DevicePresence` |
| Python device, intercom rooms (server), recognition queue, VoIP server, admin, front ends, tools | | | | none, see section 6 |

How they interact. A call between devices starts at the call server (request), which
publishes `call_incoming`; the callee's MQTT handler offers it to its arbiter, the user
accepts, the arbiter begins a CALL session (stopping the stream), the session asks the
server for a token (which locks the device to the room), connects to the caller, and
finally some terminal event is handed to the arbiter's worker, which restores the stream.
`room_cancel` runs in the opposite direction and may cross all of this. Every connection
is announced by SDK callbacks on threads of the SDK's own, which may neither block nor call
the SDK: they note the event under a lock and defer the rest to the guard's worker.

What must be true of each part:

* arbiter and coordinator: one business on the runtime, and it is the owner's; a late end
  never touches a later session; a cancelled call never rings again; every end that was
  reported happens; shutdown terminates;
* process: nothing is freed that a thread still uses; the device's identity survives
  failures, kills and power losses;
* guard, runtime, stream: a stopped stream is quiet; the SDK is taken down when no callback
  is inside; every stop ends; a viewer that is owed a key frame gets no other frame before;
* media: frames and packets tile the file; a jump to a key frame takes the audio along; a
  recorder neither loses an accepted frame nor writes into another file;
* device call: a call that was taken back never becomes active; whoever waits is woken; a
  device that holds the runtime has something that will end it; sends go to open handles,
  frames come only from peers that were permitted;
* VoIP and AI sessions, room client: no connection is left behind; every wait has a
  deadline; a room that was begun is joined or ended, and comes back after a call;
* reject queue and list: calls are rejected once, in order; the list is as new as the last
  notice said, and never an older one;
* call rooms: one device answers a call; a device is in one room at a time; a call that is
  over stays over, and whoever was in it is told (an unbound device: by another server);
* contacts, binding, presence: limits and quotas balance under concurrent requests; an id
  changes hands only over an unbinding; the record follows the device.

## 2. The models

Conventions. A step is one critical section of the lock that protects the state, with the
calls the same thread makes before anybody can see the difference; a call of the SDK, a
request to a server and a wait end a step. Several threads are one variable each that says
where the thread is (`at`) and what it holds. Three arguments are used to merge steps. *Enter*
of a callback guard only raises a counter, so it may be moved to just before the callback's
critical section; *leave* only lowers it and may be moved to just after; nobody can see the
difference, as all that waits for the counter waits for zero. A callback that is one critical
section and one deferral is one step, and so is a deferred task whose whole work is under one
lock. Looking up a handler and calling it are two steps, because the code lets other threads
run in between. Definitions whose names end in `Mutant` are wrong versions of the definition
below them; no specification uses them.

### The arbiter: SessionCoordinator, SessionArbiter, SessionOwnership, SessionLease

`SessionCoordinator` stops one adapter and starts another. Its functions run under one
mutex, so there is at most one call inside it; the record `call` says which function, how
far it is and what it will return. `current` is the field of the code; `held` and `running`
are the outside world (product resource, started adapters), so that an adapter that is
forgotten without being stopped shows. `ResourceDenied` and `AdapterFailed` are the failures
of the product and of the SDK; `MaxFailures` bounds them.

`SessionArbiter` EXTENDS it, since the arbiter calls the coordinator while holding
`transition_lock`. A step is one critical section of `state_lock`. The variable
`transition` is what the holder of `transition_lock` is doing.

| Action | Code |
|---|---|
| `OfferPending`, `AdmitIncoming`, `CancelId`, `LookAtTicket` | `session_arbiter_offer_pending_id`, `_admit_incoming_id`, `_cancel_id`, `_has_pending_id` |
| `Begin`, `CommitBegin` | `session_arbiter_begin_id_ex` before and after the coordinator |
| `RunAction`, `CommitAction` | `session_arbiter_run_action` around the action |
| `FinishLease`, `EndReturned` | `_finish_generation`, `_finish_coordinator_with_recovery` with its three retries |
| `FinishAsync` | `_finish_async_generation`, with and without restoring the ticket |
| `WorkerPick`, `WorkerFinish`, `WorkerDone`, `WorkerExit` | `_lifecycle_worker` |
| `ShutdownClose`, `ShutdownSealed`, `ShutdownStopsWorker`, `ShutdownJoined` | `session_arbiter_shutdown` |

Leases appear as the pair (kind, generation): an operation that takes a lease may be called
with any pair ever given out, which covers stale leases and those kept in `main.c`. A ticket
with a deadline may be found expired wherever the code reads the clock. `asked` and
`withdrawn` are history.

`SessionOwnership` is the promise to the callers without locks, queues or tickets: one
owner, a new term for every owner, and an owner that has started loses the runtime only
after somebody asked to end that term, or to a foreground session when it is the room, or at
shutdown. `OwnershipSpec` is the refinement mapping. `SessionLease` is the arbiter as one
kind of session sees it (one owner, one ticket, at most one queued end); the models of the
sessions use it, each as its kind.

### The live stream: SdkCallbackGuard, TirtcRuntime, StreamService

`SdkCallbackGuard` is a data type: a guard is a value (callbacks inside, queued tasks, the
task of the worker) and each function of the code is an operator on it. `TirtcRuntime` adds
the SDK's connections, the table that binds a connection to the service that was active when
it appeared, and the start and stop of the SDK with its barriers. `StreamService` EXTENDS it
with the clients, the worker that accepts them and the push thread.

| Action | Code |
|---|---|
| `Dispatch`, `Handler` | `_on_conn_accepted`, `_on_conn_error`, `_on_disconnected` of the runtime; then of the service |
| `Worker`, `TakeTask`, `ActivateClient`, `Refuse` | `_accept_connection` in the deferred worker |
| `EnsurePush` … `CreatePush` | `_ensure_push_thread` |
| `LeaveLoop`, `EndPush`, `SendFails` | `_push_thread` |
| `StartStream`, `StartService`, `StopStream`, `StopService`, `JoinPush`, `DrainService` | `_start_stream`, `stream_service_start`, `_stop_stream`, `stream_service_stop` |
| `RuntimeStart`, `WaitStarted`, `RuntimeStop`, `Barrier`, `WaitBarrier`, `StopSdk`, `Uninit`, `StopGuards` | `tirtc_runtime_start`, `tirtc_runtime_stop` |

The table of 32 entries is a function: the SDK keeps four connections and `on_disconnected`
clears an entry, so that it cannot fill. The start of the stream's service cannot fail here:
`main.c:897` has checked the formats it would refuse.

### The media path: StreamMedia, MediaTimeline, VideoFile, MediaContainers, AudioRecorder

`StreamMedia` is what the push thread sends to whom, while callbacks change subscriptions,
ask for key frames and take viewers away: `Snapshot`, `ReadAudio`/`ReadVideo`, then for each
viewer `Check` (the policy, under the lock), `Send` (without it) and `Sent`/`Busy`/`Failed`
(under it), against `SubscribeVideo`, `Unsubscribe`, `RequestKey`, `Accept`, `Leave`. Taking
the snapshot, observing the clock and forcing a key frame are one step; checking, sending
and noting the outcome are three, because the lock is released. A handle is not used again
while a send on it runs. `Tracked` remembers who is owed a key frame.

`MediaTimeline` is the clock: when the next frame is due and what of the file it holds,
through forced key frames, the end of the file, late threads and times without viewers. A
unit of time is 40/3 ms, in which an audio packet (40 ms) and a video frame (1000/15 ms) are
whole numbers, so that rounding is exact. `VideoFile` cuts NAL units into frames,
`MediaContainers` samples, AMR, ADTS, Ogg and JPEG files into packets; both read every file
up to a length, a byte being no more than the loops tell apart (an ADTS header is two cells
for seven bytes, a full Ogg segment 2 for 255). `AudioRecorder` is the queue, worker and
closing threads of a recorder; `open` works without the lock and shows its fields in one
step, as nothing looks at them before `accepting`.

`MCMedia` checks the five together: they share no variable in the code, so the module draws
at the start which `part` runs. The same construction is used in the other MC modules that
hold several parts; an initial choice keeps every part's behaviours and adds none. What
bounds a part there is a CONSTANT of the MC module, so that the theorems about
`MediaSpec`, `ContactsSpec` and the others hold for every value of it.

### Device calls: CallTransport, CallSession, DeviceCall; CallMedia, Downlink

`CallTransport` is `tirtc_call.c`: which connection is the call's, the room an incoming one
must name, deferred tasks, one attempt to connect with its retries. `CallSession` is
`call_session.c` with the ring timers, each a thread. `DeviceCall` puts them together:

| Action | Code |
|---|---|
| `Call` (`DoCall` … `StartRingTimer`) | `call_session_do_call`, with the request, its answer and the timer as steps |
| `Accept` (`DoAccept` … `StartCall`) | `call_session_do_accept`, `_accept_connect_action`, `call_connect_to` |
| `Other` | hang-up, cancel, reject, expiry and the end of a failed dial |
| `Message`, `Handling` | `_mqtt_call_incoming`, `_mqtt_call_cancel`, `_mqtt_call_reject` |
| `Worker` | `_deferred_accept_call`, `_call_command_deferred`, `_deferred_disconnect_call`, `_deferred_finish_call` |
| `RingTimer` | `_ring_timer_thread` |
| `Arbiter` | `_lifecycle_worker`, `_stop_call`, `call_service_stop` |
| `Sdk` | the callbacks and connections of the SDK |

Any message of the server about a room that exists may come at any time, late and more than
once; any request may fail.

`CallMedia` is the media of one call on either side: permission and subscriptions in both
directions, the policy that lets the media thread send, its key frames and failures, the
replacement of a connection by another. The room is always the right one; whether the file's
next frame is a key frame is left open; the arbiter stops the call only when no action of it
runs, as `transition_lock` ensures.

`Downlink` is the way of a received frame to the product's sink: `FrameArrives` (the
service's critical section), `Mark` and `Submit` (without it), against `StartSession`,
`StopSession`, `SessionStopped` (flush) and the stream's deferred `FlushUnused`. The room
queues its frames for a worker and shares `media_lock` with it instead. The sink is the set
of what it was given and was not told to drop; removing the last listener and scheduling the
flush are one step; `refused` remembers a flush that a full guard queue turned away; the
number of a session of the room changes at its start and stop. `MCCallMedia` runs the call's
media, the sink, and the ring of busy rejections below.

### VoIP and AI sessions: AiSession, VoipSession (MCWhipSessions)

Both dial with `TiRtcWhipConnect`, whose answer comes in a callback, over `SessionLease`.
A connection is the number of its attempt. AI: command thread (`BeginAi`, `StartSession`,
`WhipConnect`, `Expires`, `Finish`), worker (`TakeStart`, `TakeLost`, `TakeCommand`,
`TakeTask`), arbiter (`LifecycleWorker`, `ServiceStops`), callbacks (`Connected`,
`ConnError`, `OnDisconnected`, `PeerCommands`). VoIP adds MQTT's thread (`VoipIncoming`,
`VoipCancel`) and the user's `Accept`, `Reject`, `Hangup`; there `control_lock` is held from
end to end by start, stop and the worker's tasks, so that each is one step. A late ringback
comes within the 60 seconds a timed-out call is ignored.

### RoomClient

Control worker (`Loop`, `Process`, `GetAssignment`, `ConnectToken`, `Begin`, `RunAction`,
`Finish`), media worker (`MediaLooks`, `MediaOpens`, `MediaSends`), the adapter's stop on any
thread (`StopService`, `LeaveRoom`, `CloseMic`), preemption (`OtherBegins`, `OtherEnds`), the
user (`RoomPtt`, `RoomCommand`), the server (`Assign`) and the callbacks. A generation is
only ever compared with the current one, so events are marked fresh or stale; what has a
deadline may be past it at any iteration of the worker.

### Servers: CallRooms, CallContacts, DeviceBinding, DevicePresence

`CallRooms`: Redis and the HTTP handlers, one Redis call (or MULTI/EXEC pipeline) per step.
`worker` maps each goroutine to the request it serves: the device that called, the room as
it was read (`rm`: Go keeps a copy, and so does the model), the room to be released (`old`),
and the next step. A room hash may be whole, absent, or *broken*: a late `setAnsweredBy`
(HSET) creates a hash that holds `answered_by` but no targets, on which `getRoom` fails.

| Step | Code |
|---|---|
| `PostCallRequest`, `CreateRoom`, `PublishCallIncoming` | `postCallRequest` |
| `PostDeviceInfo`, `ReadLock`, `ReadOld`, `ClaimAnswer`, `TakeLock`, `OverwriteLock`, `SetAnsweredBy`, `ReplyToken` | `postDeviceInfo`, with the hang-up of the room the device was in |
| `PostCallCancel`, `PostCallHangup`, `PostCallReject`, `AddRejected`, `ReleaseRoom`, `PublishRoomCancel` | the handlers of these names |
| `GetDeviceRoom`, `QueryRoom`, `DropOrphan` | `getDeviceRoom` and its clean-up of orphan locks |
| `PostInternalUnbind`, `FindRoom` | the call-room part of `postInternalUnbind`: the device unbound is not among those `PublishRoomCancel` tells |
| `RequestDies`, `ReadLockFailed` | the process or the client goes away between two calls; a failed read taken for "not locked" |

`CallContacts`: every handler as its statements on `call_contact`, a transaction holding the
rows it locks until it commits; the outbox's delivery may be repeated. A device's HTTP client
may give up, so that several requests of one device can run.

`DeviceBinding`: device (`Boot`, report, `ConnectTemp`, `Granted`, `Save`, `Token`), requests
of users (`Bind`, `LookByMac`, `CommitBindFromPool`, `CommitBindByDeviceID`, `CommitClaim`,
`Publish`, `WaitDone`, `Clean`; `Reset`), and the lapse of records. A MySQL transaction is
one step; so are the accesses of one request that no other request can disturb. Devices are
symmetric, as are users.

`DevicePresence`: two servers hear of each connection, of its end and of heartbeats and write
one Redis key. A unit of time is the period of the heartbeat (30 s): a message is there by
the end of it or lost. A connection that dies without notice is ended by the broker within
the keep-alive.

### The process: DeviceProcess

`device_reference_run` from its first line to its last, with the identity file. Parts are
memory that exists (`alive`) and threads that run (`running`) and reach into that memory; a
phase of the start is an action, each of which may fail, with the clean-up the code has at
that place (`CleanUp`); `Save` is the write of the identity step by step (`OpenTemp`,
`WriteAll`, `Sync`, `Rename`), `Killed` and `PowerLoss` come at any moment. Two identities
are enough to tell the device's own from another, and two boots to see what one leaves to
the next; by symmetry only one of them is given on the command line.

### RejectQueue, RejectFifo, Contacts

`RejectQueue` is both rings of busy rejections (device calls, WeChat calls) with lock,
condition and worker, where being asleep is explicit, so that a lost wake-up is a state; the
two initial states are the two kinds of queue. `RejectFifo` is what they promise: a bounded
queue; `ImplementsFifo` is the refinement. The WeChat ring refuses when it is closed, but it is
closed only after MQTT has stopped, so that this never happens. The ring runs in
`MCCallMedia`. `Contacts` is the list of WeChat users on the device: what the server holds is
an edition number, the refresh thread, the first fetch, notices on the MQTT thread and dials
on the command thread work on one list. `MCContacts` runs it beside two instances of
`CallContacts`: with devices of several accounts that reach the limit, and with devices that
are unbound and change hands.

## 3. What is checked

| Run (`cfg`) | Instance | Distinct states |
|---|---|---|
| `arbiter` (Arbiter) | kinds VOIP, CALL, ROOM; 1 id; queue 3; 2 sessions; 3 failures; fair | 71 252 |
| `call_rooms_answer` | 3 devices, 1 room, 3 goroutines, 1 death | 902 463 |
| `call_rooms_switch` | 2 devices, 2 rooms, 2 goroutines, 1 death | 1 367 540 |
| `stream` | 1 connection, guard queue 2, 3 sessions; fair | 59 619 |
| `device_call` | 1 call out, 1 call in, 1 task, 1 offer, 2 attempts to connect | 1 272 629 |
| `call_media` | call: 2 connections, 2 failures, 2 tasks; sink: 2 sessions, guard queue 4, room queue 2; ring: 3 slots, 7 calls | 1 328 276 |
| `room_client` | 1 connection, event queue 2; fair | 140 329 |
| `whip` | AI: 3 attempts, 3 tasks; VoIP: 2 attempts, 2 tasks, 1 dial, 1 incoming call | 1 505 451 |
| `voip_cancel` | VoIP alone: 2 attempts, 2 tasks, 1 dial, 1 incoming call; violated | about 13 000 until then |
| `servers` | binding: 1 device, 2 users, 2 ids, 2 requests, quota 2, 1 code; presence: 2 servers, record of 5 periods, 2 connections, 1 unbinding, 1 loss; process: 2 ids, 2 boots | 1 413 195 |
| `media` | 2 viewers, file of 2 frames with 1 key frame, 2 failures; clock: 4 loops, keys {2, 3, 7}, 7 units late; all files up to 5 units or 5 bytes or 3 pages; recorder: queue 2, 4 frames, 3 opens, and queue 1 with overlapping opens | 1 458 540 |
| `contacts` | WeChat list: 4 editions; server: limit with 3 devices that request and answer, turnover with 2 devices that delete, list and page over 2 unbindings | 489 351 |

**`arbiter`.** `RuntimeAndOwnerAgree`: whenever nobody is switching, owner and running
adapter agree; never two businesses or two held resources; the coordinator's own checks
never refuse what the arbiter granted; an action runs only on its own session's adapter; and
nothing happens after the shutdown sealed the runtime. `TicketUnderOwner`: a ticket beside a
session is that session's own, ringing again with its end on the way, or stands beside the
room. `RollbackOnlyUndoesBegin`: a failed begin never brings back a cancelled call.
`OwnershipSpec` is the refinement. `AskedToEndEnds` and `ShutdownCompletes` are liveness.
Three kinds are needed for "a session replaces the room while another call rings". Three
failures are what ending a session survives (`retry_delays_ms` has three entries). AI
sessions are, for the arbiter, a kind that does not ring; the proofs cover them. The queue has
as many places as sessions; a full queue drops ends (the code logs it), and `AskedToEndEnds`
then fails: in the code, only with 16 undelivered ends of different generations.

**`call_rooms_answer`**: two targets answer while the third party cancels, rejects, queries
or is unbound. One device wins (`AnswerIsExclusive`), and no other device is held by a live
call (`LockHolderBelongs`). **`call_rooms_switch`**: answering one call hangs up the other,
in both directions at once. A released call never comes back (`ReleasedIsGone`); requests
that do not cross keep locks and rooms in step, hence one room per device
(`SerialRequestsKeepStep`); however requests cross, whoever got the token of a call that is
over is told by the call server (`NobodyLeftBehind`), but for the two it tells nothing: a
call every target refused, which needs no message, and a device that is itself unbound, which
`postInternalUnbind` leaves out of the recipients (section 5). Each race found has two requests in it, and a third adds a
bystander; 3 devices, 2 rooms and 2 goroutines were run once by hand without error.

**`stream`**: when `stream_service_stop` has returned nothing of the service is left
(`StoppedIsQuiet`), `TiRtcStop` and `TiRtcUninit` find no callback inside the service
(`BarriersHold`), and every stop ends (`StopsEnd`). A viewer that comes and goes during
three sessions gives callbacks of a session that is over. Of the three only `StopsEnd` rests
on the instance; the two others are theorems for any number of connections, tasks and
sessions. With two connections and a guard queue of one the model was run by hand, without
error (1 135 527 states, 13 minutes with liveness).

**`device_call`**: a call that its caller, the user or the 45 seconds took back is never the
active call (`CancelledCallIsNotResurrected`); joins, locks and drains never wait for each
other in a circle (`NobodyIsStuck`: unless all threads rest, one of them can go on); when no thread has
anything begun, a session that is held is that of the accepted call, or of a placed call
whose ring timer runs or which has a connection that is up (`HeldSessionIsWatched`). It
excepts a session that `accept` began with the ticket of another call (`TookAnotherTicket`,
section 5). That a connection counts is needed with two placed rooms: see section 5, *Sessions
and calls*, on the late connection of an earlier room. **`call_media`**: `SendsOnOpenHandle`;
`HearsWhatItAsked`: frames of the peer pass only while there is a connection and only of the
media subscribed on it; a frame in the product's sink carries the number of the session it
was received in, nothing is there after its session's end was flushed, and the frames of a
stream nobody talks on any more are flushed or about to be; and the ring of busy rejections
is a bounded queue (`ImplementsFifo`; seven calls wrap three slots twice, in the code 16).

**`room_client`**: an open connection is the room's or somebody is about to close it
(`NoConnectionLeft`), a room that was begun is joined or ended (`JoinsOrEnds`), and it comes
back after a call (`RoomComesBack`). **`whip`**: the same for AI connections
(`NoConnectionLeft`); whatever a session waits for has a deadline (`WaitingIsTimed`,
`VoipHeldIsWatched`); a dial that timed out stays down (`VoipTimedOutStaysDown`).
**`voip_cancel`** states what `device-voip.md:646` says of a dial the user hangs up, that its
late ringback is refused (`CancelledDialStaysDown`), and TLC finds it violated: `hangup` and
`cancel` (`main.c:567`) go through `voip_stop_session`, which clears the call and records
nothing; only a timeout, and a command loop that nothing calls, keep the `call_id`.

**`servers`**: a user's devices and the rest of the quota make up the quota
(`QuotaLedger`); one id per user and MAC (`OneIdentityPerUser`); an id changes hands only
over an unbinding (`OwnerUntilUnbound`); the presence record follows the device within two
heartbeats, or the life of a record (`PresenceFollows`); nothing is freed under a thread that
uses it (`NothingOutlivesWhatItUses`); an identity that was stored stays, whatever fails
(`IdentityIsKept`). One code is what two users race for; two ids let a user have more than
one.

**`media`**: a viewer that is owed a key frame gets no other video before, after BUSY too
(`KeyFrameWhenOwed`); frames and packets tile the file (`FramesTileTheFile`); a recorder
loses no accepted frame, writes none into another file and is closed once
(`RecorderIsSound`); a jump to a key frame takes the audio along (`JumpTakesAudioAlong`).
The clock's file is long enough to wrap in both tracks; cutting looks at most two
units back, so that five show every pattern. **`contacts`**: a notice, or a dial that was
refused, is not swallowed by a refresh that already has its answer: when the thread rests,
the list is as new as the device was last told, unless a fetch failed (`NoticesAreFollowed`;
four editions let notices come before, during and after a fetch); no device has more accepted contacts than
allowed by hand (`ManualWithinLimit`); a list is not replaced by an older one, and no step
of the server brings back a contact that was deleted or refused, unless a request of one
account is about to (`ListsGoForward`).

**Deadlock** is checked in `device_call`, `room_client` and `whip`, where a state without a
step would be a deadlock of the code. Elsewhere the system really comes to rest: a shutdown,
or the end of a bounded supply (rooms, sessions, codes, frames, opens).

**Fairness** is assumed in `arbiter`, `stream` and `room_client`. *Arbiter*: the holder of `transition_lock`, the worker
and the shutdown keep running, and product and SDK calls return (weak). The worker competes
for `transition_lock` with other threads, so `WorkerFinish` is strong: a mutex that is free
again and again is acquired in the end, as the others act at the pace of users and networks.
*Stream*: callbacks return, the push thread leaves when told (weak); a task of the worker
and the waits for a guard are strong, because each needs a moment without callbacks, which
connections only interrupt. *Room*: both workers and the stop run, and stale connections get
their end (weak); the worker gets an iteration that reads the assignment, and its requests
and its begin succeed again and again (strong: that is what "comes back" presupposes). No
fairness is assumed of users, callers, the network or the shutdown request.

## 4. What is proved

TLAPS checks these for every value of the constants. The assumptions are the named ones of
the modules: kinds are among those of the code, ids are not the marker of a missing one,
sets of devices, handles and requests are finite where the code counts them, queues have at
least one place. No fairness.

| Module | Theorems | Statement |
|---|---|---|
| SessionArbiterProofs | `TypeInvariant`, `InductiveInvariant` | types; the position of the holder of `transition_lock` determines what runs |
| | `OwnerIsRunningAlways`, `OneBusinessAlways`, `CoordinatorNeverRefusesAlways`, `ActionRunsAlways`, `ClosedIsFinalAlways`, `RuntimeAndOwnerAgreeAlways` | the parts of `RuntimeAndOwnerAgree`, and the whole |
| | `EndIsLostBehindBacklogOnly`, `TicketNeedsRoom` | the end of the present session finds a place unless the queue is full of ends of earlier ones; `TicketUnderOwner`, as long as it does |
| | `RollbackOnlyUndoesBeginAlways`, `ArbiterImplementsOwnership` | the action property; the refinement `OwnershipSpec` |
| CallRoomsProofs (call rooms) | `CallRoomsInductive`, `CallRoomsTyped`, `OneDeviceAnswers`, `NobodyElseIsLocked`, `ReleasedStaysGone` | the invariant; `AnswerIsExclusive`, `LockHolderBelongs`, `ReleasedIsGone` |
| | `SerialRequestsAreSteady`, `SerialRequestsStayInStep` | `SerialRequestsKeepStep` |
| | `RefusalsInductive`, `RefusedMeansByAllAlways` | a call ends as refused only when every target refused or was offline |
| | `EndsAreTold`, `NobodyLeftBehindAlways` | the invariant about who tells whom; `NobodyLeftBehind` |
| CallRoomsProofs (contacts) | `AnswersInductive`, `ManualWithinLimitAlways` | `ManualWithinLimit` |
| | `NoticesAreFollowedAlways`, `ListsGoForwardAlways` | `NoticesAreFollowed`; the action property `ListsGoForward` |
| StreamServiceProofs (stream) | `StreamInductive`, `StreamTyped`, `StoppedIsQuietAlways`, `BarriersHoldAlways` | `StoppedIsQuiet`, `BarriersHold` |
| StreamServiceProofs (media) | `KeyFramesInductive`, `KeyFrameWhenOwedAlways` | `KeyFrameWhenOwed` |
| | `RecorderInductive`, `RecorderIsSoundAlways` | `RecorderIsSound`, with sessions that keep apart and with overlapping ones |
| | `JumpTakesAudioAlongAlways` | the action property `JumpTakesAudioAlong` |
| DeviceCallProofs | `DeviceCallInductive`, `DeviceCallTyped`, `CancelledCallStaysDown`, `ReleasedIsQuietAlways` | `CancelledCallIsNotResurrected`; a device released and stopped has no connection, thread or task of a call |
| | `HeldInductive`, `HeldSessionIsWatchedAlways` | `HeldSessionIsWatched` |
| CallMediaProofs | `CallMediaInductive`, `SendsOnOpenHandleAlways`, `StoppedCallIsQuiet` | `SendsOnOpenHandle`; a call that stopped leaves nothing |
| | `DownlinkInductive`, `HearsWhatItAskedAlways` | `HearsWhatItAsked`, of the call and of the sink |
| | `RejectQueueInductive`, `QueuedCallsAreKeptAlways`, `NoWakeUpIsLostAlways`, `NothingIsLeftBehind`, `RingImplementsFifo`, `RejectionsImplementFifo` | nothing lost, nothing posted twice, no lost wake-up; `ImplementsFifo` |
| WhipSessionsProofs | `AiSessionInductive`, `AiSessionTyped`, `NoConnectionLeftAlways`, `ReleasedIsQuietAlways`, `WaitingIsTimedAlways` | `NoConnectionLeft`, `WaitingIsTimed` |
| | `VoipInductive`, `VoipHeldIsWatchedAlways`, `VoipTimedOutStaysDownAlways` | `VoipHeldIsWatched`, `VoipTimedOutStaysDown` |
| RoomClientProofs | `RoomInductive`, `RoomTyped`, `NoConnectionLeftAlways`, `ReleasedIsQuietAlways` | `NoConnectionLeft` of the room |
| ServersProofs | `BindingInductive`, `BindingTyped`, `QuotaLedgerAlways`, `OneIdentityPerUserAlways`, `OwnedUntilUnbound` | `QuotaLedger`, `OneIdentityPerUser`, `OwnerUntilUnbound` |
| | `PresenceInductive`, `PresenceFollowsAlways` | `PresenceFollows` |
| | `ProcessInductive`, `IdentityIsKeptAlways` | `IdentityIsKept` |

The theorems are about the specifications the runs check: a module of proofs extends
`SessionArbiter`, `StreamService`, `DeviceCall`, `RoomClient` or the MC module itself
(`MCCallMedia`, `MCContacts`, `MCMedia`, `MCServers`, `MCWhipSessions`); those of `CallRooms`
are about the module that `MCCallRooms` extends. `PartsRunAlone`, `ServersRunAlone` and
`WhipRunsAlone` say that a part of an MC module runs as it would by itself. Each inductive
invariant was first an invariant of a TLC run.

*Arbiter.* None of the five parts of `RuntimeAndOwnerAgree` is inductive: each speaks of a
moment when nobody is switching, or of one point of a switch. What carries them is that the
position of the holder of `transition_lock`, in the arbiter (`transition.op`) and inside the
coordinator (`call.pc`, `call.rc`), determines what runs: `HolderInv`, `RuntimeInv`,
`IdleInv`, `BeginInv`, `ActionInv`, `EndInv`, `ClosedInv`, and `AskedInv` (an end in the queue
or with the worker was asked for and belongs to no future generation), which the refinement
needs. `TicketUnderOwner` is false when the queue overflows, and the code, with 16 places and
any number of sessions, does not exclude that. So two things are proved, for a queue of any
size: `TicketNeedsRoom`, the property for behaviours in which the queue always has room for
the end of the present session; and `EndIsLostBehindBacklogOnly`, which says what it takes to
be without room: every place is held by the end of another, earlier session, in the order of
the sessions, and the worker has come to none of them. For the rollback the
invariant adds that, while a begin is under way, a withdrawn call is marked cancelled or its
ticket was touched.

*Call rooms.* The danger is a goroutine that acts on a room it read some Redis calls ago.
Before its first key is written nobody knows a room (`FreshInv`), from the lock of the caller
to the HSET only the request that creates it does (`CreateInv`), and a request that gets to a
step has the device and the rooms that step is about (`RequestInv`). A room that exists is
then only read, answered once (SETNX), or deleted for good; one lemma (`ProceedsKeeps`)
carries the invariant over every step but the two that bring a room into being. The code
counts refusals; `RefusedMeansByAll` needs that the refusals of a room are among its targets,
and that a finite set with a subset of its size equals it.

`NobodyLeftBehind` speaks of the moment when all requests are through; before it, a message
may be owed. `Informed` says by whom, as long as no request has died: a release tells all
targets, or the winner when it saw one; a winner (SETNX succeeded) tells the others; a request
that is answering is a target's; and who leaves a room because it was locked to it belongs
to it. Hence everyone who has or may yet get the token of a released room was told of its end
or somebody under way will tell him (`EndsAreTold`). Three kinds of devices need no telling:
who ended the call himself, everyone when all have refused, and a device that is unbound. The
last is kept apart (`unbound`), as the call server does not tell it anything.

*Contacts.* While an answer is between its count and its commit it holds the row and the
rows of both bindings, so that no other answer is about either device and what it counted
cannot grow (`ContactInv`); that is why counting before writing keeps the limit. A WeChat list
has one writer at a time, first the main thread, then the worker, whose answer is never older
than the list in place (`ListInv`); from the moment the device is told of an edition, either a
request is noted, or the worker has not asked yet, or its answer or the list is that new
(`NoticeInv`). For contacts that do not come back: the row of an answer that is about to commit
is still pending, and every statement waits for the row lock (`TurnInv`).

*Stream.* The guards' counters say nothing by themselves. The invariant says that a guard
counts exactly the callbacks that are inside a handler (a cardinality over the connections),
that the worker's task is the accept under way, that the push thread belongs to the service
or to whoever joins it, and that what an earlier barrier of the halt has waited for does not
come back. From the last follows that TiRtcStop and TiRtcUninit find nothing inside, also
when SYS_STOPPED never comes.

*Media.* A viewer that is owed a key frame waits for one, except between a frame that was
refused and the noting of it, when the thread sends nothing else; and nobody becomes a new
viewer under a handle on which a send runs (`KeyInv`). In the recorder, whoever has set
`closing` is alone until it is back, and a worker that is marked as started is not joined
unless the one who joined it is still at the files; when sessions keep apart, what was
accepted for the open file is written, queued or in the worker's hands, and a worker is gone
only with an empty queue (`RecorderInv`). The clock needs one inequality: the audio's time
stamp is at most one packet ahead of the video's (`ClockInv`), so that a jump leaves the two
one to five units apart, whatever was before. That there is a least key frame to jump to is
the well-foundedness of the order of finite sets.

*Device call.* Five kinds of threads keep the variables of one call in step; the invariant
says for each thread at each place what it has read and what still holds of it. The heart of
`CancelledCallIsNotResurrected` is that whoever makes a call active has looked at the pending
record under the lock after the last step that could take the call back. A held session needs
more: for which call it is held and in which phase of the command thread (`HeldInv`,
`HandInv`), which thread joins each ring timer (`JoinInv`), and that a connection of a placed
call is up or the worker has its end still to hear (`UpInv`). Then someone is always about to
end the session, or it rings, or it has a connection (`WatchInv`). The statement was first
made without the connection. That held on the small instance and was no invariant with two
placed rooms: the proof got stuck where the code does (section 5).

*Media of a call and the sink.* Whoever joins the media thread holds the control mutex and
has told the thread to stop; while the mutex is free the thread's handle is the current
connection, and a connection is closed by this device only when it is not, or when the
thread has given it up (`ControlInv`, `SendInv`); a connection is announced once, and is then
taken in or closed (`AnnounceInv`). For the sink: the guard counts the callbacks inside; a
connection, a frame under way, a frame queued in the room and a frame in the sink are of the
current session; and when nobody talks to the stream any more a flush is still to come
(`DownInv`). *Rejections.* Head, tail, count and what the worker holds determine each other;
with the sequences of queued and posted calls as history, the refinement mapping is the
window between them.

*AI, VoIP and room.* `NoConnectionLeft` is false of any single variable: at different
moments a connection belongs to the SDK's callback, the session, a deferred task or the
thread that stops it. The invariants name the owner at each moment. Room: there is one
connection of the current generation, dialled, announced or the room's, and every other is
stale and somebody disconnects it. With two connections TLC finds the room's invariant to
hold in 2 028 222 states. VoIP: what waits has a deadline (`VDeadlineInv`), an action holds
the owner (`VServeInv`), a held session has a call or somebody who begins or ends one
(`VHeldInv`), and of a dial that timed out only its ringback and the connection that led to
may be under way, and then somebody is closing (`VLapsedInv`), for which the invariant has to
know which rooms a message, the dial and the session are about (`VRoomInv`, `VDialledInv`).

*Binding, presence, process.* What a request has read of users, ids and devices agrees with
the tables at every step, or the transaction that uses it reads it again. A device that has
been connected for a period has told nothing since but heartbeats, and one that is gone is
known at most as long as its record is older than its absence (`PresenceInv`). From the
phase after the grant on, whoever goes on with an identity would find it in the file, and a
temporary file is renamed only when it was synchronised (`ProcessInv`).

Only model-checked:

* liveness (`AskedToEndEnds`, `ShutdownCompletes`, `StopsEnd`, `JoinsOrEnds`,
  `RoomComesBack`) and `NobodyIsStuck`, whose statement is about what is enabled: both are
  beyond the prover;
* `FramesTileTheFile`: the frames of every file, which would need induction over its length;
* `NothingOutlivesWhatItUses`: the process has one start-up with a fixed list of phases and
  clean-ups and no parameter but the identities, which do not matter to it; the run visits
  all of it.

Not proved either is that the models are the code; for that there are the map and the
mutants.

## 5. What does not hold

Reading the code and checking the models showed places where the code does not do what a
reader, or a document of the repository, would expect. The models follow the code; one of the
places is a run of its own (`voip_cancel`), and no property states the others. Paths are relative to `thing-connect/`; those of C files to
`device-sim/device-sim-c/src/`, those of `device-*.md` to its documents.

*Sessions and calls*

* `accept` begins with the ticket of the call that rings by then; if another call has rung
  since, the action refuses the owner it got and leaves it held (`call_session.c:495`,
  `main.c:209`).
* A begin that fails tries the stream once and ignores the result
  (`session_coordinator.c:128`), while the end of a session retries three times
  (`session_arbiter.c:60`): the stream can stay off, against `device-session-arbiter.md:339`.
* A ticket can stand beside an owner: calls are offered while the room owns the runtime
  (`device-session-arbiter.md:340`).
* A connection of a placed room whose request's answer was lost may come late, while a later
  room is connected: `_deferred_accept_call` takes it (`tirtc_call.c:149`), replaces the
  connected one and goes back to connecting, without a ring timer. The session then ends
  only with that connection or by the user.
* A late `room_cancel` of the former room ends the timer and connection of the new call
  (`tirtc_call.c:1128`); a ring timer that has looked at its flag cancels a call that is
  answered while it posts (`call_session.c:210`).
* A connection attempt that succeeds when its wait has just ended is never disconnected
  (`tirtc_call.c:705`, against `device-session-arbiter.md:247`).
* A plain error for the first key frame of a call is taken as sent (`tirtc_call.c:690`); a
  permission that was granted may be answered by no subscription (`tirtc_call.c:164`).
* A WeChat dial hung up before its ringback is connected when the ringback comes: only a
  timeout records `ignored_call_id` (`tirtc_voip.c:1670`, against `device-voip.md:646`; run
  `voip_cancel`). One id is kept (`tirtc_voip.c:1210`): a second dial that times out
  overwrites it, and a ringback of the first, which should be ignored for 60 s
  (`device-voip.md:626`), can come up in the session of a third; nor is a ringback refused
  whose answer crosses the timeout. A late `call_cancel` may end a newer call; a snapshot may be stale with two own calls; a
  hang-up while a WeChat call rings leaves its ticket for up to 45 s.
* The AI owner stays held when failure and deadline of a connection coincide
  (`tirtc_ai.c:203`, against `device-session-arbiter.md:344`); an answer to an abandoned
  `start_session` can be taken for that of the next (`tirtc_ai.c:330`).
* `main.c:188` stores a lease again after `begin` returned, and a failed dial finishes by
  kind; the models take the cached lease to be the current one.
* When the wait for the SDK's stop event times out, deferred disconnects can run into the
  Uninit (`tirtc_runtime.c:663`). A full guard queue drops what it is given.
* `QUERY_ROOM` clears the active room without ending the session.
* Room client: a disconnect event dropped by a full queue leaves the room joined on a dead
  connection; one failed poll tears down a joined room; a late frame of an old connection
  passes when the SDK uses its handle again (`tirtc_room.c:587`).

*Media*

* A subscription does not always begin with a key frame (`tirtc_stream.c:451`,`:323`): a
  frame that fails with another error than BUSY is followed by a delta frame. When the push
  thread ends after a failure, or the file has no key frame, viewers stay without media.
* Video is read also when only audio is subscribed, and the clocks drift apart over pauses
  (`stream_media_timeline.c:16`).
* A unit that begins a new picture is not always a boundary for the cutter
  (`file_media_source.c:378`).
* The deferred flush takes the number the session has *then* (`tirtc_stream.c:45`), where
  `README.md:60` of the device says that a flush clears generations that have stopped.
* A recorder that is opened again while an earlier close is under way may be closed by it.

*Servers*

* A cancel between the answer and its recording leaves a hash without targets and a lock that
  points to it (`room.go:123`); the clean-up of orphans, written for such cases, answers 500,
  later answers too, and calls are refused as busy until the lock expires.
* A device can be in two rooms, against `device-call.md:53`: `GET /v1/call/room` deletes a
  lock whose room it did not find, though that room is just being created.
* A call with repeated targets does not end when each of them has refused; a device that
  answered may also reject.
* Binding: the device acknowledges before it stores (`device_flow.c:676`); a grant may be
  published again, and the acknowledgement of another grant be taken for it
  (`broker.go:281`, `:239`); a MAC may be blanked (`bind.go:325`); a factory id may be given
  out of the pool; the counter of pending codes drifts.
* A device that is unbound while it is in a call hears nothing from the call server
  (`internal.go:37`, the device is removed from the recipients): that its side of the call
  ends depends on user-server's MQTT message and its disconnection of the device, both made
  once and best effort (`service/bind.go:391`). And an unbinding does not always end the
  connection of the device at the broker (`broker.go:281`). A request takes an accepted contact back; an automatic contact may
  outlive its devices; the outbox's DELETE loses a clean-up that was renewed meanwhile.
* Not every notice leads to new contacts (`tirtc_call.c:1195`), and a number typed before a
  change deletes another contact than the one printed.
* `wxcall N` and the product's `DIAL_WX_INDEX` dial whoever has the place N of the WeChat list
  at that moment (`tirtc_voip.c:1338`), whether a list was ever printed or not; a refresh
  between the user's reading and the command dials another person. No document says
  otherwise, and no property here excludes it.

*Process*

* Callbacks and commands may be posted when the SDK does not run (`main.c:1200`). A device
  that knows only its id goes on without a grant (`main.c:960`); credentials of the command
  line outlive a new binding; the directory is not synchronised after the rename. The forced
  end of the MQTT loop (`device_flow.c:1021`) may cancel a handler that holds a lock.

## 6. What is left out

* Time, where only the order matters: a deadline may be past wherever the clock is read. The
  TTLs of Redis keys (hours) are left out, except those of presence and of codes.
* Contents: formatting and parsing of JSON, HTTP and MQTT plumbing, logging, texts, remarks,
  tokens and signatures, the values of media formats, codecs.
* The failure of Redis inside MULTI/EXEC, and of single calls other than those the code takes
  for an answer: to others they look like a request that dies.
* `session_arbiter_wait_idle` and queries that change nothing; `QUERY_ROOM` of the device;
  the command loops of the VoIP, AI and call modules that nothing calls any more
  (`voip_cmd_loop`, `ai_cmd_loop`, `call_cmd_loop`).
* The list of device contacts on the device (`call_session.c`): only the command thread reads
  and fetches it.
* Repeated targets in a call request (the model's targets are a set). The handle of the
  room's last connection is not used for the next one.
* The Python device (a second implementation of the same design), the server's intercom
  rooms, recognition queue and VoIP server, admin and installation, the web and mini-program
  front ends, and the tools.

Of the C code, the models cover the device's own; more than half of the C lines of the
repository are headers of the TiRTC SDK, one copy for each platform and version. Of the SDK
only what its headers promise is modelled, as the code uses it, and marked external in the
map; so are product callbacks, the broker, the database and the peers.

## 7. Plan

Every component above that has a model has its properties checked, and every safety property
of a run is proved but the three named at the end of section 4; `TicketUnderOwner` is proved
under the condition that makes it true, room in the finish queue. What remains, most important
first:

1. Models: the server's intercom rooms (assignments, single-use leases, outbox) with the
   room client; fenced completion of recognition tasks; the lease cache of `main.c`, and the
   VoIP server's notifications.
2. Proofs: `NothingOutlivesWhatItUses`, with an invariant about which clean-ups each phase
   still has before it; the parts of `FramesTileTheFile` that are about one step of a cutter.
3. Refinements: one abstract call, as both devices and the server see it, over `CallRooms`
   and two instances of `DeviceCall`.
