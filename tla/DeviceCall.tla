----------------------------- MODULE DeviceCall -----------------------------
(***************************************************************************)
(* A device call end to end: the commands of main.c and of call_session.c  *)
(* on the command thread, the messages of the call server on MQTT's        *)
(* thread, the guard's worker, the ring timers and the arbiter's worker,   *)
(* over CallSession and CallTransport.                                     *)
(*                                                                         *)
(* The server and the peers are external: any message about a room that    *)
(* exists may come at any time, late and more than once (MQTT QoS 1), and  *)
(* any request may fail.  A request is a step of its own, and others run   *)
(* before its answer.                                                      *)
(***************************************************************************)
EXTENDS CallSession

CONSTANTS
    Retries,       \* max_retries of call_connect_to
    Commands       \* what the user types

ASSUME RetriesAssumption == Retries \in Nat \ {0}

vars == <<transportVars, sessionVars>>

TypeOK ==
    /\ TransportTypeOK
    /\ active \in MaybeRoom /\ pending \in Incoming \cup {NoRoom}
    /\ offer \in 0..MaxOffers /\ answered \in 0..MaxOffers
    /\ withdrawn \subseteq 1..MaxOffers
    /\ ringing \in BOOLEAN /\ ringThread \in Outgoing \cup {NoRoom}
    /\ timer \in [Outgoing -> {"none", "ticking", "posting", "ending"}]
    /\ joining \in [Threads -> Outgoing \cup {NoRoom}]
    /\ created \subseteq Outgoing
    /\ LeaseTypeOK(Rooms, Incoming)
    /\ cmd.room \in MaybeRoom /\ cmd.offer \in 0..MaxOffers
    /\ cmd.tries \in 0..Retries /\ cmd.then \in {"idle", "finish", "actionFailed"}
    /\ mqtt.room \in MaybeRoom /\ worker.room \in MaybeRoom

Init ==
    /\ TransportInit
    /\ active = NoRoom /\ pending = NoRoom /\ offer = 0
    /\ answered = 0 /\ withdrawn = {}
    /\ ringing = FALSE /\ ringThread = NoRoom
    /\ timer = [r \in Outgoing |-> "none"]
    /\ joining = [t \in Threads |-> NoRoom]
    /\ created = {}
    /\ LeaseInit
    /\ cmd = [at |-> "idle", room |-> NoRoom, offer |-> 0, tries |-> 0,
              then |-> "idle"]
    /\ mqtt = [at |-> "idle", room |-> NoRoom]
    /\ worker = [at |-> "idle", room |-> NoRoom, close |-> FALSE]

CmdIdle == [at |-> "idle", room |-> NoRoom, offer |-> 0, tries |-> 0, then |-> "idle"]
CmdGo(at) == cmd' = IF at = "idle" THEN CmdIdle ELSE [cmd EXCEPT !.at = at]
CmdAt(at) == cmd.at = at
User(what) == what \in Commands /\ CmdAt("idle")

\* What the steps of one thread leave alone.
ringVars == <<ringing, ringThread, timer>>
cmdFrame == <<created, mqtt, worker>>
mqttFrame == <<created, cmd, worker>>
workerFrame == <<created, mqtt, cmd>>
ownerVars == <<owner, ownerId, cancelled, ticket, transition>>

\* The call is over.
NotActive ==
    /\ active' = NoRoom /\ answered' = 0
    /\ UNCHANGED <<pending, offer, withdrawn>>

\* The call rings no more.
NotPending ==
    /\ pending' = NoRoom /\ withdrawn' = withdrawn \cup {offer}
    /\ UNCHANGED <<active, offer, answered>>

-----------------------------------------------------------------------------
(* The arbiter: begin, and the end of a session on whatever thread. *)

\* session_arbiter_begin_id_ex has started the call service.
BeginSession(id) == Hold(id) /\ serving' = TRUE

\* The owner goes first, then _stop_call: deactivate, call_service_stop.
EndOwner ==
    /\ Release
    /\ serving' = FALSE /\ bound' = {}
    /\ UNCHANGED <<link, connVars, expected, attempt, media, tasks, control>>

\* _lifecycle_worker takes the request.
LifecycleWorker ==
    /\ endAsked /\ transition = "free"
    /\ EndOwner
    /\ UNCHANGED <<callVars, timerVars, created, threadVars>>

ServiceHangsUp ==
    /\ transition = "stop" /\ transition' = "drain"
    /\ HangUp
    /\ UNCHANGED <<callVars, timerVars, created, owner, ownerId, cancelled, ticket,
                   endAsked, threadVars, serving, tasks>>

ServiceDrained ==
    /\ transition = "drain" /\ tasks = <<>> /\ worker.at = "idle"
    /\ transition' = "free"
    /\ UNCHANGED <<callVars, timerVars, created, owner, ownerId, cancelled, ticket,
                   endAsked, threadVars, transportVars>>

-----------------------------------------------------------------------------
(* call: call_session_do_call. *)

DoCall ==
    /\ User("call") /\ active = NoRoom /\ pending = NoRoom
    /\ CmdGo("begin")
    /\ UNCHANGED <<callVars, timerVars, arbiterVars, cmdFrame, transportVars>>

\* _begin_call without a ticket; it waits for a transition in progress.
BeginCall ==
    /\ CmdAt("begin") /\ transition = "free"
    /\ \/ /\ owner = "NONE" /\ ticket = NoRoom
          /\ BeginSession(NoRoom)
          /\ CmdGo("request")
       \/ /\ UNCHANGED <<owner, ownerId, cancelled, endAsked, transition, serving>>
          /\ CmdGo("idle")
    /\ UNCHANGED <<ticket, callVars, timerVars, cmdFrame, linkVars, connVars,
                   expected, attempt, media, tasks, control>>

\* POST /v1/call/request, in the server.
RequestRoom ==
    /\ CmdAt("request")
    /\ \/ \E r \in Outgoing \ created :
             /\ created' = created \cup {r}
             /\ cmd' = [cmd EXCEPT !.at = "response", !.room = r]
       \/ CmdGo("response") /\ UNCHANGED created
    /\ UNCHANGED <<callVars, timerVars, arbiterVars, mqtt, worker, transportVars>>

\* Its answer: the call is active, or the session ends.
Response ==
    /\ CmdAt("response")
    /\ \/ /\ cmd.room # NoRoom
          /\ active' = cmd.room
          /\ CmdGo("expect")
          /\ UNCHANGED endAsked
       \/ /\ EndSession
          /\ CmdGo("idle")
          /\ UNCHANGED active
    /\ UNCHANGED <<pending, offer, answered, withdrawn, timerVars, ownerVars,
                   cmdFrame, transportVars>>

\* call_set_expected_room, and call_session_start_ring_timer to its join.
SetExpectedRoom ==
    /\ CmdAt("expect")
    /\ expected' = cmd.room
    /\ CancelTimer("cmd")
    /\ CmdGo("arm")
    /\ UNCHANGED <<callVars, arbiterVars, cmdFrame, serving, linkVars, connVars,
                   attempt, media, tasks, control>>

StartRingTimer ==
    /\ CmdAt("arm") /\ Joined("cmd")
    /\ CreateTimer(cmd.room)
    /\ Unjoin("cmd")
    /\ CmdGo("idle")
    /\ UNCHANGED <<callVars, arbiterVars, cmdFrame, transportVars>>

Call == DoCall \/ BeginCall \/ RequestRoom \/ Response \/ SetExpectedRoom
        \/ StartRingTimer

-----------------------------------------------------------------------------
(* accept: call_session_do_accept, which may take seconds in its request.  *)

StillPending == pending = cmd.room /\ offer = cmd.offer

DoAccept ==
    /\ User("accept") /\ pending # NoRoom
    /\ cmd' = [cmd EXCEPT !.at = "info", !.room = pending, !.offer = offer]
    /\ UNCHANGED <<callVars, timerVars, arbiterVars, cmdFrame, transportVars>>

\* The answer of POST /v1/call/device/info, and the second look at the ticket.
DeviceInfo ==
    /\ CmdAt("info")
    /\ \/ StillPending /\ CmdGo("beginAccept")
       \/ CmdGo("idle")
    /\ UNCHANGED <<callVars, timerVars, arbiterVars, cmdFrame, transportVars>>

\* _begin_call with the ticket of the call that is pending by now.
BeginAccept ==
    /\ CmdAt("beginAccept") /\ transition = "free"
    /\ \/ /\ pending # NoRoom /\ owner = "NONE" /\ ticket = pending
          /\ BeginSession(pending)
          /\ ticket' = NoRoom
          /\ CmdGo("run")
       \/ /\ UNCHANGED <<owner, ownerId, cancelled, endAsked, transition, ticket, serving>>
          /\ CmdGo("idle")
    /\ UNCHANGED <<callVars, timerVars, cmdFrame, linkVars, connVars,
                   expected, attempt, media, tasks, control>>

\* _run_call_action and session_arbiter_run_action: transition_lock is held
\* until the action is over.
RunAction ==
    /\ CmdAt("run") /\ transition = "free"
    /\ IF owner = "HELD" /\ ownerId = cmd.room /\ ~cancelled
          THEN transition' = "action" /\ CmdGo("activate")
          ELSE UNCHANGED transition /\ CmdGo("idle")
    /\ UNCHANGED <<callVars, timerVars, cmdFrame, owner, ownerId, cancelled, ticket,
                   endAsked, transportVars>>

\* _accept_connect_action, the third look.
ActivateMutant ==
    /\ CmdAt("activate")
    /\ active' = cmd.room /\ pending' = NoRoom /\ answered' = cmd.offer
    /\ CmdGo("connect")
    /\ UNCHANGED <<offer, withdrawn, timerVars, arbiterVars, cmdFrame, transportVars>>
Activate ==
    /\ CmdAt("activate")
    /\ IF StillPending
          THEN /\ active' = cmd.room /\ pending' = NoRoom
               /\ answered' = cmd.offer
               /\ CmdGo("connect")
          ELSE /\ CmdGo("actionFailed")
               /\ UNCHANGED <<active, pending, answered>>
    /\ UNCHANGED <<offer, withdrawn, timerVars, arbiterVars, cmdFrame, transportVars>>

\* call_connect_to, to the first TiRtcConnect.
Connect ==
    /\ CmdAt("connect")
    /\ IF sess = "IN_CALL"
          THEN CmdGo("actionFailed") /\ UNCHANGED <<sess, attempt>>
          ELSE /\ cmd' = [cmd EXCEPT !.at = "dialing", !.tries = 1]
               /\ sess' = "CONNECTING" /\ attempt' = "dialing"
    /\ UNCHANGED <<callVars, timerVars, arbiterVars, cmdFrame, serving, linkVars,
                   current, waiting, expected, media, tasks, control>>

dialFrame == <<callVars, timerVars, arbiterVars, cmdFrame, serving, linkVars,
               waiting, expected, media, tasks, control>>

\* The attempt was withdrawn while it was waited for.
DialCancelled ==
    /\ CmdAt("dialing") /\ attempt = "cancelled"
    /\ attempt' = "none" /\ sess' = "IDLE" /\ current' = NoRoom
    /\ CmdGo("actionFailed")
    /\ UNCHANGED dialFrame

DialAgain ==
    /\ CmdAt("dialing") /\ attempt \in {"dialing", "connected", "failed"}
    /\ cmd.tries < Retries
    /\ attempt' = "dialing"
    /\ cmd' = [cmd EXCEPT !.tries = @ + 1]
    /\ UNCHANGED <<dialFrame, sess, current>>

DialFails ==
    /\ CmdAt("dialing") /\ attempt \in {"dialing", "connected", "failed"}
    /\ cmd.tries = Retries
    /\ attempt' = "none" /\ sess' = "IDLE" /\ current' = NoRoom
    /\ CmdGo("connectFailed")
    /\ UNCHANGED dialFrame

\* The wait is over with a connection, and s_connect_mtx is let go...
DialWon ==
    /\ CmdAt("dialing") /\ attempt = "connected"
    /\ attempt' = "none"
    /\ CmdGo("won")
    /\ UNCHANGED <<dialFrame, sess, current>>

\* ... before the connection becomes the call's, whatever came between.
DialSucceeds ==
    /\ CmdAt("won")
    /\ sess' = "IN_CALL" /\ current' = cmd.room
    /\ CmdGo("subscribe")
    /\ UNCHANGED <<dialFrame, attempt>>

\* _subscribe_peer_media and command 0x2000, or _finish_call_transport.
SubscribePeer ==
    /\ CmdAt("subscribe")
    /\ \/ /\ current = cmd.room /\ CmdGo("start")
          /\ UNCHANGED <<connVars, media, timerVars, link>>
       \/ /\ LetGo(cmd.room)
          /\ IF current = cmd.room
                THEN CancelTimer("cmd") /\ CmdGo("lost") /\ UNCHANGED link
                ELSE /\ link' = Disconnect(link, cmd.room)
                     /\ CmdGo("actionFailed")
                     /\ UNCHANGED timerVars
    /\ UNCHANGED <<callVars, arbiterVars, cmdFrame, serving, bound, expected,
                   attempt, tasks, control>>

\* _notify_call_transport_ended on this thread, and TiRtcDisconnect.
ConnectionLost ==
    /\ CmdAt("lost") /\ Joined("cmd") /\ Unjoin("cmd")
    /\ NotActive
    /\ endAsked' = (endAsked \/ (active # NoRoom /\ owner = "HELD"))
    /\ link' = Disconnect(link, cmd.room)
    /\ CmdGo("actionFailed")
    /\ UNCHANGED <<ringVars, ownerVars, cmdFrame, serving, bound, connVars, expected,
                   attempt, media, tasks, control>>

\* The media start, if the connection is still the call's.
StartCall ==
    /\ CmdAt("start") /\ control = "free"
    /\ IF current = cmd.room /\ sess = "IN_CALL"
          THEN /\ StartMedia /\ CancelTimer("cmd")
               /\ control' = "cmd" /\ CmdGo("started")
               /\ UNCHANGED link
          ELSE /\ link' = Disconnect(link, cmd.room)
               /\ CmdGo("actionFailed")
               /\ UNCHANGED <<media, control, timerVars>>
    /\ UNCHANGED <<callVars, arbiterVars, cmdFrame, serving, bound, connVars, expected,
                   attempt, tasks>>

CallStarted ==
    /\ CmdAt("started") /\ Joined("cmd") /\ Unjoin("cmd")
    /\ control' = "free"
    /\ CmdGo("actionDone")
    /\ UNCHANGED <<callVars, ringVars, arbiterVars, cmdFrame, serving, linkVars,
                   connVars, expected, attempt, media, tasks>>

\* The end of session_arbiter_run_action: it ends what failed or was cancelled.
ActionEnds ==
    /\ cmd.at \in {"actionDone", "actionFailed"}
    /\ IF CmdAt("actionFailed") \/ cancelled
          THEN EndOwner /\ CmdGo("ended")
          ELSE /\ transition' = "free" /\ CmdGo("idle")
               /\ UNCHANGED <<owner, ownerId, cancelled, ticket, endAsked, transportVars>>
    /\ UNCHANGED <<callVars, timerVars, cmdFrame>>

Accept == DoAccept \/ DeviceInfo \/ BeginAccept \/ RunAction \/ Activate \/ Connect
          \/ DialCancelled \/ DialAgain \/ DialFails \/ DialWon \/ DialSucceeds
          \/ SubscribePeer \/ ConnectionLost \/ StartCall \/ CallStarted \/ ActionEnds

-----------------------------------------------------------------------------
(* hangup, cancel, reject, and the 45 seconds of a pending call.     *)

\* call_session_do_hangup, to the join of the ring timer; also the end of an
\* accept whose attempts all failed.
DoHangup(then) ==
    IF active = NoRoom
       THEN CmdGo(then) /\ UNCHANGED timerVars
       ELSE /\ cmd' = [cmd EXCEPT !.at = "hangingUp", !.then = then]
            /\ CancelTimer("cmd")

Hangup ==
    /\ User("hangup")
    /\ \/ owner = "HELD" /\ DoHangup("finish")
       \/ owner # "HELD" /\ active # NoRoom /\ DoHangup("idle")
    /\ UNCHANGED <<callVars, arbiterVars, cmdFrame, transportVars>>

OnConnectFailed ==
    /\ CmdAt("connectFailed")
    /\ DoHangup("actionFailed")
    /\ UNCHANGED <<callVars, arbiterVars, cmdFrame, transportVars>>

\* After the request: call_hangup.
HangUpCall ==
    /\ CmdAt("hangingUp") /\ Joined("cmd") /\ Unjoin("cmd")
    /\ HangUp
    /\ CmdGo("hungUp")
    /\ UNCHANGED <<callVars, ringVars, arbiterVars, cmdFrame, serving, tasks>>

\* call_session_do_cancel, of an outgoing call.
Cancel ==
    /\ User("cancel") /\ owner = "HELD"
    /\ IF active \in Outgoing
          THEN /\ cmd' = [cmd EXCEPT !.at = "cancelling", !.then = "finish"]
               /\ CancelTimer("cmd")
          ELSE CmdGo("finish") /\ UNCHANGED timerVars
    /\ UNCHANGED <<callVars, arbiterVars, cmdFrame, transportVars>>

CancelCall ==
    /\ CmdAt("cancelling") /\ Joined("cmd") /\ Unjoin("cmd")
    /\ expected' = NoRoom
    /\ CmdGo("hungUp")
    /\ UNCHANGED <<callVars, ringVars, arbiterVars, cmdFrame, serving, linkVars,
                   connVars, attempt, media, tasks, control>>

\* The last lines of both.
EndCall ==
    /\ CmdAt("hungUp")
    /\ NotActive
    /\ EndSession
    /\ CmdGo(cmd.then)
    /\ UNCHANGED <<timerVars, ownerVars, cmdFrame, transportVars>>

\* session_arbiter_finish(CALL), and its return.
Finish ==
    /\ CmdAt("finish") /\ transition = "free"
    /\ IF owner = "HELD"
          THEN EndOwner /\ CmdGo("ended")
          ELSE CmdGo("idle") /\ UNCHANGED <<arbiterVars, transportVars>>
    /\ UNCHANGED <<callVars, timerVars, cmdFrame>>

Finished ==
    /\ CmdAt("ended") /\ transition = "free"
    /\ CmdGo("idle")
    /\ UNCHANGED <<callVars, timerVars, arbiterVars, cmdFrame, transportVars>>

\* call_session_do_reject and call_expire_pending.
Reject ==
    /\ User("reject") /\ pending # NoRoom
    /\ cmd' = [cmd EXCEPT !.at = "reject", !.room = pending]
    /\ NotPending
    /\ UNCHANGED <<timerVars, arbiterVars, cmdFrame, transportVars>>

ExpirePending ==
    /\ CmdAt("idle") /\ pending # NoRoom
    /\ cmd' = [cmd EXCEPT !.at = "expire", !.room = pending]
    /\ NotPending
    /\ UNCHANGED <<timerVars, arbiterVars, cmdFrame, transportVars>>

\* main.c drops the ticket of the room; after a rejection only if nothing
\* rings by now.
DropTicket ==
    /\ CmdAt("expire") \/ CmdAt("reject")
    /\ IF CmdAt("reject") /\ pending # NoRoom
          THEN UNCHANGED <<ticket, cancelled>>
          ELSE ClearPendingId(cmd.room)
    /\ CmdGo("idle")
    /\ UNCHANGED <<callVars, timerVars, owner, ownerId, endAsked, transition, cmdFrame,
                   transportVars>>

Other == Hangup \/ OnConnectFailed \/ HangUpCall \/ Cancel \/ CancelCall \/ EndCall
         \/ Finish \/ Finished \/ Reject \/ ExpirePending \/ DropTicket

-----------------------------------------------------------------------------
(* MQTT's thread: _mqtt_call_incoming, _cancel and _reject of main.c.      *)

MqttAt(at) == mqtt.at = at
MqttGo(at) == mqtt' = [mqtt EXCEPT !.at = at, !.room = IF at = "idle" THEN NoRoom ELSE @]

\* A call that gets no ticket is posted as busy: nothing changes here.
CallIncoming(r) ==
    /\ MqttAt("idle") /\ offer < MaxOffers
    /\ owner = "NONE" /\ ticket = NoRoom
    /\ ticket' = r
    /\ mqtt' = [at |-> "incoming", room |-> r]
    /\ UNCHANGED <<callVars, timerVars, mqttFrame, owner, ownerId, cancelled, endAsked,
                   transition, transportVars>>

\* call_on_device_call_incoming
OnCallIncoming ==
    /\ MqttAt("incoming")
    /\ pending' = mqtt.room /\ offer' = offer + 1
    /\ MqttGo("rung")
    /\ UNCHANGED <<active, answered, withdrawn, timerVars, arbiterVars, mqttFrame, transportVars>>

Rung ==
    /\ MqttAt("rung")
    /\ IF pending = NoRoom
          THEN ClearPendingId(mqtt.room)
          ELSE UNCHANGED <<ticket, cancelled>>
    /\ MqttGo("idle")
    /\ UNCHANGED <<callVars, timerVars, mqttFrame, owner, ownerId, endAsked, transition,
                   transportVars>>

\* call_on_device_room_cancel
RoomCancel(r) ==
    /\ MqttAt("idle")
    /\ CASE pending = r ->
               /\ NotPending
               /\ mqtt' = [at |-> "told", room |-> r]
               /\ UNCHANGED timerVars
          [] pending # r /\ active = r ->
               /\ NotActive
               /\ CancelTimer("mqtt")
               /\ mqtt' = [at |-> "hangs", room |-> r]
          [] pending # r /\ active # r ->
               /\ mqtt' = [at |-> "told", room |-> r]
               /\ UNCHANGED <<callVars, timerVars>>
    /\ UNCHANGED <<arbiterVars, mqttFrame, transportVars>>

RoomCancelEnds ==
    /\ MqttAt("hangs") /\ Joined("mqtt") /\ Unjoin("mqtt")
    /\ IF CallIsActive
          THEN HangUp /\ UNCHANGED <<serving, tasks>>
          ELSE UNCHANGED transportVars
    /\ EndSession
    /\ MqttGo("told")
    /\ UNCHANGED <<callVars, ringVars, mqttFrame, ownerVars>>

\* call_on_device_call_reject
CallReject(r) ==
    /\ MqttAt("idle")
    /\ IF active = r
          THEN /\ NotActive /\ CancelTimer("mqtt")
               /\ mqtt' = [at |-> "rejected", room |-> r]
          ELSE /\ mqtt' = [at |-> "told", room |-> r]
               /\ UNCHANGED <<callVars, timerVars>>
    /\ UNCHANGED <<arbiterVars, mqttFrame, transportVars>>

CallRejectEnds ==
    /\ MqttAt("rejected") /\ Joined("mqtt") /\ Unjoin("mqtt")
    /\ expected' = NoRoom
    /\ EndSession
    /\ MqttGo("told")
    /\ UNCHANGED <<callVars, ringVars, mqttFrame, ownerVars, serving, linkVars, connVars,
                   attempt, media, tasks, control>>

\* The last lines of both handlers in main.c.
Told ==
    /\ MqttAt("told")
    /\ IF pending = NoRoom
          THEN CancelId(mqtt.room)
          ELSE UNCHANGED <<ticket, cancelled, endAsked>>
    /\ MqttGo("idle")
    /\ UNCHANGED <<callVars, timerVars, mqttFrame, owner, ownerId, transition, transportVars>>

Message == \/ \E r \in Incoming : CallIncoming(r)
           \/ \E r \in Incoming \cup created : RoomCancel(r)
           \/ \E r \in created : CallReject(r)
Handling == OnCallIncoming \/ Rung \/ RoomCancelEnds \/ CallRejectEnds \/ Told

-----------------------------------------------------------------------------
(* The guard's worker: the tasks that end in the ring timer.               *)

WorkerIdle == worker.at = "idle" /\ tasks # <<>> /\ control = "free"
WorkerRests == worker' = [at |-> "idle", room |-> NoRoom, close |-> FALSE]

Accepting ==
    /\ WorkerIdle /\ Head(tasks).do = "accept"
    /\ AcceptTask(Head(tasks).room)
    /\ UNCHANGED sessionVars

\* _deferred_disconnect_call, _deferred_finish_call, to the join.
Ending(close) ==
    LET r == Head(tasks).room
    IN /\ LetGo(r)
       /\ IF current = r
             THEN /\ CancelTimer("worker") /\ control' = "worker"
                  /\ worker' = [at |-> "lost", room |-> r, close |-> close]
                  /\ UNCHANGED link
             ELSE /\ link' = IF close THEN Disconnect(link, r) ELSE link
                  /\ UNCHANGED <<timerVars, control, worker>>
       /\ tasks' = Tail(tasks)
       /\ UNCHANGED <<callVars, arbiterVars, workerFrame, serving, bound, expected, attempt>>

EndTask ==
    /\ WorkerIdle
    /\ \/ Head(tasks).do = "finish" /\ Ending(FALSE)
       \/ Head(tasks).do = "disconnect" /\ Ending(TRUE)

\* _call_command_deferred and _deferred_start_call_media, to the join.
CommandTask ==
    LET r == Head(tasks).room
    IN /\ WorkerIdle /\ Head(tasks).do = "command"
       /\ \/ WrongRoom(r) /\ Ending(TRUE)
          \/ ~WrongRoom(r) /\ current = r /\ Ending(TRUE)      \* subscribing fails
          \/ /\ ~WrongRoom(r) /\ current = r
             /\ sess' = "IN_CALL" /\ StartMedia
             /\ CancelTimer("worker") /\ control' = "worker"
             /\ worker' = [at |-> "connected", room |-> r, close |-> FALSE]
             /\ tasks' = Tail(tasks)
             /\ UNCHANGED <<callVars, arbiterVars, workerFrame, serving, linkVars,
                            current, waiting, expected, attempt>>
          \/ /\ ~WrongRoom(r) /\ current # r
             /\ tasks' = Tail(tasks)
             /\ UNCHANGED <<sessionVars, serving, linkVars, connVars, expected, attempt,
                            media, control>>

\* call_session_on_p2p_connected has joined the ring timer.
P2pConnected ==
    /\ worker.at = "connected" /\ Joined("worker") /\ Unjoin("worker")
    /\ control' = "free" /\ WorkerRests
    /\ UNCHANGED <<callVars, ringVars, arbiterVars, workerFrame, serving, linkVars,
                   connVars, expected, attempt, media, tasks>>

\* _notify_call_transport_ended, after its join.
TransportEndedMutant ==
    /\ worker.at = "lost" /\ Joined("worker") /\ Unjoin("worker")
    /\ NotActive
    /\ endAsked' = (endAsked \/ (active # NoRoom /\ owner = "HELD"))
    /\ link' = IF worker.close THEN Disconnect(link, worker.room) ELSE link
    /\ WorkerRests
    /\ UNCHANGED <<ringVars, ownerVars, workerFrame, serving, bound, connVars, expected,
                   attempt, media, tasks, control>>
TransportEnded ==
    /\ worker.at = "lost" /\ Joined("worker") /\ Unjoin("worker")
    /\ NotActive
    /\ endAsked' = (endAsked \/ (active # NoRoom /\ owner = "HELD"))
    /\ link' = IF worker.close THEN Disconnect(link, worker.room) ELSE link
    /\ control' = "free" /\ WorkerRests
    /\ UNCHANGED <<ringVars, ownerVars, workerFrame, serving, bound, connVars, expected,
                   attempt, media, tasks>>

Worker == Accepting \/ EndTask \/ CommandTask \/ P2pConnected \/ TransportEnded

-----------------------------------------------------------------------------
Sdk == \/ \E r \in created : PeerConnects(r) \/ PeerNamesRoom(r)
       \/ \E r \in Rooms : ConnError(r) \/ OnDisconnected(r)
       \/ CmdAt("dialing") /\ Connected(cmd.room)
       \/ MediaEnds

Arbiter == LifecycleWorker \/ ServiceHangsUp \/ ServiceDrained

Next ==
    \/ Call \/ Accept \/ Other
    \/ Message \/ Handling
    \/ Worker \/ Arbiter
    \/ \E r \in Outgoing : RingTimer(r)
    \/ Sdk /\ UNCHANGED sessionVars

Spec == Init /\ [][Next]_vars

-----------------------------------------------------------------------------
(* Properties. *)

\* A call that is answered here is one whose offer nobody has taken back: not
\* the caller (room_cancel), not the user, not the 45 seconds; whatever came
\* while accept waited for its token or for the arbiter.
CancelledCallIsNotResurrected ==
    active \in Incoming => answered \notin withdrawn

\* When the session is released and the stop is through, the call has let go
\* of its connection, its media thread and its worker's tasks, so that the
\* live stream starts on a free device.
ReleasedIsQuiet ==
    owner = "NONE" /\ transition = "free"
        => current = NoRoom /\ media = "off" /\ tasks = <<>> /\ worker.at = "idle"

\* No thread of the device has anything begun: only the ring timers may run.
AtRest ==
    /\ CmdAt("idle") /\ MqttAt("idle")
    /\ worker.at = "idle" /\ tasks = <<>>
    /\ ~endAsked /\ transition = "free"

\* Joins of the timer, the control mutex, the transition lock and the drain of
\* the worker never wait for each other in a circle.
DeviceStep == \/ ~CmdAt("idle") /\ (Call \/ Accept \/ Other)
              \/ Handling \/ Worker \/ Arbiter
              \/ \E r \in Outgoing : RingTimer(r)
NobodyIsStuck == ~AtRest => ENABLED DeviceStep

\* However a call fails or ends, its session is released and the live stream
\* returns (README.md:220): nobody holds the runtime without a call, and
\* nobody rings for ever.  A session that is held at rest is that of the call
\* that was accepted, or of one that was placed here; and a call placed here
\* has a ring timer that will end it, or a connection, whose end the SDK
\* reports.
\*
\* The code has one way out of this: accept begins with the ticket of the call
\* that rings by then.  When that is not the call it was typed for, because
\* another has rung since, the action refuses the owner it has got
\* (call_session.c:495, main.c:209) and leaves it held.
TookAnotherTicket == offer > 1 /\ ownerId \in Incoming /\ active # ownerId
Rings(r) == timer[r] # "none" /\ (timer[r] = "ticking" => ringing)
OnAConnection == current \in bound /\ link[current] # "none"
HeldSessionIsWatched ==
    AtRest /\ owner = "HELD" /\ ~TookAnotherTicket =>
        \/ ownerId # NoRoom /\ active = ownerId
        \/ ownerId = NoRoom /\ active \in Outgoing /\ (Rings(active) \/ OnAConnection)
=============================================================================
