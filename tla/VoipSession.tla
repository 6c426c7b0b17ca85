----------------------------- MODULE VoipSession -----------------------------
(***************************************************************************)
(* A WeChat call (device-sim-c/src/tirtc_voip.c and its commands and MQTT  *)
(* handlers in main.c) over the arbiter of SessionLease.  Three threads    *)
(* share VoipState: the command thread, MQTT's thread and the guard's      *)
(* worker; the SDK's callbacks come on threads of its own.                 *)
(*                                                                         *)
(* A step is one critical section of vs->lock.  control_lock is held by    *)
(* voip_start_session, voip_stop_session and the worker's tasks from end   *)
(* to end: no other thread but a callback sees the states between, and a   *)
(* callback finds the connection gone there.  So each of the three is one  *)
(* step, and the lock is no variable.  The upstream thread takes vs->lock  *)
(* only: who joins it never waits for anybody else.                        *)
(*                                                                         *)
(* A connection is the number of its TiRtcWhipConnect.  The server and the *)
(* peer are external: a message about a room may come at any time, late    *)
(* and more than once.  Every payload names its call (wx_call_id), and a   *)
(* late ringback comes within the 60 seconds the call is ignored.          *)
(***************************************************************************)
EXTENDS SessionLease, Sequences, Naturals

CONSTANTS
    Own,           \* rooms of the calls this device places
    Incoming,      \* rooms in which a user calls this device
    MaxAttempts,   \* bound: connection attempts
    MaxTasks       \* bound: the SDK delays a callback while so many tasks wait

Rooms == Own \cup Incoming
MaybeRoom == Rooms \cup {NoRoom}
Conns == 1..MaxAttempts

\* What an instance assumes of its constants.
RoomsAssumption ==
    /\ Own \cap Incoming = {} /\ NoRoom \notin Rooms
    /\ MaxAttempts \in Nat \ {0} /\ MaxTasks \in Nat \ {0}

VARIABLES
    outgoing,      \* outgoing_call
    outCall,       \* outgoing_call_id, by the call's room
    outTimed,      \* outgoing_deadline_ms is set
    ignored,       \* ignored_call_id
    pending,       \* pending_room_id while pending_call
    activeRoom,    \* active_room_id
    attempt,       \* the last TiRtcWhipConnect
    connecting,    \* connect_pending
    fresh,         \* connect_generation is still the attempt's
    active,        \* active_hconn, 0 while it is not set
    state,         \* session_state
    timed,         \* connect_deadline_ms or accept_deadline_ms is set
    mediaStart,    \* media_start_pending
    push,          \* the upstream thread, until it is joined
    serving,       \* VOIP is the runtime's active service
    link,          \* the SDK's connection of each attempt
    bound,         \* connections bound to the active generation
    tasks,         \* s_voip_callback_guard: tasks deferred
    created,       \* calls the server has made for this device
    lapsed,        \* history: the own call that timed out, until the next is dialled
    hungUp,        \* history: own calls hung up before their ringback
    cmd, mqtt      \* the command thread's and MQTT's position

outVars == <<outgoing, outCall, outTimed>>
callVars == <<outVars, pending, activeRoom>>
connVars == <<attempt, connecting, fresh, active, state, timed, mediaStart>>
sdkVars == <<serving, link, bound, tasks>>
histVars == <<ignored, created, lapsed, hungUp>>
vars == <<callVars, connVars, push, sdkVars, histVars, arbiterVars, cmd, mqtt>>

Task(do, c) == [do |-> do, conn |-> c]
CmdIdle == [at |-> "idle", room |-> NoRoom]
MqttIdle == [at |-> "idle", room |-> NoRoom, granted |-> FALSE, mine |-> FALSE]

TypeOK ==
    /\ LeaseTypeOK(Rooms, Incoming \cup Own)
    /\ outgoing \in BOOLEAN /\ outTimed \in BOOLEAN
    /\ ~outgoing => outCall = NoRoom /\ ~outTimed
    /\ outCall \in Own \cup {NoRoom} /\ ignored \in Own \cup {NoRoom}
    /\ pending \in MaybeRoom /\ activeRoom \in MaybeRoom
    /\ attempt \in 0..MaxAttempts /\ active \in 0..MaxAttempts
    /\ connecting \in BOOLEAN /\ fresh \in BOOLEAN
    /\ state \in {"IDLE", "CONNECTING", "IN_CALL", "DISCONNECTING"}
    /\ timed \in BOOLEAN /\ mediaStart \in BOOLEAN
    /\ push \in {"off", "on", "over"}
    /\ serving \in BOOLEAN
    /\ link \in [Conns -> {"none", "dialing", "open", "closing"}]
    /\ bound \subseteq Conns
    /\ tasks \in Seq([do : {"disconnect", "finish", "media", "close", "ended"},
                      conn : Conns])
    /\ created \subseteq Own /\ lapsed \in Own \cup {NoRoom} /\ hungUp \subseteq Own
    /\ cmd.room \in MaybeRoom /\ mqtt.room \in MaybeRoom

Init ==
    /\ LeaseInit
    /\ outgoing = FALSE /\ outCall = NoRoom /\ outTimed = FALSE
    /\ ignored = NoRoom /\ pending = NoRoom /\ activeRoom = NoRoom
    /\ attempt = 0 /\ connecting = FALSE /\ fresh = FALSE /\ active = 0
    /\ state = "IDLE" /\ timed = FALSE /\ mediaStart = FALSE /\ push = "off"
    /\ serving = FALSE /\ link = [c \in Conns |-> "none"] /\ bound = {}
    /\ tasks = <<>> /\ created = {} /\ lapsed = NoRoom /\ hungUp = {}
    /\ cmd = CmdIdle /\ mqtt = MqttIdle

CmdAt(at) == cmd.at = at
CmdGo(at) == cmd' = IF at = "idle" THEN CmdIdle ELSE [cmd EXCEPT !.at = at]
MqttAt(at) == mqtt.at = at
MqttGo(at) == mqtt' = IF at = "idle" THEN MqttIdle ELSE [mqtt EXCEPT !.at = at]

-----------------------------------------------------------------------------
(* The session. *)

\* voip_is_active
InSession == active # 0 \/ connecting
VoipIsActive == InSession \/ pending # NoRoom \/ outgoing

\* TiRtcDisconnect, of 0: nothing.
Disconnect(c) ==
    link' = [x \in Conns |-> IF x = c /\ link[x] = "open" THEN "closing" ELSE link[x]]

NotOutgoing == outgoing' = FALSE /\ outCall' = NoRoom /\ outTimed' = FALSE

\* voip_start_session, that may start: a new generation, and its deadline.
MayStart == ~InSession /\ attempt < MaxAttempts
StartSession ==
    /\ MayStart
    /\ attempt' = attempt + 1 /\ connecting' = TRUE /\ fresh' = TRUE
    /\ state' = "CONNECTING" /\ timed' = TRUE /\ mediaStart' = FALSE
    /\ link' = [link EXCEPT ![attempt + 1] = "dialing"]
    /\ UNCHANGED active

\* The same when it cannot: a session is there, or the SDK refuses at once.
StartFails == \/ InSession /\ UNCHANGED <<connVars, link>>
              \/ /\ ~InSession /\ state' = "IDLE" /\ timed' = FALSE
                 /\ fresh' = FALSE /\ mediaStart' = FALSE
                 /\ UNCHANGED <<attempt, connecting, active, link>>

\* voip_stop_session: everything of the session goes, on whatever thread.
StopSession ==
    /\ connecting' = FALSE /\ fresh' = FALSE /\ timed' = FALSE
    /\ active' = 0 /\ state' = "IDLE" /\ mediaStart' = FALSE /\ push' = "off"
    /\ NotOutgoing /\ pending' = NoRoom /\ activeRoom' = NoRoom
    /\ Disconnect(active)
    /\ IF VoipIsActive THEN EndSession ELSE UNCHANGED endAsked
    /\ UNCHANGED attempt

\* _voip_handle_disconnect: the connection is lost.
HandleDisconnect ==
    /\ active' = 0 /\ state' = "IDLE" /\ timed' = FALSE
    /\ mediaStart' = FALSE /\ push' = "off" /\ activeRoom' = NoRoom
    /\ EndSession
    /\ UNCHANGED <<attempt, connecting, fresh>>

leaseFrame == <<owner, ownerId, cancelled, ticket, transition>>

-----------------------------------------------------------------------------
(* The SDK. *)

Deferred(ts) == Len(tasks) + Len(ts) <= MaxTasks /\ tasks' = tasks \o ts

sdkFrame == <<callVars, histVars, arbiterVars, cmd, mqtt, serving>>

StaleConnected(c) ==
    /\ link[c] = "dialing" /\ ~(connecting /\ fresh /\ attempt = c)
    /\ \/ link' = [link EXCEPT ![c] = "none"] /\ UNCHANGED tasks
       \/ link' = [link EXCEPT ![c] = "open"] /\ Deferred(<<Task("close", c)>>)
    /\ UNCHANGED <<sdkFrame, connVars, push, bound>>

Connected(c) ==
    /\ link[c] = "dialing" /\ connecting /\ fresh /\ attempt = c
    /\ connecting' = FALSE
    /\ \/ /\ link' = [link EXCEPT ![c] = "none"]
          /\ active' = 0 /\ state' = "IDLE" /\ timed' = FALSE
          /\ Deferred(<<Task("ended", c)>>)
          /\ UNCHANGED bound
       \/ /\ serving
          /\ link' = [link EXCEPT ![c] = "open"] /\ bound' = bound \cup {c}
          /\ active' = c /\ state' = "CONNECTING" /\ timed' = TRUE
          /\ UNCHANGED tasks
       \/ /\ ~serving
          /\ link' = [link EXCEPT ![c] = "open"]
          /\ active' = 0 /\ state' = "IDLE" /\ timed' = FALSE
          /\ Deferred(<<Task("close", c), Task("ended", c)>>)
          /\ UNCHANGED bound
    /\ UNCHANGED <<sdkFrame, attempt, fresh, mediaStart, push>>

PeerAccepts(c) ==
    /\ link[c] = "open" /\ c \in bound /\ active = c /\ state = "CONNECTING"
    /\ state' = "IN_CALL" /\ mediaStart' = TRUE /\ timed' = FALSE
    /\ Deferred(<<Task("media", c)>>)
    /\ UNCHANGED <<sdkFrame, attempt, connecting, fresh, active, push, link, bound>>

\* _von_command 0x2001 and _von_conn_error.
PeerHangsUp(c) ==
    /\ link[c] = "open" /\ c \in bound
    /\ \A i \in DOMAIN tasks : tasks[i] # Task("disconnect", c)
    /\ Deferred(<<Task("disconnect", c)>>)
    /\ UNCHANGED <<sdkFrame, connVars, push, link, bound>>

\* _von_disconnected, when the runtime still has the connection.
OnDisconnected(c) ==
    /\ link[c] \in {"open", "closing"}
    /\ link' = [link EXCEPT ![c] = "none"] /\ bound' = bound \ {c}
    /\ IF c \in bound THEN Deferred(<<Task("finish", c)>>) ELSE UNCHANGED tasks
    /\ UNCHANGED <<sdkFrame, connVars, push>>

\* _voip_push_thread leaves its loop, and may disconnect first.
PushEnds ==
    /\ push = "on" /\ push' = "over"
    /\ Disconnect(active) \/ UNCHANGED link
    /\ UNCHANGED <<sdkFrame, connVars, bound, tasks>>

Sdk == \/ \E c \in Conns : \/ StaleConnected(c) \/ Connected(c) \/ PeerAccepts(c)
                           \/ PeerHangsUp(c) \/ OnDisconnected(c)
       \/ PushEnds

-----------------------------------------------------------------------------
(* The arbiter and the guard's worker. *)

BeginSession(id) == Hold(id) /\ serving' = TRUE

\* The owner goes first, then _stop_voip: deactivate, voip_service_stop.
EndOwner == Release /\ serving' = FALSE /\ bound' = {}

LifecycleWorker ==
    /\ endAsked /\ transition = "free"
    /\ EndOwner
    /\ UNCHANGED <<callVars, connVars, push, link, tasks, histVars, cmd, mqtt>>

ServiceStops ==
    /\ transition = "stop" /\ transition' = "drain"
    /\ StopSession
    /\ UNCHANGED <<owner, ownerId, cancelled, ticket, serving, bound, tasks, histVars,
                   cmd, mqtt>>

\* sdk_callback_wait_all; the live stream starts again.
ServiceDrained ==
    /\ transition = "drain" /\ tasks = <<>> /\ transition' = "free"
    /\ UNCHANGED <<callVars, connVars, push, sdkVars, histVars, owner, ownerId, cancelled,
                   ticket, endAsked, cmd, mqtt>>

\* _expire_pending_locked: the 45 seconds of the ticket.
TicketExpires ==
    /\ ticket # NoRoom /\ ticket' = NoRoom
    /\ UNCHANGED <<callVars, connVars, push, sdkVars, histVars, owner, ownerId, cancelled,
                   endAsked, transition, cmd, mqtt>>

Arbiter == LifecycleWorker \/ ServiceStops \/ ServiceDrained \/ TicketExpires

\* _deferred_disconnect_session, _deferred_finish_disconnect.
Lost(c) ==
    /\ IF active = c
          THEN HandleDisconnect
          ELSE UNCHANGED <<connVars, push, activeRoom, endAsked>>
    /\ UNCHANGED <<outVars, pending>>

\* _deferred_start_media; the thread may fail to start.
StartMedia(c) ==
    /\ active = c /\ mediaStart /\ push = "off"
    /\ \/ /\ mediaStart' = FALSE /\ push' = "on"
          /\ UNCHANGED <<callVars, attempt, connecting, fresh, active, state, timed, link,
                         endAsked>>
       \/ Lost(c) /\ Disconnect(c)

WorkerTask ==
    LET task == Head(tasks)
        c == task.conn
    IN /\ tasks # <<>> /\ tasks' = Tail(tasks)
       /\ \/ task.do = "disconnect" /\ Lost(c) /\ Disconnect(c)
          \/ task.do = "finish" /\ Lost(c) /\ UNCHANGED link
          \/ task.do = "media" /\ StartMedia(c)
          \/ /\ task.do = "media" /\ ~(active = c /\ mediaStart /\ push = "off")
             /\ UNCHANGED <<callVars, connVars, push, link, endAsked>>
          \/ /\ task.do = "close" /\ Disconnect(c)
             /\ UNCHANGED <<callVars, connVars, push, endAsked>>
          \/ /\ task.do = "ended" /\ EndSession
             /\ UNCHANGED <<callVars, connVars, push, link>>
       /\ UNCHANGED <<serving, bound, histVars, leaseFrame, cmd, mqtt>>

-----------------------------------------------------------------------------
(* The commands of main.c, and what its loop expires. *)

cmdFrame == <<connVars, push, link, bound, tasks, mqtt>>

\* wxcall: _dial_wx_index waits for a transition and may be refused.
BeginDial ==
    /\ CmdAt("idle") /\ transition = "free" /\ owner = "NONE" /\ ticket = NoRoom
    /\ Own \ created # {}
    /\ BeginSession(NoRoom)
    /\ CmdGo("dial")
    /\ lapsed' = NoRoom
    /\ UNCHANGED <<ticket, callVars, ignored, created, hungUp, cmdFrame>>

\* voip_do_outgoing_call_ex reserves the call before it asks the server.
ReserveCall ==
    /\ CmdAt("dial")
    /\ \/ /\ ~VoipIsActive
          /\ outgoing' = TRUE /\ outCall' = NoRoom /\ outTimed' = FALSE
          /\ CmdGo("post")
       \/ UNCHANGED outVars /\ CmdGo("finish")
    /\ UNCHANGED <<pending, activeRoom, serving, histVars, arbiterVars, cmdFrame>>

\* POST /v1/voip/device/call, in the server.
ServerCalls ==
    /\ CmdAt("post")
    /\ \/ \E r \in Own \ created :
             created' = created \cup {r} /\ cmd' = [at |-> "response", room |-> r]
       \/ CmdGo("response") /\ UNCHANGED created
    /\ UNCHANGED <<callVars, serving, ignored, lapsed, hungUp, arbiterVars, cmdFrame>>

CallAnsweredMutantA ==
    /\ CmdAt("response")
    /\ \/ /\ cmd.room # NoRoom
          /\ IF outgoing
                THEN outCall' = cmd.room /\ UNCHANGED <<outgoing, outTimed>>
                ELSE UNCHANGED outVars
          /\ CmdGo("idle")
       \/ /\ IF outgoing THEN NotOutgoing ELSE UNCHANGED outVars
          /\ CmdGo("finish")
    /\ UNCHANGED <<pending, activeRoom, serving, histVars, arbiterVars, cmdFrame>>
CallAnswered ==
    /\ CmdAt("response")
    /\ \/ /\ cmd.room # NoRoom
          /\ IF outgoing
                THEN outCall' = cmd.room /\ outTimed' = TRUE /\ UNCHANGED outgoing
                ELSE UNCHANGED outVars
          /\ CmdGo("idle")
       \/ /\ IF outgoing THEN NotOutgoing ELSE UNCHANGED outVars
          /\ CmdGo("finish")
    /\ UNCHANGED <<pending, activeRoom, serving, histVars, arbiterVars, cmdFrame>>

\* session_arbiter_finish(VOIP), and its return.
Finish ==
    /\ CmdAt("finish") /\ transition = "free"
    /\ IF owner = "HELD"
          THEN EndOwner /\ CmdGo("ended")
          ELSE CmdGo("idle") /\ UNCHANGED <<arbiterVars, serving, bound>>
    /\ UNCHANGED <<callVars, connVars, push, link, tasks, histVars, mqtt>>

Finished ==
    /\ CmdAt("ended") /\ transition = "free"
    /\ CmdGo("idle")
    /\ UNCHANGED <<callVars, serving, histVars, arbiterVars, cmdFrame>>

\* hangup and cancel, while VOIP is the owner.
GivenUp == hungUp' = IF outgoing THEN hungUp \cup {outCall} ELSE hungUp
Hangup ==
    /\ CmdAt("idle") /\ owner = "HELD"
    /\ CmdGo("finish") /\ GivenUp
    /\ UNCHANGED <<callVars, serving, ignored, created, lapsed, arbiterVars, cmdFrame>>

\* And while it is not, but something of a call is left.
HangupLocal ==
    /\ CmdAt("idle") /\ owner = "NONE" /\ VoipIsActive
    /\ StopSession /\ GivenUp
    /\ UNCHANGED <<serving, bound, tasks, ignored, created, lapsed, leaseFrame, cmd, mqtt>>

\* yes: the ticket of the room that rings, then session_arbiter_run_action.
Accept ==
    /\ CmdAt("idle") /\ pending # NoRoom
    /\ cmd' = [at |-> "beginAccept", room |-> pending]
    /\ UNCHANGED <<callVars, serving, histVars, arbiterVars, cmdFrame>>

BeginAccept ==
    /\ CmdAt("beginAccept") /\ transition = "free"
    /\ IF owner = "NONE" /\ ticket = cmd.room
          THEN BeginSession(ticket) /\ ticket' = NoRoom /\ CmdGo("run")
          ELSE CmdGo("idle") /\ UNCHANGED <<arbiterVars, serving>>
    /\ UNCHANGED <<callVars, histVars, cmdFrame>>

RunAction ==
    /\ CmdAt("run") /\ transition = "free"
    /\ IF owner = "HELD" /\ ~cancelled
          THEN transition' = "action" /\ CmdGo("accept")
          ELSE UNCHANGED transition /\ CmdGo("idle")
    /\ UNCHANGED <<callVars, serving, histVars, owner, ownerId, cancelled, ticket, endAsked,
                   cmdFrame>>

\* voip_accept_pending takes the call that rings by now.
AcceptPending ==
    /\ CmdAt("accept")
    /\ IF pending # NoRoom
          THEN pending' = NoRoom /\ activeRoom' = pending /\ CmdGo("start")
          ELSE CmdGo("actionFailed") /\ UNCHANGED <<pending, activeRoom>>
    /\ UNCHANGED <<outVars, serving, histVars, arbiterVars, cmdFrame>>

StartAccepted ==
    /\ CmdAt("start")
    /\ \/ StartSession /\ CmdGo("actionDone")
       \/ StartFails /\ CmdGo("actionFailed")
    /\ UNCHANGED <<callVars, push, serving, bound, tasks, histVars, arbiterVars, mqtt>>

ActionEnds ==
    /\ cmd.at \in {"actionDone", "actionFailed"}
    /\ IF CmdAt("actionFailed") \/ cancelled
          THEN EndOwner /\ CmdGo("ended")
          ELSE /\ transition' = "free" /\ CmdGo("idle")
               /\ UNCHANGED <<owner, ownerId, cancelled, ticket, endAsked, serving, bound>>
    /\ UNCHANGED <<callVars, connVars, push, link, tasks, histVars, mqtt>>

\* no: the room is copied, then voip_reject_pending takes what rings by now.
Reject ==
    /\ CmdAt("idle") /\ pending # NoRoom
    /\ cmd' = [at |-> "reject", room |-> pending]
    /\ UNCHANGED <<callVars, serving, histVars, arbiterVars, cmdFrame>>

RejectPending ==
    /\ CmdAt("reject")
    /\ pending' = NoRoom
    /\ CmdGo("drop")
    /\ UNCHANGED <<outVars, activeRoom, serving, histVars, arbiterVars, cmdFrame>>

\* voip_expire_pending
ExpirePending ==
    /\ CmdAt("idle") /\ pending # NoRoom
    /\ pending' = NoRoom
    /\ cmd' = [at |-> "drop", room |-> pending]
    /\ UNCHANGED <<outVars, activeRoom, serving, histVars, arbiterVars, cmdFrame>>

DropTicket ==
    /\ CmdAt("drop")
    /\ ClearPendingId(cmd.room)
    /\ CmdGo("idle")
    /\ UNCHANGED <<callVars, serving, histVars, owner, ownerId, endAsked, transition,
                   cmdFrame>>

\* voip_expire_outgoing, and its callback.
ExpireOutgoingMutant ==
    /\ CmdAt("idle") /\ outgoing /\ outTimed
    /\ UNCHANGED ignored /\ lapsed' = outCall
    /\ NotOutgoing
    /\ CmdGo("lapsed")
    /\ UNCHANGED <<pending, activeRoom, serving, created, hungUp, arbiterVars, cmdFrame>>
ExpireOutgoing ==
    /\ CmdAt("idle") /\ outgoing /\ outTimed
    /\ ignored' = outCall /\ lapsed' = outCall
    /\ NotOutgoing
    /\ CmdGo("lapsed")
    /\ UNCHANGED <<pending, activeRoom, serving, created, hungUp, arbiterVars, cmdFrame>>

OutgoingLapsed ==
    /\ CmdAt("lapsed") /\ EndSession /\ CmdGo("idle")
    /\ UNCHANGED <<callVars, serving, histVars, leaseFrame, cmdFrame>>

\* voip_expire_connection, and its voip_stop_session.
ExpireConnection ==
    /\ CmdAt("idle") /\ timed
    /\ connecting \/ (active # 0 /\ state = "CONNECTING")
    /\ fresh' = FALSE /\ state' = "DISCONNECTING" /\ timed' = FALSE
    /\ CmdGo("timedOut")
    /\ UNCHANGED <<callVars, attempt, connecting, active, mediaStart, push, sdkVars,
                   histVars, arbiterVars, mqtt>>

ConnectionTimedOut ==
    /\ CmdAt("timedOut") /\ StopSession /\ CmdGo("idle")
    /\ UNCHANGED <<serving, bound, tasks, histVars, leaseFrame, mqtt>>

Command == BeginDial \/ Hangup \/ HangupLocal \/ Accept \/ Reject
           \/ ExpirePending \/ ExpireOutgoing \/ ExpireConnection
Working == ReserveCall \/ ServerCalls \/ CallAnswered \/ Finish \/ Finished
           \/ BeginAccept \/ RunAction \/ AcceptPending \/ StartAccepted \/ ActionEnds
           \/ RejectPending \/ DropTicket \/ OutgoingLapsed \/ ConnectionTimedOut

-----------------------------------------------------------------------------
(* MQTT's thread: _mqtt_voip_incoming and _mqtt_voip_cancel of main.c.     *)

mqttFrame == <<connVars, push, link, bound, tasks, histVars, cmd>>

\* session_arbiter_admit_incoming_id.  A duplicate is dropped, and a call for
\* which there is no place is refused to the server: nothing changes here.
VoipIncoming(r) ==
    /\ MqttAt("idle")
    /\ \/ /\ owner = "HELD" /\ ownerId # r
          /\ mqtt' = [at |-> "current", room |-> r, granted |-> FALSE, mine |-> FALSE]
          /\ UNCHANGED ticket
       \/ /\ owner = "NONE" /\ ticket = NoRoom
          /\ ticket' = r
          /\ mqtt' = [at |-> "granted", room |-> r, granted |-> TRUE, mine |-> FALSE]
    /\ UNCHANGED <<callVars, serving, owner, ownerId, cancelled, endAsked, transition,
                   mqttFrame>>

\* voip_clear_pending_local: the fresh ticket is authoritative.
Granted ==
    /\ MqttAt("granted") /\ MqttGo("look")
    /\ pending' = NoRoom
    /\ UNCHANGED <<outVars, activeRoom, serving, arbiterVars, mqttFrame>>

\* voip_matches_active_room, voip_is_active
OfCurrent ==
    /\ MqttAt("current")
    /\ IF activeRoom # mqtt.room /\ VoipIsActive THEN MqttGo("look") ELSE MqttGo("idle")
    /\ UNCHANGED <<callVars, serving, arbiterVars, mqttFrame>>

Handled == IF mqtt.granted THEN MqttGo("rung") ELSE MqttGo("idle")

\* voip_on_call_incoming decides by what it sees under one lock.
MatchesOutgoing(r) == outgoing /\ r \in (IF outCall # NoRoom THEN {outCall} ELSE Own)
Refuses(r) == \/ r = ignored
              \/ outgoing /\ ~MatchesOutgoing(r)
              \/ InSession \/ pending # NoRoom
Look ==
    LET r == mqtt.room
    IN /\ MqttAt("look")
       /\ \/ Refuses(r) /\ Handled
          \/ /\ ~Refuses(r) /\ MatchesOutgoing(r)
             /\ mqtt' = [mqtt EXCEPT !.at = "answer", !.mine = TRUE]
          \/ ~Refuses(r) /\ ~outgoing /\ r \in Own /\ MqttGo("recover")
          \/ ~Refuses(r) /\ ~outgoing /\ r \in Incoming /\ MqttGo("ring")
       /\ UNCHANGED <<callVars, serving, arbiterVars, mqttFrame>>

\* _recover_voip: any ticket of a WeChat call will do.
Recover ==
    /\ MqttAt("recover")
    /\ \/ /\ owner = "HELD" /\ MqttGo("answer")
          /\ UNCHANGED <<arbiterVars, serving>>
       \/ /\ owner = "NONE" /\ transition = "free" /\ ticket # NoRoom
          /\ BeginSession(ticket) /\ ticket' = NoRoom
          /\ MqttGo("answer")
       \/ /\ owner = "NONE" /\ transition = "free" /\ ticket = NoRoom
          /\ Handled
          /\ UNCHANGED <<arbiterVars, serving>>
    /\ UNCHANGED <<callVars, mqttFrame>>

\* The own call is answered: connect, unless the payload has no credentials.
AnswerOwn ==
    /\ MqttAt("answer")
    /\ IF mqtt.mine THEN NotOutgoing ELSE UNCHANGED outVars
    /\ \/ /\ activeRoom' = mqtt.room /\ MqttGo("start")
          /\ UNCHANGED endAsked
       \/ /\ EndSession /\ Handled
          /\ UNCHANGED activeRoom
    /\ UNCHANGED <<pending, serving, leaseFrame, mqttFrame>>

StartOwn ==
    /\ MqttAt("start") /\ Handled
    /\ \/ StartSession /\ UNCHANGED <<activeRoom, endAsked>>
       \/ StartFails /\ activeRoom' = NoRoom /\ EndSession
    /\ UNCHANGED <<outVars, pending, push, serving, bound, tasks, histVars, leaseFrame, cmd>>

Ring ==
    /\ MqttAt("ring") /\ Handled
    /\ pending' = mqtt.room
    /\ UNCHANGED <<outVars, activeRoom, serving, arbiterVars, mqttFrame>>

\* _mqtt_voip_incoming gives back a ticket nothing rings for.
Rung ==
    /\ MqttAt("rung") /\ MqttGo("idle")
    /\ IF pending = NoRoom /\ owner = "NONE"
          THEN ClearPendingId(mqtt.room)
          ELSE UNCHANGED <<ticket, cancelled>>
    /\ UNCHANGED <<callVars, serving, owner, ownerId, endAsked, transition, mqttFrame>>

\* voip_on_call_cancel
VoipCancel(r) ==
    /\ MqttAt("idle")
    /\ pending' = IF pending = r THEN NoRoom ELSE pending
    /\ activeRoom' = IF activeRoom = r THEN NoRoom ELSE activeRoom
    /\ mqtt' = [MqttIdle EXCEPT !.room = r,
                    !.at = IF activeRoom = r /\ InSession THEN "cancelled" ELSE "told"]
    /\ UNCHANGED <<outVars, serving, arbiterVars, mqttFrame>>

CancelStops ==
    /\ MqttAt("cancelled") /\ StopSession /\ MqttGo("told")
    /\ UNCHANGED <<serving, bound, tasks, histVars, leaseFrame, cmd>>

\* _mqtt_voip_cancel, after it.
Told ==
    /\ MqttAt("told") /\ MqttGo("idle")
    /\ IF pending = NoRoom
          THEN CancelId(mqtt.room)
          ELSE UNCHANGED <<ticket, cancelled, endAsked>>
    /\ UNCHANGED <<callVars, serving, owner, ownerId, transition, mqttFrame>>

Message == \E r \in Incoming \cup created : VoipIncoming(r) \/ VoipCancel(r)
Handling == Granted \/ OfCurrent \/ Look \/ Recover \/ AnswerOwn \/ StartOwn \/ Ring
            \/ Rung \/ CancelStops \/ Told

-----------------------------------------------------------------------------
Next == Command \/ Working \/ Message \/ Handling \/ WorkerTask \/ Arbiter \/ Sdk

Spec == Init /\ [][Next]_vars

-----------------------------------------------------------------------------
(* Properties. *)

\* No thread of the device has anything begun.
AtRest ==
    /\ CmdAt("idle") /\ MqttAt("idle") /\ tasks = <<>>
    /\ ~endAsked /\ transition = "free"

\* When VOIP is released and its stop is through, no connection is the call's
\* and no upstream thread runs, so that the live stream starts on a free
\* device; whatever ringback, timeout and hangup crossed.
ReleasedIsQuiet ==
    owner = "NONE" /\ transition = "free" => active = 0 /\ push = "off"

\* And no connection stays open behind it: a late success is disconnected.
NoConnectionLeft ==
    AtRest /\ owner = "NONE" => \A c \in Conns : link[c] # "open"

\* However a call fails or ends, nobody is left holding VOIP without one, and
\* whatever it waits for, the ringback or its connection, has a deadline
\* (device-session-arbiter.md:343-344).
HeldSessionIsWatched ==
    AtRest =>
        /\ owner = "HELD" => VoipIsActive
        /\ outgoing => outTimed
        /\ connecting \/ state = "CONNECTING" => timed

\* A dial that timed out is not answered later (device-voip.md:626), as long as
\* no other is placed: whatever of its ringback was under way, or comes late.
TimedOutDialStaysDown == AtRest /\ active # 0 => activeRoom = NoRoom \/ activeRoom # lapsed

\* A dial the user has cancelled is not answered later: its call_id is kept,
\* and a late ringback refused (device-voip.md:646).
CancelledDialStaysDown == AtRest /\ active # 0 => activeRoom \notin hungUp
=============================================================================
