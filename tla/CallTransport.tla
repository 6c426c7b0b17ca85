--------------------------- MODULE CallTransport ----------------------------
(***************************************************************************)
(* The transport of a device call (device-sim-c/src/tirtc_call.c): which   *)
(* connection is the call's, the room an incoming connection must name,    *)
(* the tasks the SDK's callbacks defer to the guard's worker, the one      *)
(* connection attempt of a callee and the media thread.                    *)
(*                                                                         *)
(* A connection is named by the room it is for.  A step is one critical    *)
(* section of s_conn_mtx or one s_connect_mtx; s_call_control_mtx is a     *)
(* variable, because the code joins the ring timer while it holds it.      *)
(* The handlers of the callbacks are one critical section and one          *)
(* deferral, so each is one step, and the worker finds no callback inside. *)
(* What the subscriptions let through is left out; that subscribing to the *)
(* peer may fail is not.                                                   *)
(***************************************************************************)
EXTENDS SessionLease, Sequences, Naturals

CONSTANTS
    Outgoing,      \* rooms the server makes for the calls of this device
    Incoming,      \* rooms in which others call this device
    MaxTasks       \* bound: the SDK delays a callback while so many tasks wait

Rooms == Outgoing \cup Incoming

ASSUME RoomsAssumption == Outgoing \cap Incoming = {} /\ NoRoom \notin Rooms
ASSUME MaxTasksAssumption == MaxTasks \in Nat \ {0}

VARIABLES
    serving,       \* CALL is the runtime's active service, s_service_active
    link,          \* the SDK's connection for each room
    bound,         \* connections bound to the active generation
    current,       \* s_active_conn
    waiting,       \* s_pending_conn
    sess,          \* s_session_state
    expected,      \* s_expected_room_id
    attempt,       \* the TiRtcConnect under s_connect_generation
    media,         \* the media thread
    tasks,         \* s_call_callback_guard: tasks deferred
    control        \* who holds s_call_control_mtx across a join

linkVars == <<link, bound>>
connVars == <<current, waiting, sess>>
transportVars == <<serving, linkVars, connVars, expected, attempt, media,
                   tasks, control>>

TransportTypeOK ==
    /\ serving \in BOOLEAN
    /\ link \in [Rooms -> {"none", "open", "broken", "closing"}]
    /\ bound \subseteq Rooms
    /\ current \in Rooms \cup {NoRoom} /\ waiting \in Rooms \cup {NoRoom}
    /\ sess \in {"IDLE", "CONNECTING", "IN_CALL"}
    /\ expected \in Outgoing \cup {NoRoom}
    /\ attempt \in {"none", "dialing", "connected", "failed", "cancelled"}
    /\ media \in {"off", "on", "over"}
    /\ tasks \in Seq([do : {"accept", "command", "disconnect", "finish"},
                      room : Rooms])
    /\ control \in {"free", "cmd", "worker"}

TransportInit ==
    /\ serving = FALSE
    /\ link = [r \in Rooms |-> "none"] /\ bound = {}
    /\ current = NoRoom /\ waiting = NoRoom /\ sess = "IDLE"
    /\ expected = NoRoom /\ attempt = "none" /\ media = "off"
    /\ tasks = <<>> /\ control = "free"

-----------------------------------------------------------------------------
(* The SDK, as tirtc_runtime.c lets the call service see it. *)

Task(do, r) == [do |-> do, room |-> r]

\* sdk_defer_action, by a callback of a connection the runtime has bound.
Defer(do, r) == /\ Len(tasks) < MaxTasks
                /\ tasks' = Append(tasks, Task(do, r))
DeferIfBound(do, r) == IF r \in bound THEN Defer(do, r) ELSE UNCHANGED tasks

\* TiRtcDisconnect, of NoRoom: nothing.
Disconnect(l, r) ==
    [x \in Rooms |-> IF x = r /\ l[x] \in {"open", "broken"} THEN "closing" ELSE l[x]]

\* A peer connects; _call_on_conn_accepted.  While no call is the active
\* service, the runtime has the connection disconnected.
PeerConnects(r) ==
    /\ link[r] = "none"
    /\ IF serving
          THEN /\ link' = [link EXCEPT ![r] = "open"]
               /\ bound' = bound \cup {r}
               /\ waiting' = r
               /\ Defer("accept", r)
          ELSE /\ link' = [link EXCEPT ![r] = "closing"]
               /\ UNCHANGED <<bound, waiting, tasks>>
    /\ UNCHANGED <<serving, current, sess, expected, attempt, media, control>>

\* _call_on_command: the peer names its room in command 0x2000, once.
PeerNamesRoom(r) ==
    /\ link[r] = "open" /\ r \in bound /\ r \in Outgoing
    /\ \A i \in DOMAIN tasks : tasks[i] # Task("command", r)
    /\ sess # "IN_CALL"
    /\ Defer("command", r)
    /\ UNCHANGED <<serving, linkVars, connVars, expected, attempt, media, control>>

\* _call_on_conn_error
ConnError(r) ==
    /\ link[r] = "open"
    /\ link' = [link EXCEPT ![r] = "broken"]
    /\ DeferIfBound("disconnect", r)
    /\ UNCHANGED <<serving, bound, connVars, expected, attempt, media, control>>

\* _call_on_disconnected, after the peer or this device closed.
OnDisconnected(r) ==
    /\ link[r] # "none"
    /\ link' = [link EXCEPT ![r] = "none"]
    /\ bound' = bound \ {r}
    /\ DeferIfBound("finish", r)
    /\ UNCHANGED <<serving, connVars, expected, attempt, media, control>>

-----------------------------------------------------------------------------
(* Media. *)

\* _media_worker leaves its loop: the source ends or sending fails.  After
\* three failures it disconnects, and s_media_running stays set.
MediaEnds ==
    /\ media = "on" /\ media' = "over"
    /\ \/ UNCHANGED link
       \/ link' = Disconnect(link, current)
    /\ UNCHANGED <<serving, bound, connVars, expected, attempt, tasks, control>>

\* _start_media_stream does nothing while s_media_running is set; the source
\* may fail to open.
StartMedia ==
    \/ media # "off" /\ UNCHANGED media
    \/ media = "off" /\ media' \in {"on", "off"}

\* _finish_call_transport, first half: the connection is the call's no more.
\* (The media thread is joined and never waits for anybody.)
LetGo(r) ==
    IF current = r
       THEN /\ current' = NoRoom /\ sess' = "IDLE" /\ media' = "off"
            /\ UNCHANGED waiting
       ELSE /\ waiting' = IF waiting = r THEN NoRoom ELSE waiting
            /\ UNCHANGED <<current, sess, media>>

\* call_hangup.  It withdraws the attempt, whatever has become of it.
HangUp ==
    /\ control = "free"
    /\ current' = NoRoom /\ waiting' = NoRoom /\ sess' = "IDLE"
    /\ expected' = NoRoom /\ media' = "off"
    /\ attempt' = IF attempt = "none" THEN "none" ELSE "cancelled"
    /\ link' = Disconnect(Disconnect(link, current), waiting)
    /\ UNCHANGED <<bound, control>>

\* call_is_active
CallIsActive == sess # "IDLE"

-----------------------------------------------------------------------------
(* The worker's tasks that need no ring timer. *)

\* _deferred_accept_call: the announced connection becomes the call's.
AcceptTask(r) ==
    /\ control = "free"
    /\ IF serving /\ waiting = r
          THEN /\ current' = r /\ waiting' = NoRoom /\ sess' = "CONNECTING"
               /\ IF current \notin {NoRoom, r}
                     THEN media' = "off" /\ link' = Disconnect(link, current)
                     ELSE UNCHANGED <<media, link>>
          ELSE /\ link' = Disconnect(link, r)
               /\ UNCHANGED <<connVars, media>>
    /\ tasks' = Tail(tasks)
    /\ UNCHANGED <<serving, bound, expected, attempt, control>>

\* _call_command_deferred: the room is wrong for the call that is expected.
WrongRoom(r) == expected \notin {NoRoom, r}

-----------------------------------------------------------------------------
(* TiRtcConnect by the callee. *)

\* _connect_cb.  A success that comes late, or that the runtime does not bind,
\* is disconnected by the guard and leaves nothing.
Connected(r) ==
    /\ attempt = "dialing"
    /\ \/ /\ serving /\ link[r] = "none"
          /\ link' = [link EXCEPT ![r] = "open"]
          /\ bound' = bound \cup {r}
          /\ attempt' = "connected"
       \/ attempt' = "failed" /\ UNCHANGED linkVars
    /\ UNCHANGED <<serving, connVars, expected, media, tasks, control>>
=============================================================================
