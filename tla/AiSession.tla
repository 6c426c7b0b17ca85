------------------------------ MODULE AiSession ------------------------------
(***************************************************************************)
(* A talk with the AI (device-sim-c/src/tirtc_ai.c and its commands in     *)
(* main.c) over the arbiter of SessionLease.  The command thread starts    *)
(* and polls it, the guard's worker handles what its connection reports,   *)
(* and the arbiter stops it on whatever thread; the SDK's callbacks come   *)
(* on threads of their own.                                                *)
(*                                                                         *)
(* A step is one critical section of as->lock with what the thread does    *)
(* unseen after it: nothing else serialises the three, so a stop may run   *)
(* between any two steps of the others, also of another stop.  The         *)
(* upstream thread takes as->lock only and leaves when its stop has begun: *)
(* who joins it never waits for anybody else.                              *)
(*                                                                         *)
(* A connection is the number of its TiRtcWhipConnect.  The server answers *)
(* one start_session at most once.  The recorder and the media are left    *)
(* out, and with them the messages that only move those.                   *)
(***************************************************************************)
EXTENDS SessionLease, Sequences, Naturals

CONSTANTS
    MaxAttempts,   \* bound: connection attempts
    MaxTasks       \* bound: the SDK delays a callback while so many tasks wait

Conns == 1..MaxAttempts

ASSUME BoundsAssumption == MaxAttempts \in Nat \ {0} /\ MaxTasks \in Nat \ {0}

VARIABLES
    state,         \* session_state
    attempt,       \* the last TiRtcWhipConnect
    fresh,         \* connect_generation is still the attempt's
    hconn,         \* hconn, 0 while it is not set
    startPending,  \* start_pending
    timed,         \* connect_ or start_response_deadline_ms is set
    pushNeeded,    \* push_needed
    pushCreated,   \* push_thread_created
    push,          \* the upstream thread runs
    serving,       \* AI is the runtime's active service
    link,          \* the SDK's connection of each attempt
    bound,         \* connections bound to the active generation
    asked,         \* connections whose start_session the server may answer
    tasks,         \* s_ai_callback_guard: tasks deferred
    cmd, worker,   \* the positions of the command thread and of the worker
    stopping       \* ai_stop_session on the command thread, in the arbiter

connVars == <<state, attempt, fresh, hconn, startPending, timed>>
pushVars == <<pushNeeded, pushCreated, push>>
sdkVars == <<serving, link, bound, asked, tasks>>
vars == <<connVars, pushVars, sdkVars, arbiterVars, cmd, worker, stopping>>

Stoppers == {"cmd", "arbiter"}
Task(do, c) == [do |-> do, conn |-> c]
Running == [at |-> "running", had |-> FALSE, join |-> FALSE]

TypeOK ==
    /\ LeaseTypeOK({}, {})
    /\ state \in {"IDLE", "CONNECTING", "IN_CALL", "DISCONNECTING"}
    /\ attempt \in 0..MaxAttempts /\ hconn \in 0..MaxAttempts
    /\ fresh \in BOOLEAN /\ startPending \in BOOLEAN /\ timed \in BOOLEAN
    /\ pushNeeded \in BOOLEAN /\ pushCreated \in BOOLEAN /\ push \in BOOLEAN
    /\ serving \in BOOLEAN
    /\ link \in [Conns -> {"none", "dialing", "open", "closing"}]
    /\ bound \subseteq Conns /\ asked \subseteq Conns
    /\ tasks \in Seq([do : {"disconnect", "finish", "command", "close", "ended"},
                      conn : Conns])
    /\ stopping \in [Stoppers -> [at : {"running", "stopping"}, had : BOOLEAN,
                                  join : BOOLEAN]]
    /\ state = "IDLE" => ~timed /\ ~startPending

Init ==
    /\ LeaseInit
    /\ state = "IDLE" /\ attempt = 0 /\ fresh = FALSE /\ hconn = 0
    /\ startPending = FALSE /\ timed = FALSE
    /\ pushNeeded = FALSE /\ pushCreated = FALSE /\ push = FALSE
    /\ serving = FALSE /\ link = [c \in Conns |-> "none"]
    /\ bound = {} /\ asked = {} /\ tasks = <<>>
    /\ cmd = [at |-> "idle", conn |-> 0]
    /\ worker = [at |-> "idle", task |-> Task("close", 1), join |-> FALSE]
    /\ stopping = [t \in Stoppers |-> Running]

CmdAt(at) == cmd.at = at
CmdGo(at) == cmd' = [at |-> at, conn |-> IF at = "idle" THEN 0 ELSE cmd.conn]
WorkerAt(at) == worker.at = at
WorkerRests == worker' = [at |-> "idle", task |-> Task("close", 1), join |-> FALSE]

\* TiRtcDisconnect, of 0: nothing.
Disconnect(c) ==
    link' = [x \in Conns |-> IF x = c /\ link[x] = "open" THEN "closing" ELSE link[x]]

leaseFrame == <<owner, ownerId, cancelled, ticket, transition>>

-----------------------------------------------------------------------------
(* ai_stop_session, by either of its callers.  Its first half takes the    *)
(* session apart, its second comes when the upstream thread is joined.     *)

BeginStop(t) ==
    /\ stopping[t].at = "running"
    /\ stopping' = [stopping EXCEPT ![t] = [at |-> "stopping", had |-> state # "IDLE",
                                            join |-> pushCreated]]
    /\ state' = IF state # "IDLE" THEN "DISCONNECTING" ELSE "IDLE"
    /\ fresh' = FALSE /\ hconn' = 0 /\ startPending' = FALSE /\ timed' = FALSE
    /\ pushNeeded' = FALSE /\ pushCreated' = FALSE
    /\ Disconnect(hconn)
    /\ UNCHANGED <<attempt, push>>

EndStop(t) ==
    /\ stopping[t].at = "stopping"
    /\ stopping' = [stopping EXCEPT ![t] = Running]
    /\ state' = IF state = "DISCONNECTING" THEN "IDLE" ELSE state
    /\ push' = (push /\ ~stopping[t].join)
    /\ IF stopping[t].had THEN EndSession ELSE UNCHANGED endAsked
    /\ UNCHANGED <<attempt, fresh, hconn, startPending, timed, pushNeeded, pushCreated, link>>

-----------------------------------------------------------------------------
(* The arbiter. *)

arbiterFrame == <<serving, bound, asked, tasks, cmd, worker>>

EndOwner == Release /\ serving' = FALSE /\ bound' = {}

\* _lifecycle_worker takes the request; _stop_ai deactivates first.
LifecycleWorker ==
    /\ endAsked /\ transition = "free"
    /\ EndOwner
    /\ UNCHANGED <<connVars, pushVars, link, asked, tasks, cmd, worker, stopping>>

\* ai_service_stop: ai_stop_session, then sdk_callback_wait_all.
ServiceStops ==
    /\ transition = "stop" /\ BeginStop("arbiter")
    /\ UNCHANGED <<arbiterVars, arbiterFrame>>

ServiceStopped ==
    /\ transition = "stop" /\ EndStop("arbiter") /\ transition' = "drain"
    /\ UNCHANGED <<owner, ownerId, cancelled, ticket, arbiterFrame>>

ServiceDrained ==
    /\ transition = "drain" /\ tasks = <<>> /\ WorkerAt("idle")
    /\ transition' = "free"
    /\ UNCHANGED <<connVars, pushVars, link, owner, ownerId, cancelled, ticket, endAsked,
                   stopping, arbiterFrame>>

Arbiter == LifecycleWorker \/ ServiceStops \/ ServiceStopped \/ ServiceDrained

-----------------------------------------------------------------------------
(* The command thread: aicall, hangup and ai_poll of main.c's loop.        *)

cmdFrame == <<pushVars, bound, asked, tasks, worker, stopping>>
Idle == CmdAt("idle") /\ stopping["cmd"].at = "running"

\* aicall: _begin_session waits for a transition and may be refused.
BeginAi ==
    /\ Idle /\ transition = "free" /\ owner = "NONE"
    /\ Hold(NoRoom) /\ serving' = TRUE
    /\ CmdGo("token")
    /\ UNCHANGED <<ticket, connVars, link, cmdFrame>>

\* ai_get_token fails, or ai_start_session finds a session.
StartFails ==
    /\ CmdAt("token")
    /\ CmdGo("finish")
    /\ UNCHANGED <<arbiterVars, connVars, serving, link, cmdFrame>>

\* ai_start_session reserves the session with a new generation.
StartSession ==
    /\ CmdAt("token") /\ state = "IDLE" /\ attempt < MaxAttempts
    /\ state' = "CONNECTING" /\ attempt' = attempt + 1 /\ fresh' = TRUE
    /\ hconn' = 0 /\ startPending' = FALSE /\ timed' = FALSE /\ pushNeeded' = FALSE
    /\ cmd' = [at |-> "connect", conn |-> attempt + 1]
    /\ UNCHANGED <<arbiterVars, pushCreated, push, sdkVars, worker, stopping>>

\* TiRtcWhipConnect, which may refuse, as the recorder may before it: then
\* nobody is told.
WhipConnect ==
    /\ CmdAt("connect")
    /\ \/ /\ link' = [link EXCEPT ![cmd.conn] = "dialing"]
          /\ CmdGo("deadline")
          /\ UNCHANGED <<state, endAsked>>
       \/ /\ state' = IF fresh THEN "IDLE" ELSE state
          /\ EndSession \/ UNCHANGED endAsked
          /\ CmdGo("finish")
          /\ UNCHANGED link
    /\ UNCHANGED <<leaseFrame, attempt, fresh, hconn, startPending, timed, serving, cmdFrame>>

SetDeadline ==
    /\ CmdAt("deadline")
    /\ timed' = (timed \/ (fresh /\ state = "CONNECTING" /\ hconn = 0))
    /\ CmdGo("idle")
    /\ UNCHANGED <<arbiterVars, state, attempt, fresh, hconn, startPending, serving, link,
                   cmdFrame>>

\* session_arbiter_finish(AI), after a failure or by hangup, and its return.
Finish ==
    /\ \/ CmdAt("finish")
       \/ Idle /\ owner = "HELD"
    /\ transition = "free"
    /\ IF owner = "HELD"
          THEN EndOwner /\ CmdGo("ended")
          ELSE CmdGo("idle") /\ UNCHANGED <<arbiterVars, serving, bound>>
    /\ UNCHANGED <<connVars, pushVars, link, asked, tasks, worker, stopping>>

Finished ==
    /\ CmdAt("ended") /\ transition = "free"
    /\ CmdGo("idle")
    /\ UNCHANGED <<arbiterVars, connVars, serving, link, cmdFrame>>

\* ai_poll finds that a deadline has passed, and stops the session whatever
\* has become of it by then.
Expires ==
    /\ Idle /\ state = "CONNECTING" /\ timed /\ ~startPending
    /\ CmdGo("stop")
    /\ UNCHANGED <<arbiterVars, connVars, serving, link, cmdFrame>>

StopSession ==
    /\ CmdAt("stop") /\ BeginStop("cmd")
    /\ CmdGo("idle")
    /\ UNCHANGED <<arbiterVars, serving, bound, asked, tasks, worker>>

Stopped ==
    /\ EndStop("cmd")
    /\ UNCHANGED <<leaseFrame, serving, bound, asked, tasks, cmd, worker>>

\* _ai_send_deferred_start takes the connection and sends start_session.
TakeStart ==
    /\ Idle /\ state = "CONNECTING" /\ startPending
    /\ startPending' = FALSE
    /\ cmd' = [at |-> "send", conn |-> hconn]
    /\ UNCHANGED <<arbiterVars, state, attempt, fresh, hconn, timed, serving, link, cmdFrame>>

SendStart ==
    /\ CmdAt("send")
    /\ \/ /\ CmdGo("sent")
          /\ asked' = IF link[cmd.conn] = "open" THEN asked \cup {cmd.conn} ELSE asked
       \/ CmdGo("stop") /\ UNCHANGED asked
    /\ UNCHANGED <<arbiterVars, connVars, pushVars, serving, link, bound, tasks, worker,
                   stopping>>

\* The deadline of its answer.
SentStartMutant ==
    /\ CmdAt("sent")
    /\ CmdGo("idle")
    /\ UNCHANGED <<arbiterVars, connVars, serving, link, cmdFrame>>
SentStart ==
    /\ CmdAt("sent")
    /\ timed' = (timed \/ (hconn = cmd.conn /\ state = "CONNECTING"))
    /\ CmdGo("idle")
    /\ UNCHANGED <<arbiterVars, state, attempt, fresh, hconn, startPending, serving, link,
                   cmdFrame>>

\* The upstream thread is created, or the session stops.
CreatePush ==
    /\ Idle /\ state = "IN_CALL" /\ pushNeeded
    /\ pushNeeded' = FALSE
    /\ \/ pushCreated' = TRUE /\ push' = TRUE /\ UNCHANGED cmd
       \/ CmdGo("stop") /\ UNCHANGED <<pushCreated, push>>
    /\ UNCHANGED <<arbiterVars, connVars, sdkVars, worker, stopping>>

Command == BeginAi \/ StartFails \/ StartSession \/ WhipConnect \/ SetDeadline
           \/ Finish \/ Finished \/ Expires \/ StopSession \/ Stopped
           \/ TakeStart \/ SendStart \/ SentStart \/ CreatePush

-----------------------------------------------------------------------------
(* The guard's worker. *)

workerFrame == <<leaseFrame, serving, bound, asked, cmd, stopping>>

\* _ai_disconnect_deferred and _ai_finish_disconnect_deferred, to the join in
\* _ai_handle_disconnect.
TakeLost ==
    LET task == Head(tasks)
        c == task.conn
    IN /\ WorkerAt("idle") /\ tasks # <<>> /\ task.do \in {"disconnect", "finish"}
       /\ tasks' = Tail(tasks)
       /\ IF hconn = c /\ state \in {"CONNECTING", "IN_CALL"}
             THEN /\ state' = "DISCONNECTING" /\ hconn' = 0
                  /\ startPending' = FALSE /\ timed' = FALSE
                  /\ pushNeeded' = FALSE /\ pushCreated' = FALSE
                  /\ worker' = [at |-> "lost", task |-> task, join |-> pushCreated]
                  /\ UNCHANGED link
             ELSE /\ IF task.do = "disconnect" THEN Disconnect(c) ELSE UNCHANGED link
                  /\ UNCHANGED <<state, hconn, startPending, timed, pushNeeded, pushCreated,
                                 worker>>
       /\ UNCHANGED <<endAsked, attempt, fresh, push, workerFrame>>

Lost ==
    /\ WorkerAt("lost") /\ WorkerRests
    /\ state' = "IDLE" /\ push' = (push /\ ~worker.join)
    /\ EndSession
    /\ IF worker.task.do = "disconnect" THEN Disconnect(worker.task.conn)
                                        ELSE UNCHANGED link
    /\ UNCHANGED <<attempt, fresh, hconn, startPending, timed, pushNeeded, pushCreated,
                   tasks, workerFrame>>

\* _ai_command_deferred asks whether the connection is the session's.
TakeCommand ==
    /\ WorkerAt("idle") /\ tasks # <<>> /\ Head(tasks).do = "command"
    /\ tasks' = Tail(tasks)
    /\ IF hconn = Head(tasks).conn /\ state # "IDLE"
          THEN worker' = [worker EXCEPT !.at = "message", !.task = Head(tasks)]
          ELSE UNCHANGED worker
    /\ UNCHANGED <<endAsked, connVars, pushVars, link, workerFrame>>

\* _ai_handle_message: the answer; a refusal, or the server's end_session.
\* An answer clears its own deadline only, not that of a connection.  (The
\* task the worker defers to itself finds a place.)
HandleMessage ==
    LET c == worker.task.conn
    IN /\ WorkerAt("message") /\ WorkerRests
       /\ \/ /\ state' = "IN_CALL" /\ timed' = (timed /\ hconn = 0)
             /\ pushNeeded' = TRUE
             /\ UNCHANGED tasks
          \/ /\ timed' = (timed /\ hconn = 0)
             /\ tasks' = Append(tasks, Task("disconnect", c))
             /\ UNCHANGED <<state, pushNeeded>>
          \/ /\ tasks' = Append(tasks, Task("disconnect", c))
             /\ UNCHANGED <<state, timed, pushNeeded>>
       /\ UNCHANGED <<endAsked, attempt, fresh, hconn, startPending, pushCreated, push, link,
                      workerFrame>>

\* sdk_defer_disconnect, _ai_terminal_cleanup_deferred.
TakeTask ==
    LET task == Head(tasks)
        c == task.conn
    IN /\ WorkerAt("idle") /\ tasks # <<>> /\ tasks' = Tail(tasks)
       /\ \/ /\ task.do = "close" /\ Disconnect(c)
             /\ UNCHANGED endAsked
          \/ /\ task.do = "ended"
             /\ IF fresh /\ attempt = c /\ state = "IDLE" THEN EndSession
                                                          ELSE UNCHANGED endAsked
             /\ UNCHANGED link
       /\ UNCHANGED <<connVars, pushVars, worker, workerFrame>>

Worker == TakeLost \/ Lost \/ TakeCommand \/ HandleMessage \/ TakeTask

-----------------------------------------------------------------------------
(* The SDK. *)

Deferred(ts) == Len(tasks) + Len(ts) <= MaxTasks /\ tasks' = tasks \o ts

sdkFrame == <<arbiterVars, attempt, fresh, pushVars, serving, asked, cmd, worker, stopping>>

\* _ai_connect_cb of an attempt that was given up.
StaleConnectedMutant(c) ==
    /\ link[c] = "dialing" /\ ~(fresh /\ attempt = c /\ state = "CONNECTING")
    /\ \/ link' = [link EXCEPT ![c] = "none"] /\ UNCHANGED tasks
       \/ link' = [link EXCEPT ![c] = "open"] /\ UNCHANGED tasks
    /\ UNCHANGED <<sdkFrame, state, hconn, startPending, timed, bound>>
StaleConnected(c) ==
    /\ link[c] = "dialing" /\ ~(fresh /\ attempt = c /\ state = "CONNECTING")
    /\ \/ link' = [link EXCEPT ![c] = "none"] /\ UNCHANGED tasks
       \/ link' = [link EXCEPT ![c] = "open"] /\ Deferred(<<Task("close", c)>>)
    /\ UNCHANGED <<sdkFrame, state, hconn, startPending, timed, bound>>

Connected(c) ==
    /\ link[c] = "dialing" /\ fresh /\ attempt = c /\ state = "CONNECTING"
    /\ timed' = FALSE
    /\ \/ /\ serving
          /\ link' = [link EXCEPT ![c] = "open"] /\ bound' = bound \cup {c}
          /\ hconn' = c /\ startPending' = TRUE
          /\ UNCHANGED <<state, tasks>>
       \/ /\ link' = [link EXCEPT ![c] = "none"]
          /\ state' = "IDLE" /\ hconn' = 0 /\ startPending' = FALSE
          /\ Deferred(<<Task("ended", c)>>)
          /\ UNCHANGED bound
       \/ /\ ~serving
          /\ link' = [link EXCEPT ![c] = "open"]
          /\ state' = "IDLE" /\ hconn' = 0 /\ startPending' = FALSE
          /\ Deferred(<<Task("close", c), Task("ended", c)>>)
          /\ UNCHANGED bound
    /\ UNCHANGED sdkFrame

\* _a_on_command: the answer, once, or end_session.
PeerCommands(c) ==
    /\ link[c] = "open" /\ c \in bound /\ c \in asked
    /\ asked' = asked \ {c}
    /\ Deferred(<<Task("command", c)>>)
    /\ UNCHANGED <<connVars, pushVars, arbiterVars, serving, link, bound, cmd, worker,
                   stopping>>

\* _a_on_conn_error
ConnError(c) ==
    /\ link[c] = "open" /\ c \in bound
    /\ \A i \in DOMAIN tasks : tasks[i] # Task("disconnect", c)
    /\ Deferred(<<Task("disconnect", c)>>)
    /\ UNCHANGED <<sdkFrame, state, hconn, startPending, timed, link, bound>>

\* _a_on_disconnected, when the runtime still has the connection.
OnDisconnected(c) ==
    /\ link[c] \in {"open", "closing"}
    /\ link' = [link EXCEPT ![c] = "none"] /\ bound' = bound \ {c}
    /\ IF c \in bound THEN Deferred(<<Task("finish", c)>>) ELSE UNCHANGED tasks
    /\ UNCHANGED <<sdkFrame, state, hconn, startPending, timed>>

\* _ai_push_thread leaves its loop: the source ends, sending fails, or it is
\* told to; it disconnects when it cannot open its source.
PushEnds ==
    /\ push /\ push' = FALSE
    /\ Disconnect(hconn) \/ UNCHANGED link
    /\ UNCHANGED <<connVars, pushNeeded, pushCreated, arbiterVars, serving, bound, asked,
                   tasks, cmd, worker, stopping>>

Sdk == \/ \E c \in Conns : \/ StaleConnected(c) \/ Connected(c) \/ PeerCommands(c)
                           \/ ConnError(c) \/ OnDisconnected(c)
       \/ PushEnds

Next == Command \/ Worker \/ Arbiter \/ Sdk

Spec == Init /\ [][Next]_vars

-----------------------------------------------------------------------------
(* Properties. *)

\* No thread of the device has anything begun.
AtRest ==
    /\ Idle /\ WorkerAt("idle") /\ tasks = <<>>
    /\ ~endAsked /\ transition = "free"

\* A connection that came too late or was given up is closed, whoever gave it
\* up: who is open is the session's, or somebody is about to close it.
NoConnectionLeft ==
    \A c \in Conns : link[c] = "open" =>
        \/ hconn = c
        \/ \E i \in DOMAIN tasks : tasks[i] \in {Task("close", c), Task("disconnect", c)}
        \/ WorkerAt("lost") /\ worker.task = Task("disconnect", c)

\* A device that is free has no connection of a session, and so sends
\* nothing: what the threads had begun cannot bring one back.
ReleasedIsQuiet ==
    owner = "NONE" /\ transition = "free" => hconn = 0 /\ bound = {}

\* Whatever a session waits for has a deadline, or the command thread is
\* about to ask for it (device-session-arbiter.md:343).
WaitingIsTimed == AtRest /\ state = "CONNECTING" => timed \/ startPending

=============================================================================
