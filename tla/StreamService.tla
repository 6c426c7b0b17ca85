--------------------------- MODULE StreamService ----------------------------
(***************************************************************************)
(* The live stream of the C device reference (device-sim-c/src/            *)
(* tirtc_stream.c with stream_connection_set.c), on top of TirtcRuntime    *)
(* and of the guards: which clients it holds, the worker that accepts      *)
(* them, the push thread that feeds them from one media source, and the    *)
(* start and stop the session coordinator calls, here in the order main.c  *)
(* gives them: activate the runtime, then start the service; deactivate,   *)
(* then stop it.                                                           *)
(*                                                                         *)
(* A step is one critical section of s_conn_mtx, with the calls the same   *)
(* thread makes before anybody can see the difference. What is sent, and   *)
(* the subscriptions that gate it, are left out.                           *)
(***************************************************************************)
EXTENDS TirtcRuntime

VARIABLES
    serviceActive,   \* s_service_active
    clients,         \* s_connections: FREE, PENDING or ACTIVE
    accepting,       \* where the guard's worker is in its task
    media,           \* s_media: open or closed
    push,            \* the push thread
    pushRunning,     \* s_push_running
    pushCreated,     \* s_push_thread_created
    session,         \* the coordinator's call: progress of start and stop
    leaving          \* handles the stop is about to disconnect

pushVars == <<media, push, pushRunning, pushCreated>>
controlVars == <<session, leaving>>
streamVars == <<serviceActive, clients, accepting, pushVars, controlVars>>
vars == <<runtimeVars, streamVars>>

NoClients == [h \in Handles |-> "FREE"]

TypeOK ==
    /\ RuntimeTypeOK
    /\ serviceActive \in BOOLEAN
    /\ clients \in [Handles -> {"FREE", "PENDING", "ACTIVE"}]
    /\ accepting \in {"idle", "ensure", "join", "open", "opened",
                      "activate", "subscribed", "refuse"}
    /\ media \in {"open", "closed"}
    /\ push \in {"none", "loop", "closed", "ended"}
    /\ pushRunning \in BOOLEAN /\ pushCreated \in BOOLEAN
    /\ session \in {"off", "activated", "on", "deactivated", "stopPush",
                    "join", "drain"}
    /\ leaving \subseteq Handles

Init ==
    /\ RuntimeInit
    /\ serviceActive = FALSE /\ clients = NoClients
    /\ accepting = "idle" /\ media = "closed"
    /\ push = "none" /\ pushRunning = FALSE /\ pushCreated = FALSE
    /\ session = "off" /\ leaving = {}

Streaming == guard["stream"]

-----------------------------------------------------------------------------
(* The handlers, on the SDK's threads. *)

Return(h, g) ==
    /\ callback' = [callback EXCEPT ![h] = "none"]
    /\ guard' = [runtime |-> Leave(guard["runtime"]), stream |-> g]

\* _on_conn_accepted: announce the client, let the worker accept it.
AcceptCallback(h) ==
    LET duplicate == clients[h] # "FREE"
        task == [do |-> "accept", h |-> h]
        added == serviceActive /\ ~duplicate
    IN /\ IF added /\ CanDefer(Streaming)
             THEN clients' = [clients EXCEPT ![h] = "PENDING"]
             ELSE UNCHANGED clients
       /\ Return(h, CASE duplicate -> Streaming
                      [] added /\ CanDefer(Streaming) -> Defer(Streaming, task)
                      [] OTHER -> Defer(Streaming, DisconnectTask(h)))
       /\ UNCHANGED conn

\* _on_conn_error
ErrorCallback(h) ==
    /\ clients' = [clients EXCEPT ![h] = "FREE"]
    /\ Return(h, Defer(Streaming, DisconnectTask(h)))
    /\ UNCHANGED conn

\* _on_disconnected; the SDK frees the handle when it returns.
DisconnectedCallback(h) ==
    /\ clients' = [clients EXCEPT ![h] = "FREE"]
    /\ Return(h, Streaming)
    /\ conn' = [conn EXCEPT ![h] = "free"]

Handler(h) ==
    /\ \/ callback[h] = "accepted" /\ AcceptCallback(h)
       \/ callback[h] = "error" /\ ErrorCallback(h)
       \/ callback[h] = "disconnected" /\ DisconnectedCallback(h)
    /\ UNCHANGED <<sdk, started, stopped, sessionVars, bound, halt,
                   serviceActive, accepting, pushVars, controlVars>>

-----------------------------------------------------------------------------
(* The worker of the stream's guard. *)

Taken == Streaming.running

FinishTask ==
    /\ guard' = [guard EXCEPT !["stream"] = Finish(@)]
    /\ accepting' = "idle"

Refuse(h) ==
    /\ FinishTask
    /\ conn' = Disconnected(conn, h)

\* A task is taken and runs up to its first lock section.  _disconnect is over
\* then, and so is _accept_connection if its client is not announced any more.
TakeTask ==
    LET task == Head(Streaming.queue)
        announced == /\ task.do = "accept"
                     /\ serviceActive /\ clients[task.h] = "PENDING"
    IN /\ CanTake(Streaming)
       /\ guard' = [guard EXCEPT !["stream"] =
                        IF announced THEN Take(@) ELSE Finish(Take(@))]
       /\ accepting' = IF announced THEN "ensure" ELSE "idle"
       /\ conn' = IF announced THEN conn ELSE Disconnected(conn, task.h)
       /\ UNCHANGED <<clients, pushVars>>

\* _ensure_push_thread: the running thread, or the end of a finished one ...
EnsurePush ==
    /\ accepting = "ensure"
    /\ accepting' = CASE pushRunning -> "activate"
                      [] ~pushRunning /\ pushCreated -> "join"
                      [] OTHER -> "open"
    /\ pushCreated' = (pushCreated /\ pushRunning)
    /\ UNCHANGED <<clients, conn, guard, media, push, pushRunning>>

JoinFinishedPush ==
    /\ accepting = "join" /\ push = "ended"
    /\ push' = "none" /\ accepting' = "open"
    /\ UNCHANGED <<clients, conn, guard, media, pushRunning, pushCreated>>

\* ... the media source, which may fail to open ...
OpenMedia ==
    /\ accepting = "open"
    /\ \/ media' = "open" /\ accepting' = "opened"
       \/ accepting' = "refuse" /\ UNCHANGED media
    /\ UNCHANGED <<clients, conn, guard, push, pushRunning, pushCreated>>

\* ... and the thread, unless the service stopped or it cannot be created.
CreatePushMutant ==
    /\ accepting = "opened"
    /\ push' = "loop" /\ accepting' = "activate"
    /\ pushRunning' = TRUE /\ pushCreated' = TRUE
    /\ UNCHANGED <<media, clients, conn, guard>>
CreatePush ==
    /\ accepting = "opened"
    /\ \/ /\ serviceActive
          /\ push' = "loop" /\ accepting' = "activate"
          /\ pushRunning' = TRUE /\ pushCreated' = TRUE
          /\ UNCHANGED media
       \/ /\ media' = "closed" /\ accepting' = "refuse"
          /\ UNCHANGED <<push, pushRunning, pushCreated>>
    /\ UNCHANGED <<clients, conn, guard>>

NoPush ==
    /\ accepting = "refuse"
    /\ clients' = [clients EXCEPT ![Taken.h] = "FREE"]
    /\ Refuse(Taken.h)
    /\ UNCHANGED pushVars

\* The client is activated, and checked again after the two subscriptions.
ActivateClient ==
    /\ accepting = "activate"
    /\ IF serviceActive /\ clients[Taken.h] = "PENDING"
          THEN /\ clients' = [clients EXCEPT ![Taken.h] = "ACTIVE"]
               /\ accepting' = "subscribed"
               /\ UNCHANGED <<conn, guard>>
          ELSE Refuse(Taken.h) /\ UNCHANGED clients
    /\ UNCHANGED pushVars

SubscribedDown ==
    /\ accepting = "subscribed"
    /\ IF serviceActive /\ clients[Taken.h] = "ACTIVE"
          THEN FinishTask /\ UNCHANGED conn
          ELSE Refuse(Taken.h)
    /\ UNCHANGED <<clients, pushVars>>

Worker ==
    /\ \/ TakeTask \/ EnsurePush \/ JoinFinishedPush \/ OpenMedia
       \/ CreatePush \/ NoPush \/ ActivateClient \/ SubscribedDown
    /\ UNCHANGED <<sdk, callback, started, stopped, sessionVars, bound, halt,
                   serviceActive, controlVars>>

-----------------------------------------------------------------------------
(* The push thread. *)

PushUnchanged == UNCHANGED <<sdk, callback, started, stopped, sessionVars, bound,
                             halt, serviceActive, accepting, controlVars>>

\* A send failed for good: that client goes, the others stay.
SendFails(h) ==
    /\ push = "loop" /\ clients[h] = "ACTIVE"
    /\ clients' = [clients EXCEPT ![h] = "FREE"]
    /\ conn' = Disconnected(conn, h)
    /\ UNCHANGED <<guard, pushVars>>
    /\ PushUnchanged

\* Out of the loop, being told to stop, by g_stop or for want of a packet.
LeaveLoop ==
    /\ push = "loop" /\ push' = "closed" /\ media' = "closed"
    /\ UNCHANGED <<conn, guard, clients, pushRunning, pushCreated>>
    /\ PushUnchanged

EndPush ==
    /\ push = "closed" /\ push' = "ended" /\ pushRunning' = FALSE
    /\ UNCHANGED <<conn, guard, clients, media, pushCreated>>
    /\ PushUnchanged

-----------------------------------------------------------------------------
(* main.c's stream adapter, and stream_service_start and _stop. *)

ControlUnchanged == UNCHANGED <<sdk, callback, guard, started, stopped,
                                sessionVars, bound, halt, accepting>>

\* _start_stream, the runtime's part.
StartStream ==
    /\ session = "off" /\ halt = "up" /\ Activate
    /\ session' = "activated"
    /\ UNCHANGED <<serviceActive, clients, accepting, pushVars, leaving>>

\* stream_service_start
StartService ==
    /\ session = "activated" /\ session' = "on"
    /\ serviceActive' = TRUE /\ clients' = NoClients
    /\ UNCHANGED <<conn, pushVars, leaving>>
    /\ ControlUnchanged

\* _stop_stream, the runtime's part.
StopStream ==
    /\ session = "on" /\ Deactivate
    /\ session' = "deactivated"
    /\ UNCHANGED <<serviceActive, clients, accepting, pushVars, leaving>>

\* stream_service_stop: nobody is a client any more ...
StopService ==
    /\ session = "deactivated" /\ session' = "stopPush"
    /\ serviceActive' = FALSE
    /\ leaving' = {h \in Handles : clients[h] # "FREE"}
    /\ clients' = NoClients
    /\ UNCHANGED <<conn, pushVars>>
    /\ ControlUnchanged

\* ... the clients are disconnected ...
DisconnectLeaving ==
    /\ conn' = DisconnectedAll(conn, leaving)
    /\ leaving' = {} /\ session' = "drain"

\* ... when the push thread has ended (_stop_push_thread) ...
StopPushThreadMutant ==
    /\ session = "stopPush"
    /\ pushCreated' = FALSE
    /\ IF pushCreated
          THEN session' = "join" /\ UNCHANGED <<conn, leaving>>
          ELSE DisconnectLeaving
    /\ UNCHANGED <<serviceActive, clients, media, push, pushRunning>>
    /\ ControlUnchanged
StopPushThread ==
    /\ session = "stopPush"
    /\ pushRunning' = FALSE /\ pushCreated' = FALSE
    /\ IF pushCreated
          THEN session' = "join" /\ UNCHANGED <<conn, leaving>>
          ELSE DisconnectLeaving
    /\ UNCHANGED <<serviceActive, clients, media, push>>
    /\ ControlUnchanged

JoinPush ==
    /\ session = "join" /\ push = "ended"
    /\ push' = "none"
    /\ DisconnectLeaving
    /\ UNCHANGED <<serviceActive, clients, media, pushRunning, pushCreated>>
    /\ ControlUnchanged

\* ... and what the callbacks deferred is done.
DrainService ==
    /\ session = "drain" /\ Drained(Streaming)
    /\ session' = "off"
    /\ UNCHANGED <<conn, serviceActive, clients, pushVars, leaving>>
    /\ ControlUnchanged

Control ==
    \/ StartStream \/ StartService \/ StopStream \/ StopService
    \/ StopPushThread \/ JoinPush \/ DrainService

-----------------------------------------------------------------------------
Dispatch(h) ==
    /\ \/ OnConnAccepted(h) \/ OnConnError(h) \/ OnDisconnected(h) \/ SdkCloses(h)
    /\ UNCHANGED streamVars

\* main(): the arbiter has ended the stream when the runtime is stopped.
Runtime ==
    /\ \/ OnEvent \/ RuntimeWorker \/ RuntimeStart \/ WaitStarted
       \/ session = "off" /\ RuntimeStop
       \/ WaitBarrier \/ StopSdk \/ Uninit \/ StopGuards
    /\ UNCHANGED streamVars

Next ==
    \/ \E h \in Handles : Dispatch(h) \/ Handler(h) \/ SendFails(h)
    \/ Runtime \/ Worker \/ Control
    \/ LeaveLoop \/ EndPush

Spec == Init /\ [][Next]_vars

(* Every thread goes on when it can.  A thread that waits on a condition of  *)
(* a guard is woken each time the condition becomes true, and gets the lock  *)
(* some time if that happens again and again: strong fairness for the waits. *)
(* Nobody owes the process a new connection, an error or a new session.      *)
Fairness ==
    /\ \A h \in Handles :
          /\ WF_vars(Handler(h))
          /\ WF_vars(OnDisconnected(h) /\ UNCHANGED streamVars)
    /\ SF_vars(Worker)
    /\ SF_vars(RuntimeWorker /\ UNCHANGED streamVars)
    /\ WF_vars(OnEvent /\ UNCHANGED streamVars)
    /\ SF_vars((WaitBarrier \/ StopSdk \/ Uninit \/ StopGuards) /\ UNCHANGED streamVars)
    /\ WF_vars(pushRunning = FALSE /\ LeaveLoop) /\ WF_vars(EndPush)
    /\ WF_vars(StopService) /\ WF_vars(StopPushThread)
    /\ WF_vars(JoinPush) /\ SF_vars(DrainService)

FairSpec == Spec /\ Fairness

-----------------------------------------------------------------------------
(* Safety. *)

\* stream_service_stop returns when nothing of the session is left: no client,
\* no push thread, no open media source and no client half accepted, whatever
\* callbacks and accepts it overtook.  What a late callback adds afterwards is
\* refused, so this stays until the next start.
StoppedIsQuiet ==
    session = "off" =>
        /\ clients = NoClients
        /\ push = "none" /\ media = "closed"
        /\ accepting \notin {"ensure", "join", "open", "opened", "activate",
                             "subscribed", "refuse"}

\* TiRtcStop and TiRtcUninit are called when no callback is inside the service
\* and nothing it deferred is left, also when SYS_STOPPED never comes: what the
\* barriers of tirtc_runtime_stop are for.  (The runtime's own guard may get a
\* last disconnect between its last barrier and TiRtcUninit.)
NothingInTheService ==
    /\ \A h \in Handles : callback[h] = "none"
    /\ Drained(Streaming)

BarriersHold ==
    [][StopSdk \/ Uninit => NothingInTheService]_vars

\* No wait of a stop waits for ever: for its own worker, for a push thread, or
\* for the callbacks its own disconnects cause.  (Only new connections without
\* end could keep the guard of the runtime busy while it is stopped.)
StopsEnd ==
    <>[][\A h \in Handles : conn[h] = "free" => conn'[h] # "open"]_vars =>
        /\ (session = "deactivated") ~> (session = "off")
        /\ (halt = "callbacks") ~> (halt = "down")
=============================================================================
