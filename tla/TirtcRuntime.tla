---------------------------- MODULE TirtcRuntime ----------------------------
(***************************************************************************)
(* The process-wide TiRTC runtime of the C device reference                *)
(* (device-sim-c/src/tirtc_runtime.c): the one callback table the SDK      *)
(* knows, the table that binds a connection to the service and generation  *)
(* that was active when it appeared, and the start and stop of the SDK.    *)
(*                                                                         *)
(* A callback is two steps here.  The first enters the runtime's guard and *)
(* looks the handler up under the runtime lock; the second, in the module  *)
(* of the service, is the handler.  Other threads run in between: that is  *)
(* the window in which the code has copied the handler and released the    *)
(* lock.  A callback without a handler is over in its first step.          *)
(*                                                                         *)
(* The SDK is external and modelled from tiRTC.h as the code uses it:      *)
(* callbacks of one connection are serial, those of different connections  *)
(* overlap; TiRtcDisconnect is asynchronous and ends in on_disconnected,   *)
(* after which the handle may be used for a new connection; nothing is     *)
(* called back after TiRtcUninit.  The live stream is the only service     *)
(* here; the others are the times at which no stream generation is active. *)
(* The 32 entries of the table cannot fill: the SDK keeps 4 connections    *)
(* and on_disconnected clears the entry.                                   *)
(***************************************************************************)
EXTENDS SdkCallbackGuard, FiniteSets

CONSTANTS
    Handles,         \* connection handles (TIRTC_OPT_MAX_CONNECTIONS of them)
    MaxGeneration    \* bound: values of next_generation

ASSUME HandlesAssumption == IsFiniteSet(Handles)
ASSUME MaxGenerationAssumption == MaxGeneration \in Nat

VARIABLES
    sdk,           \* the SDK: off, starting, started, stopping or stopped
    conn,          \* the SDK's state of each handle
    callback,      \* the callback in progress on each handle
    guard,         \* callback_guard of the runtime and of the stream service
    started,       \* s_runtime.started
    stopped,       \* s_runtime.stopped
    activeGen,     \* s_runtime.active_generation of the stream, 0: NONE
    generation,    \* s_runtime.next_generation
    bound,         \* s_runtime.connections: handle -> generation, 0: no entry
    halt           \* progress of tirtc_runtime_start and tirtc_runtime_stop

sdkVars == <<sdk, conn>>
sessionVars == <<activeGen, generation>>
runtimeVars == <<sdkVars, callback, guard, started, stopped, sessionVars,
                 bound, halt>>

-----------------------------------------------------------------------------
Task == [do : {"accept", "disconnect"}, h : Handles]
DisconnectTask(h) == [do |-> "disconnect", h |-> h]

HaltStep == {"new", "starting", "up", "callbacks", "services", "callbacksAgain",
             "stopSdk", "stopping", "lateServices",
             "lastCallbacks", "uninit", "guards", "down"}

RuntimeTypeOK ==
    /\ sdk \in {"off", "starting", "started", "stopping", "stopped"}
    /\ conn \in [Handles -> {"free", "open", "broken", "closing"}]
    /\ callback \in [Handles -> {"none", "accepted", "error", "disconnected"}]
    /\ DOMAIN guard = {"runtime", "stream"}
    /\ \A g \in DOMAIN guard : guard[g] \in Guard(Task, Cardinality(Handles))
    /\ started \in BOOLEAN /\ stopped \in BOOLEAN
    /\ activeGen \in 0..MaxGeneration /\ generation \in 0..MaxGeneration
    /\ bound \in [Handles -> 0..MaxGeneration]
    /\ halt \in HaltStep

\* The stream service has registered, which starts its guard.
RuntimeInit ==
    /\ sdk = "off" /\ conn = [h \in Handles |-> "free"]
    /\ callback = [h \in Handles |-> "none"]
    /\ guard = [g \in {"runtime", "stream"} |->
                   IF g = "stream" THEN GuardStart(NewGuard) ELSE NewGuard]
    /\ started = FALSE /\ stopped = FALSE
    /\ activeGen = 0 /\ generation = 0
    /\ bound = [h \in Handles |-> 0]
    /\ halt = "new"

-----------------------------------------------------------------------------
(* The SDK. *)

\* TiRtcDisconnect.  It fails on a handle that is closing or free.
Disconnected(c, h) == IF c[h] \in {"open", "broken"} THEN [c EXCEPT ![h] = "closing"] ELSE c

DisconnectedAll(c, hs) ==
    [h \in Handles |-> IF h \in hs THEN Disconnected(c, h)[h] ELSE c[h]]

\* TiRtcStop closes what is left; the application is only told.
SdkCloses(h) ==
    /\ sdk = "stopping" /\ conn[h] \in {"open", "broken"}
    /\ conn' = [conn EXCEPT ![h] = "closing"]
    /\ UNCHANGED <<sdk, callback, guard, started, stopped, sessionVars, bound, halt>>

\* TIRTC_EVENT_SYS_STARTED and TIRTC_EVENT_SYS_STOPPED.
OnEvent ==
    /\ \/ /\ sdk = "starting" /\ sdk' = "started"
          /\ started' = TRUE /\ stopped' = FALSE
       \/ /\ sdk = "stopping" /\ sdk' = "stopped"
          /\ started' = FALSE /\ stopped' = TRUE
    /\ UNCHANGED <<conn, callback, guard, sessionVars, bound, halt>>

-----------------------------------------------------------------------------
(* Callbacks: the dispatcher. *)

SdkMayCall(h) == sdk \in {"started", "stopping"} /\ callback[h] = "none"

\* _current_handler: the entry's generation is the active one.
Current(h) == started /\ bound[h] # 0 /\ bound[h] = activeGen

Select(h, kind) ==
    /\ callback' = [callback EXCEPT ![h] = kind]
    /\ guard' = [guard EXCEPT !["runtime"] = Enter(@)]

\* _defer_stale_disconnect, and the callback has returned.
DisconnectLater(h) ==
    /\ guard' = [guard EXCEPT !["runtime"] =
                     IF started THEN Defer(@, DisconnectTask(h)) ELSE @]
    /\ UNCHANGED callback

\* _on_conn_accepted
OnConnAccepted(h) ==
    /\ SdkMayCall(h) /\ sdk = "started" /\ conn[h] = "free"
    /\ conn' = [conn EXCEPT ![h] = "open"]
    /\ IF started /\ activeGen # 0
          THEN /\ bound' = [bound EXCEPT ![h] = activeGen]
               /\ Select(h, "accepted")
          ELSE /\ DisconnectLater(h)
               /\ UNCHANGED bound
    /\ UNCHANGED <<sdk, started, stopped, sessionVars, halt>>

\* _on_conn_error
OnConnError(h) ==
    /\ SdkMayCall(h) /\ conn[h] = "open"
    /\ conn' = [conn EXCEPT ![h] = "broken"]
    /\ IF Current(h) THEN Select(h, "error") ELSE DisconnectLater(h)
    /\ UNCHANGED <<sdk, started, stopped, sessionVars, bound, halt>>

\* _on_disconnected: the entry goes even when nobody is told.
OnDisconnected(h) ==
    /\ SdkMayCall(h) /\ conn[h] = "closing"
    /\ bound' = [bound EXCEPT ![h] = 0]
    /\ IF Current(h)
          THEN Select(h, "disconnected") /\ UNCHANGED conn
          ELSE /\ conn' = [conn EXCEPT ![h] = "free"]
               /\ UNCHANGED <<callback, guard>>
    /\ UNCHANGED <<sdk, started, stopped, sessionVars, halt>>

\* The runtime's worker.  Its tasks are single calls, so a task is one step.
RuntimeWorker ==
    /\ CanTake(guard["runtime"])
    /\ conn' = Disconnected(conn, Head(guard["runtime"].queue).h)
    /\ guard' = [guard EXCEPT !["runtime"] = Finish(Take(@))]
    /\ UNCHANGED <<sdk, callback, started, stopped, sessionVars, bound, halt>>

-----------------------------------------------------------------------------
(* Sessions: called by the product with the coordinator's lock held. *)

\* tirtc_runtime_activate
Activate ==
    /\ started /\ activeGen = 0 /\ generation < MaxGeneration
    /\ generation' = generation + 1
    /\ activeGen' = generation'
    /\ UNCHANGED <<sdkVars, callback, guard, started, stopped, bound, halt>>

\* tirtc_runtime_deactivate; active_generation is unused while NONE is active.
\* (Generations are compared for equality only: the bound counts sessions.)
Deactivate ==
    /\ activeGen # 0
    /\ activeGen' = 0
    /\ UNCHANGED <<sdkVars, callback, guard, started, stopped, generation, bound, halt>>

-----------------------------------------------------------------------------
(* tirtc_runtime_start and tirtc_runtime_stop, called by main(). *)

RuntimeStart ==
    /\ halt = "new"
    /\ guard' = [g \in DOMAIN guard |-> GuardStart(guard[g])]
    /\ \/ halt' = "starting" /\ sdk' = "starting"          \* TiRtcStart
       \/ halt' = "uninit" /\ UNCHANGED sdk                 \* a step failed
    /\ UNCHANGED <<conn, callback, started, stopped, sessionVars, bound>>

\* _wait_started; a timeout or a signal stops the runtime again.
WaitStarted ==
    /\ halt = "starting"
    /\ \/ started /\ halt' = "up"
       \/ ~started /\ halt' = "callbacks"
    /\ UNCHANGED <<sdkVars, callback, guard, started, stopped, sessionVars, bound>>

\* The first lines of tirtc_runtime_stop.
RuntimeStop ==
    /\ halt = "up"
    /\ halt' = "callbacks" /\ activeGen' = 0
    /\ UNCHANGED <<sdkVars, callback, guard, started, stopped, generation, bound>>

\* The barriers, in the order of the code.  _wait_stopped delays the fourth
\* one by up to 8 seconds and decides nothing: the stop goes on without the
\* event.
BarrierMutant(step, g, next) ==
    halt = step /\ halt' = next /\ (step = "callbacks" \/ Drained(guard[g]))
Barrier(step, g, next) == halt = step /\ Drained(guard[g]) /\ halt' = next

WaitBarrier ==
    /\ \/ Barrier("callbacks", "runtime", "services")
       \/ Barrier("services", "stream", "callbacksAgain")
       \/ Barrier("callbacksAgain", "runtime", "stopSdk")
       \/ Barrier("stopping", "runtime", "lateServices")
       \/ Barrier("lateServices", "stream", "lastCallbacks")
       \/ Barrier("lastCallbacks", "runtime", "uninit")
    /\ UNCHANGED <<sdkVars, callback, guard, started, stopped, sessionVars, bound>>

\* TiRtcStop.
StopSdk ==
    /\ halt = "stopSdk" /\ halt' = "stopping"
    /\ sdk' = "stopping"
    /\ UNCHANGED <<conn, callback, guard, started, stopped, sessionVars, bound>>

\* TiRtcUninit: no callback begins any more.
Uninit ==
    /\ halt = "uninit" /\ halt' = "guards"
    /\ sdk' = "off"
    /\ UNCHANGED <<conn, callback, guard, started, stopped, sessionVars, bound>>

\* The last wait of the runtime's guard, then every guard is stopped, which
\* waits for it, and the table is cleared.
StopGuards ==
    /\ halt = "guards" /\ halt' = "down"
    /\ \A g \in DOMAIN guard : Drained(guard[g])
    /\ guard' = [g \in DOMAIN guard |-> GuardStop(guard[g])]
    /\ conn' = [h \in Handles |-> "free"]
    /\ started' = FALSE /\ bound' = [h \in Handles |-> 0]
    /\ UNCHANGED <<sdk, callback, stopped, sessionVars>>
=============================================================================
