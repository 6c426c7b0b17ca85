------------------------- MODULE SessionCoordinator -------------------------
(***************************************************************************)
(* The session coordinator of the C device reference                       *)
(* (device-sim-c/src/session_coordinator.c): the only code that stops one  *)
(* TiRTC business adapter and starts another.  It makes no policy; the     *)
(* SessionArbiter decides which transition it performs.                    *)
(*                                                                         *)
(* Every function of the component runs under its own mutex, so at most    *)
(* one call is inside it; the variable call is that call.  A call is cut   *)
(* into steps where the code leaves for the product or the SDK (resource   *)
(* acquisition, adapter start), because other threads run meanwhile.       *)
(***************************************************************************)
EXTENDS Naturals, FiniteSets

CONSTANTS
    Kinds,         \* the foreground kinds of SessionKind in use
    MaxFailures    \* bound: failures of resources and adapters per behaviour

ASSUME KindsAssumption ==
    /\ Kinds \subseteq {"VOIP", "AI", "CALL", "ROOM"}
    /\ Kinds # {}
ASSUME MaxFailuresAssumption == MaxFailures \in Nat

VARIABLES
    current,       \* SessionCoordinator.current, "NONE" when nothing runs
    sealed,        \* SessionCoordinator.closed
    held,          \* businesses whose product resource is acquired
    running,       \* adapters whose start returned 0 and stop was not called
    failures,      \* failures injected so far
    call           \* the call inside the component

coordinatorVars == <<current, sealed, held, running, failures, call>>

Business == Kinds \cup {"STREAM"}
Operation == {"none", "begin", "finish", "stream", "shutdown"}

Call == [op : Operation,
         pc : {"idle", "enter", "acquire", "adapter", "returned"},
         target : Business \cup {"NONE"},
         rc : {"ok", "failed"}]

NoCall == [op |-> "none", pc |-> "idle", target |-> "NONE", rc |-> "ok"]

\* A caller enters the component; op and target are the function and its kind.
Invocation(op, target) ==
    [op |-> op, pc |-> "enter", target |-> target, rc |-> "ok"]

\* main() has started the stream before any thread can reach the component.
CoordinatorInit ==
    /\ current = "STREAM"
    /\ sealed = FALSE
    /\ held = {"STREAM"}
    /\ running = {"STREAM"}
    /\ failures = 0
    /\ call = NoCall

-----------------------------------------------------------------------------
Return(rc) == call' = [call EXCEPT !.pc = "returned", !.rc = rc]

\* _stop_locked: forget the current business, stop its adapter, release it.
StopCurrent ==
    /\ current' = "NONE"
    /\ running' = running \ {current}
    /\ held' = held \ {current}

StopThenStart(target) ==
    /\ StopCurrent
    /\ call' = [call EXCEPT !.pc = "acquire", !.target = target]

BeginRefused(kind) ==
    \/ sealed
    \/ current \notin {"NONE", "STREAM", "ROOM"}
    \/ current = kind

\* session_coordinator_begin up to the start of the new adapter.
EnterBegin ==
    /\ call.op = "begin" /\ call.pc = "enter"
    /\ IF BeginRefused(call.target)
         THEN Return("failed") /\ UNCHANGED <<current, held, running>>
         ELSE StopThenStart(call.target)
    /\ UNCHANGED <<sealed, failures>>

\* session_coordinator_finish_checked up to the start of the stream.
EnterFinish ==
    /\ call.op = "finish" /\ call.pc = "enter"
    /\ IF ~sealed /\ current = call.target
         THEN StopThenStart("STREAM")
         ELSE Return("ok") /\ UNCHANGED <<current, held, running>>
    /\ UNCHANGED <<sealed, failures>>

\* session_coordinator_start_stream up to the start of the stream.
EnterStream ==
    /\ call.op = "stream" /\ call.pc = "enter"
    /\ IF sealed \/ current = "STREAM"
         THEN /\ Return(IF sealed THEN "failed" ELSE "ok")
              /\ UNCHANGED <<current, held, running>>
         ELSE StopThenStart("STREAM")
    /\ UNCHANGED <<sealed, failures>>

\* session_coordinator_shutdown: once, stop whatever runs.
EnterShutdown ==
    /\ call.op = "shutdown" /\ call.pc = "enter"
    /\ IF sealed THEN UNCHANGED <<current, held, running>> ELSE StopCurrent
    /\ sealed' = TRUE
    /\ Return("ok")
    /\ UNCHANGED failures

\* _start_locked gave up.  begin then tries the stream once and returns the
\* failure whatever becomes of that; the other callers just return it.
StartFailed ==
    /\ failures < MaxFailures
    /\ failures' = failures + 1
    /\ IF call.op = "begin" /\ call.target # "STREAM" /\ ~sealed
         THEN call' = [call EXCEPT !.pc = "acquire", !.target = "STREAM",
                                   !.rc = "failed"]
         ELSE Return("failed")

\* device_resource_acquire returned.
ResourceAcquired ==
    /\ call.pc = "acquire"
    /\ held' = held \cup {call.target}
    /\ call' = [call EXCEPT !.pc = "adapter"]
    /\ UNCHANGED <<current, sealed, running, failures>>

ResourceDenied ==
    /\ call.pc = "acquire"
    /\ StartFailed
    /\ UNCHANGED <<current, sealed, held, running>>

\* adapter->start returned; a begin that fell back to the stream stays failed.
AdapterStarted ==
    /\ call.pc = "adapter"
    /\ running' = running \cup {call.target}
    /\ current' = call.target
    /\ Return(call.rc)
    /\ UNCHANGED <<sealed, held, failures>>

AdapterFailedMutant ==
    /\ call.pc = "adapter"
    /\ StartFailed
    /\ UNCHANGED <<current, sealed, held, running>>
AdapterFailed ==
    /\ call.pc = "adapter"
    /\ held' = held \ {call.target}
    /\ StartFailed
    /\ UNCHANGED <<current, sealed, running>>

CoordinatorNext ==
    \/ EnterBegin \/ EnterFinish \/ EnterStream \/ EnterShutdown
    \/ ResourceAcquired \/ ResourceDenied
    \/ AdapterStarted \/ AdapterFailed

CoordinatorTypeOK ==
    /\ current \in Business \cup {"NONE"}
    /\ sealed \in BOOLEAN
    /\ held \subseteq Business
    /\ running \subseteq Business
    /\ failures \in 0..MaxFailures
    /\ call \in Call
    /\ call.op = "begin" \/ call.pc \in {"acquire", "adapter"}
          => call.target \in Business
=============================================================================
