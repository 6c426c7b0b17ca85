---------------------------- MODULE CallSession -----------------------------
(***************************************************************************)
(* The session of a device call (device-sim-c/src/call_session.c, and the  *)
(* MQTT handlers at the end of tirtc_call.c): the call that rings here,    *)
(* the call that is active, the ring timer, and the requests to the call   *)
(* server, on top of CallTransport.  Three threads share it: the command   *)
(* thread, MQTT's thread and the guard's worker; the ring timers are       *)
(* threads of their own, and a join of one waits for it to end.            *)
(*                                                                         *)
(* A step is one critical section of cs->lock with what the thread does    *)
(* unseen around it; a request to the server ends its step.  The session   *)
(* arbiter is the one of SessionLease.                                     *)
(***************************************************************************)
EXTENDS CallTransport, FiniteSets

CONSTANT MaxOffers      \* bound: values of incoming_generation

ASSUME MaxOffersAssumption == MaxOffers \in Nat

VARIABLES
    active,        \* room_id while cs->active, else NoRoom
    pending,       \* pending_room_id while cs->pending_call, else NoRoom
    offer,         \* pending_generation: counts the calls that rang
    answered,      \* active_generation: the offer the active call answers, else 0
    withdrawn,     \* history: the offers cancelled, rejected or expired
    ringing,       \* ring_timer_running
    ringThread,    \* ring_timer_thread while it is created, by its room
    timer,         \* the ring timer threads, by the room they started with
    joining,       \* the timer each thread is joining
    created,       \* rooms the server has made for this device
    cmd, mqtt, worker

callVars == <<active, pending, offer, answered, withdrawn>>
timerVars == <<ringing, ringThread, timer, joining>>
threadVars == <<cmd, mqtt, worker>>
sessionVars == <<callVars, timerVars, created, arbiterVars, threadVars>>

Threads == {"cmd", "mqtt", "worker"}
MaybeRoom == Rooms \cup {NoRoom}

-----------------------------------------------------------------------------
(* The ring timer. *)

\* call_session_cancel_ring_timer: tell it to stop and join it.
CancelTimer(t) ==
    /\ ringing' = FALSE
    /\ joining' = [joining EXCEPT ![t] = ringThread]
    /\ ringThread' = NoRoom
    /\ UNCHANGED timer

Joined(t) == \A r \in Outgoing : joining[t] = r => timer[r] = "none"
Unjoin(t) == joining' = [joining EXCEPT ![t] = NoRoom]

\* call_session_start_ring_timer, when the old one is joined.  (A thread that
\* cannot be created leaves the call without a timer: not modelled.)
CreateTimerMutant(r) ==
    /\ ringThread' = r /\ UNCHANGED ringing
    /\ timer' = [timer EXCEPT ![r] = "ticking"]
CreateTimer(r) ==
    /\ ringing' = TRUE /\ ringThread' = r
    /\ timer' = [timer EXCEPT ![r] = "ticking"]

timerFrame == <<callVars, ringThread, joining, created, owner, ownerId, cancelled,
                ticket, transition, threadVars>>

\* One tick: the loop's test.  It looks for any active call.
TimerStops(r) ==
    /\ timer[r] = "ticking" /\ (~ringing \/ active = NoRoom)
    /\ timer' = [timer EXCEPT ![r] = "none"]
    /\ UNCHANGED <<timerFrame, ringing, endAsked, transportVars>>

\* 30 ticks have passed: POST /v1/call/cancel, without a further look.
TimerExpires(r) ==
    /\ timer[r] = "ticking" /\ ringing /\ active # NoRoom
    /\ timer' = [timer EXCEPT ![r] = "posting"]
    /\ UNCHANGED <<timerFrame, ringing, endAsked, transportVars>>

TimerClears(r) ==
    /\ timer[r] = "posting" /\ timer' = [timer EXCEPT ![r] = "ending"]
    /\ expected' = NoRoom
    /\ UNCHANGED <<timerFrame, ringing, endAsked, serving, linkVars, connVars,
                   attempt, media, tasks, control>>

\* The last critical section: end the call if it is still this one.
TimerEnds(r) ==
    /\ timer[r] = "ending" /\ timer' = [timer EXCEPT ![r] = "none"]
    /\ ringing' = FALSE
    /\ IF active = r
          THEN active' = NoRoom /\ answered' = 0 /\ EndSession
          ELSE UNCHANGED <<active, answered, endAsked>>
    /\ UNCHANGED <<pending, offer, withdrawn, ringThread, joining, created, owner, ownerId,
                   cancelled, ticket, transition, threadVars, transportVars>>

RingTimer(r) == TimerStops(r) \/ TimerExpires(r) \/ TimerClears(r) \/ TimerEnds(r)
=============================================================================
