-------------------------- MODULE SessionOwnership --------------------------
(***************************************************************************)
(* What the session arbiter promises its callers, without locks, queues,   *)
(* tickets or adapters (thing-connect/device-session-arbiter.md,           *)
(* sections 4, 6 and 8): one owner at a time, a new term for every owner,  *)
(* and a session that has started loses the runtime only                   *)
(*   - after somebody asked to end that very term,                         *)
(*   - to a foreground session when it is the low-priority room, or        *)
(*   - because the device shuts down.                                      *)
(***************************************************************************)
EXTENDS Naturals

CONSTANT Kinds

VARIABLES
    holder,    \* the kind that owns the runtime, or "NONE"
    term,      \* counts the owners there have been
    phase,     \* "free", "starting" or "running"
    endAsked,  \* somebody asked to end the term
    shut       \* the device is shutting down

vars == <<holder, term, phase, endAsked, shut>>

Init ==
    /\ holder = "NONE" /\ phase = "free"
    /\ term = 0
    /\ endAsked = FALSE
    /\ shut = FALSE

Grant(kind) ==
    /\ ~shut
    /\ phase = "free" \/ (holder = "ROOM" /\ kind # "ROOM")
    /\ holder' = kind /\ phase' = "starting"
    /\ term' = term + 1
    /\ endAsked' = FALSE
    /\ UNCHANGED shut

Confirm ==
    /\ phase = "starting" /\ phase' = "running"
    /\ UNCHANGED <<holder, term, endAsked, shut>>

AskToEnd ==
    /\ endAsked' = TRUE
    /\ UNCHANGED <<holder, term, phase, shut>>

Vacate == holder' = "NONE" /\ phase' = "free" /\ UNCHANGED term

\* The start failed, or was cancelled before it was confirmed.
Withdraw ==
    /\ phase = "starting"
    /\ Vacate
    /\ UNCHANGED <<endAsked, shut>>

Release ==
    /\ phase = "running"
    /\ endAsked' = TRUE
    /\ Vacate
    /\ UNCHANGED shut

Shut ==
    /\ shut' = TRUE
    /\ Vacate
    /\ UNCHANGED endAsked

Next ==
    \/ \E kind \in Kinds : Grant(kind)
    \/ Confirm \/ AskToEnd \/ Withdraw \/ Release \/ Shut

Spec == Init /\ [][Next]_vars
=============================================================================
