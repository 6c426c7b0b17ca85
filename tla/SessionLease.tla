---------------------------- MODULE SessionLease -----------------------------
(***************************************************************************)
(* The session arbiter as one foreground session sees it (main.c over      *)
(* session_arbiter.c): one owner, one ticket for a call that rings, and at *)
(* most one queued request to end the owner's generation.  SessionArbiter  *)
(* has the real one; here a begin is one step, and a generation is one     *)
(* holding of the owner.                                                   *)
(***************************************************************************)

CONSTANT NoRoom

VARIABLES
    owner,         \* "HELD" while this kind of session is the owner
    ownerId,       \* owner_session_id
    cancelled,     \* owner_cancelled
    ticket,        \* pending_session_id, NoRoom without a ticket
    endAsked,      \* a finish of the owner's generation is queued
    transition     \* who holds transition_lock, and how far the stop is

arbiterVars == <<owner, ownerId, cancelled, ticket, endAsked, transition>>

LeaseTypeOK(owned, offered) ==
    /\ owner \in {"NONE", "HELD"} /\ ownerId \in owned \cup {NoRoom}
    /\ cancelled \in BOOLEAN /\ ticket \in offered \cup {NoRoom}
    /\ endAsked \in BOOLEAN
    /\ transition \in {"free", "action", "stop", "drain"}

LeaseInit ==
    /\ owner = "NONE" /\ ownerId = NoRoom /\ cancelled = FALSE
    /\ ticket = NoRoom /\ endAsked = FALSE /\ transition = "free"

\* session_arbiter_begin_id_ex has its owner.
Hold(id) ==
    /\ owner' = "HELD" /\ ownerId' = id /\ cancelled' = FALSE
    /\ endAsked' = FALSE
    /\ UNCHANGED transition

\* The owner goes, and the stop of its service begins.
Release ==
    /\ owner' = "NONE" /\ ownerId' = NoRoom /\ cancelled' = FALSE
    /\ endAsked' = FALSE /\ transition' = "stop"
    /\ UNCHANGED ticket

\* _finish_call and _finish_kind: the lease they copy is the current one.
EndSession == endAsked' = (endAsked \/ owner = "HELD")

\* session_arbiter_cancel_id and, when it answers 2, _finish_kind.
CancelId(r) ==
    IF ticket = r
       THEN ticket' = NoRoom /\ UNCHANGED <<cancelled, endAsked>>
       ELSE /\ UNCHANGED ticket
            /\ IF owner = "HELD" /\ ownerId = r
                  THEN cancelled' = TRUE /\ endAsked' = TRUE
                  ELSE UNCHANGED <<cancelled, endAsked>>

\* session_arbiter_clear_pending_id: the same, but nobody asks for the end.
ClearPendingId(r) ==
    IF ticket = r
       THEN ticket' = NoRoom /\ UNCHANGED cancelled
       ELSE /\ UNCHANGED ticket
            /\ cancelled' = (cancelled \/ (owner = "HELD" /\ ownerId = r))
=============================================================================
