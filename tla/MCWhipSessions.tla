--------------------------- MODULE MCWhipSessions ---------------------------
(***************************************************************************)
(* One run for the two sessions that dial with TiRtcWhipConnect.  AI and   *)
(* VoIP never run at once (SessionArbiter), so a history is of the one or  *)
(* of the other: `kind` is drawn at the start, and what belongs to the     *)
(* other kind stays as it was.                                             *)
(***************************************************************************)
EXTENDS AiSession

CONSTANTS
    Own, Incoming,             \* the rooms of VoipSession
    VoipAttempts, VoipTasks    \* and its bounds

VARIABLES
    kind,      \* "ai" or "voip"
    \* the lease of VoipSession
    voipOwner, voipOwnerId, voipCancelled, voipTicket, voipEndAsked, voipTransition,
    \* and its own variables
    outgoing, outCall, outTimed, ignored, pending, activeRoom, voipAttempt,
    connecting, voipFresh, active, voipState, voipTimed, mediaStart, voipPush,
    voipServing, voipLink, voipBound, voipTasks, created, lapsed, hungUp, voipCmd,
    mqtt

Voip == INSTANCE VoipSession WITH
    MaxAttempts <- VoipAttempts, MaxTasks <- VoipTasks,
    owner <- voipOwner, ownerId <- voipOwnerId, cancelled <- voipCancelled,
    ticket <- voipTicket, endAsked <- voipEndAsked, transition <- voipTransition,
    attempt <- voipAttempt, fresh <- voipFresh, state <- voipState,
    timed <- voipTimed, push <- voipPush, serving <- voipServing,
    link <- voipLink, bound <- voipBound, tasks <- voipTasks, cmd <- voipCmd

ASSUME VoipAssumption == Voip!RoomsAssumption

voipVars == <<voipOwner, voipOwnerId, voipCancelled, voipTicket, voipEndAsked,
              voipTransition, outgoing, outCall, outTimed, ignored, pending,
              activeRoom, voipAttempt, connecting, voipFresh, active, voipState,
              voipTimed, mediaStart, voipPush, voipServing, voipLink, voipBound,
              voipTasks, created, lapsed, hungUp, voipCmd, mqtt>>

WhipInit == Init /\ Voip!Init /\ kind \in {"ai", "voip"}

WhipNext ==
    \/ kind = "ai" /\ Next /\ UNCHANGED <<kind, voipVars>>
    \/ kind = "voip" /\ Voip!Next /\ UNCHANGED <<kind, vars>>

WhipSpec == WhipInit /\ [][WhipNext]_<<kind, vars, voipVars>>

-----------------------------------------------------------------------------
\* The properties of VoipSession, under names of their own.
VoipHeldIsWatched == Voip!HeldSessionIsWatched
VoipTimedOutStaysDown == Voip!TimedOutDialStaysDown
=============================================================================
