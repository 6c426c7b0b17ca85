----------------------------- MODULE MCCallMedia -----------------------------
(***************************************************************************)
(* One run for what surrounds the signalling of a device call: what the    *)
(* call sends and receives (CallMedia), what any business hands to the     *)
(* product's media sink (Downlink), and the ring of busy rejections, which *)
(* WeChat calls have too (RejectQueue).  They share no state: `part` is    *)
(* drawn at the start, the other parts stay as they were.                  *)
(***************************************************************************)
EXTENDS CallMedia, TLC

CONSTANTS
    Businesses, RoomCap, MaxSessions, GuardCap,   \* Downlink
    Capacity, Calls                               \* RejectQueue

Both == {"audio", "video"}
Handled == {"ok", "busy", "fatal"}
AllBusinesses == {"stream", "ai", "voip", "call", "room"}
Connections == Permutations(Handles)

VARIABLES
    part,      \* "call", "sink" or "reject"
    \* Downlink
    business, session, generation, links, made, clients, frames, guard, flushing,
    epoch, heardQueue, mediaWorker, sink, refused,
    \* RejectQueue
    slots, head, count, active, stop, rejecter, held, next, main, accepted, taken, posted

Down == INSTANCE Downlink WITH link <- links
Ring == INSTANCE RejectQueue WITH worker <- rejecter

ASSUME PartsAssumption ==
    /\ Down!DownlinkAssumption /\ Down!GuardCapAssumption
    /\ Ring!QueueAssumption

sinkVars == <<business, session, generation, links, made, clients, frames, guard,
              flushing, epoch, heardQueue, mediaWorker, sink, refused>>
rejectVars == <<slots, head, count, active, stop, rejecter, held, next, main,
                accepted, taken, posted>>

MediaInit ==
    /\ part \in {"call", "sink", "reject"}
    /\ Init /\ Down!DownInit /\ Ring!Init
    /\ part # "sink" => business = "call"
    /\ part # "reject" => rejecter = "none"

MediaNext ==
    \/ part = "call" /\ Next /\ UNCHANGED <<part, sinkVars, rejectVars>>
    \/ part = "sink" /\ Down!DownNext /\ UNCHANGED <<part, vars, rejectVars>>
    \/ part = "reject" /\ Ring!Next /\ UNCHANGED <<part, vars, sinkVars>>

MediaSpec == MediaInit /\ [][MediaNext]_<<part, vars, sinkVars, rejectVars>>

-----------------------------------------------------------------------------
\* What comes is what was asked for, and the product hears it as long as the
\* session lasts and no longer.
HearsWhatItAsked ==
    /\ part = "call" => ReceivesWhatItAsked
    /\ part = "sink" => Down!SinkIsSound

\* The ring of busy rejections, with its indices, is a queue that loses no call.
ImplementsFifo == Ring!ImplementsFifo
=============================================================================
