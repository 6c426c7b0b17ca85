------------------------------ MODULE MCServers ------------------------------
(***************************************************************************)
(* One run for a device's identity and its life: whose it is on the server *)
(* (DeviceBinding), whether the server holds it online (DevicePresence),   *)
(* and the device's own process from start to end with the file it keeps   *)
(* its identity in (DeviceProcess).  The three share no state here; `part` *)
(* is drawn at the start, and the others stay as they were.                *)
(*                                                                         *)
(* The binding has one device, which comes without an identity or with one *)
(* from the factory, and a second id in the pool.                          *)
(***************************************************************************)
EXTENDS DeviceBinding, TLC

CONSTANTS
    m1, d1, d2,                                             \* DeviceBinding
    Servers, Ttl, MaxSessions, MaxStarts, MaxUnbinds, MaxLost,  \* DevicePresence
    Identities, None, Half, Torn, MaxBoots                  \* DeviceProcess

\* The id that a factory burns in comes later in the pool.
Pool == <<d2, d1>>
Either == {m1 :> NoId, m1 :> d1}

VARIABLES
    part,      \* "binding", "presence" or "process"
    \* DevicePresence
    main, stop, beat, up, token, sess, sessions, mail, known, age, bound,
    reset, notice, starts, unbinds, lost, good, gone,
    \* DeviceProcess
    pc, todo, then, alive, running, told, ending, opened, roomOn, attempt, given, cred,
    origin, temp, file, solid, durable, boots

Presence == INSTANCE DevicePresence WITH made <- sessions, online <- known

Process == INSTANCE DeviceProcess WITH Ids <- Identities, stop <- ending

ASSUME PresenceHolds == Presence!PresenceAssumption
ASSUME ProcessHolds == Process!ProcessAssumption

presenceVars == <<main, stop, beat, up, token, sess, sessions, mail, known, age, bound,
                  reset, notice, starts, unbinds, lost, good, gone>>

processVars == <<pc, todo, then, alive, running, told, ending, opened, roomOn, attempt,
                 given, cred, origin, temp, file, solid, durable, boots>>

\* What a part draws at its own start, the others leave at one value.
ServersInit ==
    /\ part \in {"binding", "presence", "process"}
    /\ Init /\ Presence!Init /\ Process!Init
    /\ part # "binding" => flash = [m \in Boards |-> NoId]
    /\ part # "process" => given = None

ServersNext ==
    \/ part = "binding" /\ Next /\ UNCHANGED <<part, presenceVars, processVars>>
    \/ part = "presence" /\ Presence!Next /\ UNCHANGED <<part, vars, processVars>>
    \/ part = "process" /\ Process!Next /\ UNCHANGED <<part, vars, presenceVars>>

ServersSpec == ServersInit /\ [][ServersNext]_<<part, vars, presenceVars, processVars>>

\* Users, requests and servers are only compared for equality.
Alike == Permutations(Users) \cup Permutations(Reqs) \cup Permutations(Servers)

-----------------------------------------------------------------------------
\* The properties of the other parts, under names of their own.

(* The server holds a device online while its connection is up and well, and  *)
(* not long after it went (DevicePresence).                                   *)
PresenceFollows == Presence!KnownWhenUp /\ Presence!UnknownWhenGone

NothingOutlivesWhatItUses == Process!NothingOutlivesWhatItUses
IdentityIsKept == Process!IdentityIsKept
=============================================================================
