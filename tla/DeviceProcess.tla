---------------------------- MODULE DeviceProcess ----------------------------
(***************************************************************************)
(* The device's process from its first line to its last:                   *)
(* device_reference_run (device-sim-c/src/main.c) with the identity file   *)
(* (linux_device_adapter.c), and the order in which the parts of the       *)
(* device are made, started, stopped and freed.  Every step may fail, and  *)
(* each failure has a clean-up of its own; SIGINT and the command `exit`   *)
(* come at any time; the process may be killed and the power lost.         *)
(*                                                                         *)
(* What the parts do is the subject of the other modules.  Here they are   *)
(* memory that exists (`alive`) and threads that run (`running`) and reach *)
(* into that memory; a join waits until the thread has seen that it is     *)
(* told to end.                                                            *)
(***************************************************************************)
EXTENDS Naturals, FiniteSets, Sequences, SequencesExt

CONSTANTS
    Ids,       \* the identities (device_id, device_key) of the server
    None,      \* no identity
    Half,      \* a device_id without its key
    Torn,      \* a file that is not the JSON of an identity
    MaxBoots   \* bound: starts of the process

ProcessAssumption ==
    /\ {None, Half, Torn} \cap Ids = {} /\ Cardinality({None, Half, Torn}) = 3
    /\ MaxBoots \in Nat

Objects == {"voip", "ai", "call", "room", "runtime", "coordinator", "arbiter", "leases"}
Sessions == {"voip", "ai", "call", "room"}

\* The threads, and the memory each works on.
Uses == [
    callers    |-> {"voip"},                         \* voip_refresh_callers_worker
    rejectVoip |-> {"voip"},
    rejectCall |-> {"call"},
    ring       |-> {"call", "arbiter", "leases"},    \* its expiry ends the session
    sdk        |-> {"runtime"},                      \* callbacks, while no business is active
    deferred   |-> Objects,                          \* the guards' workers, for a business
    lifecycle  |-> Objects \ {"leases"},
    business   |-> Objects,                          \* the media threads of the session
    control    |-> {"room", "runtime", "arbiter", "coordinator"},
    media      |-> {"room", "runtime"},
    cmd        |-> Objects,
    network    |-> Objects,                          \* libmosquitto's, runs the MQTT handlers
    heartbeat  |-> {}]
Threads == DOMAIN Uses

VARIABLES
    pc,        \* where the main thread is
    todo,      \* what is left of a clean-up
    then,      \* what follows it: a return with "0" or "1", or "commands"
    alive,     \* the memory that exists
    running,   \* the threads that run
    told,      \* those that main has told to end and waits for
    stop,      \* g_stop
    opened,    \* "yes" from the first stream to the shutdown of the arbiter
    roomOn,    \* room_start gave the room its arbiter
    attempt,   \* of the profile report
    given,     \* the identity on the command line
    cred,      \* did, dkey
    origin,    \* "known", "granted" or, after error 6006, "rebound"
    temp,      \* <path>.tmp: "none", "empty", "written", "synced"
    file,      \* the credentials file as the process sees it
    solid,     \* its contents were synced before it got its name
    durable,   \* what the medium has under that name
    boots

memory == <<alive, running, told, opened, roomOn>>
disk == <<temp, file, solid, durable>>
identity == <<given, cred, origin>>
vars == <<pc, todo, then, memory, stop, attempt, identity, disk, boots>>

\* The phases of device_reference_run, in order.
Phases == {"install", "options", "media", "discover", "identity", "report", "grant",
           "save", "write", "sync", "rename", "token", "create", "configure", "register",
           "runtime", "wait", "coordinator", "arbiter", "profile", "stream", "room",
           "commands", "connect", "serve", "cleanup", "over"}

TypeOK ==
    /\ pc \in Phases /\ then \in {"0", "1", "commands"}
    /\ alive \subseteq Objects /\ running \subseteq Threads /\ told \subseteq Threads
    /\ opened \in {"no", "yes", "closed"} /\ {stop, roomOn, solid} \subseteq BOOLEAN
    /\ attempt \in 0..3 /\ boots \in 1..MaxBoots
    /\ {given, cred} \subseteq {None, Half} \cup Ids
    /\ origin \in {"known", "granted", "rebound"}
    /\ temp \in {"none", "empty", "written", "synced"}
    /\ {file, durable} \subseteq {None, Torn} \cup Ids

Init ==
    /\ pc = "install" /\ todo = <<>> /\ then = "1"
    /\ alive = {} /\ running = {} /\ told = {} /\ opened = "no" /\ roomOn = FALSE
    /\ stop = FALSE /\ attempt = 0
    /\ given \in {None, Half} \cup Ids /\ cred = None /\ origin = "known"
    /\ temp = "none" /\ file = None /\ solid = TRUE /\ durable = None /\ boots = 1

-----------------------------------------------------------------------------
\* What is stopped and freed, in order.  A record is one wait: main tells the
\* threads `ends` to end, waits until they have, and frees `frees`; it works
\* on `uses` itself.
Wait(ends, frees, uses) == <<[ends |-> ends, frees |-> frees, uses |-> uses]>>
Free(x) == Wait({}, {x}, {x})

\* Mutant: the VoIP session is freed before its queue of rejections is closed.
voip_destroyMutant == Wait({"callers"}, {"voip"}, {"voip"}) \o Wait({"rejectVoip"}, {}, {})
voip_destroy == Wait({"callers"}, {}, {"voip"}) \o Wait({"rejectVoip"}, {"voip"}, {"voip"})
ai_destroy == Free("ai")
call_destroy == Wait({"rejectCall"}, {}, {"call"}) \o Wait({"ring"}, {"call"}, {"call"})
\* Joins both workers and returns the owner to the arbiter, if it has one.
room_shutdown ==
    Wait({"control", "media"}, {}, {"room"} \cup IF roomOn THEN {"arbiter"} ELSE {})
room_destroy == room_shutdown \o Free("room")
\* The first time the coordinator stops the business; then the worker ends.
session_arbiter_shutdown ==
    Wait({"business"}, {},
         {"arbiter", "coordinator"} \cup IF opened = "no" THEN {} ELSE Objects)
        \o Wait({"lifecycle"}, {}, {"arbiter"})
session_arbiter_destroy == Wait({"lifecycle"}, {"arbiter"}, {"arbiter"})
tirtc_runtime_stop == Wait({"sdk", "deferred"}, {"runtime"}, {})
sessions_destroy == voip_destroy \o ai_destroy \o call_destroy \o room_destroy

\* The clean-up of each failure, and of the end of the process.
CleanUp(phase) ==
    CASE phase \in {"create", "configure", "runtime"} -> sessions_destroy
      [] phase \in {"register", "submitted"} -> tirtc_runtime_stop \o sessions_destroy
      [] phase = "coordinator" -> tirtc_runtime_stop \o Free("leases") \o sessions_destroy
      [] phase = "arbiter" ->
            session_arbiter_shutdown \o session_arbiter_destroy \o Free("coordinator")
                \o tirtc_runtime_stop \o Free("leases") \o sessions_destroy
      [] OTHER ->                                  \* "stream", "commands", "end"
            room_shutdown \o session_arbiter_shutdown \o tirtc_runtime_stop
                \o sessions_destroy \o session_arbiter_destroy
                \o Free("coordinator") \o Free("leases")

GoTo(next) == pc' = next /\ UNCHANGED <<todo, then>>
Return(value) == pc' = "over" /\ then' = value /\ UNCHANGED todo
Clean(waits, next) == pc' = "cleanup" /\ todo' = waits /\ then' = next
Fail(phase) == Clean(CleanUp(phase), "1")

-----------------------------------------------------------------------------
\* Adapter, options, media files, services.

\* Before the signal handlers are in place; a failure leaves nothing behind.
Before == UNCHANGED <<memory, stop, attempt, identity, disk, boots>>

\* device_product_adapter_install brings an adapter of the product's own, fails,
\* claims one that is not there, or leaves it to the default adapter.
Install ==
    /\ pc = "install"
    /\ \E own \in {"installed", "failed", "claimed", "not_handled"} :
          IF own \in {"installed", "not_handled"} THEN GoTo("options") ELSE Return("1")
    /\ Before

\* --help returns 0; an unknown option, and --insecure against the adapter's
\* will, return 1.
ParseOptions ==
    /\ pc = "options"
    /\ GoTo("media") \/ \E value \in {"0", "1"} : Return(value)
    /\ Before

\* The formats exist and the files open.
ValidateMedia ==
    /\ pc = "media"
    /\ GoTo("discover") \/ Return("1")
    /\ Before

\* Each field must be there and fit; the MQTT address has a scheme and a port.
Fields == {"device-srv", "voip-srv", "ai-srv", "call-srv", "mqtt-srv", "tirtc-srv"}
Fine == [f \in Fields |-> "fits"]
Replies == {Fine} \cup {[Fine EXCEPT ![f] = v] : f \in Fields, v \in {"missing", "bad"}}
device_services_parse_json(reply) == \A f \in Fields : reply[f] = "fits"

fetch_services ==
    /\ pc = "discover"
    /\ \/ \E reply \in Replies :
              IF device_services_parse_json(reply) THEN GoTo("identity") ELSE Return("1")
       \/ Return("1")                                   \* no answer, or not 200
    /\ Before

-----------------------------------------------------------------------------
\* The identity.

\* _linux_identity_load reads a file that is the JSON of an identity.
Stored == file \in Ids

\* What is not on the command line comes from the file; it is stored again.
Identify ==
    /\ pc = "identity"
    /\ cred' = IF given \notin Ids /\ Stored THEN file ELSE given
    /\ GoTo(IF cred' \in Ids THEN "save" ELSE "report")
    /\ UNCHANGED <<memory, stop, attempt, given, origin, disk, boots>>

\* report_device, with a code for the user.
Report ==
    /\ pc = "report"
    /\ Return("1") \/ GoTo("grant")
    /\ UNCHANGED <<memory, stop, attempt, identity, disk, boots>>

\* connect_temp_mqtt: the grant brings an identity or is empty.  When there is
\* none, a device that knows its id goes on all the same.
Granted ==
    /\ ~stop /\ cred' \in Ids \cup {cred}
    /\ origin' = IF origin = "known" THEN "granted" ELSE origin
    /\ GoTo(IF origin = "known" /\ cred' \in Ids THEN "save" ELSE "token")
NotGranted ==
    /\ IF origin = "known" /\ cred = Half THEN GoTo("token") ELSE Return("1")
    /\ UNCHANGED <<cred, origin>>
Grant ==
    /\ pc = "grant"
    /\ Granted \/ NotGranted
    /\ UNCHANGED <<memory, stop, attempt, given, disk, boots>>

\* _linux_identity_save: a file beside it is made, written, synced, renamed.
\* A failure removes that file; only an identity that was known before may
\* stay unsaved.
NotSaved ==
    /\ IF origin = "known" THEN GoTo("token") ELSE Return("1")
    /\ temp' = "none" /\ UNCHANGED <<file, solid, durable>>
OpenTemp == pc = "save" /\ GoTo("write") /\ temp' = "empty" /\ UNCHANGED <<file, solid, durable>>
WriteAll == pc = "write" /\ GoTo("sync") /\ temp' = "written" /\ UNCHANGED <<file, solid, durable>>
\* Mutant: the file is not synced before it is renamed.
SyncMutant == pc = "sync" /\ GoTo("rename") /\ UNCHANGED <<temp, file, solid, durable>>
Sync == pc = "sync" /\ GoTo("rename") /\ temp' = "synced" /\ UNCHANGED <<file, solid, durable>>
Rename ==
    /\ pc = "rename"
    /\ GoTo(IF origin = "rebound" THEN "create" ELSE "token")
    /\ file' = cred /\ solid' = (temp = "synced") /\ temp' = "none" /\ UNCHANGED durable
Save ==
    /\ \/ OpenTemp \/ WriteAll \/ Sync \/ Rename
       \/ pc \in {"save", "write", "sync", "rename"} /\ NotSaved
    /\ UNCHANGED <<memory, stop, attempt, identity, boots>>

\* get_mqtt_token.  Error 6006 sends a device that was unbound through the
\* binding once more, and its new identity is stored after its token.
Token ==
    /\ pc = "token"
    /\ \/ /\ cred \in Ids /\ GoTo(IF origin = "rebound" THEN "save" ELSE "create")
          /\ UNCHANGED origin
       \/ /\ cred \in Ids /\ origin # "rebound" /\ GoTo("report")
          /\ origin' = "rebound"
       \/ Return("1") /\ UNCHANGED origin
    /\ UNCHANGED <<memory, stop, attempt, given, cred, disk, boots>>

-----------------------------------------------------------------------------
\* The parts.  Each of these steps leaves the identity alone.
Part == UNCHANGED <<attempt, identity, disk, boots>>

\* All four are created before any is looked at; NULL needs no clean-up.
Create ==
    /\ pc = "create"
    /\ \E made \in SUBSET Sessions :
          /\ alive' = made
          /\ running' = IF "voip" \in made THEN {"callers", "rejectVoip"} ELSE {}
          /\ IF made = Sessions THEN GoTo("configure")
             ELSE Clean(SelectSeq(CleanUp("create"), LAMBDA w : w.uses \subseteq made), "1")
    /\ UNCHANGED <<told, opened, roomOn, stop>> /\ Part

Configure ==    \* voip_configure_media
    /\ pc = "configure"
    /\ GoTo("register") \/ Fail("configure")
    /\ UNCHANGED <<memory, stop>> /\ Part

Register ==     \* the five services
    /\ pc = "register"
    /\ GoTo("runtime") \/ Fail("register")
    /\ UNCHANGED <<memory, stop>> /\ Part

\* tirtc_runtime_start up to TiRtcStart; the failures before it undo
\* themselves.
StartRuntime ==
    /\ pc = "runtime"
    /\ \/ /\ GoTo("wait") /\ alive' = alive \cup {"runtime"} /\ running' = running \cup {"sdk"}
       \/ Fail("runtime") /\ UNCHANGED <<alive, running>>
    /\ UNCHANGED <<told, opened, roomOn, stop>> /\ Part

\* Waits for SYS_STARTED, for 30 s or until g_stop.
WaitStarted ==
    /\ pc = "wait"
    /\ GoTo("coordinator") \/ Fail("submitted")
    /\ UNCHANGED <<memory, stop>> /\ Part

StartCoordinator ==
    /\ pc = "coordinator"
    /\ \/ GoTo("arbiter") /\ alive' = alive \cup {"leases", "coordinator"}
       \/ Fail("coordinator") /\ alive' = alive \cup {"leases"}
    /\ UNCHANGED <<running, told, opened, roomOn, stop>> /\ Part

StartArbiter ==
    /\ pc = "arbiter"
    /\ alive' = alive \cup {"arbiter"}
    /\ \/ GoTo("profile") /\ running' = running \cup {"lifecycle"}
       \/ Fail("arbiter") /\ UNCHANGED running
    /\ UNCHANGED <<told, opened, roomOn, stop>> /\ Part

\* report_device_media: three attempts while the server is to blame; the
\* process goes on without.
ReportMedia ==
    /\ pc = "profile"
    /\ \/ GoTo("stream") /\ UNCHANGED attempt
       \/ /\ attempt < 3 /\ ~stop /\ attempt' = attempt + 1
          /\ UNCHANGED <<pc, todo, then>>
    /\ UNCHANGED <<memory, stop, identity, disk, boots>>

StartStream ==
    /\ pc = "stream"
    /\ \/ GoTo("room") /\ opened' = "yes"
       \/ Fail("stream") /\ UNCHANGED opened
    /\ UNCHANGED <<alive, running, told, roomOn, stop>> /\ Part

\* room_start; when a worker is missing the process is told to end.
StartRoom ==
    /\ pc = "room" /\ roomOn' = TRUE
    /\ \/ /\ running' = running \cup {"control", "media"} /\ GoTo("commands") /\ UNCHANGED stop
       \/ GoTo("commands") /\ stop' = TRUE /\ UNCHANGED running
       \/ /\ running' = running \cup {"control"} /\ UNCHANGED stop
          /\ Clean(Wait({"control"}, {}, {"room", "arbiter"}), "commands")
    /\ UNCHANGED <<alive, told, opened>> /\ Part

StartCommands ==
    /\ pc = "commands"
    /\ \/ GoTo("connect") /\ running' = running \cup {"cmd"}
       \/ Fail("commands") /\ UNCHANGED running
    /\ UNCHANGED <<alive, told, opened, roomOn, stop>> /\ Part

\* connect_mqtt_blocking: without its threads it returns at once.
Leave(threads) ==
    /\ stop' = TRUE
    /\ Clean(threads \o Wait({"cmd"}, {}, {}) \o CleanUp("end"), "0")
Connect ==
    /\ pc = "connect"
    /\ \/ /\ running' = running \cup {"network", "heartbeat"} /\ GoTo("serve")
          /\ UNCHANGED stop
       \/ running' = running \cup {"network"} /\ Leave(Wait({"network"}, {}, {}))
       \/ Leave(<<>>) /\ UNCHANGED running
    /\ UNCHANGED <<alive, told, opened, roomOn>> /\ Part

Serve ==
    /\ pc = "serve" /\ stop
    /\ Leave(Wait({"heartbeat"}, {}, {}) \o Wait({"network"}, {}, {}))
    /\ UNCHANGED memory /\ Part

-----------------------------------------------------------------------------
\* The clean-up.
Tell ==
    /\ pc = "cleanup" /\ todo # <<>> /\ told = {}
    /\ Head(todo).ends # {}
    /\ told' = Head(todo).ends
    /\ opened' = IF "business" \in told' /\ opened = "yes" THEN "closed" ELSE opened
    /\ UNCHANGED <<pc, todo, then, alive, running, roomOn, stop>> /\ Part

Joined ==
    /\ pc = "cleanup" /\ todo # <<>> /\ told = Head(todo).ends
    /\ told \cap running = {} /\ told' = {}
    /\ alive' = alive \ Head(todo).frees
    /\ todo' = Tail(todo)
    /\ UNCHANGED <<pc, then, running, opened, roomOn, stop>> /\ Part

Cleaned ==
    /\ pc = "cleanup" /\ todo = <<>>
    /\ pc' = IF then = "commands" THEN then ELSE "over"
    /\ stop' = (stop \/ then = "commands")
    /\ UNCHANGED <<todo, then, memory>> /\ Part

-----------------------------------------------------------------------------
\* The threads.
Main == UNCHANGED <<pc, todo, then, alive, told, opened, roomOn>>
Starts(t) == running' = running \cup {t} /\ UNCHANGED stop /\ Main /\ Part

\* A thread that was told to end does, and a session's end by themselves.
Ends(t) ==
    /\ t \in running /\ t \in told \cup {"ring", "business", "deferred"}
    /\ running' = running \ {t} /\ UNCHANGED stop /\ Main /\ Part

\* A command places a call, begins a session, or ends the process.
ProductAction ==
    /\ "cmd" \in running
    /\ \/ opened = "yes" /\ \E t \in {"ring", "business"} : Starts(t)
       \/ stop' = TRUE /\ UNCHANGED running /\ Main /\ Part

\* Others that begin a session or restore the stream while the arbiter is open.
SessionBegins ==
    /\ opened = "yes" /\ running \cap {"lifecycle", "control", "network", "deferred"} # {}
    /\ Starts("business")

\* A handler of MQTT that refuses a call while the device is busy.
RejectBusy == "network" \in running /\ Starts("rejectCall")

\* A callback of a business leaves work to its guard.
Defer == "sdk" \in running /\ "sdk" \notin told /\ opened # "no" /\ Starts("deferred")

OnSigint ==
    /\ pc \notin {"install", "options", "media", "over"} /\ ~stop /\ stop' = TRUE
    /\ UNCHANGED running /\ Main /\ Part

-----------------------------------------------------------------------------
\* The outside: the medium catches up; the process is killed, the power fails,
\* and it is started again.
Flush ==
    /\ durable # file /\ durable' = file /\ solid' = TRUE
    /\ UNCHANGED <<pc, todo, then, memory, stop, attempt, identity, temp, file, boots>>

Boot ==
    /\ boots < MaxBoots /\ boots' = boots + 1
    /\ pc' = "install" /\ todo' = <<>> /\ then' = "1"
    /\ alive' = {} /\ running' = {} /\ told' = {} /\ opened' = "no" /\ roomOn' = FALSE
    /\ stop' = FALSE /\ attempt' = 0 /\ cred' = None /\ origin' = "known"
    /\ UNCHANGED given
Killed == Boot /\ UNCHANGED disk
PowerLoss ==
    /\ Boot
    /\ file' \in {durable, IF solid THEN file ELSE Torn}
    /\ durable' = file' /\ solid' = TRUE /\ UNCHANGED temp

Next ==
    \/ Install \/ ParseOptions \/ ValidateMedia \/ fetch_services \/ Identify \/ Report \/ Grant \/ Save \/ Token
    \/ Create \/ Configure \/ Register \/ StartRuntime \/ WaitStarted
    \/ StartCoordinator \/ StartArbiter \/ ReportMedia \/ StartStream \/ StartRoom
    \/ StartCommands \/ Connect \/ Serve \/ Tell \/ Joined \/ Cleaned
    \/ \E t \in Threads : Ends(t)
    \/ ProductAction \/ SessionBegins \/ RejectBusy \/ Defer \/ OnSigint
    \/ Flush \/ Killed \/ PowerLoss

Spec == Init /\ [][Next]_vars

-----------------------------------------------------------------------------
(* Whatever fails and whenever the process is told to end: nothing is freed   *)
(* while a thread, or main itself, still works on it, and when main returns   *)
(* no thread and no part is left (main.c:1036-1208, room_destroy,             *)
(* call_destroy, voip_destroy).                                               *)
NothingOutlivesWhatItUses ==
    /\ \A t \in running : Uses[t] \subseteq alive
    /\ pc = "cleanup" /\ todo # <<>> => Head(todo).uses \subseteq alive
    /\ pc = "over" => running = {} /\ alive = {}

(* A credentials file never holds a part of an identity, whenever the power   *)
(* fails; and a device that is online with an identity that it was not given  *)
(* on the command line would find it again (linux_device_adapter.c:95,        *)
(* main.c:977-1028).                                                          *)
IdentityIsKept ==
    /\ file # Torn
    /\ alive # {} /\ cred # given => file = cred
=============================================================================
