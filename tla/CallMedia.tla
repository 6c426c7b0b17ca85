------------------------------- MODULE CallMedia -------------------------------
(***************************************************************************)
(* What a device call sends and receives (device-sim-c/src/tirtc_call.c    *)
(* with media_subscription_policy.c): the peer's subscriptions, answered   *)
(* in SDK callbacks, the policy that lets the media thread send, the       *)
(* thread itself with its key frames and failures, and the permission to   *)
(* receive.  DeviceCall has the call's signalling and its ring timer; here *)
(* the call's room is right and its server is silent, and connections are  *)
(* told apart, so that one can take the place of another.                  *)
(*                                                                         *)
(* A step is one lock section of s_conn_mtx or one call of the SDK.        *)
(* `control` is s_call_control_mtx, held while the media thread is joined. *)
(* Time is left out: the thread sends audio or video as it likes.          *)
(***************************************************************************)
EXTENDS Naturals, Sequences, FiniteSets

CONSTANTS
    Handles,   \* connections of the SDK, each made once
    None,      \* NULL
    Kinds,     \* the media of the call: audio, and video of a video call
    Sides,     \* "caller": the peer connects; "callee": this device does
    Results,   \* what a send may return on a connection that is there
    MaxFails,  \* failures in a row that cost the connection: 3
    MaxTasks   \* bound: the SDK delays a callback while so many tasks wait

ASSUME CallMediaAssumption ==
    /\ None \notin Handles
    /\ Kinds \subseteq {"audio", "video"} /\ Sides \subseteq {"caller", "callee"}
    /\ Results \subseteq {"ok", "busy", "error", "fatal"}
    /\ MaxFails \in Nat \ {0} /\ MaxTasks \in Nat \ {0}

VARIABLES
    serving,   \* s_service_active: "no", or as what the device takes part
    link,      \* the SDK's connections
    granted,   \* what each peer was answered it would get, and still wants
    wanted,    \* what this device has subscribed at each peer
    current,   \* s_active_conn
    waiting,   \* s_pending_conn
    subs,      \* s_pending_send_*_subscribed
    inCall,    \* s_session_state is SESS_IN_CALL
    receive,   \* s_receive_*_subscribed
    policy,    \* s_media_policy
    forceKey,  \* s_force_key
    running,   \* s_media_running
    created,   \* s_media_thread_created
    thread,    \* _media_worker
    tasks,     \* what callbacks deferred to the guard's worker
    worker,    \* where the guard's worker is
    user,      \* a thread in call_hangup or call_service_stop
    cmd,       \* the thread that places or answers the call
    control,   \* who holds s_call_control_mtx across a join
    owed       \* history: connections on which a key frame has to come next

connVars == <<serving, link, current, waiting, inCall>>
peerVars == <<granted, wanted, subs, receive, owed>>
mediaVars == <<policy, forceKey, running, created, thread>>
jobVars == <<tasks, worker, user, cmd, control>>
vars == <<connVars, peerVars, mediaVars, jobVars>>

Idle == [at |-> "idle", h |-> None, old |-> None, close |-> FALSE]
NoThread == [at |-> "none", h |-> None, key |-> FALSE, first |-> TRUE,
             was |-> FALSE, fails |-> 0]
Unprepared == [ready |-> FALSE, on |-> {}]
Prepared == [ready |-> TRUE, on |-> {}]
HasVideo == "video" \in Kinds
Serving == serving # "no"

TypeOK ==
    /\ serving \in Sides \cup {"no"} /\ inCall \in BOOLEAN
    /\ link \in [Handles -> {"none", "open", "lost", "closed"}]
    /\ granted \in [Handles -> SUBSET Kinds] /\ wanted \in [Handles -> SUBSET Kinds]
    /\ current \in Handles \cup {None} /\ waiting \in Handles \cup {None}
    /\ subs \subseteq Kinds /\ receive \subseteq Kinds
    /\ policy.on \subseteq Kinds /\ (policy.on # {} => policy.ready)
    /\ {forceKey, running, created} \subseteq BOOLEAN
    /\ thread.fails \in 0..MaxFails - 1
    /\ Len(tasks) <= MaxTasks
    /\ control \in {"free", "worker", "user"}
    /\ (control = "worker" <=> worker.at # "idle")
    /\ (control = "user" <=> user.at = "join")
    /\ owed \subseteq Handles
    /\ (created /\ running => thread.at # "none")

Init ==
    /\ serving = "no" /\ inCall = FALSE
    /\ link = [h \in Handles |-> "none"]
    /\ granted = [h \in Handles |-> {}] /\ wanted = [h \in Handles |-> {}]
    /\ current = None /\ waiting = None /\ subs = {} /\ receive = {}
    /\ policy = Unprepared /\ forceKey = FALSE
    /\ running = FALSE /\ created = FALSE /\ thread = NoThread
    /\ tasks = <<>> /\ worker = Idle /\ user = Idle /\ cmd = Idle
    /\ control = "free"
    /\ owed = {}

Disconnect(l, h) == [x \in Handles |-> IF x = h /\ l[x] # "none" THEN "closed" ELSE l[x]]
Defer(do, h) == /\ Len(tasks) < MaxTasks
                /\ tasks' = Append(tasks, [do |-> do, h |-> h])

\* _prepare_media_policy
Prepare == policy' = Prepared /\ forceKey' = HasVideo

-----------------------------------------------------------------------------
(* Callbacks of the SDK.                                                   *)

\* _call_on_conn_accepted
ConnAccepted(h) ==
    /\ serving = "caller" /\ link[h] = "none"
    /\ link' = [link EXCEPT ![h] = "open"]
    /\ waiting' = h /\ subs' = {}
    /\ owed' = owed \cup {h}
    /\ Defer("accept", h)
    /\ UNCHANGED <<serving, current, inCall, granted, wanted, receive, mediaVars,
                   worker, user, cmd, control>>

\* _call_on_command: 0x2000, the peer has answered; it may say so again.
CommandArrives(h) ==
    /\ serving = "caller" /\ link[h] = "open"
    /\ \A i \in DOMAIN tasks : tasks[i] # [do |-> "command", h |-> h]
    /\ Defer("command", h)
    /\ UNCHANGED <<connVars, peerVars, mediaVars, worker, user, cmd, control>>

\* _call_on_disconnected, _call_on_conn_error; a service that is not active
\* hears nothing.
ConnLost(h) ==
    /\ link[h] \in {"open", "closed"}
    /\ link' = [link EXCEPT ![h] = "lost"]
    /\ granted' = [granted EXCEPT ![h] = {}]
    /\ \/ Serving /\ Defer("finish", h)
       \/ Serving /\ link[h] = "open" /\ Defer("disconnect", h)
       \/ ~Serving /\ UNCHANGED tasks
    /\ UNCHANGED <<serving, current, waiting, inCall, wanted, subs, receive, owed,
                   mediaVars, worker, user, cmd, control>>

\* _call_on_subscribe_audio and _video.  The answer is 0 when the policy, or
\* the place for a connection that is not yet accepted, takes it.
Subscribe(h, k) ==
    /\ Serving /\ link[h] = "open" /\ k \notin granted[h]
    /\ policy.ready /\ h \in {current, waiting}
    /\ IF h = current
          THEN policy' = [policy EXCEPT !.on = @ \cup {k}] /\ UNCHANGED subs
          ELSE subs' = subs \cup {k} /\ UNCHANGED policy
    /\ forceKey' = (forceKey \/ k = "video")
    /\ granted' = [granted EXCEPT ![h] = @ \cup {k}]
    /\ UNCHANGED <<connVars, wanted, receive, owed, running, created, thread, jobVars>>

Unsubscribe(h, k) ==
    /\ Serving /\ link[h] = "open" /\ k \in granted[h]
    /\ granted' = [granted EXCEPT ![h] = @ \ {k}]
    /\ policy' = IF h = current THEN [policy EXCEPT !.on = @ \ {k}] ELSE policy
    /\ subs' = IF h = waiting /\ h # current THEN subs \ {k} ELSE subs
    /\ UNCHANGED <<connVars, wanted, receive, owed, forceKey, running, created, thread,
                   jobVars>>

\* _call_on_request_key_frame
RequestKey(h) ==
    /\ HasVideo /\ Serving /\ link[h] = "open" /\ h = current
    /\ forceKey' = TRUE
    /\ UNCHANGED <<connVars, peerVars, policy, running, created, thread, jobVars>>

Callback == \E h \in Handles :
    \/ ConnAccepted(h) \/ CommandArrives(h) \/ ConnLost(h) \/ RequestKey(h)
    \/ \E k \in Kinds : Subscribe(h, k) \/ Unsubscribe(h, k)

-----------------------------------------------------------------------------
(* The media thread: _start_media_stream, _stop_media_stream, _media_worker. *)

\* Nothing happens while it runs, or has run and was not stopped; the source
\* may fail to open.
StartMedia ==
    IF running
       THEN UNCHANGED mediaVars
       ELSE \/ UNCHANGED <<forceKey, running, created, thread>>
               /\ policy' = IF policy.ready THEN policy ELSE Prepared
            \/ /\ policy' = IF policy.ready THEN policy ELSE Prepared
               /\ forceKey' = TRUE /\ running' = TRUE /\ created' = TRUE
               /\ thread' = [NoThread EXCEPT !.at = "top"]

\* The thread is told to stop; whoever told it waits.
TellMedia == running' = FALSE /\ UNCHANGED <<policy, forceKey, created, thread>>
MediaOver == created => thread.at = "over"
JoinMedia ==
    /\ MediaOver
    /\ policy' = Unprepared /\ created' = FALSE /\ thread' = NoThread
    /\ UNCHANGED <<forceKey, running>>

threadFrame == <<connVars, granted, wanted, subs, receive, policy, running, created, jobVars>>

\* One look at what may be sent, to whom.  Of audio, key stays TRUE.
Snapshot ==
    /\ thread.at = "top"
    /\ IF ~running \/ current = None
          THEN thread' = [thread EXCEPT !.at = "over"]
          ELSE \E k \in policy.on :
                  thread' = [thread EXCEPT
                      !.at = IF k = "audio" THEN "send" ELSE "read",
                      !.h = current, !.key = (k = "audio"),
                      !.first = @ \/ ("video" \in policy.on /\ ~thread.was),
                      !.was = "video" \in policy.on]
    /\ UNCHANGED <<threadFrame, forceKey, owed>>

\* The next frame, or the next key frame, of the file; it may end.
ReadVideo ==
    /\ thread.at = "read"
    /\ forceKey' = FALSE
    /\ \/ thread' = [thread EXCEPT !.at = "over"]
       \/ \E key \in {TRUE, thread.first \/ forceKey} :
             thread' = [thread EXCEPT !.at = "frame", !.key = key]
    /\ UNCHANGED <<threadFrame, owed>>

SendsAudio == thread.at = "send"
SendsVideo == thread.at = "frame"
Sent(rc) == IF link[thread.h] = "open" THEN rc \in Results ELSE rc = "fatal"

\* A success of whatever kind ends the wait for a first video frame.
SendOk ==
    /\ SendsAudio \/ SendsVideo
    /\ Sent("ok")
    /\ thread' = [thread EXCEPT !.at = "top", !.first = FALSE, !.fails = 0]
    /\ owed' = IF SendsVideo /\ thread.key THEN owed \ {thread.h} ELSE owed
    /\ UNCHANGED <<threadFrame, forceKey>>

SendFails(rc) ==
    /\ SendsAudio \/ SendsVideo
    /\ rc \in {"busy", "error"} /\ Sent(rc)
    /\ thread.fails < MaxFails - 1
    /\ thread' = [thread EXCEPT !.at = "top", !.fails = @ + 1]
    /\ forceKey' = (forceKey \/ (SendsVideo /\ rc = "busy"))
    /\ owed' = IF SendsVideo /\ rc = "busy" THEN owed \cup {thread.h} ELSE owed
    /\ UNCHANGED threadFrame

\* The connection is gone, or is given up after MaxFails failures.
SendEnds(rc) ==
    /\ SendsAudio \/ SendsVideo
    /\ Sent(rc)
    /\ \/ rc = "fatal" /\ UNCHANGED link
       \/ /\ rc \in {"busy", "error"} /\ thread.fails = MaxFails - 1
          /\ link' = Disconnect(link, thread.h)
    /\ thread' = [thread EXCEPT !.at = "over"]
    /\ UNCHANGED <<serving, current, waiting, inCall, peerVars, policy, forceKey,
                   running, created, jobVars>>

Media == \/ Snapshot \/ ReadVideo \/ SendOk
         \/ \E rc \in {"busy", "error"} : SendFails(rc)
         \/ \E rc \in {"busy", "error", "fatal"} : SendEnds(rc)

-----------------------------------------------------------------------------
(* The guard's worker.                                                     *)

Task(do) == /\ worker.at = "idle" /\ control = "free" /\ tasks # <<>>
            /\ Head(tasks).do = do
Done == tasks' = Tail(tasks) /\ worker' = Idle /\ control' = "free"
Hold(at, h, old, close) ==
    /\ tasks' = Tail(tasks) /\ control' = "worker"
    /\ worker' = [at |-> at, h |-> h, old |-> old, close |-> close]

\* _deferred_accept_call: the connection that was announced last takes the
\* place of the current one, if there is one.
TakesOver(h, ready) ==
    /\ current' = h /\ inCall' = FALSE /\ receive' = {}
    /\ waiting' = None /\ subs' = {}
    /\ policy' = [policy EXCEPT !.on = IF ready THEN @ \cup subs ELSE @]

AcceptTask ==
    LET h == Head(tasks).h
    IN /\ Task("accept")
       /\ IF Serving /\ waiting = h
             THEN IF current \in {None, h}
                     THEN /\ TakesOver(h, policy.ready)
                          /\ Done
                          /\ UNCHANGED <<serving, link, granted, wanted, owed, forceKey,
                                         running, created, thread>>
                     ELSE /\ current' = None
                          /\ TellMedia /\ Hold("replace", h, current, TRUE)
                          /\ UNCHANGED <<serving, link, waiting, inCall, peerVars>>
             ELSE /\ link' = Disconnect(link, h)
                  /\ granted' = [granted EXCEPT ![h] = {}]
                  /\ Done
                  /\ UNCHANGED <<serving, current, waiting, inCall, wanted, subs, receive,
                                 owed, mediaVars>>
       /\ UNCHANGED <<user, cmd>>

\* The old connection is closed while its media thread still sends.
ReplacedMutant ==
    /\ worker.at = "replace"
    /\ link' = Disconnect(link, worker.old)
    /\ granted' = [granted EXCEPT ![worker.old] = {}]
    /\ worker' = [worker EXCEPT !.at = "join"]
    /\ UNCHANGED <<serving, current, waiting, inCall, wanted, subs, receive, owed, mediaVars,
                   tasks, control, user, cmd>>

\* The media thread of the old connection is joined, and with it the policy
\* is reset under the new one.
Replaced ==
    /\ worker.at = "replace" /\ MediaOver
    /\ created' = FALSE /\ thread' = NoThread
    /\ link' = Disconnect(IF Serving THEN link ELSE Disconnect(link, worker.h), worker.old)
    /\ granted' = [granted EXCEPT ![worker.old] = {}]
    /\ IF Serving
          THEN /\ current' = worker.h /\ inCall' = FALSE /\ receive' = {}
               /\ waiting' = None /\ subs' = {}
          ELSE UNCHANGED <<current, inCall, receive, waiting, subs>>
    /\ policy' = Unprepared
    /\ worker' = Idle /\ control' = "free"
    /\ UNCHANGED <<serving, wanted, owed, forceKey, running, tasks, user, cmd>>

\* _finish_call_transport, to the join.
LetGo ==
    /\ current' = None /\ inCall' = FALSE /\ receive' = {}
    /\ TellMedia
    /\ UNCHANGED <<serving, link, waiting, granted, wanted, subs, owed>>

\* _deferred_finish_call, _deferred_disconnect_call
FinishTask ==
    LET h == Head(tasks).h
        close == Head(tasks).do = "disconnect"
    IN /\ Task("finish") \/ Task("disconnect")
       /\ IF current = h
             THEN LetGo /\ Hold("join", h, None, close)
             ELSE /\ waiting' = IF waiting = h THEN None ELSE waiting
                  /\ subs' = IF waiting = h THEN {} ELSE subs
                  /\ link' = IF close THEN Disconnect(link, h) ELSE link
                  /\ Done
                  /\ UNCHANGED <<serving, current, inCall, granted, wanted, receive, owed,
                                 mediaVars>>
       /\ UNCHANGED <<user, cmd>>

Finished ==
    /\ worker.at = "join" /\ JoinMedia
    /\ link' = IF worker.close THEN Disconnect(link, worker.h) ELSE link
    /\ granted' = IF worker.close THEN [granted EXCEPT ![worker.h] = {}] ELSE granted
    /\ worker' = Idle /\ control' = "free"
    /\ UNCHANGED <<serving, current, waiting, inCall, wanted, subs, receive, owed, tasks, user, cmd>>

\* _call_command_deferred and _deferred_start_call_media.
CommandTask ==
    LET h == Head(tasks).h
    IN /\ Task("command")
       /\ IF current # h
             THEN Done /\ UNCHANGED <<connVars, peerVars, mediaVars>>
             ELSE \/ LetGo /\ Hold("join", h, None, TRUE)    \* subscribing fails
                  \/ /\ inCall' = TRUE
                     /\ wanted' = [wanted EXCEPT ![h] = Kinds] /\ receive' = Kinds
                     /\ StartMedia
                     /\ Done
                     /\ UNCHANGED <<serving, link, current, waiting, granted, subs, owed>>
       /\ UNCHANGED <<user, cmd>>

Worker == AcceptTask \/ Replaced \/ FinishTask \/ Finished \/ CommandTask

-----------------------------------------------------------------------------
(* The thread that places or answers the call.                             *)

CmdGo(at) == cmd' = IF at = "idle" THEN Idle ELSE [cmd EXCEPT !.at = at]
cmdFrame == <<tasks, worker, user, control>>

\* The arbiter has started the service; the request is on its way.  A callee
\* prepares its policy in call_connect_to.
Begin ==
    /\ cmd.at = "idle" /\ ~Serving /\ user.at = "idle"
    /\ serving' \in Sides
    /\ IF serving' = "callee"
          THEN Prepare /\ CmdGo("dialing")
          ELSE CmdGo("request") /\ UNCHANGED <<policy, forceKey>>
    /\ UNCHANGED <<link, current, waiting, inCall, peerVars, running, created, thread,
                   cmdFrame>>

\* call_set_expected_room, when the server's answer is there.
Expect ==
    /\ cmd.at = "request"
    /\ Prepare
    /\ CmdGo("idle")
    /\ UNCHANGED <<connVars, peerVars, running, created, thread, cmdFrame>>

\* The wait of call_connect_to ends with a connection...
DialWon(h) ==
    /\ cmd.at = "dialing" /\ Serving /\ link[h] = "none" /\ ~cmd.close
    /\ link' = [link EXCEPT ![h] = "open"]
    /\ owed' = owed \cup {h}
    /\ cmd' = [cmd EXCEPT !.at = "won", !.h = h]
    /\ UNCHANGED <<serving, current, waiting, inCall, granted, wanted, subs, receive,
                   mediaVars, cmdFrame>>

\* ... or without one, or because call_hangup has withdrawn the attempt.
DialLost ==
    /\ cmd.at = "dialing"
    /\ current' = None /\ inCall' = FALSE
    /\ CmdGo("idle")
    /\ UNCHANGED <<serving, link, waiting, peerVars, mediaVars, cmdFrame>>

DialSucceeds ==
    /\ cmd.at = "won"
    /\ current' = cmd.h /\ inCall' = TRUE /\ receive' = {}
    /\ CmdGo("subscribe")
    /\ UNCHANGED <<serving, link, waiting, granted, wanted, subs, owed, mediaVars, cmdFrame>>

\* _subscribe_peer_media: the SDK takes the subscriptions.
SubscribePeer ==
    /\ cmd.at = "subscribe"
    /\ wanted' = [wanted EXCEPT ![cmd.h] = Kinds]
    /\ CmdGo("note")
    /\ UNCHANGED <<connVars, granted, subs, receive, owed, mediaVars, cmdFrame>>

\* The permission is noted for whatever connection there is by now.
NotePermissionMutant ==
    /\ cmd.at = "note"
    /\ receive' = Kinds
    /\ CmdGo("start")
    /\ UNCHANGED <<link, wanted, serving, current, waiting, inCall, granted, subs, owed,
                   mediaVars, cmdFrame>>

\* If the connection is still the call's it may receive; or all is undone.
NotePermission ==
    /\ cmd.at = "note"
    /\ IF current = cmd.h
          THEN /\ receive' = Kinds
               /\ CmdGo("start")
               /\ UNCHANGED <<link, wanted>>
          ELSE /\ wanted' = [wanted EXCEPT ![cmd.h] = {}]
               /\ link' = Disconnect(link, cmd.h)
               /\ CmdGo("idle")
               /\ UNCHANGED receive
    /\ UNCHANGED <<serving, current, waiting, inCall, granted, subs, owed, mediaVars, cmdFrame>>

StartCall ==
    /\ cmd.at = "start" /\ control = "free"
    /\ IF current = cmd.h /\ inCall
          THEN StartMedia /\ UNCHANGED link
          ELSE link' = Disconnect(link, cmd.h) /\ UNCHANGED mediaVars
    /\ CmdGo("idle")
    /\ UNCHANGED <<serving, current, waiting, inCall, peerVars, cmdFrame>>

Command == \/ Begin \/ Expect \/ DialLost \/ DialSucceeds \/ SubscribePeer
           \/ NotePermission \/ StartCall \/ \E h \in Handles : DialWon(h)

-----------------------------------------------------------------------------
(* call_hangup, by a command, a message of the server or the ring timer, and *)
(* call_service_stop, which the arbiter calls when no action is under way.   *)

HangupTell(stop) ==
    /\ user.at = "idle" /\ Serving /\ control = "free"
    /\ stop => cmd.at \in {"idle", "request"}
    /\ serving' = IF stop THEN "no" ELSE serving
    /\ TellMedia
    /\ control' = "user" /\ user' = [Idle EXCEPT !.at = "join", !.close = stop]
    /\ UNCHANGED <<link, current, waiting, inCall, peerVars, tasks, worker, cmd>>

HangupDone ==
    /\ user.at = "join" /\ JoinMedia
    /\ link' = Disconnect(Disconnect(link, current), waiting)
    /\ granted' = [h \in Handles |-> IF h \in {current, waiting} THEN {} ELSE granted[h]]
    /\ current' = None /\ waiting' = None /\ inCall' = FALSE
    /\ receive' = {} /\ subs' = {}
    /\ cmd' = [cmd EXCEPT !.close = (cmd.at = "dialing")]
    /\ control' = "free"
    /\ user' = IF user.close THEN [user EXCEPT !.at = "drain"] ELSE Idle
    /\ UNCHANGED <<serving, wanted, owed, tasks, worker>>

\* sdk_callback_wait_all
StopDrained ==
    /\ user.at = "drain" /\ tasks = <<>> /\ worker.at = "idle"
    /\ user' = Idle
    /\ UNCHANGED <<connVars, peerVars, mediaVars, tasks, worker, cmd, control>>

User == (\E stop \in BOOLEAN : HangupTell(stop)) \/ HangupDone \/ StopDrained

-----------------------------------------------------------------------------
Next == Callback \/ Media \/ Worker \/ Command \/ User

Spec == Init /\ [][Next]_vars
-----------------------------------------------------------------------------
(* Properties.                                                             *)

\* The first video frame the SDK takes for a connection is a key frame, and
\* so is the next one after BUSY: anything else refers to a picture the peer
\* has not got (device-porting.md:178).
FirstFrameIsKey ==
    [][SendsVideo /\ thread'.at = "top" /\ thread'.fails = 0
          => thread.key \/ thread.h \notin owed]_vars

\* Frames of the peer pass only while there is a connection, and only of the
\* media this device has subscribed there, also when the call is hung up
\* while the subscription is on its way; a connection that is being replaced
\* is told apart by its handle.
ReceivesWhatItAsked ==
    receive # {} /\ worker.at # "replace"
        => current # None /\ receive \subseteq wanted[current]

\* The media thread is out of the way before this device closes the
\* connection it sends on.
SendsOnOpenHandle ==
    SendsAudio \/ SendsVideo => link[thread.h] # "closed"

\* When the service is stopped nothing of the call is left for the next
\* business: no connection, thread, task or permission.
StoppedIsQuiet ==
    ~Serving /\ user.at = "idle" =>
        /\ current = None /\ waiting = None /\ tasks = <<>> /\ worker.at = "idle"
        /\ ~created /\ ~running /\ thread.at = "none"
        /\ receive = {} /\ subs = {} /\ policy.on = {}

\* Hanging up and stopping come to their end whatever the media thread does.
StopsEnd == user.at = "join" ~> user.at # "join"
=============================================================================
