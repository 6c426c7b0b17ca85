----------------------------- MODULE RoomClient ------------------------------
(***************************************************************************)
(* The intercom room on the device (device-sim-c/src/tirtc_room.c): the    *)
(* control worker that keeps the room this device is assigned to joined,   *)
(* the media worker, the ROOM adapter's start and stop on whatever thread  *)
(* the arbiter calls them, and the user's push-to-talk.                    *)
(*                                                                         *)
(* A step is one critical section of r->lock, one request to the server or *)
(* one call of the SDK.  A generation is only ever compared with the       *)
(* current one: here every event, attempt and frame says whether it is     *)
(* still of the current generation, and a generation++ makes them all      *)
(* stale.  Time is abstract: what has a deadline may be past it at any     *)
(* iteration of the worker, and any iteration may be the one that reads    *)
(* the assignment, so that r->wake, which only brings that forward, is no  *)
(* variable.  The members of the room, what is heard and the shutdown are  *)
(* left out.                                                               *)
(***************************************************************************)
EXTENDS Sequences, Naturals

CONSTANTS
    Conns,         \* connections the SDK can have at a time
    NoConn,
    QueueCap       \* ROOM_QUEUE

ASSUME ConnsAssumption == NoConn \notin Conns
ASSUME QueueCapAssumption == QueueCap \in Nat \ {0}

VARIABLES
    owner,         \* the arbiter's owner: this room, another business, nobody
    transition,    \* who holds transition_lock, and how far stop_service is
    want, moved,   \* the server's assignment: a room, and unread by now
    active, joined, ptt, conn,            \* RoomState
    leaving,       \* the connection stop_service has taken out
    link,          \* the SDK's connections
    dial,          \* the TiRtcWhipConnect of the current generation
    bound,         \* connections bound to ROOM in the runtime
    stale,         \* connections the guard's worker is to disconnect
    queue,         \* r->queue
    mic,           \* source_open
    media,         \* the media worker while it holds media_lock
    ctl            \* the control worker

roomVars == <<active, joined, ptt, conn>>
sdkVars == <<link, dial, bound, stale>>
mediaVars == <<mic, media>>
arbiterVars == <<owner, transition>>
serverVars == <<want, moved>>
vars == <<arbiterVars, serverVars, roomVars, leaving, sdkVars, queue,
          mediaVars, ctl>>

MaybeConn == Conns \cup {NoConn}
Kinds == {"connected", "lost", "joined", "closed", "suspended", "command"}
Event(kind, c, fresh) == [kind |-> kind, conn |-> c, fresh |-> fresh]
NoEvent == Event("suspended", NoConn, FALSE)

TypeOK ==
    /\ owner \in {"NONE", "ROOM", "OTHER"}
    /\ transition \in {"free", "stop", "leave", "mic"}
    /\ want \in BOOLEAN /\ moved \in BOOLEAN
    /\ active \in BOOLEAN /\ joined \in BOOLEAN /\ ptt \in BOOLEAN
    /\ conn \in MaybeConn /\ leaving \in MaybeConn /\ dial \in MaybeConn
    /\ link \in [Conns -> {"none", "dialing", "open", "closing"}]
    /\ bound \subseteq Conns /\ stale \subseteq Conns
    /\ queue \in Seq([kind : Kinds, conn : MaybeConn, fresh : BOOLEAN])
    /\ Len(queue) <= QueueCap
    /\ mic \in BOOLEAN /\ media \in {"idle", "fresh", "stale"}

Rest == [at |-> "loop", event |-> NoEvent, bad |-> FALSE, want |-> FALSE,
         then |-> "loop"]

Init ==
    /\ owner = "NONE" /\ transition = "free"
    /\ want \in BOOLEAN /\ moved = TRUE
    /\ active = FALSE /\ joined = FALSE /\ ptt = FALSE /\ conn = NoConn
    /\ leaving = NoConn
    /\ link = [c \in Conns |-> "none"] /\ dial = NoConn
    /\ bound = {} /\ stale = {} /\ queue = <<>>
    /\ mic = FALSE /\ media = "idle" /\ ctl = Rest

-----------------------------------------------------------------------------
\* enqueue: a full queue drops the event.
Full == Len(queue) = QueueCap
Enqueue(e) == queue' = IF Full THEN queue ELSE Append(queue, e)

\* r->generation++
StaleEvents(q) == [i \in DOMAIN q |-> [q[i] EXCEPT !.fresh = FALSE]]
StaleMedia == IF media = "fresh" THEN "stale" ELSE media

\* TiRtcDisconnect
Disconnect(c) ==
    link' = [x \in Conns |-> IF x = c /\ link[x] = "open" THEN "closing" ELSE link[x]]

At(at) == ctl.at = at
Goto(at) == ctl' = IF at = "loop" THEN Rest ELSE [ctl EXCEPT !.at = at]

\* The end of an iteration: after a failure it ends the session, else it may
\* be time to reconcile.
Continue(bad, sync) ==
    ctl' = [Rest EXCEPT !.at = IF bad THEN "finish"
                               ELSE IF sync THEN "assignment" ELSE "loop"]

-----------------------------------------------------------------------------
(* The control worker. *)

\* The top of control_worker's loop: one event, and whether a deadline or the
\* lease has passed.  (A heartbeat that fails later in the iteration has the
\* effect of a lease that has passed, and one that succeeds has none.)
LoopMutant(bad, sync) ==
    /\ At("loop")
    /\ bad => joined
    /\ IF queue = <<>>
          THEN Continue(bad, sync) /\ UNCHANGED queue
          ELSE /\ ctl' = [Rest EXCEPT !.at = "event", !.event = Head(queue), !.bad = bad]
               /\ queue' = Tail(queue)
    /\ UNCHANGED <<arbiterVars, serverVars, roomVars, leaving, sdkVars, mediaVars>>
Loop(bad, sync) ==
    /\ At("loop")
    /\ bad => active
    /\ IF queue = <<>>
          THEN Continue(bad, sync) /\ UNCHANGED queue
          ELSE /\ ctl' = [Rest EXCEPT !.at = "event", !.event = Head(queue), !.bad = bad]
               /\ queue' = Tail(queue)
    /\ UNCHANGED <<arbiterVars, serverVars, roomVars, leaving, sdkVars, mediaVars>>

\* process_event, of an event of the current generation and connection.
Current(e) == e.fresh /\ (e.kind = "connected" \/ e.conn = conn)

Process(bad) == \E sync \in BOOLEAN : Continue(ctl.bad \/ bad, sync)

processFrame == <<arbiterVars, leaving, dial, stale, queue, mediaVars>>

ProcessStale ==
    LET e == ctl.event
    IN /\ At("event") /\ e.kind \notin {"suspended", "command"} /\ ~Current(e)
       /\ IF e.kind = "connected" THEN Disconnect(e.conn) ELSE UNCHANGED link
       /\ Process(FALSE)
       /\ UNCHANGED <<processFrame, serverVars, roomVars, bound>>

\* A connection for the room, or none.
ProcessConnected ==
    LET e == ctl.event
    IN /\ At("event") /\ e.kind = "connected" /\ Current(e)
       /\ IF e.conn # NoConn /\ active
             THEN /\ conn' = e.conn /\ bound' = bound \cup {e.conn}
                  /\ Process(FALSE)
                  /\ UNCHANGED link
             ELSE /\ Disconnect(e.conn) /\ Process(TRUE)
                  /\ UNCHANGED <<conn, bound>>
       /\ UNCHANGED <<processFrame, serverVars, active, joined, ptt>>

\* signal_locked: the answer to join_room; it refuses, or the room closes.
ProcessSignal ==
    LET e == ctl.event
    IN /\ At("event") /\ e.kind \in {"joined", "closed", "lost"} /\ Current(e)
       /\ IF e.kind = "joined" /\ ~joined
             THEN joined' = TRUE /\ ptt' = FALSE
             ELSE UNCHANGED <<joined, ptt>>
       /\ Process(e.kind # "joined")
       /\ UNCHANGED <<processFrame, serverVars, active, conn, link, bound>>

\* A report of "suspended", or the user's create, join or leave.
ProcessRequest ==
    LET e == ctl.event
    IN /\ At("event") /\ e.kind \in {"suspended", "command"}
       /\ IF e.kind = "command"
             THEN \/ want' \in BOOLEAN /\ moved' = TRUE
                  \/ UNCHANGED serverVars
             ELSE UNCHANGED serverVars
       /\ Process(FALSE)
       /\ UNCHANGED <<processFrame, roomVars, link, bound>>

requestFrame == <<arbiterVars, roomVars, leaving, sdkVars, queue, mediaVars>>

\* reconcile, GET assignment.
GetAssignmentMutant ==
    /\ At("assignment")
    /\ ctl' = [Rest EXCEPT !.want = want, !.then = IF moved THEN "loop" ELSE "current",
                    !.at = IF moved \/ ~want THEN "finish" ELSE "current"]
    /\ UNCHANGED <<requestFrame, serverVars>>
GetAssignment ==
    /\ At("assignment")
    /\ moved' = FALSE
    /\ ctl' = [Rest EXCEPT !.want = want, !.then = "current",
                    !.at = IF moved \/ ~want THEN "finish" ELSE "current"]
    /\ UNCHANGED <<requestFrame, want>>

\* POST connect-token, unless the room is there or somebody else is.
ConnectToken ==
    /\ At("current")
    /\ Goto(IF ctl.want /\ ~active /\ owner = "NONE" THEN "begin" ELSE "loop")
    /\ UNCHANGED <<requestFrame, serverVars>>

RequestFails ==
    /\ \/ At("assignment")
       \/ At("current") /\ ctl.want /\ ~active /\ owner = "NONE"
    /\ ctl' = [Rest EXCEPT !.at = "finish"]
    /\ UNCHANGED <<requestFrame, serverVars>>

\* session_arbiter_begin_id_ex, with start_service.
Begin ==
    /\ At("begin") /\ transition = "free" /\ owner = "NONE"
    /\ owner' = "ROOM" /\ active' = TRUE
    /\ Goto("run")
    /\ UNCHANGED <<transition, serverVars, joined, ptt, conn, leaving, sdkVars,
                   queue, mediaVars>>

\* Somebody else came first, has a ticket, or the service does not start.
BeginFails ==
    /\ At("begin") /\ transition = "free"
    /\ ctl' = [Rest EXCEPT !.at = "finish"]
    /\ UNCHANGED <<requestFrame, serverVars>>

\* session_arbiter_run_action with connect_action: a new generation dials.
RunAction ==
    /\ At("run") /\ transition = "free" /\ owner = "ROOM"
    /\ queue' = StaleEvents(queue) /\ media' = StaleMedia
    /\ \E c \in Conns :
          /\ link[c] = "none" /\ c \notin stale
          /\ link' = [link EXCEPT ![c] = "dialing"] /\ dial' = c
    /\ Goto("loop")
    /\ UNCHANGED <<arbiterVars, serverVars, roomVars, leaving, bound, stale, mic>>

\* The SDK refuses at once, or the session is gone.
RunActionFails ==
    /\ At("run") /\ transition = "free"
    /\ IF owner = "ROOM"
          THEN queue' = StaleEvents(queue) /\ media' = StaleMedia /\ dial' = NoConn
          ELSE UNCHANGED <<queue, media, dial>>
    /\ ctl' = [Rest EXCEPT !.at = "finish"]
    /\ UNCHANGED <<arbiterVars, serverVars, roomVars, leaving, link, bound, stale,
                   mic>>

\* finish: session_arbiter_finish_lease of the last lease, and its return.
Finish ==
    /\ At("finish") /\ transition = "free"
    /\ IF owner = "ROOM"
          THEN owner' = "NONE" /\ transition' = "stop"
          ELSE UNCHANGED arbiterVars
    /\ Goto("finished")
    /\ UNCHANGED <<serverVars, roomVars, leaving, sdkVars, queue, mediaVars>>

Finished ==
    /\ At("finished") /\ transition = "free"
    /\ Goto(ctl.then)
    /\ UNCHANGED <<requestFrame, serverVars>>

Control ==
    \/ \E bad, sync \in BOOLEAN : Loop(bad, sync)
    \/ ProcessStale \/ ProcessConnected \/ ProcessSignal \/ ProcessRequest
    \/ GetAssignment \/ ConnectToken \/ RequestFails
    \/ Begin \/ BeginFails \/ RunAction \/ RunActionFails \/ Finish \/ Finished

-----------------------------------------------------------------------------
(* The arbiter: the other businesses, and stop_service on any thread.      *)

arbiterFrame == <<serverVars, ctl>>

\* AI, a call or a WeChat call begins; it preempts the room.
OtherBegins ==
    /\ transition = "free" /\ owner # "OTHER"
    /\ owner' = "OTHER"
    /\ transition' = IF owner = "ROOM" THEN "stop" ELSE "free"
    /\ UNCHANGED <<arbiterFrame, roomVars, leaving, sdkVars, queue, mediaVars>>

OtherEnds ==
    /\ transition = "free" /\ owner = "OTHER" /\ owner' = "NONE"
    /\ UNCHANGED <<transition, arbiterFrame, roomVars, leaving, sdkVars, queue,
                   mediaVars>>

\* stop_service, under r->lock.
StopService ==
    /\ transition = "stop" /\ transition' = "leave"
    /\ queue' = StaleEvents(queue) /\ media' = StaleMedia /\ dial' = NoConn
    /\ active' = FALSE /\ joined' = FALSE /\ ptt' = FALSE
    /\ leaving' = conn /\ conn' = NoConn
    /\ ctl' = [ctl EXCEPT !.event.fresh = FALSE]
    /\ UNCHANGED <<owner, serverVars, link, bound, stale, mic>>

\* leave_room, TiRtcDisconnect and tirtc_runtime_deactivate.
LeaveRoom ==
    /\ transition = "leave" /\ transition' = "mic"
    /\ Disconnect(leaving) /\ leaving' = NoConn /\ bound' = {}
    /\ UNCHANGED <<owner, arbiterFrame, roomVars, dial, stale, queue, mediaVars>>

CloseMic ==
    /\ transition = "mic" /\ media = "idle" /\ transition' = "free"
    /\ mic' = FALSE
    /\ Enqueue(Event("suspended", NoConn, FALSE))
    /\ UNCHANGED <<owner, arbiterFrame, roomVars, leaving, sdkVars, media>>

Stopping == StopService \/ LeaveRoom \/ CloseMic

-----------------------------------------------------------------------------
(* media_worker. *)

mediaFrame == <<arbiterVars, serverVars, active, joined, conn, leaving, sdkVars, ctl>>

\* It looks whether to speak.
MediaLooks ==
    /\ media = "idle"
    /\ IF active /\ joined /\ ptt
          THEN media' = "fresh" /\ UNCHANGED mic
          ELSE mic /\ mic' = FALSE /\ UNCHANGED media
    /\ UNCHANGED <<mediaFrame, ptt, queue>>

\* Without a further look it opens the source, which may fail.
MediaOpens ==
    /\ media # "idle" /\ ~mic
    /\ \/ mic' = TRUE /\ UNCHANGED media
       \/ media' = "idle" /\ UNCHANGED mic
    /\ UNCHANGED <<mediaFrame, ptt, queue>>

\* It sends one packet, if it still may; the connection may prove dead.
MediaSends ==
    /\ media # "idle" /\ mic /\ media' = "idle"
    /\ \/ UNCHANGED <<ptt, queue>>
       \/ /\ media = "fresh" /\ active /\ joined /\ ptt
          /\ ptt' = FALSE /\ Enqueue(Event("lost", conn, TRUE))
    /\ UNCHANGED <<mediaFrame, mic>>

Media == MediaLooks \/ MediaOpens \/ MediaSends

-----------------------------------------------------------------------------
(* The user, the server and the SDK. *)

\* room_ptt
RoomPtt(pressed) ==
    /\ ptt # (pressed /\ joined)
    /\ ptt' = (pressed /\ joined)
    /\ UNCHANGED <<arbiterVars, serverVars, active, joined, conn, leaving, sdkVars,
                   queue, mediaVars, ctl>>

\* room_command
RoomCommand ==
    /\ ~Full /\ Enqueue(Event("command", NoConn, FALSE))
    /\ UNCHANGED <<arbiterVars, serverVars, roomVars, leaving, sdkVars, mediaVars,
                   ctl>>

\* The server assigns another room, or none.
Assign ==
    /\ want' \in BOOLEAN /\ moved' = TRUE
    /\ UNCHANGED <<arbiterVars, roomVars, leaving, sdkVars, queue, mediaVars, ctl>>

sdkFrame == <<arbiterVars, serverVars, roomVars, leaving, mediaVars, ctl>>

\* connected: what finds no place in the queue is disconnected by the guard.
ConnectedMutant(c) ==
    /\ link[c] = "dialing"
    /\ \/ /\ link' = [link EXCEPT ![c] = "open"]
          /\ Enqueue(Event("connected", c, dial = c))
          /\ UNCHANGED stale
       \/ /\ link' = [link EXCEPT ![c] = "none"]
          /\ Enqueue(Event("connected", NoConn, dial = c))
          /\ UNCHANGED stale
    /\ dial' = IF dial = c THEN NoConn ELSE dial
    /\ UNCHANGED <<sdkFrame, bound>>
Connected(c) ==
    /\ link[c] = "dialing"
    /\ \/ /\ link' = [link EXCEPT ![c] = "open"]
          /\ Enqueue(Event("connected", c, dial = c))
          /\ stale' = IF Full THEN stale \cup {c} ELSE stale
       \/ /\ link' = [link EXCEPT ![c] = "none"]
          /\ Enqueue(Event("connected", NoConn, dial = c))
          /\ UNCHANGED stale
    /\ dial' = IF dial = c THEN NoConn ELSE dial
    /\ UNCHANGED <<sdkFrame, bound>>

\* stale_disconnect, on the guard's worker.
StaleDisconnect(c) ==
    /\ c \in stale /\ stale' = stale \ {c}
    /\ Disconnect(c)
    /\ UNCHANGED <<sdkFrame, dial, bound, queue>>

\* disconnected: the connection is closed by either side.
Disconnected(c) ==
    /\ link[c] \in {"open", "closing"} /\ link' = [link EXCEPT ![c] = "none"]
    /\ IF c \in bound THEN Enqueue(Event("lost", c, TRUE)) ELSE UNCHANGED queue
    /\ bound' = bound \ {c}
    /\ UNCHANGED <<sdkFrame, dial, stale>>

\* conn_error leaves the connection open; command_cb is a signal of the peer.
PeerSignals(c) ==
    /\ link[c] = "open" /\ c \in bound
    /\ \E kind \in {"lost", "joined", "closed"} : ~Full /\ Enqueue(Event(kind, c, TRUE))
    /\ UNCHANGED <<sdkFrame, sdkVars>>

Sdk == \E c \in Conns : \/ Connected(c) \/ StaleDisconnect(c) \/ Disconnected(c)
                        \/ PeerSignals(c)
User == (\E pressed \in BOOLEAN : RoomPtt(pressed)) \/ RoomCommand

Next == Control \/ OtherBegins \/ OtherEnds \/ Stopping \/ Media \/ User \/ Assign \/ Sdk

Spec == Init /\ [][Next]_vars

-----------------------------------------------------------------------------
(* Fairness: the threads run, every request ends within 5 seconds, and the *)
(* periods and deadlines of the worker pass.  That a request, a begin or a *)
(* call of the SDK which is tried for ever succeeds once is assumed of the *)
(* environment; nothing is assumed of connections, peers, users or others. *)

Fairness ==
    /\ WF_vars(Control) /\ WF_vars(Stopping)
    /\ WF_vars(MediaOpens \/ MediaSends)
    /\ SF_vars(Control /\ ctl'.at = "assignment")
    /\ SF_vars(\E sync \in BOOLEAN : Loop(TRUE, sync))
    /\ SF_vars(GetAssignment) /\ SF_vars(ConnectToken) /\ SF_vars(Begin)
    /\ \A c \in Conns : WF_vars(StaleDisconnect(c))

FairSpec == Spec /\ Fairness

-----------------------------------------------------------------------------
(* Properties. *)

\* When the room is released or preempted and its stop is through, no key is
\* pressed, the microphone is closed and no connection is the room's: whatever
\* was queued, dialling or being sent, resuming starts with listening only
\* (device-session-model.md:214).
ReleasedIsQuiet ==
    owner # "ROOM" /\ transition = "free"
        => /\ ~active /\ ~joined /\ ~ptt /\ ~mic
           /\ conn = NoConn /\ bound = {} /\ media # "fresh"

\* A connection that came too late, or found no place in the queue, is closed:
\* who is open is the room's, or somebody is about to close it or take it.
NoConnectionLeft ==
    \A c \in Conns : link[c] = "open" =>
        \/ c \in {conn, leaving} \/ c \in stale
        \/ \E i \in DOMAIN queue : queue[i].kind = "connected" /\ queue[i].conn = c
        \/ ctl.event.kind = "connected" /\ ctl.event.conn = c

\* A room that does not answer is given up.
JoinsOrEnds == owner = "ROOM" /\ ~joined ~> joined \/ owner # "ROOM"

\* After the other businesses, the room of the assignment begins again
\* (device-session-model.md:212).
RoomComesBack == <>[](want /\ owner # "OTHER") => []<>(owner = "ROOM")
=============================================================================
