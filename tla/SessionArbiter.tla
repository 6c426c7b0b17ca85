--------------------------- MODULE SessionArbiter ---------------------------
(***************************************************************************)
(* The session arbiter of the C device reference                           *)
(* (device-sim-c/src/session_arbiter.c): which business owns the single    *)
(* TiRTC runtime, which incoming call may be answered, and the lifecycle   *)
(* worker that gives the runtime back to the live stream.                  *)
(*                                                                         *)
(* Every thread of the process calls in: the terminal command thread, the  *)
(* MQTT thread, SDK callbacks, timers.  The code has two mutexes, and a    *)
(* step here is one critical section of state_lock.  transition_lock is    *)
(* held over several of them, and over the calls of the coordinator; the   *)
(* variable transition is what its holder is doing.  Operations that need  *)
(* only state_lock interleave with every step of it.                       *)
(*                                                                         *)
(* Time is abstract: whether the deadline of a ticket has passed is        *)
(* chosen where the code reads the clock (an expired ticket is dropped in  *)
(* the same step, so the choice is never taken back).  pending_generation  *)
(* is only compared with the value it had when begin consumed a ticket, so *)
(* it is kept as the flag "changed since then" (ticketTouched), which has  *)
(* no meaning, and is FALSE, while no begin is in progress.                *)
(*                                                                         *)
(* The session ids "EMPTY" and "NULL" stand for "" and for a NULL pointer. *)
(* A definition whose name ends in Mutant is a plausible wrong version of  *)
(* the one below it, which the properties must tell apart from the code's; *)
(* nothing uses it.                                                        *)
(***************************************************************************)
EXTENDS SessionCoordinator, Sequences

CONSTANTS
    Rooms,          \* the non-empty session ids in use
    QueueCap,       \* SESSION_ARBITER_QUEUE_CAP
    MaxGeneration   \* bound: sessions begun in one behaviour

ASSUME RoomsAssumption ==
    /\ Rooms # {}
    /\ "EMPTY" \notin Rooms /\ "NULL" \notin Rooms
ASSUME QueueCapAssumption == QueueCap \in Nat \ {0}
ASSUME MaxGenerationAssumption == MaxGeneration \in Nat

VARIABLES
    owner,           \* arbiter->owner
    ownerId,         \* arbiter->owner_session_id
    ownerCancelled,  \* arbiter->owner_cancelled
    generation,      \* arbiter->generation
    ticket,          \* pending_mask, pending_session_id, pending_deadline_ms
    ticketTouched,   \* pending_generation # the value begin saved
    closed,          \* arbiter->closed
    queue,           \* finish_queue, finish_head, finish_count
    worker,          \* where the lifecycle worker is
    request,         \* the queue entry the worker has taken
    workerStop,      \* arbiter->worker_stop
    transition,      \* what the holder of transition_lock is doing
    halt,            \* progress of session_arbiter_shutdown
    asked,           \* history: the current generation was to be finished
    withdrawn        \* history: the current session's id was cancelled

arbiterState == <<owner, ownerId, ownerCancelled, generation>>
ticketVars == <<ticket, ticketTouched>>
workerVars == <<worker, request, workerStop>>
history == <<asked, withdrawn>>
arbiterVars == <<arbiterState, ticketVars, closed, queue, workerVars,
                 transition, halt, history>>
vars == <<coordinatorVars, arbiterVars>>

-----------------------------------------------------------------------------
NoId == "EMPTY"      \* the empty string
Id == Rooms \cup {NoId}
AnyId == "NULL"      \* a NULL session_id matches every stored one

IncomingKinds == Kinds \cap {"VOIP", "CALL"}     \* kinds that ring

Ticket == [kind : Kinds, id : Id, timed : BOOLEAN]
NoTicket == [kind |-> "NONE", id |-> NoId, timed |-> FALSE]

Request == [kind : Kinds, generation : 1..MaxGeneration]
NoRequest == [kind |-> "NONE", generation |-> 0]

Transition ==
    [op : {"begin", "action", "end", "shutdown"},
     kind : Kinds \cup {"NONE"},
     generation : 0..MaxGeneration,
     consumed : Ticket \cup {NoTicket},
     retries : 0..3,
     byWorker : BOOLEAN]

NoTransition == [op |-> "free", kind |-> "NONE", generation |-> 0,
                 consumed |-> NoTicket, retries |-> 0, byWorker |-> FALSE]

Free == transition.op = "free"

IdMatches(stored, expected) == expected = AnyId \/ stored = expected

\* _expire_pending_locked with the clock beyond the deadline, or not.
Live(due) == IF due THEN NoTicket ELSE ticket
MayBeDue(due) == due => ticket.timed

\* pending_generation++, if the operation does it at all.
Touch(changed) ==
    ticketTouched' = (ticketTouched \/ (changed /\ transition.op = "begin"))

\* The owner a foreground kind may replace: nobody, or the low-priority room.
Replaceable(kind) == owner = "NONE" \/ (owner = "ROOM" /\ kind # "ROOM")

CurrentMutant(kind, gen) == ~closed /\ owner = kind
Current(kind, gen) == ~closed /\ owner = kind /\ generation = gen

ClearOwner ==
    /\ owner' = "NONE"
    /\ ownerId' = NoId
    /\ ownerCancelled' = FALSE
    /\ UNCHANGED generation

\* The holder starts giving the runtime back: the coordinator is to stop kind
\* and restart the stream.
StartEnding(kind, byWorker) ==
    /\ transition' = [NoTransition EXCEPT !.op = "end", !.kind = kind,
                                          !.byWorker = byWorker]
    /\ call' = Invocation("finish", kind)

CoordinatorIdle == UNCHANGED <<current, sealed, held, running, failures>>

-----------------------------------------------------------------------------
(* Operations under state_lock alone.                                      *)

\* The slot is free for an incoming call, t being the live ticket.
OfferGrantedMutant(t) == ~closed /\ t = NoTicket
OfferGranted(t) == ~closed /\ owner \in {"NONE", "ROOM"} /\ t = NoTicket

\* session_arbiter_offer_pending_id: an incoming call asks for the ticket.
OfferPending(kind, id, timed) == \E due \in BOOLEAN :
    /\ MayBeDue(due)
    /\ IF OfferGranted(Live(due))
         THEN /\ ticket' = [kind |-> kind, id |-> id, timed |-> timed]
              /\ Touch(TRUE)
         ELSE /\ ticket' = Live(due)
              /\ Touch(due)
    /\ UNCHANGED <<coordinatorVars, arbiterState, closed, queue, workerVars,
                   transition, halt, history>>

\* The decision of session_arbiter_admit_incoming_id on the live ticket t.
AdmitDecision(kind, id, t) ==
    IF closed THEN "BUSY"
    ELSE IF owner = kind
      THEN IF id # NoId /\ ownerId = id THEN "DUPLICATE" ELSE "CURRENT"
    ELSE IF t # NoTicket
      THEN IF t.kind = kind /\ id # NoId /\ t.id = id THEN "DUPLICATE" ELSE "BUSY"
    ELSE IF owner \in {"NONE", "ROOM"} THEN "PENDING" ELSE "BUSY"

\* session_arbiter_admit_incoming_id: only PENDING takes the ticket.
AdmitIncoming(kind, id, timed) == \E due \in BOOLEAN :
    /\ MayBeDue(due)
    /\ IF AdmitDecision(kind, id, Live(due)) = "PENDING"
         THEN /\ ticket' = [kind |-> kind, id |-> id, timed |-> timed]
              /\ Touch(TRUE)
         ELSE /\ ticket' = Live(due)
              /\ Touch(due)
    /\ UNCHANGED <<coordinatorVars, arbiterState, closed, queue, workerVars,
                   transition, halt, history>>

\* session_arbiter_cancel_id (and clear_pending): drop the ticket it names, or
\* mark the owner it names as cancelled.
CancelId(kind, id) == \E due \in BOOLEAN :
    LET t == Live(due)
        dropsTicket == t.kind = kind /\ IdMatches(t.id, id)
        marksOwner == ~dropsTicket /\ owner = kind /\ IdMatches(ownerId, id)
    IN  /\ MayBeDue(due)
        /\ ticket' = IF dropsTicket THEN NoTicket ELSE t
        /\ Touch(due \/ dropsTicket \/ marksOwner)
        /\ ownerCancelled' = (ownerCancelled \/ marksOwner)
        /\ withdrawn' = (withdrawn \/ marksOwner \/
                            (dropsTicket /\ t.kind = owner /\ t.id = ownerId))
        /\ UNCHANGED <<coordinatorVars, owner, ownerId, generation, closed,
                       queue, workerVars, transition, halt, asked>>

\* session_arbiter_has_pending_id only expires the ticket as it looks at it.
LookAtTicket ==
    /\ ticket.timed
    /\ ticket' = NoTicket
    /\ Touch(TRUE)
    /\ UNCHANGED <<coordinatorVars, arbiterState, closed, queue, workerVars,
                   transition, halt, history>>

QueuedMutant(r) == \E i \in 1..Len(queue) : queue[i].kind = r.kind
Queued(r) == \E i \in 1..Len(queue) : queue[i] = r

Enqueue(r) == IF Queued(r) \/ Len(queue) = QueueCap
                THEN queue ELSE Append(queue, r)

\* _finish_async_generation: a terminal event for exactly this generation is
\* queued once; restore re-creates the ticket of a call that stays ringing.
\* The queue may be full: then the event is logged and lost.
FinishAsync(kind, gen, restore) ==
    LET recreates == restore /\ ticket = NoTicket
    IN  /\ Current(kind, gen)
        /\ ticket' = IF recreates
                       THEN [kind |-> kind, id |-> ownerId, timed |-> TRUE]
                       ELSE ticket
        /\ Touch(recreates)
        /\ queue' = Enqueue([kind |-> kind, generation |-> gen])
        /\ asked' = (asked \/ gen = generation)
        /\ UNCHANGED <<coordinatorVars, arbiterState, closed, workerVars,
                       transition, halt, withdrawn>>

-----------------------------------------------------------------------------
(* Operations that hold transition_lock.                                   *)

\* session_arbiter_begin_id_ex up to the call of the coordinator.
Begin(kind, consume, id) == \E due \in BOOLEAN :
    LET t == Live(due)
        ticketOk == IF consume THEN t.kind = kind /\ IdMatches(t.id, id)
                               ELSE t = NoTicket
    IN  /\ Free /\ generation < MaxGeneration
        /\ MayBeDue(due)
        /\ IF ~closed /\ Replaceable(kind) /\ ticketOk
             THEN /\ ticket' = NoTicket
                  /\ ticketTouched' = FALSE
                  /\ owner' = kind
                  /\ ownerId' = IF consume THEN t.id ELSE id
                  /\ ownerCancelled' = FALSE
                  /\ generation' = generation + 1
                  /\ asked' = FALSE /\ withdrawn' = FALSE
                  /\ transition' = [NoTransition EXCEPT
                                      !.op = "begin", !.kind = kind,
                                      !.generation = generation + 1,
                                      !.consumed = t]
                  /\ call' = Invocation("begin", kind)
             ELSE /\ ticket' = t
                  /\ Touch(due)
                  /\ UNCHANGED <<arbiterState, history, transition, call>>
        /\ CoordinatorIdle
        /\ UNCHANGED <<closed, queue, workerVars, halt>>

\* A consumed ticket is put back after a failed start, unless it was cancelled
\* or replaced meanwhile or its deadline has passed.
RollsBackMutant(due) ==
    /\ call.rc = "failed" /\ transition.consumed # NoTicket
    /\ ~ownerCancelled /\ ~closed /\ ~due
RollsBack(due) ==
    /\ call.rc = "failed" /\ transition.consumed # NoTicket
    /\ ~ownerCancelled /\ ~closed /\ ~due
    /\ ~ticketTouched

\* The holder's session still owns the runtime, and was cancelled meanwhile.
StillOwner == owner = transition.kind /\ generation = transition.generation
Cancelled == StillOwner /\ ownerCancelled

StartLost == call.rc = "failed" \/ Cancelled

\* session_arbiter_begin_id_ex after the coordinator has returned.
CommitBegin == \E due \in BOOLEAN :
    /\ transition.op = "begin" /\ call.pc = "returned"
    /\ due => transition.consumed.timed
    /\ IF StartLost /\ StillOwner
         THEN /\ ClearOwner
              /\ ticket' = IF RollsBack(due) THEN transition.consumed ELSE ticket
         ELSE UNCHANGED <<arbiterState, ticket>>
    /\ IF Cancelled
         THEN StartEnding(transition.kind, FALSE)
         ELSE transition' = NoTransition /\ call' = NoCall
    /\ CoordinatorIdle
    /\ ticketTouched' = FALSE
    /\ UNCHANGED <<closed, queue, workerVars, halt, history>>

MayAct(kind, gen, id) ==
    Current(kind, gen) /\ IdMatches(ownerId, id) /\ ~ownerCancelled

\* session_arbiter_run_action up to the call of the action.
RunAction(kind, gen, id) ==
    /\ Free
    /\ MayAct(kind, gen, id)
    /\ transition' = [NoTransition EXCEPT !.op = "action", !.kind = kind,
                                          !.generation = gen]
    /\ UNCHANGED <<coordinatorVars, arbiterState, ticketVars, closed, queue,
                   workerVars, halt, history>>

ActionLost(ok) == ~ok \/ ownerCancelled

\* session_arbiter_run_action after the action returned: a failure or a
\* cancellation seen meanwhile ends the session.
CommitAction(ok) ==
    /\ transition.op = "action"
    /\ IF Current(transition.kind, transition.generation) /\ ActionLost(ok)
         THEN ClearOwner /\ StartEnding(transition.kind, FALSE)
         ELSE /\ transition' = NoTransition
              /\ UNCHANGED <<arbiterState, call>>
    /\ asked' = (asked \/ ~ok)
    /\ CoordinatorIdle
    /\ UNCHANGED <<ticketVars, closed, queue, workerVars, halt, withdrawn>>

\* _finish_generation called by a thread that holds a lease: for a lease that
\* is no longer current nothing happens.  session_arbiter_finish(kind) is the
\* same with the generation it has read before, which may be another kind's.
FinishLease(kind, gen) ==
    /\ Free
    /\ Current(kind, gen)
    /\ asked' = (asked \/ gen = generation)
    /\ ClearOwner
    /\ StartEnding(kind, FALSE)
    /\ CoordinatorIdle
    /\ UNCHANGED <<ticketVars, closed, queue, workerVars, halt, withdrawn>>

RecoveryAttempts == 3

\* The coordinator returned to _finish_coordinator_with_recovery: a stream
\* that did not start is tried RecoveryAttempts more times, then given up.
EndReturned ==
    /\ transition.op = "end" /\ call.pc = "returned"
    /\ IF call.rc = "failed" /\ transition.retries < RecoveryAttempts /\ ~closed
         THEN /\ transition' = [transition EXCEPT !.retries = @ + 1]
              /\ call' = Invocation("stream", "STREAM")
              /\ UNCHANGED worker
         ELSE /\ transition' = NoTransition
              /\ call' = NoCall
              /\ worker' = IF transition.byWorker THEN "done" ELSE worker
    /\ CoordinatorIdle
    /\ UNCHANGED <<arbiterState, ticketVars, closed, queue, request,
                   workerStop, halt, history>>

-----------------------------------------------------------------------------
(* The lifecycle worker (_lifecycle_worker).  finish_active holds from      *)
(* WorkerPick to WorkerDone.                                               *)

WorkerPick ==
    /\ worker = "waiting" /\ queue # <<>>
    /\ worker' = "picked"
    /\ request' = Head(queue)
    /\ queue' = Tail(queue)
    /\ UNCHANGED <<coordinatorVars, arbiterState, ticketVars, closed,
                   workerStop, transition, halt, history>>

\* _finish_generation on the worker: the generation is checked again, since
\* the session may have ended, and another begun, while the entry was queued.
WorkerFinish ==
    /\ worker = "picked" /\ Free
    /\ IF Current(request.kind, request.generation)
         THEN /\ ClearOwner
              /\ StartEnding(request.kind, TRUE)
              /\ worker' = "ending"
         ELSE /\ worker' = "done"
              /\ UNCHANGED <<arbiterState, transition, call>>
    /\ CoordinatorIdle
    /\ UNCHANGED <<ticketVars, closed, queue, request, workerStop, halt, history>>

WorkerDone ==
    /\ worker = "done"
    /\ worker' = "waiting"
    /\ request' = NoRequest
    /\ UNCHANGED <<coordinatorVars, arbiterState, ticketVars, closed, queue,
                   workerStop, transition, halt, history>>

WorkerExitMutant ==
    /\ worker = "waiting" /\ workerStop
    /\ worker' = "exited"
    /\ UNCHANGED <<coordinatorVars, arbiterState, ticketVars, closed, queue,
                   request, workerStop, transition, halt, history>>
WorkerExit ==
    /\ worker = "waiting" /\ workerStop /\ queue = <<>>
    /\ worker' = "exited"
    /\ UNCHANGED <<coordinatorVars, arbiterState, ticketVars, closed, queue,
                   request, workerStop, transition, halt, history>>

-----------------------------------------------------------------------------
(* session_arbiter_shutdown, in its four critical sections.                *)

ShutdownClose ==
    /\ halt = "no" /\ Free
    /\ halt' = "sealing"
    /\ closed' = TRUE
    /\ ClearOwner
    /\ ticket' = NoTicket
    /\ transition' = [NoTransition EXCEPT !.op = "shutdown"]
    /\ call' = Invocation("shutdown", "NONE")
    /\ CoordinatorIdle
    /\ UNCHANGED <<ticketTouched, queue, workerVars, history>>

ShutdownSealed ==
    /\ transition.op = "shutdown" /\ call.pc = "returned"
    /\ halt' = "sealed"
    /\ transition' = NoTransition
    /\ call' = NoCall
    /\ CoordinatorIdle
    /\ UNCHANGED <<arbiterState, ticketVars, closed, queue, workerVars, history>>

ShutdownStopsWorker ==
    /\ halt = "sealed"
    /\ halt' = "draining"
    /\ workerStop' = TRUE
    /\ UNCHANGED <<coordinatorVars, arbiterState, ticketVars, closed, queue,
                   worker, request, transition, history>>

\* finish_idle seen with an empty queue, and the worker joined.
ShutdownJoined ==
    /\ halt = "draining"
    /\ queue = <<>> /\ worker = "exited"
    /\ halt' = "done"
    /\ UNCHANGED <<coordinatorVars, arbiterState, ticketVars, closed, queue,
                   workerVars, transition, history>>

-----------------------------------------------------------------------------
ArbiterInit ==
    /\ owner = "NONE" /\ ownerId = NoId /\ ownerCancelled = FALSE
    /\ generation = 0
    /\ ticket = NoTicket /\ ticketTouched = FALSE
    /\ closed = FALSE
    /\ queue = <<>>
    /\ worker = "waiting" /\ request = NoRequest /\ workerStop = FALSE
    /\ transition = NoTransition
    /\ halt = "no"
    /\ asked = FALSE /\ withdrawn = FALSE

Init == CoordinatorInit /\ ArbiterInit

\* What the callers in main.c, tirtc_room.c and the session modules do: only
\* VoIP and device calls ring and are cancelled; an outgoing session and an AI
\* dialogue start without an id, a room with its own.
Producers ==
    \/ "CALL" \in Kinds /\ \E id \in Rooms : OfferPending("CALL", id, TRUE)
    \/ "VOIP" \in Kinds /\ \E id \in Rooms : AdmitIncoming("VOIP", id, TRUE)
    \/ \E kind \in IncomingKinds, id \in Id : CancelId(kind, id)
    \/ LookAtTicket
    \/ \E kind \in IncomingKinds, id \in Rooms \cup {AnyId} :
          Begin(kind, TRUE, id)
    \/ \E kind \in Kinds, id \in Id :
          (kind # "ROOM" => id = NoId) /\ Begin(kind, FALSE, id)
    \/ \E kind \in Kinds, gen \in 1..generation, id \in Id :
          RunAction(kind, gen, id)
    \/ \E kind \in Kinds, gen \in 1..generation : FinishLease(kind, gen)
    \/ \E kind \in Kinds, gen \in 1..generation, restore \in BOOLEAN :
          (restore => kind = "CALL") /\ FinishAsync(kind, gen, restore)
    \/ ShutdownClose

\* What goes on by itself once it was started.
Machinery ==
    \/ CommitBegin
    \/ \E ok \in BOOLEAN : CommitAction(ok)
    \/ EndReturned
    \/ WorkerPick \/ WorkerFinish \/ WorkerDone \/ WorkerExit
    \/ ShutdownSealed \/ ShutdownStopsWorker \/ ShutdownJoined
    \/ CoordinatorNext /\ UNCHANGED arbiterVars

Next == Producers \/ Machinery

Spec == Init /\ [][Next]_vars
-----------------------------------------------------------------------------
(* Fairness.  A thread that runs keeps running, and product and SDK calls   *)
(* return: weak fairness of the steps of whoever holds transition_lock, of  *)
(* the worker and of the shutdown.  The worker competes for transition_lock *)
(* with threads that may take it again and again, so it needs strong        *)
(* fairness: a mutex that is free again and again is acquired in the end.   *)

HolderStep ==
    \/ CommitBegin
    \/ \E ok \in BOOLEAN : CommitAction(ok)
    \/ EndReturned
    \/ ShutdownSealed
    \/ CoordinatorNext /\ UNCHANGED arbiterVars

Fairness ==
    /\ WF_vars(HolderStep)
    /\ WF_vars(WorkerPick) /\ SF_vars(WorkerFinish)
    /\ WF_vars(WorkerDone) /\ WF_vars(WorkerExit)
    /\ WF_vars(ShutdownStopsWorker) /\ WF_vars(ShutdownJoined)

FairSpec == Spec /\ Fairness

-----------------------------------------------------------------------------
(* Safety.                                                                  *)

OwnerTypeOK ==
    /\ owner \in Kinds \cup {"NONE"} /\ ownerId \in Id
    /\ ownerCancelled \in BOOLEAN
    /\ generation \in 0..MaxGeneration

TicketTypeOK ==
    /\ ticket \in Ticket \cup {NoTicket}
    /\ ticketTouched \in BOOLEAN

WorkerTypeOK ==
    /\ queue \in Seq(Request) /\ Len(queue) <= QueueCap
    /\ worker \in {"waiting", "picked", "ending", "done", "exited"}
    /\ request \in Request \cup {NoRequest}
    /\ workerStop \in BOOLEAN

\* Every variable has its type; in particular the finish queue never grows
\* beyond its array (session_arbiter.c:448).
TypeOK ==
    /\ CoordinatorTypeOK /\ OwnerTypeOK /\ TicketTypeOK /\ WorkerTypeOK
    /\ transition \in Transition \cup {NoTransition}
    /\ closed \in BOOLEAN
    /\ halt \in {"no", "sealing", "sealed", "draining", "done"}
    /\ asked \in BOOLEAN /\ withdrawn \in BOOLEAN

\* Whenever nobody is changing the session, what the arbiter calls the owner
\* is exactly what the coordinator has running: no adapter outlives its
\* session, and no session is owned that does not run.  Only the stream may be
\* missing, when it failed to start.
OwnerIsRunning ==
    Free /\ ~closed => IF owner = "NONE" THEN running \subseteq {"STREAM"}
                                        ELSE running = {owner}

\* One business on the TiRTC runtime at a time, and product resources are held
\* for the running business only, save while its adapter is starting.
OneBusinessOnTheRuntime ==
    /\ \A b, c \in held : b = c
    /\ IF call.pc = "adapter" THEN running = {} /\ held = {call.target}
                              ELSE held = running

\* The coordinator's own busy checks (session_coordinator.c:112-125) are never
\* what refuses a session: the arbiter has admitted only what can start.
CoordinatorNeverRefuses ==
    call.op = "begin" /\ call.pc = "enter" => ~BeginRefused(call.target)

\* While an action of a session runs (connecting, answering), that session
\* owns the runtime and its adapter is the running one.
ActionRunsOnItsAdapter ==
    transition.op = "action" => /\ Current(transition.kind, transition.generation)
                                /\ running = {transition.kind}

EndOnItsWay(gen) ==
    \/ \E i \in 1..Len(queue) : queue[i].generation = gen
    \/ worker = "picked" /\ request.generation = gen

\* A ticket beside a session that is not the room is that very session's,
\* ringing again while its end is on the way to the worker; so it can neither
\* be answered over a live session nor block the next one for good.  Holds
\* as long as the queue does not overflow.
TicketUnderOwner ==
    ticket # NoTicket /\ owner \notin {"NONE", "ROOM"} =>
        /\ ticket.kind = owner /\ ticket.id = ownerId
        /\ EndOnItsWay(generation)

\* When the sealing of the shutdown is over, nothing runs, nothing is owned or
\* may be answered, whatever other threads still try.
ClosedIsFinal ==
    halt \in {"sealed", "draining", "done"} =>
        /\ sealed /\ running = {} /\ held = {}
        /\ owner = "NONE" /\ ticket = NoTicket

\* The five together, as the runs check them: the arbiter's owner and the
\* coordinator's business are changed under two locks and agree after any
\* crossing of begins, ends, actions, failures and the shutdown.
RuntimeAndOwnerAgree ==
    /\ OwnerIsRunning /\ OneBusinessOnTheRuntime /\ CoordinatorNeverRefuses
    /\ ActionRunsOnItsAdapter /\ ClosedIsFinal

\* A begin that failed brings its ticket back only as if nothing had happened:
\* never when the call was cancelled while it was starting, and never over a
\* ticket that appeared meanwhile (session_arbiter.c:331-339).
RollbackOnlyUndoesBegin ==
    [][CommitBegin /\ (withdrawn \/ ticket # NoTicket) => ticket' = ticket]_vars

-----------------------------------------------------------------------------
(* Why the safety properties hold: where the holder of transition_lock is,  *)
(* in the arbiter and inside the coordinator, determines what is running.   *)

Resting == {"NONE", "STREAM"}      \* values of current without a session

HolderInv ==
    /\ transition.op \in {"free", "action"} <=> call.pc = "idle"
    /\ transition.op = "begin" => call.op = "begin"
    /\ transition.op = "end" => call.op \in {"finish", "stream"}
    /\ transition.op = "shutdown" =>
          call.op = "shutdown" /\ call.pc \in {"enter", "returned"}

RuntimeInv ==
    CASE call.pc = "acquire" -> current = "NONE" /\ running = {} /\ held = {}
      [] call.pc = "adapter" ->
            current = "NONE" /\ running = {} /\ held = {call.target}
      [] OTHER -> /\ held = running
                  /\ running = IF current = "NONE" THEN {} ELSE {current}

IdleInv ==
    transition.op \in {"free", "action"} /\ ~closed =>
        IF owner = "NONE" THEN current \in Resting ELSE current = owner

ActionInv ==
    transition.op = "action" => /\ transition.kind \in Kinds
                                /\ Current(transition.kind, transition.generation)

BeginInv ==
    transition.op = "begin" =>
        /\ StillOwner /\ ~closed /\ transition.kind \in Kinds
        /\ \/ /\ call.pc = "enter"
              /\ call.rc = "ok" /\ call.target = transition.kind
              /\ current \in Resting \/ (current = "ROOM" /\ call.target # "ROOM")
           \/ /\ call.pc \in {"acquire", "adapter"}
              /\ IF call.rc = "ok" THEN call.target = transition.kind
                                   ELSE call.target = "STREAM"
           \/ /\ call.pc = "returned"
              /\ IF call.rc = "ok" THEN current = transition.kind
                                   ELSE current \in Resting

EndInv ==
    transition.op = "end" =>
        /\ owner = "NONE" /\ ~closed /\ transition.kind \in Kinds
        /\ \/ /\ call.pc = "enter" /\ call.op = "finish"
              /\ call.target = transition.kind
              /\ current \in Resting \cup {transition.kind}
           \/ call.pc = "enter" /\ call.op = "stream" /\ current \in Resting
           \/ call.pc \in {"acquire", "adapter"} /\ call.target = "STREAM"
           \/ call.pc = "returned" /\ current \in Resting

ClosedInv ==
    /\ sealed <=> closed /\ ~(transition.op = "shutdown" /\ call.pc = "enter")
    /\ sealed => current = "NONE"
    /\ closed => owner = "NONE" /\ ticket = NoTicket
                 /\ transition.op \in {"free", "shutdown"}
    /\ closed <=> halt # "no"
    /\ halt = "sealing" <=> transition.op = "shutdown"

\* Whoever ends a session was asked to: no end waits that was not asked for.
AskedInv ==
    /\ ownerCancelled => withdrawn
    /\ \A i \in 1..Len(queue) :
          /\ queue[i].generation <= generation
          /\ queue[i].generation = generation => asked
    /\ worker = "picked" => /\ request.kind # "NONE"
                            /\ request.generation <= generation
                            /\ request.generation = generation => asked

ControlInv ==
    HolderInv /\ RuntimeInv /\ IdleInv /\ ActionInv /\ BeginInv /\ EndInv

\* An entry of the present session is of its kind, and the entries of the queue
\* come from different sessions, in their order.
Entry(r) == r.generation = generation /\ owner # "NONE" => r.kind = owner

InOrder == \A i, j \in 1..Len(queue) :
    i < j => queue[i].generation < queue[j].generation

QueueInv ==
    /\ \A i \in 1..Len(queue) : Entry(queue[i])
    /\ InOrder
    /\ worker = "picked" => Entry(request)

\* What happened to the call or to the ticket since a begin consumed it.
TouchInv ==
    transition.op = "begin" =>
        /\ withdrawn => ownerCancelled \/ ticketTouched
        /\ ticket # NoTicket => ticketTouched

\* The queue is full of ends of earlier sessions, each of another session, which
\* the worker has not come to.
Backlog ==
    /\ Len(queue) = QueueCap /\ InOrder
    /\ \A i \in 1..Len(queue) : queue[i].generation < generation

\* The end of the present session is queued already, or there is room for it.
RoomForTheEnd ==
    owner # "NONE" /\ Len(queue) = QueueCap =>
        Queued([kind |-> owner, generation |-> generation])

\* Inductive: true at first and kept by every step (SessionArbiterProofs).
Inductive == ControlInv /\ ClosedInv /\ AskedInv

-----------------------------------------------------------------------------
(* The arbiter implements SessionOwnership.                                 *)

Phase == IF owner = "NONE" THEN "free"
         ELSE IF transition.op = "begin" THEN "starting" ELSE "running"

Ownership == INSTANCE SessionOwnership
    WITH holder <- owner, term <- generation, phase <- Phase,
         endAsked <- (asked \/ withdrawn), shut <- closed

\* Sessions get, keep and lose the runtime as SessionOwnership allows: an end
\* for an earlier session never ends a later one.
OwnershipSpec == Ownership!Spec

-----------------------------------------------------------------------------
(* Liveness.                                                                *)

\* A session whose end was reported (finish_lease_async) does end, whatever
\* actions, tickets and failures go on beside it.
AskedToEndEnds ==
    \A gen \in 1..MaxGeneration :
        (asked /\ generation = gen) ~> (owner = "NONE" \/ generation # gen)

\* The shutdown ends: the queue drains and the worker is joined.
ShutdownCompletes == closed ~> halt = "done"

=============================================================================
