------------------------ MODULE SessionArbiterProofs ------------------------
(***************************************************************************)
(* Theorems of SessionArbiter for every set of kinds and rooms, every      *)
(* queue capacity, and every number of sessions and failures: types, the   *)
(* inductive invariant of the control, what follows from it for ends,      *)
(* tickets and begins, and the refinement of SessionOwnership.             *)
(***************************************************************************)
EXTENDS SessionArbiter, TLAPS

-----------------------------------------------------------------------------
(* Type correctness.                                                       *)

\* After a failure the call goes on with the stream, or returns.
LEMMA StartFailedType ==
    ASSUME CoordinatorTypeOK, StartFailed, call.pc \in {"acquire", "adapter"}
    PROVE  /\ failures' \in 0..MaxFailures
           /\ call' \in Call
           /\ call'.pc \in {"acquire", "returned"}
           /\ call'.target \in Business
<1>1. failures' \in 0..MaxFailures
  BY MaxFailuresAssumption DEF StartFailed, CoordinatorTypeOK
<1>2. call' \in {[call EXCEPT !.pc = "acquire", !.target = "STREAM", !.rc = "failed"],
                 [call EXCEPT !.pc = "returned", !.rc = "failed"]}
  BY DEF StartFailed, Return
<1> QED
  BY <1>1, <1>2 DEF CoordinatorTypeOK, Call, Business

\* The steps inside the coordinator keep its own types.
LEMMA CoordinatorStepType ==
    ASSUME CoordinatorTypeOK, CoordinatorNext
    PROVE  CoordinatorTypeOK'
<1> USE DEF CoordinatorTypeOK, Call, Operation, Business, Return, StopCurrent,
            StopThenStart
<1>1. CASE EnterBegin BY <1>1 DEF EnterBegin
<1>2. CASE EnterFinish BY <1>2 DEF EnterFinish
<1>3. CASE EnterStream BY <1>3 DEF EnterStream
<1>4. CASE EnterShutdown BY <1>4 DEF EnterShutdown
<1>5. CASE ResourceAcquired BY <1>5 DEF ResourceAcquired
<1>6. CASE ResourceDenied BY <1>6, StartFailedType DEF ResourceDenied
<1>7. CASE AdapterStarted BY <1>7 DEF AdapterStarted
<1>8. CASE AdapterFailed BY <1>8, StartFailedType DEF AdapterFailed
<1> QED BY <1>1, <1>2, <1>3, <1>4, <1>5, <1>6, <1>7, <1>8 DEF CoordinatorNext

\* The variables the arbiter shares with nobody, in the groups of TypeOK.
ArbiterTypeOK ==
    /\ transition \in Transition \cup {NoTransition}
    /\ closed \in BOOLEAN
    /\ halt \in {"no", "sealing", "sealed", "draining", "done"}
    /\ asked \in BOOLEAN /\ withdrawn \in BOOLEAN

LEMMA UnchangedTypes ==
    ASSUME TypeOK
    PROVE  /\ UNCHANGED coordinatorVars => CoordinatorTypeOK'
           /\ UNCHANGED arbiterState => OwnerTypeOK'
           /\ UNCHANGED ticketVars => TicketTypeOK'
           /\ UNCHANGED <<queue, workerVars>> => WorkerTypeOK'
           /\ UNCHANGED <<transition, closed, halt, history>> => ArbiterTypeOK'
BY DEF TypeOK, coordinatorVars, CoordinatorTypeOK, arbiterState, OwnerTypeOK, ticketVars,
       TicketTypeOK, workerVars, WorkerTypeOK, history, ArbiterTypeOK

\* Expiring the ticket keeps it a ticket.
LEMMA LiveType ==
    ASSUME TypeOK, NEW due \in BOOLEAN
    PROVE  Live(due) \in Ticket \cup {NoTicket}
BY DEF TypeOK, TicketTypeOK, Live

LEMMA TouchType ==
    ASSUME NEW changed \in BOOLEAN, Touch(changed), TypeOK
    PROVE  ticketTouched' \in BOOLEAN
BY DEF Touch, TypeOK, TicketTypeOK

LEMMA OfferPendingType ==
    ASSUME TypeOK, NEW kind \in Kinds, NEW id \in Id, NEW timed \in BOOLEAN,
           OfferPending(kind, id, timed)
    PROVE  TypeOK'
<1>1. PICK due \in BOOLEAN :
        /\ ticket' \in {[kind |-> kind, id |-> id, timed |-> timed], Live(due)}
        /\ Touch(TRUE) \/ Touch(due)
  BY DEF OfferPending
<1>2. [kind |-> kind, id |-> id, timed |-> timed] \in Ticket
  BY DEF Ticket
<1>3. TicketTypeOK'
  BY <1>1, <1>2, LiveType, TouchType DEF TicketTypeOK
<1> QED
  BY <1>3, UnchangedTypes DEF TypeOK, ArbiterTypeOK, OfferPending, workerVars, history

LEMMA AdmitIncomingType ==
    ASSUME TypeOK, NEW kind \in Kinds, NEW id \in Id, NEW timed \in BOOLEAN,
           AdmitIncoming(kind, id, timed)
    PROVE  TypeOK'
<1>1. PICK due \in BOOLEAN :
        /\ ticket' \in {[kind |-> kind, id |-> id, timed |-> timed], Live(due)}
        /\ Touch(TRUE) \/ Touch(due)
  BY DEF AdmitIncoming
<1>2. [kind |-> kind, id |-> id, timed |-> timed] \in Ticket
  BY DEF Ticket
<1>3. TicketTypeOK'
  BY <1>1, <1>2, LiveType, TouchType DEF TicketTypeOK
<1> QED
  BY <1>3, UnchangedTypes DEF TypeOK, ArbiterTypeOK, AdmitIncoming, workerVars, history

LEMMA CancelIdType ==
    ASSUME TypeOK, NEW kind \in Kinds, NEW id, CancelId(kind, id)
    PROVE  TypeOK'
<1>1. PICK due \in BOOLEAN : ticket' \in {NoTicket, Live(due)}
  BY DEF CancelId
<1>2. ticketTouched' \in BOOLEAN
  BY DEF CancelId, Touch, TypeOK, TicketTypeOK
<1>3. ownerCancelled' \in BOOLEAN /\ withdrawn' \in BOOLEAN
  BY DEF CancelId, TypeOK, OwnerTypeOK
<1>4. TicketTypeOK'
  BY <1>1, <1>2, LiveType DEF TicketTypeOK
<1>5. OwnerTypeOK' /\ ArbiterTypeOK'
  BY <1>3 DEF CancelId, TypeOK, OwnerTypeOK, ArbiterTypeOK
<1> QED
  BY <1>4, <1>5, UnchangedTypes DEF TypeOK, ArbiterTypeOK, CancelId

LEMMA LookAtTicketType == TypeOK /\ LookAtTicket => TypeOK'
<1> SUFFICES ASSUME TypeOK, LookAtTicket PROVE TypeOK'
  OBVIOUS
<1>1. TicketTypeOK'
  BY TouchType DEF LookAtTicket, TicketTypeOK
<1> QED
  BY <1>1, UnchangedTypes DEF TypeOK, ArbiterTypeOK, LookAtTicket, workerVars, history
\* The queue takes a request as long as it has room.
LEMMA EnqueueType ==
    ASSUME TypeOK, NEW r \in Request
    PROVE  Enqueue(r) \in Seq(Request) /\ Len(Enqueue(r)) <= QueueCap
<1>1. CASE Queued(r) \/ Len(queue) = QueueCap
  BY <1>1 DEF Enqueue, TypeOK, WorkerTypeOK
<1>2. CASE ~(Queued(r) \/ Len(queue) = QueueCap)
  <2>1. queue \in Seq(Request) /\ Len(queue) \in Nat /\ Len(queue) <= QueueCap
    BY DEF TypeOK, WorkerTypeOK
  <2>2. Append(queue, r) \in Seq(Request) /\ Len(Append(queue, r)) = Len(queue) + 1
    BY <2>1
  <2> QED
    BY <1>2, <2>1, <2>2, QueueCapAssumption DEF Enqueue
<1> QED
  BY <1>1, <1>2

LEMMA FinishAsyncType ==
    ASSUME TypeOK, NEW kind \in Kinds, NEW gen \in 1..generation,
           NEW restore \in BOOLEAN, FinishAsync(kind, gen, restore)
    PROVE  TypeOK'
<1> DEFINE r == [kind |-> kind, generation |-> gen]
<1>1. r \in Request
  BY MaxGenerationAssumption DEF Request, TypeOK, OwnerTypeOK
<1>2. WorkerTypeOK'
  <2>1. queue' = Enqueue(r) /\ UNCHANGED workerVars
    BY DEF FinishAsync
  <2> HIDE DEF r
  <2>2. queue' \in Seq(Request) /\ Len(queue') <= QueueCap
    BY <1>1, <2>1, EnqueueType
  <2> QED
    BY <2>1, <2>2 DEF TypeOK, WorkerTypeOK, workerVars
<1>3. TicketTypeOK'
  <2>1. [kind |-> kind, id |-> ownerId, timed |-> TRUE] \in Ticket
    BY DEF Ticket, TypeOK, OwnerTypeOK
  <2>2. ticket' \in Ticket \cup {NoTicket}
    BY <2>1 DEF FinishAsync, TypeOK, TicketTypeOK
  <2>3. ticketTouched' \in BOOLEAN
    BY DEF FinishAsync, Touch, TypeOK, TicketTypeOK
  <2> QED
    BY <2>2, <2>3 DEF TicketTypeOK
<1>4. ArbiterTypeOK'
  BY DEF FinishAsync, TypeOK, ArbiterTypeOK
<1> QED
  BY <1>2, <1>3, <1>4, UnchangedTypes DEF TypeOK, ArbiterTypeOK, FinishAsync

\* A call of the coordinator is well typed as it enters.
LEMMA InvocationType ==
    ASSUME NEW op \in Operation, NEW target \in Business \cup {"NONE"},
           op = "begin" => target \in Business,
           TypeOK, CoordinatorIdle, call' = Invocation(op, target)
    PROVE  CoordinatorTypeOK'
BY DEF Operation, Invocation, TypeOK, CoordinatorIdle, CoordinatorTypeOK, Call

LEMMA NoCallType ==
    ASSUME TypeOK, CoordinatorIdle, call' \in {NoCall, call}
    PROVE  CoordinatorTypeOK'
BY DEF NoCall, TypeOK, CoordinatorIdle, CoordinatorTypeOK, Call, Operation

\* Every transition starts from NoTransition with a few fields set.
LEMMA TransitionType ==
    ASSUME NEW op \in {"begin", "action", "end", "shutdown"},
           NEW kind \in Kinds \cup {"NONE"},
           NEW gen \in 0..MaxGeneration, NEW consumed \in Ticket \cup {NoTicket},
           NEW byWorker \in BOOLEAN
    PROVE  [op |-> op, kind |-> kind, generation |-> gen, consumed |-> consumed,
            retries |-> 0, byWorker |-> byWorker] \in Transition
BY DEF Transition

LEMMA StartEndingType ==
    ASSUME TypeOK, CoordinatorIdle, NEW kind \in Kinds \cup {"NONE"},
           NEW byWorker \in BOOLEAN, StartEnding(kind, byWorker)
    PROVE  CoordinatorTypeOK' /\ transition' \in Transition
<1>1. CoordinatorTypeOK'
  BY InvocationType DEF StartEnding, Operation, Business
<1>2. transition' = [op |-> "end", kind |-> kind, generation |-> 0,
                     consumed |-> NoTicket, retries |-> 0, byWorker |-> byWorker]
  BY DEF StartEnding, NoTransition
<1>3. 0 \in 0..MaxGeneration
  BY MaxGenerationAssumption
<1> QED
  BY <1>1, <1>2, <1>3, TransitionType

LEMMA ClearOwnerType ==
    ASSUME TypeOK, ClearOwner
    PROVE  OwnerTypeOK'
BY DEF ClearOwner, TypeOK, OwnerTypeOK, Id

LEMMA TicketId ==
    ASSUME NEW t \in Ticket \cup {NoTicket}
    PROVE  t.id \in Id
<1>1. CASE t \in Ticket BY <1>1 DEF Ticket
<1>2. CASE t = NoTicket BY <1>2 DEF NoTicket, Id
<1> QED BY <1>1, <1>2

LEMMA BeginType ==
    ASSUME TypeOK, NEW kind \in Kinds, NEW consume \in BOOLEAN,
           NEW id \in Id \cup {AnyId}, ~consume => id \in Id,
           Begin(kind, consume, id)
    PROVE  TypeOK'
<1> DEFINE Granted(t) ==
             /\ ticket' = NoTicket /\ ticketTouched' = FALSE
             /\ owner' = kind
             /\ ownerId' = IF consume THEN t.id ELSE id
             /\ ownerCancelled' = FALSE
             /\ generation' = generation + 1
             /\ asked' = FALSE /\ withdrawn' = FALSE
             /\ transition' = [NoTransition EXCEPT
                                 !.op = "begin", !.kind = kind,
                                 !.generation = generation + 1,
                                 !.consumed = t]
             /\ call' = Invocation("begin", kind)
           Refused(t, due) ==
             /\ ticket' = t /\ Touch(due)
             /\ UNCHANGED <<arbiterState, history, transition, call>>
<1>1. /\ CoordinatorIdle /\ UNCHANGED <<closed, queue, workerVars, halt>>
      /\ generation < MaxGeneration
  BY DEF Begin
<1>2. PICK due \in BOOLEAN : Granted(Live(due)) \/ Refused(Live(due), due)
  BY DEF Begin
<1>3. PICK t \in Ticket \cup {NoTicket} : Granted(t) \/ Refused(t, due)
  BY <1>2, LiveType
<1>4. generation \in Nat /\ MaxGeneration \in Nat
      /\ generation + 1 \in 0..MaxGeneration
  BY <1>1, MaxGenerationAssumption DEF TypeOK, OwnerTypeOK
<1>5. CASE Granted(t)
  <2>1. transition' \in Transition
    <3>1. transition' = [op |-> "begin", kind |-> kind, generation |-> generation + 1,
                         consumed |-> t, retries |-> 0, byWorker |-> FALSE]
      BY <1>5 DEF NoTransition
    <3> QED
      BY <1>3, <1>4, <3>1, TransitionType
  <2>2. CoordinatorTypeOK'
    BY <1>1, <1>5, InvocationType DEF Operation, Business
  <2>3. ownerId' \in Id
    BY <1>3, <1>5, TicketId
  <2>4. OwnerTypeOK' /\ TicketTypeOK'
    BY <1>4, <1>5, <2>3 DEF OwnerTypeOK, TicketTypeOK
  <2>5. ArbiterTypeOK'
    BY <1>1, <1>5, <2>1 DEF TypeOK, ArbiterTypeOK
  <2>6. WorkerTypeOK'
    BY <1>1, UnchangedTypes
  <2> QED
    BY <2>2, <2>4, <2>5, <2>6 DEF TypeOK, ArbiterTypeOK
<1>6. CASE Refused(t, due)
  <2>1. TicketTypeOK'
    BY <1>6, TouchType DEF TicketTypeOK
  <2>2. CoordinatorTypeOK'
    BY <1>1, <1>6, NoCallType
  <2>3. ArbiterTypeOK' /\ OwnerTypeOK' /\ WorkerTypeOK'
    BY <1>1, <1>6, UnchangedTypes
  <2> QED
    BY <2>1, <2>2, <2>3 DEF TypeOK, ArbiterTypeOK
<1> HIDE DEF Granted, Refused
<1> QED
  BY <1>3, <1>5, <1>6
LEMMA CommitBeginType == TypeOK /\ CommitBegin => TypeOK'
<1> SUFFICES ASSUME TypeOK, CommitBegin PROVE TypeOK'
  OBVIOUS
<1>1. CoordinatorIdle /\ UNCHANGED <<closed, queue, workerVars, halt, history>>
      /\ ticketTouched' = FALSE
  BY DEF CommitBegin
<1>2. transition.kind \in Kinds \cup {"NONE"}
      /\ transition.consumed \in Ticket \cup {NoTicket}
  BY DEF TypeOK, Transition, NoTransition
<1>3. OwnerTypeOK'
  BY ClearOwnerType, UnchangedTypes DEF CommitBegin
<1>4. TicketTypeOK'
  BY <1>1, <1>2 DEF CommitBegin, TypeOK, TicketTypeOK
<1>5. CoordinatorTypeOK' /\ transition' \in Transition \cup {NoTransition}
  <2>1. CASE StartEnding(transition.kind, FALSE)
    BY <1>1, <1>2, <2>1, StartEndingType
  <2>2. CASE transition' = NoTransition /\ call' = NoCall
    BY <1>1, <2>2, NoCallType
  <2> QED
    BY <2>1, <2>2 DEF CommitBegin
<1> QED
  BY <1>1, <1>3, <1>4, <1>5, UnchangedTypes DEF TypeOK, history

LEMMA RunActionType ==
    ASSUME TypeOK, NEW kind \in Kinds, NEW gen \in 1..generation, NEW id,
           RunAction(kind, gen, id)
    PROVE  TypeOK'
<1>1. transition' = [op |-> "action", kind |-> kind, generation |-> gen,
                     consumed |-> NoTicket, retries |-> 0, byWorker |-> FALSE]
  BY DEF RunAction, NoTransition
<1>2. gen \in 0..MaxGeneration
  BY MaxGenerationAssumption DEF TypeOK, OwnerTypeOK
<1>3. transition' \in Transition
  BY <1>1, <1>2, TransitionType
<1> QED
  BY <1>3, UnchangedTypes DEF RunAction, TypeOK, history

LEMMA CommitActionType ==
    ASSUME TypeOK, NEW ok \in BOOLEAN, CommitAction(ok)
    PROVE  TypeOK'
<1>1. CoordinatorIdle
      /\ UNCHANGED <<ticketVars, closed, queue, workerVars, halt, withdrawn>>
  BY DEF CommitAction
<1>2. transition.kind \in Kinds \cup {"NONE"}
  BY DEF TypeOK, Transition, NoTransition
<1>3. OwnerTypeOK'
  BY ClearOwnerType, UnchangedTypes DEF CommitAction
<1>4. CoordinatorTypeOK' /\ transition' \in Transition \cup {NoTransition}
  <2>1. CASE StartEnding(transition.kind, FALSE)
    BY <1>1, <1>2, <2>1, StartEndingType
  <2>2. CASE transition' = NoTransition /\ call' = call
    BY <1>1, <2>2, NoCallType
  <2> QED
    BY <2>1, <2>2 DEF CommitAction
<1>5. asked' \in BOOLEAN
  BY DEF CommitAction, TypeOK
<1> QED
  BY <1>1, <1>3, <1>4, <1>5, UnchangedTypes DEF TypeOK

LEMMA FinishLeaseType ==
    ASSUME TypeOK, NEW kind \in Kinds, NEW gen \in 1..generation,
           FinishLease(kind, gen)
    PROVE  TypeOK'
<1>1. CoordinatorIdle /\ ClearOwner /\ StartEnding(kind, FALSE)
      /\ UNCHANGED <<ticketVars, closed, queue, workerVars, halt, withdrawn>>
  BY DEF FinishLease
<1>2. OwnerTypeOK' /\ CoordinatorTypeOK' /\ transition' \in Transition
  BY <1>1, ClearOwnerType, StartEndingType
<1>3. asked' \in BOOLEAN
  BY DEF FinishLease, TypeOK
<1> QED
  BY <1>1, <1>2, <1>3, UnchangedTypes DEF TypeOK

LEMMA EndReturnedType == TypeOK /\ EndReturned => TypeOK'
<1> SUFFICES ASSUME TypeOK, EndReturned PROVE TypeOK'
  OBVIOUS
<1>1. CoordinatorIdle
      /\ UNCHANGED <<arbiterState, ticketVars, closed, queue, request,
                     workerStop, halt, history>>
  BY DEF EndReturned
<1>2. CASE /\ transition.retries < RecoveryAttempts
           /\ transition' = [transition EXCEPT !.retries = @ + 1]
           /\ call' = Invocation("stream", "STREAM")
           /\ UNCHANGED worker
  <2>1. transition \in Transition
    BY DEF EndReturned, TypeOK, NoTransition
  <2>2. transition' \in Transition
    BY <1>2, <2>1 DEF Transition, RecoveryAttempts
  <2>3. CoordinatorTypeOK'
    BY <1>1, <1>2, InvocationType DEF Operation, Business
  <2> QED
    BY <1>1, <1>2, <2>2, <2>3, UnchangedTypes DEF TypeOK, history, workerVars
<1>3. CASE /\ transition' = NoTransition /\ call' = NoCall
           /\ worker' \in {"done", worker}
  <2>1. CoordinatorTypeOK'
    BY <1>1, <1>3, NoCallType
  <2>2. WorkerTypeOK'
    BY <1>1, <1>3 DEF TypeOK, WorkerTypeOK
  <2> QED
    BY <1>1, <1>3, <2>1, <2>2, UnchangedTypes DEF TypeOK, history
<1> QED
  BY <1>2, <1>3 DEF EndReturned

LEMMA WorkerPickType == TypeOK /\ WorkerPick => TypeOK'
<1> SUFFICES ASSUME TypeOK, WorkerPick PROVE TypeOK'
  OBVIOUS
<1>1. Head(queue) \in Request /\ Tail(queue) \in Seq(Request)
      /\ Len(Tail(queue)) <= QueueCap
  BY QueueCapAssumption DEF WorkerPick, TypeOK, WorkerTypeOK
<1>2. WorkerTypeOK'
  BY <1>1 DEF WorkerPick, TypeOK, WorkerTypeOK
<1> QED
  BY <1>2, UnchangedTypes DEF WorkerPick, TypeOK, ArbiterTypeOK

LEMMA WorkerFinishType == TypeOK /\ WorkerFinish => TypeOK'
<1> SUFFICES ASSUME TypeOK, WorkerFinish PROVE TypeOK'
  OBVIOUS
<1>1. CoordinatorIdle
      /\ UNCHANGED <<ticketVars, closed, queue, request, workerStop, halt, history>>
  BY DEF WorkerFinish
<1>2. WorkerTypeOK'
  BY <1>1 DEF WorkerFinish, TypeOK, WorkerTypeOK
<1>3. OwnerTypeOK'
  BY ClearOwnerType, UnchangedTypes DEF WorkerFinish
<1>4. request.kind \in Kinds \cup {"NONE"}
  BY DEF TypeOK, WorkerTypeOK, Request, NoRequest
<1>5. CoordinatorTypeOK' /\ transition' \in Transition \cup {NoTransition}
  <2>1. CASE StartEnding(request.kind, TRUE)
    BY <1>1, <1>4, <2>1, StartEndingType
  <2>2. CASE UNCHANGED <<transition, call>>
    BY <1>1, <2>2, NoCallType DEF TypeOK
  <2> QED
    BY <2>1, <2>2 DEF WorkerFinish
<1> QED
  BY <1>1, <1>2, <1>3, <1>5, UnchangedTypes DEF TypeOK, history

LEMMA WorkerDoneType == TypeOK /\ (WorkerDone \/ WorkerExit) => TypeOK'
<1> SUFFICES ASSUME TypeOK, WorkerDone \/ WorkerExit PROVE TypeOK'
  OBVIOUS
<1>1. WorkerTypeOK'
  BY DEF WorkerDone, WorkerExit, TypeOK, WorkerTypeOK
<1> QED
  BY <1>1, UnchangedTypes DEF WorkerDone, WorkerExit, TypeOK, ArbiterTypeOK

LEMMA ShutdownType ==
    ASSUME TypeOK, ShutdownClose \/ ShutdownSealed
    PROVE  TypeOK'
<1>1. CASE ShutdownClose
  <2>1. CoordinatorTypeOK'
    BY <1>1, InvocationType DEF ShutdownClose, Operation, Business
  <2>2. transition' = [op |-> "shutdown", kind |-> "NONE", generation |-> 0,
                       consumed |-> NoTicket, retries |-> 0, byWorker |-> FALSE]
    BY <1>1 DEF ShutdownClose, NoTransition
  <2>3. transition' \in Transition
    <3>1. 0 \in 0..MaxGeneration
      BY MaxGenerationAssumption
    <3> QED
      BY <2>2, <3>1, TransitionType
  <2>4. TicketTypeOK' /\ OwnerTypeOK'
    BY <1>1, ClearOwnerType DEF ShutdownClose, TypeOK, TicketTypeOK
  <2>5. WorkerTypeOK'
    BY <1>1, UnchangedTypes DEF ShutdownClose
  <2>6. ArbiterTypeOK'
    BY <1>1, <2>3 DEF ShutdownClose, TypeOK, ArbiterTypeOK, history
  <2> QED
    BY <2>1, <2>4, <2>5, <2>6 DEF TypeOK, ArbiterTypeOK
<1>2. CASE ShutdownSealed
  <2>1. CoordinatorTypeOK'
    BY <1>2, NoCallType DEF ShutdownSealed
  <2> QED
    BY <1>2, <2>1, UnchangedTypes DEF ShutdownSealed, TypeOK, history
<1> QED
  BY <1>1, <1>2

LEMMA ShutdownWaitType ==
    ASSUME TypeOK, ShutdownStopsWorker \/ ShutdownJoined
    PROVE  TypeOK'
<1>1. WorkerTypeOK'
  BY UnchangedTypes DEF ShutdownStopsWorker, ShutdownJoined, TypeOK, WorkerTypeOK
<1> QED
  BY <1>1, UnchangedTypes DEF ShutdownStopsWorker, ShutdownJoined, TypeOK, history

LEMMA InitType == Init => TypeOK
<1> SUFFICES ASSUME Init PROVE TypeOK
  OBVIOUS
<1> USE DEF Init, CoordinatorInit, ArbiterInit
<1>1. CoordinatorTypeOK
  <2>1. 0 \in 0..MaxFailures
    BY MaxFailuresAssumption
  <2>2. call \in Call
    BY DEF NoCall, Call, Operation
  <2> QED
    BY <2>1, <2>2 DEF CoordinatorTypeOK, Business, NoCall
<1>2. OwnerTypeOK
  <2>1. 0 \in 0..MaxGeneration
    BY MaxGenerationAssumption
  <2> QED
    BY <2>1 DEF OwnerTypeOK, Id
<1>3. TicketTypeOK
  BY DEF TicketTypeOK
<1>4. WorkerTypeOK
  <2>1. queue \in Seq(Request) /\ Len(queue) = 0
    OBVIOUS
  <2>2. 0 <= QueueCap
    BY QueueCapAssumption
  <2>3. worker = "waiting" /\ request = NoRequest /\ workerStop = FALSE
    OBVIOUS
  <2> HIDE DEF Init, CoordinatorInit, ArbiterInit
  <2> QED
    BY <2>1, <2>2, <2>3 DEF WorkerTypeOK
<1>5. ArbiterTypeOK
  BY DEF ArbiterTypeOK
<1> QED
  BY <1>1, <1>2, <1>3, <1>4, <1>5 DEF TypeOK, ArbiterTypeOK

LEMMA ProducersType == TypeOK /\ Producers => TypeOK'
<1> SUFFICES ASSUME TypeOK, Producers PROVE TypeOK'
  OBVIOUS
<1> USE DEF Id, IncomingKinds
<1>1. CASE "CALL" \in Kinds /\ \E id \in Rooms : OfferPending("CALL", id, TRUE)
  BY <1>1, OfferPendingType
<1>2. CASE "VOIP" \in Kinds /\ \E id \in Rooms : AdmitIncoming("VOIP", id, TRUE)
  BY <1>2, AdmitIncomingType
<1>3. CASE \E kind \in IncomingKinds, id \in Id : CancelId(kind, id)
  BY <1>3, CancelIdType
<1>4. CASE LookAtTicket
  BY <1>4, LookAtTicketType
<1>5. CASE \E kind \in IncomingKinds, id \in Rooms \cup {AnyId} : Begin(kind, TRUE, id)
  BY <1>5, BeginType
<1>6. CASE \E kind \in Kinds, id \in Id :
              (kind # "ROOM" => id = NoId) /\ Begin(kind, FALSE, id)
  BY <1>6, BeginType
<1>7. CASE \E kind \in Kinds, gen \in 1..generation, id \in Id : RunAction(kind, gen, id)
  BY <1>7, RunActionType
<1>8. CASE \E kind \in Kinds, gen \in 1..generation : FinishLease(kind, gen)
  BY <1>8, FinishLeaseType
<1>9. CASE \E kind \in Kinds, gen \in 1..generation, restore \in BOOLEAN :
              (restore => kind = "CALL") /\ FinishAsync(kind, gen, restore)
  BY <1>9, FinishAsyncType
<1>10. CASE ShutdownClose
  BY <1>10, ShutdownType
<1> QED
  BY <1>1, <1>2, <1>3, <1>4, <1>5, <1>6, <1>7, <1>8, <1>9, <1>10 DEF Producers

LEMMA MachineryType == TypeOK /\ Machinery => TypeOK'
<1> SUFFICES ASSUME TypeOK, Machinery PROVE TypeOK'
  OBVIOUS
<1>1. CASE CommitBegin BY <1>1, CommitBeginType
<1>2. CASE \E ok \in BOOLEAN : CommitAction(ok) BY <1>2, CommitActionType
<1>3. CASE EndReturned BY <1>3, EndReturnedType
<1>4. CASE WorkerPick BY <1>4, WorkerPickType
<1>5. CASE WorkerFinish BY <1>5, WorkerFinishType
<1>6. CASE WorkerDone \/ WorkerExit BY <1>6, WorkerDoneType
<1>7. CASE ShutdownSealed BY <1>7, ShutdownType
<1>8. CASE ShutdownStopsWorker \/ ShutdownJoined BY <1>8, ShutdownWaitType
<1>9. CASE CoordinatorNext /\ UNCHANGED arbiterVars
  <2>1. CoordinatorTypeOK'
    BY <1>9, CoordinatorStepType DEF TypeOK
  <2> QED
    BY <1>9, <2>1, UnchangedTypes DEF arbiterVars, TypeOK, ArbiterTypeOK
<1> QED
  BY <1>1, <1>2, <1>3, <1>4, <1>5, <1>6, <1>7, <1>8, <1>9 DEF Machinery

\* Every reachable state is well typed; in particular the finish queue never
\* outgrows its array, however many threads report ends.
THEOREM TypeInvariant == Spec => []TypeOK
<1>1. Init => TypeOK
  BY InitType
<1>2. TypeOK /\ [Next]_vars => TypeOK'
  <2>1. TypeOK /\ UNCHANGED vars => TypeOK'
    BY UnchangedTypes DEF vars, arbiterVars, TypeOK, ArbiterTypeOK
  <2> QED
    BY <2>1, ProducersType, MachineryType DEF Next
<1> QED
  BY <1>1, <1>2, PTL DEF Spec

-----------------------------------------------------------------------------
(* Steps that leave the session and the runtime alone.                     *)

controlVars == <<current, sealed, held, running, call, owner, generation,
                 closed, transition>>

LEMMA ControlKept ==
    ASSUME ControlInv, UNCHANGED controlVars
    PROVE  ControlInv'
BY DEF controlVars, ControlInv, HolderInv, RuntimeInv, IdleInv, ActionInv, BeginInv,
       EndInv, Current, StillOwner

\* Nobody can take or restore a ticket once the arbiter is closed.
LEMMA ClosedKept ==
    ASSUME ClosedInv, UNCHANGED <<controlVars, halt>>, closed => ticket' = NoTicket
    PROVE  ClosedInv'
BY DEF controlVars, ClosedInv

LEMMA AskedKept ==
    ASSUME AskedInv, UNCHANGED <<generation, queue, worker, request, asked>>,
           ownerCancelled' => withdrawn'
    PROVE  AskedInv'
BY DEF AskedInv

LEMMA TicketStep ==
    ASSUME Inductive, UNCHANGED <<coordinatorVars, arbiterState, closed, queue,
                                  workerVars, transition, halt, history>>,
           closed => ticket' = NoTicket
    PROVE  Inductive'
<1>1. UNCHANGED <<controlVars, halt, generation, queue, worker, request, asked>>
      /\ UNCHANGED <<ownerCancelled, withdrawn>>
  BY DEF controlVars, coordinatorVars, arbiterState, workerVars, history
<1> QED
  BY <1>1, ControlKept, ClosedKept, AskedKept DEF Inductive, AskedInv

LEMMA OfferPendingSafe ==
    ASSUME Inductive, NEW kind, NEW id, NEW timed, OfferPending(kind, id, timed)
    PROVE  Inductive'
<1>1. closed => ticket' = NoTicket
  BY DEF OfferPending, OfferGranted, Live, Inductive, ClosedInv
<1> QED
  BY <1>1, TicketStep DEF OfferPending

LEMMA AdmitIncomingSafe ==
    ASSUME Inductive, NEW kind, NEW id, NEW timed, AdmitIncoming(kind, id, timed)
    PROVE  Inductive'
<1>1. closed => ticket' = NoTicket
  BY DEF AdmitIncoming, AdmitDecision, Live, Inductive, ClosedInv
<1> QED
  BY <1>1, TicketStep DEF AdmitIncoming

LEMMA LookAtTicketSafe ==
    ASSUME Inductive, LookAtTicket
    PROVE  Inductive'
BY TicketStep DEF LookAtTicket

LEMMA CancelIdSafe ==
    ASSUME Inductive, NEW kind, NEW id, CancelId(kind, id)
    PROVE  Inductive'
<1>1. UNCHANGED <<controlVars, halt>>
      /\ UNCHANGED <<generation, queue, worker, request, asked>>
  BY DEF CancelId, controlVars, coordinatorVars, workerVars
<1>2. closed => ticket' = NoTicket
  BY DEF CancelId, Live, Inductive, ClosedInv
<1>3. ownerCancelled' => withdrawn'
  BY DEF CancelId, Inductive, AskedInv
<1> QED
  BY <1>1, <1>2, <1>3, ControlKept, ClosedKept, AskedKept DEF Inductive
-----------------------------------------------------------------------------
(* The queue of ends.                                                      *)

QueueAsked(q, gen, a) ==
    \A i \in 1..Len(q) : /\ q[i].generation <= gen
                         /\ q[i].generation = gen => a

LEMMA FinishAsyncSafe ==
    ASSUME TypeOK, Inductive, NEW kind \in Kinds, NEW gen \in 1..generation, NEW restore,
           FinishAsync(kind, gen, restore)
    PROVE  Inductive'
<1> DEFINE r == [kind |-> kind, generation |-> gen]
<1>1. UNCHANGED <<controlVars, halt>> /\ UNCHANGED <<generation, worker, request>>
      /\ UNCHANGED <<ownerCancelled, withdrawn>>
  BY DEF FinishAsync, controlVars, coordinatorVars, arbiterState, workerVars
<1>2. ~closed /\ gen = generation /\ asked' = TRUE /\ queue' \in {queue, Append(queue, r)}
  BY DEF FinishAsync, Current, Enqueue
<1>3. QueueAsked(queue, generation, asked)
  BY DEF Inductive, AskedInv, QueueAsked
<1>4. QueueAsked(queue', generation, TRUE)
  <2>1. CASE queue' = queue
    BY <1>3, <2>1 DEF QueueAsked
  <2>2. CASE queue' = Append(queue, r)
    <3>1. queue \in Seq(Request) /\ generation \in Nat
      BY MaxGenerationAssumption DEF TypeOK, WorkerTypeOK, OwnerTypeOK
    <3>2. Len(queue') = Len(queue) + 1
          /\ \A i \in 1..Len(queue') : queue'[i] = IF i <= Len(queue) THEN queue[i] ELSE r
      BY <2>2, <3>1
    <3>3. r.generation = generation
      BY <1>2
    <3> QED
      BY <1>3, <3>1, <3>2, <3>3 DEF QueueAsked
  <2> QED
    BY <1>2, <2>1, <2>2
<1>5. AskedInv'
  BY <1>1, <1>2, <1>4 DEF QueueAsked, AskedInv, Inductive
<1> QED
  BY <1>1, <1>2, <1>5, ControlKept, ClosedKept DEF Inductive

LEMMA WorkerPickSafe ==
    ASSUME TypeOK, Inductive, WorkerPick
    PROVE  Inductive'
<1>1. UNCHANGED <<controlVars, halt>>
      /\ UNCHANGED <<generation, asked, ticket, ownerCancelled, withdrawn>>
  BY DEF WorkerPick, controlVars, coordinatorVars, arbiterState, history, ticketVars
<1>2. queue \in Seq(Request) /\ queue # <<>> /\ queue' = Tail(queue)
      /\ request' = Head(queue)
  BY DEF WorkerPick, TypeOK, WorkerTypeOK
<1>3. /\ Len(queue) \in Nat /\ Len(queue) >= 1 /\ Len(queue') = Len(queue) - 1
      /\ request' = queue[1]
      /\ \A i \in 1..Len(queue') : queue'[i] = queue[i + 1]
  BY <1>2
<1>4. QueueAsked(queue, generation, asked)
  BY DEF Inductive, AskedInv, QueueAsked
<1>5. QueueAsked(queue', generation, asked)
  <2>1. \A i \in 1..Len(queue') : i + 1 \in 1..Len(queue)
    BY <1>3
  <2> QED
    BY <1>3, <1>4, <2>1 DEF QueueAsked
<1>6. request'.generation <= generation /\ (request'.generation = generation => asked)
  <2>1. 1 \in 1..Len(queue)
    BY <1>3
  <2>2. queue[1].generation <= generation /\ (queue[1].generation = generation => asked)
    BY <1>4, <2>1 DEF QueueAsked
  <2> QED
    BY <1>3, <2>2
<1>7. request'.kind # "NONE"
  <2>1. 1 \in 1..Len(queue)
    BY <1>3
  <2>2. request' \in Request
    BY <1>2, <1>3, <2>1
  <2> QED
    BY <2>2, KindsAssumption DEF Request
<1>8. AskedInv'
  BY <1>1, <1>5, <1>6, <1>7 DEF QueueAsked, AskedInv, Inductive
<1> QED
  BY <1>1, <1>8, ControlKept, ClosedKept DEF Inductive, ClosedInv

LEMMA WorkerDoneSafe ==
    ASSUME Inductive, WorkerDone \/ WorkerExit
    PROVE  Inductive'
<1>1. UNCHANGED <<controlVars, halt>>
      /\ UNCHANGED <<generation, asked, ticket, ownerCancelled, withdrawn, queue>>
  BY DEF WorkerDone, WorkerExit, controlVars, coordinatorVars, arbiterState, history,
         ticketVars
<1>2. worker' # "picked"
  BY DEF WorkerDone, WorkerExit
<1>3. AskedInv'
  BY <1>1, <1>2 DEF AskedInv, Inductive
<1> QED
  BY <1>1, <1>3, ControlKept, ClosedKept DEF Inductive, ClosedInv

-----------------------------------------------------------------------------
(* Steps of the holder of transition_lock.                                 *)

\* What StartEnding establishes when the runtime is at rest or runs kind.
LEMMA StartEndingSafe ==
    ASSUME ControlInv, NEW kind \in Kinds, NEW byWorker \in BOOLEAN,
           call.pc \in {"idle", "returned"}, current \in Resting \cup {kind},
           ~closed, UNCHANGED closed,
           ClearOwner, CoordinatorIdle, StartEnding(kind, byWorker)
    PROVE  ControlInv'
<1>1. transition'.op = "end" /\ transition'.kind = kind
      /\ call' = [op |-> "finish", pc |-> "enter", target |-> kind, rc |-> "ok"]
  BY DEF StartEnding, NoTransition, Invocation
<1>2. UNCHANGED <<current, running, held>> /\ owner' = "NONE"
  BY DEF CoordinatorIdle, ClearOwner
<1>3. RuntimeInv'
  BY <1>1, <1>2 DEF ControlInv, RuntimeInv
<1>4. HolderInv' /\ IdleInv' /\ ActionInv' /\ BeginInv'
  BY <1>1 DEF HolderInv, IdleInv, ActionInv, BeginInv
<1>5. EndInv'
  BY <1>1, <1>2 DEF EndInv, Resting
<1> QED
  BY <1>3, <1>4, <1>5 DEF ControlInv
LEMMA BeginSafe ==
    ASSUME TypeOK, Inductive, NEW kind \in Kinds, NEW consume, NEW id,
           Begin(kind, consume, id)
    PROVE  Inductive'
<1>1. /\ CoordinatorIdle /\ UNCHANGED <<closed, queue, workerVars, halt>>
      /\ Free
  BY DEF Begin
<1>2. generation \in Nat
  BY MaxGenerationAssumption DEF TypeOK, OwnerTypeOK
<1>3. CASE /\ ~closed /\ Replaceable(kind)
           /\ ticket' = NoTicket /\ owner' = kind /\ ownerCancelled' = FALSE
           /\ generation' = generation + 1
           /\ transition'.op = "begin" /\ transition'.kind = kind
           /\ transition'.generation = generation + 1
           /\ call' = Invocation("begin", kind)
  <2>1. call' = [op |-> "begin", pc |-> "enter", target |-> kind, rc |-> "ok"]
    BY <1>3 DEF Invocation
  <2>2. call.pc = "idle"
    BY <1>1 DEF Inductive, ControlInv, HolderInv, Free
  <2>3. HolderInv' /\ IdleInv' /\ ActionInv' /\ EndInv'
    BY <1>3, <2>1 DEF HolderInv, IdleInv, ActionInv, EndInv
  <2>4. RuntimeInv'
    BY <1>1, <2>1, <2>2 DEF CoordinatorIdle, Inductive, ControlInv, RuntimeInv
  <2>5. current \in Resting \/ (current = "ROOM" /\ kind # "ROOM")
    BY <1>1, <1>3 DEF Inductive, ControlInv, IdleInv, Replaceable, Free
  <2>6. BeginInv'
    BY <1>1, <1>3, <2>1, <2>5 DEF BeginInv, StillOwner, CoordinatorIdle, Resting
  <2>7. ClosedInv'
    BY <1>1, <1>3 DEF Inductive, ClosedInv, CoordinatorIdle, Free
  <2>8. AskedInv'
    <3>1. \A i \in 1..Len(queue) : queue[i].generation \in Nat
                                  /\ queue[i].generation <= generation
      <4>1. \A i \in 1..Len(queue) : queue[i] \in Request
        BY DEF TypeOK, WorkerTypeOK
      <4> QED
        BY <4>1, MaxGenerationAssumption DEF Request, Inductive, AskedInv
    <3>2. request.generation \in Nat
      BY MaxGenerationAssumption DEF TypeOK, WorkerTypeOK, Request, NoRequest
    <3>3. worker = "picked" => request.kind # "NONE" /\ request.generation <= generation
      BY DEF Inductive, AskedInv
    <3>4. UNCHANGED <<queue, worker, request>>
      BY <1>1 DEF workerVars
    <3> QED
      BY <1>2, <1>3, <3>1, <3>2, <3>3, <3>4 DEF AskedInv
  <2> QED
    BY <2>3, <2>4, <2>6, <2>7, <2>8 DEF Inductive, ControlInv
<1>4. CASE /\ \E due \in BOOLEAN : ticket' = Live(due)
           /\ UNCHANGED <<arbiterState, history, transition, call>>
  <2>1. UNCHANGED <<controlVars, halt>>
        /\ UNCHANGED <<generation, queue, worker, request, asked, ownerCancelled, withdrawn>>
    BY <1>1, <1>4 DEF controlVars, CoordinatorIdle, arbiterState, history, workerVars
  <2>2. closed => ticket' = NoTicket
    BY <1>4 DEF Live, Inductive, ClosedInv
  <2> QED
    BY <2>1, <2>2, ControlKept, ClosedKept, AskedKept DEF Inductive, AskedInv
<1> QED
  BY <1>3, <1>4 DEF Begin, NoTransition

LEMMA CommitBeginSafe ==
    ASSUME TypeOK, Inductive, CommitBegin
    PROVE  Inductive'
<1>1. /\ CoordinatorIdle /\ UNCHANGED <<closed, queue, workerVars, halt, history>>
      /\ transition.op = "begin" /\ call.pc = "returned"
  BY DEF CommitBegin
<1>2. /\ StillOwner /\ ~closed /\ transition.kind \in Kinds
      /\ current = transition.kind \/ current \in Resting
      /\ call.rc # "failed" => current = transition.kind
      /\ call.rc = "failed" => current \in Resting
  BY <1>1 DEF Inductive, ControlInv, BeginInv, TypeOK, CoordinatorTypeOK, Call
<1>3. ControlInv'
  <2>1. CASE Cancelled
    <3>1. ClearOwner /\ StartEnding(transition.kind, FALSE)
      BY <1>2, <2>1 DEF CommitBegin, StartLost
    <3>2. current \in Resting \cup {transition.kind} /\ transition.kind \in Kinds
      BY <1>2
    <3>3. ControlInv /\ UNCHANGED closed /\ call.pc \in {"idle", "returned"} /\ ~closed
      BY <1>1, <1>2 DEF Inductive
    <3> QED
      BY <1>1, <3>1, <3>2, <3>3, StartEndingSafe
  <2>2. CASE ~Cancelled
    <3>1. /\ transition' = NoTransition /\ call' = NoCall
          /\ IF call.rc = "failed" THEN owner' = "NONE" ELSE owner' = owner
      BY <1>2, <2>2 DEF CommitBegin, StartLost, ClearOwner, arbiterState
    <3>2. transition'.op = "free" /\ call'.pc = "idle"
      BY <3>1 DEF NoTransition, NoCall
    <3>3. HolderInv' /\ ActionInv' /\ BeginInv' /\ EndInv'
      BY <3>2 DEF HolderInv, ActionInv, BeginInv, EndInv
    <3>4. RuntimeInv'
      BY <1>1, <3>2 DEF CoordinatorIdle, Inductive, ControlInv, RuntimeInv
    <3>5. IdleInv'
      BY <1>1, <1>2, <3>1, KindsAssumption DEF CoordinatorIdle, IdleInv, StillOwner
    <3> QED
      BY <3>3, <3>4, <3>5 DEF ControlInv
  <2> QED
    BY <2>1, <2>2
<1>4. /\ transition'.op \in {"free", "end"}
      /\ UNCHANGED generation
      /\ ownerCancelled' = FALSE \/ ownerCancelled' = ownerCancelled
  <2>1. transition'.op \in {"free", "end"}
    <3>1. CASE StartEnding(transition.kind, FALSE)
      BY <3>1 DEF StartEnding, NoTransition
    <3>2. CASE transition' = NoTransition
      BY <3>2 DEF NoTransition
    <3> QED
      BY <3>1, <3>2 DEF CommitBegin
  <2>2. ClearOwner \/ UNCHANGED arbiterState
    BY DEF CommitBegin
  <2> QED
    BY <2>1, <2>2 DEF ClearOwner, arbiterState
<1>5. ClosedInv'
  BY <1>1, <1>2, <1>4 DEF Inductive, ClosedInv, CoordinatorIdle
<1>6. AskedInv'
  BY <1>1, <1>4 DEF Inductive, AskedInv, workerVars, history
<1> QED
  BY <1>3, <1>5, <1>6 DEF Inductive

LEMMA RunActionSafe ==
    ASSUME TypeOK, Inductive, NEW kind \in Kinds, NEW gen, NEW id,
           RunAction(kind, gen, id)
    PROVE  Inductive'
<1>1. /\ UNCHANGED <<current, sealed, held, running, call, owner, generation, closed>>
      /\ UNCHANGED <<ticket, queue, worker, request, halt, asked, withdrawn, ownerCancelled>>
      /\ Free /\ Current(kind, gen)
      /\ transition'.op = "action" /\ transition'.kind = kind
      /\ transition'.generation = gen
  BY DEF RunAction, MayAct, coordinatorVars, arbiterState, ticketVars, workerVars, history,
         NoTransition
<1>2. HolderInv' /\ RuntimeInv' /\ IdleInv' /\ ActionInv' /\ BeginInv' /\ EndInv'
  BY <1>1 DEF Inductive, ControlInv, HolderInv, RuntimeInv, IdleInv, ActionInv, BeginInv,
     EndInv, Free, Current
<1>3. ClosedInv' /\ AskedInv'
  BY <1>1 DEF Inductive, ClosedInv, AskedInv, Current, Free
<1> QED
  BY <1>2, <1>3 DEF Inductive, ControlInv
\* A session that runs is ended: by a failed action, by a lease, by the worker.
LEMMA EndSessionSafe ==
    ASSUME Inductive, NEW kind \in Kinds, NEW byWorker \in BOOLEAN,
           transition.op \in {"free", "action"}, owner = kind, ~closed,
           ClearOwner, StartEnding(kind, byWorker), CoordinatorIdle,
           UNCHANGED <<ticket, closed, queue, request, halt, withdrawn>>,
           asked => asked', worker' = "picked" => worker = "picked"
    PROVE  Inductive'
<1>1. /\ call.pc = "idle" /\ kind # "NONE"
  BY KindsAssumption DEF Inductive, ControlInv, HolderInv
<1>2. current \in Resting \cup {kind}
  BY <1>1 DEF Inductive, ControlInv, IdleInv
<1>3. ControlInv'
  <2>1. ControlInv /\ UNCHANGED closed /\ call.pc \in {"idle", "returned"}
    BY <1>1 DEF Inductive
  <2> QED
    BY <1>2, <2>1, StartEndingSafe
<1>4. transition'.op = "end"
  BY DEF StartEnding, NoTransition
<1>5. ClosedInv'
  BY <1>4 DEF Inductive, ClosedInv, CoordinatorIdle
<1>6. AskedInv'
  BY DEF Inductive, AskedInv, ClearOwner
<1> QED
  BY <1>3, <1>5, <1>6 DEF Inductive

LEMMA CommitActionSafe ==
    ASSUME Inductive, NEW ok \in BOOLEAN, CommitAction(ok)
    PROVE  Inductive'
<1>1. /\ CoordinatorIdle
      /\ UNCHANGED <<ticket, closed, queue, worker, request, halt, withdrawn>>
      /\ transition.op = "action"
      /\ asked => asked'
  BY DEF CommitAction, ticketVars, workerVars
<1>2. transition.kind \in Kinds /\ owner = transition.kind /\ ~closed
  BY <1>1 DEF Inductive, ControlInv, ActionInv, Current
<1>3. CASE ClearOwner /\ StartEnding(transition.kind, FALSE)
  BY <1>1, <1>2, <1>3, EndSessionSafe
<1>4. CASE transition' = NoTransition /\ UNCHANGED <<arbiterState, call>>
  <2>1. UNCHANGED <<owner, generation, ownerCancelled, call>> /\ transition'.op = "free"
    BY <1>4 DEF arbiterState, NoTransition
  <2>2. ControlInv'
    BY <1>1, <2>1 DEF Inductive, ControlInv, HolderInv, RuntimeInv, IdleInv, ActionInv,
       BeginInv, EndInv, CoordinatorIdle
  <2>3. ClosedInv'
    BY <1>1, <2>1 DEF Inductive, ClosedInv, CoordinatorIdle
  <2>4. AskedInv'
    BY <1>1, <2>1 DEF Inductive, AskedInv
  <2> QED
    BY <2>2, <2>3, <2>4 DEF Inductive
<1> QED
  BY <1>3, <1>4 DEF CommitAction

LEMMA FinishLeaseSafe ==
    ASSUME Inductive, NEW kind \in Kinds, NEW gen, FinishLease(kind, gen)
    PROVE  Inductive'
<1>1. /\ CoordinatorIdle /\ ClearOwner /\ StartEnding(kind, FALSE)
      /\ UNCHANGED <<ticket, closed, queue, worker, request, halt, withdrawn>>
      /\ transition.op = "free" /\ owner = kind /\ ~closed
      /\ asked => asked'
  BY DEF FinishLease, Free, Current, ticketVars, workerVars
<1> QED
  BY <1>1, EndSessionSafe

LEMMA WorkerFinishSafe ==
    ASSUME TypeOK, Inductive, WorkerFinish
    PROVE  Inductive'
<1>1. /\ CoordinatorIdle
      /\ UNCHANGED <<ticket, closed, queue, request, halt, asked, withdrawn>>
      /\ transition.op = "free" /\ worker' # "picked"
  BY DEF WorkerFinish, Free, ticketVars, history
<1>2. CASE Current(request.kind, request.generation)
  <2>1. ClearOwner /\ StartEnding(request.kind, TRUE) /\ owner = request.kind /\ ~closed
    BY <1>2 DEF WorkerFinish, Current
  <2>2. request.kind \in Kinds
    <3>1. request.kind # "NONE"
      BY DEF WorkerFinish, Inductive, AskedInv
    <3>2. CASE request \in Request
      BY <3>2 DEF Request
    <3>3. CASE request = NoRequest
      BY <3>1, <3>3 DEF NoRequest
    <3> QED
      BY <3>2, <3>3 DEF TypeOK, WorkerTypeOK
  <2> QED
    BY <1>1, <2>1, <2>2, EndSessionSafe
<1>3. CASE ~Current(request.kind, request.generation)
  <2>1. UNCHANGED <<controlVars, halt, ownerCancelled, generation>>
    BY <1>1, <1>3 DEF WorkerFinish, arbiterState, controlVars, CoordinatorIdle
  <2>2. AskedInv'
    BY <1>1, <2>1 DEF Inductive, AskedInv
  <2>3. closed => ticket' = NoTicket
    BY <1>1 DEF Inductive, ClosedInv
  <2> QED
    BY <2>1, <2>2, <2>3, ControlKept, ClosedKept DEF Inductive
<1> QED
  BY <1>2, <1>3

LEMMA EndReturnedSafe ==
    ASSUME Inductive, EndReturned
    PROVE  Inductive'
<1>1. /\ CoordinatorIdle
      /\ UNCHANGED <<owner, ownerCancelled, generation, ticket, closed, queue, request,
                     halt, asked, withdrawn>>
      /\ transition.op = "end" /\ call.pc = "returned"
      /\ worker' = "picked" => worker = "picked"
  BY DEF EndReturned, arbiterState, ticketVars, history
<1>2. owner = "NONE" /\ ~closed /\ transition.kind \in Kinds /\ current \in Resting
  BY <1>1 DEF Inductive, ControlInv, EndInv
<1>3. AskedInv'
  BY <1>1 DEF Inductive, AskedInv
<1>4. CASE /\ transition' = [transition EXCEPT !.retries = @ + 1]
           /\ call' = Invocation("stream", "STREAM")
  <2>1. transition'.op = "end" /\ transition'.kind = transition.kind
        /\ call'.op = "stream" /\ call'.pc = "enter"
    BY <1>1, <1>4 DEF Invocation
  <2>2. ControlInv'
    BY <1>1, <1>2, <2>1 DEF Inductive, ControlInv, HolderInv, RuntimeInv, IdleInv,
       ActionInv, BeginInv, EndInv, CoordinatorIdle
  <2>3. ClosedInv'
    BY <1>1, <1>2, <2>1 DEF Inductive, ClosedInv, CoordinatorIdle
  <2> QED
    BY <1>3, <2>2, <2>3 DEF Inductive
<1>5. CASE transition' = NoTransition /\ call' = NoCall
  <2>1. transition'.op = "free" /\ call'.pc = "idle"
    BY <1>5 DEF NoTransition, NoCall
  <2>2. ControlInv'
    BY <1>1, <1>2, <2>1 DEF Inductive, ControlInv, HolderInv, RuntimeInv, IdleInv,
       ActionInv, BeginInv, EndInv, CoordinatorIdle
  <2>3. ClosedInv'
    BY <1>1, <1>2, <2>1 DEF Inductive, ClosedInv, CoordinatorIdle
  <2> QED
    BY <1>3, <2>2, <2>3 DEF Inductive
<1> QED
  BY <1>4, <1>5 DEF EndReturned
-----------------------------------------------------------------------------
(* Steps of the shutdown.                                                  *)

LEMMA ShutdownCloseSafe ==
    ASSUME Inductive, ShutdownClose
    PROVE  Inductive'
<1>1. /\ CoordinatorIdle /\ ClearOwner
      /\ UNCHANGED <<queue, worker, request, asked, withdrawn>>
      /\ ticket' = NoTicket /\ closed' = TRUE /\ halt' = "sealing" /\ halt = "no"
      /\ transition.op = "free" /\ transition'.op = "shutdown"
      /\ call'.op = "shutdown" /\ call'.pc = "enter"
  BY DEF ShutdownClose, NoTransition, Invocation, Free, workerVars, history
<1>2. ControlInv'
  BY <1>1 DEF Inductive, ControlInv, HolderInv, RuntimeInv, IdleInv, ActionInv,
     BeginInv, EndInv, CoordinatorIdle
<1>3. ClosedInv'
  BY <1>1 DEF Inductive, ClosedInv, CoordinatorIdle, ClearOwner
<1>4. AskedInv'
  BY <1>1 DEF Inductive, AskedInv, ClearOwner
<1> QED
  BY <1>2, <1>3, <1>4 DEF Inductive

LEMMA ShutdownSealedSafe ==
    ASSUME Inductive, ShutdownSealed
    PROVE  Inductive'
<1>1. /\ CoordinatorIdle
      /\ UNCHANGED <<owner, ownerCancelled, generation, ticket, closed, queue, worker,
                     request, asked, withdrawn>>
      /\ halt' = "sealed"
      /\ transition.op = "shutdown" /\ call.pc = "returned"
      /\ transition'.op = "free" /\ call'.pc = "idle"
  BY DEF ShutdownSealed, NoTransition, NoCall, arbiterState, ticketVars, workerVars, history
<1>2. closed /\ owner = "NONE" /\ sealed /\ current = "NONE"
  BY <1>1 DEF Inductive, ClosedInv
<1>3. ControlInv'
  BY <1>1, <1>2 DEF Inductive, ControlInv, HolderInv, RuntimeInv, IdleInv, ActionInv,
     BeginInv, EndInv, CoordinatorIdle, Resting
<1>4. ClosedInv'
  BY <1>1, <1>2 DEF Inductive, ClosedInv, CoordinatorIdle
<1>5. AskedInv'
  BY <1>1 DEF Inductive, AskedInv
<1> QED
  BY <1>3, <1>4, <1>5 DEF Inductive

LEMMA ShutdownWaitSafe ==
    ASSUME Inductive, ShutdownStopsWorker \/ ShutdownJoined
    PROVE  Inductive'
<1>1. /\ UNCHANGED <<controlVars, ticket>>
      /\ UNCHANGED <<queue, worker, request, generation, asked, ownerCancelled, withdrawn>>
  BY DEF ShutdownStopsWorker, ShutdownJoined, controlVars, coordinatorVars, arbiterState,
     ticketVars, workerVars, history
<1>2. halt \in {"sealed", "draining"} /\ halt' \in {"draining", "done"}
  BY DEF ShutdownStopsWorker, ShutdownJoined
<1>3. ClosedInv'
  BY <1>1, <1>2 DEF Inductive, ClosedInv, controlVars
<1>4. AskedInv'
  BY <1>1 DEF Inductive, AskedInv
<1> QED
  BY <1>1, <1>3, <1>4, ControlKept DEF Inductive

-----------------------------------------------------------------------------
(* Steps inside the coordinator.                                           *)

\* A step inside the coordinator disturbs the control and nothing else.
LEMMA CoordinatorKeeps ==
    ASSUME Inductive, UNCHANGED arbiterVars, ControlInv',
           sealed' <=> closed /\ ~(transition.op = "shutdown" /\ call'.pc = "enter"),
           sealed' => current' = "NONE"
    PROVE  Inductive'
<1>1. UNCHANGED <<owner, generation, ownerCancelled, ticket, closed, queue, worker,
                  request, transition, halt, asked, withdrawn>>
  BY DEF arbiterVars, arbiterState, ticketVars, workerVars, history
<1>2. ClosedInv'
  BY <1>1 DEF Inductive, ClosedInv
<1>3. AskedInv'
  BY <1>1 DEF Inductive, AskedInv
<1> QED
  BY <1>2, <1>3 DEF Inductive

\* While the coordinator starts an adapter, a session begins or ends.
LEMMA Busy ==
    ASSUME TypeOK, Inductive, call.op \in {"begin", "finish", "stream"},
           call.pc # "idle"
    PROVE  /\ ~sealed /\ ~closed
           /\ transition.op \in {"begin", "end"}
           /\ transition.op = "begin" <=> call.op = "begin"
<1>1. transition.op \in {"free", "begin", "action", "end", "shutdown"}
  BY DEF TypeOK, Transition, NoTransition
<1>2. transition.op \in {"begin", "end"} /\ (transition.op = "begin" <=> call.op = "begin")
  BY <1>1 DEF Inductive, ControlInv, HolderInv
<1>3. ~closed
  BY <1>2 DEF Inductive, ControlInv, BeginInv, EndInv
<1> QED
  BY <1>2, <1>3 DEF Inductive, ClosedInv

LEMMA EnterBeginSafe ==
    ASSUME TypeOK, Inductive, EnterBegin, UNCHANGED arbiterVars
    PROVE  Inductive'
<1>1. /\ call.op = "begin" /\ call.pc = "enter" /\ ~sealed /\ ~closed
      /\ transition.op = "begin" /\ UNCHANGED <<owner, generation, closed, transition, sealed>>
  BY Busy DEF EnterBegin, arbiterVars, arbiterState
<1>2. /\ StillOwner /\ transition.kind \in Kinds
      /\ call.rc = "ok" /\ call.target = transition.kind
      /\ current \in Resting \/ (current = "ROOM" /\ call.target # "ROOM")
  BY <1>1 DEF Inductive, ControlInv, BeginInv
<1>3. ~BeginRefused(call.target)
  BY <1>1, <1>2, KindsAssumption DEF BeginRefused, Resting
<1>4. /\ call' = [call EXCEPT !.pc = "acquire", !.target = call.target]
      /\ current' = "NONE" /\ running' = running \ {current} /\ held' = held \ {current}
  BY <1>3 DEF EnterBegin, StopThenStart, StopCurrent
<1>5. call'.pc = "acquire" /\ call'.op = "begin" /\ call'.rc = "ok"
      /\ call'.target = transition.kind
  BY <1>1, <1>2, <1>4 DEF TypeOK, CoordinatorTypeOK, Call
<1>6. running = (IF current = "NONE" THEN {} ELSE {current}) /\ held = running
  BY <1>1 DEF Inductive, ControlInv, RuntimeInv
<1>7. RuntimeInv'
  BY <1>4, <1>5, <1>6 DEF RuntimeInv
<1>8. HolderInv' /\ IdleInv' /\ ActionInv' /\ BeginInv' /\ EndInv'
  BY <1>1, <1>2, <1>5 DEF HolderInv, IdleInv, ActionInv, BeginInv, EndInv, StillOwner
<1> QED
  BY <1>1, <1>7, <1>8, CoordinatorKeeps DEF ControlInv
\* finish and start_stream: the runtime is emptied for the stream, or left.
LEMMA EnterRecoverySafe ==
    ASSUME TypeOK, Inductive, EnterFinish \/ EnterStream, UNCHANGED arbiterVars
    PROVE  Inductive'
<1>1. /\ call.op \in {"finish", "stream"} /\ call.pc = "enter" /\ ~sealed /\ ~closed
      /\ transition.op = "end"
      /\ UNCHANGED <<owner, generation, closed, transition, sealed>>
  BY Busy DEF EnterFinish, EnterStream, arbiterVars, arbiterState
<1>2. /\ owner = "NONE" /\ transition.kind \in Kinds
      /\ call.op = "finish" =>
            call.target = transition.kind /\ current \in Resting \cup {transition.kind}
      /\ call.op = "stream" => current \in Resting
  BY <1>1 DEF Inductive, ControlInv, EndInv
<1>3. running = (IF current = "NONE" THEN {} ELSE {current}) /\ held = running
  BY <1>1 DEF Inductive, ControlInv, RuntimeInv
<1>4. CASE StopThenStart("STREAM")
  <2>1. /\ call'.pc = "acquire" /\ call'.op = call.op /\ call'.target = "STREAM"
        /\ current' = "NONE" /\ running' = running \ {current} /\ held' = held \ {current}
    BY <1>4 DEF StopThenStart, StopCurrent, TypeOK, CoordinatorTypeOK, Call
  <2>2. RuntimeInv'
    BY <1>3, <2>1 DEF RuntimeInv
  <2>3. HolderInv' /\ IdleInv' /\ ActionInv' /\ BeginInv' /\ EndInv'
    BY <1>1, <1>2, <2>1 DEF HolderInv, IdleInv, ActionInv, BeginInv, EndInv
  <2> QED
    BY <1>1, <2>2, <2>3, CoordinatorKeeps DEF ControlInv
<1>5. CASE /\ Return("ok") /\ UNCHANGED <<current, held, running>>
           /\ current \in Resting
  <2>1. call'.pc = "returned" /\ call'.op = call.op
    BY <1>5 DEF Return, TypeOK, CoordinatorTypeOK, Call
  <2>2. RuntimeInv'
    BY <1>3, <1>5, <2>1 DEF RuntimeInv
  <2>3. HolderInv' /\ IdleInv' /\ ActionInv' /\ BeginInv' /\ EndInv'
    BY <1>1, <1>2, <1>5, <2>1 DEF HolderInv, IdleInv, ActionInv, BeginInv, EndInv
  <2> QED
    BY <1>1, <2>2, <2>3, CoordinatorKeeps DEF ControlInv
<1>6. CASE EnterFinish
  BY <1>1, <1>2, <1>4, <1>5, <1>6 DEF EnterFinish
<1>7. CASE EnterStream
  BY <1>1, <1>2, <1>4, <1>5, <1>7 DEF EnterStream, Resting
<1> QED
  BY <1>6, <1>7

LEMMA EnterShutdownSafe ==
    ASSUME TypeOK, Inductive, EnterShutdown, UNCHANGED arbiterVars
    PROVE  Inductive'
<1>1. call.op = "shutdown" /\ call.pc = "enter" /\ sealed'
      /\ call'.op = "shutdown" /\ call'.pc = "returned"
      /\ UNCHANGED <<owner, generation, closed, transition>>
  BY DEF EnterShutdown, Return, TypeOK, CoordinatorTypeOK, Call, arbiterVars, arbiterState
<1>2. transition.op = "shutdown"
  <2>1. transition.op \in {"free", "begin", "action", "end", "shutdown"}
    BY DEF TypeOK, Transition, NoTransition
  <2> QED
    BY <1>1, <2>1 DEF Inductive, ControlInv, HolderInv
<1>3. closed /\ ~sealed
  BY <1>1, <1>2 DEF Inductive, ClosedInv
<1>4. current' = "NONE" /\ running' = running \ {current} /\ held' = held \ {current}
  BY <1>3 DEF EnterShutdown, StopCurrent
<1>5. running = (IF current = "NONE" THEN {} ELSE {current}) /\ held = running
  BY <1>1 DEF Inductive, ControlInv, RuntimeInv
<1>6. RuntimeInv'
  BY <1>1, <1>4, <1>5 DEF RuntimeInv
<1>7. HolderInv' /\ IdleInv' /\ ActionInv' /\ BeginInv' /\ EndInv'
  BY <1>1, <1>2 DEF HolderInv, IdleInv, ActionInv, BeginInv, EndInv
<1> QED
  BY <1>1, <1>2, <1>3, <1>4, <1>6, <1>7, CoordinatorKeeps DEF ControlInv

\* What the starting steps have in common.
LEMMA Starting ==
    ASSUME TypeOK, Inductive, call.pc \in {"acquire", "adapter"}
    PROVE  /\ call.op \in {"begin", "finish", "stream"} /\ ~sealed /\ ~closed
           /\ \/ /\ transition.op = "begin" /\ call.op = "begin"
                 /\ StillOwner /\ transition.kind \in Kinds
                 /\ IF call.rc = "ok" THEN call.target = transition.kind
                                      ELSE call.target = "STREAM"
              \/ /\ transition.op = "end" /\ call.op \in {"finish", "stream"}
                 /\ owner = "NONE" /\ transition.kind \in Kinds
                 /\ call.target = "STREAM"
<1>1. transition.op \in {"free", "begin", "action", "end", "shutdown"}
  BY DEF TypeOK, Transition, NoTransition
<1>2. transition.op \in {"begin", "end"}
  BY <1>1 DEF Inductive, ControlInv, HolderInv
<1>3. call.op \in {"begin", "finish", "stream"}
  BY <1>2 DEF Inductive, ControlInv, HolderInv
<1>4. CASE transition.op = "begin"
  BY <1>3, <1>4, Busy DEF Inductive, ControlInv, BeginInv, HolderInv
<1>5. CASE transition.op = "end"
  BY <1>3, <1>5, Busy DEF Inductive, ControlInv, EndInv, HolderInv
<1> QED
  BY <1>2, <1>4, <1>5

LEMMA ResourceAcquiredSafe ==
    ASSUME TypeOK, Inductive, ResourceAcquired, UNCHANGED arbiterVars
    PROVE  Inductive'
<1>1. /\ call.pc = "acquire" /\ call'.pc = "adapter"
      /\ call'.op = call.op /\ call'.target = call.target /\ call'.rc = call.rc
      /\ held' = held \cup {call.target}
      /\ UNCHANGED <<current, sealed, running, owner, generation, closed, transition>>
  BY DEF ResourceAcquired, TypeOK, CoordinatorTypeOK, Call, arbiterVars, arbiterState
<1>2. current = "NONE" /\ running = {} /\ held = {}
  BY <1>1 DEF Inductive, ControlInv, RuntimeInv
<1>3. RuntimeInv'
  BY <1>1, <1>2 DEF RuntimeInv
<1>4. HolderInv' /\ IdleInv' /\ ActionInv' /\ BeginInv' /\ EndInv'
  BY <1>1, Starting DEF HolderInv, IdleInv, ActionInv, BeginInv, EndInv, StillOwner
<1> QED
  BY <1>1, <1>3, <1>4, Starting, CoordinatorKeeps DEF ControlInv

LEMMA AdapterStartedSafe ==
    ASSUME TypeOK, Inductive, AdapterStarted, UNCHANGED arbiterVars
    PROVE  Inductive'
<1>1. /\ call.pc = "adapter" /\ call'.pc = "returned"
      /\ call'.op = call.op /\ call'.target = call.target /\ call'.rc = call.rc
      /\ running' = running \cup {call.target} /\ current' = call.target
      /\ UNCHANGED <<held, sealed, owner, generation, closed, transition>>
  BY DEF AdapterStarted, Return, TypeOK, CoordinatorTypeOK, Call, arbiterVars, arbiterState
<1>2. current = "NONE" /\ running = {} /\ held = {call.target}
  BY <1>1 DEF Inductive, ControlInv, RuntimeInv
<1>3. call.target # "NONE"
  BY <1>1, KindsAssumption DEF TypeOK, CoordinatorTypeOK, Business
<1>4. RuntimeInv'
  BY <1>1, <1>2, <1>3 DEF RuntimeInv
<1>5. HolderInv' /\ IdleInv' /\ ActionInv' /\ BeginInv' /\ EndInv'
  BY <1>1, Starting DEF HolderInv, IdleInv, ActionInv, BeginInv, EndInv, StillOwner, Resting
<1> QED
  BY <1>1, <1>4, <1>5, Starting, CoordinatorKeeps DEF ControlInv

\* A failed start leaves the runtime empty, and the call goes on with the
\* stream or returns the failure.
LEMMA StartFailedSafe ==
    ASSUME TypeOK, Inductive, ResourceDenied \/ AdapterFailed, UNCHANGED arbiterVars
    PROVE  Inductive'
<1>1. /\ call.pc \in {"acquire", "adapter"} /\ StartFailed
      /\ UNCHANGED <<current, sealed, running, owner, generation, closed, transition>>
  BY DEF ResourceDenied, AdapterFailed, arbiterVars, arbiterState
<1>2. current = "NONE" /\ running = {} /\ held' = {}
  BY <1>1 DEF ResourceDenied, AdapterFailed, Inductive, ControlInv, RuntimeInv
<1>3. /\ call'.op = call.op /\ call'.rc = "failed"
      /\ \/ call'.pc = "acquire" /\ call'.target = "STREAM" /\ call.op = "begin"
         \/ call'.pc = "returned"
  BY <1>1 DEF StartFailed, Return, TypeOK, CoordinatorTypeOK, Call
<1>4. RuntimeInv'
  BY <1>1, <1>2, <1>3 DEF RuntimeInv
<1>5. HolderInv' /\ IdleInv' /\ ActionInv' /\ BeginInv' /\ EndInv'
  BY <1>1, <1>2, <1>3, Starting
     DEF HolderInv, IdleInv, ActionInv, BeginInv, EndInv, StillOwner, Resting
<1> QED
  BY <1>1, <1>3, <1>4, <1>5, Starting, CoordinatorKeeps DEF ControlInv

-----------------------------------------------------------------------------
(* The invariant.                                                          *)

LEMMA InitSafe == Init => Inductive
<1> SUFFICES ASSUME Init PROVE Inductive
  OBVIOUS
<1>1. /\ transition.op = "free" /\ call.pc = "idle" /\ queue = <<>>
      /\ current = "STREAM" /\ running = {"STREAM"} /\ held = {"STREAM"}
      /\ owner = "NONE" /\ ~closed /\ ~sealed /\ halt = "no" /\ ~ownerCancelled
      /\ worker = "waiting"
  BY DEF Init, CoordinatorInit, ArbiterInit, NoCall, NoTransition
<1>2. ControlInv
  BY <1>1 DEF ControlInv, HolderInv, RuntimeInv, IdleInv, ActionInv, BeginInv, EndInv,
     Resting
<1>3. ClosedInv /\ AskedInv
  BY <1>1 DEF ClosedInv, AskedInv
<1> QED
  BY <1>2, <1>3 DEF Inductive

LEMMA ProducersSafe == TypeOK /\ Inductive /\ Producers => Inductive'
<1> SUFFICES ASSUME TypeOK, Inductive, Producers PROVE Inductive'
  OBVIOUS
<1> USE DEF IncomingKinds
<1>1. CASE "CALL" \in Kinds /\ \E id \in Rooms : OfferPending("CALL", id, TRUE)
  BY <1>1, OfferPendingSafe
<1>2. CASE "VOIP" \in Kinds /\ \E id \in Rooms : AdmitIncoming("VOIP", id, TRUE)
  BY <1>2, AdmitIncomingSafe
<1>3. CASE \E kind \in IncomingKinds, id \in Id : CancelId(kind, id)
  BY <1>3, CancelIdSafe
<1>4. CASE LookAtTicket
  BY <1>4, LookAtTicketSafe
<1>5. CASE \E kind \in IncomingKinds, id \in Rooms \cup {AnyId} : Begin(kind, TRUE, id)
  BY <1>5, BeginSafe
<1>6. CASE \E kind \in Kinds, id \in Id :
              (kind # "ROOM" => id = NoId) /\ Begin(kind, FALSE, id)
  BY <1>6, BeginSafe
<1>7. CASE \E kind \in Kinds, gen \in 1..generation, id \in Id : RunAction(kind, gen, id)
  BY <1>7, RunActionSafe
<1>8. CASE \E kind \in Kinds, gen \in 1..generation : FinishLease(kind, gen)
  BY <1>8, FinishLeaseSafe
<1>9. CASE \E kind \in Kinds, gen \in 1..generation, restore \in BOOLEAN :
              (restore => kind = "CALL") /\ FinishAsync(kind, gen, restore)
  BY <1>9, FinishAsyncSafe
<1>10. CASE ShutdownClose
  BY <1>10, ShutdownCloseSafe
<1> QED
  BY <1>1, <1>2, <1>3, <1>4, <1>5, <1>6, <1>7, <1>8, <1>9, <1>10 DEF Producers

LEMMA CoordinatorSafe ==
    TypeOK /\ Inductive /\ CoordinatorNext /\ UNCHANGED arbiterVars => Inductive'
BY EnterBeginSafe, EnterRecoverySafe, EnterShutdownSafe, ResourceAcquiredSafe,
   AdapterStartedSafe, StartFailedSafe DEF CoordinatorNext

LEMMA MachinerySafe == TypeOK /\ Inductive /\ Machinery => Inductive'
BY CommitBeginSafe, CommitActionSafe, EndReturnedSafe, WorkerPickSafe, WorkerFinishSafe,
   WorkerDoneSafe, ShutdownSealedSafe, ShutdownWaitSafe, CoordinatorSafe DEF Machinery

\* The inductive invariant: in every reachable state what runs is determined by
\* the step of begin, finish or shutdown its holder has reached.
THEOREM InductiveInvariant == Spec => []Inductive
<1>1. Init => Inductive
  BY InitSafe
<1>2. TypeOK /\ Inductive /\ [Next]_vars => Inductive'
  <2>1. ASSUME Inductive, UNCHANGED vars PROVE Inductive'
    <3>1. UNCHANGED arbiterVars /\ UNCHANGED <<controlVars, halt, ticket, generation, queue,
              worker, request, asked, ownerCancelled, withdrawn>>
      BY <2>1 DEF vars, coordinatorVars, arbiterVars, arbiterState, ticketVars, workerVars,
         history, controlVars
    <3>2. closed => ticket' = NoTicket
      BY <2>1, <3>1 DEF Inductive, ClosedInv
    <3> QED
      BY <2>1, <3>1, <3>2, ControlKept, ClosedKept, AskedKept DEF Inductive, AskedInv
  <2> QED
    BY <2>1, ProducersSafe, MachinerySafe DEF Next
<1> QED
  BY <1>1, <1>2, TypeInvariant, PTL DEF Spec

-----------------------------------------------------------------------------
(* What follows from it.                                                   *)

\* Between transitions the owner is what runs (session_arbiter.c:301-330 and
\* 86-93 against session_coordinator.c:66-75).
THEOREM OwnerIsRunningAlways == Spec => []OwnerIsRunning
<1>1. Inductive => OwnerIsRunning
  BY KindsAssumption DEF Inductive, ControlInv, IdleInv, RuntimeInv, HolderInv, Resting,
     OwnerIsRunning, Free
<1> QED
  BY <1>1, InductiveInvariant, PTL

\* Never two businesses on the TiRTC runtime.
THEOREM OneBusinessAlways == Spec => []OneBusinessOnTheRuntime
<1>1. Inductive => OneBusinessOnTheRuntime
  BY DEF Inductive, ControlInv, RuntimeInv, OneBusinessOnTheRuntime
<1> QED
  BY <1>1, InductiveInvariant, PTL

\* The arbiter never sends the coordinator a begin it would refuse.
THEOREM CoordinatorNeverRefusesAlways == Spec => []CoordinatorNeverRefuses
<1>1. TypeOK /\ Inductive => CoordinatorNeverRefuses
  <2> SUFFICES ASSUME TypeOK, Inductive, call.op = "begin", call.pc = "enter"
               PROVE  ~BeginRefused(call.target)
    BY DEF CoordinatorNeverRefuses
  <2>1. transition.op = "begin" /\ ~sealed
    BY Busy
  <2> QED
    BY <2>1, KindsAssumption DEF Inductive, ControlInv, BeginInv, BeginRefused, Resting
<1> QED
  BY <1>1, InductiveInvariant, TypeInvariant, PTL

\* An action runs on the adapter of its own, current session.
THEOREM ActionRunsAlways == Spec => []ActionRunsOnItsAdapter
<1>1. Inductive => ActionRunsOnItsAdapter
  BY KindsAssumption DEF Inductive, ControlInv, ActionInv, IdleInv, HolderInv, RuntimeInv,
     Current, ActionRunsOnItsAdapter
<1> QED
  BY <1>1, InductiveInvariant, PTL

\* After the sealing of the shutdown nothing runs, whatever threads still call.
THEOREM ClosedIsFinalAlways == Spec => []ClosedIsFinal
<1>1. TypeOK /\ Inductive => ClosedIsFinal
  <2> SUFFICES ASSUME TypeOK, Inductive, halt \in {"sealed", "draining", "done"}
               PROVE  /\ sealed /\ running = {} /\ held = {}
                      /\ owner = "NONE" /\ ticket = NoTicket
    BY DEF ClosedIsFinal
  <2>1. closed /\ transition.op = "free"
    BY DEF Inductive, ClosedInv
  <2>2. sealed /\ current = "NONE" /\ owner = "NONE" /\ ticket = NoTicket
    BY <2>1 DEF Inductive, ClosedInv
  <2>3. running = {} /\ held = {}
    BY <2>1, <2>2 DEF Inductive, ControlInv, HolderInv, RuntimeInv
  <2> QED
    BY <2>2, <2>3
<1> QED
  BY <1>1, InductiveInvariant, TypeInvariant, PTL

\* The owner and the runtime agree (session_arbiter.c against
\* session_coordinator.c): the five theorems together.
THEOREM RuntimeAndOwnerAgreeAlways == Spec => []RuntimeAndOwnerAgree
<1>1. /\ OwnerIsRunning /\ OneBusinessOnTheRuntime /\ CoordinatorNeverRefuses
      /\ ActionRunsOnItsAdapter /\ ClosedIsFinal
      => RuntimeAndOwnerAgree
  BY DEF RuntimeAndOwnerAgree
<1> QED
  BY <1>1, OwnerIsRunningAlways, OneBusinessAlways, CoordinatorNeverRefusesAlways,
     ActionRunsAlways, ClosedIsFinalAlways, PTL

-----------------------------------------------------------------------------
(* The queue of ends has an entry, or room for one, for every session.     *)

LEMMA QueueKept ==
    ASSUME QueueInv, UNCHANGED <<queue, request, generation>>,
           worker' = worker \/ worker' # "picked", owner' \in {owner, "NONE"}
    PROVE  QueueInv'
BY DEF QueueInv, Entry, InOrder

\* A new session: no entry is of its generation yet.
LEMMA BeginQueue ==
    ASSUME TypeOK, Inductive, QueueInv, NEW kind, NEW consume, NEW id,
           Begin(kind, consume, id)
    PROVE  QueueInv'
<1>1. UNCHANGED <<queue, request, worker>>
  BY DEF Begin, workerVars
<1>2. CASE generation' = generation + 1
  <2>1. generation \in Nat
    BY MaxGenerationAssumption DEF TypeOK, OwnerTypeOK
  <2>2. \A i \in 1..Len(queue) : /\ queue[i].generation \in Nat
                                /\ queue[i].generation <= generation
    <3>1. \A i \in 1..Len(queue) : queue[i] \in Request
      BY DEF TypeOK, WorkerTypeOK
    <3> QED
      BY <3>1, MaxGenerationAssumption DEF Request, Inductive, AskedInv
  <2>3. /\ request.generation \in Nat
        /\ worker = "picked" => request.generation <= generation
    BY MaxGenerationAssumption DEF TypeOK, WorkerTypeOK, Request, NoRequest, Inductive,
       AskedInv
  <2> QED
    BY <1>1, <1>2, <2>1, <2>2, <2>3 DEF QueueInv, Entry, InOrder
<1>3. CASE UNCHANGED arbiterState
  BY <1>1, <1>3, QueueKept DEF arbiterState
<1> QED
  BY <1>2, <1>3 DEF Begin

\* An end that is not queued finds the ends of earlier sessions only.
LEMMA EntriesAreOlder ==
    ASSUME TypeOK, Inductive, QueueInv, owner # "NONE",
           ~Queued([kind |-> owner, generation |-> generation]),
           NEW i \in 1..Len(queue)
    PROVE  queue[i].generation \in Nat /\ queue[i].generation < generation
<1>1. queue[i] \in Request /\ generation \in Nat
  BY MaxGenerationAssumption DEF TypeOK, WorkerTypeOK, OwnerTypeOK
<1>2. queue[i].generation \in Nat /\ queue[i].generation <= generation
  BY <1>1, MaxGenerationAssumption DEF Request, Inductive, AskedInv
<1>3. queue[i].generation # generation
  <2> SUFFICES ASSUME queue[i].generation = generation PROVE FALSE
    OBVIOUS
  <2>1. queue[i].kind = owner
    BY DEF QueueInv, Entry
  <2>2. queue[i] = [kind |-> owner, generation |-> generation]
    BY <1>1, <2>1 DEF Request
  <2> QED
    BY <2>2 DEF Queued
<1> QED
  BY <1>1, <1>2, <1>3

LEMMA FinishAsyncQueue ==
    ASSUME TypeOK, Inductive, QueueInv, NEW kind \in Kinds, NEW gen \in 1..generation,
           NEW restore, FinishAsync(kind, gen, restore)
    PROVE  QueueInv'
<1> DEFINE r == [kind |-> kind, generation |-> gen]
<1>1. UNCHANGED <<request, generation, worker, owner>>
  BY DEF FinishAsync, workerVars, arbiterState
<1>2. owner = kind /\ gen = generation /\ queue' = Enqueue(r)
  BY DEF FinishAsync, Current
<1>3. CASE queue' = queue
  BY <1>1, <1>3, QueueKept
<1>4. CASE queue' = Append(queue, r) /\ ~Queued(r)
  <2>1. queue \in Seq(Request) /\ generation \in Nat
    BY MaxGenerationAssumption DEF TypeOK, WorkerTypeOK, OwnerTypeOK
  <2>2. Len(queue') = Len(queue) + 1
        /\ \A i \in 1..Len(queue') : queue'[i] = IF i <= Len(queue) THEN queue[i] ELSE r
    BY <1>4, <2>1
  <2>3. \A i \in 1..Len(queue) : Entry(queue[i])
    BY DEF QueueInv
  <2>4. \A i \in 1..Len(queue') : Entry(queue[i])'
    <3> TAKE i \in 1..Len(queue')
    <3>1. CASE i <= Len(queue)
      BY <1>1, <2>1, <2>2, <2>3, <3>1 DEF Entry
    <3>2. CASE i = Len(queue) + 1
      BY <1>1, <1>2, <2>1, <2>2, <3>2 DEF Entry
    <3> QED
      BY <2>1, <2>2, <3>1, <3>2
  <2>5. InOrder'
    <3>1. \A i \in 1..Len(queue) : queue[i].generation < gen
      BY <1>2, <1>4, KindsAssumption, EntriesAreOlder
    <3> QED
      BY <2>1, <2>2, <3>1 DEF QueueInv, InOrder
  <2> QED
    BY <1>1, <2>4, <2>5 DEF QueueInv, Entry
<1> QED
  BY <1>2, <1>3, <1>4 DEF Enqueue

LEMMA WorkerPickQueue ==
    ASSUME TypeOK, QueueInv, WorkerPick
    PROVE  QueueInv'
<1>1. UNCHANGED <<generation, owner>>
  BY DEF WorkerPick, arbiterState
<1>2. queue \in Seq(Request) /\ queue # <<>> /\ queue' = Tail(queue)
      /\ request' = Head(queue)
  BY DEF WorkerPick, TypeOK, WorkerTypeOK
<1>3. /\ Len(queue) \in Nat /\ Len(queue) >= 1 /\ Len(queue') = Len(queue) - 1
      /\ request' = queue[1]
      /\ \A i \in 1..Len(queue') : queue'[i] = queue[i + 1] /\ i + 1 \in 1..Len(queue)
  BY <1>2
<1>4. \A i \in 1..Len(queue) : Entry(queue[i]) /\ queue[i].generation \in Nat
  <2>1. \A i \in 1..Len(queue) : queue[i] \in Request
    BY <1>2
  <2> QED
    BY <2>1, MaxGenerationAssumption DEF QueueInv, Request
<1>5. \A i \in 1..Len(queue') : Entry(queue[i])'
  <2> TAKE i \in 1..Len(queue')
  <2>1. queue'[i] = queue[i + 1] /\ Entry(queue[i + 1])
        /\ queue[i + 1].generation \in Nat /\ i \in Nat
    BY <1>3, <1>4
  <2> QED
    BY <1>1, <2>1 DEF Entry
<1>6. Entry(request)'
  <2>1. 1 \in 1..Len(queue)
    BY <1>3
  <2> QED
    BY <1>1, <1>3, <1>4, <2>1 DEF Entry
<1>7. InOrder'
  BY <1>3 DEF QueueInv, InOrder
<1> QED
  BY <1>5, <1>6, <1>7 DEF QueueInv

LEMMA ProducersQueue == TypeOK /\ Inductive /\ QueueInv /\ Producers => QueueInv'
<1> SUFFICES ASSUME TypeOK, Inductive, QueueInv, Producers PROVE QueueInv'
  OBVIOUS
<1>1. CASE "CALL" \in Kinds /\ \E id \in Rooms : OfferPending("CALL", id, TRUE)
  BY <1>1, QueueKept DEF OfferPending, arbiterState, workerVars
<1>2. CASE "VOIP" \in Kinds /\ \E id \in Rooms : AdmitIncoming("VOIP", id, TRUE)
  BY <1>2, QueueKept DEF AdmitIncoming, arbiterState, workerVars
<1>3. CASE \E kind \in IncomingKinds, id \in Id : CancelId(kind, id)
  BY <1>3, QueueKept DEF CancelId, workerVars
<1>4. CASE LookAtTicket
  BY <1>4, QueueKept DEF LookAtTicket, arbiterState, workerVars
<1>5. CASE \E kind \in IncomingKinds, id \in Rooms \cup {AnyId} : Begin(kind, TRUE, id)
  BY <1>5, BeginQueue
<1>6. CASE \E kind \in Kinds, id \in Id :
              (kind # "ROOM" => id = NoId) /\ Begin(kind, FALSE, id)
  BY <1>6, BeginQueue
<1>7. CASE \E kind \in Kinds, gen \in 1..generation, id \in Id : RunAction(kind, gen, id)
  BY <1>7, QueueKept DEF RunAction, arbiterState, workerVars
<1>8. CASE \E kind \in Kinds, gen \in 1..generation : FinishLease(kind, gen)
  BY <1>8, QueueKept DEF FinishLease, ClearOwner, workerVars
<1>9. CASE \E kind \in Kinds, gen \in 1..generation, restore \in BOOLEAN :
              (restore => kind = "CALL") /\ FinishAsync(kind, gen, restore)
  BY <1>9, FinishAsyncQueue
<1>10. CASE ShutdownClose
  BY <1>10, QueueKept DEF ShutdownClose, ClearOwner, workerVars
<1> QED
  BY <1>1, <1>2, <1>3, <1>4, <1>5, <1>6, <1>7, <1>8, <1>9, <1>10 DEF Producers

LEMMA MachineryQueue == TypeOK /\ QueueInv /\ Machinery => QueueInv'
<1> SUFFICES ASSUME TypeOK, QueueInv, Machinery PROVE QueueInv'
  OBVIOUS
<1>1. CASE CommitBegin
  BY <1>1, QueueKept DEF CommitBegin, ClearOwner, arbiterState, workerVars
<1>2. CASE \E ok \in BOOLEAN : CommitAction(ok)
  BY <1>2, QueueKept DEF CommitAction, ClearOwner, arbiterState, workerVars
<1>3. CASE EndReturned
  BY <1>3, QueueKept DEF EndReturned, arbiterState
<1>4. CASE WorkerPick
  BY <1>4, WorkerPickQueue
<1>5. CASE WorkerFinish
  BY <1>5, QueueKept DEF WorkerFinish, ClearOwner, arbiterState
<1>6. CASE WorkerDone
  BY <1>6 DEF WorkerDone, arbiterState, QueueInv, Entry, InOrder
<1>7. CASE WorkerExit
  BY <1>7, QueueKept DEF WorkerExit, arbiterState
<1>8. CASE ShutdownSealed \/ ShutdownStopsWorker \/ ShutdownJoined
  BY <1>8, QueueKept DEF ShutdownSealed, ShutdownStopsWorker, ShutdownJoined, arbiterState,
     workerVars
<1>9. CASE CoordinatorNext /\ UNCHANGED arbiterVars
  BY <1>9, QueueKept DEF arbiterVars, arbiterState, workerVars
<1> QED
  BY <1>1, <1>2, <1>3, <1>4, <1>5, <1>6, <1>7, <1>8, <1>9 DEF Machinery

LEMMA QueueInvariant == Spec => []QueueInv
<1>1. Init => QueueInv
  BY DEF Init, ArbiterInit, QueueInv, InOrder
<1>2. TypeOK /\ Inductive /\ QueueInv /\ [Next]_vars => QueueInv'
  <2>1. ASSUME QueueInv, UNCHANGED vars PROVE QueueInv'
    BY <2>1, QueueKept DEF vars, arbiterVars, arbiterState, workerVars
  <2> QED
    BY <2>1, ProducersQueue, MachineryQueue DEF Next
<1> QED
  BY <1>1, <1>2, TypeInvariant, InductiveInvariant, PTL DEF Spec

\* The end of a session is lost (session_arbiter.c:447-453) only behind a backlog
\* of the full length of the queue: an end of another, earlier session in every
\* place, none of which the worker has come to.  No session queues its end twice,
\* so that none of the places is taken by the session itself.
THEOREM EndIsLostBehindBacklogOnly == Spec => [](RoomForTheEnd \/ Backlog)
<1>1. TypeOK /\ Inductive /\ QueueInv => RoomForTheEnd \/ Backlog
  <2> SUFFICES ASSUME TypeOK, Inductive, QueueInv, owner # "NONE", Len(queue) = QueueCap,
                      ~Queued([kind |-> owner, generation |-> generation])
               PROVE  Backlog
    BY DEF RoomForTheEnd
  <2> QED
    BY EntriesAreOlder DEF Backlog, QueueInv
<1> QED
  BY <1>1, TypeInvariant, InductiveInvariant, QueueInvariant, PTL

-----------------------------------------------------------------------------
(* Tickets beside sessions.                                                *)

\* What is on its way stays so until the worker looks at it.
LEMMA EndStaysOnItsWay ==
    ASSUME NEW gen, EndOnItsWay(gen), UNCHANGED <<queue, request, worker>>
    PROVE  EndOnItsWay(gen)'
BY DEF EndOnItsWay

LEMMA TicketKept ==
    ASSUME TicketUnderOwner, UNCHANGED <<queue, request, worker, generation, ownerId>>,
           UNCHANGED owner, ticket' \in {ticket, NoTicket}
    PROVE  TicketUnderOwner'
BY EndStaysOnItsWay DEF TicketUnderOwner, EndOnItsWay

LEMMA OwnerGone ==
    ASSUME owner' = "NONE"
    PROVE  TicketUnderOwner'
BY DEF TicketUnderOwner

LEMMA OfferTicket ==
    ASSUME TicketUnderOwner, NEW kind, NEW id, NEW timed,
           OfferPending(kind, id, timed) \/ AdmitIncoming(kind, id, timed)
    PROVE  TicketUnderOwner'
<1>1. UNCHANGED <<queue, request, worker, generation, ownerId, owner>>
  BY DEF OfferPending, AdmitIncoming, arbiterState, workerVars
<1>2. ticket' \in {ticket, NoTicket} \/ owner \in {"NONE", "ROOM"}
  BY DEF OfferPending, AdmitIncoming, OfferGranted, AdmitDecision, Live
<1> QED
  BY <1>1, <1>2, TicketKept DEF TicketUnderOwner

\* The ticket that a call gets back at its end comes with the entry that ends it.
LEMMA FinishAsyncTicket ==
    ASSUME TypeOK, RoomForTheEnd, TicketUnderOwner,
           NEW kind \in Kinds, NEW gen \in 1..generation, NEW restore,
           FinishAsync(kind, gen, restore)
    PROVE  TicketUnderOwner'
<1> DEFINE r == [kind |-> kind, generation |-> gen]
<1>1. UNCHANGED <<request, generation, worker, owner, ownerId>>
  BY DEF FinishAsync, workerVars, arbiterState
<1>2. /\ owner = kind /\ gen = generation /\ queue' = Enqueue(r)
      /\ ticket' = ticket \/ (ticket'.kind = kind /\ ticket'.id = ownerId)
  BY DEF FinishAsync, Current
<1>3. queue \in Seq(Request) /\ generation \in Nat
  BY MaxGenerationAssumption DEF TypeOK, WorkerTypeOK, OwnerTypeOK
<1>4. \E i \in 1..Len(queue') : queue'[i].generation = generation
  <2>1. CASE Queued(r)
    <3>1. queue' = queue
      BY <1>2, <2>1 DEF Enqueue
    <3> QED
      BY <1>2, <2>1, <3>1 DEF Queued
  <2>2. CASE ~Queued(r)
    <3>1. Len(queue) # QueueCap
      BY <1>2, <2>2, KindsAssumption DEF RoomForTheEnd
    <3>2. queue' = Append(queue, r)
      BY <1>2, <2>2, <3>1 DEF Enqueue
    <3>3. Len(queue') = Len(queue) + 1 /\ queue'[Len(queue) + 1] = r
          /\ Len(queue) + 1 \in 1..Len(queue')
      BY <1>3, <3>2
    <3> QED
      BY <1>2, <3>3
  <2> QED
    BY <2>1, <2>2
<1> QED
  BY <1>1, <1>2, <1>4 DEF TicketUnderOwner, EndOnItsWay

LEMMA WorkerPickTicket ==
    ASSUME TypeOK, TicketUnderOwner, WorkerPick
    PROVE  TicketUnderOwner'
<1>1. UNCHANGED <<generation, owner, ownerId, ticket>> /\ worker = "waiting"
      /\ worker' = "picked"
  BY DEF WorkerPick, arbiterState, ticketVars
<1>2. queue \in Seq(Request) /\ queue # <<>> /\ queue' = Tail(queue)
      /\ request' = Head(queue)
  BY DEF WorkerPick, TypeOK, WorkerTypeOK
<1>3. \A i \in 1..Len(queue) : queue[i] = request' \/ \E j \in 1..Len(queue') :
                                                       queue'[j] = queue[i]
  <2> TAKE i \in 1..Len(queue)
  <2>1. CASE i = 1
    BY <1>2, <2>1
  <2>2. CASE i > 1
    <3>1. i - 1 \in 1..Len(queue') /\ queue'[i - 1] = queue[i]
      BY <1>2, <2>2
    <3> QED
      BY <3>1
  <2> QED
    BY <1>2, <2>1, <2>2
<1>4. EndOnItsWay(generation) => EndOnItsWay(generation)'
  BY <1>1, <1>3 DEF EndOnItsWay
<1> QED
  BY <1>1, <1>4 DEF TicketUnderOwner

\* The worker lets an entry of the present session go only by ending it.
LEMMA WorkerFinishTicket ==
    ASSUME Inductive, QueueInv, TicketUnderOwner, WorkerFinish
    PROVE  TicketUnderOwner'
<1>1. CASE Current(request.kind, request.generation)
  BY <1>1, OwnerGone DEF WorkerFinish, ClearOwner
<1>2. CASE ~Current(request.kind, request.generation)
  <2>1. UNCHANGED <<generation, owner, ownerId, ticket, queue>> /\ worker = "picked"
    BY <1>2 DEF WorkerFinish, arbiterState, ticketVars
  <2>2. owner = "NONE" \/ request.generation # generation
    BY <1>2, <2>1 DEF Current, Inductive, ClosedInv, QueueInv, Entry
  <2> QED
    BY <2>1, <2>2 DEF TicketUnderOwner, EndOnItsWay
<1> QED
  BY <1>1, <1>2

LEMMA ProducersTicket ==
    TypeOK /\ RoomForTheEnd /\ TicketUnderOwner /\ Producers => TicketUnderOwner'
<1> SUFFICES ASSUME TypeOK, RoomForTheEnd, TicketUnderOwner, Producers
             PROVE  TicketUnderOwner'
  OBVIOUS
<1>1. CASE "CALL" \in Kinds /\ \E id \in Rooms : OfferPending("CALL", id, TRUE)
  BY <1>1, OfferTicket
<1>2. CASE "VOIP" \in Kinds /\ \E id \in Rooms : AdmitIncoming("VOIP", id, TRUE)
  BY <1>2, OfferTicket
<1>3. CASE \E kind \in IncomingKinds, id \in Id : CancelId(kind, id)
  BY <1>3, TicketKept DEF CancelId, Live, workerVars
<1>4. CASE LookAtTicket
  BY <1>4, TicketKept DEF LookAtTicket, arbiterState, workerVars
<1>5. ASSUME NEW kind, NEW consume, NEW id, Begin(kind, consume, id)
      PROVE  TicketUnderOwner'
  <2>1. UNCHANGED <<queue, request, worker>>
    BY <1>5 DEF Begin, workerVars
  <2>2. ticket' = NoTicket \/ (ticket' \in {ticket, NoTicket} /\ UNCHANGED arbiterState)
    BY <1>5 DEF Begin, Live
  <2> QED
    BY <2>1, <2>2, TicketKept DEF arbiterState, TicketUnderOwner
<1>6. CASE \E kind \in Kinds, gen \in 1..generation, id \in Id : RunAction(kind, gen, id)
  BY <1>6, TicketKept DEF RunAction, arbiterState, workerVars, ticketVars
<1>7. CASE \E kind \in Kinds, gen \in 1..generation : FinishLease(kind, gen)
  BY <1>7, OwnerGone DEF FinishLease, ClearOwner
<1>8. CASE \E kind \in Kinds, gen \in 1..generation, restore \in BOOLEAN :
              (restore => kind = "CALL") /\ FinishAsync(kind, gen, restore)
  BY <1>8, FinishAsyncTicket
<1>9. CASE ShutdownClose
  BY <1>9, OwnerGone DEF ShutdownClose, ClearOwner
<1> QED
  BY <1>1, <1>2, <1>3, <1>4, <1>5, <1>6, <1>7, <1>8, <1>9 DEF Producers

LEMMA MachineryTicket ==
    TypeOK /\ Inductive /\ QueueInv /\ TicketUnderOwner /\ Machinery => TicketUnderOwner'
<1> SUFFICES ASSUME TypeOK, Inductive, QueueInv, TicketUnderOwner, Machinery
             PROVE  TicketUnderOwner'
  OBVIOUS
<1>1. CASE CommitBegin
  BY <1>1, TicketKept, OwnerGone DEF CommitBegin, ClearOwner, arbiterState, workerVars
<1>2. CASE \E ok \in BOOLEAN : CommitAction(ok)
  BY <1>2, TicketKept, OwnerGone DEF CommitAction, ClearOwner, arbiterState, workerVars,
     ticketVars
<1>3. CASE EndReturned
  <2>1. owner = "NONE" /\ UNCHANGED owner
    BY <1>3 DEF EndReturned, arbiterState, Inductive, ControlInv, EndInv
  <2> QED
    BY <2>1, OwnerGone
<1>4. CASE WorkerPick
  BY <1>4, WorkerPickTicket
<1>5. CASE WorkerFinish
  BY <1>5, WorkerFinishTicket
<1>6. CASE WorkerDone \/ WorkerExit
  BY <1>6 DEF WorkerDone, WorkerExit, arbiterState, ticketVars, TicketUnderOwner, EndOnItsWay
<1>7. CASE ShutdownSealed \/ ShutdownStopsWorker \/ ShutdownJoined
  BY <1>7, TicketKept DEF ShutdownSealed, ShutdownStopsWorker, ShutdownJoined, arbiterState,
     workerVars, ticketVars
<1>8. CASE CoordinatorNext /\ UNCHANGED arbiterVars
  BY <1>8, TicketKept DEF arbiterVars, arbiterState, workerVars, ticketVars
<1> QED
  BY <1>1, <1>2, <1>3, <1>4, <1>5, <1>6, <1>7, <1>8 DEF Machinery

\* While the queue has room for the end of the present session, a ticket beside
\* a session is that session's own, with its end on the way (session_arbiter.c:
\* 410-431 restores it, 84 takes the entry).
THEOREM TicketNeedsRoom == Spec /\ []RoomForTheEnd => []TicketUnderOwner
<1>1. Init => TicketUnderOwner
  BY OwnerGone DEF Init, ArbiterInit, TicketUnderOwner
<1>2. TypeOK /\ Inductive /\ QueueInv /\ RoomForTheEnd /\ TicketUnderOwner /\ [Next]_vars
      => TicketUnderOwner'
  <2>1. ASSUME TicketUnderOwner, UNCHANGED vars PROVE TicketUnderOwner'
    BY <2>1, TicketKept DEF vars, arbiterVars, arbiterState, workerVars, ticketVars
  <2> QED
    BY <2>1, ProducersTicket, MachineryTicket DEF Next
<1> QED
  BY <1>1, <1>2, TypeInvariant, InductiveInvariant, QueueInvariant, PTL DEF Spec

-----------------------------------------------------------------------------
(* Rolling back a begin.                                                   *)

LEMMA TouchKept ==
    ASSUME TouchInv, UNCHANGED <<transition, ownerCancelled, withdrawn>>,
           ticketTouched => ticketTouched',
           ticket' \in {ticket, NoTicket} \/ (transition.op = "begin" => ticketTouched')
    PROVE  TouchInv'
BY DEF TouchInv

LEMMA NotBeginning ==
    ASSUME transition'.op # "begin"
    PROVE  TouchInv'
BY DEF TouchInv

LEMMA BeginTouch ==
    ASSUME TouchInv, NEW kind, NEW consume, NEW id, Begin(kind, consume, id)
    PROVE  TouchInv'
<1>1. CASE ticket' = NoTicket /\ withdrawn' = FALSE
  BY <1>1 DEF TouchInv
<1>2. CASE UNCHANGED transition
  BY <1>2, NotBeginning DEF Begin, Free
<1> QED
  BY <1>1, <1>2 DEF Begin

\* A cancellation is seen by the begin in progress, in one way or the other.
LEMMA CancelIdTouch ==
    ASSUME TouchInv, NEW kind, NEW id, CancelId(kind, id)
    PROVE  TouchInv'
<1>1. PICK due \in BOOLEAN, drops \in BOOLEAN, marks \in BOOLEAN :
         /\ ticket' = IF drops THEN NoTicket ELSE Live(due)
         /\ Touch(due \/ drops \/ marks)
         /\ ownerCancelled' = (ownerCancelled \/ marks)
         /\ withdrawn' => withdrawn \/ marks \/ drops
  <2>1. PICK due \in BOOLEAN : CancelId(kind, id)!(due)
    BY DEF CancelId
  <2> QED
    BY <2>1
<1>2. UNCHANGED transition
  BY DEF CancelId
<1>3. CASE due \/ drops \/ marks
  BY <1>1, <1>2, <1>3 DEF Touch, TouchInv
<1>4. CASE ~due /\ ~drops /\ ~marks
  BY <1>1, <1>2, <1>4 DEF Touch, TouchInv, Live
<1> QED
  BY <1>3, <1>4

LEMMA ProducersTouch == TouchInv /\ Producers => TouchInv'
<1> SUFFICES ASSUME TouchInv, Producers PROVE TouchInv'
  OBVIOUS
<1>1. CASE "CALL" \in Kinds /\ \E id \in Rooms : OfferPending("CALL", id, TRUE)
  BY <1>1, TouchKept DEF OfferPending, Live, Touch, arbiterState, history
<1>2. CASE "VOIP" \in Kinds /\ \E id \in Rooms : AdmitIncoming("VOIP", id, TRUE)
  BY <1>2, TouchKept DEF AdmitIncoming, Live, Touch, arbiterState, history
<1>3. CASE \E kind \in IncomingKinds, id \in Id : CancelId(kind, id)
  BY <1>3, CancelIdTouch
<1>4. CASE LookAtTicket
  BY <1>4, TouchKept DEF LookAtTicket, Touch, arbiterState, history
<1>5. CASE \/ \E kind \in IncomingKinds, id \in Rooms \cup {AnyId} : Begin(kind, TRUE, id)
           \/ \E kind \in Kinds, id \in Id :
                 (kind # "ROOM" => id = NoId) /\ Begin(kind, FALSE, id)
  BY <1>5, BeginTouch
<1>6. CASE \E kind \in Kinds, gen \in 1..generation, id \in Id : RunAction(kind, gen, id)
  BY <1>6, NotBeginning DEF RunAction, NoTransition
<1>7. CASE \E kind \in Kinds, gen \in 1..generation : FinishLease(kind, gen)
  BY <1>7, NotBeginning DEF FinishLease, StartEnding, NoTransition
<1>8. CASE \E kind \in Kinds, gen \in 1..generation, restore \in BOOLEAN :
              (restore => kind = "CALL") /\ FinishAsync(kind, gen, restore)
  BY <1>8, TouchKept DEF FinishAsync, Touch, arbiterState
<1>9. CASE ShutdownClose
  BY <1>9, NotBeginning DEF ShutdownClose, NoTransition
<1> QED
  BY <1>1, <1>2, <1>3, <1>4, <1>5, <1>6, <1>7, <1>8, <1>9 DEF Producers

LEMMA MachineryTouch == TypeOK /\ TouchInv /\ Machinery => TouchInv'
<1> SUFFICES ASSUME TypeOK, TouchInv, Machinery PROVE TouchInv'
  OBVIOUS
<1>0. NoTransition.op = "free"
  BY DEF NoTransition
<1>1. CASE CommitBegin
  <2>1. transition'.op = "end" \/ transition' = NoTransition
    BY <1>1 DEF CommitBegin, StartEnding, NoTransition
  <2> QED
    BY <1>0, <2>1, NotBeginning
<1>2. CASE \E ok \in BOOLEAN : CommitAction(ok)
  <2>1. transition'.op = "end" \/ transition' = NoTransition
    BY <1>2 DEF CommitAction, StartEnding, NoTransition
  <2> QED
    BY <1>0, <2>1, NotBeginning
<1>3. CASE EndReturned
  <2>1. transition' = [transition EXCEPT !.retries = @ + 1] \/ transition' = NoTransition
    BY <1>3 DEF EndReturned
  <2>2. transition.op = "end" /\ transition \in Transition
    BY <1>0, <1>3 DEF EndReturned, TypeOK
  <2>3. [transition EXCEPT !.retries = @ + 1].op = transition.op
    BY <2>2 DEF Transition
  <2> QED
    BY <1>0, <2>1, <2>2, <2>3, NotBeginning
<1>4. CASE WorkerFinish
  BY <1>4, NotBeginning DEF WorkerFinish, StartEnding, NoTransition, Free
<1>5. CASE WorkerPick \/ WorkerDone \/ WorkerExit
  BY <1>5, TouchKept DEF WorkerPick, WorkerDone, WorkerExit, arbiterState, ticketVars,
     history
<1>6. CASE ShutdownSealed
  BY <1>6, NotBeginning DEF ShutdownSealed, NoTransition
<1>7. CASE ShutdownStopsWorker \/ ShutdownJoined
  BY <1>7, TouchKept DEF ShutdownStopsWorker, ShutdownJoined, arbiterState, ticketVars,
     history
<1>8. CASE CoordinatorNext /\ UNCHANGED arbiterVars
  BY <1>8, TouchKept DEF arbiterVars, arbiterState, ticketVars, history
<1> QED
  BY <1>1, <1>2, <1>3, <1>4, <1>5, <1>6, <1>7, <1>8 DEF Machinery

LEMMA TouchInvariant == Spec => []TouchInv
<1>1. Init => TouchInv
  BY NotBeginning DEF Init, ArbiterInit, NoTransition, TouchInv
<1>2. TypeOK /\ TouchInv /\ [Next]_vars => TouchInv'
  <2>1. ASSUME TouchInv, UNCHANGED vars PROVE TouchInv'
    BY <2>1, TouchKept DEF vars, arbiterVars, arbiterState, ticketVars, history
  <2> QED
    BY <2>1, ProducersTouch, MachineryTouch DEF Next
<1> QED
  BY <1>1, <1>2, TypeInvariant, PTL DEF Spec

\* A begin that failed never brings a cancelled call back and never replaces a
\* ticket that appeared while it was starting (session_arbiter.c:331-339).
THEOREM RollbackOnlyUndoesBeginAlways == Spec => RollbackOnlyUndoesBegin
<1>1. TouchInv /\ CommitBegin /\ (withdrawn \/ ticket # NoTicket) => ticket' = ticket
  BY DEF TouchInv, CommitBegin, RollsBack
<1> QED
  BY <1>1, TouchInvariant, PTL DEF RollbackOnlyUndoesBegin

-----------------------------------------------------------------------------
(* The refinement: each step is, seen through the mapping of Ownership, a  *)
(* step of SessionOwnership or nothing.                                    *)

EndAsked == asked \/ withdrawn

\* What Ownership sees of a step is this tuple.
LEMMA Unseen ==
    ASSUME UNCHANGED <<owner, generation, Phase, EndAsked, closed>>
    PROVE  [Ownership!Next]_Ownership!vars
BY DEF Ownership!vars, EndAsked

LEMMA UnseenStep ==
    ASSUME UNCHANGED <<owner, generation, closed, transition, asked, withdrawn>>
    PROVE  [Ownership!Next]_Ownership!vars
BY DEF Ownership!vars, Phase

LEMMA CancelIdRefines ==
    ASSUME TypeOK, NEW kind, NEW id, CancelId(kind, id)
    PROVE  [Ownership!Next]_Ownership!vars
<1>1. UNCHANGED <<owner, generation, closed, transition, asked>>
  BY DEF CancelId
<1>2. withdrawn' \in BOOLEAN /\ withdrawn \in BOOLEAN /\ (withdrawn => withdrawn')
  BY DEF CancelId, TypeOK
<1>3. CASE withdrawn' = withdrawn
  BY <1>1, <1>3, UnseenStep
<1>4. CASE withdrawn'
  BY <1>1, <1>4 DEF Ownership!Next, Ownership!AskToEnd, Phase
<1> QED
  BY <1>2, <1>3, <1>4

LEMMA FinishAsyncRefines ==
    ASSUME NEW kind, NEW gen, NEW restore, FinishAsync(kind, gen, restore)
    PROVE  [Ownership!Next]_Ownership!vars
<1>1. UNCHANGED <<owner, generation, closed, transition, withdrawn>> /\ asked'
  BY DEF FinishAsync, arbiterState, Current
<1> QED
  BY <1>1 DEF Ownership!Next, Ownership!AskToEnd, Phase

LEMMA BeginRefines ==
    ASSUME Inductive, NEW kind \in Kinds, NEW consume, NEW id, Begin(kind, consume, id)
    PROVE  [Ownership!Next]_Ownership!vars
<1>1. CASE UNCHANGED <<arbiterState, history, transition, closed>>
  BY <1>1, UnseenStep DEF arbiterState, history
<1>2. CASE /\ ~closed /\ Replaceable(kind) /\ UNCHANGED closed
           /\ owner' = kind /\ generation' = generation + 1
           /\ asked' = FALSE /\ withdrawn' = FALSE /\ transition'.op = "begin"
  <2>1. Phase' = "starting"
    BY <1>2, KindsAssumption DEF Phase
  <2>2. Phase = "free" \/ (owner = "ROOM" /\ kind # "ROOM")
    BY <1>2 DEF Replaceable, Phase
  <2>3. Ownership!Grant(kind)
    BY <1>2, <2>1, <2>2 DEF Ownership!Grant
  <2> QED
    BY <2>3 DEF Ownership!Next
<1> QED
  BY <1>1, <1>2 DEF Begin, NoTransition

LEMMA CommitBeginRefines ==
    ASSUME Inductive, CommitBegin
    PROVE  [Ownership!Next]_Ownership!vars
<1>1. /\ transition.op = "begin" /\ owner # "NONE"
      /\ UNCHANGED <<closed, asked, withdrawn>>
  BY KindsAssumption
     DEF CommitBegin, Inductive, ControlInv, BeginInv, StillOwner, history
<1>2. Phase = "starting" /\ UNCHANGED generation
  BY <1>1 DEF Phase, CommitBegin, ClearOwner, arbiterState
<1>3. CASE owner' = "NONE"
  <2>1. Phase' = "free"
    BY <1>3 DEF Phase
  <2>2. Ownership!Withdraw
    BY <1>1, <1>2, <1>3, <2>1 DEF Ownership!Withdraw, Ownership!Vacate
  <2> QED
    BY <2>2 DEF Ownership!Next
<1>4. CASE owner' = owner /\ transition'.op # "begin"
  <2>1. Phase' = "running"
    BY <1>1, <1>4 DEF Phase
  <2>2. Ownership!Confirm
    BY <1>1, <1>2, <1>4, <2>1 DEF Ownership!Confirm
  <2> QED
    BY <2>2 DEF Ownership!Next
<1>5. owner' = "NONE" \/ (owner' = owner /\ transition'.op # "begin")
  <2>1. StillOwner
    BY <1>1 DEF Inductive, ControlInv, BeginInv
  <2>2. CASE StartLost
    BY <2>1, <2>2 DEF CommitBegin, ClearOwner
  <2>3. CASE ~StartLost
    <3>1. ~Cancelled /\ UNCHANGED arbiterState
      BY <2>3 DEF CommitBegin, StartLost
    <3>2. transition' = NoTransition
      BY <3>1 DEF CommitBegin
    <3> QED
      BY <3>1, <3>2 DEF arbiterState, NoTransition
  <2> QED
    BY <2>2, <2>3
<1> QED
  BY <1>3, <1>4, <1>5

LEMMA RunActionRefines ==
    ASSUME NEW kind, NEW gen, NEW id, RunAction(kind, gen, id)
    PROVE  [Ownership!Next]_Ownership!vars
<1>1. UNCHANGED <<owner, generation, closed, asked, withdrawn>>
      /\ transition.op = "free" /\ transition'.op = "action"
  BY DEF RunAction, arbiterState, history, Free, NoTransition
<1>2. UNCHANGED Phase
  BY <1>1 DEF Phase
<1> QED
  BY <1>1, <1>2, Unseen DEF EndAsked

\* A running session ends after it was asked to.
LEMMA ReleaseRefines ==
    ASSUME transition.op # "begin", owner # "NONE", ClearOwner, UNCHANGED closed,
           asked' \/ withdrawn'
    PROVE  [Ownership!Next]_Ownership!vars
<1>1. Phase = "running" /\ Phase' = "free"
  BY DEF Phase, ClearOwner
<1>2. Ownership!Release
  BY <1>1 DEF Ownership!Release, Ownership!Vacate, ClearOwner
<1> QED
  BY <1>2 DEF Ownership!Next

LEMMA CommitActionRefines ==
    ASSUME TypeOK, Inductive, NEW ok \in BOOLEAN, CommitAction(ok)
    PROVE  [Ownership!Next]_Ownership!vars
<1>1. /\ transition.op = "action" /\ UNCHANGED <<closed, withdrawn>>
      /\ Current(transition.kind, transition.generation)
  BY DEF CommitAction, Inductive, ControlInv, ActionInv
<1>2. owner # "NONE"
  BY <1>1, KindsAssumption DEF Inductive, ControlInv, ActionInv, Current
<1>3. CASE ActionLost(ok)
  <2>1. ClearOwner
    BY <1>1, <1>3 DEF CommitAction
  <2>2. asked' \/ withdrawn'
    <3>1. CASE ~ok
      BY <3>1 DEF CommitAction
    <3>2. CASE ownerCancelled
      BY <1>1, <3>2 DEF Inductive, AskedInv
    <3> QED
      BY <1>3, <3>1, <3>2 DEF ActionLost
  <2> QED
    BY <1>1, <1>2, <2>1, <2>2, ReleaseRefines
<1>4. CASE ~ActionLost(ok)
  <2>1. UNCHANGED <<owner, generation>> /\ transition'.op = "free" /\ ok
    <3>1. transition' = NoTransition /\ UNCHANGED arbiterState /\ ok
      BY <1>4 DEF CommitAction, ActionLost
    <3> QED
      BY <3>1 DEF arbiterState, NoTransition
  <2>2. UNCHANGED Phase
    BY <1>1, <2>1 DEF Phase
  <2>3. EndAsked' = EndAsked
    <3>1. asked \in BOOLEAN /\ asked' = (asked \/ ~ok)
      BY DEF CommitAction, TypeOK
    <3>2. asked' = asked
      BY <2>1, <3>1
    <3> QED
      BY <1>1, <3>2 DEF EndAsked
  <2> QED
    BY <1>1, <2>1, <2>2, <2>3, Unseen
<1> QED
  BY <1>3, <1>4

LEMMA FinishLeaseRefines ==
    ASSUME NEW kind \in Kinds, NEW gen, FinishLease(kind, gen)
    PROVE  [Ownership!Next]_Ownership!vars
<1>1. /\ transition.op = "free" /\ ClearOwner /\ UNCHANGED closed /\ asked'
      /\ owner = kind
  BY DEF FinishLease, Free, Current
<1> QED
  BY <1>1, KindsAssumption, ReleaseRefines

LEMMA WorkerFinishRefines ==
    ASSUME Inductive, WorkerFinish
    PROVE  [Ownership!Next]_Ownership!vars
<1>1. transition.op = "free" /\ UNCHANGED <<closed, asked, withdrawn>>
  BY DEF WorkerFinish, Free, history
<1>2. CASE Current(request.kind, request.generation)
  <2>1. ClearOwner /\ owner # "NONE" /\ asked
    BY <1>2 DEF WorkerFinish, Current, Inductive, AskedInv
  <2> QED
    BY <1>1, <2>1, ReleaseRefines
<1>3. CASE ~Current(request.kind, request.generation)
  BY <1>1, <1>3, UnseenStep DEF WorkerFinish, arbiterState
<1> QED
  BY <1>2, <1>3

LEMMA EndReturnedRefines ==
    ASSUME Inductive, EndReturned
    PROVE  [Ownership!Next]_Ownership!vars
<1>1. /\ UNCHANGED <<owner, generation, closed, asked, withdrawn>>
      /\ owner = "NONE"
  BY DEF EndReturned, arbiterState, history, Inductive, ControlInv, EndInv
<1>2. UNCHANGED Phase
  BY <1>1 DEF Phase
<1> QED
  BY <1>1, <1>2, Unseen DEF EndAsked

LEMMA ShutdownRefines ==
    ASSUME Inductive, ShutdownClose \/ ShutdownSealed
    PROVE  [Ownership!Next]_Ownership!vars
<1>1. CASE ShutdownClose
  <2>1. ClearOwner /\ closed' = TRUE /\ UNCHANGED <<asked, withdrawn>>
    BY <1>1 DEF ShutdownClose, history
  <2>2. Phase' = "free"
    BY <2>1 DEF Phase, ClearOwner
  <2>3. Ownership!Shut
    BY <2>1, <2>2 DEF Ownership!Shut, Ownership!Vacate, ClearOwner
  <2> QED
    BY <2>3 DEF Ownership!Next
<1>2. CASE ShutdownSealed
  <2>1. /\ UNCHANGED <<owner, generation, closed, asked, withdrawn>>
        /\ transition.op = "shutdown"
    BY <1>2 DEF ShutdownSealed, arbiterState, history
  <2>2. owner = "NONE"
    BY <2>1 DEF Inductive, ClosedInv
  <2>3. UNCHANGED Phase
    BY <2>1, <2>2 DEF Phase
  <2> QED
    BY <2>1, <2>3, Unseen DEF EndAsked
<1> QED
  BY <1>1, <1>2

\* The steps that leave the owner, the holder and the history alone.
LEMMA OtherStepsRefine ==
    ASSUME \/ \E kind, id, timed : OfferPending(kind, id, timed)
           \/ \E kind, id, timed : AdmitIncoming(kind, id, timed)
           \/ LookAtTicket \/ WorkerPick \/ WorkerDone \/ WorkerExit
           \/ ShutdownStopsWorker \/ ShutdownJoined
           \/ UNCHANGED arbiterVars
    PROVE  [Ownership!Next]_Ownership!vars
<1>1. UNCHANGED <<owner, generation, closed, transition, asked, withdrawn>>
  BY DEF OfferPending, AdmitIncoming, LookAtTicket, WorkerPick, WorkerDone, WorkerExit,
         ShutdownStopsWorker, ShutdownJoined, arbiterVars, arbiterState, history
<1> QED
  BY <1>1, UnseenStep

LEMMA ProducersRefine ==
    ASSUME TypeOK, Inductive, Producers
    PROVE  [Ownership!Next]_Ownership!vars
BY CancelIdRefines, FinishAsyncRefines, BeginRefines, RunActionRefines,
   FinishLeaseRefines, ShutdownRefines, OtherStepsRefine DEF Producers, IncomingKinds

LEMMA MachineryRefines ==
    ASSUME TypeOK, Inductive, Machinery
    PROVE  [Ownership!Next]_Ownership!vars
BY CommitBeginRefines, CommitActionRefines, EndReturnedRefines, WorkerFinishRefines,
   ShutdownRefines, OtherStepsRefine DEF Machinery

\* A session loses the runtime only when it was asked to end, when it is the
\* room and a foreground session takes over, or when the device shuts down.
THEOREM ArbiterImplementsOwnership == Spec => OwnershipSpec
<1>1. Init => Ownership!Init
  BY DEF Init, ArbiterInit, Ownership!Init, Phase
<1>2. TypeOK /\ Inductive /\ [Next]_vars => [Ownership!Next]_Ownership!vars
  BY ProducersRefine, MachineryRefines, OtherStepsRefine DEF Next, vars
<1> QED
  BY <1>1, <1>2, TypeInvariant, InductiveInvariant, PTL
     DEF Spec, OwnershipSpec, Ownership!Spec
=============================================================================
