-------------------------- MODULE CallRoomsProofs --------------------------
(***************************************************************************)
(* Theorems about CallRooms, for every set of devices, rooms and           *)
(* goroutines: one device at most wins a call, only the caller and that    *)
(* device are locked to it, a call that was released stays released,       *)
(* requests that do not cross leave locks and rooms in step, a call ends   *)
(* as refused only when all its targets refused it, and nobody keeps the   *)
(* token of a call that is over without being told, but devices that were  *)
(* unbound.  And about contacts (CallContacts and Contacts, as MCContacts  *)
(* runs them): their limit, that notices of a change are followed, and     *)
(* that no list turns back.                                                *)
(***************************************************************************)
EXTENDS CallRooms, MCContacts, FiniteSetTheorems, TLAPS

(* What a step of goroutine w, which goes on with the request q, may do to  *)
(* Redis.  Every step is of this kind but the two of POST /v1/call/request  *)
(* that bring a room into being.                                            *)

Proceeds(w, q) ==
    /\ worker' = [worker EXCEPT ![w] = q]
    /\ q \in Request /\ WellFormed(q) /\ q.step # "create"
    /\ q.rm.id \in {NONE, worker[w].rm.id} \/ Readable(q.rm.id)
    /\ q.step \in Leaving =>
          \/ Readable(q.old.id)
          \/ worker[w].step \in Leaving /\ q.old.id = worker[w].old.id
    /\ q.step \in Won =>
          /\ q.rm.id = worker[w].rm.id /\ q.self = worker[w].self
          /\ worker[w].step \in Won \/ answered'[q.rm.id] = q.self

LeavesRoom(w) ==
    /\ used' = used /\ released \subseteq released'
    /\ \A r \in Rooms : room'[r].caller \in {NONE, room[r].caller}
    /\ \A r \in released' \ released :
          worker[w].step = "release" /\ r = worker[w].old.id /\ room'[r].caller = NONE
    /\ \A r \in Rooms \ released' :
          /\ answered'[r] = answered[r] \/ answered[r] = NONE
          /\ \A d \in granted'[r] : \/ d \in granted[r]
                                    \/ /\ worker[w].step = "reply"
                                       /\ r = worker[w].rm.id /\ d = worker[w].self

LeavesLock(w) == \A d \in Devices :
    \/ lock'[d] \in {NONE, lock[d]}
    \/ /\ worker[w].step \in Won
       /\ d = worker[w].self /\ lock'[d] = worker[w].rm.id

Others == /\ FreshInv /\ CreateInv
          /\ AnswerIsExclusive /\ LockHolderBelongs /\ ReleasedIsGone

\* Such a step keeps the invariant (its type apart).
LEMMA ProceedsKeeps ==
    ASSUME Inductive, NEW w \in Workers, NEW q,
           Proceeds(w, q), LeavesRoom(w), LeavesLock(w), TypeOK'
    PROVE  RequestInv' /\ Others'
<1> USE DevicesAssumption, CallRoomsAssumption
<1> USE DEF Leaving, Proceeds, LeavesRoom, LeavesLock, Readable, At
<1>1. /\ worker'[w] = q
      /\ \A v \in Workers \ {w} : worker'[v] = worker[v]
  BY DEF Inductive, TypeOK
<1>2. RequestInv'
  BY <1>1 DEF Inductive, RequestInv
<1>3. ASSUME NEW r \in Rooms, Unread(r)
      PROVE  /\ Unread(r)'
             /\ r # NONE
             /\ ~Readable(r)
  <2>1. ~Readable(r)' /\ ~Readable(r)
    BY <1>3 DEF Unread
  <2>2. r \notin released'
    BY <1>3 DEF Unread
  <2>3. \A v \in Workers : worker'[v].step \in Leaving => worker'[v].old.id # r
    BY <1>1, <1>3, <2>1 DEF Unread
  <2> QED BY <2>1, <2>2, <2>3, <1>3 DEF Unread
<1>4. FreshInv'
  <2> SUFFICES ASSUME NEW r \in Rooms, r \notin used'
               PROVE  /\ Unread(r)'
                      /\ \A v \in Workers : worker'[v].rm.id # r
                      /\ \A d \in Devices : lock'[d] # r
    BY DEF FreshInv
  <2>1. /\ Unread(r)
        /\ \A v \in Workers : worker[v].rm.id # r
        /\ \A d \in Devices : lock[d] # r
    BY DEF Inductive, FreshInv
  <2> QED BY <1>1, <1>3, <2>1
<1>5. CreateInv'
  <2> SUFFICES ASSUME NEW v \in Workers, worker'[v].step = "create",
                      NEW r, r = worker'[v].rm.id
               PROVE  /\ Unread(r)'
                      /\ \A u \in Workers \ {v} : worker'[u].rm.id # r
                      /\ \A d \in Devices : lock'[d] = r => d = worker'[v].self
                      /\ worker'[v].rm.hash.caller = worker'[v].self
                      /\ r \in used'
    BY DEF CreateInv, Unread
  <2>1. v # w /\ worker'[v] = worker[v] /\ r = worker[v].rm.id /\ r \in Rooms
    BY <1>1 DEF Inductive, RequestInv, WellFormed
  <2>2. /\ Unread(r)
        /\ \A u \in Workers \ {v} : worker[u].rm.id # r
        /\ \A d \in Devices : lock[d] = r => d = worker[v].self
        /\ worker[v].rm.hash.caller = worker[v].self
        /\ r \in used
    BY <2>1 DEF Inductive, CreateInv
  <2>3. Unread(r)' /\ ~Readable(r) /\ r # NONE
    BY <1>3, <2>1, <2>2
  <2> QED BY <1>1, <2>1, <2>2, <2>3
<1>6. AnswerIsExclusive'
  <2> SUFFICES ASSUME NEW r \in Rooms \ released'
               PROVE  /\ granted'[r] \subseteq {answered'[r]}
                      /\ \A v \in Workers : worker'[v].step \in Won /\ worker'[v].rm.id = r
                                           => worker'[v].self = answered'[r]
    BY DEF AnswerIsExclusive
  <2>1. /\ granted[r] \subseteq {answered[r]} /\ granted[r] \subseteq Devices
        /\ \A v \in Workers : worker[v].step \in Won /\ worker[v].rm.id = r
                             => worker[v].self = answered[r]
    BY DEF Inductive, AnswerIsExclusive, TypeOK
  <2>2. \A v \in Workers : worker[v].step \in Won => worker[v].self \in Devices
    BY DEF Inductive, RequestInv, WellFormed, Won
  <2>3. /\ answered'[r] = answered[r] \/ answered[r] = NONE
        /\ \A d \in granted'[r] : d \in granted[r] \/ d = answered[r]
    BY <2>1 DEF Won
  <2>4. granted'[r] \subseteq {answered'[r]}
    BY <2>1, <2>2, <2>3 DEF TypeOK, Won
  <2> QED BY <1>1, <2>1, <2>2, <2>3, <2>4
<1>7. ReleasedIsGone'
  BY DEF ReleasedIsGone, Inductive, TypeOK
<1>8. LockHolderBelongs'
  <2> SUFFICES ASSUME NEW d \in Devices, NEW r, r = lock'[d], r # NONE,
                      room'[r].caller # NONE
               PROVE  d = room'[r].caller \/ d = answered'[r]
    BY DEF LockHolderBelongs
  <2>1. r \in Rooms /\ r \notin released'
    BY <1>7 DEF TypeOK, ReleasedIsGone
  <2>2. room'[r].caller = room[r].caller /\ Readable(r) /\ r \notin released
    BY <2>1
  <2>3. answered'[r] = answered[r] \/ answered[r] = NONE
    BY <2>1
  <2>4. d = room[r].caller \/ d = answered[r]
    <3>1. CASE lock'[d] = lock[d]
      BY <3>1, <2>2 DEF Inductive, LockHolderBelongs
    <3>2. CASE worker[w].step \in Won /\ d = worker[w].self /\ r = worker[w].rm.id
      BY <3>2, <2>1, <2>2 DEF Inductive, AnswerIsExclusive
    <3> QED BY <3>1, <3>2
  <2> QED BY <2>2, <2>3, <2>4
<1> QED BY <1>2, <1>4, <1>5, <1>6, <1>7, <1>8 DEF Others

LEMMA FinishKeeps ==
    ASSUME Inductive, NEW w \in Workers,
           Finish(w), LeavesRoom(w), LeavesLock(w), TypeOK'
    PROVE  Inductive'
<1>1. Proceeds(w, Idle)
  BY DEF Proceeds, Finish, Idle, WellFormed, Request, Reason, Step, Snapshot, NoSnapshot,
         Hash, NoHash, Leaving, Won
<1> QED BY <1>1, ProceedsKeeps DEF Others, Inductive

LEMMA ContinueKeeps ==
    ASSUME Inductive, NEW w \in Workers, NEW s \in Step \ {"idle", "create"},
           worker' = [worker EXCEPT ![w].step = s], ~At(w, "idle"),
           s \notin {"query", "find", "dropOrphan"} => worker[w].rm.id \in Rooms,
           s \in {"readOld", "dropOrphan", "query", "find"} \cup Leaving
              => worker[w].old.id \in Rooms,
           s \in Leaving => worker[w].step \in Leaving,
           s \in Won =>
              worker[w].step \in Won \/ answered'[worker[w].rm.id] = worker[w].self,
           LeavesRoom(w), LeavesLock(w), TypeOK'
    PROVE  Inductive'
<1> DEFINE q == [worker[w] EXCEPT !.step = s]
<1>1. worker[w] \in Request /\ WellFormed(worker[w])
  BY DEF Inductive, TypeOK, RequestInv
<1>2. /\ q \in Request /\ q.step = s /\ q.self = worker[w].self
      /\ q.rm = worker[w].rm /\ q.old = worker[w].old
  BY <1>1 DEF Request
<1>3. worker' = [worker EXCEPT ![w] = q]
  BY DEF Inductive, TypeOK
<1> HIDE DEF q
<1>4. WellFormed(q)
  BY <1>1, <1>2 DEF WellFormed, At
<1>5. Proceeds(w, q)
  BY <1>2, <1>3, <1>4 DEF Proceeds
<1> QED BY <1>5, ProceedsKeeps DEF Others, Inductive

\* A step that touches neither locks nor rooms.
LEMMA Untouched ==
    ASSUME NEW w \in Workers,
           UNCHANGED <<lock, room, answered, used, released, granted>>
    PROVE  LeavesRoom(w) /\ LeavesLock(w)
BY DEF LeavesRoom, LeavesLock

LEMMA WorkerTyped ==
    ASSUME TypeOK, NEW w \in Workers, NEW s \in Step,
           Finish(w) \/ worker' = [worker EXCEPT ![w].step = s]
    PROVE  worker' \in [Workers -> Request]
<1>1. worker[w] \in Request
  BY DEF TypeOK
<1>2. [worker[w] EXCEPT !.step = s] \in Request
  BY <1>1 DEF Request
<1>3. Idle \in Request
  BY DEF Request, Reason, Idle, Step, Snapshot, NoSnapshot, Hash, NoHash
<1> QED BY <1>2, <1>3 DEF TypeOK, Finish

-----------------------------------------------------------------------------
(* One lemma for each step.                                                 *)

USE DEF redis, told, over

LEMMA PublishCallIncomingKeeps ==
    ASSUME Inductive, NEW w \in Workers, PublishCallIncoming(w)
    PROVE  Inductive'
<1> USE DEF PublishCallIncoming, At
<1>1. /\ TypeOK /\ worker[w] \in Request /\ WellFormed(worker[w])
      /\ worker[w].self \in Devices /\ worker[w].rm.id \in Rooms
  BY DEF Inductive, TypeOK, RequestInv, WellFormed, Leaving
<1>2. Finish(w)
  BY DEF ContinueOrFinish, Continue
<1>3. TypeOK'
  <2>1. worker' \in [Workers -> Request]
    BY <1>1, <1>2, WorkerTyped DEF Step
  <2>2. deaths' \in 0..MaxDeaths /\ disturbed' \in BOOLEAN
    BY <1>1, MaxDeathsAssumption DEF TypeOK, Continue, Finish, ContinueOrFinish
  <2>3. incoming' \in [Devices -> SUBSET Rooms]
    BY <1>1 DEF TypeOK
  <2> QED BY <1>1, <2>1, <2>2, <2>3 DEF TypeOK
<1>4. LeavesRoom(w) /\ LeavesLock(w)
  BY Untouched
<1>6. Inductive'
  BY <1>3, <1>4, <1>2, FinishKeeps
<1> QED BY <1>6

LEMMA ReadLockFailedKeeps ==
    ASSUME Inductive, NEW w \in Workers, ReadLockFailed(w)
    PROVE  Inductive'
<1> USE DEF ReadLockFailed, At
<1>1. /\ TypeOK /\ worker[w] \in Request /\ WellFormed(worker[w])
      /\ worker[w].self \in Devices /\ worker[w].rm.id \in Rooms
  BY DEF Inductive, TypeOK, RequestInv, WellFormed, Leaving
<1>2. worker' = [worker EXCEPT ![w].step = "claim"]
  BY DEF ContinueOrFinish, Continue
<1>3. TypeOK'
  <2>1. worker' \in [Workers -> Request]
    BY <1>1, <1>2, WorkerTyped DEF Step
  <2>2. deaths' \in 0..MaxDeaths /\ disturbed' \in BOOLEAN
    BY <1>1, MaxDeathsAssumption DEF TypeOK, Continue, Finish, ContinueOrFinish
  <2> QED BY <1>1, <2>1, <2>2 DEF TypeOK
<1>4. LeavesRoom(w) /\ LeavesLock(w)
  BY Untouched
<1>5. Inductive'
  BY <1>1, <1>2, <1>3, <1>4, ContinueKeeps DEF Step, WellFormed, Leaving, Won
<1> QED BY <1>5

LEMMA ClaimAnswerKeeps ==
    ASSUME Inductive, NEW w \in Workers, ClaimAnswer(w)
    PROVE  Inductive'
<1> USE DEF ClaimAnswer, At
<1>1. /\ TypeOK /\ worker[w] \in Request /\ WellFormed(worker[w])
      /\ worker[w].self \in Devices /\ worker[w].rm.id \in Rooms
  BY DEF Inductive, TypeOK, RequestInv, WellFormed, Leaving
<1>2. worker' = [worker EXCEPT ![w].step = "takeLock"] \/ Finish(w)
  BY DEF ContinueOrFinish, Continue
<1>3. TypeOK'
  <2>1. worker' \in [Workers -> Request]
    BY <1>1, <1>2, WorkerTyped DEF Step
  <2>2. deaths' \in 0..MaxDeaths /\ disturbed' \in BOOLEAN
    BY <1>1, MaxDeathsAssumption DEF TypeOK, Continue, Finish, ContinueOrFinish
  <2>3. answered' \in [Rooms -> Devices \cup {NONE}]
    BY <1>1 DEF TypeOK
  <2> QED BY <1>1, <2>1, <2>2, <2>3 DEF TypeOK
<1>4. LeavesRoom(w) /\ LeavesLock(w)
  BY <1>1 DEF LeavesRoom, LeavesLock, TypeOK, Won
<1>5. CASE answered[worker[w].rm.id] = NONE
  BY <1>1, <1>2, <1>3, <1>4, <1>5, ContinueKeeps DEF Step, WellFormed, Leaving, Won, Continue, TypeOK
<1>6. CASE ~(answered[worker[w].rm.id] = NONE)
  BY <1>3, <1>4, <1>6, FinishKeeps DEF Continue, TypeOK
<1> QED BY <1>2, <1>5, <1>6

LEMMA OverwriteLockKeeps ==
    ASSUME Inductive, NEW w \in Workers, OverwriteLock(w)
    PROVE  Inductive'
<1> USE DEF OverwriteLock, At
<1>1. /\ TypeOK /\ worker[w] \in Request /\ WellFormed(worker[w])
      /\ worker[w].self \in Devices /\ worker[w].rm.id \in Rooms
  BY DEF Inductive, TypeOK, RequestInv, WellFormed, Leaving
<1>2. worker' = [worker EXCEPT ![w].step = "record"]
  BY DEF ContinueOrFinish, Continue
<1>3. TypeOK'
  <2>1. worker' \in [Workers -> Request]
    BY <1>1, <1>2, WorkerTyped DEF Step
  <2>2. deaths' \in 0..MaxDeaths /\ disturbed' \in BOOLEAN
    BY <1>1, MaxDeathsAssumption DEF TypeOK, Continue, Finish, ContinueOrFinish
  <2>3. lock' \in [Devices -> Rooms \cup {NONE}]
    BY <1>1 DEF TypeOK
  <2> QED BY <1>1, <2>1, <2>2, <2>3 DEF TypeOK
<1>4. LeavesRoom(w) /\ LeavesLock(w)
  BY <1>1 DEF LeavesRoom, LeavesLock, TypeOK, Won
<1>5. Inductive'
  BY <1>1, <1>2, <1>3, <1>4, ContinueKeeps DEF Step, WellFormed, Leaving, Won
<1> QED BY <1>5

LEMMA SetAnsweredByKeeps ==
    ASSUME Inductive, NEW w \in Workers, SetAnsweredBy(w)
    PROVE  Inductive'
<1> USE DEF SetAnsweredBy, At
<1>1. /\ TypeOK /\ worker[w] \in Request /\ WellFormed(worker[w])
      /\ worker[w].self \in Devices /\ worker[w].rm.id \in Rooms
  BY DEF Inductive, TypeOK, RequestInv, WellFormed, Leaving
<1>2. worker' = [worker EXCEPT ![w].step = "reply"]
  BY DEF ContinueOrFinish, Continue
<1>3. TypeOK'
  <2>1. worker' \in [Workers -> Request]
    BY <1>1, <1>2, WorkerTyped DEF Step
  <2>2. deaths' \in 0..MaxDeaths /\ disturbed' \in BOOLEAN
    BY <1>1, MaxDeathsAssumption DEF TypeOK, Continue, Finish, ContinueOrFinish
  <2>3. room[worker[w].rm.id] \in Hash
    BY <1>1 DEF TypeOK
  <2>4. [room[worker[w].rm.id] EXCEPT !.answeredBy = worker[w].self] \in Hash
    BY <1>1, <2>3 DEF Hash
  <2>5. room' \in [Rooms -> Hash]
    BY <1>1, <2>4 DEF TypeOK
  <2> QED BY <1>1, <2>1, <2>2, <2>3, <2>4, <2>5 DEF TypeOK
<1>4. LeavesRoom(w) /\ LeavesLock(w)
  BY <1>1 DEF LeavesRoom, LeavesLock, TypeOK, Won, Hash
<1>5. Inductive'
  BY <1>1, <1>2, <1>3, <1>4, ContinueKeeps DEF Step, WellFormed, Leaving, Won
<1> QED BY <1>5

LEMMA ReplyTokenKeeps ==
    ASSUME Inductive, NEW w \in Workers, ReplyToken(w)
    PROVE  Inductive'
<1> USE DEF ReplyToken, At
<1>1. /\ TypeOK /\ worker[w] \in Request /\ WellFormed(worker[w])
      /\ worker[w].self \in Devices /\ worker[w].rm.id \in Rooms
  BY DEF Inductive, TypeOK, RequestInv, WellFormed, Leaving
<1>2. Finish(w)
  BY DEF ContinueOrFinish, Continue
<1>3. TypeOK'
  <2>1. worker' \in [Workers -> Request]
    BY <1>1, <1>2, WorkerTyped DEF Step
  <2>2. deaths' \in 0..MaxDeaths /\ disturbed' \in BOOLEAN
    BY <1>1, MaxDeathsAssumption DEF TypeOK, Continue, Finish, ContinueOrFinish
  <2>3. worker[w].rm.hash.targets \in SUBSET Devices
    BY <1>1 DEF Request, Snapshot, Hash
  <2>4. granted' \in [Rooms -> SUBSET Devices] /\ knows' \in [Rooms -> SUBSET Devices]
    BY <1>1, <2>3 DEF TypeOK
  <2> QED BY <1>1, <2>1, <2>2, <2>3, <2>4 DEF TypeOK
<1>4. LeavesRoom(w) /\ LeavesLock(w)
  BY <1>1 DEF LeavesRoom, LeavesLock, TypeOK, Won
<1>6. Inductive'
  BY <1>3, <1>4, <1>2, FinishKeeps
<1> QED BY <1>6

LEMMA ReleaseRoomKeeps ==
    ASSUME Inductive, NEW w \in Workers, ReleaseRoom(w)
    PROVE  Inductive'
<1> USE DEF ReleaseRoom, At
<1>1. /\ TypeOK /\ worker[w] \in Request /\ WellFormed(worker[w])
      /\ worker[w].self \in Devices /\ worker[w].rm.id \in Rooms /\ worker[w].old.id \in Rooms
  BY DEF Inductive, TypeOK, RequestInv, WellFormed, Leaving
<1>2. worker' = [worker EXCEPT ![w].step = "tell"]
  BY DEF ContinueOrFinish, Continue
<1>3. TypeOK'
  <2>1. worker' \in [Workers -> Request]
    BY <1>1, <1>2, WorkerTyped DEF Step
  <2>2. deaths' \in 0..MaxDeaths /\ disturbed' \in BOOLEAN
    BY <1>1, MaxDeathsAssumption DEF TypeOK, Continue, Finish, ContinueOrFinish
  <2>3. lock' \in [Devices -> Rooms \cup {NONE}]
    BY <1>1 DEF TypeOK, Unlock
  <2>4. room' \in [Rooms -> Hash]
    BY <1>1 DEF TypeOK, DeleteRoom, Hash, NoHash
  <2>5. answered' \in [Rooms -> Devices \cup {NONE}] /\ rejected' \in [Rooms -> SUBSET Devices]
    BY <1>1 DEF TypeOK, DeleteRoom
  <2> QED BY <1>1, <2>1, <2>2, <2>3, <2>4, <2>5 DEF TypeOK
<1>4. LeavesRoom(w) /\ LeavesLock(w)
  BY <1>1 DEF LeavesRoom, LeavesLock, TypeOK, Won, Unlock, DeleteRoom, NoHash
<1>5. Inductive'
  BY <1>1, <1>2, <1>3, <1>4, ContinueKeeps DEF Step, WellFormed, Leaving, Won
<1> QED BY <1>5

LEMMA PublishRoomCancelKeeps ==
    ASSUME Inductive, NEW w \in Workers, PublishRoomCancel(w)
    PROVE  Inductive'
<1> USE DEF PublishRoomCancel, At
<1>1. /\ TypeOK /\ worker[w] \in Request /\ WellFormed(worker[w])
      /\ worker[w].self \in Devices /\ worker[w].rm.id \in Rooms /\ worker[w].old.id \in Rooms
  BY DEF Inductive, TypeOK, RequestInv, WellFormed, Leaving
<1>2. worker' = [worker EXCEPT ![w].step = "claim"] \/ Finish(w)
  BY DEF ContinueOrFinish, Continue
<1>3. TypeOK'
  <2>1. worker' \in [Workers -> Request]
    BY <1>1, <1>2, WorkerTyped DEF Step
  <2>2. deaths' \in 0..MaxDeaths /\ disturbed' \in BOOLEAN
    BY <1>1, MaxDeathsAssumption DEF TypeOK, Continue, Finish, ContinueOrFinish
  <2>3. worker[w].others \in SUBSET Devices
    BY <1>1 DEF Request
  <2>4. /\ knows' \in [Rooms -> SUBSET Devices]
        /\ unbound' \in [Rooms -> SUBSET Devices]
    BY <1>1, <2>3 DEF TypeOK
  <2> QED BY <1>1, <2>1, <2>2, <2>3, <2>4 DEF TypeOK
<1>4. LeavesRoom(w) /\ LeavesLock(w)
  BY Untouched
<1>5. CASE worker' = [worker EXCEPT ![w].step = "claim"]
  BY <1>1, <1>2, <1>3, <1>4, <1>5, ContinueKeeps DEF Step, WellFormed, Leaving, Won
<1>6. CASE Finish(w)
  BY <1>3, <1>4, <1>6, FinishKeeps
<1> QED BY <1>2, <1>5, <1>6

LEMMA AddRejectedKeeps ==
    ASSUME Inductive, NEW w \in Workers, AddRejected(w)
    PROVE  Inductive'
<1> USE DEF AddRejected, At
<1>1. /\ TypeOK /\ worker[w] \in Request /\ WellFormed(worker[w])
      /\ worker[w].self \in Devices /\ worker[w].rm.id \in Rooms /\ worker[w].old.id \in Rooms
  BY DEF Inductive, TypeOK, RequestInv, WellFormed, Leaving
<1>2. worker' = [worker EXCEPT ![w].step = "release"] \/ Finish(w)
  BY DEF ContinueOrFinish, Continue
<1>3. TypeOK'
  <2>1. worker' \in [Workers -> Request]
    BY <1>1, <1>2, WorkerTyped DEF Step
  <2>2. deaths' \in 0..MaxDeaths /\ disturbed' \in BOOLEAN
    BY <1>1, MaxDeathsAssumption DEF TypeOK, Continue, Finish, ContinueOrFinish
  <2>3. rejected' \in [Rooms -> SUBSET Devices] /\ refused' \subseteq Rooms
    BY <1>1 DEF TypeOK
  <2> QED BY <1>1, <2>1, <2>2, <2>3 DEF TypeOK
<1>4. LeavesRoom(w) /\ LeavesLock(w)
  BY Untouched
<1>5. CASE worker' = [worker EXCEPT ![w].step = "release"]
  BY <1>1, <1>2, <1>3, <1>4, <1>5, ContinueKeeps DEF Step, WellFormed, Leaving, Won
<1>6. CASE Finish(w)
  BY <1>3, <1>4, <1>6, FinishKeeps
<1> QED BY <1>2, <1>5, <1>6

LEMMA QueryRoomKeeps ==
    ASSUME Inductive, NEW w \in Workers, QueryRoom(w)
    PROVE  Inductive'
<1> USE DEF QueryRoom, At
<1>1. /\ TypeOK /\ worker[w] \in Request /\ WellFormed(worker[w])
      /\ worker[w].self \in Devices /\ worker[w].old.id \in Rooms
  BY DEF Inductive, TypeOK, RequestInv, WellFormed, Leaving
<1>2. worker' = [worker EXCEPT ![w].step = "dropOrphan"] \/ Finish(w)
  BY DEF ContinueOrFinish, Continue
<1>3. TypeOK'
  <2>1. worker' \in [Workers -> Request]
    BY <1>1, <1>2, WorkerTyped DEF Step
  <2>2. deaths' \in 0..MaxDeaths /\ disturbed' \in BOOLEAN
    BY <1>1, MaxDeathsAssumption DEF TypeOK, Continue, Finish, ContinueOrFinish
  <2> QED BY <1>1, <2>1, <2>2 DEF TypeOK
<1>4. LeavesRoom(w) /\ LeavesLock(w)
  BY Untouched
<1>5. CASE worker' = [worker EXCEPT ![w].step = "dropOrphan"]
  BY <1>1, <1>2, <1>3, <1>4, <1>5, ContinueKeeps DEF Step, WellFormed, Leaving, Won
<1>6. CASE Finish(w)
  BY <1>3, <1>4, <1>6, FinishKeeps
<1> QED BY <1>2, <1>5, <1>6

LEMMA DropOrphanKeeps ==
    ASSUME Inductive, NEW w \in Workers, DropOrphan(w)
    PROVE  Inductive'
<1> USE DEF DropOrphan, At
<1>1. /\ TypeOK /\ worker[w] \in Request /\ WellFormed(worker[w])
      /\ worker[w].self \in Devices /\ worker[w].old.id \in Rooms
  BY DEF Inductive, TypeOK, RequestInv, WellFormed, Leaving
<1>2. worker' = [worker EXCEPT ![w].step = "claim"] \/ Finish(w)
  BY DEF ContinueOrFinish, Continue
<1>3. TypeOK'
  <2>1. worker' \in [Workers -> Request]
    BY <1>1, <1>2, WorkerTyped DEF Step
  <2>2. deaths' \in 0..MaxDeaths /\ disturbed' \in BOOLEAN
    BY <1>1, MaxDeathsAssumption DEF TypeOK, Continue, Finish, ContinueOrFinish
  <2>3. lock' \in [Devices -> Rooms \cup {NONE}]
    BY <1>1 DEF TypeOK
  <2> QED BY <1>1, <2>1, <2>2, <2>3 DEF TypeOK
<1>4. LeavesRoom(w) /\ LeavesLock(w)
  BY <1>1 DEF LeavesRoom, LeavesLock, TypeOK, Won
<1>5. CASE worker[w].rm # NoSnapshot
  BY <1>1, <1>2, <1>3, <1>4, <1>5, ContinueKeeps DEF Step, WellFormed, Leaving, Won, ContinueOrFinish, Continue
<1>6. CASE ~(worker[w].rm # NoSnapshot)
  BY <1>3, <1>4, <1>6, FinishKeeps DEF ContinueOrFinish, Continue
<1> QED BY <1>2, <1>5, <1>6

\* A step that only reads, and goes on with q.
LEMMA ReadingKeeps ==
    ASSUME Inductive, NEW w \in Workers, NEW q, Proceeds(w, q),
           UNCHANGED <<redis, told, used, over>>,
           deaths' \in 0..MaxDeaths, disturbed' \in BOOLEAN
    PROVE  Inductive'
<1>1. TypeOK'
  BY DEF Inductive, TypeOK, Proceeds
<1>2. LeavesRoom(w) /\ LeavesLock(w)
  BY Untouched
<1> QED BY <1>1, <1>2, ProceedsKeeps DEF Others, Inductive

LEMMA ReadLockKeeps ==
    ASSUME Inductive, NEW w \in Workers, ReadLock(w)
    PROVE  Inductive'
<1> USE DEF ReadLock, At
<1> DEFINE existing == lock[worker[w].self]
           old == [NoSnapshot EXCEPT !.id = existing]
           q == [worker[w] EXCEPT !.step = "readOld", !.old = old]
<1>1. /\ TypeOK /\ worker[w] \in Request /\ WellFormed(worker[w])
      /\ worker[w].self \in Devices /\ worker[w].rm.id \in Rooms
      /\ existing \in Rooms \cup {NONE}
  BY DEF Inductive, TypeOK, RequestInv, WellFormed
<1>2. deaths' \in 0..MaxDeaths /\ disturbed' \in BOOLEAN
  BY <1>1 DEF TypeOK, Continue
<1>3. CASE existing \in {NONE, worker[w].rm.id}
  <2>1. worker' = [worker EXCEPT ![w].step = "claim"]
    BY <1>3 DEF Continue
  <2>2. worker' \in [Workers -> Request]
    BY <1>1, <2>1, WorkerTyped DEF Step
  <2>3. TypeOK'
    BY <1>1, <1>2, <2>2 DEF TypeOK
  <2> QED BY <1>1, <2>1, <2>3, Untouched, ContinueKeeps DEF Step, WellFormed, Leaving, Won
<1>4. CASE existing \notin {NONE, worker[w].rm.id}
  <2>1. worker' = [worker EXCEPT ![w] = q]
    BY <1>1, <1>4 DEF TypeOK
  <2>2. old \in Snapshot /\ old.id \in Rooms
    BY <1>1, <1>4 DEF Snapshot, NoSnapshot, Hash, NoHash
  <2> HIDE DEF old
  <2>3. /\ q \in Request /\ q.step = "readOld" /\ q.self = worker[w].self
        /\ q.rm = worker[w].rm /\ q.old = old
    BY <1>1, <2>2 DEF Request, Step
  <2> HIDE DEF q
  <2>4. WellFormed(q)
    BY <1>1, <2>2, <2>3 DEF WellFormed
  <2>5. Proceeds(w, q)
    BY <2>1, <2>3, <2>4 DEF Proceeds, Leaving, Won
  <2> QED BY <1>2, <2>5, ReadingKeeps
<1> QED BY <1>3, <1>4

LEMMA ReadOldKeeps ==
    ASSUME Inductive, NEW w \in Workers, ReadOld(w)
    PROVE  Inductive'
<1> USE DEF ReadOld, At
<1> DEFINE old == worker[w].old.id
           rest == PeersOfLeaver(worker[w].self, room[old])
           q == [worker[w] EXCEPT !.step = "release", !.old = Read(old), !.others = rest]
<1>1. /\ TypeOK /\ worker[w] \in Request /\ WellFormed(worker[w])
      /\ worker[w].self \in Devices /\ worker[w].rm.id \in Rooms
      /\ old \in Rooms /\ room[old] \in Hash
  BY DEF Inductive, TypeOK, RequestInv, WellFormed
<1>2. deaths' \in 0..MaxDeaths /\ disturbed' \in BOOLEAN
  BY <1>1 DEF TypeOK, ContinueOrFinish, Continue, Finish
<1>3. CASE Readable(old)
  <2>1. worker' = [worker EXCEPT ![w] = q]
    BY <1>1, <1>3 DEF TypeOK
  <2>2. Read(old) \in Snapshot /\ Read(old).id = old
    BY <1>1 DEF Snapshot, Read
  <2>3. rest \in SUBSET Devices
    BY <1>1, <1>3 DEF PeersOfLeaver, Hash, Readable
  <2> HIDE DEF rest
  <2>4. /\ q \in Request /\ q.step = "release" /\ q.self = worker[w].self
        /\ q.rm = worker[w].rm /\ q.old = Read(old)
    BY <1>1, <2>2, <2>3 DEF Request, Step
  <2> HIDE DEF q
  <2>5. WellFormed(q)
    BY <1>1, <2>2, <2>4 DEF WellFormed
  <2>6. Proceeds(w, q)
    BY <1>3, <2>1, <2>2, <2>4, <2>5 DEF Proceeds, Leaving, Won
  <2> QED BY <1>2, <2>6, ReadingKeeps
<1>4. CASE ~Readable(old)
  <2>1. \/ Broken(old) /\ Finish(w)
        \/ worker' = [worker EXCEPT ![w].step = "dropOrphan"]
    BY <1>4 DEF ContinueOrFinish, Continue
  <2>2. worker' \in [Workers -> Request]
    BY <1>1, <2>1, WorkerTyped DEF Step
  <2>3. TypeOK'
    BY <1>1, <1>2, <2>2 DEF TypeOK
  <2> QED BY <1>1, <2>1, <2>3, Untouched, FinishKeeps, ContinueKeeps
          DEF Step, WellFormed, Leaving, Won
<1> QED BY <1>3, <1>4

LEMMA TakeLockKeeps ==
    ASSUME Inductive, NEW w \in Workers, TakeLock(w)
    PROVE  Inductive'
<1> USE DEF TakeLock, At
<1>1. /\ TypeOK /\ worker[w] \in Request /\ WellFormed(worker[w])
      /\ worker[w].self \in Devices /\ worker[w].rm.id \in Rooms
  BY DEF Inductive, TypeOK, RequestInv, WellFormed
<1>2. PICK s \in {"record", "overwrite"} : worker' = [worker EXCEPT ![w].step = s]
  BY DEF Continue
<1>3. TypeOK'
  <2>1. worker' \in [Workers -> Request]
    BY <1>1, <1>2, WorkerTyped DEF Step
  <2> QED BY <1>1, <2>1 DEF TypeOK, Continue
<1>4. LeavesRoom(w) /\ LeavesLock(w)
  BY <1>1 DEF LeavesRoom, LeavesLock, TypeOK, Won
<1> QED BY <1>1, <1>2, <1>3, <1>4, ContinueKeeps DEF Step, WellFormed, Leaving, Won

LEMMA RequestDiesKeeps ==
    ASSUME Inductive, NEW w \in Workers, RequestDies(w)
    PROVE  Inductive'
<1> USE DEF RequestDies
<1>1. Proceeds(w, Idle)
  BY DEF Proceeds, Idle, WellFormed, Request, Reason, Step, Snapshot, NoSnapshot,
         Hash, NoHash, Leaving, Won
<1>2. deaths' \in 0..MaxDeaths /\ disturbed' \in BOOLEAN
  BY MaxDeathsAssumption DEF Inductive, TypeOK
<1> QED BY <1>1, <1>2, ReadingKeeps

\* The request that releases a room it has just read, and the arrivals.
LEMMA ReleasingTyped ==
    ASSUME TypeOK, NEW self \in Devices, NEW r \in Rooms, NEW s \in Leaving,
           NEW others \in SUBSET Devices, NEW reason \in Reason
    PROVE  LET q == Releasing(self, r, s, others, reason)
           IN  /\ q \in Request /\ WellFormed(q)
               /\ q.step = s /\ q.rm.id = r /\ q.old.id = r
<1>1. Read(r) \in Snapshot /\ Read(r).id = r
  BY DEF TypeOK, Read, Snapshot
<1> QED BY <1>1 DEF Releasing, Request, WellFormed, Step, Leaving

LEMMA ArriveKeeps ==
    ASSUME Inductive, NEW w \in Workers, NEW q \in Request, WellFormed(q),
           Arrive(w, q), q.step \notin Won \cup {"create"},
           q.rm.id = NONE \/ Readable(q.rm.id),
           q.step \in Leaving => Readable(q.old.id),
           UNCHANGED <<redis, told, used, over>>
    PROVE  Inductive'
<1>1. Proceeds(w, q)
  BY DEF Proceeds, Arrive
<1>2. deaths' \in 0..MaxDeaths /\ disturbed' \in BOOLEAN
  BY DEF Inductive, TypeOK, Arrive
<1> QED BY <1>1, <1>2, ReadingKeeps

LEMMA FindRoomKeeps ==
    ASSUME Inductive, NEW w \in Workers, FindRoom(w)
    PROVE  Inductive'
<1> USE DEF FindRoom, At
<1> DEFINE self == worker[w].self
           r == worker[w].old.id
           rest == PeersOfUnbound(self, room[r])
           q == Releasing(self, r, "release", rest, "unbound")
<1>1. /\ TypeOK /\ worker[w] \in Request /\ WellFormed(worker[w])
      /\ self \in Devices /\ r \in Rooms /\ room[r] \in Hash
  BY DEF Inductive, TypeOK, RequestInv, WellFormed
<1>2. deaths' \in 0..MaxDeaths /\ disturbed' \in BOOLEAN
  BY <1>1 DEF TypeOK, Finish
<1>3. CASE Readable(r)
  <2>1. worker' = [worker EXCEPT ![w] = q]
    BY <1>3
  <2>2. rest \in SUBSET Devices
    BY <1>1, <1>3 DEF PeersOfUnbound, Hash, Readable
  <2>3. /\ q \in Request /\ WellFormed(q)
        /\ q.step = "release" /\ q.rm.id = r /\ q.old.id = r
    BY <1>1, <2>2, ReleasingTyped DEF Leaving, Reason
  <2> HIDE DEF q
  <2>4. Proceeds(w, q)
    BY <1>3, <2>1, <2>3 DEF Proceeds, Won
  <2> QED BY <1>2, <2>4, ReadingKeeps
<1>4. CASE ~Readable(r)
  <2>1. Finish(w)
    BY <1>4
  <2>2. worker' \in [Workers -> Request]
    BY <1>1, <2>1, WorkerTyped DEF Step
  <2>3. TypeOK'
    BY <1>1, <1>2, <2>2 DEF TypeOK
  <2> QED BY <2>1, <2>3, Untouched, FinishKeeps
<1> QED BY <1>3, <1>4

LEMMA PostDeviceInfoKeeps ==
    ASSUME Inductive, NEW w \in Workers, NEW self \in Devices, NEW r \in Rooms,
           PostDeviceInfo(w, self, r)
    PROVE  Inductive'
<1> DEFINE q == [Idle EXCEPT !.step = "readLock", !.self = self, !.rm = Read(r)]
<1>1. Read(r) \in Snapshot /\ Read(r).id = r
  BY DEF Inductive, TypeOK, Read, Snapshot
<1>2. /\ q \in Request /\ WellFormed(q) /\ q.step = "readLock" /\ q.rm.id = r
  BY <1>1 DEF Request, Reason, WellFormed, Idle, Step, Snapshot, NoSnapshot, Hash, NoHash, Leaving
<1>3. Arrive(w, q) /\ Readable(r) /\ UNCHANGED <<redis, told, used, over>>
  BY DEF PostDeviceInfo
<1> HIDE DEF q
<1> QED BY <1>2, <1>3, ArriveKeeps DEF Won, Leaving

LEMMA ReleasingKeeps ==
    ASSUME Inductive, NEW w \in Workers, NEW self \in Devices, NEW r \in Rooms,
           PostCallCancel(w, self, r) \/ PostCallHangup(w, self, r)
              \/ PostCallReject(w, self, r)
    PROVE  Inductive'
<1>1. room[r] \in Hash
  BY DEF Inductive, TypeOK
<1>2. PICK s \in Leaving, others \in SUBSET Devices :
         /\ Arrive(w, Releasing(self, r, s, others, "asked"))
         /\ Readable(r) /\ UNCHANGED <<redis, told, used, over>>
  <2>1. CASE PostCallCancel(w, self, r)
    BY <1>1, <2>1 DEF PostCallCancel, Leaving, Hash
  <2>2. CASE PostCallHangup(w, self, r)
    <3>1. Readable(r) => PeersOfHangup(self, room[r]) \in SUBSET Devices
      BY <1>1 DEF PeersOfHangup, Hash, Readable
    <3> QED BY <2>2, <3>1 DEF PostCallHangup, Leaving
  <2>3. CASE PostCallReject(w, self, r)
    <3>1. Readable(r) => {room[r].caller} \in SUBSET Devices
      BY <1>1 DEF Hash, Readable
    <3> QED BY <2>3, <3>1 DEF PostCallReject, Leaving
  <2> QED BY <2>1, <2>2, <2>3
<1> DEFINE q == Releasing(self, r, s, others, "asked")
<1>3. /\ q \in Request /\ WellFormed(q)
      /\ q.step = s /\ q.rm.id = r /\ q.old.id = r
  BY ReleasingTyped DEF Inductive, Reason
<1> HIDE DEF q
<1>4. Arrive(w, q)
  BY <1>2 DEF q
<1> QED BY <1>2, <1>3, <1>4, ArriveKeeps DEF Won, Leaving

LEMMA LockedKeeps ==
    ASSUME Inductive, NEW w \in Workers, NEW self \in Devices,
           GetDeviceRoom(w, self) \/ PostInternalUnbind(w, self)
    PROVE  Inductive'
<1>1. PICK s \in {"query", "find"} :
         /\ Arrive(w, Locked(self, s)) /\ lock[self] # NONE
         /\ UNCHANGED <<redis, told, used, over>>
  BY DEF GetDeviceRoom, PostInternalUnbind
<1> DEFINE q == Locked(self, s)
<1>2. lock[self] \in Rooms
  BY <1>1 DEF Inductive, TypeOK
<1>3. /\ q \in Request /\ WellFormed(q) /\ q.step = s /\ q.rm.id = NONE
  BY <1>2 DEF Locked, Request, Reason, WellFormed, Idle, Step, Snapshot, NoSnapshot, Hash,
              NoHash, Leaving
<1> HIDE DEF q
<1>4. Arrive(w, q)
  BY <1>1 DEF q
<1> QED BY <1>1, <1>3, <1>4, ArriveKeeps DEF Won, Leaving

LEMMA PostCallRequestKeeps ==
    ASSUME Inductive, NEW w \in Workers, NEW self \in Devices, NEW r \in Rooms,
           NEW targets \in SUBSET Devices, NEW online \in SUBSET targets,
           PostCallRequest(w, self, targets, online, r)
    PROVE  Inductive'
<1> USE CallRoomsAssumption, DevicesAssumption
<1> DEFINE hash == [NoHash EXCEPT !.caller = self, !.targets = targets]
           rm == [id |-> r, hash |-> hash]
           q == [Idle EXCEPT !.step = "create", !.self = self, !.others = online,
                             !.rm = rm]
<1>1. hash \in Hash /\ hash.caller = self
  BY DEF Hash, NoHash
<1> HIDE DEF hash
<1>2. rm \in Snapshot /\ rm.id = r /\ rm.hash = hash
  BY <1>1 DEF Snapshot
<1> HIDE DEF rm
<1>3. /\ q \in Request /\ WellFormed(q) /\ q.step = "create" /\ q.self = self
      /\ q.rm = rm
  BY <1>2 DEF Request, Reason, WellFormed, Idle, Step, Snapshot, NoSnapshot, Hash, NoHash, Leaving
<1>4. /\ worker' = [worker EXCEPT ![w] = q]
      /\ UNCHANGED deaths /\ disturbed' \in BOOLEAN
  BY DEF PostCallRequest, Arrive, rm, hash, Inductive, TypeOK
<1> HIDE DEF q
<1>5. /\ r \notin used /\ used' = used \cup {r}
      /\ lock' = [lock EXCEPT ![self] = r]
      /\ UNCHANGED <<room, answered, rejected, told, over>>
  BY DEF PostCallRequest
<1>6. TypeOK'
  BY <1>3, <1>4, <1>5 DEF Inductive, TypeOK
<1>7. /\ worker'[w] = q
      /\ \A v \in Workers \ {w} : worker'[v] = worker[v]
      /\ lock'[self] = r
      /\ \A d \in Devices \ {self} : lock'[d] = lock[d]
  BY <1>4, <1>5 DEF Inductive, TypeOK
<1>8. /\ Unread(r)
      /\ \A v \in Workers : worker[v].rm.id # r
      /\ \A d \in Devices : lock[d] # r
  BY <1>5 DEF Inductive, FreshInv
<1>9. \A x \in Rooms : Unread(x) => Unread(x)'
  BY <1>3, <1>5, <1>7 DEF Unread, Readable, Leaving
<1>10. RequestInv'
  BY <1>3, <1>7 DEF Inductive, RequestInv
<1>11. FreshInv'
  BY <1>2, <1>3, <1>5, <1>7, <1>9 DEF Inductive, FreshInv
<1>12. CreateInv'
  <2> SUFFICES ASSUME NEW v \in Workers, worker'[v].step = "create",
                      NEW x, x = worker'[v].rm.id
               PROVE  /\ Unread(x)'
                      /\ \A u \in Workers \ {v} : worker'[u].rm.id # x
                      /\ \A d \in Devices : lock'[d] = x => d = worker'[v].self
                      /\ worker'[v].rm.hash.caller = worker'[v].self
                      /\ x \in used'
    BY DEF CreateInv, Unread, At
  <2>1. CASE v = w
    BY <1>1, <1>2, <1>3, <1>5, <1>7, <1>8, <1>9, <2>1
  <2>2. CASE v # w
    <3>1. worker'[v] = worker[v] /\ x \in Rooms
      BY <1>7, <2>2 DEF Inductive, RequestInv, WellFormed
    <3>2. /\ Unread(x) /\ x \in used
          /\ \A u \in Workers \ {v} : worker[u].rm.id # x
          /\ \A d \in Devices : lock[d] = x => d = worker[v].self
          /\ worker[v].rm.hash.caller = worker[v].self
      BY <3>1 DEF Inductive, CreateInv, At
    <3> QED BY <1>2, <1>3, <1>5, <1>7, <1>9, <2>2, <3>1, <3>2
  <2> QED BY <2>1, <2>2
<1>13. AnswerIsExclusive'
  BY <1>3, <1>5, <1>7 DEF Inductive, AnswerIsExclusive, Won
<1>14. LockHolderBelongs'
  BY <1>5, <1>7, <1>8 DEF Inductive, LockHolderBelongs, Readable, Unread
<1>15. ReleasedIsGone'
  BY <1>5 DEF Inductive, ReleasedIsGone, Readable
<1> QED BY <1>6, <1>10, <1>11, <1>12, <1>13, <1>14, <1>15 DEF Inductive

LEMMA CreateRoomKeeps ==
    ASSUME Inductive, NEW w \in Workers, CreateRoom(w)
    PROVE  Inductive'
<1> USE CallRoomsAssumption, DevicesAssumption
<1> DEFINE r == worker[w].rm.id
           self == worker[w].self
           q == [worker[w] EXCEPT !.step = "ring"]
<1>1. /\ TypeOK /\ worker[w] \in Request /\ WellFormed(worker[w])
      /\ worker[w].step = "create"
      /\ self \in Devices /\ r \in Rooms /\ worker[w].rm.hash \in Hash
  BY DEF Inductive, TypeOK, RequestInv, WellFormed, CreateRoom, At, Request, Snapshot
<1>2. /\ q \in Request /\ q.step = "ring" /\ q.self = self
      /\ q.rm = worker[w].rm /\ q.old = worker[w].old
  BY <1>1 DEF Request, Step
<1>3. /\ worker' = [worker EXCEPT ![w] = q]
      /\ room' = [room EXCEPT ![r] = worker[w].rm.hash]
      /\ UNCHANGED <<lock, answered, told, used, over, deaths, disturbed>>
  BY <1>1 DEF CreateRoom, Continue, TypeOK
<1> HIDE DEF q
<1>4. TypeOK'
  <2>1. rejected' \in [Rooms -> SUBSET Devices]
    <3>1. worker[w].rm.hash.targets \in SUBSET Devices
      BY <1>1 DEF Hash
    <3> QED BY <1>1, <3>1 DEF CreateRoom, TypeOK
  <2> QED BY <1>1, <1>2, <1>3, <2>1 DEF TypeOK
<1>5. /\ worker'[w] = q
      /\ \A v \in Workers \ {w} : worker'[v] = worker[v]
      /\ room'[r] = worker[w].rm.hash
      /\ \A x \in Rooms \ {r} : room'[x] = room[x]
  BY <1>1, <1>3 DEF TypeOK
<1>6. /\ Unread(r) /\ r \in used
      /\ \A v \in Workers \ {w} : worker[v].rm.id # r
      /\ \A d \in Devices : lock[d] = r => d = self
      /\ worker[w].rm.hash.caller = self
  BY <1>1 DEF Inductive, CreateInv, At
<1>7. ASSUME NEW x \in Rooms, Unread(x), x # r
      PROVE  Unread(x)'
  BY <1>2, <1>3, <1>5, <1>7 DEF Unread, Readable, Leaving
<1>8. RequestInv'
  BY <1>1, <1>2, <1>5 DEF Inductive, RequestInv, WellFormed, Leaving
<1>9. FreshInv'
  <2> SUFFICES ASSUME NEW x \in Rooms, x \notin used
               PROVE  /\ Unread(x)'
                      /\ \A v \in Workers : worker'[v].rm.id # x
                      /\ \A d \in Devices : lock'[d] # x
    BY <1>3 DEF FreshInv
  <2> QED BY <1>2, <1>3, <1>5, <1>6, <1>7 DEF Inductive, FreshInv
<1>10. CreateInv'
  <2> SUFFICES ASSUME NEW v \in Workers, worker'[v].step = "create",
                      NEW x, x = worker'[v].rm.id
               PROVE  /\ Unread(x)'
                      /\ \A u \in Workers \ {v} : worker'[u].rm.id # x
                      /\ \A d \in Devices : lock'[d] = x => d = worker'[v].self
                      /\ worker'[v].rm.hash.caller = worker'[v].self
                      /\ x \in used'
    BY DEF CreateInv, Unread, At
  <2>1. v # w /\ worker'[v] = worker[v] /\ x \in Rooms /\ x # r
    BY <1>2, <1>5, <1>6 DEF Inductive, RequestInv, WellFormed
  <2>2. /\ Unread(x) /\ x \in used
        /\ \A u \in Workers \ {v} : worker[u].rm.id # x
        /\ \A d \in Devices : lock[d] = x => d = worker[v].self
        /\ worker[v].rm.hash.caller = worker[v].self
    BY <2>1 DEF Inductive, CreateInv, At
  <2> QED BY <1>2, <1>3, <1>5, <1>7, <2>1, <2>2
<1>11. AnswerIsExclusive'
  BY <1>2, <1>3, <1>5 DEF Inductive, AnswerIsExclusive, Won
<1>12. LockHolderBelongs'
  BY <1>3, <1>4, <1>5, <1>6 DEF Inductive, LockHolderBelongs, Readable, TypeOK
<1>13. ReleasedIsGone'
  BY <1>3, <1>5, <1>6 DEF Inductive, ReleasedIsGone, Readable, Unread, TypeOK
<1> QED BY <1>4, <1>8, <1>9, <1>10, <1>11, <1>12, <1>13 DEF Inductive

-----------------------------------------------------------------------------
LEMMA InitInductive == Init => Inductive
<1> SUFFICES ASSUME Init PROVE Inductive
  OBVIOUS
<1> USE DEF Init
<1>1. TypeOK
  <2>1. NoHash \in Hash
    BY DEF NoHash, Hash
  <2>2. NoSnapshot \in Snapshot
    BY <2>1 DEF NoSnapshot, Snapshot
  <2>3. Idle \in Request
    BY <2>2 DEF Idle, Request, Reason, Step
  <2>4. 0 \in 0..MaxDeaths
    BY MaxDeathsAssumption
  <2> QED BY <2>1, <2>3, <2>4 DEF TypeOK
<1> USE DEF NoHash, Idle, NoSnapshot
<1>2. RequestInv /\ FreshInv /\ CreateInv
  BY CallRoomsAssumption DEF RequestInv, WellFormed, FreshInv, CreateInv, Unread, Readable, At, Leaving
<1>3. AnswerIsExclusive /\ LockHolderBelongs /\ ReleasedIsGone
  BY DEF AnswerIsExclusive, LockHolderBelongs, ReleasedIsGone, Readable, Won
<1> QED BY <1>1, <1>2, <1>3 DEF Inductive

LEMMA NextInductive == Inductive /\ [Next]_vars => Inductive'
<1> SUFFICES ASSUME Inductive, [Next]_vars PROVE Inductive'
  OBVIOUS
<1>1. ASSUME NEW w \in Workers, Arrival(w) PROVE Inductive'
  <2>1. PICK self \in Devices :
           \/ \E r \in Rooms, targets \in SUBSET Devices : \E online \in SUBSET targets :
                 PostCallRequest(w, self, targets, online, r)
           \/ \E r \in Rooms :
                 \/ PostDeviceInfo(w, self, r)
                 \/ PostCallCancel(w, self, r) \/ PostCallHangup(w, self, r)
                       \/ PostCallReject(w, self, r)
           \/ GetDeviceRoom(w, self) \/ PostInternalUnbind(w, self)
    BY <1>1 DEF Arrival
  <2> QED BY <2>1, PostCallRequestKeeps, PostDeviceInfoKeeps, ReleasingKeeps, LockedKeeps
<1>2. ASSUME NEW w \in Workers, Progress(w) PROVE Inductive'
  BY <1>2, CreateRoomKeeps, PublishCallIncomingKeeps, ReadLockKeeps,
     ReadLockFailedKeeps, ReadOldKeeps, ClaimAnswerKeeps, TakeLockKeeps,
     OverwriteLockKeeps, SetAnsweredByKeeps, ReplyTokenKeeps, ReleaseRoomKeeps,
     PublishRoomCancelKeeps, AddRejectedKeeps, QueryRoomKeeps, DropOrphanKeeps,
     FindRoomKeeps, RequestDiesKeeps
     DEF Progress
<1>3. CASE UNCHANGED vars
  BY <1>3 DEF vars, Inductive, TypeOK, RequestInv, FreshInv, CreateInv, Unread, Readable,
              At, AnswerIsExclusive, LockHolderBelongs, ReleasedIsGone, WellFormed
<1> QED BY <1>1, <1>2, <1>3 DEF Next

\* Whatever requests cross and stop halfway, on any number of goroutines, the
\* invariant of call.go and room.go holds: a room that is not created yet is
\* known to its creator alone, and the three properties below.
THEOREM CallRoomsInductive == Spec => []Inductive
<1>1. Init => Inductive
  BY InitInductive
<1>2. Inductive /\ [Next]_vars => Inductive'
  BY NextInductive
<1> QED BY <1>1, <1>2, PTL DEF Spec

\* Every variable has its type.
THEOREM CallRoomsTyped == Spec => []TypeOK
<1>1. Inductive => TypeOK
  BY DEF Inductive
<1> QED BY <1>1, CallRoomsInductive, PTL

\* Only the device that won the answer of a call that goes on gets its token.
THEOREM OneDeviceAnswers == Spec => []AnswerIsExclusive
<1>1. Inductive => AnswerIsExclusive
  BY DEF Inductive
<1> QED BY <1>1, CallRoomsInductive, PTL

\* A live call locks its caller and the device that won it, nobody else.
THEOREM NobodyElseIsLocked == Spec => []LockHolderBelongs
<1>1. Inductive => LockHolderBelongs
  BY DEF Inductive
<1> QED BY <1>1, CallRoomsInductive, PTL

\* A call that was released never comes back.
THEOREM ReleasedStaysGone == Spec => []ReleasedIsGone
<1>1. Inductive => ReleasedIsGone
  BY DEF Inductive
<1> QED BY <1>1, CallRoomsInductive, PTL

-----------------------------------------------------------------------------
(* Requests that do not cross.  While no request has crossed another or     *)
(* stopped halfway, what the one under way has read is still so, and the    *)
(* locks differ from the rooms by what it has still to write.               *)

Serial == ~disturbed /\ deaths = 0

Alone == \A v, w \in Workers : ~At(v, "idle") /\ ~At(w, "idle") => v = w

Party(d, r) == Readable(r) /\ d \in {room[r].caller, room[r].answeredBy}

\* The request has locked its device and not written the room yet.
Ahead(w, d, r) ==
    worker[w].step \in {"create", "record"} /\ worker[w].self = d /\ worker[w].rm.id = r

InStep == \A d \in Devices, r \in Rooms :
    lock[d] = r <=> (Party(d, r) \/ \E w \in Workers : Ahead(w, d, r))

RoomInv == \A r \in Rooms : Readable(r) =>
    room[r].caller \notin room[r].targets /\ room[r].answeredBy \in {NONE, answered[r]}

\* The room still rings at the device that answers it.
Requested(q) == Readable(q.rm.id) /\ q.self \in room[q.rm.id].targets

SeenInv(q) ==
    /\ q.step \notin {"dropOrphan", "overwrite"}
    /\ q.step = "create" => q.rm.hash.answeredBy = NONE /\ q.self \notin q.rm.hash.targets
    /\ q.step \in {"readLock", "readOld", "claim", "takeLock", "record"} => Requested(q)
    /\ q.step \in {"readOld", "query", "find"} => q.old.id = lock[q.self] /\ q.old.id \in Rooms
    /\ q.step = "readOld" => q.old.id # q.rm.id
    /\ q.step \in {"release", "reject"} => Readable(q.old.id) /\ q.old.hash = room[q.old.id]
    /\ q.step = "reject" => q.rm.id = q.old.id
    /\ q.step = "release" /\ q.rm.id # q.old.id => Requested(q) /\ Party(q.self, q.old.id)
    /\ q.step = "tell" /\ q.rm.id # q.old.id => Requested(q) /\ lock[q.self] = NONE
    /\ q.step = "claim" => lock[q.self] \in {NONE, q.rm.id}
    /\ q.step = "takeLock" => lock[q.self] = NONE
    /\ q.step \in {"takeLock", "record"} =>
          answered[q.rm.id] = q.self /\ room[q.rm.id].answeredBy = NONE

Seen == \A w \in Workers : SeenInv(worker[w])

Steady == Alone /\ InStep /\ RoomInv /\ Seen

InStepBut(w) == \A d \in Devices, r \in Rooms : lock[d] = r <=> (Party(d, r) \/ Ahead(w, d, r))

OthersIdle(w) == \A v \in Workers \ {w} : At(v, "idle")

LEMMA AloneIdle == ASSUME Steady, NEW w \in Workers, ~At(w, "idle") PROVE OthersIdle(w)
BY DEF Steady, Alone, OthersIdle

LEMMA InStepSplit ==
    ASSUME NEW w \in Workers, OthersIdle(w), InStep
    PROVE  InStepBut(w)
BY DEF InStep, InStepBut, OthersIdle, Ahead, At

LEMMA SteadyAfter ==
    ASSUME TypeOK, NEW w \in Workers, OthersIdle(w),
           \A v \in Workers \ {w} : worker'[v] = worker[v],
           InStepBut(w)', RoomInv', SeenInv(worker[w])'
    PROVE  Steady'
<1>1. \A v \in Workers \ {w} : worker'[v].step = "idle"
  BY DEF OthersIdle, At
<1>2. Alone'
  BY <1>1 DEF Alone, At
<1>3. InStep'
  BY <1>1 DEF InStep, InStepBut, Ahead
<1>4. \A v \in Workers \ {w} : SeenInv(worker[v])'
  BY <1>1 DEF SeenInv
<1>5. Seen'
  BY <1>4 DEF Seen
<1> QED BY <1>2, <1>3, <1>5 DEF Steady

\* A step that only reads.
LEMMA SteadyReading ==
    ASSUME TypeOK, NEW w \in Workers, OthersIdle(w), Steady,
           \A v \in Workers \ {w} : worker'[v] = worker[v],
           UNCHANGED <<lock, room, answered>>,
           worker[w].step \notin {"create", "record"},
           worker'[w].step \notin {"create", "record"},
           SeenInv(worker[w])'
    PROVE  Steady'
<1>1. InStepBut(w)
  BY InStepSplit DEF Steady
<1>2. InStepBut(w)'
  BY <1>1 DEF InStepBut, Party, Readable, Ahead
<1>3. RoomInv'
  BY DEF Steady, RoomInv, Readable
<1> QED BY <1>2, <1>3, SteadyAfter

\* What a step does to its request.
LEMMA Continued ==
    ASSUME TypeOK, NEW w \in Workers, NEW s, worker' = [worker EXCEPT ![w].step = s]
    PROVE  /\ \A v \in Workers \ {w} : worker'[v] = worker[v]
           /\ worker'[w].step = s /\ worker'[w].self = worker[w].self
           /\ worker'[w].rm = worker[w].rm /\ worker'[w].old = worker[w].old
<1>1. worker[w] \in Request
  BY DEF TypeOK
<1> QED BY <1>1 DEF TypeOK, Request

LEMMA Finished ==
    ASSUME TypeOK, NEW w \in Workers, Finish(w)
    PROVE  /\ \A v \in Workers \ {w} : worker'[v] = worker[v]
           /\ worker'[w].step = "idle" /\ SeenInv(worker[w])'
BY DEF TypeOK, Finish, Idle, SeenInv

LEMMA FinishSteady ==
    ASSUME TypeOK, NEW w \in Workers, Steady, ~At(w, "idle"), Finish(w),
           UNCHANGED <<lock, room, answered>>, worker[w].step \notin {"create", "record"}
    PROVE  Steady'
BY Finished, AloneIdle, SteadyReading


\* What is known of a request at the beginning of one of its steps.
LEMMA UnderWay ==
    ASSUME Inductive, Steady, NEW w \in Workers, ~At(w, "idle")
    PROVE  /\ TypeOK /\ worker[w] \in Request /\ WellFormed(worker[w])
           /\ worker[w].self \in Devices /\ SeenInv(worker[w])
           /\ OthersIdle(w) /\ InStepBut(w) /\ RoomInv
<1>1. OthersIdle(w)
  BY AloneIdle
<1> QED
  BY <1>1, InStepSplit DEF Inductive, TypeOK, RequestInv, WellFormed, At, Steady, Seen

\* A request that arrives while no other is under way.
LEMMA ArrivesAlone ==
    ASSUME TypeOK, NEW w \in Workers, NEW q, Arrive(w, q), ~disturbed'
    PROVE  /\ OthersIdle(w) /\ At(w, "idle") /\ worker'[w] = q
           /\ \A v \in Workers \ {w} : worker'[v] = worker[v]
BY DEF Arrive, OthersIdle, TypeOK

LEMMA ArrivalSteady ==
    ASSUME TypeOK, Steady, NEW w \in Workers, NEW q, Arrive(w, q), ~disturbed',
           UNCHANGED <<lock, room, answered>>, q.step \notin {"create", "record"},
           SeenInv(worker[w])'
    PROVE  Steady'
<1>1. /\ OthersIdle(w) /\ At(w, "idle") /\ worker'[w] = q
      /\ \A v \in Workers \ {w} : worker'[v] = worker[v]
  BY ArrivesAlone
<1> QED BY <1>1, SteadyReading DEF At

\* The lock of a device leads to a room it is a party of.
LEMMA LockLeads ==
    ASSUME NEW w \in Workers, NEW d \in Devices, lock[d] \in Rooms, InStepBut(w),
           worker[w].step \notin {"create", "record"}
    PROVE  Party(d, lock[d]) /\ Readable(lock[d])
BY DEF InStepBut, Ahead, Party

\* The steps that only read, or write what no other request reads.
LEMMA PostDeviceInfoSteady ==
    ASSUME Inductive, Steady, NEW w \in Workers, ~disturbed',
           NEW self \in Devices, NEW r \in Rooms, PostDeviceInfo(w, self, r)
    PROVE  Steady'
<1> DEFINE q == [Idle EXCEPT !.step = "readLock", !.self = self, !.rm = Read(r)]
<1>1. TypeOK /\ Arrive(w, q) /\ UNCHANGED <<lock, room, answered>>
  BY DEF Inductive, PostDeviceInfo
<1>2. q.step = "readLock" /\ q.self = self /\ q.rm.id = r
  BY DEF Idle, Read
<1>3. worker'[w] = q
  BY <1>1, ArrivesAlone
<1>4. SeenInv(worker[w])'
  BY <1>1, <1>2, <1>3 DEF SeenInv, Requested, Readable, PostDeviceInfo
<1> QED BY <1>1, <1>2, <1>4, ArrivalSteady

LEMMA LeavingSteady ==
    ASSUME Inductive, Steady, NEW w \in Workers, ~disturbed',
           NEW self \in Devices, NEW r \in Rooms,
           \/ PostCallCancel(w, self, r) \/ PostCallHangup(w, self, r)
           \/ PostCallReject(w, self, r)
    PROVE  Steady'
<1>1. TypeOK /\ UNCHANGED <<lock, room, answered>> /\ Readable(r)
  BY DEF Inductive, PostCallCancel, PostCallHangup, PostCallReject
<1>2. PICK step \in {"release", "reject"}, others \in {room[r].targets,
           PeersOfHangup(self, room[r]), {room[r].caller}} :
           Arrive(w, Releasing(self, r, step, others, "asked"))
  BY DEF PostCallCancel, PostCallHangup, PostCallReject
<1> DEFINE q == Releasing(self, r, step, others, "asked")
<1>3. q.step = step /\ q.rm.id = r /\ q.old.id = r /\ q.old.hash = room[r]
  BY DEF Releasing, Read
<1>4. worker'[w] = q
  BY <1>1, <1>2, ArrivesAlone
<1>5. SeenInv(worker[w])'
  BY <1>1, <1>3, <1>4 DEF SeenInv, Readable
<1> QED BY <1>1, <1>2, <1>3, <1>5, ArrivalSteady

LEMMA LockedSteady ==
    ASSUME Inductive, Steady, NEW w \in Workers, ~disturbed', NEW self \in Devices,
           GetDeviceRoom(w, self) \/ PostInternalUnbind(w, self)
    PROVE  Steady'
<1>1. TypeOK /\ UNCHANGED <<lock, room, answered>> /\ lock[self] \in Rooms
  BY DEF Inductive, TypeOK, GetDeviceRoom, PostInternalUnbind
<1>2. PICK step \in {"query", "find"} : Arrive(w, Locked(self, step))
  BY DEF GetDeviceRoom, PostInternalUnbind
<1> DEFINE q == Locked(self, step)
<1>3. q.step = step /\ q.self = self /\ q.old.id = lock[self]
  BY DEF Locked, Idle, NoSnapshot
<1>4. worker'[w] = q
  BY <1>1, <1>2, ArrivesAlone
<1>5. SeenInv(worker[w])'
  BY <1>1, <1>3, <1>4 DEF SeenInv
<1> QED BY <1>1, <1>2, <1>3, <1>5, ArrivalSteady

LEMMA PublishingSteady ==
    ASSUME Inductive, Steady, NEW w \in Workers, PublishCallIncoming(w) \/ ReplyToken(w)
    PROVE  Steady'
BY FinishSteady DEF Inductive, PublishCallIncoming, ReplyToken, At

LEMMA ReadLockSteady ==
    ASSUME Inductive, Steady, NEW w \in Workers, ReadLock(w)
    PROVE  Steady'
<1>1. /\ worker[w].step = "readLock" /\ ~At(w, "idle")
      /\ UNCHANGED <<lock, room, answered>>
  BY DEF ReadLock, At
<1>2. /\ TypeOK /\ worker[w] \in Request /\ worker[w].self \in Devices
      /\ OthersIdle(w) /\ Requested(worker[w])
  BY <1>1, UnderWay DEF SeenInv
<1>3. CASE lock[worker[w].self] \in {NONE, worker[w].rm.id}
  <2>1. worker' = [worker EXCEPT ![w].step = "claim"]
    BY <1>3 DEF ReadLock, Continue
  <2>2. /\ \A v \in Workers \ {w} : worker'[v] = worker[v]
        /\ worker'[w].step = "claim" /\ worker'[w].self = worker[w].self
        /\ worker'[w].rm = worker[w].rm
    BY <1>2, <2>1, Continued
  <2>3. SeenInv(worker[w])'
    BY <1>1, <1>2, <1>3, <2>2 DEF SeenInv, Requested, Readable
  <2> QED BY <1>1, <1>2, <2>2, <2>3, SteadyReading
<1>4. CASE lock[worker[w].self] \notin {NONE, worker[w].rm.id}
  <2>1. worker' = [worker EXCEPT ![w].step = "readOld",
                     ![w].old = [NoSnapshot EXCEPT !.id = lock[worker[w].self]]]
    BY <1>4 DEF ReadLock
  <2>2. /\ \A v \in Workers \ {w} : worker'[v] = worker[v]
        /\ worker'[w].step = "readOld" /\ worker'[w].self = worker[w].self
        /\ worker'[w].rm = worker[w].rm /\ worker'[w].old.id = lock[worker[w].self]
    BY <1>2, <2>1 DEF TypeOK, Request, NoSnapshot
  <2>3. lock[worker[w].self] \in Rooms
    BY <1>2, <1>4 DEF TypeOK
  <2>4. SeenInv(worker[w])'
    BY <1>1, <1>2, <1>4, <2>2, <2>3 DEF SeenInv, Requested, Readable
  <2> QED BY <1>1, <1>2, <2>2, <2>4, SteadyReading
<1> QED BY <1>3, <1>4

LEMMA ReadOldSteady ==
    ASSUME Inductive, Steady, NEW w \in Workers, ReadOld(w)
    PROVE  Steady'
<1> DEFINE old == worker[w].old.id
<1>1. /\ worker[w].step = "readOld" /\ ~At(w, "idle")
      /\ UNCHANGED <<lock, room, answered>>
  BY DEF ReadOld, At
<1>2. /\ TypeOK /\ worker[w] \in Request /\ worker[w].self \in Devices
      /\ OthersIdle(w) /\ InStepBut(w) /\ Requested(worker[w])
      /\ old = lock[worker[w].self] /\ old \in Rooms /\ old # worker[w].rm.id
  BY <1>1, UnderWay DEF SeenInv
<1>3. Readable(old) /\ Party(worker[w].self, old)
  BY <1>1, <1>2, LockLeads
<1>4. worker' = [worker EXCEPT ![w].step = "release", ![w].old = Read(old),
                               ![w].others = PeersOfLeaver(worker[w].self, room[old])]
  BY <1>3 DEF ReadOld
<1>5. /\ \A v \in Workers \ {w} : worker'[v] = worker[v]
      /\ worker'[w].step = "release" /\ worker'[w].self = worker[w].self
      /\ worker'[w].rm = worker[w].rm /\ worker'[w].old = Read(old)
  BY <1>2, <1>4 DEF TypeOK, Request
<1>6. SeenInv(worker[w])'
  BY <1>1, <1>2, <1>3, <1>5 DEF SeenInv, Requested, Readable, Read, Party
<1> QED BY <1>1, <1>2, <1>5, <1>6, SteadyReading

LEMMA PublishRoomCancelSteady ==
    ASSUME Inductive, Steady, NEW w \in Workers, PublishRoomCancel(w)
    PROVE  Steady'
<1>1. /\ worker[w].step = "tell" /\ ~At(w, "idle")
      /\ UNCHANGED <<lock, room, answered>>
  BY DEF PublishRoomCancel, At
<1>2. TypeOK /\ OthersIdle(w) /\ SeenInv(worker[w])
  BY <1>1, UnderWay
<1>3. CASE worker[w].rm.id = worker[w].old.id
  BY <1>1, <1>2, <1>3, FinishSteady DEF PublishRoomCancel, ContinueOrFinish
<1>4. CASE worker[w].rm.id # worker[w].old.id
  <2>1. worker' = [worker EXCEPT ![w].step = "claim"]
    BY <1>4 DEF PublishRoomCancel, ContinueOrFinish, Continue
  <2>2. /\ \A v \in Workers \ {w} : worker'[v] = worker[v]
        /\ worker'[w].step = "claim" /\ worker'[w].self = worker[w].self
        /\ worker'[w].rm = worker[w].rm
    BY <1>2, <2>1, Continued
  <2>3. SeenInv(worker[w])'
    BY <1>1, <1>2, <1>4, <2>2 DEF SeenInv, Requested, Readable
  <2> QED BY <1>1, <1>2, <2>2, <2>3, SteadyReading
<1> QED BY <1>3, <1>4

LEMMA AddRejectedSteady ==
    ASSUME Inductive, Steady, NEW w \in Workers, AddRejected(w)
    PROVE  Steady'
<1>1. /\ worker[w].step = "reject" /\ ~At(w, "idle")
      /\ UNCHANGED <<lock, room, answered>>
  BY DEF AddRejected, At
<1>2. TypeOK /\ OthersIdle(w) /\ SeenInv(worker[w])
  BY <1>1, UnderWay
<1>3. Finish(w) \/ worker' = [worker EXCEPT ![w].step = "release"]
  BY DEF AddRejected, ContinueOrFinish, Continue
<1>4. CASE Finish(w)
  BY <1>1, <1>2, <1>4, FinishSteady
<1>5. CASE worker' = [worker EXCEPT ![w].step = "release"]
  <2>1. /\ \A v \in Workers \ {w} : worker'[v] = worker[v]
        /\ worker'[w].step = "release"
        /\ worker'[w].rm = worker[w].rm /\ worker'[w].old = worker[w].old
    BY <1>2, <1>5, Continued
  <2>2. SeenInv(worker[w])'
    BY <1>1, <1>2, <2>1 DEF SeenInv, Readable
  <2> QED BY <1>1, <1>2, <2>1, <2>2, SteadyReading
<1> QED BY <1>3, <1>4, <1>5

LEMMA QueryRoomSteady ==
    ASSUME Inductive, Steady, NEW w \in Workers, QueryRoom(w)
    PROVE  Steady'
<1>1. /\ worker[w].step = "query" /\ ~At(w, "idle")
      /\ UNCHANGED <<lock, room, answered>>
  BY DEF QueryRoom, At
<1>2. /\ TypeOK /\ worker[w].self \in Devices /\ InStepBut(w)
      /\ worker[w].old.id = lock[worker[w].self] /\ worker[w].old.id \in Rooms
  BY <1>1, UnderWay DEF SeenInv
<1>3. Readable(worker[w].old.id)
  BY <1>1, <1>2, LockLeads
<1>4. room[worker[w].old.id] # NoHash
  BY <1>3 DEF Readable, NoHash
<1>5. Finish(w)
  BY <1>4 DEF QueryRoom, ContinueOrFinish
<1> QED BY <1>1, <1>2, <1>5, FinishSteady

LEMMA FindRoomSteady ==
    ASSUME Inductive, Steady, NEW w \in Workers, FindRoom(w)
    PROVE  Steady'
<1> DEFINE self == worker[w].self
           r == worker[w].old.id
           q == Releasing(self, r, "release", PeersOfUnbound(self, room[r]), "unbound")
<1>1. /\ worker[w].step = "find" /\ ~At(w, "idle")
      /\ UNCHANGED <<lock, room, answered>>
  BY DEF FindRoom, At
<1>2. /\ TypeOK /\ self \in Devices /\ OthersIdle(w) /\ InStepBut(w)
      /\ r = lock[self] /\ r \in Rooms
  BY <1>1, UnderWay DEF SeenInv
<1>3. Readable(r)
  BY <1>1, <1>2, LockLeads
<1>4. worker' = [worker EXCEPT ![w] = q]
  BY <1>3 DEF FindRoom
<1>5. worker'[w] = q /\ \A v \in Workers \ {w} : worker'[v] = worker[v]
  BY <1>2, <1>4 DEF TypeOK
<1>6. q.step = "release" /\ q.rm.id = r /\ q.old.id = r /\ q.old.hash = room[r]
  BY DEF Releasing, Read
<1> HIDE DEF q
<1>7. SeenInv(worker[w])'
  BY <1>1, <1>3, <1>5, <1>6 DEF SeenInv, Readable
<1> QED BY <1>1, <1>2, <1>5, <1>6, <1>7, SteadyReading


\* The steps that write locks and rooms.
LEMMA PostCallRequestSteady ==
    ASSUME Inductive, Steady, NEW w \in Workers, ~disturbed',
           NEW self \in Devices, NEW r \in Rooms, NEW targets \in SUBSET Devices,
           NEW online, PostCallRequest(w, self, targets, online, r)
    PROVE  Steady'
<1> DEFINE q == [Idle EXCEPT
          !.step = "create", !.self = self, !.others = online,
          !.rm = [id |-> r, hash |-> [NoHash EXCEPT !.caller = self,
                                                    !.targets = targets]]]
<1>1. /\ TypeOK /\ Arrive(w, q) /\ UNCHANGED <<room, answered>>
      /\ self \notin targets /\ lock[self] = NONE
      /\ lock' = [lock EXCEPT ![self] = r]
      /\ \A d \in Devices : lock[d] # r
  BY DEF Inductive, FreshInv, PostCallRequest
<1>2. /\ q.step = "create" /\ q.self = self /\ q.rm.id = r
      /\ q.rm.hash.answeredBy = NONE /\ q.rm.hash.targets = targets
  BY DEF Idle, NoHash
<1>3. /\ OthersIdle(w) /\ At(w, "idle") /\ worker'[w] = q
      /\ \A v \in Workers \ {w} : worker'[v] = worker[v]
  BY <1>1, ArrivesAlone
<1> HIDE DEF q
<1>4. SeenInv(worker[w])'
  BY <1>1, <1>2, <1>3 DEF SeenInv
<1>5. InStepBut(w)
  BY <1>3, InStepSplit DEF Steady
<1>6. InStepBut(w)'
  BY <1>1, <1>2, <1>3, <1>5, CallRoomsAssumption
     DEF InStepBut, Party, Readable, Ahead, At, TypeOK
<1>7. RoomInv'
  BY <1>1 DEF Steady, RoomInv, Readable
<1> QED BY <1>1, <1>3, <1>4, <1>6, <1>7, SteadyAfter

LEMMA CreateRoomSteady ==
    ASSUME Inductive, Steady, NEW w \in Workers, CreateRoom(w)
    PROVE  Steady'
<1> DEFINE rm == worker[w].rm
<1>1. /\ worker[w].step = "create" /\ ~At(w, "idle")
      /\ room' = [room EXCEPT ![rm.id] = rm.hash]
      /\ worker' = [worker EXCEPT ![w].step = "ring"]
      /\ UNCHANGED <<lock, answered>>
  BY DEF CreateRoom, Continue, At
<1>2. /\ TypeOK /\ worker[w] \in Request /\ WellFormed(worker[w])
      /\ worker[w].self \in Devices /\ OthersIdle(w) /\ InStepBut(w) /\ RoomInv
      /\ rm.hash.answeredBy = NONE /\ worker[w].self \notin rm.hash.targets
  BY <1>1, UnderWay DEF SeenInv
<1>3. /\ rm.id \in Rooms /\ ~Readable(rm.id) /\ rm.hash.caller = worker[w].self
  BY <1>1, <1>2 DEF WellFormed, Leaving, Inductive, CreateInv, Unread, At
<1>4. /\ \A v \in Workers \ {w} : worker'[v] = worker[v]
      /\ worker'[w].step = "ring"
  BY <1>1, <1>2, Continued
<1>5. /\ room'[rm.id] = rm.hash
      /\ \A r \in Rooms \ {rm.id} : room'[r] = room[r]
  BY <1>1, <1>2, <1>3 DEF TypeOK
<1> HIDE DEF rm
<1>6. SeenInv(worker[w])'
  BY <1>4 DEF SeenInv
<1>7. InStepBut(w)'
  <2> SUFFICES ASSUME NEW d \in Devices, NEW r \in Rooms
               PROVE  lock[d] = r <=> Party(d, r)'
    BY <1>1, <1>4 DEF InStepBut, Ahead
  <2>1. lock[d] = r <=> (Party(d, r) \/ Ahead(w, d, r))
    BY <1>2 DEF InStepBut
  <2>2. Ahead(w, d, r) <=> d = worker[w].self /\ r = rm.id
    BY <1>1 DEF Ahead, rm
  <2>3. CASE r = rm.id
    BY <1>2, <1>3, <1>5, <2>1, <2>2, <2>3, DevicesAssumption DEF Party, Readable
  <2>4. CASE r # rm.id
    BY <1>5, <2>1, <2>2, <2>4 DEF Party, Readable
  <2> QED BY <2>3, <2>4
<1>8. RoomInv'
  BY <1>1, <1>2, <1>3, <1>5 DEF RoomInv, Readable
<1> QED BY <1>2, <1>4, <1>6, <1>7, <1>8, SteadyAfter

LEMMA ClaimAnswerSteady ==
    ASSUME Inductive, Steady, NEW w \in Workers, ClaimAnswer(w)
    PROVE  Steady'
<1> DEFINE self == worker[w].self
           r == worker[w].rm.id
<1>1. /\ worker[w].step = "claim" /\ ~At(w, "idle")
      /\ UNCHANGED <<lock, room>>
  BY DEF ClaimAnswer, At
<1>2. /\ TypeOK /\ worker[w] \in Request /\ WellFormed(worker[w])
      /\ self \in Devices /\ OthersIdle(w) /\ InStepBut(w) /\ RoomInv
      /\ Requested(worker[w]) /\ lock[self] \in {NONE, r}
  BY <1>1, UnderWay DEF SeenInv
<1>3. r \in Rooms
  BY <1>1, <1>2 DEF WellFormed, Leaving
<1>4. CASE answered[r] = NONE
  <2>1. /\ worker' = [worker EXCEPT ![w].step = "takeLock"]
        /\ answered' = [answered EXCEPT ![r] = self]
    BY <1>4 DEF ClaimAnswer, Continue
  <2>2. /\ \A v \in Workers \ {w} : worker'[v] = worker[v]
        /\ worker'[w].step = "takeLock" /\ worker'[w].self = self
        /\ worker'[w].rm = worker[w].rm
    BY <1>2, <2>1, Continued
  <2>3. Readable(r) /\ self \in room[r].targets /\ room[r].answeredBy = NONE
    BY <1>2, <1>3, <1>4 DEF Requested, RoomInv
  <2>4. lock[self] = NONE
    <3>1. ~Party(self, r)
      BY <1>2, <1>3, <2>3, DevicesAssumption DEF Party, RoomInv
    <3> QED BY <1>1, <1>2, <1>3, <3>1 DEF InStepBut, Ahead
  <2>5. answered'[r] = self /\ \A s \in Rooms \ {r} : answered'[s] = answered[s]
    BY <1>2, <1>3, <2>1 DEF TypeOK
  <2> HIDE DEF self, r
  <2>6. SeenInv(worker[w])'
    BY <1>1, <2>2, <2>3, <2>4, <2>5 DEF SeenInv, Requested, Readable, r
  <2>7. InStepBut(w)'
    BY <1>1, <1>2, <2>2 DEF InStepBut, Ahead, Party, Readable
  <2>8. RoomInv'
    BY <1>1, <1>2, <2>3, <2>5 DEF RoomInv, Readable
  <2> QED BY <1>2, <2>2, <2>6, <2>7, <2>8, SteadyAfter
<1>5. CASE answered[r] # NONE
  BY <1>1, <1>2, <1>5, FinishSteady DEF ClaimAnswer
<1> QED BY <1>4, <1>5

LEMMA TakeLockSteady ==
    ASSUME Inductive, Steady, NEW w \in Workers, TakeLock(w)
    PROVE  Steady'
<1> DEFINE self == worker[w].self
           r == worker[w].rm.id
<1>1. /\ worker[w].step = "takeLock" /\ ~At(w, "idle")
      /\ UNCHANGED <<room, answered>>
  BY DEF TakeLock, At
<1>2. /\ TypeOK /\ worker[w] \in Request /\ WellFormed(worker[w])
      /\ self \in Devices /\ OthersIdle(w) /\ InStepBut(w) /\ RoomInv
      /\ Requested(worker[w]) /\ lock[self] = NONE
      /\ answered[r] = self /\ room[r].answeredBy = NONE
  BY <1>1, UnderWay DEF SeenInv
<1>3. r \in Rooms
  BY <1>1, <1>2 DEF WellFormed, Leaving
<1>4. /\ worker' = [worker EXCEPT ![w].step = "record"]
      /\ lock' = [lock EXCEPT ![self] = r]
  BY <1>2 DEF TakeLock, Continue
<1>5. /\ \A v \in Workers \ {w} : worker'[v] = worker[v]
      /\ worker'[w].step = "record" /\ worker'[w].self = self
      /\ worker'[w].rm = worker[w].rm
  BY <1>2, <1>4, Continued
<1>6. lock'[self] = r /\ \A d \in Devices \ {self} : lock'[d] = lock[d]
  BY <1>2, <1>4 DEF TypeOK
<1>7. SeenInv(worker[w])'
  BY <1>1, <1>2, <1>5 DEF SeenInv, Requested, Readable
<1>8. InStepBut(w)'
  <2> SUFFICES ASSUME NEW d \in Devices, NEW s \in Rooms
               PROVE  lock'[d] = s <=> (Party(d, s) \/ (d = self /\ s = r))
    BY <1>1, <1>5 DEF InStepBut, Ahead, Party, Readable
  <2>1. lock[d] = s <=> Party(d, s)
    BY <1>1, <1>2 DEF InStepBut, Ahead
  <2> HIDE DEF self, r
  <2> QED BY <1>2, <1>6, <2>1, CallRoomsAssumption
<1>9. RoomInv'
  BY <1>1, <1>2 DEF RoomInv, Readable
<1> QED BY <1>2, <1>5, <1>7, <1>8, <1>9, SteadyAfter

LEMMA SetAnsweredBySteady ==
    ASSUME Inductive, Steady, NEW w \in Workers, SetAnsweredBy(w)
    PROVE  Steady'
<1> DEFINE self == worker[w].self
           r == worker[w].rm.id
<1>1. /\ worker[w].step = "record" /\ ~At(w, "idle")
      /\ room' = [room EXCEPT ![r].answeredBy = self]
      /\ worker' = [worker EXCEPT ![w].step = "reply"]
      /\ UNCHANGED <<lock, answered>>
  BY DEF SetAnsweredBy, Continue, At
<1>2. /\ TypeOK /\ worker[w] \in Request /\ WellFormed(worker[w])
      /\ self \in Devices /\ OthersIdle(w) /\ InStepBut(w) /\ RoomInv
      /\ Requested(worker[w]) /\ answered[r] = self /\ room[r].answeredBy = NONE
  BY <1>1, UnderWay DEF SeenInv
<1>3. r \in Rooms /\ Readable(r)
  BY <1>1, <1>2 DEF WellFormed, Leaving, Requested
<1>4. /\ \A v \in Workers \ {w} : worker'[v] = worker[v]
      /\ worker'[w].step = "reply"
  BY <1>1, <1>2, Continued
<1>5. /\ room'[r].answeredBy = self /\ room'[r].caller = room[r].caller
      /\ room'[r].targets = room[r].targets
      /\ \A s \in Rooms \ {r} : room'[s] = room[s]
  BY <1>1, <1>2, <1>3 DEF TypeOK, Hash
<1>6. SeenInv(worker[w])'
  BY <1>4 DEF SeenInv
<1> HIDE DEF self, r
<1>7. InStepBut(w)'
  <2> SUFFICES ASSUME NEW d \in Devices, NEW s \in Rooms
               PROVE  lock[d] = s <=> Party(d, s)'
    BY <1>1, <1>4 DEF InStepBut, Ahead
  <2>1. lock[d] = s <=> (Party(d, s) \/ (d = self /\ s = r))
    BY <1>1, <1>2 DEF InStepBut, Ahead, self, r
  <2>2. CASE s = r
    BY <1>2, <1>3, <1>5, <2>1, <2>2, DevicesAssumption DEF Party, Readable
  <2>3. CASE s # r
    BY <1>5, <2>1, <2>3 DEF Party, Readable
  <2> QED BY <2>2, <2>3
<1>8. RoomInv'
  BY <1>1, <1>2, <1>3, <1>5 DEF RoomInv, Readable
<1> QED BY <1>2, <1>4, <1>6, <1>7, <1>8, SteadyAfter

LEMMA ReleaseRoomSteady ==
    ASSUME Inductive, Steady, NEW w \in Workers, ReleaseRoom(w)
    PROVE  Steady'
<1> DEFINE old == worker[w].old.id
           hash == worker[w].old.hash
<1>1. /\ worker[w].step = "release" /\ ~At(w, "idle")
      /\ room' = [room EXCEPT ![old] = NoHash]
      /\ answered' = [answered EXCEPT ![old] = NONE]
      /\ lock' = Unlock(hash)
      /\ worker' = [worker EXCEPT ![w].step = "tell"]
  BY DEF ReleaseRoom, DeleteRoom, Continue, At
<1>2. /\ TypeOK /\ worker[w] \in Request /\ WellFormed(worker[w])
      /\ worker[w].self \in Devices /\ OthersIdle(w) /\ InStepBut(w) /\ RoomInv
      /\ Readable(old) /\ hash = room[old]
      /\ worker[w].rm.id # old => Requested(worker[w]) /\ Party(worker[w].self, old)
  BY <1>1, UnderWay DEF SeenInv
<1>3. old \in Rooms /\ worker[w].rm.id \in Rooms
  BY <1>1, <1>2 DEF WellFormed, Leaving
<1>4. /\ \A v \in Workers \ {w} : worker'[v] = worker[v]
      /\ worker'[w].step = "tell" /\ worker'[w].self = worker[w].self
      /\ worker'[w].rm = worker[w].rm /\ worker'[w].old = worker[w].old
  BY <1>1, <1>2, Continued
<1>5. /\ room'[old].caller = NONE
      /\ \A s \in Rooms \ {old} : room'[s] = room[s] /\ answered'[s] = answered[s]
      /\ \A d \in Devices : lock'[d] = IF Party(d, old) THEN NONE ELSE lock[d]
  BY <1>1, <1>2, <1>3 DEF TypeOK, Readable, NoHash, Unlock, Party
<1>6. SeenInv(worker[w])'
  BY <1>2, <1>3, <1>4, <1>5 DEF SeenInv, Requested, Readable
<1> HIDE DEF old, hash
<1>7. InStepBut(w)'
  <2> SUFFICES ASSUME NEW d \in Devices, NEW s \in Rooms
               PROVE  lock'[d] = s <=> Party(d, s)'
    BY <1>4 DEF InStepBut, Ahead
  <2>1. \A t \in Rooms : lock[d] = t <=> Party(d, t)
    BY <1>1, <1>2 DEF InStepBut, Ahead
  <2>2. s # NONE
    BY CallRoomsAssumption
  <2>3. CASE s = old
    BY <1>3, <1>5, <2>1, <2>2, <2>3 DEF Party, Readable
  <2>4. CASE s # old
    BY <1>3, <1>5, <2>1, <2>2, <2>4 DEF Party, Readable
  <2> QED BY <2>3, <2>4
<1>8. RoomInv'
  BY <1>2, <1>5 DEF RoomInv, Readable
<1> QED BY <1>2, <1>4, <1>6, <1>7, <1>8, SteadyAfter

LEMMA ArriveSerial == ASSUME NEW w, NEW q, Arrive(w, q), Serial' PROVE Serial
BY DEF Arrive, Serial

\* Every step.
LEMMA SerialNow == ASSUME TypeOK, Next, Serial' PROVE Serial
<1>1. PICK w \in Workers : Arrival(w) \/ Progress(w)
  BY DEF Next
<1>2. CASE Arrival(w)
  <2>1. PICK self \in Devices :
          \/ \E r \in Rooms, targets \in SUBSET Devices : \E online \in SUBSET targets :
                PostCallRequest(w, self, targets, online, r)
          \/ \E r \in Rooms : PostDeviceInfo(w, self, r)
          \/ \E r \in Rooms : PostCallCancel(w, self, r)
          \/ \E r \in Rooms : PostCallHangup(w, self, r)
          \/ \E r \in Rooms : PostCallReject(w, self, r)
          \/ GetDeviceRoom(w, self)
          \/ PostInternalUnbind(w, self)
    BY <1>2 DEF Arrival
  <2>2. CASE \E r \in Rooms, targets \in SUBSET Devices : \E online \in SUBSET targets :
                PostCallRequest(w, self, targets, online, r)
    BY <2>2, ArriveSerial DEF PostCallRequest
  <2>3. CASE \E r \in Rooms : PostDeviceInfo(w, self, r)
    BY <2>3, ArriveSerial DEF PostDeviceInfo
  <2>4. CASE \E r \in Rooms : PostCallCancel(w, self, r)
    BY <2>4, ArriveSerial DEF PostCallCancel
  <2>5. CASE \E r \in Rooms : PostCallHangup(w, self, r)
    BY <2>5, ArriveSerial DEF PostCallHangup
  <2>6. CASE \E r \in Rooms : PostCallReject(w, self, r)
    BY <2>6, ArriveSerial DEF PostCallReject
  <2>7. CASE GetDeviceRoom(w, self) \/ PostInternalUnbind(w, self)
    BY <2>7, ArriveSerial DEF GetDeviceRoom, PostInternalUnbind
  <2> QED BY <2>1, <2>2, <2>3, <2>4, <2>5, <2>6, <2>7
<1>3. CASE ReadLockFailed(w) \/ RequestDies(w)
  BY <1>3, MaxDeathsAssumption DEF ReadLockFailed, RequestDies, Serial, TypeOK
<1>4. CASE /\ Progress(w) /\ ~ReadLockFailed(w) /\ ~RequestDies(w)
  <2>1. Finish(w) \/ UNCHANGED <<deaths, disturbed>>
    <3> USE DEF Continue, ContinueOrFinish
    <3>1. CASE ReadLock(w) \/ ReadOld(w) \/ FindRoom(w)
      BY <3>1 DEF ReadLock, ReadOld, FindRoom
    <3>2. CASE CreateRoom(w) \/ ClaimAnswer(w) \/ TakeLock(w) \/ OverwriteLock(w) \/ SetAnsweredBy(w)
      BY <3>2 DEF CreateRoom, ClaimAnswer, TakeLock, OverwriteLock, SetAnsweredBy
    <3>3. CASE PublishCallIncoming(w) \/ ReplyToken(w) \/ ReleaseRoom(w)
      BY <3>3 DEF PublishCallIncoming, ReplyToken, ReleaseRoom
    <3>4. CASE PublishRoomCancel(w) \/ AddRejected(w) \/ QueryRoom(w) \/ DropOrphan(w)
      BY <3>4 DEF PublishRoomCancel, AddRejected, QueryRoom, DropOrphan
    <3> QED BY <1>4, <3>1, <3>2, <3>3, <3>4 DEF Progress
  <2> QED BY <2>1 DEF Finish, Serial
<1> QED BY <1>1, <1>2, <1>3, <1>4

LEMMA SteadyStep == ASSUME Inductive, Steady, Next, Serial' PROVE Steady'
<1>1. PICK w \in Workers : Arrival(w) \/ Progress(w)
  BY DEF Next
<1>2. ~disturbed' /\ deaths' = 0
  BY DEF Serial
<1>3. CASE Arrival(w)
  <2>1. PICK self \in Devices :
          \/ \E r \in Rooms, targets \in SUBSET Devices : \E online \in SUBSET targets :
                PostCallRequest(w, self, targets, online, r)
          \/ \E r \in Rooms :
                \/ PostDeviceInfo(w, self, r)
                \/ PostCallCancel(w, self, r)
                \/ PostCallHangup(w, self, r)
                \/ PostCallReject(w, self, r)
          \/ GetDeviceRoom(w, self)
          \/ PostInternalUnbind(w, self)
    BY <1>3 DEF Arrival
  <2>2. CASE \E r \in Rooms, targets \in SUBSET Devices : \E online \in SUBSET targets :
                PostCallRequest(w, self, targets, online, r)
    BY <1>2, <2>2, PostCallRequestSteady
  <2>3. CASE \E r \in Rooms : PostDeviceInfo(w, self, r)
    BY <1>2, <2>3, PostDeviceInfoSteady
  <2>4. CASE \E r \in Rooms : \/ PostCallCancel(w, self, r)
                              \/ PostCallHangup(w, self, r)
                              \/ PostCallReject(w, self, r)
    BY <1>2, <2>4, LeavingSteady
  <2>5. CASE GetDeviceRoom(w, self) \/ PostInternalUnbind(w, self)
    BY <1>2, <2>5, LockedSteady
  <2> QED BY <2>1, <2>2, <2>3, <2>4, <2>5
<1>4. ~ReadLockFailed(w) /\ ~RequestDies(w)
  BY <1>2, MaxDeathsAssumption DEF ReadLockFailed, RequestDies, Inductive, TypeOK
<1>5. ~DropOrphan(w) /\ ~OverwriteLock(w)
  <2>1. SeenInv(worker[w])
    BY DEF Steady, Seen
  <2> QED BY <2>1 DEF SeenInv, DropOrphan, OverwriteLock, At
<1>6. CASE Progress(w)
  BY <1>4, <1>5, <1>6, CreateRoomSteady, PublishingSteady, ReadLockSteady, ReadOldSteady,
     ClaimAnswerSteady, TakeLockSteady, SetAnsweredBySteady, ReleaseRoomSteady,
     PublishRoomCancelSteady, AddRejectedSteady, QueryRoomSteady, FindRoomSteady
     DEF Progress
<1> QED BY <1>1, <1>3, <1>6

\* Every state of every behaviour satisfies Steady while the requests are
\* served one after another.
THEOREM SerialRequestsAreSteady == Spec => [](Serial => Steady)
<1>1. Init => (Serial => Steady)
  BY CallRoomsAssumption DEF Init, Steady, Alone, InStep, RoomInv, Seen, SeenInv, Idle, At, Party,
         Readable, NoHash, Ahead
<1>2. Inductive /\ Inductive' /\ (Serial => Steady) /\ [Next]_vars => (Serial => Steady)'
  <2> SUFFICES ASSUME Inductive, Inductive', Serial => Steady, [Next]_vars, Serial'
               PROVE  Steady'
    OBVIOUS
  <2>1. CASE Next
    BY <2>1, SerialNow, SteadyStep DEF Inductive
  <2>2. CASE UNCHANGED vars
    BY <2>2 DEF vars, Serial, Steady, Alone, InStep, RoomInv, Seen, SeenInv, At, Party,
                Readable, Ahead, Requested
  <2> QED BY <2>1, <2>2
<1> QED BY <1>1, <1>2, CallRoomsInductive, PTL DEF Spec

\* While the device requests are served one after another, and none stops
\* halfway, a device is locked to a room exactly when it is the caller or the
\* device that answered, and it is in one room at most: the locks and hashes
\* that acquireLock, createRoom, setAnsweredBy and releaseRoom write one by one
\* agree again when the requests are done.
THEOREM SerialRequestsStayInStep == Spec => []SerialRequestsKeepStep
<1>1. Inductive /\ (Serial => Steady) => SerialRequestsKeepStep
  <2> SUFFICES ASSUME Inductive, Steady, Quiet, NEW d \in Devices
               PROVE  RoomsOf(d) = {lock[d]} \ {NONE}
    BY DEF SerialRequestsKeepStep, Serial
  <2>1. \A r \in Rooms : lock[d] = r <=> Party(d, r)
    BY DEF Steady, InStep, Ahead, Quiet, At
  <2>2. \A r \in Rooms : Party(d, r) <=> r \in RoomsOf(d)
    BY DevicesAssumption DEF Party, RoomsOf, Parties
  <2>3. lock[d] \in Rooms \cup {NONE} /\ RoomsOf(d) \subseteq Rooms
    BY DEF Inductive, TypeOK, RoomsOf
  <2> QED BY <2>1, <2>2, <2>3, CallRoomsAssumption
<1> QED BY <1>1, CallRoomsInductive, SerialRequestsAreSteady, PTL

-----------------------------------------------------------------------------
(* Refusals.  room:{id}:rejected_by holds targets of the room only, even    *)
(* when the room has gone while a request was about to add one; so the size *)
(* comparison of the code says that the two sets are equal.                 *)

RejectedInv == \A r \in Rooms :
    /\ r \notin used => rejected[r] = {}
    /\ Readable(r) => rejected[r] \subseteq room[r].targets

CreatorInv == \A w \in Workers : At(w, "create") => rejected[worker[w].rm.id] = {}

RefuserInv == \A w \in Workers : At(w, "reject") =>
    /\ worker[w].self \in worker[w].rm.hash.targets
    /\ rejected[worker[w].rm.id] \subseteq worker[w].rm.hash.targets
    /\ Readable(worker[w].rm.id) => room[worker[w].rm.id].targets = worker[w].rm.hash.targets

SameTargets == \A v, w \in Workers :
    At(v, "reject") /\ At(w, "reject") /\ worker[v].rm.id = worker[w].rm.id
        => worker[v].rm.hash.targets = worker[w].rm.hash.targets

Refusals == RejectedInv /\ CreatorInv /\ RefuserInv /\ SameTargets

\* A step after which its request neither creates a room nor refuses one, and
\* which adds no refusal.
LEMMA RefusalsKept ==
    ASSUME Inductive, Refusals, NEW w \in Workers,
           \A v \in Workers \ {w} : worker'[v] = worker[v],
           worker'[w].step \notin {"create", "reject"},
           used' = used, \A r \in Rooms : rejected'[r] \in {rejected[r], {}},
           \A r \in Rooms : room'[r].caller # NONE =>
              room[r].caller # NONE /\ room'[r].targets = room[r].targets
    PROVE  Refusals'
<1>1. \A v \in Workers : worker[v].step \in {"create", "reject"} => worker[v].rm.id \in Rooms
  BY DEF Inductive, RequestInv, WellFormed
<1>2. RejectedInv'
  BY DEF Refusals, RejectedInv, Readable
<1>3. CreatorInv'
  BY <1>1 DEF Refusals, CreatorInv, At
<1>4. RefuserInv'
  <2> SUFFICES ASSUME NEW v \in Workers, worker'[v].step = "reject"
               PROVE  /\ worker'[v].self \in worker'[v].rm.hash.targets
                      /\ rejected'[worker'[v].rm.id] \subseteq worker'[v].rm.hash.targets
                      /\ room'[worker'[v].rm.id].caller # NONE
                            => room'[worker'[v].rm.id].targets = worker'[v].rm.hash.targets
    BY DEF RefuserInv, At, Readable
  <2>1. v # w /\ worker'[v] = worker[v] /\ worker[v].rm.id \in Rooms
    BY <1>1
  <2> QED BY <2>1 DEF Refusals, RefuserInv, At, Readable
<1>5. SameTargets'
  BY DEF Refusals, SameTargets, At
<1> QED BY <1>2, <1>3, <1>4, <1>5 DEF Refusals

LEMMA RefusalsAfterContinue ==
    ASSUME Inductive, Refusals, NEW w \in Workers, NEW s \in Step \ {"create", "reject"},
           Finish(w) \/ worker' = [worker EXCEPT ![w].step = s],
           used' = used, \A r \in Rooms : rejected'[r] \in {rejected[r], {}},
           \A r \in Rooms : room'[r].caller # NONE =>
              room[r].caller # NONE /\ room'[r].targets = room[r].targets
    PROVE  Refusals'
<1>1. TypeOK
  BY DEF Inductive
<1>2. /\ \A v \in Workers \ {w} : worker'[v] = worker[v]
      /\ worker'[w].step \notin {"create", "reject"}
  BY <1>1, Continued, Finished
<1> QED BY <1>2, RefusalsKept

\* Steps that leave the rooms as they are.
LEMMA ReadingKeepsRefusals ==
    ASSUME Inductive, Refusals, NEW w \in Workers,
           \/ PublishCallIncoming(w) \/ ReadLockFailed(w) \/ ReadLock(w) \/ ReadOld(w)
           \/ ClaimAnswer(w) \/ TakeLock(w) \/ OverwriteLock(w) \/ ReplyToken(w)
           \/ PublishRoomCancel(w) \/ QueryRoom(w) \/ DropOrphan(w) \/ FindRoom(w)
           \/ RequestDies(w)
    PROVE  Refusals'
<1>1. /\ used' = used /\ rejected' = rejected /\ room' = room
  <2>1. CASE \/ PublishCallIncoming(w) \/ ReadLockFailed(w) \/ ReadLock(w) \/ ReadOld(w)
             \/ ClaimAnswer(w) \/ TakeLock(w)
    BY <2>1 DEF PublishCallIncoming, ReadLockFailed, ReadLock, ReadOld, ClaimAnswer, TakeLock
  <2>2. CASE \/ OverwriteLock(w) \/ ReplyToken(w) \/ PublishRoomCancel(w) \/ QueryRoom(w)
             \/ DropOrphan(w) \/ FindRoom(w) \/ RequestDies(w)
    BY <2>2 DEF OverwriteLock, ReplyToken, PublishRoomCancel, QueryRoom, DropOrphan, FindRoom, RequestDies
  <2> QED BY <2>1, <2>2
<1>2. TypeOK /\ worker[w] \in Request
  BY DEF Inductive, TypeOK
<1>3. /\ \A v \in Workers \ {w} : worker'[v] = worker[v]
      /\ worker'[w].step \notin {"create", "reject"}
  <2>1. CASE \/ PublishCallIncoming(w) \/ ReplyToken(w) \/ RequestDies(w)
    BY <1>2, <2>1 DEF PublishCallIncoming, ReplyToken, RequestDies, Finish, Idle, TypeOK
  <2>2. CASE \/ ReadLockFailed(w) \/ OverwriteLock(w) \/ TakeLock(w)
    BY <1>2, <2>2 DEF ReadLockFailed, OverwriteLock, TakeLock, Continue, TypeOK, Request
  <2>3. CASE \/ ClaimAnswer(w) \/ PublishRoomCancel(w) \/ QueryRoom(w) \/ DropOrphan(w)
    BY <1>2, <2>3 DEF ClaimAnswer, PublishRoomCancel, QueryRoom, DropOrphan, ContinueOrFinish,
                      Continue, Finish, Idle, TypeOK, Request
  <2>4. CASE ReadLock(w) \/ ReadOld(w)
    BY <1>2, <2>4 DEF ReadLock, ReadOld, ContinueOrFinish, Continue, Finish, Idle, TypeOK, Request
  <2>5. CASE FindRoom(w)
    BY <1>2, <2>5 DEF FindRoom, Releasing, Finish, Idle, TypeOK
  <2> QED BY <2>1, <2>2, <2>3, <2>4, <2>5
<1> QED BY <1>1, <1>3, RefusalsKept

LEMMA ArrivingKeepsRefusals ==
    ASSUME Inductive, Refusals, NEW w \in Workers, NEW q, q.step \notin {"create", "reject"},
           Arrive(w, q), UNCHANGED <<room, rejected, used>>
    PROVE  Refusals'
<1>1. \A v \in Workers \ {w} : worker'[v] = worker[v]
  BY DEF Arrive, Inductive, TypeOK
<1>2. worker'[w] = q
  BY DEF Arrive, Inductive, TypeOK
<1> QED BY <1>1, <1>2, RefusalsKept

LEMMA OtherArrivalsKeepRefusals ==
    ASSUME Inductive, Refusals, NEW w \in Workers, NEW self \in Devices, NEW r \in Rooms,
           \/ PostDeviceInfo(w, self, r) \/ PostCallCancel(w, self, r)
           \/ PostCallHangup(w, self, r)
    PROVE  Refusals'
<1>1. CASE PostDeviceInfo(w, self, r)
  BY <1>1, ArrivingKeepsRefusals DEF PostDeviceInfo, Idle
<1>2. CASE PostCallCancel(w, self, r) \/ PostCallHangup(w, self, r)
  BY <1>2, ArrivingKeepsRefusals DEF PostCallCancel, PostCallHangup, Releasing
<1> QED BY <1>1, <1>2

LEMMA LockedKeepsRefusals ==
    ASSUME Inductive, Refusals, NEW w \in Workers, NEW self \in Devices,
           GetDeviceRoom(w, self) \/ PostInternalUnbind(w, self)
    PROVE  Refusals'
BY ArrivingKeepsRefusals DEF GetDeviceRoom, PostInternalUnbind, Locked, Idle

LEMMA WritingKeepsRefusals ==
    ASSUME Inductive, Refusals, NEW w \in Workers, SetAnsweredBy(w) \/ ReleaseRoom(w)
    PROVE  Refusals'
<1>1. TypeOK /\ worker[w] \in Request /\ WellFormed(worker[w])
  BY DEF Inductive, TypeOK, RequestInv
<1>2. CASE SetAnsweredBy(w)
  <2>1. /\ worker' = [worker EXCEPT ![w].step = "reply"]
        /\ used' = used /\ rejected' = rejected
    BY <1>2 DEF SetAnsweredBy, Continue
  <2>2. \A r \in Rooms : room'[r].caller = room[r].caller /\ room'[r].targets = room[r].targets
    BY <1>1, <1>2 DEF SetAnsweredBy, TypeOK, Hash
  <2> QED BY <2>1, <2>2, RefusalsAfterContinue DEF Step
<1>3. CASE ReleaseRoom(w)
  <2>1. /\ worker' = [worker EXCEPT ![w].step = "tell"]
        /\ used' = used
    BY <1>3 DEF ReleaseRoom, Continue
  <2>2. \A r \in Rooms : /\ rejected'[r] \in {rejected[r], {}}
                         /\ room'[r].caller # NONE => room'[r] = room[r]
    BY <1>1, <1>3 DEF ReleaseRoom, DeleteRoom, NoHash, TypeOK
  <2> QED BY <2>1, <2>2, RefusalsAfterContinue DEF Step
<1> QED BY <1>2, <1>3

LEMMA PostCallRequestKeepsRefusals ==
    ASSUME Inductive, Refusals, NEW w \in Workers, NEW self \in Devices, NEW r \in Rooms,
           NEW targets \in SUBSET Devices, NEW online, PostCallRequest(w, self, targets, online, r)
    PROVE  Refusals'
<1> DEFINE q == [Idle EXCEPT
          !.step = "create", !.self = self, !.others = online,
          !.rm = [id |-> r, hash |-> [NoHash EXCEPT !.caller = self,
                                                    !.targets = targets]]]
<1>1. /\ TypeOK /\ worker' = [worker EXCEPT ![w] = q] /\ UNCHANGED <<room, rejected>>
      /\ r \notin used /\ used' = used \cup {r}
  BY DEF Inductive, PostCallRequest, Arrive
<1>2. q.step = "create" /\ q.rm.id = r
  BY DEF Idle
<1> HIDE DEF q
<1>3. worker'[w] = q /\ \A v \in Workers \ {w} : worker'[v] = worker[v]
  BY <1>1 DEF TypeOK
<1>4. RejectedInv'
  BY <1>1 DEF Refusals, RejectedInv, Readable
<1>5. CreatorInv'
  BY <1>1, <1>2, <1>3 DEF Refusals, RejectedInv, CreatorInv, At
<1>6. RefuserInv' /\ SameTargets'
  BY <1>1, <1>2, <1>3 DEF Refusals, RefuserInv, SameTargets, At, Readable
<1> QED BY <1>4, <1>5, <1>6 DEF Refusals

LEMMA CreateRoomKeepsRefusals ==
    ASSUME Inductive, Refusals, NEW w \in Workers, CreateRoom(w)
    PROVE  Refusals'
<1> DEFINE rm == worker[w].rm
           offline == rm.hash.targets \ worker[w].others
<1>1. /\ TypeOK /\ worker[w] \in Request /\ WellFormed(worker[w]) /\ CreateInv
  BY DEF Inductive, TypeOK, RequestInv
<1>2. /\ worker[w].step = "create"
      /\ worker' = [worker EXCEPT ![w].step = "ring"] /\ used' = used
      /\ room' = [room EXCEPT ![rm.id] = rm.hash]
      /\ rejected' = [rejected EXCEPT ![rm.id] = @ \cup offline]
  BY DEF CreateRoom, Continue, At
<1>3. /\ \A v \in Workers \ {w} : worker'[v] = worker[v]
      /\ worker'[w].step = "ring"
  BY <1>1, <1>2, Continued
<1>4. /\ rm.id \in Rooms /\ rm.id \in used /\ rejected[rm.id] = {}
      /\ \A v \in Workers \ {w} : worker[v].rm.id # rm.id
  BY <1>1, <1>2 DEF WellFormed, CreateInv, Refusals, CreatorInv, At
<1>5. /\ room'[rm.id] = rm.hash /\ rejected'[rm.id] \subseteq rm.hash.targets
      /\ \A r \in Rooms \ {rm.id} : room'[r] = room[r] /\ rejected'[r] = rejected[r]
  BY <1>1, <1>2, <1>4 DEF TypeOK
<1>6. \A v \in Workers : worker[v].step \in {"create", "reject"} => worker[v].rm.id \in Rooms
  BY DEF Inductive, RequestInv, WellFormed
<1> HIDE DEF rm, offline
<1>7. RejectedInv'
  BY <1>2, <1>4, <1>5 DEF Refusals, RejectedInv, Readable
<1>8. CreatorInv'
  BY <1>3, <1>4, <1>5, <1>6 DEF Refusals, CreatorInv, At
<1>9. RefuserInv'
  BY <1>3, <1>4, <1>5, <1>6 DEF Refusals, RefuserInv, At, Readable
<1>10. SameTargets'
  BY <1>3 DEF Refusals, SameTargets, At
<1> QED BY <1>7, <1>8, <1>9, <1>10 DEF Refusals

LEMMA PostCallRejectKeepsRefusals ==
    ASSUME Inductive, Refusals, NEW w \in Workers, NEW self \in Devices, NEW r \in Rooms,
           PostCallReject(w, self, r)
    PROVE  Refusals'
<1> DEFINE q == Releasing(self, r, "reject", {room[r].caller}, "asked")
<1>1. /\ TypeOK /\ worker' = [worker EXCEPT ![w] = q] /\ UNCHANGED <<room, rejected, used>>
      /\ Readable(r) /\ self \in room[r].targets
  BY DEF Inductive, PostCallReject, Arrive
<1>2. q.step = "reject" /\ q.self = self /\ q.rm.id = r /\ q.rm.hash = room[r]
  BY DEF Releasing, Read
<1> HIDE DEF q
<1>3. worker'[w] = q /\ \A v \in Workers \ {w} : worker'[v] = worker[v]
  BY <1>1 DEF TypeOK
<1>4. RejectedInv' /\ CreatorInv'
  BY <1>1, <1>2, <1>3 DEF Refusals, RejectedInv, CreatorInv, At, Readable
<1>5. rejected[r] \subseteq room[r].targets
  BY <1>1 DEF Refusals, RejectedInv
<1>6. RefuserInv'
  BY <1>1, <1>2, <1>3, <1>5 DEF Refusals, RefuserInv, At, Readable
<1>7. SameTargets'
  BY <1>1, <1>2, <1>3 DEF Refusals, RefuserInv, SameTargets, At
<1> QED BY <1>4, <1>6, <1>7 DEF Refusals

LEMMA AddRejectedKeepsRefusals ==
    ASSUME Inductive, Refusals, NEW w \in Workers, AddRejected(w)
    PROVE  Refusals'
<1> DEFINE rm == worker[w].rm
           self == worker[w].self
<1>1. /\ TypeOK /\ worker[w] \in Request /\ WellFormed(worker[w]) /\ CreateInv /\ FreshInv
  BY DEF Inductive, TypeOK, RequestInv
<1>2. /\ worker[w].step = "reject"
      /\ Finish(w) \/ worker' = [worker EXCEPT ![w].step = "release"]
      /\ rejected' = [rejected EXCEPT ![rm.id] = rejected[rm.id] \cup {self}]
      /\ UNCHANGED <<room, used>>
  BY DEF AddRejected, ContinueOrFinish, Continue, At
<1>3. /\ \A v \in Workers \ {w} : worker'[v] = worker[v]
      /\ worker'[w].step \in {"idle", "release"}
  BY <1>1, <1>2, Continued, Finished
<1>4. /\ rm.id \in Rooms /\ self \in rm.hash.targets /\ rejected[rm.id] \subseteq rm.hash.targets
      /\ Readable(rm.id) => room[rm.id].targets = rm.hash.targets
  BY <1>1, <1>2 DEF WellFormed, Leaving, Refusals, RefuserInv, At
<1>5. /\ rejected'[rm.id] = rejected[rm.id] \cup {self}
      /\ \A r \in Rooms \ {rm.id} : rejected'[r] = rejected[r]
  BY <1>1, <1>2, <1>4 DEF TypeOK
<1>6. rm.id \in used
  BY <1>1, <1>4 DEF FreshInv
<1>7. \A v \in Workers : worker[v].step \in {"create", "reject"} => worker[v].rm.id \in Rooms
  BY DEF Inductive, RequestInv, WellFormed
<1>8. \A v \in Workers : At(v, "create") => worker[v].rm.id # rm.id
  BY <1>1, <1>2 DEF CreateInv, At
<1>9. \A v \in Workers : At(v, "reject") /\ worker[v].rm.id = rm.id
                           => self \in worker[v].rm.hash.targets
  BY <1>2, <1>4 DEF Refusals, SameTargets, At
<1> HIDE DEF rm, self
<1>10. RejectedInv'
  BY <1>2, <1>4, <1>5, <1>6 DEF Refusals, RejectedInv, Readable
<1>11. CreatorInv'
  BY <1>3, <1>5, <1>7, <1>8 DEF Refusals, CreatorInv, At
<1>12. RefuserInv'
  <2> SUFFICES ASSUME NEW v \in Workers, worker'[v].step = "reject"
               PROVE  /\ worker'[v].self \in worker'[v].rm.hash.targets
                      /\ rejected'[worker'[v].rm.id] \subseteq worker'[v].rm.hash.targets
                      /\ room'[worker'[v].rm.id].caller # NONE
                            => room'[worker'[v].rm.id].targets = worker'[v].rm.hash.targets
    BY DEF RefuserInv, At, Readable
  <2>1. v # w /\ worker'[v] = worker[v] /\ worker[v].rm.id \in Rooms /\ room' = room
    BY <1>2, <1>3, <1>7
  <2> QED BY <1>5, <1>9, <2>1 DEF Refusals, RefuserInv, At, Readable
<1>13. SameTargets'
  BY <1>3 DEF Refusals, SameTargets, At
<1> QED BY <1>10, <1>11, <1>12, <1>13 DEF Refusals

LEMMA ArrivalMoves ==
    ASSUME TypeOK, NEW w \in Workers, Arrival(w)
    PROVE  At(w, "idle") /\ \A v \in Workers \ {w} : worker'[v] = worker[v]
<1>1. ASSUME NEW q, Arrive(w, q)
      PROVE  At(w, "idle") /\ \A v \in Workers \ {w} : worker'[v] = worker[v]
  BY <1>1 DEF Arrive, TypeOK
<1>2. PICK self \in Devices :
        \/ \E r \in Rooms, targets \in SUBSET Devices : \E online \in SUBSET targets :
              PostCallRequest(w, self, targets, online, r)
        \/ \E r \in Rooms : \/ PostDeviceInfo(w, self, r) \/ PostCallCancel(w, self, r)
                            \/ PostCallHangup(w, self, r) \/ PostCallReject(w, self, r)
        \/ GetDeviceRoom(w, self) \/ PostInternalUnbind(w, self)
  BY DEF Arrival
<1>3. CASE \E r \in Rooms, targets \in SUBSET Devices : \E online \in SUBSET targets :
              PostCallRequest(w, self, targets, online, r)
  BY <1>1, <1>3 DEF PostCallRequest
<1>4. CASE \E r \in Rooms : PostDeviceInfo(w, self, r) \/ PostCallCancel(w, self, r)
  BY <1>1, <1>4 DEF PostDeviceInfo, PostCallCancel
<1>5. CASE \E r \in Rooms : PostCallHangup(w, self, r) \/ PostCallReject(w, self, r)
  BY <1>1, <1>5 DEF PostCallHangup, PostCallReject
<1>6. CASE GetDeviceRoom(w, self) \/ PostInternalUnbind(w, self)
  BY <1>1, <1>6 DEF GetDeviceRoom, PostInternalUnbind
<1> QED BY <1>2, <1>3, <1>4, <1>5, <1>6

\* A step belongs to one request; the others stay where they are.
LEMMA OneRequestMoves ==
    ASSUME TypeOK, NEW w \in Workers, Arrival(w) \/ Progress(w)
    PROVE  \A v \in Workers \ {w} : worker'[v] = worker[v]
<1> USE DEF TypeOK, Finish, Continue, ContinueOrFinish
<1>1. CASE Arrival(w)
  BY <1>1, ArrivalMoves
<1>2. CASE \/ CreateRoom(w) \/ PublishCallIncoming(w) \/ ReadLock(w) \/ ReadLockFailed(w)
           \/ ReadOld(w) \/ ClaimAnswer(w)
  BY <1>2 DEF CreateRoom, PublishCallIncoming, ReadLock, ReadLockFailed, ReadOld, ClaimAnswer
<1>3. CASE \/ TakeLock(w) \/ OverwriteLock(w) \/ SetAnsweredBy(w) \/ ReplyToken(w)
           \/ ReleaseRoom(w) \/ PublishRoomCancel(w)
  BY <1>3 DEF TakeLock, OverwriteLock, SetAnsweredBy, ReplyToken, ReleaseRoom, PublishRoomCancel
<1>4. CASE \/ AddRejected(w) \/ QueryRoom(w) \/ DropOrphan(w) \/ FindRoom(w) \/ RequestDies(w)
  BY <1>4 DEF AddRejected, QueryRoom, DropOrphan, FindRoom, RequestDies
<1> QED BY <1>1, <1>2, <1>3, <1>4 DEF Progress

\* The rejected_by set of a room, and what a request that is about to add to it
\* has read of the room, belong together however the requests cross.
THEOREM RefusalsInductive == Spec => []Refusals
<1>1. Init => Refusals
  BY DEF Init, Refusals, RejectedInv, CreatorInv, RefuserInv, SameTargets, Readable, NoHash, Idle, At
<1>2. Inductive /\ Refusals /\ [Next]_vars => Refusals'
  <2> SUFFICES ASSUME Inductive, Refusals, [Next]_vars PROVE Refusals'
    OBVIOUS
  <2>1. CASE UNCHANGED vars
    BY <2>1 DEF vars, Refusals, RejectedInv, CreatorInv, RefuserInv, SameTargets, Readable, At
  <2>2. ASSUME NEW w \in Workers, Arrival(w) PROVE Refusals'
    BY <2>2, PostCallRequestKeepsRefusals, PostCallRejectKeepsRefusals, OtherArrivalsKeepRefusals,
       LockedKeepsRefusals DEF Arrival
  <2>3. ASSUME NEW w \in Workers, Progress(w) PROVE Refusals'
    BY <2>3, CreateRoomKeepsRefusals, AddRejectedKeepsRefusals, WritingKeepsRefusals,
       ReadingKeepsRefusals DEF Progress
  <2> QED BY <2>1, <2>2, <2>3 DEF Next
<1> QED BY <1>1, <1>2, CallRoomsInductive, PTL DEF Spec

\* A call ends as refused only when every target has refused it or was offline:
\* the comparison of two cardinalities in the reject handler is sound although
\* the room may be released, and its rejected_by set deleted and recreated,
\* while a refusal is under way.
THEOREM RefusedMeansByAllAlways == Spec => RefusedMeansByAll
<1> DEFINE Sound == \A w \in Workers : At(w, "reject") /\ worker'[w].step = "release"
                       => worker[w].rm.hash.targets \subseteq rejected'[worker[w].rm.id]
<1>1. Inductive /\ Refusals /\ [Next]_vars => [Sound]_vars
  <2> SUFFICES ASSUME Inductive, Refusals, Next, NEW w \in Workers,
                      At(w, "reject"), worker'[w].step = "release"
               PROVE  worker[w].rm.hash.targets \subseteq rejected'[worker[w].rm.id]
    BY DEF At
  <2> DEFINE rm == worker[w].rm
             self == worker[w].self
             members == rejected[rm.id] \cup {self}
  <2>1. /\ TypeOK /\ worker[w] \in Request /\ WellFormed(worker[w])
    BY DEF Inductive, TypeOK, RequestInv
  <2>2. AddRejected(w)
    <3>1. PICK v \in Workers : Arrival(v) \/ Progress(v)
      BY DEF Next
    <3>2. v = w
      BY <2>1, <3>1, OneRequestMoves DEF At
    <3>3. ~Arrival(w)
      BY <2>1, ArrivalMoves DEF At
    <3>4. ~RequestDies(w)
      BY <2>1 DEF RequestDies, Idle, TypeOK
    <3>5. /\ ~CreateRoom(w) /\ ~PublishCallIncoming(w) /\ ~ReadLock(w) /\ ~ReadLockFailed(w)
          /\ ~ReadOld(w) /\ ~ClaimAnswer(w) /\ ~TakeLock(w) /\ ~OverwriteLock(w)
      BY DEF At, CreateRoom, PublishCallIncoming, ReadLock, ReadLockFailed, ReadOld, ClaimAnswer,
             TakeLock, OverwriteLock
    <3>6. /\ ~SetAnsweredBy(w) /\ ~ReplyToken(w) /\ ~ReleaseRoom(w) /\ ~PublishRoomCancel(w)
          /\ ~QueryRoom(w) /\ ~DropOrphan(w) /\ ~FindRoom(w)
      BY DEF At, SetAnsweredBy, ReplyToken, ReleaseRoom, PublishRoomCancel, QueryRoom, DropOrphan,
             FindRoom
    <3> QED BY <3>1, <3>2, <3>3, <3>4, <3>5, <3>6 DEF Progress
  <2>3. /\ rm.id \in Rooms /\ rm.hash.targets \in SUBSET Devices
        /\ self \in rm.hash.targets /\ rejected[rm.id] \subseteq rm.hash.targets
    BY <2>1 DEF WellFormed, Leaving, Refusals, RefuserInv, At, Request, Snapshot, Hash
  <2>4. AllRejected(members, rm.hash.targets) /\ rejected'[rm.id] = members
    BY <2>1, <2>2, <2>3 DEF AddRejected, ContinueOrFinish, Finish, Idle, TypeOK
  <2>5. members \subseteq rm.hash.targets /\ IsFiniteSet(rm.hash.targets)
    BY <2>3, DevicesAssumption, FS_Subset
  <2>6. members = rm.hash.targets
    BY <2>4, <2>5, FS_Subset, FS_CardinalityType DEF AllRejected
  <2> QED BY <2>4, <2>6
<1> QED BY <1>1, CallRoomsInductive, RefusalsInductive, PTL DEF Spec, RefusedMeansByAll

-----------------------------------------------------------------------------
(* Who is told that a call is over.  A release tells the targets, or the one *)
(* that won the answer; the winner tells the others.  So every device that   *)
(* has the token of a room that is over, or may still get it from a request  *)
(* that was under way, hears of the end, as long as no request dies; but a   *)
(* device whose own unbinding ended the room is sent nothing.                *)

\* A request that will give self the token of rm, unless another was quicker.
Answering(q) ==
    \/ q.step \in {"readLock", "readOld", "dropOrphan", "claim"} \cup Won
    \/ q.step \in {"release", "tell"} /\ q.rm.id # q.old.id

\* It is a target's, of the room as it is and as it was read.
AnswererOK(q) ==
    Answering(q) /\ q.rm.id # NONE =>
        /\ q.self \in q.rm.hash.targets
        /\ \/ q.rm.id \in released
           \/ Readable(q.rm.id) /\ q.rm.hash.targets = room[q.rm.id].targets

\* What a request has read by the time it gets to a step: a device that leaves a
\* room because it is locked to it belongs to it, also when the room comes into
\* being only now.
StepOK(q) ==
    /\ q.step \in {"find", "readOld"} =>
           /\ q.old.id \in used
           /\ Readable(q.old.id) => q.self \in {room[q.old.id].caller, answered[q.old.id]}
           /\ \A v \in Workers : At(v, "create") /\ worker[v].rm.id = q.old.id
                                     => q.self = worker[v].self
    /\ q.step = "readOld" => q.rm.id # q.old.id
    /\ q.step = "reject" => q.rm.id = q.old.id
    /\ q.step = "query" => q.rm.id = NONE
    /\ q.step = "create" => q.rm.hash.answeredBy = NONE

\* Devices that know that room r is over, as it was told them or they ended it, or
\* whose unbinding ended it.  The call server sends such a device nothing.
Out(r) == knows[r] \cup unbound[r]
\* The same after the step.
OutAfter(r) == knows'[r] \cup unbound'[r]
USE DEF Out, OutAfter

\* Whoever releases a room reaches all its targets, or the one that won: sends
\* them room_cancel, or works for the one it does not send it to.
Hears(q, d) == d \in q.others \cup {q.self}
ReleaserOK(q) ==
    q.step = "release" =>
        \/ q.old.id \in released \cup refused
        \/ /\ Readable(q.old.id)
           /\ \/ \A d \in room[q.old.id].targets : Hears(q, d)
              \/ answered[q.old.id] # NONE /\ Hears(q, answered[q.old.id])

RequestsOK == \A w \in Workers : /\ AnswererOK(worker[w]) /\ StepOK(worker[w])
                                 /\ ReleaserOK(worker[w])

\* The device that won has the other targets told, or is about to.
Winning(q, d, r) == q.step \in Won /\ q.rm.id = r /\ q.self = d
WinnerOK(r) ==
    /\ room[r].answeredBy \in {NONE, answered[r]}
    /\ answered[r] # NONE =>
           /\ Readable(r) /\ answered[r] \in room[r].targets
           /\ \/ \E w \in Workers : Winning(worker[w], answered[r], r)
              \/ room[r].targets \subseteq Out(r) \cup {answered[r]}
WinnerInv == \A r \in Rooms \ released : WinnerOK(r)

\* Of a room that is over: who has the token, or may still get it, was told, or
\* is about to be.
MayHave(q, d, r) == Answering(q) /\ q.rm.id = r /\ q.self = d
Reached(d, r) == d \in granted[r] \/ \E w \in Workers : MayHave(worker[w], d, r)
Tells(q, d, r) ==
    \/ q.step \in {"release", "tell"} /\ q.old.id = r /\ Hears(q, d)
    \/ q.step \in Won /\ q.rm.id = r /\ d \in q.rm.hash.targets \ {q.self}
Owed(d, r) == d \in Out(r) \/ \E w \in Workers : Tells(worker[w], d, r)
OwedInv == \A r \in released \ refused : \A d \in Devices : Reached(d, r) => Owed(d, r)

Informed == RequestsOK /\ WinnerInv /\ OwedInv

\* What a step of goroutine w, which goes on with the request q, may do: every
\* step but those that begin, create or release a room.
AnswersOn(w, q) == Answering(q) /\ q.rm.id # NONE =>
    \/ Answering(worker[w]) /\ q.rm = worker[w].rm /\ q.self = worker[w].self
    \/ /\ Readable(q.rm.id) /\ q.rm.hash.targets = room[q.rm.id].targets
       /\ q.self \in room[q.rm.id].targets

WinsOn(w, q) ==
    /\ \A r \in Rooms \ released :
          /\ room'[r].answeredBy \in {NONE, answered'[r]}
          /\ \/ answered'[r] = answered[r]
             \/ answered[r] = NONE /\ Answering(worker[w]) /\ worker[w].rm.id = r
                /\ Winning(q, answered'[r], r) /\ q.self = worker[w].self
    /\ worker[w].step \in Won =>
          \/ q.step \in Won /\ q.rm = worker[w].rm /\ q.self = worker[w].self
          \/ worker[w].rm.hash.targets \ {worker[w].self} \subseteq OutAfter(worker[w].rm.id)

TellsOn(w, q) ==
    worker[w].step \in {"release", "tell"} =>
        \/ /\ q.step \in {"release", "tell"} /\ q.old.id = worker[w].old.id
           /\ q.others = worker[w].others /\ q.self = worker[w].self
        \/ \A d \in Devices : Hears(worker[w], d) => d \in OutAfter(worker[w].old.id)

LeavesOn(w, q) ==
    /\ q.step \in {"find", "readOld"} =>
          q.self \in Devices /\ q.old.id = lock[q.self] /\ q.old.id # NONE
    /\ q.step = "readOld" => q.rm.id # q.old.id
    /\ q.step = "reject" => q.rm.id = q.old.id
    /\ q.step = "query" => q.rm.id = NONE
    /\ q.step \in {"find", "readOld", "release"} => UNCHANGED <<room, answered>>
    /\ q.step = "release" =>
          \/ q.old.id \in released \cup refused'
          \/ /\ Readable(q.old.id)
             /\ \/ \A d \in room[q.old.id].targets : Hears(q, d)
                \/ answered[q.old.id] # NONE /\ Hears(q, answered[q.old.id])

GoesOn(w, q) ==
    /\ worker'[w] = q /\ q.step # "create" /\ \A v \in Workers \ {w} : worker'[v] = worker[v]
    /\ used' = used /\ released' = released /\ refused \subseteq refused'
    /\ \A r \in Rooms :
          /\ room'[r].caller = room[r].caller /\ room'[r].targets = room[r].targets
          /\ Out(r) \subseteq OutAfter(r)
          /\ \A d \in granted'[r] : d \in granted[r] \/ MayHave(worker[w], d, r)
    /\ AnswersOn(w, q) /\ WinsOn(w, q) /\ TellsOn(w, q) /\ LeavesOn(w, q)

\* The rooms a request is about are rooms.
LEMMA AboutRooms ==
    ASSUME Inductive, NEW w \in Workers
    PROVE  /\ TypeOK /\ worker[w] \in Request
           /\ worker[w].step # "idle" => worker[w].self \in Devices
           /\ worker[w].rm.id \in Rooms \cup {NONE}
           /\ worker[w].step \in Won \cup {"create", "claim", "reject", "readOld"}
                 => worker[w].rm.id \in Rooms
           /\ worker[w].step \in {"find", "readOld", "release", "tell", "reject"}
                 => worker[w].old.id \in Rooms
BY DEF Inductive, TypeOK, RequestInv, WellFormed, Won, Leaving, NoSnapshot, Snapshot, Request

LEMMA RequestsOKKept ==
    ASSUME Inductive, Informed, NEW w \in Workers, NEW q, GoesOn(w, q),
           Inductive'
    PROVE  RequestsOK'
<1> USE DevicesAssumption, CallRoomsAssumption
<1>1. /\ \A v \in Workers \ {w} : worker'[v] = worker[v]
      /\ worker'[w] = q /\ q.step # "create"
      /\ used' = used /\ released' = released /\ refused \subseteq refused'
      /\ \A r \in Rooms : room'[r].caller = room[r].caller /\ room'[r].targets = room[r].targets
  BY DEF GoesOn
<1>2. \A r \in Rooms : Readable(r)' <=> Readable(r)
  BY <1>1 DEF Readable
<1>t. /\ q.rm.id \in Rooms \cup {NONE}
      /\ q.step \in {"find", "readOld"} => q.old.id \in Rooms
  BY <1>1 DEF Inductive, TypeOK, RequestInv, WellFormed, Snapshot, NoSnapshot, Request
<1>3. \A r \in Rooms : Readable(r) /\ answered[r] # NONE => answered'[r] = answered[r]
  <2>1. \A r \in Rooms : Readable(r) => r \notin released
    BY DEF Inductive, ReleasedIsGone
  <2> QED BY <2>1 DEF GoesOn, WinsOn
<1>4. ASSUME NEW v \in Workers, v # w
      PROVE  AnswererOK(worker[v])' /\ StepOK(worker[v])' /\ ReleaserOK(worker[v])'
  <2> DEFINE p == worker[v]
  <2>1. /\ worker'[v] = p
        /\ p.rm.id \in Rooms \cup {NONE}
        /\ p.step \in {"find", "readOld", "release", "tell", "reject"} => p.old.id \in Rooms
        /\ p.step # "idle" => p.self \in Devices
    BY <1>1, <1>4, AboutRooms
  <2>2. AnswererOK(p) /\ StepOK(p) /\ ReleaserOK(p)
    BY DEF Informed, RequestsOK
  <2> HIDE DEF p
  <2>3. AnswererOK(worker[v])'
    BY <1>1, <1>2, <2>1, <2>2 DEF AnswererOK
  <2>4. StepOK(worker[v])'
    <3>1. ASSUME p.step \in {"find", "readOld"}, Readable(p.old.id)
          PROVE  p.self \in {room'[p.old.id].caller, answered'[p.old.id]}
      BY <1>1, <1>3, <2>1, <2>2, <3>1 DEF StepOK
    <3>2. ASSUME p.step \in {"find", "readOld"}, NEW u \in Workers, worker'[u].step = "create",
                 worker'[u].rm.id = p.old.id
          PROVE  p.self = worker'[u].self
      BY <1>1, <2>2, <3>2 DEF StepOK, At
    <3> QED BY <1>1, <1>2, <2>1, <2>2, <3>1, <3>2 DEF StepOK, At
  <2>5. ReleaserOK(worker[v])'
    BY <1>1, <1>2, <1>3, <2>1, <2>2 DEF ReleaserOK, Hears
  <2> QED BY <2>3, <2>4, <2>5
<1>5. AnswererOK(worker[w])'
  <2>1. CASE Answering(worker[w]) /\ q.rm = worker[w].rm /\ q.self = worker[w].self
    <3>1. AnswererOK(worker[w]) /\ worker[w].rm.id \in Rooms \cup {NONE}
      BY AboutRooms DEF Informed, RequestsOK
    <3> QED BY <1>1, <1>2, <2>1, <3>1 DEF AnswererOK
  <2>2. CASE ~(Answering(worker[w]) /\ q.rm = worker[w].rm /\ q.self = worker[w].self)
    <3>1. Answering(q) /\ q.rm.id # NONE =>
             /\ Readable(q.rm.id) /\ q.rm.hash.targets = room[q.rm.id].targets
             /\ q.self \in room[q.rm.id].targets
      BY <2>2 DEF GoesOn, AnswersOn
    <3> QED BY <1>1, <1>2, <1>t, <3>1 DEF AnswererOK
  <2> QED BY <2>1, <2>2
<1>6. StepOK(worker[w])'
  <2>1. q.step = "readOld" => q.rm.id # q.old.id
    BY DEF GoesOn, LeavesOn
  <2>2. (q.step = "reject" => q.rm.id = q.old.id) /\ (q.step = "query" => q.rm.id = NONE)
    BY DEF GoesOn, LeavesOn
  <2>3. ASSUME q.step \in {"find", "readOld"}
        PROVE  /\ q.old.id \in used
               /\ Readable(q.old.id) => q.self \in {room[q.old.id].caller, answered[q.old.id]}
               /\ \A v \in Workers : At(v, "create") /\ worker[v].rm.id = q.old.id
                                         => q.self = worker[v].self
    <3>1. q.self \in Devices /\ lock[q.self] = q.old.id /\ q.old.id # NONE /\ q.old.id \in Rooms
      BY <2>3, <1>t DEF GoesOn, LeavesOn
    <3>2. LockHolderBelongs /\ FreshInv /\ CreateInv
      BY DEF Inductive
    <3> QED BY <3>1, <3>2 DEF LockHolderBelongs, FreshInv, CreateInv
  <2>4. q.step \in {"find", "readOld"} => UNCHANGED <<room, answered>>
    BY DEF GoesOn, LeavesOn
  <2>5. \A v \in Workers : worker'[v].step = "create" => worker'[v] = worker[v]
    BY <1>1
  <2> QED BY <1>1, <2>1, <2>2, <2>3, <2>4, <2>5 DEF StepOK, At, Readable
<1>7. ReleaserOK(worker[w])'
  <2>1. q.step = "release" => UNCHANGED <<room, answered>>
    BY DEF GoesOn, LeavesOn
  <2> QED BY <1>1, <2>1 DEF GoesOn, LeavesOn, ReleaserOK, Hears, Readable
<1> QED BY <1>4, <1>5, <1>6, <1>7 DEF RequestsOK

LEMMA WinnerKept ==
    ASSUME Inductive, Informed, NEW w \in Workers, NEW q, GoesOn(w, q)
    PROVE  WinnerInv'
<1> USE DevicesAssumption, CallRoomsAssumption
<1>1. /\ \A v \in Workers \ {w} : worker'[v] = worker[v]
      /\ worker'[w] = q
      /\ released' = released
      /\ \A r \in Rooms : /\ room'[r].caller = room[r].caller
                          /\ room'[r].targets = room[r].targets
                          /\ Out(r) \subseteq OutAfter(r)
  BY DEF GoesOn
<1> SUFFICES ASSUME NEW r \in Rooms, r \notin released
             PROVE  WinnerOK(r)'
  BY <1>1 DEF WinnerInv
<1>2. WinnerOK(r)
  BY DEF Informed, WinnerInv
<1>3. room'[r].answeredBy \in {NONE, answered'[r]}
  BY DEF GoesOn, WinsOn
<1>4. CASE answered'[r] = answered[r]
  <2> SUFFICES ASSUME answered[r] # NONE, NEW v \in Workers, Winning(worker[v], answered[r], r),
                      ~(room[r].targets \subseteq OutAfter(r) \cup {answered[r]})
               PROVE  \E u \in Workers : Winning(worker'[u], answered[r], r)
    BY <1>1, <1>2, <1>3, <1>4 DEF WinnerOK, Readable
  <2>1. CASE v # w
    BY <1>1, <2>1
  <2>2. CASE v = w
    <3>1. AnswererOK(worker[w])
      BY DEF Informed, RequestsOK
    <3>2. worker[w].rm.hash.targets = room[r].targets
      BY <2>2, <3>1, CallRoomsAssumption DEF Winning, AnswererOK, Answering
    <3>3. \/ q.step \in Won /\ q.rm = worker[w].rm /\ q.self = worker[w].self
          \/ room[r].targets \ {answered[r]} \subseteq OutAfter(r)
      BY <2>2, <3>2 DEF GoesOn, WinsOn, Winning
    <3> QED BY <1>1, <2>2, <3>3 DEF Winning
  <2> QED BY <2>1, <2>2
<1>5. CASE answered'[r] # answered[r]
  <2>1. /\ Answering(worker[w]) /\ worker[w].rm.id = r
        /\ Winning(q, answered'[r], r) /\ q.self = worker[w].self
    BY <1>5 DEF GoesOn, WinsOn
  <2>2. Readable(r) /\ answered'[r] \in room[r].targets
    BY <2>1, CallRoomsAssumption DEF Informed, RequestsOK, AnswererOK, Winning
  <2> QED BY <1>1, <1>3, <2>1, <2>2 DEF WinnerOK, Readable
<1> QED BY <1>4, <1>5

LEMMA OwedKept ==
    ASSUME Inductive, Informed, NEW w \in Workers, NEW q, GoesOn(w, q)
    PROVE  OwedInv'
<1> USE DevicesAssumption, CallRoomsAssumption
<1>1. /\ \A v \in Workers \ {w} : worker'[v] = worker[v]
      /\ worker'[w] = q
      /\ released' = released /\ refused \subseteq refused'
      /\ \A r \in Rooms : /\ Out(r) \subseteq OutAfter(r)
                          /\ \A d \in granted'[r] : d \in granted[r] \/ MayHave(worker[w], d, r)
  BY DEF GoesOn
<1> SUFFICES ASSUME NEW r \in released \ refused, NEW d \in Devices, Reached(d, r)'
             PROVE  Owed(d, r)'
  BY <1>1 DEF OwedInv
<1>2. r \in Rooms /\ ~Readable(r)
  BY DEF Inductive, TypeOK, ReleasedIsGone
<1>3. Reached(d, r)
  <2>1. ASSUME MayHave(q, d, r) PROVE MayHave(worker[w], d, r)
    BY <1>2, <2>1, CallRoomsAssumption DEF GoesOn, AnswersOn, MayHave
  <2> QED BY <1>1, <1>2, <2>1 DEF Reached
<1>4. Owed(d, r)
  BY <1>3 DEF Informed, OwedInv
<1>5. ASSUME NEW v \in Workers, Tells(worker[v], d, r)
      PROVE  Owed(d, r)'
  <2>1. CASE v # w
    BY <1>1, <1>5, <2>1 DEF Owed
  <2>2. CASE v = w /\ worker[w].step \in {"release", "tell"}
    <3>1. worker[w].old.id = r /\ Hears(worker[w], d)
      BY <1>5, <2>2 DEF Tells, Won
    <3>2. \/ Tells(q, d, r)
          \/ d \in OutAfter(r)
      BY <2>2, <3>1 DEF GoesOn, TellsOn, Tells, Hears
    <3> QED BY <1>1, <3>2 DEF Owed
  <2>3. CASE v = w /\ worker[w].step \notin {"release", "tell"}
    <3>1. worker[w].step \in Won /\ worker[w].rm.id = r
          /\ d \in worker[w].rm.hash.targets \ {worker[w].self}
      BY <1>5, <2>3 DEF Tells
    <3>2. \/ Tells(q, d, r)
          \/ d \in OutAfter(r)
      BY <3>1 DEF GoesOn, WinsOn, Tells
    <3> QED BY <1>1, <3>2 DEF Owed
  <2> QED BY <2>1, <2>2, <2>3
<1> QED BY <1>1, <1>2, <1>4, <1>5 DEF Owed

LEMMA GoesOnKeeps ==
    ASSUME Inductive, Informed, NEW w \in Workers, NEW q, GoesOn(w, q), Inductive'
    PROVE  Informed'
BY RequestsOKKept, WinnerKept, OwedKept DEF Informed

\* A step that only reads.
LEMMA ReadsOn ==
    ASSUME Inductive, Informed, Inductive', NEW w \in Workers, NEW q,
           worker'[w] = q, \A v \in Workers \ {w} : worker'[v] = worker[v],
           q.step # "create",
           UNCHANGED <<room, answered, granted, knows, unbound, used, released, refused>>,
           worker[w].step \in Won =>
              q.step \in Won /\ q.rm = worker[w].rm /\ q.self = worker[w].self,
           AnswersOn(w, q), TellsOn(w, q), LeavesOn(w, q)
    PROVE  Informed'
<1>1. \A r \in Rooms \ released : room[r].answeredBy \in {NONE, answered[r]}
  BY DEF Informed, WinnerInv, WinnerOK
<1>2. WinsOn(w, q)
  BY <1>1 DEF WinsOn
<1>3. GoesOn(w, q)
  BY <1>2 DEF GoesOn
<1> QED
  BY <1>3, GoesOnKeeps

\* A request that ends has nothing left to tell.
LEMMA EndsOn ==
    ASSUME Inductive, Informed, Inductive', NEW w \in Workers, Finish(w),
           UNCHANGED <<room, answered, granted, knows, unbound, used, released, refused>>,
           worker[w].step \notin Won \cup {"release", "tell"}
    PROVE  Informed'
<1>1. worker'[w] = Idle /\ \A v \in Workers \ {w} : worker'[v] = worker[v]
  BY DEF Finish, Inductive, TypeOK
<1>2. Idle.step = "idle"
  BY DEF Idle
<1>3. AnswersOn(w, Idle) /\ TellsOn(w, Idle) /\ LeavesOn(w, Idle)
  BY <1>2 DEF AnswersOn, TellsOn, LeavesOn, Answering, Won
<1> QED
  BY <1>1, <1>2, <1>3, ReadsOn

LEMMA ArrivesOn ==
    ASSUME Inductive, Informed, Inductive', NEW w \in Workers, NEW q, Arrive(w, q),
           q.step # "create",
           UNCHANGED <<room, answered, granted, knows, unbound, used, released, refused>>,
           AnswersOn(w, q), LeavesOn(w, q)
    PROVE  Informed'
<1>1. worker'[w] = q /\ (\A v \in Workers \ {w} : worker'[v] = worker[v]) /\ At(w, "idle")
  BY DEF Arrive, Inductive, TypeOK
<1>2. TellsOn(w, q) /\ worker[w].step \notin Won
  BY <1>1 DEF TellsOn, At, Won
<1> QED
  BY <1>1, <1>2, ReadsOn

\* Who is told by one that belongs to the room it leaves.
LEMMA Leaver ==
    ASSUME Inductive, Informed, NEW r \in Rooms, Readable(r), NEW self \in Devices,
           self \in {room[r].caller, answered[r]}, NEW others,
           others \in {PeersOfLeaver(self, room[r]), PeersOfUnbound(self, room[r])}
    PROVE  \/ \A d \in room[r].targets : d \in others \cup {self}
           \/ answered[r] # NONE /\ answered[r] \in others \cup {self}
<1>1. r \notin released
  BY DEF Inductive, ReleasedIsGone
<1>2. room[r].answeredBy \in {NONE, answered[r]}
  BY <1>1 DEF Informed, WinnerInv, WinnerOK
<1>3. self # NONE
  BY DevicesAssumption
<1>4. CASE others = PeersOfLeaver(self, room[r])
  BY <1>2, <1>3, <1>4 DEF PeersOfLeaver
<1>5. CASE others = PeersOfUnbound(self, room[r])
  BY <1>2, <1>3, <1>5 DEF PeersOfUnbound
<1> QED BY <1>4, <1>5

LEMMA PublishCallIncomingInforms ==
    ASSUME Inductive, Informed, Inductive', NEW w \in Workers, PublishCallIncoming(w)
    PROVE  Informed'
<1>1. /\ Finish(w) /\ worker[w].step = "ring"
      /\ UNCHANGED <<room, answered, granted, knows, unbound, used, released, refused>>
  BY DEF PublishCallIncoming, At, over
<1> QED BY <1>1, EndsOn DEF Won

LEMMA ReadLockInforms ==
    ASSUME Inductive, Informed, Inductive', NEW w \in Workers, ReadLock(w)
    PROVE  Informed'
<1> DEFINE q == worker'[w]
<1>1. TypeOK /\ worker[w] \in Request /\ worker[w].self \in Devices /\ worker[w].step = "readLock"
  BY AboutRooms DEF ReadLock, At
<1>2. UNCHANGED <<room, answered, granted, knows, unbound, used, released, refused>>
  BY DEF ReadLock, over
<1>3. /\ \A v \in Workers \ {w} : worker'[v] = worker[v]
      /\ q.rm = worker[w].rm /\ q.self = worker[w].self /\ q.step \in {"claim", "readOld"}
      /\ q.step = "readOld" => /\ q.old.id = lock[q.self] /\ q.old.id # NONE
                               /\ q.old.id # q.rm.id
  BY <1>1 DEF ReadLock, Continue, TypeOK, Request, NoSnapshot
<1> HIDE DEF q
<1>4. AnswersOn(w, q) /\ TellsOn(w, q) /\ LeavesOn(w, q)
  BY <1>1, <1>2, <1>3 DEF AnswersOn, TellsOn, LeavesOn, Answering
<1> QED BY <1>1, <1>2, <1>3, <1>4, ReadsOn DEF Won, q

LEMMA ReadOldInforms ==
    ASSUME Inductive, Informed, Inductive', NEW w \in Workers, ReadOld(w)
    PROVE  Informed'
<1> DEFINE q == worker'[w]
           old == worker[w].old.id
<1>1. /\ TypeOK /\ worker[w] \in Request /\ worker[w].self \in Devices
      /\ worker[w].step = "readOld" /\ old \in Rooms
  BY AboutRooms DEF ReadOld, At
<1>2. UNCHANGED <<room, answered, granted, knows, unbound, used, released, refused>>
  BY DEF ReadOld, over
<1>3. CASE Readable(old)
  <2>1. /\ \A v \in Workers \ {w} : worker'[v] = worker[v]
        /\ q.rm = worker[w].rm /\ q.self = worker[w].self /\ q.step = "release"
        /\ q.old.id = old /\ q.others = PeersOfLeaver(q.self, room[old])
    BY <1>1, <1>3 DEF ReadOld, TypeOK, Request, Read
  <2>2. StepOK(worker[w])
    BY DEF Informed, RequestsOK
  <2>3. \/ \A d \in room[old].targets : d \in q.others \cup {q.self}
        \/ answered[old] # NONE /\ answered[old] \in q.others \cup {q.self}
    BY <1>1, <1>3, <2>1, <2>2, Leaver DEF StepOK
  <2> HIDE DEF q
  <2>4. AnswersOn(w, q) /\ TellsOn(w, q) /\ LeavesOn(w, q)
    BY <1>1, <1>2, <1>3, <2>1, <2>3 DEF AnswersOn, TellsOn, LeavesOn, Answering, Hears
  <2> QED BY <1>1, <1>2, <2>1, <2>4, ReadsOn DEF Won, q
<1>4. CASE ~Readable(old) /\ worker' = [worker EXCEPT ![w].step = "dropOrphan"]
  <2>1. /\ \A v \in Workers \ {w} : worker'[v] = worker[v]
        /\ q.rm = worker[w].rm /\ q.self = worker[w].self /\ q.step = "dropOrphan"
    BY <1>1, <1>4, Continued
  <2> HIDE DEF q
  <2>2. AnswersOn(w, q) /\ TellsOn(w, q) /\ LeavesOn(w, q)
    BY <1>1, <2>1 DEF AnswersOn, TellsOn, LeavesOn, Answering
  <2> QED BY <1>1, <1>2, <2>1, <2>2, ReadsOn DEF Won, q
<1>5. CASE Finish(w)
  BY <1>1, <1>2, <1>5, EndsOn DEF Won
<1> QED BY <1>3, <1>4, <1>5 DEF ReadOld, ContinueOrFinish, Continue

LEMMA ClaimAnswerInforms ==
    ASSUME Inductive, Informed, Inductive', NEW w \in Workers, ClaimAnswer(w)
    PROVE  Informed'
<1> DEFINE q == worker'[w]
           r == worker[w].rm.id
<1>1. TypeOK /\ worker[w] \in Request /\ r \in Rooms /\ worker[w].step = "claim"
  BY AboutRooms DEF ClaimAnswer, At
<1>2. UNCHANGED <<room, granted, knows, unbound, used, released, refused>>
  BY DEF ClaimAnswer, over
<1>3. CASE answered[r] = NONE
  <2>1. /\ \A v \in Workers \ {w} : worker'[v] = worker[v]
        /\ q.rm = worker[w].rm /\ q.self = worker[w].self /\ q.step = "takeLock"
        /\ answered'[r] = q.self /\ \A x \in Rooms \ {r} : answered'[x] = answered[x]
    BY <1>1, <1>3, Continued DEF ClaimAnswer, Continue, TypeOK
  <2>2. \A x \in Rooms \ released : room[x].answeredBy \in {NONE, answered[x]}
    BY DEF Informed, WinnerInv, WinnerOK
  <2> HIDE DEF q
  <2>3. WinsOn(w, q)
    BY <1>1, <1>2, <1>3, <2>1, <2>2 DEF WinsOn, Winning, Answering, Won
  <2>4. AnswersOn(w, q) /\ TellsOn(w, q) /\ LeavesOn(w, q)
    BY <1>1, <1>2, <2>1 DEF AnswersOn, TellsOn, LeavesOn, Answering
  <2>5. GoesOn(w, q)
    BY <1>1, <1>2, <2>1, <2>3, <2>4 DEF GoesOn, q
  <2> QED BY <2>5, GoesOnKeeps
<1>4. CASE answered[r] # NONE
  <2>1. Finish(w) /\ UNCHANGED answered
    BY <1>4 DEF ClaimAnswer
  <2> QED BY <1>1, <1>2, <2>1, EndsOn DEF Won
<1> QED BY <1>3, <1>4

LEMMA LockingInforms ==
    ASSUME Inductive, Informed, Inductive', NEW w \in Workers, TakeLock(w) \/ OverwriteLock(w)
    PROVE  Informed'
<1> DEFINE q == worker'[w]
<1>1. /\ TypeOK /\ worker[w].step \in {"takeLock", "overwrite"}
      /\ \E s \in {"record", "overwrite"} : worker' = [worker EXCEPT ![w].step = s]
      /\ UNCHANGED <<room, answered, granted, knows, unbound, used, released, refused>>
  BY DEF TakeLock, OverwriteLock, Continue, At, over, Inductive
<1>2. /\ \A v \in Workers \ {w} : worker'[v] = worker[v]
      /\ q.rm = worker[w].rm /\ q.self = worker[w].self /\ q.step \in {"record", "overwrite"}
  BY <1>1, Continued
<1> HIDE DEF q
<1>3. AnswersOn(w, q) /\ TellsOn(w, q) /\ LeavesOn(w, q)
  BY <1>1, <1>2 DEF AnswersOn, TellsOn, LeavesOn, Answering, Won
<1> QED BY <1>1, <1>2, <1>3, ReadsOn DEF Won, q

LEMMA SetAnsweredByInforms ==
    ASSUME Inductive, Informed, Inductive', NEW w \in Workers, SetAnsweredBy(w)
    PROVE  Informed'
<1> DEFINE q == worker'[w]
           r == worker[w].rm.id
<1>1. TypeOK /\ worker[w] \in Request /\ r \in Rooms /\ worker[w].step = "record"
  BY AboutRooms DEF SetAnsweredBy, At, Won
<1>2. UNCHANGED <<answered, granted, knows, unbound, used, released, refused>>
  BY DEF SetAnsweredBy, over
<1>3. /\ \A v \in Workers \ {w} : worker'[v] = worker[v]
      /\ q.rm = worker[w].rm /\ q.self = worker[w].self /\ q.step = "reply"
  BY <1>1, Continued DEF SetAnsweredBy, Continue
<1>4. /\ room'[r].answeredBy = worker[w].self
      /\ \A x \in Rooms : room'[x].caller = room[x].caller /\ room'[x].targets = room[x].targets
      /\ \A x \in Rooms \ {r} : room'[x] = room[x]
  BY <1>1 DEF SetAnsweredBy, TypeOK, Hash
<1>5. r \notin released => answered[r] = worker[w].self
  BY <1>1 DEF Inductive, AnswerIsExclusive, Won
<1>6. \A x \in Rooms \ released : room[x].answeredBy \in {NONE, answered[x]}
  BY DEF Informed, WinnerInv, WinnerOK
<1> HIDE DEF q
<1>7. WinsOn(w, q)
  BY <1>1, <1>2, <1>3, <1>4, <1>5, <1>6 DEF WinsOn, Won
<1>8. AnswersOn(w, q) /\ TellsOn(w, q) /\ LeavesOn(w, q)
  BY <1>1, <1>2, <1>3 DEF AnswersOn, TellsOn, LeavesOn, Answering, Won
<1>9. GoesOn(w, q)
  BY <1>1, <1>2, <1>3, <1>4, <1>7, <1>8 DEF GoesOn, q
<1> QED BY <1>9, GoesOnKeeps

LEMMA ReplyTokenInforms ==
    ASSUME Inductive, Informed, Inductive', NEW w \in Workers, ReplyToken(w)
    PROVE  Informed'
<1> DEFINE r == worker[w].rm.id
           self == worker[w].self
<1>1. TypeOK /\ worker[w] \in Request /\ r \in Rooms /\ worker[w].step = "reply"
  BY AboutRooms DEF ReplyToken, At, Won
<1>2. UNCHANGED <<room, answered, used, released, refused>>
  BY DEF ReplyToken, over, redis
<1>3. worker'[w] = Idle /\ (\A v \in Workers \ {w} : worker'[v] = worker[v]) /\ Idle.step = "idle"
  BY <1>1 DEF ReplyToken, Finish, TypeOK, Idle
<1>4. /\ \A x \in Rooms : Out(x) \subseteq OutAfter(x)
      /\ worker[w].rm.hash.targets \ {self} \subseteq OutAfter(r)
      /\ \A x \in Rooms : \A d \in granted'[x] : d \in granted[x] \/ MayHave(worker[w], d, x)
  BY <1>1 DEF ReplyToken, TypeOK, MayHave, Answering, Won
<1>5. \A x \in Rooms \ released : room[x].answeredBy \in {NONE, answered[x]}
  BY DEF Informed, WinnerInv, WinnerOK
<1>6. WinsOn(w, Idle)
  BY <1>1, <1>2, <1>4, <1>5 DEF WinsOn
<1>7. AnswersOn(w, Idle) /\ TellsOn(w, Idle) /\ LeavesOn(w, Idle)
  BY <1>1, <1>3 DEF AnswersOn, TellsOn, LeavesOn, Answering, Won
<1>8. GoesOn(w, Idle)
  BY <1>2, <1>3, <1>4, <1>6, <1>7 DEF GoesOn
<1> QED BY <1>8, GoesOnKeeps

LEMMA PublishRoomCancelInforms ==
    ASSUME Inductive, Informed, Inductive', NEW w \in Workers, PublishRoomCancel(w)
    PROVE  Informed'
<1> DEFINE q == worker'[w]
           old == worker[w].old.id
<1>1. TypeOK /\ worker[w] \in Request /\ old \in Rooms /\ worker[w].step = "tell"
  BY AboutRooms DEF PublishRoomCancel, At
<1>2. UNCHANGED <<room, answered, granted, used, released, refused>>
  BY DEF PublishRoomCancel, over, redis
<1>3. /\ \A x \in Rooms : Out(x) \subseteq OutAfter(x)
      /\ \A d \in Devices : Hears(worker[w], d) => d \in OutAfter(old)
  BY <1>1 DEF PublishRoomCancel, TypeOK, Hears, Request
<1>4. /\ \A v \in Workers \ {w} : worker'[v] = worker[v]
      /\ \/ q.step = "idle"
         \/ /\ q.step = "claim" /\ q.rm = worker[w].rm /\ q.self = worker[w].self
            /\ worker[w].rm.id # old
  BY <1>1, Continued, Finished DEF PublishRoomCancel, ContinueOrFinish, Continue
<1>5. \A x \in Rooms \ released : room[x].answeredBy \in {NONE, answered[x]}
  BY DEF Informed, WinnerInv, WinnerOK
<1> HIDE DEF q
<1>6. WinsOn(w, q)
  BY <1>1, <1>2, <1>5 DEF WinsOn, Won
<1>7. AnswersOn(w, q) /\ TellsOn(w, q) /\ LeavesOn(w, q)
  BY <1>1, <1>3, <1>4 DEF AnswersOn, TellsOn, LeavesOn, Answering, Won
<1>8. GoesOn(w, q)
  BY <1>1, <1>2, <1>3, <1>4, <1>6, <1>7 DEF GoesOn, q
<1> QED BY <1>8, GoesOnKeeps

LEMMA AddRejectedInforms ==
    ASSUME Inductive, Informed, Inductive', NEW w \in Workers, AddRejected(w)
    PROVE  Informed'
<1> DEFINE q == worker'[w]
           r == worker[w].rm.id
<1>1. /\ TypeOK /\ worker[w] \in Request /\ r \in Rooms /\ worker[w].step = "reject"
      /\ worker[w].old.id = r
  BY AboutRooms DEF AddRejected, At, Informed, RequestsOK, StepOK
<1>2. UNCHANGED <<room, answered, granted, knows, unbound, used, released>>
  BY DEF AddRejected, over, told
<1>3. /\ \A v \in Workers \ {w} : worker'[v] = worker[v]
      /\ refused \subseteq refused'
      /\ \/ q.step = "idle"
         \/ /\ q.step = "release" /\ q.rm = worker[w].rm /\ q.old = worker[w].old
            /\ r \in refused'
  BY <1>1, Continued, Finished DEF AddRejected, ContinueOrFinish, Continue
<1>5. \A x \in Rooms \ released : room[x].answeredBy \in {NONE, answered[x]}
  BY DEF Informed, WinnerInv, WinnerOK
<1> HIDE DEF q
<1>6. WinsOn(w, q)
  BY <1>1, <1>2, <1>5 DEF WinsOn, Won
<1>7. AnswersOn(w, q) /\ TellsOn(w, q) /\ LeavesOn(w, q)
  BY <1>1, <1>2, <1>3 DEF AnswersOn, TellsOn, LeavesOn, Answering, Won
<1>8. GoesOn(w, q)
  BY <1>1, <1>2, <1>3, <1>6, <1>7 DEF GoesOn, q
<1> QED BY <1>8, GoesOnKeeps

LEMMA QueryInforms ==
    ASSUME Inductive, Informed, Inductive', NEW w \in Workers, QueryRoom(w) \/ DropOrphan(w)
    PROVE  Informed'
<1> DEFINE q == worker'[w]
<1>1. /\ TypeOK /\ worker[w].step \in {"query", "dropOrphan"}
      /\ UNCHANGED <<room, answered, granted, knows, unbound, used, released, refused>>
  BY DEF Inductive, QueryRoom, DropOrphan, At, over, told, redis
<1>2. CASE Finish(w)
  BY <1>1, <1>2, EndsOn DEF Won
<1>3. CASE \/ worker[w].step = "query" /\ worker' = [worker EXCEPT ![w].step = "dropOrphan"]
           \/ worker[w].step = "dropOrphan" /\ worker' = [worker EXCEPT ![w].step = "claim"]
  <2>1. /\ \A v \in Workers \ {w} : worker'[v] = worker[v]
        /\ q.rm = worker[w].rm /\ q.self = worker[w].self /\ q.step \in {"dropOrphan", "claim"}
    BY <1>1, <1>3, Continued
  <2>2. worker[w].step = "query" => worker[w].rm.id = NONE
    BY DEF Informed, RequestsOK, StepOK
  <2> HIDE DEF q
  <2>3. AnswersOn(w, q) /\ TellsOn(w, q) /\ LeavesOn(w, q)
    BY <1>1, <2>1, <2>2 DEF AnswersOn, TellsOn, LeavesOn, Answering
  <2> QED BY <1>1, <2>1, <2>3, ReadsOn DEF Won, q
<1> QED BY <1>2, <1>3 DEF QueryRoom, DropOrphan, ContinueOrFinish, Continue, At

LEMMA FindRoomInforms ==
    ASSUME Inductive, Informed, Inductive', NEW w \in Workers, FindRoom(w)
    PROVE  Informed'
<1> DEFINE q == worker'[w]
           r == worker[w].old.id
<1>1. /\ TypeOK /\ worker[w] \in Request /\ worker[w].self \in Devices
      /\ worker[w].step = "find" /\ r \in Rooms
  BY AboutRooms DEF FindRoom, At
<1>2. UNCHANGED <<room, answered, granted, knows, unbound, used, released, refused>>
  BY DEF FindRoom, over, told, redis
<1>3. CASE Readable(r)
  <2>1. /\ \A v \in Workers \ {w} : worker'[v] = worker[v]
        /\ q.self = worker[w].self /\ q.step = "release" /\ q.rm.id = r
        /\ q.old.id = r /\ q.others = PeersOfUnbound(q.self, room[r])
    BY <1>1, <1>3 DEF FindRoom, TypeOK, Read, Releasing
  <2>2. StepOK(worker[w])
    BY DEF Informed, RequestsOK
  <2>3. \/ \A d \in room[r].targets : d \in q.others \cup {q.self}
        \/ answered[r] # NONE /\ answered[r] \in q.others \cup {q.self}
    BY <1>1, <1>3, <2>1, <2>2, Leaver DEF StepOK
  <2> HIDE DEF q
  <2>4. AnswersOn(w, q) /\ TellsOn(w, q) /\ LeavesOn(w, q)
    BY <1>1, <1>2, <1>3, <2>1, <2>3 DEF AnswersOn, TellsOn, LeavesOn, Answering, Hears, Won
  <2> QED BY <1>1, <1>2, <2>1, <2>4, ReadsOn DEF Won, q
<1>4. CASE ~Readable(r)
  BY <1>1, <1>2, <1>4, EndsOn DEF Won, FindRoom
<1> QED BY <1>3, <1>4

\* The requests that arrive, but the one that begins a call.
LEMMA ArrivalsInform ==
    ASSUME Inductive, Informed, Inductive', NEW w \in Workers, NEW self \in Devices,
           \/ \E r \in Rooms : \/ PostDeviceInfo(w, self, r) \/ PostCallCancel(w, self, r)
                               \/ PostCallHangup(w, self, r) \/ PostCallReject(w, self, r)
           \/ GetDeviceRoom(w, self) \/ PostInternalUnbind(w, self)
    PROVE  Informed'
<1>1. ASSUME NEW r \in Rooms, PostDeviceInfo(w, self, r) PROVE Informed'
  <2> DEFINE q == [Idle EXCEPT !.step = "readLock", !.self = self, !.rm = Read(r)]
  <2>1. /\ Arrive(w, q) /\ Readable(r) /\ self \in room[r].targets
        /\ UNCHANGED <<room, answered, granted, knows, unbound, used, released, refused>>
    BY <1>1 DEF PostDeviceInfo, over, told, redis
  <2>2. q.step = "readLock" /\ q.self = self /\ q.rm.id = r /\ q.rm.hash = room[r]
    BY DEF Idle, Read
  <2> HIDE DEF q
  <2>3. AnswersOn(w, q) /\ LeavesOn(w, q)
    BY <2>1, <2>2 DEF AnswersOn, LeavesOn
  <2> QED BY <2>1, <2>2, <2>3, ArrivesOn
<1>2. ASSUME NEW r \in Rooms, PostCallReject(w, self, r) PROVE Informed'
  <2> DEFINE q == Releasing(self, r, "reject", {room[r].caller}, "asked")
  <2>1. /\ Arrive(w, q)
        /\ UNCHANGED <<room, answered, granted, knows, unbound, used, released, refused>>
    BY <1>2 DEF PostCallReject, over, told, redis
  <2>2. q.step = "reject" /\ q.rm.id = r /\ q.old.id = r
    BY DEF Releasing, Read
  <2> HIDE DEF q
  <2>3. AnswersOn(w, q) /\ LeavesOn(w, q)
    BY <2>2 DEF AnswersOn, LeavesOn, Answering, Won
  <2> QED BY <2>1, <2>2, <2>3, ArrivesOn
<1>3. ASSUME NEW r \in Rooms, NEW others, Readable(r),
             Arrive(w, Releasing(self, r, "release", others, "asked")),
             UNCHANGED <<room, answered, granted, knows, unbound, used, released, refused>>,
             \/ \A d \in room[r].targets : d \in others \cup {self}
             \/ answered[r] # NONE /\ answered[r] \in others \cup {self}
      PROVE  Informed'
  <2> DEFINE q == Releasing(self, r, "release", others, "asked")
  <2>2. /\ q.step = "release" /\ q.rm.id = r /\ q.old.id = r
        /\ q.others = others /\ q.self = self
    BY DEF Releasing, Read
  <2>3. Arrive(w, q)
    BY <1>3
  <2> HIDE DEF q
  <2>4. AnswersOn(w, q) /\ LeavesOn(w, q)
    BY <1>3, <2>2 DEF AnswersOn, LeavesOn, Answering, Won, Hears
  <2> QED BY <1>3, <2>2, <2>3, <2>4, ArrivesOn
<1>4. ASSUME NEW r \in Rooms, PostCallCancel(w, self, r) PROVE Informed'
  BY <1>3, <1>4 DEF PostCallCancel, over, told, redis
<1>5. ASSUME NEW r \in Rooms, PostCallHangup(w, self, r) PROVE Informed'
  <2>1. /\ Readable(r) /\ self \in {room[r].caller, room[r].answeredBy}
        /\ Arrive(w, Releasing(self, r, "release", PeersOfHangup(self, room[r]), "asked"))
        /\ UNCHANGED <<room, answered, granted, knows, unbound, used, released, refused>>
    BY <1>5 DEF PostCallHangup, over, told, redis
  <2>2. room[r].answeredBy \in {NONE, answered[r]}
    BY <2>1 DEF Informed, WinnerInv, WinnerOK, Inductive, ReleasedIsGone
  <2>3. \/ \A d \in room[r].targets : d \in PeersOfHangup(self, room[r]) \cup {self}
        \/ answered[r] # NONE /\ answered[r] \in PeersOfHangup(self, room[r]) \cup {self}
    BY <2>1, <2>2, DevicesAssumption DEF PeersOfHangup
  <2> QED BY <1>3, <2>1, <2>3
<1>6. ASSUME NEW step \in {"query", "find"}, lock[self] # NONE, Arrive(w, Locked(self, step)),
             UNCHANGED <<room, answered, granted, knows, unbound, used, released, refused>>
      PROVE  Informed'
  <2> DEFINE q == Locked(self, step)
  <2>1. /\ q.step = step /\ q.self = self /\ q.old.id = lock[self] /\ q.rm.id = NONE
    BY DEF Locked, Idle, NoSnapshot
  <2>2. Arrive(w, q)
    BY <1>6
  <2> HIDE DEF q
  <2>3. AnswersOn(w, q) /\ LeavesOn(w, q)
    BY <1>6, <2>1 DEF AnswersOn, LeavesOn
  <2> QED BY <1>6, <2>1, <2>2, <2>3, ArrivesOn
<1>7. CASE GetDeviceRoom(w, self) \/ PostInternalUnbind(w, self)
  BY <1>6, <1>7 DEF GetDeviceRoom, PostInternalUnbind, over, told, redis
<1> QED BY <1>1, <1>2, <1>4, <1>5, <1>7

LEMMA ReleaseRoomInforms ==
    ASSUME Inductive, Informed, Inductive', NEW w \in Workers, ReleaseRoom(w)
    PROVE  Informed'
<1> DEFINE p == worker[w]
           q == worker'[w]
           r == worker[w].old.id
<1> USE DevicesAssumption, CallRoomsAssumption
<1>1. /\ TypeOK /\ p \in Request /\ r \in Rooms /\ p.step = "release" /\ p.self \in Devices
  BY AboutRooms DEF ReleaseRoom, At
<1>2. /\ UNCHANGED <<granted, knows, unbound, used, refused>> /\ released' = released \cup {r}
      /\ room'[r] = NoHash /\ answered'[r] = NONE
      /\ \A x \in Rooms \ {r} : room'[x] = room[x] /\ answered'[x] = answered[x]
  BY <1>1 DEF ReleaseRoom, DeleteRoom, told, TypeOK
<1>3. /\ \A v \in Workers \ {w} : worker'[v] = worker[v]
      /\ q.step = "tell" /\ q.self = p.self /\ q.rm = p.rm /\ q.old = p.old
      /\ q.others = p.others
  BY <1>1 DEF ReleaseRoom, Continue, TypeOK, Request
<1>4. \A v \in Workers : AnswererOK(worker[v]) /\ StepOK(worker[v]) /\ ReleaserOK(worker[v])
  BY DEF Informed, RequestsOK
<1>5. \A x \in Rooms \ released : WinnerOK(x)
  BY DEF Informed, WinnerInv
<1>n. room'[r].caller = NONE
  BY <1>2 DEF NoHash
<1> HIDE DEF q, p, r
<1>6. ASSUME NEW v \in Workers
      PROVE  AnswererOK(worker[v])'
  <2>1. Answering(worker'[v]) => Answering(worker[v])
    BY <1>1, <1>3 DEF Answering, Won, p, q
  <2>2. worker'[v].rm = worker[v].rm /\ worker'[v].self = worker[v].self
    BY <1>3 DEF p, q
  <2>3. worker[v].rm.id \in Rooms \cup {NONE}
    BY AboutRooms
  <2> QED BY <1>2, <1>4, <2>1, <2>2, <2>3 DEF AnswererOK, Readable
<1>7. ASSUME NEW v \in Workers
      PROVE  StepOK(worker[v])'
  <2>1. CASE v = w
    BY <1>3, <2>1 DEF StepOK, q
  <2>2. CASE v # w
    <3>1. worker'[v] = worker[v]
      BY <1>3, <2>2
    <3>2. worker[v].step \in {"find", "readOld"} => worker[v].old.id \in Rooms
      BY AboutRooms
    <3>3. \A u \in Workers : worker'[u].step = "create" => worker'[u] = worker[u]
      BY <1>3 DEF q
    <3>4. room'[worker[v].old.id].caller # NONE /\ worker[v].old.id \in Rooms =>
             /\ Readable(worker[v].old.id)
             /\ room'[worker[v].old.id] = room[worker[v].old.id]
             /\ answered'[worker[v].old.id] = answered[worker[v].old.id]
      BY <1>2, <1>n, <3>1 DEF Readable
    <3> QED BY <1>2, <1>4, <3>1, <3>2, <3>3, <3>4 DEF StepOK, At, Readable
  <2> QED BY <2>1, <2>2
<1>8. ASSUME NEW v \in Workers
      PROVE  ReleaserOK(worker[v])'
  <2>1. CASE v = w
    BY <1>3, <2>1 DEF ReleaserOK, q
  <2>2. CASE v # w
    <3>1. worker'[v] = worker[v] /\ (worker[v].step = "release" => worker[v].old.id \in Rooms)
      BY <1>3, <2>2, AboutRooms
    <3> QED BY <1>2, <1>4, <3>1 DEF ReleaserOK, Hears, Readable
  <2> QED BY <2>1, <2>2
<1>9. WinnerInv'
  <2> SUFFICES ASSUME NEW x \in Rooms, x \notin released, x # r PROVE WinnerOK(x)'
    BY <1>2 DEF WinnerInv
  <2>1. \A v \in Workers : Winning(worker[v], answered[x], x) => Winning(worker'[v], answered[x], x)
    BY <1>1, <1>3 DEF Winning, Won, p
  <2> QED BY <1>2, <1>5, <2>1 DEF WinnerOK, Readable
<1>10. OwedInv'
  <2> SUFFICES ASSUME NEW x \in released' \ refused, NEW d \in Devices, Reached(d, x)'
               PROVE  Owed(d, x)'
    BY <1>2 DEF OwedInv
  <2>1. Reached(d, x)
    BY <1>1, <1>2, <1>3 DEF Reached, MayHave, Answering, Won, p, q
  <2>2. Owed(d, x) => Owed(d, x)'
    <3>1. \A v \in Workers : Tells(worker[v], d, x) => Tells(worker'[v], d, x)
      BY <1>1, <1>3 DEF Tells, Hears, Won, p, q
    <3> QED BY <1>2, <3>1 DEF Owed
  <2>3. CASE x \in released
    BY <2>1, <2>2, <2>3 DEF Informed, OwedInv
  <2>4. CASE x \notin released
    <3>1. x = r /\ WinnerOK(r)
      BY <1>1, <1>2, <1>5, <2>4 DEF r
    <3>2. d \in room[r].targets
      <4>1. CASE d \in granted[r]
        BY <1>1, <2>4, <3>1, <4>1 DEF Inductive, AnswerIsExclusive, WinnerOK
      <4>2. CASE \E v \in Workers : MayHave(worker[v], d, r)
        BY <1>1, <1>4, <2>4, <3>1, <4>2 DEF AnswererOK, MayHave
      <4> QED BY <2>1, <3>1, <4>1, <4>2 DEF Reached
    <3>3. CASE Hears(p, d)
      BY <1>1, <2>2, <3>1, <3>3 DEF Owed, Tells, p, r
    <3>4. CASE ~Hears(p, d)
      <4>1. ReleaserOK(p)
        BY <1>4 DEF p
      <4>2. answered[r] # NONE /\ Hears(p, answered[r]) /\ d # answered[r]
        BY <1>1, <2>4, <3>1, <3>2, <3>4, <4>1 DEF ReleaserOK, r, p
      <4>3. CASE room[r].targets \subseteq Out(r) \cup {answered[r]}
        BY <2>2, <3>1, <3>2, <4>2, <4>3 DEF Owed
      <4>4. CASE \E v \in Workers : Winning(worker[v], answered[r], r)
        <5>1. PICK v \in Workers : Winning(worker[v], answered[r], r)
          BY <4>4
        <5>2. AnswererOK(worker[v])
          BY <1>4
        <5>3. worker[v].rm.hash.targets = room[r].targets
          BY <1>1, <2>4, <3>1, <5>1, <5>2 DEF AnswererOK, Winning, Answering
        <5> QED BY <2>2, <3>1, <3>2, <4>2, <5>1, <5>3 DEF Owed, Tells, Winning
      <4> QED BY <3>1, <4>2, <4>3, <4>4 DEF WinnerOK
    <3> QED BY <3>3, <3>4
  <2> QED BY <2>3, <2>4
<1> QED BY <1>6, <1>7, <1>8, <1>9, <1>10 DEF Informed, RequestsOK

LEMMA CreateRoomInforms ==
    ASSUME Inductive, Informed, Inductive', NEW w \in Workers, CreateRoom(w)
    PROVE  Informed'
<1> DEFINE p == worker[w]
           r == worker[w].rm.id
<1> USE DevicesAssumption, CallRoomsAssumption
<1>1. /\ TypeOK /\ p \in Request /\ r \in Rooms /\ p.step = "create" /\ p.self \in Devices
  BY AboutRooms DEF CreateRoom, At
<1>2. /\ UNCHANGED <<answered, granted, knows, unbound, used, released, refused>>
      /\ room'[r] = p.rm.hash /\ \A x \in Rooms \ {r} : room'[x] = room[x]
  BY <1>1 DEF CreateRoom, told, over, TypeOK
<1>3. /\ \A v \in Workers \ {w} : worker'[v] = worker[v]
      /\ worker'[w].step = "ring"
  BY <1>1, Continued DEF CreateRoom, Continue
<1>4. \A v \in Workers : AnswererOK(worker[v]) /\ StepOK(worker[v]) /\ ReleaserOK(worker[v])
  BY DEF Informed, RequestsOK
<1>5. \A x \in Rooms \ released : WinnerOK(x)
  BY DEF Informed, WinnerInv
<1>6. /\ ~Readable(r) /\ r \notin released /\ p.rm.hash.caller = p.self
      /\ \A v \in Workers : worker[v].step \in Leaving => worker[v].old.id # r
      /\ \A v \in Workers \ {w} : worker[v].rm.id # r
  BY <1>1 DEF Inductive, CreateInv, Unread, At
<1>7. answered[r] = NONE /\ p.rm.hash.answeredBy = NONE
  BY <1>1, <1>4, <1>5, <1>6 DEF WinnerOK, StepOK
<1> HIDE DEF p, r
<1>8. ASSUME NEW v \in Workers
      PROVE  AnswererOK(worker[v])' /\ StepOK(worker[v])' /\ ReleaserOK(worker[v])'
  <2>1. CASE v = w
    BY <1>3, <2>1 DEF AnswererOK, StepOK, ReleaserOK, Answering, Won
  <2>2. CASE v # w
    <3>1. /\ worker'[v] = worker[v] /\ worker[v].rm.id \in (Rooms \cup {NONE}) \ {r}
          /\ worker[v].step \in {"find", "readOld", "release"} => worker[v].old.id \in Rooms
      BY <1>3, <1>6, <2>2, AboutRooms
    <3>2. AnswererOK(worker[v])'
      BY <1>2, <1>4, <3>1 DEF AnswererOK, Readable
    <3>3. StepOK(worker[v])'
      <4>1. ASSUME worker[v].step \in {"find", "readOld"}, room'[worker[v].old.id].caller # NONE
            PROVE  worker[v].self \in {room'[worker[v].old.id].caller, answered[worker[v].old.id]}
        <5>1. CASE worker[v].old.id = r
          BY <1>1, <1>2, <1>4, <1>6, <4>1, <5>1 DEF StepOK, At, p, r
        <5>2. CASE worker[v].old.id # r
          BY <1>2, <1>4, <3>1, <4>1, <5>2 DEF StepOK, Readable
        <5> QED BY <5>1, <5>2
      <4>2. \A u \in Workers : worker'[u].step = "create" => worker'[u] = worker[u]
        BY <1>3
      <4> QED BY <1>2, <1>4, <3>1, <4>1, <4>2 DEF StepOK, At, Readable
    <3>4. ReleaserOK(worker[v])'
      BY <1>2, <1>4, <1>6, <3>1 DEF ReleaserOK, Hears, Readable, Leaving
    <3> QED BY <3>2, <3>3, <3>4
  <2> QED BY <2>1, <2>2
<1>9. WinnerInv'
  <2> SUFFICES ASSUME NEW x \in Rooms, x \notin released PROVE WinnerOK(x)'
    BY <1>2 DEF WinnerInv
  <2>1. CASE x = r
    BY <1>2, <1>7, <2>1 DEF WinnerOK
  <2>2. CASE x # r
    <3>1. \A v \in Workers : Winning(worker[v], answered[x], x) => Winning(worker'[v], answered[x], x)
      BY <1>1, <1>3 DEF Winning, Won, p
    <3> QED BY <1>2, <1>5, <2>2, <3>1 DEF WinnerOK, Readable
  <2> QED BY <2>1, <2>2
<1>10. OwedInv'
  <2>1. ASSUME NEW v \in Workers, NEW d \in Devices, NEW x
        PROVE  /\ MayHave(worker'[v], d, x) => MayHave(worker[v], d, x)
               /\ Tells(worker[v], d, x) => Tells(worker'[v], d, x)
    BY <1>1, <1>3 DEF MayHave, Answering, Tells, Won, p
  <2> QED BY <1>2, <2>1 DEF Informed, OwedInv, Reached, Owed
<1> QED BY <1>8, <1>9, <1>10 DEF Informed, RequestsOK

LEMMA PostCallRequestInforms ==
    ASSUME Inductive, Informed, Inductive', NEW w \in Workers, NEW self \in Devices,
           NEW r \in Rooms, NEW targets \in SUBSET Devices, NEW online,
           PostCallRequest(w, self, targets, online, r)
    PROVE  Informed'
<1> DEFINE q == [Idle EXCEPT
          !.step = "create", !.self = self, !.others = online,
          !.rm = [id |-> r, hash |-> [NoHash EXCEPT !.caller = self,
                                                    !.targets = targets]]]
<1>1. /\ r \notin used /\ used' = used \cup {r} /\ Arrive(w, q)
      /\ UNCHANGED <<room, answered, granted, knows, unbound, released, refused>>
  BY DEF PostCallRequest, told, over
<1>2. q.step = "create" /\ q.rm.id = r /\ q.rm.hash.answeredBy = NONE
  BY DEF Idle, NoHash
<1> HIDE DEF q
<1>3. /\ worker'[w] = q /\ \A v \in Workers \ {w} : worker'[v] = worker[v]
      /\ worker[w].step = "idle"
  BY <1>1 DEF Arrive, At, Inductive, TypeOK
<1>4. \A v \in Workers : AnswererOK(worker[v]) /\ StepOK(worker[v]) /\ ReleaserOK(worker[v])
  BY DEF Informed, RequestsOK
<1>5. ASSUME NEW v \in Workers
      PROVE  AnswererOK(worker[v])' /\ StepOK(worker[v])' /\ ReleaserOK(worker[v])'
  <2>1. CASE v = w
    BY <1>2, <1>3, <2>1 DEF AnswererOK, StepOK, ReleaserOK, Answering, Won
  <2>2. CASE v # w
    <3>1. worker'[v] = worker[v]
      BY <1>3, <2>2
    <3>2. AnswererOK(worker[v])' /\ ReleaserOK(worker[v])'
      BY <1>1, <1>4, <3>1 DEF AnswererOK, ReleaserOK, Hears, Readable
    <3>3. StepOK(worker[v])'
      <4>1. \A u \in Workers : worker'[u].step = "create" =>
               worker'[u] = worker[u] \/ worker'[u].rm.id = r
        BY <1>2, <1>3
      <4> QED BY <1>1, <1>4, <3>1, <4>1 DEF StepOK, At, Readable
    <3> QED BY <3>2, <3>3
  <2> QED BY <2>1, <2>2
<1>6. ASSUME NEW v \in Workers, NEW d, NEW x
      PROVE  /\ MayHave(worker'[v], d, x) => MayHave(worker[v], d, x)
             /\ Tells(worker[v], d, x) => Tells(worker'[v], d, x)
             /\ Winning(worker[v], d, x) => Winning(worker'[v], d, x)
  BY <1>2, <1>3 DEF MayHave, Answering, Tells, Winning, Won
<1>7. WinnerInv'
  BY <1>1, <1>6 DEF Informed, WinnerInv, WinnerOK, Readable
<1>8. OwedInv'
  BY <1>1, <1>6 DEF Informed, OwedInv, Reached, Owed
<1> QED BY <1>5, <1>7, <1>8 DEF Informed, RequestsOK

LEMMA InitInformed == Init => Informed
<1> SUFFICES ASSUME Init PROVE Informed
  OBVIOUS
<1>1. \A w \in Workers : worker[w] = Idle
  BY DEF Init
<1>2. Idle.step = "idle"
  BY DEF Idle
<1>3. RequestsOK
  BY <1>1, <1>2 DEF RequestsOK, AnswererOK, StepOK, ReleaserOK, Answering, Won
<1>4. WinnerInv
  BY DEF Init, WinnerInv, WinnerOK, NoHash
<1>5. OwedInv
  BY DEF Init, OwedInv
<1> QED BY <1>3, <1>4, <1>5 DEF Informed

LEMMA NextInformed ==
    ASSUME Inductive, [Next]_vars, deaths = 0 => Informed, deaths' = 0
    PROVE  Informed'
<1>1. Inductive'
  BY NextInductive
<1>2. CASE UNCHANGED vars
  BY <1>2 DEF vars, over, Informed, RequestsOK, AnswererOK, StepOK, ReleaserOK, Readable, At,
              WinnerInv, WinnerOK, OwedInv, Reached, Owed
<1>3. deaths \in Nat
  BY MaxDeathsAssumption DEF Inductive, TypeOK
<1>4. ASSUME NEW w \in Workers, Arrival(w) PROVE Informed'
  <2>1. PICK self \in Devices :
           \/ \E r \in Rooms, targets \in SUBSET Devices : \E online \in SUBSET targets :
                 PostCallRequest(w, self, targets, online, r)
           \/ \E r \in Rooms : \/ PostDeviceInfo(w, self, r) \/ PostCallCancel(w, self, r)
                               \/ PostCallHangup(w, self, r) \/ PostCallReject(w, self, r)
           \/ GetDeviceRoom(w, self) \/ PostInternalUnbind(w, self)
    BY <1>4 DEF Arrival
  <2>2. UNCHANGED deaths
    BY <2>1 DEF PostCallRequest, PostDeviceInfo, PostCallCancel, PostCallHangup, PostCallReject,
                GetDeviceRoom, PostInternalUnbind, Arrive
  <2> QED BY <1>1, <2>1, <2>2, PostCallRequestInforms, ArrivalsInform
<1>5. ASSUME NEW w \in Workers, Progress(w) PROVE Informed'
  <2>1. ~ReadLockFailed(w) /\ ~RequestDies(w)
    BY <1>3 DEF ReadLockFailed, RequestDies
  <2>2. deaths = 0
    BY <1>5, <2>1 DEF Progress, CreateRoom, PublishCallIncoming, ReadLock, ReadOld, ClaimAnswer,
       TakeLock, OverwriteLock, SetAnsweredBy, ReplyToken, ReleaseRoom, PublishRoomCancel,
       AddRejected, QueryRoom, DropOrphan, FindRoom, Continue, Finish, ContinueOrFinish
  <2> QED BY <1>1, <1>5, <2>1, <2>2, CreateRoomInforms, PublishCallIncomingInforms, ReadLockInforms,
     ReadOldInforms, ClaimAnswerInforms, LockingInforms, SetAnsweredByInforms, ReplyTokenInforms,
     ReleaseRoomInforms, PublishRoomCancelInforms, AddRejectedInforms, QueryInforms,
     FindRoomInforms DEF Progress
<1> QED BY <1>2, <1>4, <1>5 DEF Next

\* As long as no request dies, whoever has the token of a call that is over, or
\* may still get it, has been told, has ended the call itself or is the device
\* whose unbinding ended it, or a request under way is about to make it so: the
\* release reaches all or the winner, and the winner tells the others.
THEOREM EndsAreTold == Spec => [](deaths = 0 => Informed)
<1>1. Init => (deaths = 0 => Informed)
  BY InitInformed
<1>2. Inductive /\ (deaths = 0 => Informed) /\ [Next]_vars => (deaths = 0 => Informed)'
  BY NextInformed
<1> QED BY <1>1, <1>2, CallRoomsInductive, PTL DEF Spec

\* However requests cross, when all are through nobody is left with the token of
\* a call that is over but devices that were told, that ended it themselves or
\* that were unbound, for any number of devices, calls and goroutines.  (To a
\* device that was unbound the call server sends nothing.)
THEOREM NobodyLeftBehindAlways == Spec => []NobodyLeftBehind
<1>1. Inductive /\ (deaths = 0 => Informed) => NobodyLeftBehind
  <2> SUFFICES ASSUME Inductive, Informed, Quiet, NEW r \in released \ refused,
                      NEW d \in granted[r]
               PROVE  d \in knows[r] \cup unbound[r]
    BY DEF NobodyLeftBehind
  <2>1. d \in Devices
    BY DEF Inductive, TypeOK
  <2>2. Owed(d, r)
    BY <2>1 DEF Informed, OwedInv, Reached
  <2> QED BY <2>2 DEF Owed, Tells, Quiet, At, Won
<1> QED BY <1>1, EndsAreTold, CallRoomsInductive, PTL


-----------------------------------------------------------------------------
(* The contacts.  An answer is a transaction that holds the bindings of    *)
(* both devices and their row from its reading to its UPDATE: while it is  *)
(* under way the row stays pending, no other answer is about either        *)
(* device, and what it has counted cannot grow.                            *)

LEMMA DevicesHold == Limit!DevicesAssumption
BY PartsAssumption

AskRec == [op : Limit!Ops, pc : Limit!Pcs, self : Devs \cup {0},
           peer : Devs \cup {0}, user : Users \cup {Nobody}, accept : BOOLEAN,
           held : BOOLEAN]

\* From its arrival to its notices a request is about two devices.
Sided(q) == q.pc \notin {"free", "peers", "wipe", "publish"} =>
                q.self \in Devs /\ q.peer \in Devs /\ q.self # q.peer

ContactTypes ==
    /\ rows \in [Limit!Pairs -> Limit!Row \cup {Limit!NoRow}]
    /\ req \in [Reqs -> AskRec] /\ \A r \in Reqs : Sided(req[r])

Between(q) == {q.self, q.peer}
ByRequest(table, d) ==
    {p \in Limit!Pairs : /\ d \in p /\ table[p].status = "accepted"
                             /\ table[p].source = "manual"}

AnswerInv ==
    \A r \in Reqs : req[r].pc = "commit" =>
        /\ rows[Between(req[r])].status = "pending"
        /\ req[r].accept =>
              \A d \in Between(req[r]) :
                  Cardinality(ByRequest(rows, d)) < MaxContactsPerDevice
        /\ \A s \in Reqs \ {r} : req[s].pc = "commit" =>
              Between(req[r]) \cap Between(req[s]) = {}

LimitInv == \A d \in Devs : Cardinality(ByRequest(rows, d)) <= MaxContactsPerDevice

ContactInv == ContactTypes /\ AnswerInv /\ LimitInv

\* The cardinality CallContacts speaks of is the one of the library's theorems.
LEMMA SameCardinality ==
    ASSUME NEW S
    PROVE  /\ Limit!IsFiniteSet(S) = IsFiniteSet(S)
           /\ Limit!Cardinality(S) = Cardinality(S)
BY DEF Limit!IsFiniteSet, IsFiniteSet, Limit!Cardinality, Cardinality

\* The pairs are finitely many, and a pair has two devices.
LEMMA FinitePairs ==
    ASSUME NEW S \in SUBSET Limit!Pairs PROVE IsFiniteSet(S) /\ Cardinality(S) \in Nat
<1>1. IsFiniteSet(Devs)
  BY DevicesHold, SameCardinality DEF Limit!DevicesAssumption
<1>2. IsFiniteSet(SUBSET Devs)
  BY <1>1, FS_SUBSET
<1>3. S \in SUBSET (SUBSET Devs)
  BY DEF Limit!Pairs, Limit!kSubset
<1>4. IsFiniteSet(S)
  BY <1>2, <1>3, FS_Subset
<1> QED
  BY <1>4, FS_CardinalityType

LEMMA TwoSides ==
    ASSUME NEW p \in Limit!Pairs
    PROVE  \E a, b \in Devs : a # b /\ p = {a, b}
<1>1. IsFiniteSet(Devs)
  BY DevicesHold, SameCardinality DEF Limit!DevicesAssumption
<1>2. p \in SUBSET Devs /\ Cardinality(p) = 2
  BY SameCardinality DEF Limit!Pairs, Limit!kSubset
<1>3. IsFiniteSet(p)
  BY <1>1, <1>2, FS_Subset
<1>4. p # {}
  BY <1>2, FS_EmptySet
<1>5. PICK a \in p : TRUE
  BY <1>4
<1>6. IsFiniteSet(p \ {a}) /\ Cardinality(p \ {a}) = 1
  BY <1>2, <1>3, <1>5, FS_RemoveElement
<1>7. PICK b : p \ {a} = {b}
  BY <1>6, FS_Singleton
<1> QED
  BY <1>2, <1>5, <1>7

LEMMA PairOfTwo ==
    ASSUME NEW a \in Devs, NEW b \in Devs, a # b PROVE {a, b} \in Limit!Pairs
<1>1. IsFiniteSet({a}) /\ Cardinality({a}) = 1
  BY FS_Singleton
<1>2. Cardinality({a} \cup {b}) = 2
  BY <1>1, FS_AddElement
<1>3. {a} \cup {b} = {a, b} /\ {a, b} \in SUBSET Devs
  OBVIOUS
<1> QED
  BY <1>2, <1>3, SameCardinality DEF Limit!Pairs, Limit!kSubset

\* Of two devices, ordered as their ids are, there is a first and a last.
LEMMA FirstAndLast ==
    ASSUME NEW a \in Devs, NEW b \in Devs, NEW S \in SUBSET {a, b}, S # {}
    PROVE  /\ Limit!Min(S) \in S /\ Limit!Max(S) \in S
           /\ S = {a, b} /\ a # b => Limit!Min(S) # Limit!Max(S)
<1>1. a \in Nat /\ b \in Nat
  BY DevicesHold DEF Limit!DevicesAssumption
<1>2. S = {a} \/ S = {b} \/ S = {a, b}
  OBVIOUS
<1>3. /\ \E x \in S : \A y \in S : x =< y
      /\ \E x \in S : \A y \in S : x >= y
  <2>1. CASE a <= b
    BY <1>1, <1>2, <2>1
  <2>2. CASE b <= a
    BY <1>1, <1>2, <2>2
  <2> QED
    BY <1>1, <2>1, <2>2
<1>4. Limit!Min(S) \in S /\ \A y \in S : Limit!Min(S) =< y
  BY <1>3 DEF Limit!Min
<1>5. Limit!Max(S) \in S /\ \A y \in S : Limit!Max(S) >= y
  BY <1>3 DEF Limit!Max
<1> QED
  BY <1>1, <1>4, <1>5

LEMMA ContactInitInv == Limit!Init => ContactInv
<1> SUFFICES ASSUME Limit!Init PROVE ContactInv
  OBVIOUS
<1>1. /\ rows = [p \in Limit!Pairs |-> Limit!NoRow]
      /\ req = [r \in Reqs |-> Limit!NoRequest]
  BY DEF Limit!Init
<1>2. Limit!NoRequest \in AskRec /\ Limit!NoRequest.pc = "free"
  BY DEF Limit!NoRequest, AskRec, Limit!Ops, Limit!Pcs
<1>3. ContactTypes /\ AnswerInv
  BY <1>1, <1>2 DEF ContactTypes, AnswerInv, Sided
<1>4. ASSUME NEW d \in Devs PROVE ByRequest(rows, d) = {}
  BY <1>1 DEF ByRequest, Limit!NoRow
<1>5. LimitInv
  BY <1>4, FS_EmptySet, DevicesHold DEF LimitInv, Limit!DevicesAssumption
<1> QED
  BY <1>3, <1>5 DEF ContactInv

\* Contacts by request only get fewer, and the answers under way go on.
LEMMA FewerKeep ==
    ASSUME ContactInv, ContactTypes',
           \A s \in Reqs : req'[s].pc = "commit" =>
               /\ req[s].pc = "commit" /\ req'[s].accept = req[s].accept
               /\ req'[s].self = req[s].self /\ req'[s].peer = req[s].peer
               /\ rows'[Between(req[s])] = rows[Between(req[s])],
           \A d \in Devs : ByRequest(rows', d) \subseteq ByRequest(rows, d)
    PROVE  ContactInv'
<1>1. ASSUME NEW d \in Devs
      PROVE  /\ Cardinality(ByRequest(rows', d)) <= Cardinality(ByRequest(rows, d))
             /\ Cardinality(ByRequest(rows', d)) \in Nat
             /\ Cardinality(ByRequest(rows, d)) \in Nat
  <2>1. /\ ByRequest(rows, d) \in SUBSET Limit!Pairs
        /\ ByRequest(rows', d) \in SUBSET Limit!Pairs
    BY DEF ByRequest
  <2> QED
    BY <2>1, FinitePairs, FS_Subset
<1>2. MaxContactsPerDevice \in Nat
  BY DevicesHold DEF Limit!DevicesAssumption
<1>3. LimitInv'
  BY <1>1, <1>2 DEF ContactInv, LimitInv
<1>4. ASSUME NEW s \in Reqs, req'[s].pc = "commit"
      PROVE  Between(req'[s]) = Between(req[s]) /\ Between(req[s]) \subseteq Devs
  BY <1>4 DEF Between, ContactInv, ContactTypes, Sided
<1>5. AnswerInv'
  <2> SUFFICES ASSUME NEW r \in Reqs, req'[r].pc = "commit"
               PROVE  /\ rows'[Between(req'[r])].status = "pending"
                      /\ req'[r].accept =>
                            \A d \in Between(req'[r]) :
                                Cardinality(ByRequest(rows', d)) < MaxContactsPerDevice
                      /\ \A s \in Reqs \ {r} : req'[s].pc = "commit" =>
                            Between(req'[r]) \cap Between(req'[s]) = {}
    BY DEF AnswerInv
  <2>1. /\ rows[Between(req[r])].status = "pending"
        /\ req[r].accept =>
              \A d \in Between(req[r]) :
                  Cardinality(ByRequest(rows, d)) < MaxContactsPerDevice
        /\ \A s \in Reqs \ {r} : req[s].pc = "commit" =>
              Between(req[r]) \cap Between(req[s]) = {}
    BY DEF ContactInv, AnswerInv
  <2>2. rows'[Between(req'[r])].status = "pending"
    BY <1>4, <2>1
  <2>3. req'[r].accept =>
            \A d \in Between(req'[r]) :
                Cardinality(ByRequest(rows', d)) < MaxContactsPerDevice
    BY <1>1, <1>2, <1>4, <2>1
  <2>4. \A s \in Reqs \ {r} : req'[s].pc = "commit" =>
            Between(req'[r]) \cap Between(req'[s]) = {}
    BY <1>4, <2>1
  <2> QED
    BY <2>2, <2>3, <2>4
<1> QED
  BY <1>3, <1>5 DEF ContactInv

\* A request goes on without an answer, and writes at most a row that nobody
\* answers and that is no contact by request.
Writes ==
    \/ UNCHANGED rows
    \/ \E p \in Limit!Pairs, e \in Limit!Row :
          /\ ~Limit!RowLocked(p) /\ rows' = [rows EXCEPT ![p] = e]
          /\ e.status # "accepted" \/ e.source # "manual"

LEMMA AskKeeps ==
    ASSUME ContactInv, NEW r \in Reqs, NEW q \in AskRec, q.pc # "commit", Sided(q),
           req' = [req EXCEPT ![r] = q], Writes
    PROVE  ContactInv'
<1>1. /\ rows \in [Limit!Pairs -> Limit!Row \cup {Limit!NoRow}]
      /\ req \in [Reqs -> AskRec] /\ \A s \in Reqs : Sided(req[s])
  BY DEF ContactInv, ContactTypes
<1>2. /\ req' \in [Reqs -> AskRec] /\ \A s \in Reqs : Sided(req'[s])
      /\ \A s \in Reqs : req'[s].pc = "commit" => req'[s] = req[s]
  BY <1>1
<1>3. CASE UNCHANGED rows
  <2>1. ContactTypes'
    BY <1>1, <1>2, <1>3 DEF ContactTypes
  <2> QED
    BY <1>2, <1>3, <2>1, FewerKeep
<1>4. ASSUME NEW p \in Limit!Pairs, NEW e \in Limit!Row, ~Limit!RowLocked(p),
             rows' = [rows EXCEPT ![p] = e],
             e.status # "accepted" \/ e.source # "manual"
      PROVE  ContactInv'
  <2>1. ContactTypes'
    BY <1>1, <1>2, <1>4 DEF ContactTypes
  <2>2. \A d \in Devs : ByRequest(rows', d) \subseteq ByRequest(rows, d)
    BY <1>1, <1>4 DEF ByRequest
  <2>3. ASSUME NEW s \in Reqs, req[s].pc = "commit"
        PROVE  rows'[Between(req[s])] = rows[Between(req[s])]
    <3>1. Between(req[s]) # p
      BY <1>4, <2>3 DEF Limit!RowLocked, Limit!Answering, Limit!Pair, Between
    <3>2. Between(req[s]) \in Limit!Pairs
      BY <1>1, <2>3, PairOfTwo DEF Between, Sided
    <3> QED
      BY <1>1, <1>4, <3>1, <3>2
  <2> QED
    BY <1>2, <2>1, <2>2, <2>3, FewerKeep
<1> QED
  BY <1>3, <1>4 DEF Writes

\* The record of a request with another pc.
LEMMA ToIs ==
    ASSUME ContactInv, NEW r \in Reqs, NEW l \in Limit!Pcs, Limit!To(r, l),
           req[r].pc \notin {"free", "peers", "wipe", "publish"}
           \/ l \in {"free", "peers", "wipe", "publish"}
    PROVE  \E q \in AskRec : /\ q.pc = l /\ Sided(q) /\ req' = [req EXCEPT ![r] = q]
                             /\ q.self = req[r].self /\ q.peer = req[r].peer
                             /\ q.accept = req[r].accept
<1> DEFINE q == [req[r] EXCEPT !.pc = l]
<1>1. req[r] \in AskRec /\ Sided(req[r]) /\ req \in [Reqs -> AskRec]
  BY DEF ContactInv, ContactTypes
<1>2. q \in AskRec /\ q.pc = l
  BY <1>1 DEF AskRec
<1>3. q.self = req[r].self /\ q.peer = req[r].peer /\ q.accept = req[r].accept
  BY <1>1 DEF AskRec
<1>4. Sided(q)
  BY <1>1, <1>2, <1>3 DEF Sided
<1>5. req' = [req EXCEPT ![r] = q]
  BY <1>1 DEF Limit!To
<1> QED
  BY <1>2, <1>3, <1>4, <1>5

LEMMA ToKeeps ==
    ASSUME ContactInv, NEW r \in Reqs, NEW l \in Limit!Pcs, l # "commit",
           Limit!To(r, l), Writes,
           req[r].pc \notin {"free", "peers", "wipe", "publish"}
           \/ l \in {"free", "peers", "wipe", "publish"}
    PROVE  ContactInv'
BY ToIs, AskKeeps

LEMMA DoneKeeps ==
    ASSUME ContactInv, NEW r \in Reqs, Limit!Done(r), Writes
    PROVE  ContactInv'
<1>1. /\ Limit!NoRequest \in AskRec /\ Limit!NoRequest.pc # "commit"
      /\ Sided(Limit!NoRequest)
  BY DEF Limit!NoRequest, AskRec, Limit!Ops, Limit!Pcs, Sided
<1>2. req' = [req EXCEPT ![r] = Limit!NoRequest]
  BY DEF Limit!Done
<1> QED
  BY <1>1, <1>2, AskKeeps

\* A request comes with its two devices, or with the device that was unbound.
LEMMA ArrivesKeeps ==
    ASSUME ContactInv, NEW r \in Reqs, Limit!Arrives(r) PROVE ContactInv'
<1>1. ASSUME NEW op \in Limit!Ops, NEW l \in Limit!Pcs, NEW a \in Devs, NEW b \in Devs,
             NEW u \in Users \cup {Nobody}, NEW ok \in BOOLEAN, NEW h \in BOOLEAN,
             l # "commit", Limit!Ask(r, op, l, a, b, u, ok, h)
      PROVE  ContactInv'
  <2> DEFINE q == [Limit!NoRequest EXCEPT !.op = op, !.pc = l, !.self = a, !.peer = b,
                                              !.user = u, !.accept = ok, !.held = h]
  <2>1. a # b /\ req' = [req EXCEPT ![r] = q] /\ UNCHANGED rows
    BY <1>1 DEF Limit!Ask
  <2>2. Limit!NoRequest \in AskRec
    BY DEF Limit!NoRequest, AskRec, Limit!Ops, Limit!Pcs
  <2>3. q \in AskRec /\ q.pc = l /\ q.self = a /\ q.peer = b
    BY <2>2 DEF AskRec
  <2>4. Sided(q)
    BY <2>1, <2>3 DEF Sided
  <2> HIDE DEF q
  <2> QED
    BY <1>1, <2>1, <2>3, <2>4, AskKeeps DEF Writes
<1>2. /\ {"request", "respond", "delete", "ensure"} \subseteq Limit!Ops
      /\ {"binds", "answer", "find", "look", "byId"} \subseteq Limit!Pcs \ {"commit"}
      /\ \A u \in Users : u \in Users \cup {Nobody}
      /\ Nobody \in Users \cup {Nobody} /\ TRUE \in BOOLEAN /\ FALSE \in BOOLEAN
  BY DEF Limit!Ops, Limit!Pcs
<1>3. ASSUME NEW d \in Devs, NEW t \in Devs,
             \/ Limit!do_add_contact(r, d, t)
             \/ \E ok \in BOOLEAN : Limit!do_respond_contact(r, d, t, ok)
             \/ Limit!do_delete_contact(r, d, t)
             \/ Limit!ListOrCall(r, d, t)
             \/ \E u \in Users : Limit!postUserContactRequest(r, u, d, t)
      PROVE  ContactInv'
  <2>1. CASE Limit!do_add_contact(r, d, t)
    BY <1>1, <1>2, <2>1 DEF Limit!do_add_contact
  <2>2. ASSUME NEW ok \in BOOLEAN, Limit!do_respond_contact(r, d, t, ok)
        PROVE  ContactInv'
    BY <1>1, <1>2, <2>2 DEF Limit!do_respond_contact
  <2>3. CASE Limit!do_delete_contact(r, d, t)
    BY <1>1, <1>2, <2>3 DEF Limit!do_delete_contact
  <2>4. CASE Limit!ListOrCall(r, d, t)
    BY <1>1, <1>2, <2>4 DEF Limit!ListOrCall
  <2>5. ASSUME NEW u \in Users, Limit!postUserContactRequest(r, u, d, t)
        PROVE  ContactInv'
    BY <1>1, <1>2, <2>5 DEF Limit!postUserContactRequest
  <2> QED
    BY <1>3, <2>1, <2>2, <2>3, <2>4, <2>5
<1>4. ASSUME NEW u \in Users, NEW p \in Limit!Pairs,
             \/ Limit!deleteUserContact(r, u, p)
             \/ \E ok \in BOOLEAN : Limit!postUserContactRespond(r, u, p, ok)
      PROVE  ContactInv'
  <2>1. PICK a, b \in Devs : a # b /\ p = {a, b}
    BY TwoSides
  <2>2. Limit!Min(p) \in Devs /\ Limit!Max(p) \in Devs
    BY <2>1, FirstAndLast
  <2>3. CASE Limit!deleteUserContact(r, u, p)
    BY <1>1, <1>2, <2>2, <2>3 DEF Limit!deleteUserContact
  <2>4. ASSUME NEW ok \in BOOLEAN, Limit!postUserContactRespond(r, u, p, ok)
        PROVE  ContactInv'
    BY <1>1, <1>2, <2>2, <2>4 DEF Limit!postUserContactRespond
  <2> QED
    BY <1>4, <2>3, <2>4
<1> QED
  BY <1>3, <1>4 DEF Limit!Arrives

\* What a request writes of its own pair: a row that waits for an answer, or an
\* automatic contact.
LEMMA OwnPair ==
    ASSUME ContactInv, NEW r \in Reqs,
           req[r].pc \notin {"free", "peers", "wipe", "publish"}
    PROVE  /\ req[r].self \in Devs /\ req[r].peer \in Devs /\ req[r].self # req[r].peer
           /\ Limit!Pair(r) = Between(req[r])
           /\ Limit!Pair(r) \in Limit!Pairs
           /\ Limit!Min(Limit!Pair(r)) \in Devs
<1>1. req[r].self \in Devs /\ req[r].peer \in Devs /\ req[r].self # req[r].peer
  BY DEF ContactInv, ContactTypes, Sided
<1>2. Limit!Pair(r) = {req[r].self, req[r].peer}
  BY DEF Limit!Pair
<1> QED
  BY <1>1, <1>2, PairOfTwo, FirstAndLast DEF Between

LEMMA WriteWrites ==
    ASSUME NEW p \in Limit!Pairs, NEW status \in {"pending", "accepted"},
           NEW source \in {"auto", "manual"}, NEW by \in Devs,
           ~Limit!RowLocked(p), Limit!Write(p, status, source, by),
           status # "accepted" \/ source # "manual"
    PROVE  Writes
<1> DEFINE e == [status |-> status, source |-> source, by |-> by]
<1>1. e \in Limit!Row /\ (e.status # "accepted" \/ e.source # "manual")
  BY DEF Limit!Row
<1>2. rows' = [rows EXCEPT ![p] = e]
  BY DEF Limit!Write
<1> HIDE DEF e
<1> QED
  BY <1>1, <1>2 DEF Writes

LEMMA PcsAre == {"free", "byId", "binds", "auto", "check", "insert", "answer", "commit",
                 "find", "erase", "look", "materialize", "peers", "wipe", "publish"}
                = Limit!Pcs
BY DEF Limit!Pcs

LEMMA RequestsKeep ==
    ASSUME ContactInv, NEW r \in Reqs,
           \/ Limit!ReadBinds(r) \/ Limit!CheckRequest(r)
           \/ Limit!createRequest(r) \/ Limit!upsertAutoContact(r)
    PROVE  ContactInv'
<1>1. CASE Limit!ReadBinds(r)
  BY <1>1, ToKeeps, DoneKeeps, PcsAre DEF Limit!ReadBinds, Writes
<1>2. CASE Limit!CheckRequest(r)
  BY <1>2, ToKeeps, DoneKeeps, PcsAre DEF Limit!CheckRequest, Writes
<1>3. CASE Limit!createRequest(r)
  <2>1. /\ req[r].pc = "insert" /\ ~Limit!RowLocked(Limit!Pair(r))
        /\ Limit!Write(Limit!Pair(r), "pending", "manual", req[r].self)
        /\ Limit!To(r, "publish")
    BY <1>3 DEF Limit!createRequest
  <2>2. Writes
    BY <2>1, OwnPair, WriteWrites
  <2> QED
    BY <2>1, <2>2, ToKeeps, PcsAre
<1>4. CASE Limit!upsertAutoContact(r)
  <2>1. /\ req[r].pc = "auto" /\ ~Limit!RowLocked(Limit!Pair(r))
        /\ Limit!Write(Limit!Pair(r), "accepted", "auto", Limit!Min(Limit!Pair(r)))
        /\ Limit!To(r, "publish")
    BY <1>4 DEF Limit!upsertAutoContact
  <2>2. Writes
    BY <2>1, OwnPair, WriteWrites
  <2> QED
    BY <2>1, <2>2, ToKeeps, PcsAre
<1> QED
  BY <1>1, <1>2, <1>3, <1>4

LEMMA EnsuresKeep ==
    ASSUME ContactInv, NEW r \in Reqs,
           \/ Limit!LookForContact(r) \/ Limit!LookForAccount(r)
           \/ Limit!ensureContact(r) \/ Limit!contactPeers(r)
           \/ Limit!publishCallersUpdate(r)
    PROVE  ContactInv'
<1>1. CASE Limit!LookForContact(r)
  BY <1>1, ToKeeps, DoneKeeps, PcsAre DEF Limit!LookForContact, Writes
<1>2. CASE Limit!LookForAccount(r)
  BY <1>2, ToKeeps, DoneKeeps, PcsAre DEF Limit!LookForAccount, Writes
<1>3. CASE Limit!ensureContact(r)
  <2>1. /\ req[r].pc = "materialize" /\ ~Limit!RowLocked(Limit!Pair(r))
        /\ \/ UNCHANGED rows
           \/ Limit!Write(Limit!Pair(r), "accepted", "auto",
                              Limit!Min(Limit!Pair(r)))
        /\ Limit!Done(r)
    BY <1>3 DEF Limit!ensureContact
  <2>2. Writes
    <3>1. CASE UNCHANGED rows
      BY <3>1 DEF Writes
    <3>2. CASE Limit!Write(Limit!Pair(r), "accepted", "auto",
                               Limit!Min(Limit!Pair(r)))
      BY <2>1, <3>2, OwnPair, WriteWrites
    <3> QED
      BY <2>1, <3>1, <3>2
  <2> QED
    BY <2>1, <2>2, DoneKeeps
<1>4. CASE Limit!contactPeers(r)
  BY <1>4, ToKeeps, PcsAre DEF Limit!contactPeers, Writes
<1>5. CASE Limit!publishCallersUpdate(r)
  BY <1>5, DoneKeeps DEF Limit!publishCallersUpdate, Writes
<1> QED
  BY <1>1, <1>2, <1>3, <1>4, <1>5

LEMMA DeletesKeep ==
    ASSUME ContactInv, NEW r \in Reqs, Limit!FindContact(r) \/ Limit!deleteContact(r)
    PROVE  ContactInv'
<1>1. req[r] \in AskRec /\ req \in [Reqs -> AskRec] /\ Sided(req[r])
  BY DEF ContactInv, ContactTypes
<1>2. CASE Limit!FindContact(r)
  <2> DEFINE q == [req[r] EXCEPT !.pc = "erase", !.held = TRUE]
  <2>1. req[r].pc = "find" /\ UNCHANGED rows
    BY <1>2 DEF Limit!FindContact
  <2>2. CASE Limit!Done(r)
    BY <2>1, <2>2, DoneKeeps DEF Writes
  <2>3. CASE req' = [req EXCEPT ![r].pc = "erase", ![r].held = TRUE]
    <3>1. req' = [req EXCEPT ![r] = q]
      BY <1>1, <2>3
    <3>2. q \in AskRec /\ q.pc = "erase" /\ q.self = req[r].self /\ q.peer = req[r].peer
      BY <1>1 DEF AskRec, Limit!Pcs
    <3>3. Sided(q)
      BY <1>1, <2>1, <3>2 DEF Sided
    <3> HIDE DEF q
    <3> QED
      BY <2>1, <3>1, <3>2, <3>3, AskKeeps DEF Writes
  <2> QED
    BY <1>2, <2>2, <2>3 DEF Limit!FindContact
<1>3. CASE Limit!deleteContact(r)
  <2> DEFINE p == Limit!Pair(r)
             e == [rows[p] EXCEPT !.status = "deleted"]
  <2>1. req[r].pc = "erase" /\ ~Limit!RowLocked(p)
    BY <1>3 DEF Limit!deleteContact
  <2>2. CASE Limit!Done(r) /\ UNCHANGED rows
    BY <2>2, DoneKeeps DEF Writes
  <2>3. CASE /\ Limit!Is(p, "accepted")
             /\ rows' = [rows EXCEPT ![p].status = "deleted"]
             /\ Limit!To(r, "publish")
    <3>1. p \in Limit!Pairs
      BY <2>1, OwnPair
    <3>2. /\ rows \in [Limit!Pairs -> Limit!Row \cup {Limit!NoRow}]
          /\ rows[p].status = "accepted"
      BY <2>3 DEF ContactInv, ContactTypes, Limit!Is
    <3>3. rows[p] \in Limit!Row
      BY <3>1, <3>2 DEF Limit!NoRow
    <3>4. e \in Limit!Row /\ e.status = "deleted"
      BY <3>3 DEF Limit!Row
    <3>5. rows' = [rows EXCEPT ![p] = e]
      BY <2>3, <3>1, <3>2
    <3> HIDE DEF p, e
    <3>6. Writes
      BY <2>1, <3>1, <3>4, <3>5 DEF Writes
    <3> QED
      BY <2>1, <2>3, <3>6, ToKeeps, PcsAre
  <2> QED
    BY <1>3, <2>2, <2>3 DEF Limit!deleteContact
<1> QED
  BY <1>2, <1>3

LEMMA ReadByIdKeeps ==
    ASSUME ContactInv, NEW r \in Reqs, Limit!ReadById(r) PROVE ContactInv'
<1> DEFINE p == Limit!Pair(r)
           sides == IF req[r].op = "respond" THEN p \ {rows[p].by} ELSE p
           mine == {d \in sides : owner[d] = req[r].user}
           l == IF req[r].op = "respond" THEN "answer" ELSE "find"
           q == [req[r] EXCEPT !.self = Limit!Min(mine),
                                !.peer = Limit!Max(p \ {Limit!Min(mine)}), !.pc = l]
<1>1. req[r] \in AskRec /\ req \in [Reqs -> AskRec] /\ req[r].pc = "byId"
  BY DEF ContactInv, ContactTypes, Limit!ReadById
<1>2. UNCHANGED rows
  BY DEF Limit!ReadById
<1>3. CASE Limit!Done(r)
  BY <1>2, <1>3, DoneKeeps DEF Writes
<1>4. CASE /\ mine # {}
           /\ req' = [req EXCEPT ![r].self = Limit!Min(mine),
                                   ![r].peer = Limit!Max(p \ {Limit!Min(mine)}),
                                   ![r].pc = l]
  <2>1. /\ req[r].self \in Devs /\ req[r].peer \in Devs /\ req[r].self # req[r].peer
        /\ p = {req[r].self, req[r].peer}
    BY <1>1, OwnPair DEF Between
  <2>2. mine \in SUBSET {req[r].self, req[r].peer}
    BY <2>1
  <2>3. Limit!Min(mine) \in mine
    BY <1>4, <2>1, <2>2, FirstAndLast
  <2>4. /\ p \ {Limit!Min(mine)} \in SUBSET {req[r].self, req[r].peer}
        /\ p \ {Limit!Min(mine)} # {}
    BY <2>1
  <2>5. Limit!Max(p \ {Limit!Min(mine)}) \in p \ {Limit!Min(mine)}
    BY <2>1, <2>4, FirstAndLast
  <2>6. req' = [req EXCEPT ![r] = q]
    BY <1>1, <1>4
  <2>7. /\ Limit!Min(mine) \in Devs /\ Limit!Max(p \ {Limit!Min(mine)}) \in Devs
        /\ Limit!Min(mine) # Limit!Max(p \ {Limit!Min(mine)})
    BY <2>1, <2>2, <2>3, <2>5
  <2>8. l \in Limit!Pcs /\ l # "commit"
    BY DEF Limit!Pcs
  <2> HIDE DEF p, mine, l
  <2>9. /\ q \in AskRec /\ q.pc = l /\ q.self = Limit!Min(mine)
        /\ q.peer = Limit!Max(p \ {Limit!Min(mine)})
    BY <1>1, <2>7, <2>8 DEF AskRec
  <2>10. Sided(q)
    BY <2>7, <2>9 DEF Sided
  <2> HIDE DEF q
  <2> QED
    BY <1>2, <2>6, <2>8, <2>9, <2>10, AskKeeps DEF Writes
<1> QED
  BY <1>3, <1>4 DEF Limit!ReadById

\* respondRequest locks both bindings and the row, and counts.
LEMMA RespondKeeps ==
    ASSUME ContactInv, NEW r \in Reqs, Limit!respondRequest(r) PROVE ContactInv'
<1>1. /\ req[r].pc = "answer" /\ UNCHANGED rows
      /\ \A d \in Limit!Pair(r) : ~Limit!BindLocked(d)
  BY DEF Limit!respondRequest
<1>2. CASE Limit!Done(r)
  BY <1>1, <1>2, DoneKeeps DEF Writes
<1>3. CASE /\ Limit!MayAnswer(r)
           /\ req[r].accept => \A d \in Limit!Pair(r) :
                  Limit!Cardinality(Limit!Accepted(d)) < MaxContactsPerDevice
           /\ Limit!To(r, "commit")
  <2>1. PICK q \in AskRec : /\ q.pc = "commit" /\ Sided(q) /\ req' = [req EXCEPT ![r] = q]
                            /\ q.self = req[r].self /\ q.peer = req[r].peer
                            /\ q.accept = req[r].accept
    BY <1>1, <1>3, ToIs, PcsAre
  <2>2. req \in [Reqs -> AskRec] /\ \A s \in Reqs : Sided(req[s])
    BY DEF ContactInv, ContactTypes
  <2>3. req'[r] = q /\ \A s \in Reqs \ {r} : req'[s] = req[s]
    BY <2>1, <2>2
  <2>4. ContactTypes'
    BY <1>1, <2>1, <2>2, <2>3 DEF ContactInv, ContactTypes
  <2>5. LimitInv'
    BY <1>1 DEF ContactInv, LimitInv
  <2>6. /\ Between(q) = Limit!Pair(r) /\ Between(q) \subseteq Devs
        /\ Between(q) \in Limit!Pairs
    BY <1>1, <2>1, OwnPair DEF Between
  <2>7. rows[Between(q)].status = "pending"
    BY <1>3, <2>6 DEF Limit!MayAnswer, Limit!Is
  <2>8. ASSUME q.accept, NEW d \in Between(q)
        PROVE  Cardinality(ByRequest(rows, d)) < MaxContactsPerDevice
    <3>1. Cardinality(Limit!Accepted(d)) < MaxContactsPerDevice
      BY <1>3, <2>1, <2>6, <2>8, SameCardinality
    <3>2. /\ Limit!Accepted(d) \in SUBSET Limit!Pairs
          /\ ByRequest(rows, d) \in SUBSET Limit!Accepted(d)
      BY DEF Limit!Accepted, Limit!Touching, Limit!Is, ByRequest
    <3>3. /\ IsFiniteSet(Limit!Accepted(d)) /\ Cardinality(Limit!Accepted(d)) \in Nat
      BY <3>2, FinitePairs
    <3>4. ByRequest(rows, d) \in SUBSET Limit!Pairs
      BY <3>2
    <3>5. Cardinality(ByRequest(rows, d)) \in Nat
      BY <3>4, FinitePairs
    <3>6. Cardinality(ByRequest(rows, d)) <= Cardinality(Limit!Accepted(d))
      BY <3>2, <3>3, FS_Subset
    <3>7. MaxContactsPerDevice \in Nat
      BY DevicesHold DEF Limit!DevicesAssumption
    <3> QED
      BY <3>1, <3>3, <3>5, <3>6, <3>7
  <2>9. ASSUME NEW s \in Reqs \ {r}, req[s].pc = "commit"
        PROVE  Between(q) \cap Between(req[s]) = {}
    BY <1>1, <2>6, <2>9
    DEF Limit!BindLocked, Limit!Answering, Limit!Pair, Between
  <2>10. AnswerInv'
    <3> SUFFICES ASSUME NEW a \in Reqs, req'[a].pc = "commit"
                 PROVE  /\ rows'[Between(req'[a])].status = "pending"
                        /\ req'[a].accept =>
                              \A d \in Between(req'[a]) :
                                  Cardinality(ByRequest(rows', d)) < MaxContactsPerDevice
                        /\ \A s \in Reqs \ {a} : req'[s].pc = "commit" =>
                              Between(req'[a]) \cap Between(req'[s]) = {}
      BY DEF AnswerInv
    <3>1. CASE a = r
      BY <1>1, <2>3, <2>7, <2>8, <2>9, <3>1
    <3>2. CASE a # r
      <4>1. /\ rows[Between(req[a])].status = "pending"
            /\ req[a].accept =>
                  \A d \in Between(req[a]) :
                      Cardinality(ByRequest(rows, d)) < MaxContactsPerDevice
            /\ \A s \in Reqs \ {a} : req[s].pc = "commit" =>
                  Between(req[a]) \cap Between(req[s]) = {}
        BY <2>3, <3>2 DEF ContactInv, AnswerInv
      <4>2. Between(req[a]) \cap Between(q) = {}
        BY <2>3, <2>9, <3>2
      <4> QED
        BY <1>1, <2>3, <3>2, <4>1, <4>2
    <3> QED
      BY <3>1, <3>2
  <2> QED
    BY <2>4, <2>5, <2>10 DEF ContactInv
<1> QED
  BY <1>2, <1>3 DEF Limit!respondRequest

\* The UPDATE adds one contact to each of the two devices, and only to them.
LEMMA CommitKeeps ==
    ASSUME ContactInv, NEW r \in Reqs, Limit!CommitAnswer(r) PROVE ContactInv'
<1> DEFINE p == Between(req[r])
           status == IF req[r].accept THEN "accepted" ELSE "rejected"
<1>1. /\ req[r].pc = "commit" /\ Limit!To(r, "publish") /\ Limit!Pair(r) = p
      /\ rows' = [rows EXCEPT ![p].status = status]
  BY DEF Limit!CommitAnswer, Limit!Pair, Between
<1>2. /\ rows \in [Limit!Pairs -> Limit!Row \cup {Limit!NoRow}]
      /\ req \in [Reqs -> AskRec] /\ \A s \in Reqs : Sided(req[s])
  BY DEF ContactInv, ContactTypes
<1>3. p \in Limit!Pairs /\ p \subseteq Devs
  BY <1>1, OwnPair DEF Between
<1>4. rows[p].status = "pending"
  BY <1>1 DEF ContactInv, AnswerInv
<1>5. rows[p] \in Limit!Row
  BY <1>2, <1>3, <1>4 DEF Limit!NoRow
<1>6. [rows[p] EXCEPT !.status = status] \in Limit!Row
  BY <1>5 DEF Limit!Row
<1>7. rows' = [rows EXCEPT ![p] = [rows[p] EXCEPT !.status = status]]
  BY <1>1, <1>2, <1>3
<1>8. rows' \in [Limit!Pairs -> Limit!Row \cup {Limit!NoRow}]
  BY <1>2, <1>3, <1>6, <1>7
<1>9. \A o \in Limit!Pairs \ {p} : rows'[o] = rows[o]
  BY <1>2, <1>7
<1>10. PICK q \in AskRec : /\ q.pc = "publish" /\ Sided(q) /\ req' = [req EXCEPT ![r] = q]
  BY <1>1, ToIs, PcsAre
<1>11. req'[r] = q /\ \A s \in Reqs \ {r} : req'[s] = req[s]
  BY <1>2, <1>10
<1>12. ContactTypes'
  BY <1>2, <1>8, <1>10, <1>11 DEF ContactTypes
<1>13. ASSUME NEW d \in Devs
       PROVE  /\ d \notin p => ByRequest(rows', d) = ByRequest(rows, d)
              /\ req[r].accept => ByRequest(rows', d) \subseteq ByRequest(rows, d) \cup {p}
              /\ ~req[r].accept => ByRequest(rows', d) \subseteq ByRequest(rows, d)
  <2>1. ~req[r].accept => rows'[p].status = "rejected"
    BY <1>2, <1>3, <1>5, <1>7 DEF Limit!Row
  <2> HIDE DEF p
  <2> QED
    BY <1>3, <1>9, <2>1 DEF ByRequest
<1>14. MaxContactsPerDevice \in Nat
  BY DevicesHold DEF Limit!DevicesAssumption
<1>15. LimitInv'
  <2> SUFFICES ASSUME NEW d \in Devs
               PROVE  Cardinality(ByRequest(rows', d)) <= MaxContactsPerDevice
    BY DEF LimitInv
  <2>1. /\ ByRequest(rows, d) \in SUBSET Limit!Pairs
        /\ ByRequest(rows', d) \in SUBSET Limit!Pairs
    BY DEF ByRequest
  <2>2. /\ IsFiniteSet(ByRequest(rows, d)) /\ Cardinality(ByRequest(rows, d)) \in Nat
        /\ Cardinality(ByRequest(rows', d)) \in Nat
        /\ Cardinality(ByRequest(rows, d)) <= MaxContactsPerDevice
    BY <2>1, FinitePairs DEF ContactInv, LimitInv
  <2>3. CASE d \in p /\ req[r].accept
    <3>1. Cardinality(ByRequest(rows, d)) < MaxContactsPerDevice
      BY <1>1, <2>3 DEF ContactInv, AnswerInv
    <3>2. /\ IsFiniteSet(ByRequest(rows, d) \cup {p})
          /\ Cardinality(ByRequest(rows, d) \cup {p})
                \in {Cardinality(ByRequest(rows, d)), Cardinality(ByRequest(rows, d)) + 1}
      BY <2>2, FS_AddElement
    <3>3. Cardinality(ByRequest(rows', d)) <= Cardinality(ByRequest(rows, d) \cup {p})
      BY <1>13, <2>3, <3>2, FS_Subset
    <3> QED
      BY <1>14, <2>2, <3>1, <3>2, <3>3
  <2>4. CASE d \notin p \/ ~req[r].accept
    <3>1. ByRequest(rows', d) \in SUBSET ByRequest(rows, d)
      BY <1>13, <2>4
    <3>2. Cardinality(ByRequest(rows', d)) <= Cardinality(ByRequest(rows, d))
      BY <2>2, <3>1, FS_Subset
    <3> QED
      BY <1>14, <2>2, <3>2
  <2> QED
    BY <2>3, <2>4
<1>16. AnswerInv'
  <2> SUFFICES ASSUME NEW a \in Reqs, req'[a].pc = "commit"
               PROVE  /\ rows'[Between(req'[a])].status = "pending"
                      /\ req'[a].accept =>
                            \A d \in Between(req'[a]) :
                                Cardinality(ByRequest(rows', d)) < MaxContactsPerDevice
                      /\ \A s \in Reqs \ {a} : req'[s].pc = "commit" =>
                            Between(req'[a]) \cap Between(req'[s]) = {}
    BY DEF AnswerInv
  <2>1. a # r /\ req'[a] = req[a] /\ req[a].pc = "commit"
    BY <1>10, <1>11
  <2>2. /\ rows[Between(req[a])].status = "pending"
        /\ req[a].accept =>
              \A d \in Between(req[a]) :
                  Cardinality(ByRequest(rows, d)) < MaxContactsPerDevice
        /\ \A s \in Reqs \ {a} : req[s].pc = "commit" =>
              Between(req[a]) \cap Between(req[s]) = {}
    BY <2>1 DEF ContactInv, AnswerInv
  <2>3. p \cap Between(req[a]) = {} /\ Between(req[a]) \subseteq Devs
        /\ Between(req[a]) \in Limit!Pairs
    BY <1>1, <2>1, <2>2, OwnPair DEF Between
  <2>4. rows'[Between(req[a])] = rows[Between(req[a])]
    <3>1. Between(req[a]) # p
      BY <2>3 DEF Between
    <3> HIDE DEF p
    <3> QED
      BY <1>9, <2>3, <3>1
  <2> HIDE DEF p
  <2>5. \A d \in Between(req[a]) : ByRequest(rows', d) = ByRequest(rows, d)
    BY <1>13, <2>3
  <2>6. \A s \in Reqs \ {a} : req'[s].pc = "commit" => req'[s] = req[s]
    BY <1>10, <1>11
  <2> QED
    BY <2>1, <2>2, <2>4, <2>5, <2>6
<1> QED
  BY <1>12, <1>15, <1>16 DEF ContactInv

\* The clean-up deletes no row that is being answered.
LEMMA WipeKeeps ==
    ASSUME ContactInv, NEW r \in Reqs, Limit!deleteAllContacts(r) PROVE ContactInv'
<1> DEFINE d == req[r].self
<1>1. /\ req[r].pc = "wipe"
      /\ \A p \in Limit!Touching(d) : ~Limit!RowLocked(p)
      /\ rows' = [p \in Limit!Pairs |->
                         IF d \in p THEN Limit!NoRow ELSE rows[p]]
      /\ req' = [s \in Reqs |-> IF s = r THEN [req[s] EXCEPT !.pc = "publish"]
                                 ELSE IF d \in Limit!Pair(s) THEN [req[s] EXCEPT !.held = FALSE]
                                 ELSE req[s]]
  BY DEF Limit!deleteAllContacts
<1>2. /\ rows \in [Limit!Pairs -> Limit!Row \cup {Limit!NoRow}]
      /\ req \in [Reqs -> AskRec] /\ \A s \in Reqs : Sided(req[s])
  BY DEF ContactInv, ContactTypes
<1>3. ASSUME NEW s \in Reqs
      PROVE  /\ req'[s] \in AskRec /\ Sided(req'[s])
             /\ req'[s].pc = "commit" =>
                   /\ req[s].pc = "commit" /\ req'[s].accept = req[s].accept
                   /\ req'[s].self = req[s].self /\ req'[s].peer = req[s].peer
  <2>1. req[s] \in AskRec /\ Sided(req[s])
    BY <1>2
  <2>2. /\ [req[s] EXCEPT !.pc = "publish"] \in AskRec
        /\ [req[s] EXCEPT !.pc = "publish"].pc = "publish"
    BY <2>1 DEF AskRec, Limit!Pcs
  <2>3. /\ [req[s] EXCEPT !.held = FALSE] \in AskRec
        /\ [req[s] EXCEPT !.held = FALSE].pc = req[s].pc
        /\ [req[s] EXCEPT !.held = FALSE].self = req[s].self
        /\ [req[s] EXCEPT !.held = FALSE].peer = req[s].peer
        /\ [req[s] EXCEPT !.held = FALSE].accept = req[s].accept
    BY <2>1 DEF AskRec
  <2>4. \/ req'[s] = [req[s] EXCEPT !.pc = "publish"]
        \/ req'[s] = [req[s] EXCEPT !.held = FALSE] \/ req'[s] = req[s]
    BY <1>1
  <2> QED
    BY <2>1, <2>2, <2>3, <2>4 DEF Sided
<1>4. ContactTypes'
  BY <1>1, <1>2, <1>3 DEF ContactTypes
<1>5. ASSUME NEW s \in Reqs, req[s].pc = "commit"
      PROVE  rows'[Between(req[s])] = rows[Between(req[s])]
  <2>1. Limit!Pair(s) = Between(req[s]) /\ Between(req[s]) \in Limit!Pairs
    BY <1>5, OwnPair
  <2>2. Limit!RowLocked(Between(req[s]))
    BY <1>5, <2>1 DEF Limit!RowLocked, Limit!Answering
  <2>3. d \notin Between(req[s])
    BY <1>1, <2>1, <2>2 DEF Limit!Touching
  <2> QED
    BY <1>1, <2>1, <2>3
<1>6. \A e \in Devs : ByRequest(rows', e) \subseteq ByRequest(rows, e)
  BY <1>1, <1>2 DEF ByRequest, Limit!NoRow
<1> QED
  BY <1>3, <1>4, <1>5, <1>6, FewerKeep

LEMMA DeliveriesKeep ==
    ASSUME ContactInv,
           \/ \E r \in Reqs, d \in Devs : Limit!Deliver(r, d)
           \/ Limit!DeliveryFails
    PROVE  ContactInv'
<1>1. /\ Limit!NoRequest \in AskRec /\ Limit!NoRequest.pc = "free"
      /\ Sided(Limit!NoRequest)
  BY DEF Limit!NoRequest, AskRec, Limit!Ops, Limit!Pcs, Sided
<1>2. ASSUME NEW r \in Reqs, NEW d \in Devs, Limit!Deliver(r, d) PROVE ContactInv'
  <2> DEFINE q == [Limit!NoRequest EXCEPT !.op = "unbind", !.pc = "peers", !.self = d]
  <2>1. req' = [req EXCEPT ![r] = q] /\ UNCHANGED rows
    BY <1>2 DEF Limit!Deliver
  <2>2. q \in AskRec /\ q.pc = "peers"
    BY <1>1 DEF AskRec, Limit!Ops, Limit!Pcs
  <2>3. Sided(q)
    BY <2>2 DEF Sided
  <2> HIDE DEF q
  <2> QED
    BY <2>1, <2>2, <2>3, AskKeeps DEF Writes
<1>3. CASE Limit!DeliveryFails
  <2>1. UNCHANGED rows
    BY <1>3 DEF Limit!DeliveryFails
  <2>2. req \in [Reqs -> AskRec]
    BY DEF ContactInv, ContactTypes
  <2>3. CASE UNCHANGED req
    BY <2>1, <2>3 DEF ContactInv, ContactTypes, AnswerInv, LimitInv
  <2>4. CASE req' = [req EXCEPT ![delivers.req] = Limit!NoRequest]
    <3>1. CASE delivers.req \in Reqs
      BY <1>1, <2>1, <2>4, <3>1, AskKeeps DEF Writes
    <3>2. CASE delivers.req \notin Reqs
      <4>1. req' = req
        BY <2>2, <2>4, <3>2
      <4> QED
        BY <2>1, <4>1 DEF ContactInv, ContactTypes, AnswerInv, LimitInv
    <3> QED
      BY <3>1, <3>2
  <2> QED
    BY <1>3, <2>3, <2>4 DEF Limit!DeliveryFails
<1> QED
  BY <1>2, <1>3

LEMMA ContactStepInv ==
    ContactInv /\ [Limit!Next]_serverVars => ContactInv'
<1> SUFFICES ASSUME ContactInv, [Limit!Next]_serverVars PROVE ContactInv'
  OBVIOUS
<1>1. CASE UNCHANGED <<rows, req>>
  BY <1>1 DEF ContactInv, ContactTypes, AnswerInv, LimitInv
<1>2. ASSUME NEW r \in Reqs, Limit!Handles(r) PROVE ContactInv'
  BY <1>2, RequestsKeep, EnsuresKeep, DeletesKeep, ReadByIdKeeps, RespondKeeps, CommitKeeps,
     WipeKeeps
  DEF Limit!Handles
<1>3. CASE \/ \E d \in Devs : Limit!Unbind(d) \/ \E u \in Users : Limit!Bind(d, u)
           \/ Limit!Acknowledge
  <2>1. UNCHANGED <<rows, req>>
    BY <1>3 DEF Limit!Unbind, Limit!Bind, Limit!Acknowledge
  <2> QED
    BY <1>1, <2>1
<1>4. CASE Limit!Next
  BY <1>2, <1>3, <1>4, ArrivesKeeps, DeliveriesKeep DEF Limit!Next
<1> QED
  BY <1>1, <1>4 DEF serverVars

LEMMA LimitFromInv == ContactInv => Limit!ManualWithinLimit
<1>1. \A d \in Devs :
          {p \in Limit!Accepted(d) : rows[p].source = "manual"} = ByRequest(rows, d)
  BY DEF Limit!Accepted, Limit!Touching, Limit!Is, ByRequest
<1> QED
  BY <1>1, SameCardinality DEF Limit!ManualWithinLimit, ContactInv, LimitInv

\* While an answer is under way it holds its row, its devices belong to no other
\* answer, and what it counted does not grow.
THEOREM AnswersInductive == ContactsSpec => [](part = "limit" => ContactInv)
<1>1. ContactsInit => (part = "limit" => ContactInv)
  BY ContactInitInv DEF ContactsInit
<1>2. /\ part = "limit" => ContactInv
      /\ [ContactsNext]_<<part, listVars, serverVars>>
      => (part = "limit" => ContactInv)'
  <2> SUFFICES ASSUME part = "limit" => ContactInv, part' = "limit",
                      [ContactsNext]_<<part, listVars, serverVars>>
               PROVE  ContactInv'
    OBVIOUS
  <2>1. part = "limit" /\ [Limit!Next]_serverVars
    BY DEF ContactsNext
  <2> QED
    BY <2>1, ContactStepInv
<1> QED
  BY <1>1, <1>2, PTL DEF ContactsSpec

\* No device gets more contacts by request than the limit, for any number of
\* devices, users, requests and any limit.
THEOREM ManualWithinLimitAlways == ContactsSpec => []ManualWithinLimit
<1>1. (part = "limit" => ContactInv) => ManualWithinLimit
  BY LimitFromInv DEF ManualWithinLimit
<1> QED
  BY <1>1, AnswersInductive, PTL

-----------------------------------------------------------------------------
(* The WeChat list of a device.  It has one writer at a time: the main     *)
(* thread before MQTT runs, when nobody has asked the worker for anything, *)
(* then the worker, whose answer is never older than the list.             *)

ListInv ==
    /\ edition \in Nat /\ list \in Nat /\ list <= edition
    /\ fetched \in [{"worker", "main"} -> Nat]
    /\ \A w \in {"worker", "main"} : fetched[w] <= edition
    /\ thread \in {"fetch", "answer"} =>
          refresher = "wait" /\ ~requested /\ ~ended /\ cmd = "idle" /\ list = 0
    /\ refresher = "answer" => list <= fetched["worker"]

\* What the device was told last is in the list, or on its way into it: asked
\* for, being fetched, or in the answer of the worker.
Followed ==
    \/ requested \/ ended \/ refresher = "fetch"
    \/ refresher = "answer" /\ fetched["worker"] >= owed
    \/ list >= owed

NoticeInv ==
    /\ owed \in Nat /\ owed <= edition
    /\ thread \in {"fetch", "answer"} => owed = 0
    /\ thread = "join" => ended
    /\ Followed

\* The steps of the list are those of Contacts, or nothing happens to it.
LEMMA ListStepKeeps ==
    ASSUME ListInv, WxList!Next
    PROVE  ListInv' /\ (list' # list /\ list' # 0 => list' >= list)
<1> USE DEF ListInv, WxList!serverVars, WxList!refreshVars
<1>1. CASE \/ WxList!TakeRequest \/ WxList!FetchFails \/ WxList!FetchOver
           \/ WxList!WorkerExits
  <2>1. /\ refresher # "wait" \/ requested \/ ended
        /\ refresher' # "answer"
        /\ requested' => requested
        /\ UNCHANGED <<edition, thread, ended, fetched, list, cmd>>
    BY <1>1
    DEF WxList!TakeRequest, WxList!FetchFails, WxList!FetchOver, WxList!WorkerExits
  <2> QED
    BY <2>1
<1>2. CASE WxList!FetchAnswered
  BY <1>2 DEF WxList!FetchAnswered
<1>3. CASE WxList!SetList
  BY <1>3 DEF WxList!SetList
<1>4. CASE WxList!FirstFetch
  BY <1>4 DEF WxList!FirstFetch
<1>5. CASE WxList!FirstList
  BY <1>5 DEF WxList!FirstList
<1>6. CASE WxList!WxChanges \/ WxList!Lost \/ WxList!DialWx
  BY <1>6 DEF WxList!WxChanges, WxList!Lost, WxList!DialWx
<1>7. CASE WxList!Destroy \/ WxList!Join
  BY <1>7 DEF WxList!Destroy, WxList!Join
<1>8. CASE WxList!WxNotice \/ \E b \in BOOLEAN : WxList!DialAnswered(b)
  <2>1. /\ thread \notin {"fetch", "answer"} \/ cmd = "dial"
        /\ UNCHANGED <<edition, thread, refresher, fetched, list, ended>>
    BY <1>8 DEF WxList!WxNotice, WxList!DialAnswered
  <2> QED
    BY <2>1
<1> QED
  BY <1>1, <1>2, <1>3, <1>4, <1>5, <1>6, <1>7, <1>8 DEF WxList!Next, WxList!Refresh

\* A request that comes while the worker runs survives it, and an answer that is
\* stored is as new as what was owed when nothing was asked for meanwhile.
LEMMA NoticeStepKeeps ==
    ASSUME ListInv, NoticeInv, WxList!Next
    PROVE  NoticeInv'
<1> USE DEF NoticeInv, Followed, WxList!serverVars, WxList!refreshVars
<1>0. /\ edition \in Nat /\ list \in Nat /\ fetched \in [{"worker", "main"} -> Nat]
      /\ refresher = "answer" => list <= fetched["worker"]
      /\ thread \in {"fetch", "answer"} => cmd = "idle" /\ refresher = "wait" /\ list = 0
  BY DEF ListInv
<1>1. CASE WxList!TakeRequest \/ WxList!FetchOver \/ WxList!WorkerExits
  BY <1>0, <1>1 DEF WxList!TakeRequest, WxList!FetchOver, WxList!WorkerExits
<1>2. CASE WxList!FetchAnswered
  BY <1>0, <1>2 DEF WxList!FetchAnswered
<1>3. CASE WxList!FetchFails
  BY <1>0, <1>3 DEF WxList!FetchFails
<1>4. CASE WxList!SetList
  BY <1>0, <1>4 DEF WxList!SetList
<1>5. CASE WxList!FirstFetch \/ WxList!FirstList
  BY <1>0, <1>5 DEF WxList!FirstFetch, WxList!FirstList
<1>6. CASE WxList!WxChanges \/ WxList!Lost \/ WxList!DialWx
  BY <1>0, <1>6 DEF WxList!WxChanges, WxList!Lost, WxList!DialWx
<1>7. CASE WxList!Destroy \/ WxList!Join
  BY <1>0, <1>7 DEF WxList!Destroy, WxList!Join
<1>8. CASE WxList!WxNotice
  <2>1. /\ owed' = IF ended THEN owed ELSE edition
        /\ UNCHANGED <<edition, thread, ended, refresher, fetched, list>>
        /\ thread = "run"
    BY <1>8 DEF WxList!WxNotice, WxList!Told
  <2>2. (requested => requested') /\ (~ended => requested')
    BY <1>8, Zenon DEF WxList!WxNotice, WxList!AskForRefresh
  <2> QED
    BY <1>0, <2>1, <2>2
<1>9. ASSUME NEW b \in BOOLEAN, WxList!DialAnswered(b) PROVE NoticeInv'
  BY <1>0, <1>9 DEF WxList!DialAnswered, WxList!AskForRefresh, WxList!Told
<1> QED
  BY <1>1, <1>2, <1>3, <1>4, <1>5, <1>6, <1>7, <1>8, <1>9 DEF WxList!Next, WxList!Refresh

LEMMA ListInvInit == ContactsInit => ListInv /\ NoticeInv
BY DEF ContactsInit, WxList!Init, ListInv, NoticeInv, Followed

LEMMA ListNext ==
    ASSUME ListInv, [ContactsNext]_<<part, listVars, serverVars>>
    PROVE  ListInv' /\ (list' # list /\ list' # 0 => list' >= list)
<1>1. WxList!Next \/ UNCHANGED listVars
  BY DEF ContactsNext
<1>2. CASE UNCHANGED listVars
  BY <1>2 DEF listVars, ListInv
<1> QED
  BY <1>1, <1>2, ListStepKeeps

\* No callers_update and no refused dial is swallowed by the refresh that runs
\* when it comes: once the worker rests and the session goes on, the list is no
\* older than what the server had when the device was last told, unless a fetch
\* has failed since; for any number of lists.
THEOREM NoticesAreFollowedAlways == ContactsSpec => []NoticesAreFollowed
<1>1. ContactsInit => ListInv /\ NoticeInv
  BY ListInvInit
<1>2. ListInv /\ NoticeInv /\ [ContactsNext]_<<part, listVars, serverVars>>
      => (ListInv /\ NoticeInv)'
  <2> SUFFICES ASSUME ListInv, NoticeInv, [ContactsNext]_<<part, listVars, serverVars>>
               PROVE  (ListInv /\ NoticeInv)'
    OBVIOUS
  <2>1. WxList!Next \/ UNCHANGED listVars
    BY DEF ContactsNext
  <2>2. CASE UNCHANGED listVars
    BY <2>2 DEF listVars, ListInv, NoticeInv, Followed
  <2> QED
    BY <2>1, <2>2, ListNext, NoticeStepKeeps
<1>3. NoticeInv => NoticesAreFollowed
  <2> SUFFICES ASSUME NoticeInv, refresher = "wait", ~requested, ~ended
               PROVE  list >= owed
    BY DEF NoticesAreFollowed, WxList!NoticesAreFollowed
  <2> QED
    BY DEF NoticeInv, Followed
<1> QED
  BY <1>1, <1>2, <1>3, PTL DEF ContactsSpec

-----------------------------------------------------------------------------
(* The contacts that change hands: no list brings one back.  The row that  *)
(* is being answered stays pending, since every write waits for it and no  *)
(* other answer holds one of its devices.                                  *)

\* What the steps need of the form of the state.
TurnForm ==
    /\ rows = [p \in Turnover!Pairs |-> rows[p]]
    /\ \A p \in Turnover!Pairs : "status" \in DOMAIN rows[p]
    /\ req = [r \in Reqs |-> req[r]]
    /\ \A r \in Reqs : "pc" \in DOMAIN req[r]

TurnInv ==
    /\ TurnForm
    /\ \A r \in Reqs : req[r].pc = "commit" /\ Between(req[r]) \in Turnover!Pairs =>
          rows[Between(req[r])].status = "pending"
    /\ \A r, s \in Reqs : r # s /\ req[r].pc = "commit" /\ req[s].pc = "commit" =>
          Between(req[r]) \cap Between(req[s]) = {}

\* No answer is begun, and those under way keep their rows.
TurnOn ==
    \A r \in Reqs : req'[r].pc = "commit" =>
        /\ req[r].pc = "commit" /\ Between(req'[r]) = Between(req[r])
        /\ Between(req[r]) \in Turnover!Pairs =>
              rows'[Between(req[r])].status = rows[Between(req[r])].status

LEMMA TurnOnKeeps == ASSUME TurnInv, TurnOn, TurnForm' PROVE TurnInv'
BY DEF TurnInv, TurnOn

\* A statement writes a row nobody answers; a request goes on.
Moves(r, q) == req' = [req EXCEPT ![r] = q] /\ "pc" \in DOMAIN q /\ q.pc # "commit"
WritesRow(p, e) ==
    ~Turnover!RowLocked(p) /\ rows' = [rows EXCEPT ![p] = e] /\ "status" \in DOMAIN e

LEMMA PairIsBetween == ASSUME NEW r PROVE Turnover!Pair(r) = Between(req[r])
BY DEF Turnover!Pair, Between

LEMMA LockedIs ==
    ASSUME NEW r \in Reqs, req[r].pc = "commit" PROVE Turnover!RowLocked(Between(req[r]))
BY DEF Turnover!RowLocked, Turnover!Answering, Turnover!Pair, Between

LEMMA MovesOn ==
    ASSUME TurnInv, NEW r \in Reqs, NEW q, Moves(r, q),
           UNCHANGED rows \/ \E p \in Turnover!Pairs : \E e : WritesRow(p, e)
    PROVE  TurnInv'
<1>1. /\ req = [s \in Reqs |-> req[s]] /\ rows = [o \in Turnover!Pairs |-> rows[o]]
      /\ \A o \in Turnover!Pairs : "status" \in DOMAIN rows[o]
      /\ \A s \in Reqs : "pc" \in DOMAIN req[s]
  BY DEF TurnInv, TurnForm
<1>2. /\ req' = [s \in Reqs |-> req'[s]] /\ req'[r] = q
      /\ \A s \in Reqs \ {r} : req'[s] = req[s]
  BY <1>1 DEF Moves
<1>3. CASE UNCHANGED rows
  BY <1>1, <1>2, <1>3, TurnOnKeeps DEF TurnOn, TurnForm, Moves
<1>4. ASSUME NEW p \in Turnover!Pairs, NEW e, WritesRow(p, e) PROVE TurnInv'
  <2>1. /\ rows' = [o \in Turnover!Pairs |-> rows'[o]] /\ rows'[p] = e
        /\ \A o \in Turnover!Pairs \ {p} : rows'[o] = rows[o]
    BY <1>1, <1>4 DEF WritesRow
  <2>2. TurnForm'
    BY <1>1, <1>2, <1>4, <2>1 DEF TurnForm, Moves, WritesRow
  <2>3. TurnOn
    <3>1. \A s \in Reqs : req[s].pc = "commit" => Between(req[s]) # p
      BY <1>4, LockedIs DEF WritesRow
    <3> QED
      BY <1>2, <2>1, <3>1 DEF TurnOn, Moves
  <2> QED
    BY <2>2, <2>3, TurnOnKeeps
<1> QED
  BY <1>3, <1>4

LEMMA DoneOn ==
    ASSUME TurnInv, NEW r \in Reqs, Turnover!Done(r) PROVE \E q : Moves(r, q)
<1>1. "pc" \in DOMAIN Turnover!NoRequest /\ Turnover!NoRequest.pc = "free"
  BY DEF Turnover!NoRequest
<1>2. Moves(r, Turnover!NoRequest)
  BY <1>1 DEF Moves, Turnover!Done
<1> QED
  BY <1>2

LEMMA ToOn ==
    ASSUME TurnInv, NEW r \in Reqs, NEW l, l # "commit", Turnover!To(r, l)
    PROVE  \E q : Moves(r, q)
<1> DEFINE q == [req[r] EXCEPT !.pc = l]
<1>1. req = [s \in Reqs |-> req[s]] /\ "pc" \in DOMAIN req[r]
  BY DEF TurnInv, TurnForm
<1>2. req' = [req EXCEPT ![r] = q]
  BY <1>1 DEF Turnover!To
<1>3. "pc" \in DOMAIN q /\ q.pc = l
  BY <1>1
<1>4. Moves(r, q)
  BY <1>2, <1>3 DEF Moves
<1> QED
  BY <1>4

LEMMA AsksOn ==
    ASSUME TurnInv, NEW r \in Reqs, Turnover!Arrives(r) PROVE TurnInv'
<1>1. ASSUME NEW op, NEW l, NEW a, NEW b, NEW u, NEW ok, NEW h, l # "commit",
             Turnover!Ask(r, op, l, a, b, u, ok, h)
      PROVE  TurnInv'
  <2> DEFINE q == [Turnover!NoRequest EXCEPT !.op = op, !.pc = l, !.self = a, !.peer = b,
                                             !.user = u, !.accept = ok, !.held = h]
  <2>1. "pc" \in DOMAIN q /\ q.pc = l
    BY DEF Turnover!NoRequest
  <2>2. req' = [req EXCEPT ![r] = q] /\ UNCHANGED rows
    BY <1>1 DEF Turnover!Ask
  <2> QED
    BY <1>1, <2>1, <2>2, MovesOn DEF Moves
<1> QED
  BY <1>1
  DEF Turnover!Arrives, Turnover!do_add_contact, Turnover!do_respond_contact,
      Turnover!do_delete_contact, Turnover!ListOrCall, Turnover!postUserContactRequest,
      Turnover!deleteUserContact, Turnover!postUserContactRespond

\* What the handlers write, and that no list brings a contact back.
Revives(p) ==
    /\ p \in Turnover!Pairs /\ rows[p].status \in {"deleted", "rejected"}
    /\ rows'[p].status = "accepted"

LEMMA HandlersOn ==
    ASSUME TurnInv, NEW r \in Reqs,
           \/ Turnover!ReadBinds(r) \/ Turnover!CheckRequest(r) \/ Turnover!ReadById(r)
           \/ Turnover!FindContact(r) \/ Turnover!LookForContact(r)
           \/ Turnover!LookForAccount(r) \/ Turnover!contactPeers(r)
           \/ Turnover!publishCallersUpdate(r)
    PROVE  TurnInv' /\ UNCHANGED rows
<1>1. /\ req = [s \in Reqs |-> req[s]] /\ "pc" \in DOMAIN req[r]
  BY DEF TurnInv, TurnForm
<1>2. CASE \/ Turnover!ReadBinds(r) \/ Turnover!CheckRequest(r)
           \/ Turnover!LookForContact(r) \/ Turnover!LookForAccount(r)
           \/ Turnover!contactPeers(r) \/ Turnover!publishCallersUpdate(r)
  <2>1. UNCHANGED rows
    BY <1>2
    DEF Turnover!ReadBinds, Turnover!CheckRequest, Turnover!LookForContact,
        Turnover!LookForAccount, Turnover!contactPeers, Turnover!publishCallersUpdate
  <2>2. \/ Turnover!Done(r)
        \/ \E l \in {"auto", "check", "insert", "binds", "materialize", "wipe"} :
              Turnover!To(r, l)
    BY <1>2
    DEF Turnover!ReadBinds, Turnover!CheckRequest, Turnover!LookForContact,
        Turnover!LookForAccount, Turnover!contactPeers, Turnover!publishCallersUpdate
  <2>3. PICK q : Moves(r, q)
    BY <2>2, DoneOn, ToOn
  <2> QED
    BY <2>1, <2>3, MovesOn
<1>3. CASE Turnover!ReadById(r)
  <2>1. UNCHANGED rows
    BY <1>3 DEF Turnover!ReadById
  <2>2. CASE Turnover!Done(r)
    <3>1. PICK q : Moves(r, q)
      BY <2>2, DoneOn, ToOn
    <3> QED
      BY <2>1, <3>1, MovesOn
  <2>3. ASSUME NEW a, NEW b, NEW l \in {"answer", "find"},
               req' = [req EXCEPT ![r].self = a, ![r].peer = b, ![r].pc = l]
        PROVE  TurnInv'
    <3> DEFINE q == [req[r] EXCEPT !.self = a, !.peer = b, !.pc = l]
    <3>1. req' = [req EXCEPT ![r] = q]
      BY <1>1, <2>3
    <3>2. "pc" \in DOMAIN q /\ q.pc = l
      BY <1>1
    <3> QED
      BY <2>1, <3>1, <3>2, MovesOn DEF Moves
  <2> DEFINE u == req[r].user
             p == Turnover!Pair(r)
             sides == IF req[r].op = "respond" THEN p \ {rows[p].by} ELSE p
             mine == {d \in sides : owner[d] = u}
             a == Turnover!Min(mine)
             b == Turnover!Max(p \ {a})
             l == IF req[r].op = "respond" THEN "answer" ELSE "find"
  <2>4. \/ Turnover!Done(r)
        \/ req' = [req EXCEPT ![r].self = a, ![r].peer = b, ![r].pc = l]
    BY <1>3 DEF Turnover!ReadById
  <2>5. l \in {"answer", "find"}
    OBVIOUS
  <2> HIDE DEF a, b, l
  <2> QED
    BY <2>1, <2>2, <2>3, <2>4, <2>5
<1>4. CASE Turnover!FindContact(r)
  <2>1. UNCHANGED rows
    BY <1>4 DEF Turnover!FindContact
  <2>2. CASE Turnover!Done(r)
    <3>1. PICK q : Moves(r, q)
      BY <2>2, DoneOn, ToOn
    <3> QED
      BY <2>1, <3>1, MovesOn
  <2>3. CASE req' = [req EXCEPT ![r].pc = "erase", ![r].held = TRUE]
    <3> DEFINE q == [req[r] EXCEPT !.pc = "erase", !.held = TRUE]
    <3>1. req' = [req EXCEPT ![r] = q]
      BY <1>1, <2>3
    <3>2. "pc" \in DOMAIN q /\ q.pc = "erase"
      BY <1>1
    <3> QED
      BY <2>1, <3>1, <3>2, MovesOn DEF Moves
  <2> QED
    BY <1>4, <2>1, <2>2, <2>3 DEF Turnover!FindContact
<1> QED
  BY <1>2, <1>3, <1>4

\* The statements that write a row.
LEMMA WritersOn ==
    ASSUME TurnInv, NEW r \in Reqs,
           \/ Turnover!createRequest(r) \/ Turnover!upsertAutoContact(r)
           \/ Turnover!deleteContact(r) \/ Turnover!ensureContact(r)
    PROVE  /\ TurnInv'
           /\ \A p : Revives(p) => req[r].pc = "auto"
<1> DEFINE p == Turnover!Pair(r)
<1>1. /\ rows = [o \in Turnover!Pairs |-> rows[o]]
      /\ \A o \in Turnover!Pairs : "status" \in DOMAIN rows[o]
  BY DEF TurnInv, TurnForm
<1>2. \E q : Moves(r, q)
  <2>1. Turnover!Done(r) \/ Turnover!To(r, "publish")
    BY DEF Turnover!createRequest, Turnover!upsertAutoContact, Turnover!deleteContact,
           Turnover!ensureContact
  <2> QED
    BY <2>1, DoneOn, ToOn
<1>3. CASE UNCHANGED rows
  <2>1. \A o : ~Revives(o)
    BY <1>3 DEF Revives
  <2> QED
    BY <1>2, <1>3, <2>1, MovesOn
<1>4. ASSUME NEW e, rows' = [rows EXCEPT ![p] = e], "status" \in DOMAIN e,
             ~Turnover!RowLocked(p),
             e.status = "accepted" => req[r].pc = "auto" \/ rows[p].status = "none"
      PROVE  /\ TurnInv'
             /\ \A o : Revives(o) => req[r].pc = "auto"
  <2>1. CASE p \notin Turnover!Pairs
    <3>1. UNCHANGED rows
      BY <1>1, <1>4, <2>1
    <3> QED
      BY <1>3, <3>1
  <2>2. CASE p \in Turnover!Pairs
    <3>1. TurnInv'
      BY <1>2, <1>4, <2>2, MovesOn DEF WritesRow
    <3>2. rows'[p] = e /\ \A o \in Turnover!Pairs \ {p} : rows'[o] = rows[o]
      BY <1>1, <1>4, <2>2
    <3>3. ASSUME NEW o, Revives(o) PROVE req[r].pc = "auto"
      <4>1. o = p
        BY <3>2, <3>3 DEF Revives
      <4> QED
        BY <1>4, <3>2, <3>3, <4>1 DEF Revives
    <3> QED
      BY <3>1, <3>3
  <2> QED
    BY <2>1, <2>2
<1>5. ASSUME NEW status, NEW source, NEW by, Turnover!Write(p, status, source, by),
             ~Turnover!RowLocked(p),
             status = "accepted" => req[r].pc = "auto" \/ rows[p] = Turnover!NoRow
      PROVE  /\ TurnInv'
             /\ \A o : Revives(o) => req[r].pc = "auto"
  <2> DEFINE e == [status |-> status, source |-> source, by |-> by]
  <2>1. rows' = [rows EXCEPT ![p] = e]
    BY <1>5 DEF Turnover!Write
  <2>2. "status" \in DOMAIN e /\ e.status = status
    OBVIOUS
  <2>3. status = "accepted" => req[r].pc = "auto" \/ rows[p].status = "none"
    BY <1>5 DEF Turnover!NoRow
  <2> HIDE DEF e, p
  <2> QED
    BY <1>4, <1>5, <2>1, <2>2, <2>3
<1>6. CASE Turnover!createRequest(r)
  BY <1>5, <1>6 DEF Turnover!createRequest
<1>7. CASE Turnover!upsertAutoContact(r)
  BY <1>5, <1>7 DEF Turnover!upsertAutoContact
<1>8. CASE Turnover!ensureContact(r)
  BY <1>3, <1>5, <1>8 DEF Turnover!ensureContact, Turnover!Has
<1>9. CASE Turnover!deleteContact(r)
  <2>1. UNCHANGED rows \/ rows' = [rows EXCEPT ![p].status = "deleted"]
    BY <1>9 DEF Turnover!deleteContact
  <2>2. CASE rows' = [rows EXCEPT ![p].status = "deleted"] /\ p \notin Turnover!Pairs
    <3>1. UNCHANGED rows
      BY <1>1, <2>2
    <3> QED
      BY <1>3, <3>1
  <2>3. CASE rows' = [rows EXCEPT ![p].status = "deleted"] /\ p \in Turnover!Pairs
    <3> DEFINE e == [rows[p] EXCEPT !.status = "deleted"]
    <3>1. rows' = [rows EXCEPT ![p] = e]
      BY <1>1, <2>3
    <3>2. "status" \in DOMAIN e /\ e.status = "deleted"
      BY <1>1, <2>3
    <3>3. ~Turnover!RowLocked(p)
      BY <1>9 DEF Turnover!deleteContact
    <3> HIDE DEF e, p
    <3> QED
      BY <1>4, <3>1, <3>2, <3>3
  <2> QED
    BY <1>3, <2>1, <2>2, <2>3
<1> QED
  BY <1>6, <1>7, <1>8, <1>9

\* An answer begins when its row is pending and no answer holds its devices ...
LEMMA AnswerBegins ==
    ASSUME TurnInv, NEW r \in Reqs, Turnover!respondRequest(r)
    PROVE  TurnInv' /\ UNCHANGED rows
<1>1. /\ req = [s \in Reqs |-> req[s]] /\ rows = [o \in Turnover!Pairs |-> rows[o]]
      /\ \A o \in Turnover!Pairs : "status" \in DOMAIN rows[o]
      /\ \A s \in Reqs : "pc" \in DOMAIN req[s]
  BY DEF TurnInv, TurnForm
<1>2. UNCHANGED rows
  BY DEF Turnover!respondRequest
<1>3. CASE Turnover!Done(r)
  <2>1. PICK q : Moves(r, q)
    BY <1>3, DoneOn
  <2> QED
    BY <1>2, <2>1, MovesOn
<1>4. CASE Turnover!To(r, "commit") /\ Turnover!MayAnswer(r)
  <2> DEFINE q == [req[r] EXCEPT !.pc = "commit"]
  <2>1. req'[r] = q /\ req' = [s \in Reqs |-> req'[s]]
        /\ \A s \in Reqs \ {r} : req'[s] = req[s]
    BY <1>1, <1>4 DEF Turnover!To
  <2>2. "pc" \in DOMAIN q /\ q.pc = "commit" /\ q.self = req[r].self /\ q.peer = req[r].peer
    BY <1>1
  <2> HIDE DEF q
  <2>3. Between(req'[r]) = Between(req[r])
    BY <2>1, <2>2 DEF Between
  <2>4. rows[Between(req[r])].status = "pending"
    BY <1>4 DEF Turnover!MayAnswer, Turnover!Is, Turnover!Pair, Between
  <2>5. \A s \in Reqs : req[s].pc = "commit" =>
            Between(req[r]) \cap Between(req[s]) = {}
    BY DEF Turnover!respondRequest, Turnover!BindLocked, Turnover!Answering, Turnover!Pair,
           Between
  <2>6. TurnForm'
    BY <1>1, <1>2, <2>1, <2>2 DEF TurnForm
  <2>7. \A s \in Reqs : req'[s].pc = "commit" /\ Between(req'[s]) \in Turnover!Pairs =>
            rows'[Between(req'[s])].status = "pending"
    BY <1>2, <2>1, <2>3, <2>4 DEF TurnInv
  <2>8. \A s, t \in Reqs : s # t /\ req'[s].pc = "commit" /\ req'[t].pc = "commit" =>
            Between(req'[s]) \cap Between(req'[t]) = {}
    BY <2>1, <2>3, <2>5 DEF TurnInv
  <2> QED
    BY <1>2, <2>6, <2>7, <2>8 DEF TurnInv
<1> QED
  BY <1>3, <1>4 DEF Turnover!respondRequest

\* ... and turns a row that is still pending.
LEMMA AnswerCommits ==
    ASSUME TurnInv, NEW r \in Reqs, Turnover!CommitAnswer(r)
    PROVE  TurnInv' /\ \A o : ~Revives(o)
<1> DEFINE p == Between(req[r])
           status == IF req[r].accept THEN "accepted" ELSE "rejected"
           q == [req[r] EXCEPT !.pc = "publish"]
<1>1. /\ req = [s \in Reqs |-> req[s]] /\ rows = [o \in Turnover!Pairs |-> rows[o]]
      /\ \A o \in Turnover!Pairs : "status" \in DOMAIN rows[o]
      /\ \A s \in Reqs : "pc" \in DOMAIN req[s]
  BY DEF TurnInv, TurnForm
<1>2. req[r].pc = "commit" /\ rows' = [rows EXCEPT ![p].status = status]
  BY PairIsBetween DEF Turnover!CommitAnswer
<1>3. req' = [req EXCEPT ![r] = q]
  BY <1>1 DEF Turnover!CommitAnswer, Turnover!To
<1>4. "pc" \in DOMAIN q /\ q.pc = "publish"
  BY <1>1
<1>5. /\ req' = [s \in Reqs |-> req'[s]] /\ req'[r].pc = "publish"
      /\ \A s \in Reqs \ {r} : req'[s] = req[s]
      /\ \A s \in Reqs : "pc" \in DOMAIN req'[s]
  BY <1>1, <1>3, <1>4
<1>6. /\ rows' = [o \in Turnover!Pairs |-> rows'[o]]
      /\ \A o \in Turnover!Pairs : "status" \in DOMAIN rows'[o]
      /\ \A o \in Turnover!Pairs \ {p} : rows'[o] = rows[o]
  BY <1>1, <1>2
<1>7. TurnForm'
  BY <1>5, <1>6 DEF TurnForm
<1>8. TurnOn
  <2> SUFFICES ASSUME NEW s \in Reqs, req'[s].pc = "commit"
               PROVE  /\ req[s].pc = "commit" /\ Between(req'[s]) = Between(req[s])
                      /\ Between(req[s]) \in Turnover!Pairs =>
                            rows'[Between(req[s])].status = rows[Between(req[s])].status
    BY DEF TurnOn
  <2>1. s # r /\ req'[s] = req[s]
    BY <1>5
  <2>2. p \cap Between(req[s]) = {}
    BY <1>2, <2>1 DEF TurnInv
  <2>3. Between(req[s]) # p
    BY <2>2 DEF Between
  <2> HIDE DEF p
  <2> QED
    BY <1>6, <2>1, <2>3
<1>9. ASSUME NEW o, Revives(o) PROVE FALSE
  <2>1. o = p
    BY <1>6, <1>9 DEF Revives
  <2> HIDE DEF p
  <2>2. rows[p].status = "pending"
    BY <1>2, <1>9, <2>1 DEF TurnInv, Revives, p
  <2> QED
    BY <1>9, <2>1, <2>2 DEF Revives
<1> QED
  BY <1>7, <1>8, <1>9, TurnOnKeeps

\* The clean-up deletes no row that is being answered.
LEMMA WipeOn ==
    ASSUME TurnInv, NEW r \in Reqs, Turnover!deleteAllContacts(r)
    PROVE  TurnInv' /\ \A o : ~Revives(o)
<1> DEFINE d == req[r].self
<1>1. /\ req = [s \in Reqs |-> req[s]] /\ rows = [o \in Turnover!Pairs |-> rows[o]]
      /\ \A o \in Turnover!Pairs : "status" \in DOMAIN rows[o]
      /\ \A s \in Reqs : "pc" \in DOMAIN req[s]
  BY DEF TurnInv, TurnForm
<1>2. /\ \A p \in Turnover!Touching(d) : ~Turnover!RowLocked(p)
      /\ rows' = [p \in Turnover!Pairs |-> IF d \in p THEN Turnover!NoRow ELSE rows[p]]
      /\ req' = [s \in Reqs |-> IF s = r THEN [req[s] EXCEPT !.pc = "publish"]
                                ELSE IF d \in Turnover!Pair(s) THEN [req[s] EXCEPT !.held = FALSE]
                                ELSE req[s]]
  BY DEF Turnover!deleteAllContacts
<1>3. "status" \in DOMAIN Turnover!NoRow /\ Turnover!NoRow.status = "none"
  BY DEF Turnover!NoRow
<1> HIDE DEF d
<1>4. /\ rows' = [o \in Turnover!Pairs |-> rows'[o]]
      /\ \A o \in Turnover!Pairs : "status" \in DOMAIN rows'[o]
      /\ \A o \in Turnover!Pairs : rows'[o] = Turnover!NoRow \/ rows'[o] = rows[o]
      /\ \A o \in Turnover!Pairs : d \notin o => rows'[o] = rows[o]
  BY <1>1, <1>2, <1>3
<1>5. ASSUME NEW s \in Reqs
      PROVE  /\ "pc" \in DOMAIN req'[s]
             /\ req'[s].pc = "commit" => req[s].pc = "commit"
             /\ Between(req'[s]) = Between(req[s])
  <2>1. \/ req'[s] = [req[s] EXCEPT !.pc = "publish"]
        \/ req'[s] = [req[s] EXCEPT !.held = FALSE]
        \/ req'[s] = req[s]
    BY <1>2
  <2>2. /\ "pc" \in DOMAIN [req[s] EXCEPT !.pc = "publish"]
        /\ [req[s] EXCEPT !.pc = "publish"].pc = "publish"
        /\ Between([req[s] EXCEPT !.pc = "publish"]) = Between(req[s])
    BY <1>1 DEF Between
  <2>3. /\ "pc" \in DOMAIN [req[s] EXCEPT !.held = FALSE]
        /\ [req[s] EXCEPT !.held = FALSE].pc = req[s].pc
        /\ Between([req[s] EXCEPT !.held = FALSE]) = Between(req[s])
    BY <1>1 DEF Between
  <2> QED
    BY <1>1, <2>1, <2>2, <2>3
<1>6. req' = [s \in Reqs |-> req'[s]]
  BY <1>2
<1>7. TurnForm'
  BY <1>4, <1>5, <1>6 DEF TurnForm
<1>8. TurnOn
  <2> SUFFICES ASSUME NEW s \in Reqs, req'[s].pc = "commit",
                      Between(req[s]) \in Turnover!Pairs
               PROVE  rows'[Between(req[s])].status = rows[Between(req[s])].status
    BY <1>5 DEF TurnOn
  <2>1. Turnover!RowLocked(Between(req[s]))
    BY <1>5, LockedIs
  <2>2. d \notin Between(req[s])
    BY <1>2, <2>1 DEF Turnover!Touching
  <2> QED
    BY <1>4, <2>2
<1>9. \A o : ~Revives(o)
  BY <1>3, <1>4 DEF Revives
<1> QED
  BY <1>7, <1>8, <1>9, TurnOnKeeps

LEMMA TurnStep ==
    ASSUME TurnInv, [Turnover!Next]_serverVars
    PROVE  TurnInv' /\ Turnover!ListsDoNotRevive
<1>1. ASSUME UNCHANGED rows PROVE \A o : ~Revives(o)
  BY <1>1 DEF Revives
<1>2. CASE UNCHANGED <<rows, req>>
  BY <1>1, <1>2 DEF TurnInv, TurnForm, Turnover!ListsDoNotRevive, Turnover!Is
<1>3. ASSUME TurnInv', \A o : Revives(o) => \E r \in Reqs : req[r].pc = "auto"
      PROVE  TurnInv' /\ Turnover!ListsDoNotRevive
  BY <1>3 DEF Turnover!ListsDoNotRevive, Turnover!Is, Revives
<1>4. ASSUME NEW r \in Reqs, Turnover!Handles(r)
      PROVE  TurnInv' /\ Turnover!ListsDoNotRevive
  <2>1. CASE \/ Turnover!ReadBinds(r) \/ Turnover!CheckRequest(r) \/ Turnover!ReadById(r)
             \/ Turnover!FindContact(r) \/ Turnover!LookForContact(r)
             \/ Turnover!LookForAccount(r) \/ Turnover!contactPeers(r)
             \/ Turnover!publishCallersUpdate(r)
    BY <1>1, <1>3, <2>1, HandlersOn
  <2>2. CASE \/ Turnover!createRequest(r) \/ Turnover!upsertAutoContact(r)
             \/ Turnover!deleteContact(r) \/ Turnover!ensureContact(r)
    BY <1>3, <2>2, WritersOn
  <2>3. CASE Turnover!respondRequest(r)
    BY <1>1, <1>3, <2>3, AnswerBegins
  <2>4. CASE Turnover!CommitAnswer(r) \/ Turnover!deleteAllContacts(r)
    BY <1>3, <2>4, AnswerCommits, WipeOn
  <2> QED
    BY <1>4, <2>1, <2>2, <2>3, <2>4 DEF Turnover!Handles
<1>5. ASSUME NEW r \in Reqs, Turnover!Arrives(r)
      PROVE  TurnInv' /\ Turnover!ListsDoNotRevive
  <2>1. UNCHANGED rows
    BY <1>5
    DEF Turnover!Arrives, Turnover!Ask, Turnover!do_add_contact, Turnover!do_respond_contact,
        Turnover!do_delete_contact, Turnover!ListOrCall, Turnover!postUserContactRequest,
        Turnover!deleteUserContact, Turnover!postUserContactRespond
  <2> QED
    BY <1>1, <1>3, <1>5, <2>1, AsksOn
<1>6. ASSUME NEW r \in Reqs, NEW d, Turnover!Deliver(r, d)
      PROVE  TurnInv' /\ Turnover!ListsDoNotRevive
  <2> DEFINE q == [Turnover!NoRequest EXCEPT !.op = "unbind", !.pc = "peers", !.self = d]
  <2>1. "pc" \in DOMAIN q /\ q.pc = "peers"
    BY DEF Turnover!NoRequest
  <2>2. Moves(r, q) /\ UNCHANGED rows
    BY <1>6, <2>1 DEF Turnover!Deliver, Moves
  <2> QED
    BY <1>1, <1>3, <2>2, MovesOn
<1>7. CASE Turnover!DeliveryFails
  <2>1. UNCHANGED rows
    BY <1>7 DEF Turnover!DeliveryFails
  <2>2. CASE req' = [req EXCEPT ![delivers.req] = Turnover!NoRequest]
    <3>1. CASE delivers.req \in Reqs
      <4>1. PICK q : Moves(delivers.req, q)
        BY <2>2, <3>1, DoneOn DEF Turnover!Done
      <4> QED
        BY <1>1, <1>3, <2>1, <3>1, <4>1, MovesOn
    <3>2. CASE delivers.req \notin Reqs
      <4>1. UNCHANGED req
        BY <2>2, <3>2 DEF TurnInv, TurnForm
      <4> QED
        BY <1>2, <2>1, <4>1
    <3> QED
      BY <3>1, <3>2
  <2> QED
    BY <1>2, <1>7, <2>1, <2>2 DEF Turnover!DeliveryFails
<1>8. CASE \/ \E d \in TurnDevs : Turnover!Unbind(d) \/ \E u \in TurnUsers : Turnover!Bind(d, u)
           \/ Turnover!Acknowledge
  BY <1>2, <1>8 DEF Turnover!Unbind, Turnover!Bind, Turnover!Acknowledge
<1> QED
  BY <1>2, <1>4, <1>5, <1>6, <1>7, <1>8 DEF Turnover!Next, serverVars

LEMMA TurnInit == ASSUME ContactsInit, part = "turnover" PROVE TurnInv
<1>1. /\ rows = [p \in Turnover!Pairs |-> Turnover!NoRow]
      /\ req = [r \in Reqs |-> Turnover!NoRequest]
  BY DEF ContactsInit, Turnover!Init
<1>2. /\ "status" \in DOMAIN Turnover!NoRow
      /\ "pc" \in DOMAIN Turnover!NoRequest /\ Turnover!NoRequest.pc = "free"
  BY DEF Turnover!NoRow, Turnover!NoRequest
<1> QED
  BY <1>1, <1>2 DEF TurnInv, TurnForm

\* No list turns back: the WeChat list of a device is never replaced by an older
\* one, and no list or call brings back a contact the server has deleted or
\* refused, for whatever the lists hold and any number of devices, users and
\* requests.
THEOREM ListsGoForwardAlways == ContactsSpec => ListsGoForward
<1> DEFINE Inv == ListInv /\ (part = "turnover" => TurnInv)
<1>1. ContactsInit => Inv
  BY ListInvInit, TurnInit
<1>2. /\ Inv /\ [ContactsNext]_<<part, listVars, serverVars>>
      => /\ Inv'
         /\ [list' # 0 => list' >= list]_list
         /\ [part = "turnover" => Turnover!ListsDoNotRevive]_serverVars
  <2> SUFFICES ASSUME Inv, [ContactsNext]_<<part, listVars, serverVars>>
               PROVE  /\ Inv'
                      /\ [list' # 0 => list' >= list]_list
                      /\ [part = "turnover" => Turnover!ListsDoNotRevive]_serverVars
    OBVIOUS
  <2>1. ListInv' /\ [list' # 0 => list' >= list]_list
    BY ListNext
  <2>2. CASE part = "turnover"
    <3>1. [Turnover!Next]_serverVars
      BY <2>2 DEF ContactsNext
    <3> QED
      BY <2>1, <2>2, <3>1, TurnStep
  <2>3. CASE part # "turnover"
    <3>1. part' # "turnover"
      BY <2>3 DEF ContactsNext
    <3> QED
      BY <2>1, <2>3, <3>1
  <2> QED
    BY <2>2, <2>3
<1> QED
  BY <1>1, <1>2, PTL DEF ContactsSpec, ListsGoForward, WxList!ListNeverGoesBack

=============================================================================
