----------------------------- MODULE CallRooms -----------------------------
(***************************************************************************)
(* The rooms of device-to-device calls (call-server/handler/call.go,       *)
(* room.go, internal.go).  The state is in Redis:                          *)
(*   room:lock:{device}       the room a device is locked to               *)
(*   room:{id}                a hash: caller, targets, answered_by         *)
(*   room:{id}:answered       the device that won the answer               *)
(*   room:{id}:rejected_by    targets that refused, or were offline        *)
(* A request of a device or of the user server is served by a goroutine    *)
(* that makes several Redis calls; one call (or one MULTI/EXEC pipeline)   *)
(* is one step, and the goroutines of several requests interleave.  A      *)
(* goroutine may stop between two calls: the process crashes, or the       *)
(* client disconnects, which cancels the context every call uses.          *)
(*                                                                         *)
(* Left out: the TTL of the keys (hours), contacts and presence (any set   *)
(* of targets, any of them offline), tokens, and call_reject and           *)
(* callee_answered, which change nothing.  status is "answered" exactly    *)
(* when answered_by is set.                                                *)
(*                                                                         *)
(* A definition whose name ends in Mutant is a plausible wrong version of  *)
(* the one below it, which the properties must tell apart from the code's. *)
(***************************************************************************)
EXTENDS Naturals, FiniteSets

CONSTANTS
    Devices,
    Rooms,       \* the uuids createRoom may draw: a bound on calls
    Workers,     \* goroutines: how many requests may be in progress at once
    MaxDeaths    \* bound: requests that stop halfway

NONE == "NONE"

ASSUME DevicesAssumption == NONE \notin Devices /\ IsFiniteSet(Devices)
ASSUME CallRoomsAssumption == NONE \notin Rooms
ASSUME MaxDeathsAssumption == MaxDeaths \in Nat

VARIABLES
    lock,       \* room:lock:{device}
    room,       \* room:{id}
    answered,   \* room:{id}:answered
    rejected,   \* room:{id}:rejected_by
    worker,     \* the request each goroutine serves, and how far it is
    incoming,   \* call_incoming sent to a device (at least once, any delay)
    used,       \* history: rooms that were ever requested
    released,   \* history: rooms that were released
    refused,    \* history: rooms that every target refused
    granted,    \* history: devices that got the connect token of a room
    knows,      \* history: devices the handlers told that a room is over, and
                \*   devices that ended it with a request of their own
    unbound,    \* history: devices whose unbinding ended a room
    deaths,     \* requests that stopped halfway, or lost a read
    disturbed   \* history: two requests were in progress at once, or the
                \* read of a lock failed

redis == <<lock, room, answered, rejected>>
told == <<incoming, granted, knows, unbound>>
over == <<released, refused>>
vars == <<redis, worker, told, used, over, deaths, disturbed>>

-----------------------------------------------------------------------------
Hash == [caller : Devices \cup {NONE}, targets : SUBSET Devices,
         answeredBy : Devices \cup {NONE}]
NoHash == [caller |-> NONE, targets |-> {}, answeredBy |-> NONE]

\* The struct room: what a goroutine has read of a room.
Snapshot == [id : Rooms \cup {NONE}, hash : Hash]
NoSnapshot == [id |-> NONE, hash |-> NoHash]

Step == {"idle", "create", "ring", "readLock", "readOld", "dropOrphan",
         "claim", "takeLock", "overwrite", "record", "reply", "reject",
         "query", "find", "release", "tell"}

\* Why a room is released: a device asked for it, or was unbound.
Reason == {"asked", "unbound"}

\* rm is the room the request is about, old the one to be released or dropped,
\* others the online targets, or the devices to send room_cancel to.
Request == [step : Step, self : Devices \cup {NONE}, rm : Snapshot,
            old : Snapshot, others : SUBSET Devices, reason : Reason]

Idle == [step |-> "idle", self |-> NONE, rm |-> NoSnapshot,
         old |-> NoSnapshot, others |-> {}, reason |-> "asked"]

\* getRoom fails on a hash without targets, and finds nothing without a hash.
Readable(r) == room[r].caller # NONE
Broken(r) == room[r] # NoHash /\ ~Readable(r)

Read(r) == [id |-> r, hash |-> room[r]]

At(w, step) == worker[w].step = step

\* The request arrives and its first Redis call is made.
Arrive(w, request) ==
    /\ At(w, "idle")
    /\ worker' = [worker EXCEPT ![w] = request]
    /\ disturbed' = (disturbed \/ \E v \in Workers \ {w} : ~At(v, "idle"))
    /\ UNCHANGED deaths

Continue(w, step) ==
    /\ worker' = [worker EXCEPT ![w].step = step]
    /\ UNCHANGED <<deaths, disturbed>>

Finish(w) ==
    /\ worker' = [worker EXCEPT ![w] = Idle]
    /\ UNCHANGED <<deaths, disturbed>>

ContinueOrFinish(w, step, going) ==
    IF going THEN Continue(w, step) ELSE Finish(w)

-----------------------------------------------------------------------------
(* POST /v1/call/request.                                                  *)

\* acquireLock for a new room id; a caller that is locked is answered "busy".
PostCallRequest(w, self, targets, online, r) ==
    /\ self \notin targets /\ online \subseteq targets /\ online # {}
    /\ r \notin used
    /\ lock[self] = NONE
    /\ Arrive(w, [Idle EXCEPT
          !.step = "create", !.self = self, !.others = online,
          !.rm = [id |-> r, hash |-> [NoHash EXCEPT !.caller = self,
                                                    !.targets = targets]]])
    /\ lock' = [lock EXCEPT ![self] = r]
    /\ used' = used \cup {r}
    /\ UNCHANGED <<room, answered, rejected, told, over>>

\* createRoom: offline targets count as having rejected.
CreateRoom(w) ==
    LET rm == worker[w].rm IN
    /\ At(w, "create")
    /\ room' = [room EXCEPT ![rm.id] = rm.hash]
    /\ rejected' = [rejected EXCEPT
                      ![rm.id] = @ \cup (rm.hash.targets \ worker[w].others)]
    /\ Continue(w, "ring")
    /\ UNCHANGED <<lock, answered, told, used, over>>

PublishCallIncoming(w) ==
    /\ At(w, "ring")
    /\ incoming' = [d \in Devices |->
                      IF d \in worker[w].others
                        THEN incoming[d] \cup {worker[w].rm.id} ELSE incoming[d]]
    /\ Finish(w)
    /\ UNCHANGED <<redis, granted, knows, unbound, used, over>>

-----------------------------------------------------------------------------
(* POST /v1/call/device/info: a device answers a call that rings.          *)

PostDeviceInfo(w, self, r) ==
    /\ r \in incoming[self] /\ Readable(r) /\ self \in room[r].targets
    /\ Arrive(w, [Idle EXCEPT !.step = "readLock", !.self = self, !.rm = Read(r)])
    /\ UNCHANGED <<redis, told, used, over>>

\* Answering hangs up whatever call the device is locked to.
ReadLock(w) ==
    LET self == worker[w].self  existing == lock[self] IN
    /\ At(w, "readLock")
    /\ IF existing \in {NONE, worker[w].rm.id}
         THEN Continue(w, "claim")
         ELSE /\ worker' = [worker EXCEPT ![w].step = "readOld",
                                          ![w].old = [NoSnapshot EXCEPT !.id = existing]]
              /\ UNCHANGED <<deaths, disturbed>>
    /\ UNCHANGED <<redis, told, used, over>>

\* An error of Redis here is taken for "not locked" (the err == nil test).
ReadLockFailed(w) ==
    /\ At(w, "readLock") /\ deaths < MaxDeaths
    /\ deaths' = deaths + 1 /\ disturbed' = TRUE
    /\ worker' = [worker EXCEPT ![w].step = "claim"]
    /\ UNCHANGED <<redis, told, used, over>>

\* Whom room_cancel is sent to when self leaves the room it has read.
PeersOfLeaverMutant(self, hash) ==
    (IF hash.answeredBy # self THEN {hash.answeredBy}
     ELSE IF hash.caller = self THEN hash.targets
     ELSE {hash.caller}) \ {self, NONE}
PeersOfLeaver(self, hash) ==
    (IF hash.answeredBy \notin {NONE, self} THEN {hash.answeredBy}
     ELSE IF hash.caller = self THEN hash.targets
     ELSE {hash.caller}) \ {self}

ReadOld(w) ==
    LET self == worker[w].self  old == worker[w].old.id IN
    /\ At(w, "readOld")
    /\ IF Readable(old)
         THEN /\ worker' = [worker EXCEPT
                              ![w].step = "release", ![w].old = Read(old),
                              ![w].others = PeersOfLeaver(self, room[old])]
              /\ UNCHANGED <<deaths, disturbed>>
         ELSE ContinueOrFinish(w, "dropOrphan", ~Broken(old))
    /\ UNCHANGED <<redis, told, used, over>>

\* setAnswered: SETNX, the first of several devices wins.
ClaimAnswerMutant(w) ==
    LET r == worker[w].rm.id IN
    /\ At(w, "claim")
    /\ answered' = [answered EXCEPT ![r] = worker[w].self]
    /\ Continue(w, "takeLock")
    /\ UNCHANGED <<lock, room, rejected, told, used, over>>
ClaimAnswer(w) ==
    LET r == worker[w].rm.id IN
    /\ At(w, "claim")
    /\ IF answered[r] = NONE
         THEN /\ answered' = [answered EXCEPT ![r] = worker[w].self]
              /\ Continue(w, "takeLock")
         ELSE Finish(w) /\ UNCHANGED answered
    /\ UNCHANGED <<lock, room, rejected, told, used, over>>

\* acquireLock: SETNX, and if the device is locked after all, a plain SET.
TakeLock(w) ==
    LET self == worker[w].self IN
    /\ At(w, "takeLock")
    /\ IF lock[self] = NONE
         THEN /\ lock' = [lock EXCEPT ![self] = worker[w].rm.id]
              /\ Continue(w, "record")
         ELSE Continue(w, "overwrite") /\ UNCHANGED lock
    /\ UNCHANGED <<room, answered, rejected, told, used, over>>

OverwriteLock(w) ==
    /\ At(w, "overwrite")
    /\ lock' = [lock EXCEPT ![worker[w].self] = worker[w].rm.id]
    /\ Continue(w, "record")
    /\ UNCHANGED <<room, answered, rejected, told, used, over>>

\* setAnsweredBy: HSET, which creates the hash when it is gone.
SetAnsweredByMutant(w) ==
    LET rm == worker[w].rm IN
    /\ At(w, "record")
    /\ room' = [room EXCEPT ![rm.id] = [rm.hash EXCEPT !.answeredBy = worker[w].self]]
    /\ Continue(w, "reply")
    /\ UNCHANGED <<lock, answered, rejected, told, used, over>>
SetAnsweredBy(w) ==
    /\ At(w, "record")
    /\ room' = [room EXCEPT ![worker[w].rm.id].answeredBy = worker[w].self]
    /\ Continue(w, "reply")
    /\ UNCHANGED <<lock, answered, rejected, told, used, over>>

\* The token is returned; the other targets are told to stop ringing.
ReplyToken(w) ==
    LET self == worker[w].self  rm == worker[w].rm IN
    /\ At(w, "reply")
    /\ granted' = [granted EXCEPT ![rm.id] = @ \cup {self}]
    /\ knows' = [knows EXCEPT ![rm.id] = @ \cup (rm.hash.targets \ {self})]
    /\ Finish(w)
    /\ UNCHANGED <<redis, incoming, unbound, used, over>>

-----------------------------------------------------------------------------
(* releaseRoom: one pipeline deletes the keys of the room as it was read,   *)
(* then room_cancel is published.  An answer goes on with its own room.     *)

UnlockMutant(hash) == [d \in Devices |-> IF d = hash.caller THEN NONE ELSE lock[d]]
Unlock(hash) == [d \in Devices |->
    IF d \in {hash.caller, hash.answeredBy} THEN NONE ELSE lock[d]]

DeleteRoom(r) ==
    /\ room' = [room EXCEPT ![r] = NoHash]
    /\ answered' = [answered EXCEPT ![r] = NONE]
    /\ rejected' = [rejected EXCEPT ![r] = {}]

ReleaseRoom(w) ==
    LET old == worker[w].old IN
    /\ At(w, "release")
    /\ DeleteRoom(old.id)
    /\ lock' = Unlock(old.hash)
    /\ released' = released \cup {old.id}
    /\ Continue(w, "tell")
    /\ UNCHANGED <<told, used, refused>>

\* room_cancel goes to the others only.  The device itself knows when it asked
\* for the end; a device that was unbound did not, and is sent nothing here.
PublishRoomCancel(w) ==
    LET old == worker[w].old.id  self == worker[w].self
        asked == worker[w].reason = "asked"
    IN  /\ At(w, "tell")
        /\ knows' = [knows EXCEPT
              ![old] = @ \cup worker[w].others \cup (IF asked THEN {self} ELSE {})]
        /\ unbound' = [unbound EXCEPT ![old] = @ \cup (IF asked THEN {} ELSE {self})]
        /\ ContinueOrFinish(w, "claim", worker[w].rm.id # old)
        /\ UNCHANGED <<redis, incoming, granted, used, over>>

\* A request about r that goes on to release it as it is now.
Releasing(self, r, step, notify, reason) ==
    [step |-> step, self |-> self, rm |-> Read(r), old |-> Read(r),
     others |-> notify, reason |-> reason]

\* POST /v1/call/cancel, for the caller.
PostCallCancel(w, self, r) ==
    /\ Readable(r) /\ room[r].caller = self
    /\ Arrive(w, Releasing(self, r, "release", room[r].targets, "asked"))
    /\ UNCHANGED <<redis, told, used, over>>

\* POST /v1/call/hangup, for the caller and the device that answered.
PeersOfHangup(self, hash) ==
    IF hash.caller = self /\ hash.answeredBy # NONE THEN {hash.answeredBy}
    ELSE IF hash.answeredBy = self THEN {hash.caller} ELSE hash.targets

PostCallHangup(w, self, r) ==
    /\ Readable(r) /\ self \in {room[r].caller, room[r].answeredBy}
    /\ Arrive(w, Releasing(self, r, "release", PeersOfHangup(self, room[r]), "asked"))
    /\ UNCHANGED <<redis, told, used, over>>

\* POST /v1/call/reject, for a target.
PostCallReject(w, self, r) ==
    /\ r \in incoming[self] /\ Readable(r) /\ self \in room[r].targets
    /\ Arrive(w, Releasing(self, r, "reject", {room[r].caller}, "asked"))
    /\ UNCHANGED <<redis, told, used, over>>

AllRejected(members, targets) == Cardinality(members) >= Cardinality(targets)

AddRejected(w) ==
    LET rm == worker[w].rm
        members == rejected[rm.id] \cup {worker[w].self}
        all == AllRejected(members, rm.hash.targets)
    IN  /\ At(w, "reject")
        /\ rejected' = [rejected EXCEPT ![rm.id] = members]
        /\ ContinueOrFinish(w, "release", all)
        /\ refused' = IF all THEN refused \cup {rm.id} ELSE refused
        /\ UNCHANGED <<lock, room, answered, told, used, released>>

-----------------------------------------------------------------------------
(* GET /v1/call/room: which room is the device in?  The lock of a room that *)
(* is gone is deleted.                                                      *)

\* A request about the room self is locked to.
Locked(self, step) == [Idle EXCEPT
    !.step = step, !.self = self, !.old = [NoSnapshot EXCEPT !.id = lock[self]]]

GetDeviceRoom(w, self) ==
    /\ lock[self] # NONE
    /\ Arrive(w, Locked(self, "query"))
    /\ UNCHANGED <<redis, told, used, over>>

QueryRoom(w) ==
    /\ At(w, "query")
    /\ ContinueOrFinish(w, "dropOrphan", room[worker[w].old.id] = NoHash)
    /\ UNCHANGED <<redis, told, used, over>>

\* DEL of the lock of a room that was gone; an answer goes on.
DropOrphan(w) ==
    /\ At(w, "dropOrphan")
    /\ lock' = [lock EXCEPT ![worker[w].self] = NONE]
    /\ ContinueOrFinish(w, "claim", worker[w].rm # NoSnapshot)
    /\ UNCHANGED <<room, answered, rejected, told, used, over>>

-----------------------------------------------------------------------------
(* POST /v1/call/internal/unbind: the room of an unbound device is released. *)

PostInternalUnbind(w, self) ==
    /\ lock[self] # NONE
    /\ Arrive(w, Locked(self, "find"))
    /\ UNCHANGED <<redis, told, used, over>>

PeersOfUnbound(self, hash) ==
    (IF hash.caller = self THEN hash.targets
     ELSE IF hash.answeredBy = self THEN {hash.caller} ELSE {}) \ {self}

FindRoom(w) ==
    LET self == worker[w].self  r == worker[w].old.id IN
    /\ At(w, "find")
    /\ IF Readable(r)
         THEN /\ worker' = [worker EXCEPT
                   ![w] = Releasing(self, r, "release",
                                    PeersOfUnbound(self, room[r]), "unbound")]
              /\ UNCHANGED <<deaths, disturbed>>
         ELSE Finish(w)
    /\ UNCHANGED <<redis, told, used, over>>

\* The goroutine stops before its next Redis call.
RequestDies(w) ==
    /\ ~At(w, "idle") /\ deaths < MaxDeaths
    /\ deaths' = deaths + 1
    /\ worker' = [worker EXCEPT ![w] = Idle]
    /\ UNCHANGED <<redis, told, used, over, disturbed>>

-----------------------------------------------------------------------------
Init ==
    /\ lock = [d \in Devices |-> NONE]
    /\ room = [r \in Rooms |-> NoHash]
    /\ answered = [r \in Rooms |-> NONE]
    /\ rejected = [r \in Rooms |-> {}]
    /\ worker = [w \in Workers |-> Idle]
    /\ incoming = [d \in Devices |-> {}]
    /\ used = {} /\ released = {} /\ refused = {}
    /\ granted = [r \in Rooms |-> {}]
    /\ knows = [r \in Rooms |-> {}]
    /\ unbound = [r \in Rooms |-> {}]
    /\ deaths = 0 /\ disturbed = FALSE

Arrival(w) == \E self \in Devices :
    \/ \E r \in Rooms, targets \in SUBSET Devices : \E online \in SUBSET targets :
          PostCallRequest(w, self, targets, online, r)
    \/ \E r \in Rooms :
          \/ PostDeviceInfo(w, self, r)
          \/ PostCallCancel(w, self, r)
          \/ PostCallHangup(w, self, r)
          \/ PostCallReject(w, self, r)
    \/ GetDeviceRoom(w, self)
    \/ PostInternalUnbind(w, self)

Progress(w) ==
    \/ CreateRoom(w) \/ PublishCallIncoming(w)
    \/ ReadLock(w) \/ ReadLockFailed(w) \/ ReadOld(w)
    \/ ClaimAnswer(w) \/ TakeLock(w) \/ OverwriteLock(w) \/ SetAnsweredBy(w)
    \/ ReplyToken(w)
    \/ ReleaseRoom(w) \/ PublishRoomCancel(w)
    \/ AddRejected(w)
    \/ QueryRoom(w) \/ DropOrphan(w)
    \/ FindRoom(w)
    \/ RequestDies(w)

Next == \E w \in Workers : Arrival(w) \/ Progress(w)

Spec == Init /\ [][Next]_vars
-----------------------------------------------------------------------------
TypeOK ==
    /\ lock \in [Devices -> Rooms \cup {NONE}]
    /\ room \in [Rooms -> Hash]
    /\ answered \in [Rooms -> Devices \cup {NONE}]
    /\ rejected \in [Rooms -> SUBSET Devices]
    /\ worker \in [Workers -> Request]
    /\ incoming \in [Devices -> SUBSET Rooms]
    /\ used \subseteq Rooms /\ released \subseteq Rooms /\ refused \subseteq Rooms
    /\ granted \in [Rooms -> SUBSET Devices]
    /\ knows \in [Rooms -> SUBSET Devices]
    /\ unbound \in [Rooms -> SUBSET Devices]
    /\ deaths \in 0..MaxDeaths
    /\ disturbed \in BOOLEAN

Won == {"takeLock", "overwrite", "record", "reply"}

\* Two targets never both answer a call that goes on: whoever got the token,
\* or is about to, is the one that won room:{id}:answered (SETNX).
AnswerIsExclusive ==
    \A r \in Rooms \ released :
        /\ granted[r] \subseteq {answered[r]}
        /\ \A w \in Workers : worker[w].step \in Won /\ worker[w].rm.id = r
                               => worker[w].self = answered[r]

\* A device is locked to a live call only as its caller or as the device that
\* won the answer, whatever requests cross: no third device is ever held.
LockHolderBelongs ==
    \A d \in Devices : lock[d] # NONE /\ Readable(lock[d])
        => d \in {room[lock[d]].caller, answered[lock[d]]}

\* A call that was released never comes back, though a late answer may still
\* write to its keys.
ReleasedIsGone == \A r \in released : ~Readable(r)

\* A call ends as refused only when every one of its targets has refused it,
\* or was offline (the code compares the sizes of two sets).
RefusedMeansByAll ==
    [][\A w \in Workers : At(w, "reject") /\ worker'[w].step = "release"
          => worker[w].rm.hash.targets \subseteq rejected'[worker[w].rm.id]]_vars

-----------------------------------------------------------------------------
(* Why these hold: what a room looks like before it is created, and what a  *)
(* request has read by the time it gets to a step.                          *)

\* Steps of a request that has read the room old and may release it.
Leaving == {"reject", "release", "tell"}

\* A request knows its device, and the rooms its next step is about.
WellFormed(q) ==
    /\ q.step # "idle" => q.self \in Devices
    /\ q.rm = NoSnapshot \/ q.rm.id \in Rooms
    /\ q.step \notin {"idle", "query", "find", "dropOrphan"} => q.rm.id \in Rooms
    /\ q.step \in {"readOld", "dropOrphan", "query", "find"} \cup Leaving
          => q.old.id \in Rooms

RequestInv == \A w \in Workers : WellFormed(worker[w])

\* Nobody has read r, so nobody can answer or release it.
Unread(r) ==
    /\ ~Readable(r) /\ r \notin released
    /\ \A w \in Workers : worker[w].step \in Leaving => worker[w].old.id # r

FreshInv == \A r \in Rooms \ used :
    /\ Unread(r)
    /\ \A w \in Workers : worker[w].rm.id # r
    /\ \A d \in Devices : lock[d] # r

\* Until it is created, only the request that creates it knows the room.
CreateInv == \A w \in Workers : At(w, "create") =>
    /\ Unread(worker[w].rm.id)
    /\ \A v \in Workers \ {w} : worker[v].rm.id # worker[w].rm.id
    /\ \A d \in Devices : lock[d] = worker[w].rm.id => d = worker[w].self
    /\ worker[w].rm.hash.caller = worker[w].self
    /\ worker[w].rm.id \in used

\* Inductive: true at first and kept by every step (CallRoomsProofs).
Inductive ==
    /\ TypeOK /\ RequestInv
    /\ FreshInv /\ CreateInv
    /\ AnswerIsExclusive /\ LockHolderBelongs /\ ReleasedIsGone

-----------------------------------------------------------------------------
(* What holds while requests do not cross, or do not stop halfway.          *)

Quiet == \A w \in Workers : At(w, "idle")

Parties(r) == {room[r].caller, room[r].answeredBy} \ {NONE}
RoomsOf(d) == {r \in Rooms : Readable(r) /\ d \in Parties(r)}

\* Requests that do not cross keep locks and rooms in step: a device is locked
\* to a room exactly when it is a party of it, so it is in one room at most.
SerialRequestsKeepStep ==
    Quiet /\ ~disturbed /\ deaths = 0 =>
        \A d \in Devices : RoomsOf(d) = {lock[d]} \ {NONE}

\* However requests cross, whoever got the token of a call that is over has been
\* told so, or ended the call itself.  Two cases are excepted: a call refused by
\* all, whose release tells the caller alone, and a device whose own unbinding
\* ended the call.  The unbinding sends that device nothing (internal.go removes
\* it from the recipients): the user server tells it, by a message of its own
\* that may be lost and is no part of this model.
NobodyLeftBehind ==
    Quiet /\ deaths = 0 =>
        \A r \in released \ refused : granted[r] \subseteq knows[r] \cup unbound[r]

=============================================================================
