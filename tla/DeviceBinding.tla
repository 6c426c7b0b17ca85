---------------------------- MODULE DeviceBinding ----------------------------
(***************************************************************************)
(* How a device gets its identity: the device's start-up (device_flow.c    *)
(* and the phases of main.c), the report and token services of the         *)
(* device-server (internal/service/device.go), and binding and unbinding   *)
(* on the user-server (internal/service/bind.go, internal/store/mysql,     *)
(* internal/mqttc/broker.go).                                              *)
(*                                                                         *)
(* A device reports, is told a code and waits on a temporary connection    *)
(* for the grant; a user enters the code; the request commits the binding, *)
(* publishes the grant and waits for the acknowledgement of the device.    *)
(* Requests interleave at every database and Redis access that another one *)
(* can disturb; a MySQL transaction is one step.  The device may crash or  *)
(* give up at any point, and messages to a connection that has gone are    *)
(* lost.                                                                   *)
(*                                                                         *)
(* A code stands for what one report creates: the verify record, the code, *)
(* the replay and the temporary client, which expire together.  The limits *)
(* of reports (429, 6016) are refusals that may always happen.  One grant  *)
(* and one ACK are under way on a topic at a time; that the waiting        *)
(* request remembers which grant an ACK was for is history.  A request by  *)
(* id names no MAC, as the user interface sends it.  Devices do not share  *)
(* a MAC, and each is the only one that knows its key.                     *)
(***************************************************************************)
EXTENDS Naturals, Sequences, FiniteSets

CONSTANTS
    Boards,     \* devices, each known by its MAC
    Users,
    Ids,        \* device_pool.device_id
    PoolOrder,  \* device_pool ORDER BY id
    Factory,    \* the identities boards may carry from the factory, NoId for none
    Reqs,       \* requests of the bind APIs under way
    Quota,      \* users.bind_quota at the beginning
    MaxCodes,   \* bound: reports that create a code
    Lapses,     \* whether the presence of a waiting device may lapse (150 s)
    NoBoard, Nobody, NoId, Keep, NoReq

ASSUME IdentityAssumption ==
    /\ NoBoard \notin Boards /\ Nobody \notin Users
    /\ NoId \notin Ids /\ Keep \notin Ids /\ Keep # NoId
    /\ NoReq \notin Reqs
    /\ Factory \subseteq [Boards -> Ids \cup {NoId}]
    /\ IsFiniteSet(Ids) /\ PoolOrder \in Seq(Ids)
    /\ Quota \in Nat /\ MaxCodes \in Nat /\ Lapses \in BOOLEAN

Codes == 1..MaxCodes

VARIABLES
    rows,     \* device_bind: the MAC, the owner and the last owner of an id
    quota,    \* users.bind_quota
    made,     \* the codes handed out: of which board, with which proven id
    live,     \* codes whose verify record and lookup exist
    pending,  \* pending_bind and report_fp of an id: the code, 0 if none
    online,   \* codes whose temporary client has its online key
    waiter,   \* Broker.ackCh of a code's ACK topic, and its subscription
    inbox,    \* the grant under way to a temporary client, NoId if none
    acks,     \* the ACK under way on a code's topic: of which grant
    flash,    \* the identity a board has stored
    board,    \* the program on the board
    req       \* the requests

dbVars == <<rows, quota>>
codeVars == <<made, live, pending>>
brokerVars == <<online, waiter, inbox, acks>>
vars == <<dbVars, codeVars, brokerVars, flash, board, req>>

NoRow == [mac |-> NoBoard, user |-> Nobody, last |-> Nobody]
Off == [pc |-> "off", code |-> 0, id |-> NoId, grant |-> NoId, again |-> FALSE]
Idle == [pc |-> "idle", byId |-> FALSE, user |-> Nobody, code |-> 0,
         how |-> "none", id |-> NoId, mac |-> NoBoard, got |-> NoId]

TypeOK ==
    /\ rows \in [Ids -> [mac : Boards \cup {NoBoard}, user : Users \cup {Nobody},
                         last : Users \cup {Nobody}]]
    /\ quota \in [Users -> 0..Quota]
    /\ made \in Seq([mac : Boards, dev : Ids \cup {NoId}]) /\ Len(made) <= MaxCodes
    /\ live \subseteq 1..Len(made) /\ online \subseteq 1..Len(made)
    /\ pending \in [Ids -> 0..MaxCodes]
    /\ waiter \in [Codes -> Reqs \cup {NoReq}]
    /\ inbox \in [Codes -> Ids \cup {Keep, NoId}]
    /\ acks \in [Codes -> Ids \cup {Keep, NoId}]
    /\ flash \in [Boards -> Ids \cup {NoId}]
    /\ board \in [Boards ->
           [pc : {"off", "report", "connect", "wait", "acked", "save", "token",
                  "resave", "online"},
            code : 0..MaxCodes, id : Ids \cup {NoId}, grant : Ids \cup {Keep, NoId},
            again : BOOLEAN]]
    /\ req \in [Reqs ->
           [pc : {"idle", "look", "commit", "publish", "wait", "clean"},
            byId : BOOLEAN, user : Users \cup {Nobody}, code : 0..MaxCodes,
            how : {"none", "A", "B", "D", "E", "F", "G"}, id : Ids \cup {NoId},
            mac : Boards \cup {NoBoard}, got : Ids \cup {Keep, NoId}]]
    /\ \A c, e \in live : made[c].mac = made[e].mac => c = e

Init ==
    /\ rows = [d \in Ids |-> NoRow] /\ quota = [u \in Users |-> Quota]
    /\ made = <<>> /\ live = {} /\ pending = [d \in Ids |-> 0]
    /\ online = {} /\ waiter = [c \in Codes |-> NoReq]
    /\ inbox = [c \in Codes |-> NoId] /\ acks = [c \in Codes |-> NoId]
    /\ flash \in Factory /\ board = [m \in Boards |-> Off]
    /\ req = [r \in Reqs |-> Idle]

-----------------------------------------------------------------------------
(* Reading device_bind.                                                    *)

Exists(d) == rows[d].last # Nobody
macConflicts(d, m) == rows[d].mac \notin {NoBoard, m}

Rank(d, u) ==
    CASE rows[d].user = u -> 3
      [] rows[d].user = Nobody /\ rows[d].last = u -> 2
      [] rows[d].user = Nobody /\ rows[d].last # u -> 1
      [] OTHER -> 0

Bearing(m) == {d \in Ids : Exists(d) /\ rows[d].mac = m}
\* getBindByMAC: rows of equal rank come in any order.
GetBindByFingerprint(m, u) ==
    {d \in Bearing(m) : \A e \in Bearing(m) : Rank(d, u) >= Rank(e, u)}
\* The user holds another id for the same MAC: the duplicate checks.
Duplicate(d, m, u) == \E e \in Bearing(m) \ {d} : rows[e].user = u

-----------------------------------------------------------------------------
(* The device: phase one, the temporary connection, phase two.             *)

At(m, pc) == board[m].pc = pc
Go(m, pc) == board' = [board EXCEPT ![m].pc = pc]
Listening(c) == \E m \in Boards : board[m].pc \in {"wait", "acked"} /\ board[m].code = c

Boot(m) ==
    /\ At(m, "off")
    /\ board' = [board EXCEPT ![m] = [Off EXCEPT
           !.pc = IF flash[m] = NoId THEN "report" ELSE "token", !.id = flash[m]]]
    /\ UNCHANGED <<dbVars, codeVars, brokerVars, flash, req>>

\* The program ends: it failed, waited too long, was told of the unbinding, or
\* crashed.  The broker sees the connection go.
Stop(m) ==
    /\ ~At(m, "off")
    /\ board' = [board EXCEPT ![m] = Off]
    /\ online' = online \ {board[m].code}
    /\ inbox' = [c \in Codes |-> IF c = board[m].code THEN NoId ELSE inbox[c]]
    /\ UNCHANGED <<dbVars, codeVars, waiter, acks, flash, req>>

LiveCode(m) == {c \in live : made[c].mac = m}

\* DelVerifyAndCode of a code, with a new record in its place.
NewCode(m, d, old) ==
    /\ Len(made) < MaxCodes
    /\ made' = Append(made, [mac |-> m, dev |-> d])
    /\ live' = (live \ old) \cup {Len(made) + 1}
    /\ board' = [board EXCEPT ![m].pc = "connect", ![m].code = Len(made) + 1,
                              ![m].grant = NoId]

Replay(m, c) ==
    /\ board' = [board EXCEPT ![m].pc = "connect", ![m].code = c, ![m].grant = NoId]
    /\ UNCHANGED codeVars

reportUnsigned(m) ==
    /\ At(m, "report") /\ board[m].id = NoId
    /\ IF LiveCode(m) = {} THEN NewCode(m, NoId, {}) /\ UNCHANGED pending
                           ELSE \E c \in LiveCode(m) : Replay(m, c)
    /\ UNCHANGED <<dbVars, brokerVars, flash, req>>

\* A replay counts only when it belongs to an earlier signed report.
SignedReplay(d, m) == pending[d] # 0 /\ made[pending[d]].mac = m

reportSigned(m) ==
    LET d == board[m].id IN
    /\ At(m, "report") /\ d # NoId
    /\ ~macConflicts(d, m)
    /\ pending[d] # 0 => made[pending[d]].mac = m
    /\ IF LiveCode(m) # {} /\ SignedReplay(d, m)
       THEN \E c \in LiveCode(m) : Replay(m, c)
       ELSE /\ NewCode(m, d, LiveCode(m))
            /\ pending' = [pending EXCEPT ![d] = Len(made) + 1]
    /\ UNCHANGED <<dbVars, brokerVars, flash, req>>

\* connect_temp_mqtt: the temporary token is valid as long as the code.
ConnectTemp(m) ==
    /\ At(m, "connect") /\ board[m].code \in live
    /\ Go(m, "wait")
    /\ online' = online \cup {board[m].code}
    /\ UNCHANGED <<dbVars, codeVars, waiter, inbox, acks, flash, req>>

\* _temp_on_message: remember the grant and send the ACK, at once.
Granted(m) ==
    LET c == board[m].code IN
    /\ board[m].pc \in {"wait", "acked"} /\ inbox[c] # NoId /\ acks[c] = NoId
    /\ board' = [board EXCEPT ![m].pc = "acked", ![m].grant = inbox[c]]
    /\ inbox' = [inbox EXCEPT ![c] = NoId]
    /\ acks' = [acks EXCEPT ![c] = inbox[c]]
    /\ UNCHANGED <<dbVars, codeVars, online, waiter, flash, req>>

\* The broker has confirmed the ACK: the main thread leaves the connection.
LeaveTemp(m) ==
    LET b == board[m]
        id == IF b.grant \in Ids THEN b.grant ELSE b.id IN
    /\ At(m, "acked")
    /\ board' = [board EXCEPT ![m].id = id, ![m].code = 0, ![m].grant = NoId,
           ![m].pc = IF b.again THEN "token" ELSE IF id = NoId THEN "off" ELSE "save"]
    /\ online' = online \ {b.code}
    /\ inbox' = [inbox EXCEPT ![b.code] = NoId]
    /\ UNCHANGED <<dbVars, codeVars, waiter, acks, flash, req>>

\* device_identity_save, after phase one and after a second grant.
Save(m) ==
    /\ board[m].pc \in {"save", "resave"}
    /\ flash' = [flash EXCEPT ![m] = board[m].id]
    /\ Go(m, IF At(m, "save") THEN "token" ELSE "online")
    /\ UNCHANGED <<dbVars, codeVars, brokerVars, req>>

\* Token: an id without an owner is told so and reports again, once.
TokenRefused(m) ==
    /\ At(m, "token") /\ ~board[m].again
    /\ rows[board[m].id].user = Nobody
    /\ board' = [board EXCEPT ![m].pc = "report", ![m].again = TRUE]
    /\ UNCHANGED <<dbVars, codeVars, brokerVars, flash, req>>

Token(m) ==
    LET d == board[m].id IN
    /\ At(m, "token")
    /\ rows[d].user # Nobody /\ ~macConflicts(d, m) /\ ~Duplicate(d, m, rows[d].user)
    /\ Go(m, IF board[m].again THEN "resave" ELSE "online")
    /\ UNCHANGED <<dbVars, codeVars, brokerVars, flash, req>>

-----------------------------------------------------------------------------
(* Requests of users.                                                      *)

Step(r, pc) == req' = [req EXCEPT ![r].pc = pc]
Refuse(r) == req' = [req EXCEPT ![r] = Idle]
reqOnly == <<dbVars, codeVars, brokerVars, flash, board>>

\* Bind with a code that is alive.
Bind(r, u, c) ==
    /\ req[r].pc = "idle" /\ c \in live
    /\ req' = [req EXCEPT ![r] = [Idle EXCEPT !.pc = "look", !.user = u, !.code = c]]
    /\ UNCHANGED reqOnly

\* The case of the request, with the id it is about.
Found(r, d, how, pc) ==
    req' = [req EXCEPT ![r] = [@ EXCEPT !.id = d, !.how = how, !.pc = pc]]
AfterLook(d, u) == IF rows[d].user = u THEN "publish" ELSE "commit"

\* The code of a signed report names the id.
LookPreburned(r) ==
    LET u == req[r].user
        m == made[req[r].code].mac
        d == made[req[r].code].dev IN
    /\ req[r].pc = "look" /\ d # NoId
    /\ IF macConflicts(d, m) \/ Duplicate(d, m, u) \/ rows[d].user \notin {u, Nobody}
       THEN Refuse(r)
       ELSE Found(r, d, IF ~Exists(d) THEN "E" ELSE IF rows[d].user = u THEN "F" ELSE "G",
                  AfterLook(d, u))
    /\ UNCHANGED reqOnly

\* Without an id the MAC decides; a new id is given to a waiting device only.
LookByMac(r) ==
    LET u == req[r].user
        found == GetBindByFingerprint(made[req[r].code].mac, u)
        own == {d \in found : Rank(d, u) >= 2} IN
    /\ req[r].pc = "look" /\ made[req[r].code].dev = NoId
    /\ \/ \E d \in own :
            Found(r, d, IF rows[d].user = u THEN "B" ELSE "D", AfterLook(d, u))
       \/ /\ own = {}
          /\ IF req[r].code \in online
             THEN Found(r, NoId, "A", "commit")
             ELSE Refuse(r)
    /\ UNCHANGED reqOnly

\* BindByDeviceID of an id nobody owns: its device must have proved itself.  The
\* request has no MAC; it will write the one it reads here.
BindByDeviceID(r, u, d) ==
    /\ req[r].pc = "idle" /\ rows[d].user = Nobody
    /\ pending[d] # 0 /\ pending[d] \in online
    /\ req' = [req EXCEPT ![r] = [Idle EXCEPT !.pc = "commit", !.byId = TRUE, !.user = u,
           !.id = d, !.mac = rows[d].mac, !.how = IF Exists(d) THEN "G" ELSE "E"]]
    /\ UNCHANGED reqOnly

Free == {i \in DOMAIN PoolOrder : ~Exists(PoolOrder[i])}
FirstFree == {PoolOrder[i] : i \in {i \in Free : \A j \in Free : i <= j}}

Own(d, u, m) ==
    /\ rows' = [rows EXCEPT ![d] = [mac |-> m, user |-> u, last |-> u]]
    /\ quota' = [quota EXCEPT ![u] = @ - 1]

\* The device found under the lock is returned with the transaction committed.
CommitBindFromPoolMutant(r) ==
    LET u == req[r].user
        m == made[req[r].code].mac
        mine == {d \in Bearing(m) : rows[d].user = u} IN
    /\ req[r].pc = "commit" /\ req[r].how = "A"
    /\ \/ /\ quota[u] = 0 \/ (mine = {} /\ Free = {})
          /\ Refuse(r) /\ UNCHANGED dbVars
       \/ /\ quota[u] > 0 /\ UNCHANGED rows /\ quota' = [quota EXCEPT ![u] = @ - 1]
          /\ \E d \in mine : Found(r, d, "A", "publish")
       \/ /\ quota[u] > 0 /\ mine = {}
          /\ \E d \in FirstFree :
                /\ Own(d, u, m)
                /\ Found(r, d, "A", "publish")
    /\ UNCHANGED <<codeVars, brokerVars, flash, board>>

CommitBindFromPool(r) ==
    LET u == req[r].user
        m == made[req[r].code].mac
        mine == {d \in Bearing(m) : rows[d].user = u} IN
    /\ req[r].pc = "commit" /\ req[r].how = "A"
    /\ \/ /\ quota[u] = 0 \/ (mine = {} /\ Free = {})
          /\ Refuse(r) /\ UNCHANGED dbVars
       \/ /\ quota[u] > 0 /\ UNCHANGED dbVars
          /\ \E d \in mine : Found(r, d, "A", "publish")
       \/ /\ quota[u] > 0 /\ mine = {}
          /\ \E d \in FirstFree :
                /\ Own(d, u, m)
                /\ Found(r, d, "A", "publish")
    /\ UNCHANGED <<codeVars, brokerVars, flash, board>>

\* The MAC a request writes: of its code's report, or as it read the row.
ReportedMac(r) == IF req[r].byId THEN req[r].mac ELSE made[req[r].code].mac

ClaimableMutantA(d, u, m) == ~(m # NoBoard /\ Duplicate(d, m, u))
ClaimableMutantB(d, u, m) == rows[d].user = Nobody

\* Whether the row is still without owner, and the index uq_mac_user.
Claimable(d, u, m) == rows[d].user = Nobody /\ ~(m # NoBoard /\ Duplicate(d, m, u))

\* Cases E, D and G.  E inserts, or takes a row that has lost its owner since;
\* D and G take a row without owner.  uq_mac_user refuses a second id of the
\* same MAC.
CommitClaim(r) ==
    LET u == req[r].user
        d == req[r].id
        m == IF req[r].how = "E" /\ Exists(d) THEN rows[d].mac ELSE ReportedMac(r) IN
    /\ req[r].pc = "commit" /\ req[r].how # "A"
    /\ IF quota[u] > 0 /\ Claimable(d, u, m)
       THEN Own(d, u, m) /\ Step(r, "publish")
       ELSE Refuse(r) /\ UNCHANGED dbVars
    /\ UNCHANGED <<codeVars, brokerVars, flash, board>>

\* publishAndKick up to the wait.  A redelivery asks for the device's presence
\* first; a request by id looks up the temporary client only now.
Publish(r) ==
    LET c == IF req[r].byId THEN pending[req[r].id] ELSE req[r].code
        grant == IF req[r].how \in {"A", "B", "D"} THEN req[r].id ELSE Keep IN
    /\ req[r].pc = "publish"
    /\ IF c = 0 \/ (req[r].how \in {"B", "D"} /\ c \notin online)
       THEN Refuse(r) /\ UNCHANGED <<waiter, inbox>>
       ELSE /\ inbox[c] = NoId
            /\ waiter' = [waiter EXCEPT ![c] = r]
            /\ inbox' = IF Listening(c) THEN [inbox EXCEPT ![c] = grant]
                                        ELSE inbox
            /\ req' = [req EXCEPT ![r].pc = "wait", ![r].code = c]
    /\ UNCHANGED <<dbVars, codeVars, online, acks, flash, board>>

\* handleMessage: an ACK goes to whoever waits on its topic.
Ack(c) ==
    /\ acks[c] # NoId
    /\ acks' = [acks EXCEPT ![c] = NoId]
    /\ req' = [r \in Reqs |-> IF waiter[c] = r THEN [req[r] EXCEPT !.got = acks[c]] ELSE req[r]]
    /\ UNCHANGED <<dbVars, codeVars, online, waiter, inbox, flash, board>>

\* The ACK came, or the wait is over: the topic is given up and the presence
\* of the client deleted, which disconnects nobody.
WaitDone(r) ==
    LET c == req[r].code IN
    /\ req[r].pc = "wait"
    /\ waiter' = [waiter EXCEPT ![c] = NoReq]
    /\ online' = online \ {c}
    /\ IF req[r].got # NoId \/ req[r].byId THEN Step(r, "clean") ELSE Refuse(r)
    /\ UNCHANGED <<dbVars, codeVars, inbox, acks, flash, board>>

\* DelVerifyAndCode after a code, DelPendingBind after an id.
Clean(r) ==
    /\ req[r].pc = "clean"
    /\ live' = IF req[r].byId THEN live ELSE live \ {req[r].code}
    /\ pending' = IF req[r].how \in {"E", "F", "G"} THEN [pending EXCEPT ![req[r].id] = 0]
                                                    ELSE pending
    /\ Refuse(r)
    /\ UNCHANGED <<dbVars, made, brokerVars, flash, board>>

\* CommitUnbind.  The device is told, and ends by Stop if it hears.
Reset(u, d) ==
    /\ rows[d].user = u
    /\ rows' = [rows EXCEPT ![d].user = Nobody]
    /\ quota' = [quota EXCEPT ![u] = @ + 1]
    /\ UNCHANGED <<codeVars, brokerVars, flash, board, req>>

\* code_ttl runs out; so does the presence key of a client without heartbeat.
Expire(c) ==
    /\ c \in live
    /\ live' = live \ {c}
    /\ pending' = [d \in Ids |-> IF pending[d] = c THEN 0 ELSE pending[d]]
    /\ UNCHANGED <<dbVars, made, brokerVars, flash, board, req>>

PresenceLapses(c) ==
    /\ Lapses /\ c \in online
    /\ online' = online \ {c}
    /\ UNCHANGED <<dbVars, codeVars, waiter, inbox, acks, flash, board, req>>

-----------------------------------------------------------------------------
BoardStep(m) ==
    \/ Boot(m) \/ Stop(m) \/ reportUnsigned(m) \/ reportSigned(m) \/ ConnectTemp(m)
    \/ Granted(m) \/ LeaveTemp(m) \/ Save(m) \/ TokenRefused(m) \/ Token(m)

RequestStep(r) ==
    \/ \E u \in Users : \E c \in live : Bind(r, u, c)
    \/ \E u \in Users, d \in Ids : BindByDeviceID(r, u, d)
    \/ LookPreburned(r) \/ LookByMac(r) \/ CommitBindFromPool(r) \/ CommitClaim(r)
    \/ Publish(r) \/ WaitDone(r) \/ Clean(r)

Next ==
    \/ \E m \in Boards : BoardStep(m)
    \/ \E r \in Reqs : RequestStep(r)
    \/ \E u \in Users, d \in Ids : Reset(u, d)
    \/ \E c \in Codes : Ack(c) \/ Expire(c) \/ PresenceLapses(c)

Spec == Init /\ [][Next]_vars

-----------------------------------------------------------------------------
(* Properties.                                                             *)

\* A user's devices and the rest of the quota make up the quota, whichever of
\* the three transactions take and give it at once (store/mysql/bind.go:75, 232, 354).
QuotaLedger ==
    \A u \in Users : quota[u] + Cardinality({d \in Ids : rows[d].user = u}) = Quota

\* "永远只下发一个 device_id" (bind.go:170): however many requests of a user
\* bind one device at once, by code or by id, it is his under one id.
OneIdentityPerUser ==
    \A d, e \in Ids : (/\ rows[d].user = rows[e].user /\ rows[d].user # Nobody
                       /\ rows[d].mac = rows[e].mac /\ rows[d].mac # NoBoard) => d = e

\* An id changes hands only over an unbinding: a request that read the row
\* before somebody else took it does not take it from him.
OwnerUntilUnbound ==
    [][\A d \in Ids : rows[d].user # Nobody
                      => rows'[d].user \in {rows[d].user, Nobody}]_vars

=============================================================================
