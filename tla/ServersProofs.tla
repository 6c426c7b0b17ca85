---------------------------- MODULE ServersProofs ----------------------------
(***************************************************************************)
(* Theorems of the three parts of MCServers: DeviceBinding for every       *)
(* number of devices, users, ids, codes and requests under way (the type   *)
(* invariant, and what the three transactions of store/mysql/bind.go       *)
(* keep); DevicePresence for every set of servers, every ttl and any       *)
(* number of sessions, starts, unbindings and lost reports; and            *)
(* DeviceProcess for every set of identities and any number of boots.      *)
(***************************************************************************)
EXTENDS MCServers, FiniteSetTheorems, SequenceTheorems, TLAPS

-----------------------------------------------------------------------------
(* The inductive invariant.  The parts of the type invariant ...           *)

RowType == [mac : Boards \cup {NoBoard}, user : Users \cup {Nobody},
            last : Users \cup {Nobody}]
DbType == rows \in [Ids -> RowType] /\ quota \in [Users -> Nat]

MadeType == [mac : Boards, dev : Ids \cup {NoId}]
CodeType ==
    /\ made \in Seq(MadeType) /\ Len(made) <= MaxCodes
    /\ live \subseteq 1..Len(made) /\ pending \in [Ids -> 0..MaxCodes]
    /\ \A c, e \in live : made[c].mac = made[e].mac => c = e

Grants == Ids \cup {Keep, NoId}
BrokerType ==
    /\ online \subseteq 1..Len(made) /\ waiter \in [Codes -> Reqs \cup {NoReq}]
    /\ inbox \in [Codes -> Grants] /\ acks \in [Codes -> Grants]

BoardPcs == {"off", "report", "connect", "wait", "acked", "save", "token", "resave", "online"}
BoardRec == [pc : BoardPcs, code : 0..MaxCodes, id : Ids \cup {NoId}, grant : Grants,
             again : BOOLEAN]
BoardType == flash \in [Boards -> Ids \cup {NoId}] /\ board \in [Boards -> BoardRec]

ReqPcs == {"idle", "look", "commit", "publish", "wait", "clean"}
Hows == {"none", "A", "B", "D", "E", "F", "G"}
ReqRec == [pc : ReqPcs, byId : BOOLEAN, user : Users \cup {Nobody}, code : 0..MaxCodes,
           how : Hows, id : Ids \cup {NoId}, mac : Boards \cup {NoBoard}, got : Grants]
ReqType == req \in [Reqs -> ReqRec]

\* ... what a request under way knows of its user, its code and its id ...
Informed(q) ==
    q.pc # "idle" =>
        /\ q.user \in Users
        /\ IF q.byId THEN q.pc # "look" /\ q.how # "A" ELSE q.code \in 1..Len(made)
        /\ q.pc \in {"publish", "wait", "clean"} => q.id \in Ids
        /\ q.pc = "commit" => q.how = "A" \/ q.id \in Ids
        /\ q.pc = "wait" => q.code \in Codes
ReqInv == \A r \in Reqs : Informed(req[r])

\* ... a waiting device's code, a signed device's id ...
Waits(b) == b.pc \in {"connect", "wait", "acked"} => b.code \in Codes
BoardInv == \A m \in Boards : Waits(board[m])

\* ... and who owns an id was its last owner too.
RowInv == \A d \in Ids : rows[d].user # Nobody => rows[d].last # Nobody

CtlInv == CodeType /\ BrokerType /\ BoardType /\ ReqType /\ ReqInv /\ BoardInv
DbInv == DbType /\ RowInv /\ QuotaLedger /\ OneIdentityPerUser
Inv == CtlInv /\ DbInv

-----------------------------------------------------------------------------
(* The steps of a device. *)

LEMMA CodesMade ==
    ASSUME CtlInv
    PROVE  Len(made) \in Nat /\ 1..Len(made) \subseteq Codes /\ live \subseteq Codes
<1>1. made \in Seq(MadeType) /\ Len(made) <= MaxCodes /\ live \subseteq 1..Len(made)
  BY DEF CtlInv, CodeType
<1>2. Len(made) \in Nat
  BY <1>1, LenProperties
<1> QED
  BY <1>1, <1>2, IdentityAssumption DEF Codes

\* What a step leaves alone is still right.
LEMMA BoardOnly ==
    ASSUME CtlInv, NEW m \in Boards, NEW b \in BoardRec, Waits(b),
           board' = [board EXCEPT ![m] = b], UNCHANGED <<codeVars, req>>,
           flash' \in [Boards -> Ids \cup {NoId}], BrokerType'
    PROVE  CtlInv'
<1>1. BoardType' /\ BoardInv'
  BY DEF CtlInv, BoardType, BoardInv, Waits
<1>2. CodeType' /\ ReqType' /\ ReqInv'
  BY DEF CtlInv, CodeType, ReqType, ReqInv, Informed, codeVars
<1> QED
  BY <1>1, <1>2 DEF CtlInv

\* The program goes on somewhere else, with the same code, id and grant.
LEMMA GoType ==
    ASSUME CtlInv, NEW m \in Boards, NEW phase \in BoardPcs,
           phase \in {"connect", "wait", "acked"} => board[m].code \in Codes
    PROVE  /\ [board[m] EXCEPT !.pc = phase] \in BoardRec
           /\ Waits([board[m] EXCEPT !.pc = phase])
           /\ [board EXCEPT ![m].pc = phase] = [board EXCEPT ![m] = [board[m] EXCEPT !.pc = phase]]
<1>1. board[m] \in BoardRec /\ m \in DOMAIN board
  BY DEF CtlInv, BoardType
<1> QED
  BY <1>1 DEF BoardRec, Waits

LEMMA OffType == Off \in BoardRec /\ Waits(Off)
BY IdentityAssumption DEF Off, BoardRec, BoardPcs, Waits, Grants

LEMMA BootKeeps == ASSUME CtlInv, NEW m \in Boards, Boot(m) PROVE CtlInv'
<1> DEFINE b == [Off EXCEPT !.pc = IF flash[m] = NoId THEN "report" ELSE "token", !.id = flash[m]]
<1>1. flash[m] \in Ids \cup {NoId}
  BY DEF CtlInv, BoardType
<1>2. b \in BoardRec /\ Waits(b)
  BY <1>1, OffType DEF Off, BoardRec, BoardPcs, Waits
<1>3. board' = [board EXCEPT ![m] = b] /\ UNCHANGED <<dbVars, codeVars, brokerVars, flash, req>>
  BY DEF Boot
<1>4. BrokerType' /\ flash' \in [Boards -> Ids \cup {NoId}]
  BY <1>3 DEF CtlInv, BrokerType, BoardType, brokerVars, codeVars
<1> QED
  BY <1>2, <1>3, <1>4, BoardOnly

LEMMA StopKeeps == ASSUME CtlInv, NEW m \in Boards, Stop(m) PROVE CtlInv'
<1>1. BrokerType' /\ flash' \in [Boards -> Ids \cup {NoId}]
  BY DEF Stop, CtlInv, BrokerType, BoardType, codeVars, Grants
<1> QED
  BY <1>1, OffType, BoardOnly DEF Stop

LEMMA ConnectTempKeeps == ASSUME CtlInv, NEW m \in Boards, ConnectTemp(m) PROVE CtlInv'
<1>1. board[m].code \in live /\ board[m].code \in Codes
  BY CodesMade DEF ConnectTemp
<1>2. BrokerType' /\ flash' \in [Boards -> Ids \cup {NoId}]
  BY <1>1 DEF ConnectTemp, CtlInv, CodeType, BrokerType, BoardType, codeVars
<1>3. board' = [board EXCEPT ![m].pc = "wait"] /\ UNCHANGED <<codeVars, req>>
  BY DEF ConnectTemp, Go
<1> QED
  BY <1>1, <1>2, <1>3, GoType, BoardOnly DEF BoardPcs

LEMMA GrantedKeeps == ASSUME CtlInv, NEW m \in Boards, Granted(m) PROVE CtlInv'
<1> DEFINE c == board[m].code
           b == [board[m] EXCEPT !.pc = "acked", !.grant = inbox[c]]
<1>1. c \in Codes /\ board[m] \in BoardRec /\ inbox[c] \in Grants
  BY DEF Granted, CtlInv, BoardInv, Waits, BoardType, BrokerType
<1>2. b \in BoardRec /\ Waits(b)
  BY <1>1 DEF BoardRec, BoardPcs, Waits
<1>3. board' = [board EXCEPT ![m] = b] /\ UNCHANGED <<codeVars, req>>
  BY <1>1 DEF Granted, CtlInv, BoardType
<1>4. BrokerType' /\ flash' \in [Boards -> Ids \cup {NoId}]
  BY <1>1 DEF Granted, CtlInv, BrokerType, BoardType, codeVars, Grants
<1> QED
  BY <1>2, <1>3, <1>4, BoardOnly

LEMMA LeaveTempKeeps == ASSUME CtlInv, NEW m \in Boards, LeaveTemp(m) PROVE CtlInv'
<1> DEFINE b == board[m]
           id == IF b.grant \in Ids THEN b.grant ELSE b.id
           phase == IF b.again THEN "token" ELSE IF id = NoId THEN "off" ELSE "save"
           a == [b EXCEPT !.id = id, !.code = 0, !.grant = NoId, !.pc = phase]
<1>1. board[m] \in BoardRec /\ m \in DOMAIN board
  BY DEF CtlInv, BoardType
<1>2. a \in BoardRec /\ Waits(a)
  <2>1. id \in Ids \cup {NoId} /\ phase \in {"token", "off", "save"} /\ 0 \in 0..MaxCodes
    BY <1>1, IdentityAssumption DEF BoardRec
  <2> HIDE DEF id, phase
  <2> QED
    BY <1>1, <2>1 DEF BoardRec, BoardPcs, Waits, Grants
<1>3. board' = [board EXCEPT ![m] = a] /\ UNCHANGED <<codeVars, req>>
  BY <1>1 DEF LeaveTemp
<1>4. BrokerType' /\ flash' \in [Boards -> Ids \cup {NoId}]
  BY DEF LeaveTemp, CtlInv, BrokerType, BoardType, codeVars, Grants
<1> QED
  BY <1>2, <1>3, <1>4, BoardOnly

LEMMA SaveKeeps == ASSUME CtlInv, NEW m \in Boards, Save(m) PROVE CtlInv'
<1>1. BrokerType' /\ flash' \in [Boards -> Ids \cup {NoId}]
  BY DEF Save, CtlInv, BrokerType, BoardType, BoardRec, codeVars, brokerVars
<1>2. \E phase \in {"token", "online"} : board' = [board EXCEPT ![m].pc = phase]
  BY DEF Save, Go
<1>3. UNCHANGED <<codeVars, req>>
  BY DEF Save
<1> QED
  BY <1>1, <1>2, <1>3, GoType, BoardOnly DEF BoardPcs

LEMMA TokenKeeps ==
    ASSUME CtlInv, NEW m \in Boards, TokenRefused(m) \/ Token(m) PROVE CtlInv'
<1>1. BrokerType' /\ flash' \in [Boards -> Ids \cup {NoId}] /\ UNCHANGED <<codeVars, req>>
  BY DEF TokenRefused, Token, CtlInv, BrokerType, BoardType, codeVars, brokerVars
<1>2. CASE Token(m)
  <2>1. \E phase \in {"resave", "online"} : board' = [board EXCEPT ![m].pc = phase]
    BY <1>2 DEF Token, Go
  <2> QED
    BY <1>1, <2>1, GoType, BoardOnly DEF BoardPcs
<1>3. CASE TokenRefused(m)
  <2> DEFINE b == [board[m] EXCEPT !.pc = "report", !.again = TRUE]
  <2>1. board[m] \in BoardRec /\ m \in DOMAIN board
    BY DEF CtlInv, BoardType
  <2>2. b \in BoardRec /\ Waits(b)
    BY <2>1 DEF BoardRec, BoardPcs, Waits
  <2>3. board' = [board EXCEPT ![m] = b]
    BY <1>3, <2>1 DEF TokenRefused
  <2> QED
    BY <1>1, <2>2, <2>3, BoardOnly
<1> QED
  BY <1>2, <1>3

\* A device that reports waits with a code, its own or a new one.
Connecting(m, c) == [board EXCEPT ![m].pc = "connect", ![m].code = c, ![m].grant = NoId]

LEMMA WithCode ==
    ASSUME CtlInv, NEW m \in Boards, NEW c \in Codes,
           board' = Connecting(m, c),
           CodeType', BrokerType', Len(made) <= Len(made'), UNCHANGED <<req, flash>>
    PROVE  CtlInv'
<1> DEFINE b == [board[m] EXCEPT !.pc = "connect", !.code = c, !.grant = NoId]
<1>1. board[m] \in BoardRec /\ m \in DOMAIN board /\ c \in 0..MaxCodes
  BY IdentityAssumption DEF CtlInv, BoardType, Codes
<1>2. b \in BoardRec /\ Waits(b)
  BY <1>1 DEF BoardRec, BoardPcs, Waits, Grants
<1>3. board' = [board EXCEPT ![m] = b]
  BY <1>1 DEF Connecting
<1>4. BoardType' /\ BoardInv'
  BY <1>2, <1>3 DEF CtlInv, BoardType, BoardInv
<1>5. Len(made) \in Nat /\ Len(made') \in Nat
  BY LenProperties DEF CtlInv, CodeType
<1>6. ReqType' /\ ReqInv'
  <2>1. ReqType'
    BY DEF CtlInv, ReqType
  <2>2. \A n \in 1..Len(made) : n \in 1..Len(made')
    BY <1>5
  <2> QED
    BY <2>1, <2>2 DEF CtlInv, ReqInv, Informed
<1> QED
  BY <1>4, <1>6 DEF CtlInv

LEMMA ReplayKeeps ==
    ASSUME CtlInv, NEW m \in Boards, NEW c \in live, Replay(m, c),
           UNCHANGED <<brokerVars, flash, req>>
    PROVE  CtlInv'
<1>1. c \in Codes /\ Len(made) \in Nat
  BY CodesMade
<1>2. CodeType' /\ BrokerType' /\ Len(made) <= Len(made')
  BY <1>1 DEF Replay, CtlInv, CodeType, BrokerType, codeVars, brokerVars
<1>3. board' = Connecting(m, c)
  BY DEF Replay, Connecting
<1> QED
  BY <1>1, <1>2, <1>3, WithCode

LEMMA NewCodeKeeps ==
    ASSUME CtlInv, NEW m \in Boards, NEW d \in Ids \cup {NoId}, NEW old,
           NewCode(m, d, old), LiveCode(m) \subseteq old,
           UNCHANGED <<brokerVars, flash, req>>,
           pending' \in [Ids -> 0..MaxCodes]
    PROVE  CtlInv'
<1> DEFINE n == Len(made) + 1
           rec == [mac |-> m, dev |-> d]
<1>1. /\ Len(made) \in Nat /\ Len(made) < MaxCodes /\ rec \in MadeType
      /\ made \in Seq(MadeType)
      /\ made' = Append(made, rec) /\ live' = (live \ old) \cup {n}
  BY LenProperties DEF CtlInv, CodeType, NewCode, MadeType
<1>2. /\ made' \in Seq(MadeType) /\ Len(made') = n /\ made'[n] = rec
      /\ \A i \in 1..Len(made) : made'[i] = made[i]
  BY <1>1
<1>3. n \in Codes
  BY <1>1, IdentityAssumption DEF Codes
<1>4. \A c, e \in live' : made'[c].mac = made'[e].mac => c = e
  <2> SUFFICES ASSUME NEW c \in live', NEW e \in live', made'[c].mac = made'[e].mac
               PROVE  c = e
    OBVIOUS
  <2>1. live \subseteq 1..Len(made)
    BY DEF CtlInv, CodeType
  <2>2. \A x \in live \ old : made'[x] = made[x] /\ made[x].mac # m
    BY <1>2, <2>1 DEF LiveCode
  <2>3. made'[n].mac = m
    BY <1>2
  <2>4. CASE c \in live \ old /\ e \in live \ old
    BY <2>2, <2>4 DEF CtlInv, CodeType
  <2> QED
    BY <1>1, <2>2, <2>3, <2>4
<1>5. CodeType' /\ BrokerType' /\ Len(made) <= Len(made')
  <2>1. live' \subseteq 1..Len(made')
    <3>1. live \subseteq 1..Len(made)
      BY DEF CtlInv, CodeType
    <3>2. n \in 1..n /\ \A i \in 1..Len(made) : i \in 1..n
      BY <1>1
    <3> QED
      BY <1>1, <1>2, <3>1, <3>2
  <2>2. online' \subseteq 1..Len(made')
    BY <1>1, <1>2 DEF CtlInv, BrokerType, brokerVars
  <2>3. Len(made') <= MaxCodes /\ Len(made) <= Len(made')
    BY <1>1, <1>2, IdentityAssumption
  <2> QED
    BY <1>2, <1>4, <2>1, <2>2, <2>3 DEF CtlInv, CodeType, BrokerType, brokerVars
<1>6. board' = Connecting(m, n)
  BY DEF NewCode, Connecting
<1> QED
  BY <1>3, <1>5, <1>6, WithCode

LEMMA ReportKeeps ==
    ASSUME CtlInv, NEW m \in Boards, reportUnsigned(m) \/ reportSigned(m) PROVE CtlInv'
<1>1. UNCHANGED <<brokerVars, flash, req>> /\ LiveCode(m) \subseteq live
  BY DEF reportUnsigned, reportSigned, LiveCode
<1>2. ASSUME NEW c \in LiveCode(m), Replay(m, c) PROVE CtlInv'
  BY <1>1, <1>2, ReplayKeeps
<1>3. CASE LiveCode(m) = {} /\ NewCode(m, NoId, {}) /\ UNCHANGED pending
  <2>1. pending' \in [Ids -> 0..MaxCodes]
    BY <1>3 DEF CtlInv, CodeType
  <2> QED
    BY <1>1, <1>3, <2>1, NewCodeKeeps
<1>4. CASE /\ board[m].id # NoId /\ NewCode(m, board[m].id, LiveCode(m))
           /\ pending' = [pending EXCEPT ![board[m].id] = Len(made) + 1]
  <2>1. board[m].id \in Ids /\ pending \in [Ids -> 0..MaxCodes]
    BY <1>4 DEF CtlInv, BoardType, BoardRec, CodeType
  <2>2. Len(made) + 1 \in 0..MaxCodes
    BY <1>4, LenProperties, IdentityAssumption DEF NewCode, CtlInv, CodeType
  <2>3. pending' \in [Ids -> 0..MaxCodes]
    BY <1>4, <2>1, <2>2
  <2> QED
    BY <1>1, <1>4, <2>1, <2>3, NewCodeKeeps
<1> QED
  BY <1>2, <1>3, <1>4 DEF reportUnsigned, reportSigned

LEMMA BoardStepKeeps == ASSUME CtlInv, NEW m \in Boards, BoardStep(m) PROVE CtlInv'
BY BootKeeps, StopKeeps, ReportKeeps, ConnectTempKeeps, GrantedKeeps, LeaveTempKeeps,
   SaveKeeps, TokenKeeps DEF BoardStep

-----------------------------------------------------------------------------
(* The steps of a request, but for what they do to the two tables.         *)

LEMMA ReqOnly ==
    ASSUME CtlInv, NEW r \in Reqs, NEW q \in ReqRec, Informed(q),
           req' = [req EXCEPT ![r] = q], UNCHANGED <<made, flash, board>>,
           CodeType', BrokerType'
    PROVE  CtlInv'
<1>1. ReqType' /\ ReqInv'
  BY DEF CtlInv, ReqType, ReqInv, Informed
<1>2. BoardType' /\ BoardInv'
  BY DEF CtlInv, BoardType, BoardInv
<1> QED
  BY <1>1, <1>2 DEF CtlInv

LEMMA SameCodes ==
    ASSUME CtlInv, UNCHANGED <<codeVars, brokerVars>>
    PROVE  CodeType' /\ BrokerType'
BY DEF CtlInv, CodeType, BrokerType, codeVars, brokerVars

LEMMA IdleType == Idle \in ReqRec /\ Informed(Idle)
BY IdentityAssumption DEF Idle, ReqRec, ReqPcs, Hows, Informed, Grants

LEMMA ReqFacts ==
    ASSUME CtlInv, NEW r \in Reqs
    PROVE  /\ r \in DOMAIN req /\ req[r] \in ReqRec /\ Informed(req[r])
           /\ req[r].pc # "idle" /\ ~req[r].byId =>
                 /\ made[req[r].code] \in MadeType
                 /\ made[req[r].code].mac \in Boards
                 /\ made[req[r].code].dev \in Ids \cup {NoId}
<1>1. r \in DOMAIN req /\ req[r] \in ReqRec /\ Informed(req[r])
  BY DEF CtlInv, ReqType, ReqInv
<1>2. ASSUME req[r].pc # "idle", ~req[r].byId PROVE made[req[r].code] \in MadeType
  <2>1. req[r].code \in 1..Len(made) /\ made \in Seq(MadeType)
    BY <1>1, <1>2 DEF Informed, CtlInv, CodeType
  <2> QED
    BY <2>1, ElementOfSeq
<1> QED
  BY <1>1, <1>2 DEF MadeType

LEMMA RefuseKeeps ==
    ASSUME CtlInv, NEW r \in Reqs, Refuse(r), UNCHANGED <<made, flash, board>>,
           CodeType', BrokerType'
    PROVE  CtlInv'
BY IdleType, ReqOnly DEF Refuse

LEMMA BindKeeps ==
    ASSUME CtlInv, NEW r \in Reqs, NEW u \in Users, NEW c \in live, Bind(r, u, c) PROVE CtlInv'
<1> DEFINE q == [Idle EXCEPT !.pc = "look", !.user = u, !.code = c]
<1>1. c \in Codes /\ c \in 1..Len(made)
  BY CodesMade DEF CtlInv, CodeType
<1>2. q \in ReqRec /\ Informed(q)
  <2>1. c \in 0..MaxCodes
    BY <1>1, IdentityAssumption DEF Codes
  <2> QED
    <3>1. q \in ReqRec
      BY <2>1, IdleType DEF Idle, ReqRec, ReqPcs
    <3>2. q.pc = "look" /\ q.user = u /\ q.code = c /\ ~q.byId
      BY DEF Idle
    <3> HIDE DEF q
    <3> QED
      BY <1>1, <3>1, <3>2 DEF Informed
<1>3. req' = [req EXCEPT ![r] = q] /\ UNCHANGED <<codeVars, brokerVars, made, flash, board>>
  BY DEF Bind, reqOnly, codeVars
<1> QED
  BY <1>2, <1>3, SameCodes, ReqOnly

LEMMA FoundKeeps ==
    ASSUME CtlInv, NEW r \in Reqs, 
           req[r].pc = "look" \/ (req[r].pc = "commit" /\ req[r].how = "A"),
           NEW d \in Ids \cup {NoId}, NEW how \in Hows, NEW phase \in {"publish", "commit"},
           d \in Ids \/ (how = "A" /\ phase = "commit"),
           Found(r, d, how, phase), UNCHANGED <<codeVars, brokerVars, made, flash, board>>
    PROVE  CtlInv'
<1> DEFINE q == [req[r] EXCEPT !.id = d, !.how = how, !.pc = phase]
<1>1. req[r] \in ReqRec /\ Informed(req[r])
  BY ReqFacts
<1>2. q \in ReqRec /\ Informed(q)
  BY <1>1 DEF ReqRec, ReqPcs, Informed
<1>3. req' = [req EXCEPT ![r] = q]
  BY DEF Found
<1> QED
  BY <1>2, <1>3, SameCodes, ReqOnly

LEMMA LookPreburnedKeeps ==
    ASSUME CtlInv, NEW r \in Reqs, LookPreburned(r) PROVE CtlInv'
<1> DEFINE d == made[req[r].code].dev
           how == IF ~Exists(d) THEN "E" ELSE IF rows[d].user = req[r].user THEN "F" ELSE "G"
           phase == AfterLook(d, req[r].user)
<1>1. /\ req[r].pc = "look" /\ d # NoId /\ UNCHANGED reqOnly
      /\ Refuse(r) \/ Found(r, d, how, phase)
  BY DEF LookPreburned
<1>2. d \in Ids
  BY <1>1, ReqFacts DEF Informed
<1>3. how \in Hows /\ phase \in {"publish", "commit"}
  BY DEF Hows, AfterLook
<1>4. UNCHANGED <<codeVars, brokerVars, made, flash, board>>
  BY <1>1 DEF reqOnly, codeVars
<1> HIDE DEF d, how, phase
<1>5. CASE Refuse(r)
  BY <1>4, <1>5, SameCodes, RefuseKeeps
<1>6. CASE Found(r, d, how, phase)
  BY <1>1, <1>2, <1>3, <1>4, <1>6, FoundKeeps
<1> QED
  BY <1>1, <1>5, <1>6

LEMMA LookByMacKeeps ==
    ASSUME CtlInv, NEW r \in Reqs, LookByMac(r) PROVE CtlInv'
<1>1. /\ req[r].pc = "look" /\ UNCHANGED reqOnly
      /\ \/ \E d \in GetBindByFingerprint(made[req[r].code].mac, req[r].user) :
               Found(r, d, IF rows[d].user = req[r].user THEN "B" ELSE "D",
                     AfterLook(d, req[r].user))
         \/ Found(r, NoId, "A", "commit")
         \/ Refuse(r)
  BY DEF LookByMac
<1>2. GetBindByFingerprint(made[req[r].code].mac, req[r].user) \subseteq Ids
  BY DEF GetBindByFingerprint, Bearing
<1>3. UNCHANGED <<codeVars, brokerVars, made, flash, board>>
  BY <1>1 DEF reqOnly, codeVars
<1>4. CASE Refuse(r)
  BY <1>3, <1>4, SameCodes, RefuseKeeps
<1>5. CASE Found(r, NoId, "A", "commit")
  BY <1>1, <1>3, <1>5, FoundKeeps DEF Hows
<1>6. ASSUME NEW d \in Ids,
             Found(r, d, IF rows[d].user = req[r].user THEN "B" ELSE "D",
                   AfterLook(d, req[r].user))
      PROVE  CtlInv'
  <2> DEFINE how == IF rows[d].user = req[r].user THEN "B" ELSE "D"
             phase == AfterLook(d, req[r].user)
  <2>1. how \in Hows /\ phase \in {"publish", "commit"} /\ Found(r, d, how, phase)
    BY <1>6 DEF Hows, AfterLook
  <2> HIDE DEF how, phase
  <2> QED
    BY <1>1, <1>3, <2>1, FoundKeeps
<1> QED
  BY <1>1, <1>2, <1>4, <1>5, <1>6

LEMMA BindByDeviceIDKeeps ==
    ASSUME CtlInv, DbInv, NEW r \in Reqs, NEW u \in Users, NEW d \in Ids,
           BindByDeviceID(r, u, d)
    PROVE  CtlInv'
<1> DEFINE how == IF Exists(d) THEN "G" ELSE "E"
           q == [Idle EXCEPT !.pc = "commit", !.byId = TRUE, !.user = u, !.id = d,
                             !.mac = rows[d].mac, !.how = how]
<1>1. rows[d].mac \in Boards \cup {NoBoard}
  BY DEF DbInv, DbType, RowType
<1>2. q \in ReqRec /\ Informed(q)
  <2>1. how \in Hows /\ how # "A"
    BY DEF Hows
  <2> HIDE DEF how
  <2> QED
    BY <1>1, <2>1, IdleType DEF Idle, ReqRec, ReqPcs, Informed
<1>3. req' = [req EXCEPT ![r] = q] /\ UNCHANGED <<codeVars, brokerVars, made, flash, board>>
  BY DEF BindByDeviceID, reqOnly, codeVars
<1> QED
  BY <1>2, <1>3, SameCodes, ReqOnly

\* The transactions.
LEMMA CommitKeeps ==
    ASSUME CtlInv, NEW r \in Reqs, CommitBindFromPool(r) \/ CommitClaim(r) PROVE CtlInv'
<1>1. req[r].pc = "commit" /\ UNCHANGED <<codeVars, brokerVars, made, flash, board>>
  BY DEF CommitBindFromPool, CommitClaim, codeVars
<1>2. req[r] \in ReqRec /\ Informed(req[r]) /\ r \in DOMAIN req
  BY ReqFacts
<1>3. ASSUME Refuse(r) PROVE CtlInv'
  BY <1>1, <1>3, SameCodes, RefuseKeeps
<1>4. ASSUME NEW d \in Ids, req[r].how = "A", Found(r, d, "A", "publish") PROVE CtlInv'
  BY <1>1, <1>4, FoundKeeps DEF Hows
<1>5. ASSUME req[r].how # "A", Step(r, "publish") PROVE CtlInv'
  <2> DEFINE q == [req[r] EXCEPT !.pc = "publish"]
  <2>1. q \in ReqRec /\ Informed(q)
    BY <1>1, <1>2, <1>5 DEF ReqRec, ReqPcs, Informed
  <2>2. req' = [req EXCEPT ![r] = q]
    BY <1>2, <1>5 DEF Step
  <2> QED
    BY <1>1, <2>1, <2>2, SameCodes, ReqOnly
<1>6. FirstFree \subseteq Ids /\ \A m : Bearing(m) \subseteq Ids
  BY IdentityAssumption DEF FirstFree, Free, Bearing
<1>7. CASE CommitBindFromPool(r)
  BY <1>3, <1>4, <1>6, <1>7 DEF CommitBindFromPool
<1>8. CASE CommitClaim(r)
  BY <1>3, <1>5, <1>8 DEF CommitClaim
<1> QED
  BY <1>7, <1>8

LEMMA PublishKeeps ==
    ASSUME CtlInv, NEW r \in Reqs, Publish(r) PROVE CtlInv'
<1> DEFINE c == IF req[r].byId THEN pending[req[r].id] ELSE req[r].code
           grant == IF req[r].how \in {"A", "B", "D"} THEN req[r].id ELSE Keep
<1>1. /\ req[r].pc = "publish" /\ UNCHANGED <<codeVars, made, online, acks, flash, board>>
  BY DEF Publish, codeVars
<1>2. req[r] \in ReqRec /\ Informed(req[r]) /\ r \in DOMAIN req
  BY ReqFacts
<1>3. req[r].id \in Ids /\ c \in 0..MaxCodes /\ grant \in Grants
  BY <1>1, <1>2 DEF Informed, ReqRec, CtlInv, CodeType, Grants
<1> HIDE DEF c, grant
<1>4. CASE Refuse(r) /\ UNCHANGED <<waiter, inbox>>
  <2>1. CodeType' /\ BrokerType'
    BY <1>1, <1>4, SameCodes DEF brokerVars
  <2> QED
    BY <1>1, <1>4, <2>1, RefuseKeeps
<1>5. CASE /\ c # 0 /\ waiter' = [waiter EXCEPT ![c] = r]
           /\ inbox' = IF Listening(c) THEN [inbox EXCEPT ![c] = grant] ELSE inbox
           /\ req' = [req EXCEPT ![r].pc = "wait", ![r].code = c]
  <2> DEFINE q == [req[r] EXCEPT !.pc = "wait", !.code = c]
  <2>1. c \in Codes /\ (~req[r].byId => c = req[r].code)
    BY <1>3, <1>5, IdentityAssumption DEF Codes, c
  <2>2. q \in ReqRec /\ Informed(q)
    BY <1>1, <1>2, <1>3, <2>1 DEF ReqRec, ReqPcs, Informed
  <2>3. req' = [req EXCEPT ![r] = q]
    BY <1>2, <1>5
  <2>4. CodeType' /\ BrokerType'
    BY <1>1, <1>3, <1>5, <2>1 DEF CtlInv, CodeType, BrokerType, codeVars
  <2> QED
    BY <1>1, <2>2, <2>3, <2>4, ReqOnly
<1> QED
  BY <1>4, <1>5 DEF Publish, c, grant

LEMMA WaitDoneKeeps ==
    ASSUME CtlInv, NEW r \in Reqs, WaitDone(r) PROVE CtlInv'
<1>1. req[r].pc = "wait" /\ UNCHANGED <<codeVars, made, flash, board>>
  BY DEF WaitDone, codeVars
<1>2. req[r] \in ReqRec /\ Informed(req[r]) /\ r \in DOMAIN req
  BY ReqFacts
<1>3. CodeType' /\ BrokerType'
  BY DEF WaitDone, CtlInv, CodeType, BrokerType, codeVars
<1>4. CASE Refuse(r)
  BY <1>1, <1>3, <1>4, RefuseKeeps
<1>5. CASE Step(r, "clean")
  <2> DEFINE q == [req[r] EXCEPT !.pc = "clean"]
  <2>1. q \in ReqRec /\ Informed(q)
    BY <1>1, <1>2 DEF ReqRec, ReqPcs, Informed
  <2>2. req' = [req EXCEPT ![r] = q]
    BY <1>2, <1>5 DEF Step
  <2> QED
    BY <1>1, <1>3, <2>1, <2>2, ReqOnly
<1> QED
  BY <1>4, <1>5 DEF WaitDone

LEMMA CleanKeeps ==
    ASSUME CtlInv, NEW r \in Reqs, Clean(r) PROVE CtlInv'
<1>1. req[r] \in ReqRec
  BY ReqFacts
<1>2. CodeType'
  <2>1. live' \subseteq live /\ UNCHANGED made
    BY DEF Clean
  <2>2. pending' \in [Ids -> 0..MaxCodes]
    <3>1. 0 \in 0..MaxCodes /\ pending \in [Ids -> 0..MaxCodes]
      BY IdentityAssumption DEF CtlInv, CodeType
    <3>2. pending' = pending \/ pending' = [pending EXCEPT ![req[r].id] = 0]
      BY DEF Clean
    <3> QED
      BY <3>1, <3>2
  <2> QED
    BY <2>1, <2>2 DEF CtlInv, CodeType
<1>3. BrokerType'
  BY DEF Clean, CtlInv, BrokerType, brokerVars
<1> QED
  BY <1>2, <1>3, RefuseKeeps DEF Clean

LEMMA RequestStepKeeps ==
    ASSUME CtlInv, DbInv, NEW r \in Reqs, RequestStep(r) PROVE CtlInv'
BY BindKeeps, BindByDeviceIDKeeps, LookPreburnedKeeps, LookByMacKeeps, CommitKeeps,
   PublishKeeps, WaitDoneKeeps, CleanKeeps DEF RequestStep

-----------------------------------------------------------------------------
(* The broker and the clock. *)

LEMMA AckKeeps == ASSUME CtlInv, NEW c \in Codes, Ack(c) PROVE CtlInv'
<1>1. UNCHANGED <<codeVars, made, online, waiter, inbox, flash, board>>
  BY DEF Ack, codeVars
<1>2. acks \in [Codes -> Grants] /\ acks' = [acks EXCEPT ![c] = NoId]
  BY DEF Ack, CtlInv, BrokerType
<1>3. CodeType' /\ BrokerType'
  BY <1>1, <1>2 DEF CtlInv, CodeType, BrokerType, codeVars, Grants
<1>4. \A r \in Reqs : req'[r] \in ReqRec /\ Informed(req'[r])
  <2> TAKE r \in Reqs
  <2>1. req[r] \in ReqRec /\ Informed(req[r])
    BY ReqFacts
  <2>2. [req[r] EXCEPT !.got = acks[c]] \in ReqRec /\ Informed([req[r] EXCEPT !.got = acks[c]])
    BY <1>2, <2>1 DEF ReqRec, Informed
  <2>3. req'[r] = IF waiter[c] = r THEN [req[r] EXCEPT !.got = acks[c]] ELSE req[r]
    BY DEF Ack
  <2> QED
    BY <2>1, <2>2, <2>3
<1>5. ReqType' /\ ReqInv'
  <2>1. req' = [r \in Reqs |-> req'[r]]
    BY DEF Ack
  <2> QED
    BY <1>1, <1>4, <2>1 DEF ReqType, ReqInv, Informed
<1>6. BoardType' /\ BoardInv'
  BY <1>1 DEF CtlInv, BoardType, BoardInv
<1> QED
  BY <1>3, <1>5, <1>6 DEF CtlInv

\* What no request and no device sees happens to the codes.
LEMMA CodesOnly ==
    ASSUME CtlInv, CodeType', BrokerType', UNCHANGED <<made, flash, board, req>>
    PROVE  CtlInv'
BY DEF CtlInv, BoardType, BoardInv, ReqType, ReqInv, Informed

LEMMA ExpireKeeps == ASSUME CtlInv, NEW c \in Codes, Expire(c) PROVE CtlInv'
<1>1. pending' \in [Ids -> 0..MaxCodes]
  <2>1. 0 \in 0..MaxCodes /\ pending \in [Ids -> 0..MaxCodes]
    BY IdentityAssumption DEF CtlInv, CodeType
  <2> QED
    BY <2>1 DEF Expire
<1>2. CodeType'
  BY <1>1 DEF Expire, CtlInv, CodeType
<1>3. BrokerType'
  BY DEF Expire, CtlInv, BrokerType, brokerVars
<1> QED
  BY <1>2, <1>3, CodesOnly DEF Expire

LEMMA PresenceLapsesKeeps == ASSUME CtlInv, NEW c \in Codes, PresenceLapses(c) PROVE CtlInv'
<1>1. CodeType' /\ BrokerType'
  BY DEF PresenceLapses, CtlInv, CodeType, BrokerType, codeVars
<1> QED
  BY <1>1, CodesOnly DEF PresenceLapses, codeVars

LEMMA ResetKeeps == ASSUME CtlInv, NEW u, NEW d, Reset(u, d) PROVE CtlInv'
<1>1. CodeType' /\ BrokerType'
  BY SameCodes DEF Reset
<1> QED
  BY <1>1, CodesOnly DEF Reset, codeVars

-----------------------------------------------------------------------------
(* The tables: a row without owner is given to a user, or taken from one.  *)

Owned(u) == {d \in Ids : rows[d].user = u}

LEMMA OwnedFinite ==
    \A u : IsFiniteSet(Owned(u)) /\ Cardinality(Owned(u)) \in Nat
BY FS_Subset, FS_CardinalityType, IdentityAssumption DEF Owned

LEMMA OwnKeeps ==
    ASSUME DbInv, NEW d \in Ids, NEW u \in Users, NEW m \in Boards \cup {NoBoard},
           rows[d].user = Nobody, quota[u] > 0,
           m # NoBoard => ~Duplicate(d, m, u),
           Own(d, u, m)
    PROVE  DbInv'
<1>1. /\ rows \in [Ids -> RowType] /\ quota \in [Users -> Nat] /\ u # Nobody
      /\ rows' = [rows EXCEPT ![d] = [mac |-> m, user |-> u, last |-> u]]
      /\ quota' = [quota EXCEPT ![u] = @ - 1]
  BY IdentityAssumption DEF DbInv, DbType, Own
<1>2. DbType'
  BY <1>1 DEF DbType, RowType
<1>3. RowInv'
  BY <1>1 DEF DbInv, RowInv
<1>4. QuotaLedger'
  <2> SUFFICES ASSUME NEW v \in Users PROVE quota'[v] + Cardinality(Owned(v)') = Quota
    BY DEF QuotaLedger, Owned
  <2>1. quota[v] + Cardinality(Owned(v)) = Quota /\ quota[v] \in Nat
    BY <1>1 DEF DbInv, QuotaLedger, Owned
  <2>2. CASE v = u
    <3>1. Owned(v)' = Owned(v) \cup {d} /\ d \notin Owned(v)
      BY <1>1, <2>2 DEF Owned
    <3>2. Cardinality(Owned(v)') = Cardinality(Owned(v)) + 1
      BY <3>1, OwnedFinite, FS_AddElement
    <3> QED
      BY <1>1, <2>1, <2>2, <3>2, OwnedFinite
  <2>3. CASE v # u
    <3>1. Owned(v)' = Owned(v)
      BY <1>1, <2>3, IdentityAssumption DEF Owned
    <3> QED
      BY <1>1, <2>1, <2>3, <3>1
  <2> QED
    BY <2>2, <2>3
<1>5. OneIdentityPerUser'
  <2> SUFFICES ASSUME NEW a \in Ids, NEW e \in Ids, a # e,
                      rows'[a].user = rows'[e].user, rows'[a].user # Nobody,
                      rows'[a].mac = rows'[e].mac, rows'[a].mac # NoBoard
               PROVE  FALSE
    BY DEF OneIdentityPerUser
  <2>1. CASE a # d /\ e # d
    BY <1>1, <2>1 DEF DbInv, OneIdentityPerUser
  <2>2. ASSUME NEW x \in Ids, x # d, rows'[x].user = u, rows'[x].mac = m, m # NoBoard
        PROVE  FALSE
    <3>1. rows[x].user = u /\ rows[x].mac = m /\ Exists(x)
      BY <1>1, <2>2 DEF DbInv, RowInv, Exists
    <3> QED
      BY <2>2, <3>1 DEF Duplicate, Bearing
  <2> QED
    BY <1>1, <2>1, <2>2
<1> QED
  BY <1>2, <1>3, <1>4, <1>5 DEF DbInv

LEMMA ResetTables ==
    ASSUME DbInv, NEW d \in Ids, NEW u \in Users, Reset(u, d)
    PROVE  DbInv'
<1>1. /\ rows \in [Ids -> RowType] /\ quota \in [Users -> Nat] /\ u # Nobody
      /\ rows[d].user = u
      /\ rows' = [rows EXCEPT ![d].user = Nobody]
      /\ quota' = [quota EXCEPT ![u] = @ + 1]
  BY IdentityAssumption DEF DbInv, DbType, Reset
<1>2. DbType'
  BY <1>1 DEF DbType, RowType
<1>3. RowInv'
  BY <1>1 DEF DbInv, RowInv
<1>4. QuotaLedger'
  <2> SUFFICES ASSUME NEW v \in Users PROVE quota'[v] + Cardinality(Owned(v)') = Quota
    BY DEF QuotaLedger, Owned
  <2>1. quota[v] + Cardinality(Owned(v)) = Quota /\ quota[v] \in Nat
    BY <1>1 DEF DbInv, QuotaLedger, Owned
  <2>2. CASE v = u
    <3>1. Owned(v)' = Owned(v) \ {d} /\ d \in Owned(v)
      BY <1>1, <2>2 DEF Owned, RowType
    <3>2. Cardinality(Owned(v)') = Cardinality(Owned(v)) - 1
      BY <3>1, OwnedFinite, FS_RemoveElement
    <3> QED
      BY <1>1, <2>1, <2>2, <3>2, OwnedFinite
  <2>3. CASE v # u
    <3>1. Owned(v)' = Owned(v)
      BY <1>1, <2>3, IdentityAssumption DEF Owned, RowType
    <3> QED
      BY <1>1, <2>1, <2>3, <3>1
  <2> QED
    BY <2>2, <2>3
<1>5. OneIdentityPerUser'
  BY <1>1 DEF DbInv, OneIdentityPerUser, RowType
<1> QED
  BY <1>2, <1>3, <1>4, <1>5 DEF DbInv

\* The id a request takes out of the pool has no row, and so no owner.
LEMMA FromPoolTables ==
    ASSUME CtlInv, DbInv, NEW r \in Reqs, CommitBindFromPool(r)
    PROVE  DbInv' /\ \A d \in Ids : rows[d].user # Nobody => rows'[d].user = rows[d].user
<1> DEFINE u == req[r].user
           m == made[req[r].code].mac
<1>1. CASE UNCHANGED dbVars
  BY <1>1 DEF dbVars, DbInv, DbType, RowInv, QuotaLedger, OneIdentityPerUser
<1>2. ASSUME NEW d \in FirstFree, quota[u] > 0, {e \in Bearing(m) : rows[e].user = u} = {},
             Own(d, u, m), req[r].pc = "commit", req[r].how = "A"
      PROVE  DbInv' /\ \A e \in Ids : rows[e].user # Nobody => rows'[e].user = rows[e].user
  <2>1. d \in Ids /\ ~Exists(d)
    BY IdentityAssumption DEF FirstFree, Free
  <2>2. rows[d].user = Nobody
    BY <2>1 DEF DbInv, RowInv, Exists
  <2>3. u \in Users /\ m \in Boards \cup {NoBoard}
    <3>1. Informed(req[r])
      BY ReqFacts
    <3>2. u \in Users /\ ~req[r].byId
      BY <1>2, <3>1 DEF Informed
    <3> QED
      BY <1>2, <3>2, ReqFacts
  <2>4. ~Duplicate(d, m, u)
    BY <1>2 DEF Duplicate
  <2>5. DbInv'
    BY <1>2, <2>1, <2>2, <2>3, <2>4, OwnKeeps
  <2> QED
    BY <1>2, <2>2, <2>5 DEF Own, DbInv, DbType
<1> QED
  BY <1>1, <1>2 DEF CommitBindFromPool

LEMMA ClaimTables ==
    ASSUME CtlInv, DbInv, NEW r \in Reqs, CommitClaim(r)
    PROVE  DbInv' /\ \A d \in Ids : rows[d].user # Nobody => rows'[d].user = rows[d].user
<1> DEFINE u == req[r].user
           d == req[r].id
           m == IF req[r].how = "E" /\ Exists(d) THEN rows[d].mac ELSE ReportedMac(r)
<1>1. CASE UNCHANGED dbVars
  BY <1>1 DEF dbVars, DbInv, DbType, RowInv, QuotaLedger, OneIdentityPerUser
<1>2. CASE quota[u] > 0 /\ Claimable(d, u, m) /\ Own(d, u, m) /\ req[r].pc = "commit"
           /\ req[r].how # "A"
  <2>1. d \in Ids /\ u \in Users /\ req[r] \in ReqRec
    <3>1. Informed(req[r]) /\ req[r] \in ReqRec
      BY ReqFacts
    <3>2. req[r].pc = "commit" /\ req[r].how # "A"
      BY <1>2
    <3> HIDE <1>2
    <3> QED
      BY <3>1, <3>2 DEF Informed
  <2>2. m \in Boards \cup {NoBoard}
    BY <1>2, <2>1, ReqFacts DEF ReportedMac, ReqRec, DbInv, DbType, RowType
  <2> HIDE DEF u, d, m
  <2>3. rows[d].user = Nobody /\ (m # NoBoard => ~Duplicate(d, m, u))
    BY <1>2 DEF Claimable
  <2>4. DbInv'
    BY <1>2, <2>1, <2>2, <2>3, OwnKeeps
  <2> QED
    BY <1>2, <2>3, <2>4 DEF Own, DbInv, DbType
<1> QED
  BY <1>1, <1>2 DEF CommitClaim

-----------------------------------------------------------------------------
LEMMA InitInv == Init => Inv
<1> SUFFICES ASSUME Init PROVE Inv
  OBVIOUS
<1>1. made = <<>> /\ Len(made) = 0 /\ made \in Seq(MadeType) /\ 0 \in 0..MaxCodes
  BY IdentityAssumption, EmptySeq DEF Init
<1>2. CodeType /\ BrokerType
  BY <1>1, IdentityAssumption DEF Init, CodeType, BrokerType, Grants
<1>3. BoardType /\ BoardInv
  BY OffType, IdentityAssumption DEF Init, BoardType, BoardInv
<1>4. ReqType /\ ReqInv
  BY IdleType DEF Init, ReqType, ReqInv
<1>5. DbType /\ RowInv /\ OneIdentityPerUser
  BY IdentityAssumption DEF Init, NoRow, DbType, RowType, RowInv, OneIdentityPerUser
<1>6. QuotaLedger
  <2> SUFFICES ASSUME NEW u \in Users PROVE quota[u] + Cardinality(Owned(u)) = Quota
    BY DEF QuotaLedger, Owned
  <2>1. Owned(u) = {}
    BY IdentityAssumption DEF Init, NoRow, Owned
  <2> QED
    BY <2>1, FS_EmptySet, IdentityAssumption DEF Init
<1> QED
  BY <1>2, <1>3, <1>4, <1>5, <1>6 DEF Inv, CtlInv, DbInv

\* Only the three transactions write the tables.
LEMMA TablesKept ==
    ASSUME DbInv, UNCHANGED dbVars
    PROVE  DbInv'
BY DEF dbVars, DbInv, DbType, RowInv, QuotaLedger, OneIdentityPerUser

LEMMA NextTables ==
    ASSUME Inv, Next
    PROVE  /\ DbInv'
           /\ \A d \in Ids : rows[d].user # Nobody => rows'[d].user \in {rows[d].user, Nobody}
<1>1. CASE UNCHANGED dbVars
  BY <1>1, TablesKept DEF Inv, dbVars
<1>2. ASSUME NEW r \in Reqs, CommitBindFromPool(r) \/ CommitClaim(r)
      PROVE  /\ DbInv'
             /\ \A d \in Ids : rows[d].user # Nobody => rows'[d].user \in {rows[d].user, Nobody}
  BY <1>2, FromPoolTables, ClaimTables DEF Inv
<1>3. ASSUME NEW u \in Users, NEW e \in Ids, Reset(u, e)
      PROVE  /\ DbInv'
             /\ \A d \in Ids : rows[d].user # Nobody => rows'[d].user \in {rows[d].user, Nobody}
  BY <1>3, ResetTables DEF Inv, DbInv, DbType, RowType, Reset
<1>4. ASSUME NEW m \in Boards, BoardStep(m) PROVE UNCHANGED dbVars
  BY <1>4 DEF BoardStep, Boot, Stop, reportUnsigned, reportSigned, ConnectTemp, Granted,
              LeaveTemp, Save, TokenRefused, Token
<1>5. ASSUME NEW r \in Reqs, RequestStep(r)
      PROVE  UNCHANGED dbVars \/ CommitBindFromPool(r) \/ CommitClaim(r)
  <2>1. ASSUME NEW u \in Users, NEW c \in live, Bind(r, u, c) PROVE UNCHANGED dbVars
    BY <2>1 DEF Bind, reqOnly
  <2>2. ASSUME NEW u \in Users, NEW d \in Ids, BindByDeviceID(r, u, d) PROVE UNCHANGED dbVars
    BY <2>2 DEF BindByDeviceID, reqOnly
  <2>3. LookPreburned(r) => UNCHANGED dbVars
    BY DEF LookPreburned, reqOnly
  <2>4. LookByMac(r) => UNCHANGED dbVars
    BY DEF LookByMac, reqOnly
  <2>5. Publish(r) \/ WaitDone(r) \/ Clean(r) => UNCHANGED dbVars
    BY DEF Publish, WaitDone, Clean
  <2> QED
    BY <1>5, <2>1, <2>2, <2>3, <2>4, <2>5 DEF RequestStep
<1>6. ASSUME NEW c \in Codes, Ack(c) \/ Expire(c) \/ PresenceLapses(c) PROVE UNCHANGED dbVars
  BY <1>6 DEF Ack, Expire, PresenceLapses
<1> QED
  BY <1>1, <1>2, <1>3, <1>4, <1>5, <1>6 DEF Next

LEMMA StepInv == Inv /\ [Next]_vars => Inv'
<1> SUFFICES ASSUME Inv, [Next]_vars PROVE Inv'
  OBVIOUS
<1>1. CASE Next
  <2>1. CtlInv'
    BY <1>1, BoardStepKeeps, RequestStepKeeps, AckKeeps, ExpireKeeps, PresenceLapsesKeeps,
       ResetKeeps DEF Next, Inv
  <2> QED
    BY <1>1, <2>1, NextTables DEF Inv
<1>2. CASE UNCHANGED vars
  <2>1. CtlInv'
    BY <1>2, SameCodes, CodesOnly DEF vars, Inv, codeVars
  <2> QED
    BY <1>2, <2>1, TablesKept DEF vars, Inv
<1> QED
  BY <1>1, <1>2

-----------------------------------------------------------------------------
(* The theorems. *)

\* The inductive invariant, however many requests and devices interleave.
THEOREM BindingInductive == Spec => []Inv
BY InitInv, StepInv, PTL DEF Spec

LEMMA QuotaBound == Inv => \A u \in Users : quota[u] \in 0..Quota
<1> SUFFICES ASSUME Inv, NEW u \in Users PROVE quota[u] \in 0..Quota
  OBVIOUS
<1>1. quota[u] \in Nat /\ quota[u] + Cardinality(Owned(u)) = Quota
  BY DEF Inv, DbInv, DbType, QuotaLedger, Owned
<1> QED
  BY <1>1, OwnedFinite, IdentityAssumption

\* Every variable keeps its type; the last conjunct says that a device has one
\* live code at most.
THEOREM BindingTyped == Spec => []TypeOK
<1>1. Inv => TypeOK
  <2> SUFFICES ASSUME Inv PROVE TypeOK
    OBVIOUS
  <2>1. quota \in [Users -> 0..Quota]
    BY QuotaBound DEF Inv, DbInv, DbType
  <2> QED
    BY <2>1 DEF Inv, CtlInv, DbInv, DbType, RowType, CodeType, MadeType, BrokerType, Grants,
                BoardType, BoardRec, BoardPcs, ReqType, ReqRec, ReqPcs, Hows, TypeOK
<1> QED
  BY <1>1, BindingInductive, PTL

\* A user's devices and the rest of the quota make up the quota.
THEOREM QuotaLedgerAlways == Spec => []QuotaLedger
<1>1. Inv => QuotaLedger
  BY DEF Inv, DbInv
<1> QED
  BY <1>1, BindingInductive, PTL

\* A device is a user's under one id, however many requests bind it at once.
THEOREM OneIdentityPerUserAlways == Spec => []OneIdentityPerUser
<1>1. Inv => OneIdentityPerUser
  BY DEF Inv, DbInv
<1> QED
  BY <1>1, BindingInductive, PTL

\* An owner loses his id by his own unbinding only.
THEOREM OwnedUntilUnbound == Spec => OwnerUntilUnbound
<1>1. Inv /\ [Next]_vars
      => [\A d \in Ids : rows[d].user # Nobody => rows'[d].user \in {rows[d].user, Nobody}]_vars
  BY NextTables
<1> QED
  BY <1>1, BindingInductive, PTL DEF Spec, OwnerUntilUnbound

-----------------------------------------------------------------------------
(* DevicePresence: the inductive invariant. *)

Messages == {"connected", "disconnected", "heartbeat"}
Post == [Servers -> [Presence!Sessions -> Seq(Messages)]]

\* What waits for the servers: nothing, something of a connection, or nothing
\* but heartbeats.
Silence(m) == \A s \in Servers, n \in Presence!Sessions : m[s][n] = <<>>
HeartbeatsOnly(m) ==
    \A s \in Servers, n \in Presence!Sessions :
        \A i \in 1..Len(m[s][n]) : m[s][n][i] = "heartbeat"

PresenceTyped ==
    /\ main \in {"off", "run", "joined"} /\ stop \in BOOLEAN
    /\ beat \in {"off", "due", "sent"} /\ up \in BOOLEAN
    /\ sessions \in 0..MaxSessions /\ sess \in 0..MaxSessions
    /\ mail \in Post
    /\ known \in BOOLEAN /\ age \in 0..Ttl
    /\ good \in 0..2 /\ gone \in 0..Ttl

\* A device that is connected has a connection at the broker, runs, and has a
\* heartbeat thread until it is told to end.
DeviceInv ==
    /\ up => sess # 0 /\ main # "off"
    /\ main # "off" /\ ~stop => beat # "off"

\* Connected for a period, it has told nothing since but heartbeats, and has
\* sent one in this period or has still to; for two, its record is fresh.
KnownInv ==
    good # 0 /\ up =>
        /\ HeartbeatsOnly(mail)
        /\ ~stop /\ beat = "sent" => ~Silence(mail) \/ (known /\ age = 0)
        /\ ~stop /\ good = 2 => known /\ age <= 1

\* Without a connection the record is older than the time it is gone, and the
\* last a server hears of it comes in the first period.
GoneInv ==
    /\ sess # 0 => gone = 0
    /\ ~Silence(mail) => gone = 0
    /\ known => age < Ttl
    /\ known /\ sess = 0 => gone <= age

PresenceInv == PresenceTyped /\ DeviceInv /\ KnownInv /\ GoneInv

LEMMA Periods == Servers # {} /\ Ttl \in Nat /\ Ttl > 1 /\ MaxSessions \in Nat
BY PresenceHolds DEF Presence!PresenceAssumption

\* A message of a connection comes last at every server.
LEMMA TellDoes ==
    ASSUME NEW m \in Post, NEW n \in Presence!Sessions, NEW what \in Messages
    PROVE  /\ Presence!Tell(m, n, what) \in Post
           /\ ~Silence(Presence!Tell(m, n, what))
           /\ HeartbeatsOnly(m) /\ what = "heartbeat"
                 => HeartbeatsOnly(Presence!Tell(m, n, what))
<1> DEFINE t == Presence!Tell(m, n, what)
<1>1. \A s \in Servers : m[s] \in [Presence!Sessions -> Seq(Messages)]
  BY DEF Post
<1>2. \A s \in Servers : t[s] = [m[s] EXCEPT ![n] = Append(@, what)]
  BY DEF Presence!Tell
<1>3. \A s \in Servers, k \in Presence!Sessions :
          t[s][k] = IF k = n THEN Append(m[s][n], what) ELSE m[s][k]
  BY <1>1, <1>2
<1>4. \A s \in Servers :
          /\ Append(m[s][n], what) \in Seq(Messages)
          /\ Len(Append(m[s][n], what)) = Len(m[s][n]) + 1 /\ Len(m[s][n]) \in Nat
          /\ \A i \in 1..Len(m[s][n]) + 1 :
                Append(m[s][n], what)[i] = IF i <= Len(m[s][n]) THEN m[s][n][i] ELSE what
  BY <1>1, AppendProperties
<1>5. t \in Post
  <2>1. ASSUME NEW s \in Servers PROVE t[s] \in [Presence!Sessions -> Seq(Messages)]
    <3> DEFINE more == Append(m[s][n], what)
    <3>1. t[s] = [m[s] EXCEPT ![n] = more] /\ more \in Seq(Messages)
      BY <1>2, <1>4
    <3> HIDE DEF more
    <3> QED
      BY <1>1, <3>1
  <2>2. t = [s \in Servers |-> t[s]]
    BY DEF Presence!Tell
  <2> QED
    BY <2>1, <2>2, Zenon DEF Post
<1>6. ~Silence(t)
  <2>1. PICK s \in Servers : TRUE
    BY Periods
  <2>2. t[s][n] = Append(m[s][n], what)
    BY <1>3
  <2>3. Append(m[s][n], what) # <<>>
    BY <1>1, AppendProperties
  <2> QED
    BY <2>2, <2>3 DEF Silence
<1>7. ASSUME HeartbeatsOnly(m), what = "heartbeat" PROVE HeartbeatsOnly(t)
  <2> SUFFICES ASSUME NEW s \in Servers, NEW k \in Presence!Sessions,
                      NEW i \in 1..Len(t[s][k])
               PROVE  t[s][k][i] = "heartbeat"
    BY DEF HeartbeatsOnly
  <2>1. CASE k = n
    <3>1. Len(m[s][n]) \in Nat /\ i \in 1..Len(m[s][n]) + 1
      BY <1>3, <1>4, <2>1
    <3>2. t[s][k][i] = IF i <= Len(m[s][n]) THEN m[s][n][i] ELSE what
      BY <1>3, <1>4, <2>1, <3>1
    <3> QED
      BY <1>7, <3>1, <3>2 DEF HeartbeatsOnly
  <2>2. CASE k # n
    BY <1>3, <1>7, <2>2 DEF HeartbeatsOnly
  <2> QED
    BY <2>1, <2>2
<1> QED
  BY <1>5, <1>6, <1>7

\* The broker's last word on the connection it had.
LEMMA EndedDoes ==
    ASSUME NEW m \in Post, sess \in 0..MaxSessions
    PROVE  /\ Presence!Ended(m) \in Post
           /\ sess = 0 => Presence!Ended(m) = m
<1>1. sess # 0 => sess \in Presence!Sessions
  BY Periods DEF Presence!Sessions
<1> QED
  BY <1>1, TellDoes DEF Presence!Ended, Messages

\* A server hears the oldest of what waits of one connection.
LEMMA HeardDoes ==
    ASSUME NEW m \in Post, NEW s \in Servers, NEW n \in Presence!Sessions, m[s][n] # <<>>
    PROVE  /\ [m EXCEPT ![s][n] = Tail(@)] \in Post
           /\ Head(m[s][n]) \in Messages
           /\ ~Silence(m)
           /\ HeartbeatsOnly(m) =>
                 Head(m[s][n]) = "heartbeat" /\ HeartbeatsOnly([m EXCEPT ![s][n] = Tail(@)])
<1> DEFINE t == [m EXCEPT ![s][n] = Tail(@)]
           q == m[s][n]
<1>1. /\ \A x \in Servers : m[x] \in [Presence!Sessions -> Seq(Messages)]
      /\ q \in Seq(Messages)
  BY DEF Post
<1>2. /\ Tail(q) \in Seq(Messages) /\ Len(Tail(q)) = Len(q) - 1 /\ Head(q) = q[1]
      /\ Len(q) \in Nat \ {0} /\ Head(q) \in Messages
      /\ \A i \in 1..Len(Tail(q)) : Tail(q)[i] = q[i + 1]
  BY <1>1, HeadTailProperties, EmptySeq
<1>3. t \in Post
  BY <1>1, <1>2 DEF Post
<1>4. \A x \in Servers, k \in Presence!Sessions :
          t[x][k] = IF x = s /\ k = n THEN Tail(q) ELSE m[x][k]
  BY <1>1 DEF Post
<1>5. ~Silence(m)
  BY DEF Silence
<1>6. ASSUME HeartbeatsOnly(m) PROVE Head(q) = "heartbeat" /\ HeartbeatsOnly(t)
  <2>1. \A i \in 1..Len(q) : q[i] = "heartbeat"
    BY <1>6 DEF HeartbeatsOnly
  <2>2. Head(q) = "heartbeat" /\ \A i \in 1..Len(Tail(q)) : Tail(q)[i] = "heartbeat"
    BY <1>2, <2>1
  <2> SUFFICES HeartbeatsOnly(t)
    BY <2>2
  <2> SUFFICES ASSUME NEW x \in Servers, NEW k \in Presence!Sessions,
                      NEW i \in 1..Len(t[x][k])
               PROVE  t[x][k][i] = "heartbeat"
    BY DEF HeartbeatsOnly
  <2> QED
    BY <1>4, <1>6, <2>2 DEF HeartbeatsOnly
<1> QED
  BY <1>2, <1>3, <1>5, <1>6

-----------------------------------------------------------------------------
(* DevicePresence: every step keeps the invariant. *)

\* What the parts of the invariant are about.
LEMMA PresenceFrame ==
    ASSUME PresenceInv, UNCHANGED <<sess, sessions, mail, known, age, good, gone>>,
           main' \in {"off", "run", "joined"}, stop' \in BOOLEAN,
           beat' \in {"off", "due", "sent"}, up' \in BOOLEAN,
           up' => up /\ main' # "off", main' # "off" /\ ~stop' => beat' # "off",
           up' /\ ~stop' => ~stop /\ (beat' = "sent" => beat = "sent")
    PROVE  PresenceInv'
<1>1. PresenceTyped' /\ DeviceInv' /\ GoneInv'
  BY DEF PresenceInv, PresenceTyped, DeviceInv, GoneInv, Silence
<1>2. KnownInv'
  BY DEF PresenceInv, KnownInv, HeartbeatsOnly, Silence
<1> QED
  BY <1>1, <1>2 DEF PresenceInv

\* The connection ends: its last message is on the way.
LEMMA ConnectionEnds ==
    ASSUME PresenceInv, sess' = 0, mail' = Presence!Ended(mail), ~up', up' \in BOOLEAN,
           sess # 0 => gone' = 0, sess = 0 => gone' = gone,
           UNCHANGED <<stop, beat, sessions, known, age, good>>,
           main' \in {"off", "run", "joined"}, main' # "off" => main # "off"
    PROVE  PresenceInv'
<1>1. mail' \in Post /\ (sess = 0 => mail' = mail)
  BY EndedDoes DEF PresenceInv, PresenceTyped
<1>2. PresenceTyped'
  BY <1>1, Periods DEF PresenceInv, PresenceTyped
<1>3. DeviceInv' /\ KnownInv'
  BY DEF PresenceInv, DeviceInv, KnownInv
<1>4. GoneInv'
  BY <1>1, Periods DEF PresenceInv, PresenceTyped, GoneInv, Silence
<1> QED
  BY <1>2, <1>3, <1>4 DEF PresenceInv

LEMMA DeviceKeeps ==
    ASSUME PresenceInv,
           \/ Presence!LinkLost \/ Presence!Start \/ Presence!Refused
           \/ Presence!HeartbeatEnds \/ Presence!Unbound \/ Presence!Quit
           \/ Presence!JoinHeartbeat
    PROVE  PresenceInv'
<1> USE DEF Presence!deviceVars, Presence!brokerVars, Presence!keyVars, Presence!serverVars,
            Presence!countVars, Presence!history
<1>1. /\ PresenceTyped /\ DeviceInv
  BY DEF PresenceInv
<1>2. CASE Presence!LinkLost
  BY <1>1, <1>2, PresenceFrame DEF Presence!LinkLost, PresenceTyped, DeviceInv
<1>3. CASE Presence!Start
  BY <1>1, <1>3, PresenceFrame DEF Presence!Start, PresenceTyped, DeviceInv
<1>4. CASE Presence!Refused
  BY <1>1, <1>4, PresenceFrame DEF Presence!Refused, PresenceTyped, DeviceInv
<1>5. CASE Presence!HeartbeatEnds
  BY <1>1, <1>5, PresenceFrame DEF Presence!HeartbeatEnds, PresenceTyped, DeviceInv
<1>6. CASE Presence!Unbound
  BY <1>1, <1>6, PresenceFrame DEF Presence!Unbound, PresenceTyped, DeviceInv
<1>7. CASE Presence!Quit
  BY <1>1, <1>7, PresenceFrame DEF Presence!Quit, PresenceTyped, DeviceInv
<1>8. CASE Presence!JoinHeartbeat
  BY <1>1, <1>8, PresenceFrame DEF Presence!JoinHeartbeat, PresenceTyped, DeviceInv
<1> QED
  BY <1>2, <1>3, <1>4, <1>5, <1>6, <1>7, <1>8

\* A new connection begins a count of good periods.
LEMMA ConnectKeeps == ASSUME PresenceInv, Presence!Connect PROVE PresenceInv'
<1>1. /\ main # "off" /\ up' = TRUE /\ sessions' = sessions + 1 /\ sess' = sessions + 1
      /\ sessions < MaxSessions /\ good' = 0 /\ gone' = 0
      /\ mail' = Presence!Tell(Presence!Ended(mail), sessions + 1, "connected")
      /\ UNCHANGED <<main, stop, beat, known, age>>
  BY DEF Presence!Connect, Presence!keyVars
<1>2. sessions + 1 \in Presence!Sessions /\ sess' \in 0..MaxSessions /\ sess' # 0
  BY <1>1, Periods DEF PresenceInv, PresenceTyped, Presence!Sessions
<1>3. mail' \in Post
  BY <1>1, <1>2, EndedDoes, TellDoes DEF PresenceInv, PresenceTyped, Messages
<1>4. PresenceTyped'
  BY <1>1, <1>2, <1>3, Periods DEF PresenceInv, PresenceTyped
<1>5. DeviceInv' /\ KnownInv'
  BY <1>1, <1>2 DEF PresenceInv, DeviceInv, KnownInv
<1>6. GoneInv'
  BY <1>1, <1>2 DEF PresenceInv, GoneInv
<1> QED
  BY <1>4, <1>5, <1>6 DEF PresenceInv

LEMMA HeartbeatKeeps == ASSUME PresenceInv, Presence!Heartbeat PROVE PresenceInv'
<1>1. /\ beat = "due" /\ ~stop /\ beat' = "sent"
      /\ mail' = IF up /\ sess # 0 THEN Presence!Tell(mail, sess, "heartbeat") ELSE mail
      /\ UNCHANGED <<main, stop, up, sess, sessions, known, age, good, gone>>
  BY DEF Presence!Heartbeat, Presence!keyVars, Presence!history
<1>2. CASE up
  <2>1. sess \in Presence!Sessions /\ sess # 0
    BY <1>2, Periods DEF PresenceInv, PresenceTyped, DeviceInv, Presence!Sessions
  <2>2. /\ mail' \in Post /\ ~Silence(mail')
        /\ HeartbeatsOnly(mail) => HeartbeatsOnly(mail')
    BY <1>1, <1>2, <2>1, TellDoes DEF PresenceInv, PresenceTyped, Messages
  <2>3. PresenceTyped' /\ DeviceInv'
    BY <1>1, <2>2 DEF PresenceInv, PresenceTyped, DeviceInv
  <2>4. KnownInv'
    BY <1>1, <2>2 DEF PresenceInv, KnownInv, HeartbeatsOnly, Silence
  <2>5. GoneInv'
    BY <1>1, <2>1 DEF PresenceInv, GoneInv
  <2> QED
    BY <2>3, <2>4, <2>5 DEF PresenceInv
<1>3. CASE ~up
  <2>1. mail' = mail
    BY <1>1, <1>3
  <2> QED
    BY <1>1, <1>3, <2>1 DEF PresenceInv, PresenceTyped, DeviceInv, KnownInv, GoneInv, Silence
<1> QED
  BY <1>2, <1>3 DEF PresenceInv, PresenceTyped

LEMMA LeaveKeeps == ASSUME PresenceInv, Presence!Leave PROVE PresenceInv'
<1>1. /\ main = "joined" /\ main' = "off" /\ up' = FALSE
      /\ UNCHANGED <<stop, beat, sessions, known, age, good>>
  BY DEF Presence!Leave, Presence!keyVars
<1>2. CASE up
  <2>1. sess' = 0 /\ mail' = Presence!Ended(mail) /\ gone' = 0 /\ sess # 0
    BY <1>2 DEF Presence!Leave, PresenceInv, DeviceInv
  <2> QED
    BY <1>1, <2>1, ConnectionEnds
<1>3. CASE ~up
  <2>1. UNCHANGED <<sess, mail, gone>>
    BY <1>3 DEF Presence!Leave
  <2> QED
    BY <1>1, <1>3, <2>1, PresenceFrame DEF PresenceInv, PresenceTyped
<1> QED
  BY <1>2, <1>3

LEMMA BrokerNoticesKeeps == ASSUME PresenceInv, Presence!BrokerNotices PROVE PresenceInv'
<1>1. /\ sess # 0 /\ ~up /\ sess' = 0 /\ mail' = Presence!Ended(mail) /\ gone' = 0
      /\ UNCHANGED <<main, stop, beat, up, sessions, known, age, good>>
  BY DEF Presence!BrokerNotices, Presence!deviceVars, Presence!keyVars
<1> QED
  BY <1>1, ConnectionEnds DEF PresenceInv, PresenceTyped

LEMMA TokenExpiresKeeps == ASSUME PresenceInv, Presence!TokenExpires PROVE PresenceInv'
<1>1. /\ main = "run" /\ up' = FALSE /\ sess' = 0 /\ mail' = Presence!Ended(mail)
      /\ gone' = IF sess # 0 THEN 0 ELSE gone
      /\ UNCHANGED <<main, stop, beat, sessions, known, age, good>>
  BY DEF Presence!TokenExpires, Presence!keyVars
<1> QED
  BY <1>1, ConnectionEnds

\* A heartbeat makes the record fresh; anything else comes in a period that is
\* not yet good.
LEMMA HearKeeps == ASSUME PresenceInv, NEW s \in Servers, Presence!Hear(s) PROVE PresenceInv'
<1>1. PICK n \in Presence!Sessions :
          /\ mail[s][n] # <<>>
          /\ mail' = [mail EXCEPT ![s][n] = Tail(@)]
          /\ known' = (Head(mail[s][n]) # "disconnected")
          /\ age' = IF Head(mail[s][n]) = "disconnected" THEN age ELSE 0
          /\ UNCHANGED <<main, stop, beat, up, sess, sessions, good, gone>>
  BY Zenon DEF Presence!Hear, Presence!deviceVars, Presence!history
<1>2. /\ mail' \in Post /\ ~Silence(mail)
      /\ HeartbeatsOnly(mail) => Head(mail[s][n]) = "heartbeat" /\ HeartbeatsOnly(mail')
  BY <1>1, HeardDoes DEF PresenceInv, PresenceTyped
<1>3. known' \in BOOLEAN /\ (known' <=> Head(mail[s][n]) # "disconnected")
  BY <1>1, Zenon
<1>4. gone = 0
  BY <1>2 DEF PresenceInv, GoneInv
<1>5. age' \in 0..Ttl /\ (known' => age' = 0)
  BY <1>1, <1>3, Periods DEF PresenceInv, PresenceTyped
<1>6. PresenceTyped' /\ DeviceInv'
  BY <1>1, <1>2, <1>3, <1>5 DEF PresenceInv, PresenceTyped, DeviceInv
<1>7. KnownInv'
  BY <1>1, <1>2, <1>3, <1>5 DEF PresenceInv, KnownInv
<1>8. GoneInv'
  BY <1>1, <1>4, <1>5, Periods DEF PresenceInv, GoneInv
<1> QED
  BY <1>6, <1>7, <1>8 DEF PresenceInv

LEMMA MissKeeps == ASSUME PresenceInv, NEW s \in Servers, Presence!Miss(s) PROVE PresenceInv'
<1>1. PICK n \in Presence!Sessions :
          mail[s][n] # <<>> /\ mail' = [mail EXCEPT ![s][n] = Tail(@)]
  BY DEF Presence!Miss
<1>2. good' = 0 /\ UNCHANGED <<main, stop, beat, up, sess, sessions, known, age, gone>>
  BY DEF Presence!Miss, Presence!deviceVars, Presence!keyVars
<1>3. mail' \in Post /\ ~Silence(mail)
  BY <1>1, HeardDoes DEF PresenceInv, PresenceTyped
<1>4. PresenceTyped' /\ DeviceInv' /\ KnownInv'
  BY <1>2, <1>3 DEF PresenceInv, PresenceTyped, DeviceInv, KnownInv
<1>5. GoneInv'
  BY <1>2, <1>3 DEF PresenceInv, GoneInv
<1> QED
  BY <1>4, <1>5 DEF PresenceInv

LEMMA ServerKeeps == ASSUME PresenceInv, Presence!Server PROVE PresenceInv'
<1> USE DEF Presence!deviceVars, Presence!brokerVars, Presence!keyVars, Presence!history
<1>1. CASE Presence!Commit \/ Presence!Publish \/ Presence!Bind
  <2>1. UNCHANGED <<main, stop, beat, up, sess, sessions, mail, known, age, good, gone>>
    BY <1>1 DEF Presence!Commit, Presence!Publish, Presence!Bind
  <2> QED
    BY <2>1, PresenceFrame DEF PresenceInv, PresenceTyped, DeviceInv
<1>2. CASE Presence!KickClient
  <2>1. /\ known' = FALSE /\ good' = 0
        /\ UNCHANGED <<main, stop, beat, up, sess, sessions, mail, age, gone>>
    BY <1>2 DEF Presence!KickClient
  <2>2. known' \in BOOLEAN /\ ~known'
    BY <2>1, Zenon
  <2>3. PresenceTyped' /\ DeviceInv'
    BY <2>1, <2>2 DEF PresenceInv, PresenceTyped, DeviceInv
  <2>4. KnownInv'
    BY <2>1 DEF KnownInv
  <2>5. GoneInv'
    BY <2>1, <2>2 DEF PresenceInv, GoneInv, Silence
  <2> QED
    BY <2>3, <2>4, <2>5 DEF PresenceInv
<1> QED
  BY <1>1, <1>2 DEF Presence!Server

\* What is known after a period was heard of in it.
LEMMA PeriodKeeps == ASSUME PresenceInv, Presence!Period PROVE PresenceInv'
<1>1. /\ Silence(mail) /\ (beat # "due" \/ stop)
      /\ beat' = IF beat = "sent" THEN "due" ELSE beat
      /\ known' = (known /\ age + 1 < Ttl)
      /\ age' = IF known THEN age + 1 ELSE age
      /\ good' = IF up THEN Presence!Later(good, 2) ELSE 0
      /\ gone' = IF sess = 0 THEN Presence!Later(gone, Ttl) ELSE 0
      /\ UNCHANGED <<main, stop, up, sess, sessions, mail>>
  BY Zenon DEF Presence!Period, Presence!brokerVars, Silence
<1>2. known' \in BOOLEAN /\ (known' <=> known /\ age + 1 < Ttl)
  BY <1>1, Zenon
<1>3. /\ good \in 0..2 /\ gone \in 0..Ttl /\ age \in 0..Ttl /\ (known => age < Ttl)
      /\ beat \in {"off", "due", "sent"}
  BY DEF PresenceInv, PresenceTyped, GoneInv
<1>4. /\ good' \in 0..2 /\ gone' \in 0..Ttl /\ age' \in 0..Ttl
      /\ good' = 2 => good # 0 /\ up
      /\ good' # 0 => up
      /\ sess = 0 => gone' <= gone + 1
  BY <1>1, <1>3, Periods DEF Presence!Later
<1>5. PresenceTyped' /\ DeviceInv'
  BY <1>1, <1>2, <1>4 DEF PresenceInv, PresenceTyped, DeviceInv
<1>6. GoneInv'
  BY <1>1, <1>2, <1>3, <1>4, Periods DEF PresenceInv, GoneInv, Silence
<1>7. HeartbeatsOnly(mail')
  BY <1>1 DEF Silence, HeartbeatsOnly
<1>8. ASSUME ~stop, up PROVE beat' = "due" /\ (good' = 2 => known' /\ age' <= 1)
  <2>1. beat = "sent" /\ beat' = "due"
    BY <1>1, <1>3, <1>8 DEF PresenceInv, DeviceInv
  <2>2. good # 0 => known /\ age = 0
    BY <1>1, <1>8, <2>1 DEF PresenceInv, KnownInv
  <2> QED
    BY <1>1, <1>2, <1>3, <1>4, <2>1, <2>2, Periods
<1>9. KnownInv'
  BY <1>1, <1>7, <1>8 DEF KnownInv
<1> QED
  BY <1>5, <1>6, <1>9 DEF PresenceInv

LEMMA PresenceInitInv == Presence!Init => PresenceInv
<1> SUFFICES ASSUME Presence!Init PROVE PresenceInv
  OBVIOUS
<1>1. /\ main = "off" /\ stop = FALSE /\ beat = "off" /\ up = FALSE /\ sess = 0
      /\ sessions = 0 /\ known = FALSE /\ age = 0 /\ good = 0 /\ gone = Ttl
      /\ mail = [s \in Servers |-> [n \in Presence!Sessions |-> <<>>]]
  BY DEF Presence!Init
<1>2. mail \in Post /\ Silence(mail)
  BY <1>1 DEF Post, Silence
<1>3. /\ known \in BOOLEAN /\ ~known /\ stop \in BOOLEAN /\ up \in BOOLEAN
  BY <1>1, Zenon
<1>4. PresenceTyped
  BY <1>1, <1>2, <1>3, Periods DEF PresenceTyped
<1>5. DeviceInv /\ KnownInv
  BY <1>1 DEF DeviceInv, KnownInv
<1>6. GoneInv
  BY <1>1, <1>2, <1>3 DEF GoneInv
<1> QED
  BY <1>4, <1>5, <1>6 DEF PresenceInv

LEMMA PresenceStepInv == PresenceInv /\ [Presence!Next]_presenceVars => PresenceInv'
<1> SUFFICES ASSUME PresenceInv, [Presence!Next]_presenceVars PROVE PresenceInv'
  OBVIOUS
<1>1. CASE Presence!Device
  BY <1>1, DeviceKeeps, ConnectKeeps, HeartbeatKeeps, LeaveKeeps DEF Presence!Device
<1>2. CASE Presence!BrokerNotices \/ Presence!TokenExpires
  BY <1>2, BrokerNoticesKeeps, TokenExpiresKeeps
<1>3. CASE Presence!Server \/ Presence!Period
  BY <1>3, ServerKeeps, PeriodKeeps
<1>4. CASE \E s \in Servers : Presence!Hear(s) \/ Presence!Miss(s)
  BY <1>4, HearKeeps, MissKeeps
<1>5. CASE UNCHANGED presenceVars
  <2>1. UNCHANGED <<main, stop, beat, up, sess, sessions, mail, known, age, good, gone>>
    BY <1>5 DEF presenceVars
  <2> QED
    BY <2>1, PresenceFrame DEF PresenceInv, PresenceTyped, DeviceInv
<1> QED
  BY <1>1, <1>2, <1>3, <1>4, <1>5 DEF Presence!Next

LEMMA FollowsFromInv == PresenceInv => PresenceFollows
<1> SUFFICES ASSUME PresenceInv PROVE PresenceFollows
  OBVIOUS
<1>1. Presence!KnownWhenUp
  BY DEF PresenceInv, KnownInv, Presence!KnownWhenUp
<1>2. Presence!UnknownWhenGone
  <2> SUFFICES ASSUME gone = Ttl, known PROVE FALSE
    BY DEF Presence!UnknownWhenGone
  <2> QED
    BY Periods DEF PresenceInv, PresenceTyped, GoneInv
<1> QED
  BY <1>1, <1>2 DEF PresenceFollows

-----------------------------------------------------------------------------
(* DeviceProcess: the identity. *)

Filed == Identities \cup {None}
\* The phases before there is a part, and those that store the identity.
Early == {"install", "options", "media", "discover", "identity", "report", "grant", "save",
          "write", "sync", "rename", "token"}
Storing == {"save", "write", "sync", "rename"}
\* The phases before an identity is granted in this round.
Fresh == {"install", "options", "media", "discover", "identity", "report", "grant"}
Recalled == cred # given => file = cred

ProcessInv ==
    /\ file \in Filed /\ durable \in Filed /\ solid = TRUE
    /\ pc = "rename" => temp = "synced"
    /\ pc \in Early => alive = {}
    /\ pc \in Fresh => origin \in {"known", "rebound"}
    /\ pc \in Storing => cred \in Identities /\ (origin = "known" => Recalled)
    /\ pc = "token" /\ cred \in Identities /\ origin # "rebound" => Recalled
    /\ pc \notin Early \cup {"over"} => Recalled
    /\ alive # {} => Recalled

LEMMA Distinct == None \notin Identities /\ Half \notin Identities /\ Torn \notin Filed
<1>1. {None, Half, Torn} \cap Identities = {} /\ Process!Cardinality({None, Half, Torn}) = 3
  BY ProcessHolds DEF Process!ProcessAssumption
<1>2. ASSUME Torn = None PROVE FALSE
  <2>1. CASE Half = None
    <3>1. {None, Half, Torn} = {None}
      BY <1>2, <2>1
    <3>2. Cardinality({None}) = 1
      BY FS_Singleton
    <3>3. Process!Cardinality({None}) = Cardinality({None})
      BY DEF Process!Cardinality, Process!IsFiniteSet, Cardinality, IsFiniteSet
    <3> QED
      BY <1>1, <3>1, <3>2, <3>3
  <2>2. CASE Half # None
    <3>1. IsFiniteSet({None}) /\ Cardinality({None}) = 1 /\ Half \notin {None}
      BY <2>2, FS_Singleton
    <3>2. Cardinality({None} \cup {Half}) = 2
      BY <3>1, FS_AddElement
    <3>3. {None, Half, Torn} = {None} \cup {Half}
      BY <1>2
    <3>4. Process!Cardinality({None} \cup {Half}) = Cardinality({None} \cup {Half})
      BY DEF Process!Cardinality, Process!IsFiniteSet, Cardinality, IsFiniteSet
    <3> QED
      BY <1>1, <3>2, <3>3, <3>4
  <2> QED
    BY <2>1, <2>2
<1> QED
  BY <1>1, <1>2 DEF Filed

\* Steps that leave the identity and its file alone.
LEMMA ProcessFrame ==
    ASSUME ProcessInv, UNCHANGED <<given, cred, origin, temp, file, solid, durable>>,
           pc' = pc \/ pc' \notin Early,
           pc' \notin Early \cup {"over"} => pc \notin Early \cup {"over"} \/ Recalled,
           alive' \in SUBSET alive \/ Recalled,
           pc' \in Early => alive' = {}
    PROVE  ProcessInv'
<1>1. Recalled' <=> Recalled
  BY DEF Recalled
<1>2. alive' # {} => Recalled
  BY DEF ProcessInv
<1> QED
  BY <1>1, <1>2 DEF ProcessInv, Early, Storing, Fresh

\* No part is there yet, and nothing is being stored.
LEMMA EarlyFrame ==
    ASSUME file' \in Filed, durable' \in Filed, solid' = TRUE, alive' = {},
           (pc' \in Fresh /\ origin' \in {"known", "rebound"}) \/ pc' = "over"
    PROVE  ProcessInv'
BY DEF ProcessInv, Early, Storing, Fresh

LEMMA StartKeeps ==
    ASSUME ProcessInv,
           Process!Install \/ Process!ParseOptions \/ Process!ValidateMedia
               \/ Process!fetch_services \/ Process!Report
    PROVE  ProcessInv'
<1> USE DEF Process!Before, Process!memory, Process!disk, Process!identity, Process!GoTo,
            Process!Return
<1>1. pc \in Early /\ UNCHANGED <<origin, file, solid, durable, alive>> /\ pc \in Fresh
  BY DEF Process!Install, Process!ParseOptions, Process!ValidateMedia,
         Process!fetch_services, Process!Report, Early, Fresh
<1>2. pc' \in {"options", "media", "discover", "identity", "grant", "over"}
  BY DEF Process!Install, Process!ParseOptions, Process!ValidateMedia,
         Process!fetch_services, Process!Report
<1> QED
  BY <1>1, <1>2, EarlyFrame DEF ProcessInv, Early, Storing, Fresh

LEMMA IdentifyKeeps == ASSUME ProcessInv, Process!Identify PROVE ProcessInv'
<1>1. /\ pc = "identity"
      /\ cred' = IF given \notin Identities /\ file \in Identities THEN file ELSE given
      /\ pc' = IF cred' \in Identities THEN "save" ELSE "report"
      /\ UNCHANGED <<alive, given, origin, temp, file, solid, durable>>
  BY DEF Process!Identify, Process!Stored, Process!GoTo, Process!memory, Process!disk
<1> QED
  BY <1>1 DEF ProcessInv, Early, Storing, Fresh, Recalled

LEMMA GrantKeeps == ASSUME ProcessInv, Process!Grant PROVE ProcessInv'
<1>1. pc = "grant" /\ UNCHANGED <<alive, given, temp, file, solid, durable>>
  BY DEF Process!Grant, Process!memory, Process!disk
<1>2. CASE Process!Granted
  <2>1. /\ cred' \in Identities \cup {cred}
        /\ origin' = IF origin = "known" THEN "granted" ELSE origin
        /\ pc' = IF origin = "known" /\ cred' \in Identities THEN "save" ELSE "token"
    BY <1>2 DEF Process!Granted, Process!GoTo
  <2> QED
    BY <1>1, <2>1 DEF ProcessInv, Early, Storing, Fresh, Recalled
<1>3. CASE Process!NotGranted
  <2>1. /\ (pc' = "token" /\ cred = Half) \/ pc' = "over"
        /\ UNCHANGED <<cred, origin>>
    BY <1>3 DEF Process!NotGranted, Process!GoTo, Process!Return
  <2>2. CASE pc' = "over"
    BY <1>1, <2>1, <2>2, EarlyFrame DEF ProcessInv, Early, Storing, Fresh
  <2>3. CASE pc' = "token" /\ cred' \notin Identities
    BY <1>1, <2>1, <2>3 DEF ProcessInv, Early, Storing, Fresh, Recalled
  <2> QED
    BY <2>1, <2>2, <2>3, Distinct
<1> QED
  BY <1>2, <1>3 DEF Process!Grant

\* What gets the file's name is the identity, whole and on the medium.
LEMMA StoreKeeps == ASSUME ProcessInv, Process!Save PROVE ProcessInv'
<1>1. /\ pc \in Storing /\ UNCHANGED <<alive, given, cred, origin, durable>>
  BY DEF Process!Save, Process!OpenTemp, Process!WriteAll, Process!Sync, Process!Rename,
         Process!NotSaved, Process!memory, Process!identity, Storing
<1>2. CASE Process!OpenTemp \/ Process!WriteAll \/ Process!Sync
  <2>1. /\ pc' \in {"write", "sync", "rename"} /\ (pc' = "rename" => temp' = "synced")
        /\ UNCHANGED <<file, solid>>
    BY <1>2 DEF Process!OpenTemp, Process!WriteAll, Process!Sync, Process!GoTo
  <2> QED
    BY <1>1, <2>1 DEF ProcessInv, Early, Storing, Fresh, Recalled
<1>3. CASE Process!Rename
  <2>1. /\ pc = "rename" /\ pc' \in {"create", "token"} /\ file' = cred
        /\ solid' = (temp = "synced")
    BY <1>3 DEF Process!Rename, Process!GoTo
  <2>2. solid' = TRUE
    <3>1. temp = "synced"
      BY <2>1 DEF ProcessInv
    <3> QED
      BY <2>1, <3>1, Zenon
  <2> QED
    BY <1>1, <2>1, <2>2 DEF ProcessInv, Early, Storing, Fresh, Recalled, Filed
<1>4. CASE pc \in Storing /\ Process!NotSaved
  <2>1. /\ (origin = "known" /\ pc' = "token") \/ pc' = "over"
        /\ UNCHANGED <<file, solid>>
    BY <1>4 DEF Process!NotSaved, Process!GoTo, Process!Return
  <2> QED
    BY <1>1, <2>1 DEF ProcessInv, Early, Storing, Fresh, Recalled
<1> QED
  BY <1>2, <1>3, <1>4 DEF Process!Save, Storing

LEMMA SignKeeps == ASSUME ProcessInv, Process!Token PROVE ProcessInv'
<1>1. /\ pc = "token" /\ UNCHANGED <<alive, given, cred, temp, file, solid, durable>>
  BY DEF Process!Token, Process!memory, Process!disk
<1>2. \/ /\ cred \in Identities /\ origin' = origin
         /\ pc' = IF origin = "rebound" THEN "save" ELSE "create"
      \/ pc' = "report" /\ origin' = "rebound"
      \/ pc' = "over" /\ origin' = origin
  BY DEF Process!Token, Process!GoTo, Process!Return
<1> QED
  BY <1>1, <1>2 DEF ProcessInv, Early, Storing, Fresh, Recalled

\* The parts come and go with an identity that is the file's.
LEMMA PartsKeep ==
    ASSUME ProcessInv,
           \/ Process!Create \/ Process!Configure \/ Process!Register
           \/ Process!StartRuntime \/ Process!WaitStarted \/ Process!StartCoordinator
           \/ Process!StartArbiter \/ Process!ReportMedia \/ Process!StartStream
           \/ Process!StartRoom \/ Process!StartCommands \/ Process!Connect
           \/ Process!Serve \/ Process!Tell \/ Process!Joined \/ Process!Cleaned
    PROVE  ProcessInv'
<1> USE DEF Process!GoTo, Process!Fail, Process!Clean, Process!Leave, Process!Part,
            Process!identity, Process!disk, Process!memory
<1>1. UNCHANGED <<given, cred, origin, temp, file, solid, durable>>
  BY DEF Process!Create, Process!Configure, Process!Register, Process!StartRuntime,
         Process!WaitStarted, Process!StartCoordinator, Process!StartArbiter,
         Process!ReportMedia, Process!StartStream, Process!StartRoom,
         Process!StartCommands, Process!Connect, Process!Serve, Process!Tell,
         Process!Joined, Process!Cleaned
<1>2. pc \notin Early \cup {"over"}
  BY DEF Process!Create, Process!Configure, Process!Register, Process!StartRuntime,
         Process!WaitStarted, Process!StartCoordinator, Process!StartArbiter,
         Process!ReportMedia, Process!StartStream, Process!StartRoom,
         Process!StartCommands, Process!Connect, Process!Serve, Process!Tell,
         Process!Joined, Process!Cleaned, Early
<1>3. pc' \notin Early
  <2>1. CASE Process!Cleaned
    BY <2>1, <1>2 DEF Process!Cleaned, Early
  <2>2. CASE Process!Tell \/ Process!Joined
    BY <2>2 DEF Process!Tell, Process!Joined, Early
  <2>3. CASE Process!ReportMedia
    BY <2>3 DEF Process!ReportMedia, Early
  <2>4. CASE Process!StartRoom \/ Process!StartCommands \/ Process!Connect \/ Process!Serve
    BY <2>4 DEF Process!StartRoom, Process!StartCommands, Process!Connect, Process!Serve, Early
  <2>5. CASE \/ Process!Create \/ Process!Configure \/ Process!Register
             \/ Process!StartRuntime \/ Process!WaitStarted \/ Process!StartCoordinator
             \/ Process!StartArbiter \/ Process!StartStream
    BY <2>5 DEF Process!Create, Process!Configure, Process!Register, Process!StartRuntime,
       Process!WaitStarted, Process!StartCoordinator, Process!StartArbiter,
       Process!StartStream, Early
  <2> QED
    BY <2>1, <2>2, <2>3, <2>4, <2>5
<1>4. Recalled
  BY <1>2 DEF ProcessInv
<1> QED
  BY <1>1, <1>2, <1>3, <1>4, ProcessFrame

LEMMA ThreadsKeep ==
    ASSUME ProcessInv,
           \/ \E t \in Process!Threads : Process!Ends(t)
           \/ Process!ProductAction \/ Process!SessionBegins \/ Process!RejectBusy
           \/ Process!Defer \/ Process!OnSigint
    PROVE  ProcessInv'
<1>1. UNCHANGED <<pc, alive, given, cred, origin, temp, file, solid, durable>>
  BY DEF Process!Ends, Process!ProductAction, Process!SessionBegins, Process!RejectBusy,
         Process!Defer, Process!OnSigint, Process!Starts, Process!Main, Process!Part,
         Process!identity, Process!disk
<1> QED
  BY <1>1 DEF ProcessInv, Recalled

\* The file after a loss of power is the last that was on the medium, or whole.
LEMMA OutsideKeeps ==
    ASSUME ProcessInv, Process!Flush \/ Process!Killed \/ Process!PowerLoss
    PROVE  ProcessInv'
<1>1. CASE Process!Flush
  <2>1. /\ durable' = file /\ solid' = TRUE
        /\ UNCHANGED <<pc, alive, given, cred, origin, temp, file>>
    BY <1>1 DEF Process!Flush, Process!memory, Process!identity
  <2> QED
    BY <2>1 DEF ProcessInv, Recalled
<1>2. CASE Process!Killed \/ Process!PowerLoss
  <2>1. pc' = "install" /\ alive' = {} /\ origin' = "known"
    BY <1>2 DEF Process!Killed, Process!PowerLoss, Process!Boot
  <2>2. file' \in Filed /\ durable' \in Filed /\ solid' = TRUE
    BY <1>2 DEF Process!Killed, Process!PowerLoss, Process!disk, ProcessInv
  <2> QED
    BY <2>1, <2>2, EarlyFrame DEF Early, Storing, Fresh
<1> QED
  BY <1>1, <1>2

LEMMA ProcessInitInv == Process!Init => ProcessInv
BY DEF Process!Init, ProcessInv, Early, Storing, Fresh, Recalled, Filed

LEMMA ProcessStepInv == ProcessInv /\ [Process!Next]_processVars => ProcessInv'
<1> SUFFICES ASSUME ProcessInv, [Process!Next]_processVars PROVE ProcessInv'
  OBVIOUS
<1>1. CASE UNCHANGED processVars
  BY <1>1 DEF processVars, ProcessInv, Recalled
<1>2. CASE Process!Next
  BY <1>2, StartKeeps, IdentifyKeeps, GrantKeeps, StoreKeeps, SignKeeps, PartsKeep,
     ThreadsKeep, OutsideKeeps DEF Process!Next
<1> QED
  BY <1>1, <1>2

LEMMA KeptFromInv == ProcessInv => IdentityIsKept
BY Distinct DEF ProcessInv, Recalled, IdentityIsKept, Process!IdentityIsKept

-----------------------------------------------------------------------------
(* The theorems of the two other parts, for their own specifications and for *)
(* the one that the run checks.                                              *)

PresenceSpec == Presence!Init /\ [][Presence!Next]_presenceVars
ProcessSpec == Process!Init /\ [][Process!Next]_processVars

\* Whatever part is drawn, each of the three behaves as its own specification
\* says; so what is proved of a part holds of the run.
THEOREM ServersRunAlone == ServersSpec => Spec /\ PresenceSpec /\ ProcessSpec
<1>1. ServersInit => Init /\ Presence!Init /\ Process!Init
  BY DEF ServersInit
<1>2. [ServersNext]_<<part, vars, presenceVars, processVars>> =>
          [Next]_vars /\ [Presence!Next]_presenceVars /\ [Process!Next]_processVars
  BY DEF ServersNext
<1> QED
  BY <1>1, <1>2, PTL DEF ServersSpec, Spec, PresenceSpec, ProcessSpec

\* The inductive invariant of the connection, the reports and the server's
\* entry is one of every reachable state.
THEOREM PresenceInductive == PresenceSpec => []PresenceInv
BY PresenceInitInv, PresenceStepInv, PTL DEF PresenceSpec

\* The server holds a device online while its connection is up and well, and
\* not long after it went, whatever reports are lost.
THEOREM PresenceFollowsAlways == ServersSpec => []PresenceFollows
BY ServersRunAlone, PresenceInductive, FollowsFromInv, PTL

\* The inductive invariant of the identity, its file and the phases of main.
THEOREM ProcessInductive == ProcessSpec => []ProcessInv
BY ProcessInitInv, ProcessStepInv, PTL DEF ProcessSpec

\* The file of the identity is never torn by a loss of power, and a device that
\* came online with an identity it was granted would find it there again.
THEOREM IdentityIsKeptAlways == ServersSpec => []IdentityIsKept
BY ServersRunAlone, ProcessInductive, KeptFromInv, PTL
=============================================================================
