---------------------------- MODULE DeviceCallProofs ---------------------------
(***************************************************************************)
(* Theorems of DeviceCall for every number of rooms, offers, retries and   *)
(* tasks under way: a call that somebody took back is not answered, and a  *)
(* released device has let go of its call.                                 *)
(***************************************************************************)
EXTENDS DeviceCall, SequenceTheorems, TLAPS

-----------------------------------------------------------------------------
(* The inductive invariant. *)

CmdSteps ==
    {"idle", "begin", "request", "response", "expect", "arm", "info", "beginAccept",
     "run", "activate", "connect", "dialing", "won", "subscribe", "lost", "start",
     "started", "connectFailed", "actionDone", "actionFailed", "hangingUp",
     "hungUp", "cancelling", "finish", "ended", "reject", "expire"}
CmdType == [at : CmdSteps, room : MaybeRoom, offer : 0..MaxOffers, tries : 0..Retries,
            then : {"idle", "finish", "actionFailed"}]
MqttType == [at : {"idle", "incoming", "rung", "told", "hangs", "rejected"},
             room : MaybeRoom]
WorkerType == [at : {"idle", "lost", "connected"}, room : MaybeRoom, close : BOOLEAN]
TaskType == [do : {"accept", "command", "disconnect", "finish"}, room : Rooms]
LinkType == [Rooms -> {"none", "open", "broken", "closing"}]
TimerType == [Outgoing -> {"none", "ticking", "posting", "ending"}]

CallTyped ==
    /\ active \in MaybeRoom /\ pending \in Incoming \cup {NoRoom}
    /\ offer \in 0..MaxOffers /\ answered \in 0..MaxOffers
    /\ withdrawn \subseteq 1..MaxOffers
TimerTyped ==
    /\ ringThread \in Outgoing \cup {NoRoom} /\ timer \in TimerType
    /\ joining \in [Threads -> Outgoing \cup {NoRoom}] /\ created \subseteq Outgoing
LeaseTyped ==
    /\ owner \in {"NONE", "HELD"} /\ ownerId \in MaybeRoom
    /\ ticket \in Incoming \cup {NoRoom}
    /\ transition \in {"free", "action", "stop", "drain"}
FlagsTyped ==
    /\ serving \in BOOLEAN /\ ringing \in BOOLEAN
    /\ cancelled \in BOOLEAN /\ endAsked \in BOOLEAN
CmdTyped == cmd \in CmdType
MqttTyped ==
    /\ mqtt \in MqttType
    /\ mqtt.at = "incoming" => mqtt.room \in Incoming /\ offer < MaxOffers
WorkerTyped == worker \in WorkerType
LinkTyped == link \in LinkType /\ bound \subseteq Rooms
ConnTyped ==
    /\ current \in MaybeRoom /\ waiting \in MaybeRoom
    /\ sess \in {"IDLE", "CONNECTING", "IN_CALL"}
    /\ expected \in Outgoing \cup {NoRoom}
    /\ attempt \in {"none", "dialing", "connected", "failed", "cancelled"}
    /\ media \in {"off", "on", "over"} /\ control \in {"free", "cmd", "worker"}
TasksTyped == tasks \in Seq(TaskType)

\* An offer is taken back at most once, and never while it rings; the active
\* call answers an older offer than the one that rings.  Which room the
\* command thread has in hand.
OfferInv ==
    /\ withdrawn \subseteq 1..offer
    /\ pending # NoRoom => offer # 0 /\ offer \notin withdrawn
    /\ active \in Incoming =>
           /\ answered <= offer /\ answered \notin withdrawn
           /\ pending # NoRoom => answered < offer
    /\ cmd.at \in {"idle", "begin", "request"} => cmd.room = NoRoom
    /\ cmd.at = "response" => cmd.room \in Outgoing \cup {NoRoom}
    /\ cmd.at \in {"expect", "arm"} => cmd.room \in Outgoing
    /\ cmd.at \in {"info", "beginAccept", "run", "activate", "connect", "dialing", "won"}
           => cmd.room \in Incoming

\* The command thread is inside session_arbiter_run_action.
InAction ==
    \/ cmd.at \in {"activate", "connect", "dialing", "won", "subscribe", "lost", "start",
                   "started", "connectFailed", "actionDone", "actionFailed"}
    \/ cmd.at \in {"hangingUp", "hungUp"} /\ cmd.then = "actionFailed"

\* The service is the runtime's while the owner is held; an action holds the
\* owner until it ends it itself, and a stop has none.
ServeInv ==
    /\ serving <=> owner = "HELD"
    /\ ~serving => bound = {}
    /\ transition = "action" <=> InAction
    /\ cmd.at = "cancelling" => cmd.then = "finish"
    /\ InAction => owner = "HELD"
    /\ transition \in {"stop", "drain"} => owner = "NONE"

\* Once the stop has hung up, nothing brings a call back; once the worker is
\* drained, it stays so.
QuietInv ==
    /\ owner = "NONE" /\ transition # "stop"
           => current = NoRoom /\ waiting = NoRoom /\ media = "off"
    /\ owner = "NONE" /\ transition = "free" => tasks = <<>> /\ worker.at = "idle"

Inv == /\ CallTyped /\ TimerTyped /\ LeaseTyped /\ FlagsTyped /\ CmdTyped /\ MqttTyped
       /\ WorkerTyped /\ LinkTyped /\ ConnTyped /\ TasksTyped
       /\ OfferInv /\ ServeInv /\ QuietInv

-----------------------------------------------------------------------------
(* The helpers. *)

LEMMA RoomsApart ==
    /\ NoRoom \notin Rooms /\ NoRoom \notin Incoming /\ NoRoom \notin Outgoing
    /\ Incoming \subseteq Rooms /\ Outgoing \subseteq Rooms
    /\ MaybeRoom = Rooms \cup {NoRoom} /\ Incoming \cap Outgoing = {}
    /\ \A r \in Rooms : r # NoRoom
BY RoomsAssumption DEF Rooms, MaybeRoom

LEMMA DisconnectTyped ==
    \A l \in LinkType : \A r : Disconnect(l, r) \in LinkType
BY DEF Disconnect, LinkType

LEMMA TaskTyped ==
    \A do \in {"accept", "command", "disconnect", "finish"}, r \in Rooms :
        Task(do, r) \in TaskType
BY DEF Task, TaskType

LEMMA HeadTyped ==
    ASSUME TasksTyped, tasks # <<>>
    PROVE  /\ Head(tasks) \in TaskType /\ Head(tasks).room \in Rooms
           /\ Tail(tasks) \in Seq(TaskType)
<1>1. tasks \in Seq(TaskType)
  BY DEF TasksTyped
<1>2. Head(tasks) \in TaskType /\ Tail(tasks) \in Seq(TaskType)
  BY <1>1, HeadTailProperties
<1> QED
  BY <1>2 DEF TaskType

LEMMA LostTyped ==
    \A r \in Rooms : \A b \in BOOLEAN :
        [at |-> "lost", room |-> r, close |-> b] \in WorkerType
BY DEF WorkerType, MaybeRoom

LEMMA ConnectedTyped ==
    \A r \in Rooms : \A b \in BOOLEAN :
        [at |-> "connected", room |-> r, close |-> b] \in WorkerType
BY DEF WorkerType, MaybeRoom

LEMMA AppendTyped ==
    ASSUME TasksTyped, NEW t \in TaskType
    PROVE  Append(tasks, t) \in Seq(TaskType)
BY AppendProperties DEF TasksTyped

-----------------------------------------------------------------------------
(* The steps. *)

LEMMA DoCallStep ==
    ASSUME Inv, DoCall
    PROVE  Inv'
<1>1. UNCHANGED <<serving, link, bound, current, waiting, sess, expected, attempt,
      media, tasks, control, active, pending, offer, answered, withdrawn, ringing,
      ringThread, timer, joining, created, owner, ownerId, cancelled, ticket, endAsked,
      transition, mqtt, worker>>
  BY DEF DoCall, User, CmdGo, callVars, timerVars, arbiterVars, cmdFrame,
         transportVars, CmdAt, CmdIdle, linkVars, connVars
<1>2. CmdTyped'
  BY <1>1, RetriesAssumption, MaxOffersAssumption, RoomsApart DEF Inv, CmdTyped,
         CallTyped, TimerTyped, DoCall, User, CmdGo, CmdAt, CmdIdle, CmdType, CmdSteps,
         MaybeRoom, TimerType, Threads
<1>3. OfferInv'
  BY <1>1, MaxOffersAssumption, RoomsApart DEF Inv, OfferInv, CallTyped, CmdTyped,
         MqttTyped, TimerTyped, DoCall, User, CmdGo, CmdAt, CmdIdle, MaybeRoom, CmdType,
         CmdSteps, MqttType, TimerType, Threads
<1>4. ServeInv'
  BY <1>1 DEF Inv, ServeInv, CmdTyped, InAction, DoCall, User, CmdGo, CmdAt, CmdIdle,
         CmdType, CmdSteps
<1>5. /\ CallTyped' /\ TimerTyped' /\ LeaseTyped' /\ FlagsTyped' /\ WorkerTyped'
      /\ MqttTyped' /\ LinkTyped' /\ ConnTyped' /\ TasksTyped' /\ QuietInv'
  BY <1>1 DEF Inv, CallTyped, TimerTyped, LeaseTyped, FlagsTyped, WorkerTyped,
         MqttTyped, LinkTyped, ConnTyped, TasksTyped, QuietInv
<1> QED
  BY <1>2, <1>3, <1>4, <1>5 DEF Inv

LEMMA BeginCallStep ==
    ASSUME Inv, BeginCall
    PROVE  Inv'
<1>1. UNCHANGED <<link, bound, current, waiting, sess, expected, attempt, media, tasks,
      control, active, pending, offer, answered, withdrawn, ringing, ringThread, timer,
      joining, created, ticket, transition, mqtt, worker>>
  BY DEF BeginCall, CmdAt, BeginSession, CmdGo, callVars, timerVars, cmdFrame,
         linkVars, connVars, Hold, CmdIdle
<1>2. LeaseTyped'
  BY <1>1, RoomsApart DEF Inv, LeaseTyped, CmdTyped, CallTyped, MqttTyped, BeginCall,
         CmdAt, BeginSession, CmdGo, Hold, CmdIdle, CmdType, CmdSteps, MaybeRoom,
         MqttType
<1>3. FlagsTyped'
  BY <1>1 DEF Inv, FlagsTyped, BeginCall, CmdAt, BeginSession, CmdGo, Hold, CmdIdle
<1>4. CmdTyped'
  BY <1>1, RetriesAssumption, MaxOffersAssumption, RoomsApart DEF Inv, CmdTyped,
         CallTyped, TimerTyped, BeginCall, CmdAt, BeginSession, CmdGo, Hold, CmdIdle,
         CmdType, CmdSteps, MaybeRoom, TimerType, Threads
<1>5. OfferInv'
  BY <1>1, MaxOffersAssumption, RoomsApart DEF Inv, OfferInv, CallTyped, CmdTyped,
         MqttTyped, TimerTyped, BeginCall, CmdAt, BeginSession, CmdGo, Hold, CmdIdle,
         MaybeRoom, CmdType, CmdSteps, MqttType, TimerType, Threads
<1>6. ServeInv'
  BY <1>1 DEF Inv, ServeInv, CmdTyped, InAction, BeginCall, CmdAt, BeginSession, CmdGo,
         Hold, CmdIdle, CmdType, CmdSteps
<1>7. QuietInv'
  BY <1>1, HeadTyped, RoomsApart DEF Inv, QuietInv, ServeInv, ConnTyped, CmdTyped,
         TasksTyped, InAction, BeginCall, CmdAt, BeginSession, CmdGo, Hold, CmdIdle,
         CmdType, CmdSteps
<1>8. /\ CallTyped' /\ TimerTyped' /\ WorkerTyped' /\ MqttTyped' /\ LinkTyped'
      /\ ConnTyped' /\ TasksTyped'
  BY <1>1 DEF Inv, CallTyped, TimerTyped, WorkerTyped, MqttTyped, LinkTyped, ConnTyped,
         TasksTyped
<1> QED
  BY <1>2, <1>3, <1>4, <1>5, <1>6, <1>7, <1>8 DEF Inv

LEMMA RequestRoomStep ==
    ASSUME Inv, RequestRoom
    PROVE  Inv'
<1>a. /\ cmd.at = "request"
      /\ UNCHANGED <<callVars, timerVars, arbiterVars, mqtt, worker, transportVars>>
  BY Zenon DEF RequestRoom, CmdAt
<1>1. UNCHANGED <<serving, link, bound, current, waiting, sess, expected, attempt,
      media, tasks, control, active, pending, offer, answered, withdrawn, ringing,
      ringThread, timer, joining, owner, ownerId, cancelled, ticket, endAsked,
      transition, mqtt, worker>>
  BY <1>a DEF callVars, timerVars, arbiterVars, transportVars, linkVars, connVars
<1>0. /\ cmd' \in CmdType /\ cmd'.at = "response"
      /\ cmd'.room \in Outgoing \cup {NoRoom} /\ cmd'.then = cmd.then
      /\ created' \subseteq Outgoing
  <2>1. CASE \E r \in Outgoing \ created :
                 /\ created' = created \cup {r}
                 /\ cmd' = [cmd EXCEPT !.at = "response", !.room = r]
    <3>1. PICK r \in Outgoing : /\ created' = created \cup {r}
                                /\ cmd' = [cmd EXCEPT !.at = "response", !.room = r]
      BY <2>1, Zenon
    <3>2. created' \subseteq Outgoing
      BY <3>1, Zenon DEF Inv, TimerTyped
    <3>3. r \in MaybeRoom /\ cmd \in CmdType
      BY RoomsApart DEF Inv, CmdTyped
    <3>4. /\ [cmd EXCEPT !.at = "response", !.room = r] \in CmdType
          /\ [cmd EXCEPT !.at = "response", !.room = r].at = "response"
          /\ [cmd EXCEPT !.at = "response", !.room = r].room = r
          /\ [cmd EXCEPT !.at = "response", !.room = r].then = cmd.then
      BY <3>3 DEF CmdType, CmdSteps
    <3> QED
      BY <3>1, <3>2, <3>4, Zenon
  <2>2. CASE CmdGo("response") /\ UNCHANGED created
    <3>1. cmd.room = NoRoom /\ cmd \in CmdType /\ created \subseteq Outgoing
      BY <1>a DEF Inv, TimerTyped, CmdTyped, OfferInv
    <3> QED
      BY <2>2, <3>1 DEF CmdGo, CmdType, CmdSteps
  <2> QED
    BY <2>1, <2>2, Zenon DEF RequestRoom
<1>2. TimerTyped'
  BY <1>1, RoomsApart, <1>0, <1>a DEF Inv, TimerTyped, CmdTyped, OfferInv, CmdAt,
         CmdGo, CmdIdle, TimerType, Threads, CmdType, CmdSteps
<1>3. CmdTyped'
  BY <1>0 DEF Inv, CmdTyped
<1>4. OfferInv'
  BY <1>1, <1>0, MaxOffersAssumption, RoomsApart, <1>a DEF Inv, OfferInv, CallTyped,
         MqttTyped, TimerTyped, CmdAt, MaybeRoom, MqttType, TimerType, Threads
<1>5. ServeInv'
  BY <1>1, <1>0, <1>a DEF Inv, ServeInv, InAction, CmdAt
<1>6. /\ CallTyped' /\ LeaseTyped' /\ FlagsTyped' /\ WorkerTyped' /\ MqttTyped'
      /\ LinkTyped' /\ ConnTyped' /\ TasksTyped' /\ QuietInv'
  BY <1>1 DEF Inv, CallTyped, LeaseTyped, FlagsTyped, WorkerTyped, MqttTyped,
         LinkTyped, ConnTyped, TasksTyped, QuietInv
<1> QED
  BY <1>2, <1>3, <1>4, <1>5, <1>6 DEF Inv

LEMMA ResponseStep ==
    ASSUME Inv, Response
    PROVE  Inv'
<1>1. UNCHANGED <<serving, link, bound, current, waiting, sess, expected, attempt,
      media, tasks, control, pending, offer, answered, withdrawn, ringing, ringThread,
      timer, joining, created, owner, ownerId, cancelled, ticket, transition, mqtt,
      worker>>
  BY DEF Response, CmdAt, CmdGo, EndSession, timerVars, ownerVars, cmdFrame,
         transportVars, CmdIdle, linkVars, connVars
<1>2. CallTyped'
  BY <1>1, MaxOffersAssumption, RoomsApart DEF Inv, CallTyped, OfferInv, CmdTyped,
         MqttTyped, Response, CmdAt, CmdGo, EndSession, CmdIdle, MaybeRoom, CmdType,
         CmdSteps, MqttType
<1>3. FlagsTyped'
  BY <1>1 DEF Inv, FlagsTyped, Response, CmdAt, CmdGo, EndSession, CmdIdle
<1>4. CmdTyped'
  BY <1>1, RetriesAssumption, MaxOffersAssumption, RoomsApart DEF Inv, CmdTyped,
         CallTyped, TimerTyped, Response, CmdAt, CmdGo, EndSession, CmdIdle, CmdType,
         CmdSteps, MaybeRoom, TimerType, Threads
<1>5. OfferInv'
  BY <1>1, MaxOffersAssumption, RoomsApart DEF Inv, OfferInv, CallTyped, CmdTyped,
         MqttTyped, TimerTyped, Response, CmdAt, CmdGo, EndSession, CmdIdle, MaybeRoom,
         CmdType, CmdSteps, MqttType, TimerType, Threads
<1>6. ServeInv'
  BY <1>1 DEF Inv, ServeInv, CmdTyped, InAction, Response, CmdAt, CmdGo, EndSession,
         CmdIdle, CmdType, CmdSteps
<1>7. /\ TimerTyped' /\ LeaseTyped' /\ WorkerTyped' /\ MqttTyped' /\ LinkTyped'
      /\ ConnTyped' /\ TasksTyped' /\ QuietInv'
  BY <1>1 DEF Inv, TimerTyped, LeaseTyped, WorkerTyped, MqttTyped, LinkTyped,
         ConnTyped, TasksTyped, QuietInv
<1> QED
  BY <1>2, <1>3, <1>4, <1>5, <1>6, <1>7 DEF Inv

LEMMA SetExpectedRoomStep ==
    ASSUME Inv, SetExpectedRoom
    PROVE  Inv'
<1>1. UNCHANGED <<serving, link, bound, current, waiting, sess, attempt, media, tasks,
      control, active, pending, offer, answered, withdrawn, timer, created, owner,
      ownerId, cancelled, ticket, endAsked, transition, mqtt, worker>>
  BY DEF SetExpectedRoom, CmdAt, CancelTimer, CmdGo, callVars, arbiterVars, cmdFrame,
         linkVars, connVars, CmdIdle
<1>2. TimerTyped'
  BY <1>1, RoomsApart DEF Inv, TimerTyped, CmdTyped, OfferInv, SetExpectedRoom, CmdAt,
         CancelTimer, CmdGo, CmdIdle, TimerType, Threads, CmdType, CmdSteps
<1>3. FlagsTyped'
  BY <1>1 DEF Inv, FlagsTyped, SetExpectedRoom, CmdAt, CancelTimer, CmdGo, CmdIdle
<1>4. CmdTyped'
  BY <1>1, RetriesAssumption, MaxOffersAssumption, RoomsApart DEF Inv, CmdTyped,
         CallTyped, TimerTyped, SetExpectedRoom, CmdAt, CancelTimer, CmdGo, CmdIdle,
         CmdType, CmdSteps, MaybeRoom, TimerType, Threads
<1>5. ConnTyped'
  BY <1>1, HeadTyped, RoomsApart DEF Inv, ConnTyped, CmdTyped, TasksTyped, OfferInv,
         SetExpectedRoom, CmdAt, CancelTimer, CmdGo, CmdIdle, CmdType, CmdSteps
<1>6. OfferInv'
  BY <1>1, MaxOffersAssumption, RoomsApart DEF Inv, OfferInv, CallTyped, CmdTyped,
         MqttTyped, TimerTyped, SetExpectedRoom, CmdAt, CancelTimer, CmdGo, CmdIdle,
         MaybeRoom, CmdType, CmdSteps, MqttType, TimerType, Threads
<1>7. ServeInv'
  BY <1>1 DEF Inv, ServeInv, CmdTyped, InAction, SetExpectedRoom, CmdAt, CancelTimer,
         CmdGo, CmdIdle, CmdType, CmdSteps
<1>8. /\ CallTyped' /\ LeaseTyped' /\ WorkerTyped' /\ MqttTyped' /\ LinkTyped'
      /\ TasksTyped' /\ QuietInv'
  BY <1>1 DEF Inv, CallTyped, LeaseTyped, WorkerTyped, MqttTyped, LinkTyped,
         TasksTyped, QuietInv
<1> QED
  BY <1>2, <1>3, <1>4, <1>5, <1>6, <1>7, <1>8 DEF Inv

LEMMA StartRingTimerStep ==
    ASSUME Inv, StartRingTimer
    PROVE  Inv'
<1>1. UNCHANGED <<serving, link, bound, current, waiting, sess, expected, attempt,
      media, tasks, control, active, pending, offer, answered, withdrawn, created,
      owner, ownerId, cancelled, ticket, endAsked, transition, mqtt, worker>>
  BY DEF StartRingTimer, CmdAt, CreateTimer, Unjoin, CmdGo, callVars, arbiterVars,
         cmdFrame, transportVars, CmdIdle, linkVars, connVars
<1>2. TimerTyped'
  BY <1>1, RoomsApart DEF Inv, TimerTyped, CmdTyped, OfferInv, StartRingTimer, CmdAt,
         CreateTimer, Unjoin, CmdGo, CmdIdle, TimerType, Threads, CmdType, CmdSteps
<1>3. FlagsTyped'
  BY <1>1 DEF Inv, FlagsTyped, StartRingTimer, CmdAt, CreateTimer, Unjoin, CmdGo,
         CmdIdle
<1>4. CmdTyped'
  BY <1>1, RetriesAssumption, MaxOffersAssumption, RoomsApart DEF Inv, CmdTyped,
         CallTyped, TimerTyped, StartRingTimer, CmdAt, CreateTimer, Unjoin, CmdGo,
         CmdIdle, CmdType, CmdSteps, MaybeRoom, TimerType, Threads
<1>5. OfferInv'
  BY <1>1, MaxOffersAssumption, RoomsApart DEF Inv, OfferInv, CallTyped, CmdTyped,
         MqttTyped, TimerTyped, StartRingTimer, CmdAt, CreateTimer, Unjoin, CmdGo,
         CmdIdle, MaybeRoom, CmdType, CmdSteps, MqttType, TimerType, Threads
<1>6. ServeInv'
  BY <1>1 DEF Inv, ServeInv, CmdTyped, InAction, StartRingTimer, CmdAt, CreateTimer,
         Unjoin, CmdGo, CmdIdle, CmdType, CmdSteps
<1>7. /\ CallTyped' /\ LeaseTyped' /\ WorkerTyped' /\ MqttTyped' /\ LinkTyped'
      /\ ConnTyped' /\ TasksTyped' /\ QuietInv'
  BY <1>1 DEF Inv, CallTyped, LeaseTyped, WorkerTyped, MqttTyped, LinkTyped, ConnTyped,
         TasksTyped, QuietInv
<1> QED
  BY <1>2, <1>3, <1>4, <1>5, <1>6, <1>7 DEF Inv

LEMMA DoAcceptStep ==
    ASSUME Inv, DoAccept
    PROVE  Inv'
<1>1. UNCHANGED <<serving, link, bound, current, waiting, sess, expected, attempt,
      media, tasks, control, active, pending, offer, answered, withdrawn, ringing,
      ringThread, timer, joining, created, owner, ownerId, cancelled, ticket, endAsked,
      transition, mqtt, worker>>
  BY DEF DoAccept, User, callVars, timerVars, arbiterVars, cmdFrame, transportVars,
         CmdAt, linkVars, connVars
<1>2. CmdTyped'
  BY <1>1, RetriesAssumption, MaxOffersAssumption, RoomsApart DEF Inv, CmdTyped,
         CallTyped, TimerTyped, DoAccept, User, CmdAt, CmdType, CmdSteps, MaybeRoom,
         TimerType, Threads
<1>3. OfferInv'
  BY <1>1, MaxOffersAssumption, RoomsApart DEF Inv, OfferInv, CallTyped, CmdTyped,
         MqttTyped, TimerTyped, DoAccept, User, CmdAt, MaybeRoom, CmdType, CmdSteps,
         MqttType, TimerType, Threads
<1>4. ServeInv'
  BY <1>1 DEF Inv, ServeInv, CmdTyped, InAction, DoAccept, User, CmdAt, CmdType,
         CmdSteps
<1>5. /\ CallTyped' /\ TimerTyped' /\ LeaseTyped' /\ FlagsTyped' /\ WorkerTyped'
      /\ MqttTyped' /\ LinkTyped' /\ ConnTyped' /\ TasksTyped' /\ QuietInv'
  BY <1>1 DEF Inv, CallTyped, TimerTyped, LeaseTyped, FlagsTyped, WorkerTyped,
         MqttTyped, LinkTyped, ConnTyped, TasksTyped, QuietInv
<1> QED
  BY <1>2, <1>3, <1>4, <1>5 DEF Inv

LEMMA DeviceInfoStep ==
    ASSUME Inv, DeviceInfo
    PROVE  Inv'
<1>1. UNCHANGED <<serving, link, bound, current, waiting, sess, expected, attempt,
      media, tasks, control, active, pending, offer, answered, withdrawn, ringing,
      ringThread, timer, joining, created, owner, ownerId, cancelled, ticket, endAsked,
      transition, mqtt, worker>>
  BY DEF DeviceInfo, CmdAt, StillPending, CmdGo, callVars, timerVars, arbiterVars,
         cmdFrame, transportVars, CmdIdle, linkVars, connVars
<1>2. CmdTyped'
  BY <1>1, RetriesAssumption, MaxOffersAssumption, RoomsApart DEF Inv, CmdTyped,
         CallTyped, TimerTyped, DeviceInfo, CmdAt, StillPending, CmdGo, CmdIdle,
         CmdType, CmdSteps, MaybeRoom, TimerType, Threads
<1>3. OfferInv'
  BY <1>1, MaxOffersAssumption, RoomsApart DEF Inv, OfferInv, CallTyped, CmdTyped,
         MqttTyped, TimerTyped, DeviceInfo, CmdAt, StillPending, CmdGo, CmdIdle,
         MaybeRoom, CmdType, CmdSteps, MqttType, TimerType, Threads
<1>4. ServeInv'
  BY <1>1 DEF Inv, ServeInv, CmdTyped, InAction, DeviceInfo, CmdAt, StillPending,
         CmdGo, CmdIdle, CmdType, CmdSteps
<1>5. /\ CallTyped' /\ TimerTyped' /\ LeaseTyped' /\ FlagsTyped' /\ WorkerTyped'
      /\ MqttTyped' /\ LinkTyped' /\ ConnTyped' /\ TasksTyped' /\ QuietInv'
  BY <1>1 DEF Inv, CallTyped, TimerTyped, LeaseTyped, FlagsTyped, WorkerTyped,
         MqttTyped, LinkTyped, ConnTyped, TasksTyped, QuietInv
<1> QED
  BY <1>2, <1>3, <1>4, <1>5 DEF Inv

LEMMA BeginAcceptStep ==
    ASSUME Inv, BeginAccept
    PROVE  Inv'
<1>1. UNCHANGED <<link, bound, current, waiting, sess, expected, attempt, media, tasks,
      control, active, pending, offer, answered, withdrawn, ringing, ringThread, timer,
      joining, created, transition, mqtt, worker>>
  BY DEF BeginAccept, CmdAt, BeginSession, CmdGo, callVars, timerVars, cmdFrame,
         linkVars, connVars, Hold, CmdIdle
<1>2. LeaseTyped'
  BY <1>1, RoomsApart DEF Inv, LeaseTyped, CmdTyped, CallTyped, MqttTyped, BeginAccept,
         CmdAt, BeginSession, CmdGo, Hold, CmdIdle, CmdType, CmdSteps, MaybeRoom,
         MqttType
<1>3. FlagsTyped'
  BY <1>1 DEF Inv, FlagsTyped, BeginAccept, CmdAt, BeginSession, CmdGo, Hold, CmdIdle
<1>4. CmdTyped'
  BY <1>1, RetriesAssumption, MaxOffersAssumption, RoomsApart DEF Inv, CmdTyped,
         CallTyped, TimerTyped, BeginAccept, CmdAt, BeginSession, CmdGo, Hold, CmdIdle,
         CmdType, CmdSteps, MaybeRoom, TimerType, Threads
<1>5. OfferInv'
  BY <1>1, MaxOffersAssumption, RoomsApart DEF Inv, OfferInv, CallTyped, CmdTyped,
         MqttTyped, TimerTyped, BeginAccept, CmdAt, BeginSession, CmdGo, Hold, CmdIdle,
         MaybeRoom, CmdType, CmdSteps, MqttType, TimerType, Threads
<1>6. ServeInv'
  BY <1>1 DEF Inv, ServeInv, CmdTyped, InAction, BeginAccept, CmdAt, BeginSession,
         CmdGo, Hold, CmdIdle, CmdType, CmdSteps
<1>7. QuietInv'
  BY <1>1, HeadTyped, RoomsApart DEF Inv, QuietInv, ServeInv, ConnTyped, CmdTyped,
         TasksTyped, InAction, BeginAccept, CmdAt, BeginSession, CmdGo, Hold, CmdIdle,
         CmdType, CmdSteps
<1>8. /\ CallTyped' /\ TimerTyped' /\ WorkerTyped' /\ MqttTyped' /\ LinkTyped'
      /\ ConnTyped' /\ TasksTyped'
  BY <1>1 DEF Inv, CallTyped, TimerTyped, WorkerTyped, MqttTyped, LinkTyped, ConnTyped,
         TasksTyped
<1> QED
  BY <1>2, <1>3, <1>4, <1>5, <1>6, <1>7, <1>8 DEF Inv

LEMMA RunActionStep ==
    ASSUME Inv, RunAction
    PROVE  Inv'
<1>1. UNCHANGED <<serving, link, bound, current, waiting, sess, expected, attempt,
      media, tasks, control, active, pending, offer, answered, withdrawn, ringing,
      ringThread, timer, joining, created, owner, ownerId, cancelled, ticket, endAsked,
      mqtt, worker>>
  BY DEF RunAction, CmdAt, CmdGo, callVars, timerVars, cmdFrame, transportVars,
         CmdIdle, linkVars, connVars
<1>2. LeaseTyped'
  BY <1>1, RoomsApart DEF Inv, LeaseTyped, CmdTyped, CallTyped, MqttTyped, RunAction,
         CmdAt, CmdGo, CmdIdle, CmdType, CmdSteps, MaybeRoom, MqttType
<1>3. CmdTyped'
  BY <1>1, RetriesAssumption, MaxOffersAssumption, RoomsApart DEF Inv, CmdTyped,
         CallTyped, TimerTyped, RunAction, CmdAt, CmdGo, CmdIdle, CmdType, CmdSteps,
         MaybeRoom, TimerType, Threads
<1>4. OfferInv'
  BY <1>1, MaxOffersAssumption, RoomsApart DEF Inv, OfferInv, CallTyped, CmdTyped,
         MqttTyped, TimerTyped, RunAction, CmdAt, CmdGo, CmdIdle, MaybeRoom, CmdType,
         CmdSteps, MqttType, TimerType, Threads
<1>5. ServeInv'
  BY <1>1 DEF Inv, ServeInv, CmdTyped, InAction, RunAction, CmdAt, CmdGo, CmdIdle,
         CmdType, CmdSteps
<1>6. QuietInv'
  BY <1>1, HeadTyped, RoomsApart DEF Inv, QuietInv, ServeInv, ConnTyped, CmdTyped,
         TasksTyped, InAction, RunAction, CmdAt, CmdGo, CmdIdle, CmdType, CmdSteps
<1>7. /\ CallTyped' /\ TimerTyped' /\ FlagsTyped' /\ WorkerTyped' /\ MqttTyped'
      /\ LinkTyped' /\ ConnTyped' /\ TasksTyped'
  BY <1>1 DEF Inv, CallTyped, TimerTyped, FlagsTyped, WorkerTyped, MqttTyped,
         LinkTyped, ConnTyped, TasksTyped
<1> QED
  BY <1>2, <1>3, <1>4, <1>5, <1>6, <1>7 DEF Inv

LEMMA ActivateStep ==
    ASSUME Inv, Activate
    PROVE  Inv'
<1>1. UNCHANGED <<serving, link, bound, current, waiting, sess, expected, attempt,
      media, tasks, control, offer, withdrawn, ringing, ringThread, timer, joining,
      created, owner, ownerId, cancelled, ticket, endAsked, transition, mqtt, worker>>
  BY DEF Activate, CmdAt, StillPending, CmdGo, timerVars, arbiterVars, cmdFrame,
         transportVars, CmdIdle, linkVars, connVars
<1>2. CallTyped'
  BY <1>1, MaxOffersAssumption, RoomsApart DEF Inv, CallTyped, OfferInv, CmdTyped,
         MqttTyped, Activate, CmdAt, StillPending, CmdGo, CmdIdle, MaybeRoom, CmdType,
         CmdSteps, MqttType
<1>3. CmdTyped'
  BY <1>1, RetriesAssumption, MaxOffersAssumption, RoomsApart DEF Inv, CmdTyped,
         CallTyped, TimerTyped, Activate, CmdAt, StillPending, CmdGo, CmdIdle, CmdType,
         CmdSteps, MaybeRoom, TimerType, Threads
<1>4. OfferInv'
  BY <1>1, MaxOffersAssumption, RoomsApart DEF Inv, OfferInv, CallTyped, CmdTyped,
         MqttTyped, TimerTyped, Activate, CmdAt, StillPending, CmdGo, CmdIdle,
         MaybeRoom, CmdType, CmdSteps, MqttType, TimerType, Threads
<1>5. ServeInv'
  BY <1>1 DEF Inv, ServeInv, CmdTyped, InAction, Activate, CmdAt, StillPending, CmdGo,
         CmdIdle, CmdType, CmdSteps
<1>6. /\ TimerTyped' /\ LeaseTyped' /\ FlagsTyped' /\ WorkerTyped' /\ MqttTyped'
      /\ LinkTyped' /\ ConnTyped' /\ TasksTyped' /\ QuietInv'
  BY <1>1 DEF Inv, TimerTyped, LeaseTyped, FlagsTyped, WorkerTyped, MqttTyped,
         LinkTyped, ConnTyped, TasksTyped, QuietInv
<1> QED
  BY <1>2, <1>3, <1>4, <1>5, <1>6 DEF Inv

LEMMA ConnectStep ==
    ASSUME Inv, Connect
    PROVE  Inv'
<1>1. UNCHANGED <<serving, link, bound, current, waiting, expected, media, tasks,
      control, active, pending, offer, answered, withdrawn, ringing, ringThread, timer,
      joining, created, owner, ownerId, cancelled, ticket, endAsked, transition, mqtt,
      worker>>
  BY DEF Connect, CmdAt, CmdGo, callVars, timerVars, arbiterVars, cmdFrame, linkVars,
         CmdIdle
<1>0. /\ cmd' \in CmdType /\ cmd'.at \in {"actionFailed", "dialing"}
      /\ cmd'.room = cmd.room
  <2>1. CASE CmdGo("actionFailed")
    BY <2>1 DEF Inv, CmdTyped, CmdGo, CmdType, CmdSteps
  <2>2. CASE cmd' = [cmd EXCEPT !.at = "dialing", !.tries = 1]
    <3>1. 1 \in 0..Retries /\ cmd \in CmdType
      BY RetriesAssumption DEF Inv, CmdTyped
    <3> QED
      BY <2>2, <3>1 DEF CmdType, CmdSteps
  <2> QED
    BY <2>1, <2>2 DEF Connect
<1>2. CmdTyped'
  BY <1>0 DEF Inv, CmdTyped
<1>3. ConnTyped'
  BY <1>1, HeadTyped, RoomsApart DEF Inv, ConnTyped, CmdTyped, TasksTyped, OfferInv,
         Connect, CmdAt, CmdGo, CmdIdle, CmdType, CmdSteps
<1>4. OfferInv'
  BY <1>1, <1>0, MaxOffersAssumption, RoomsApart DEF Inv, OfferInv, CallTyped,
         MqttTyped, TimerTyped, Connect, CmdAt, MaybeRoom, MqttType, TimerType, Threads
<1>5. ServeInv'
  BY <1>1, <1>0 DEF Inv, ServeInv, InAction, Connect, CmdAt
<1>6. /\ CallTyped' /\ TimerTyped' /\ LeaseTyped' /\ FlagsTyped' /\ WorkerTyped'
      /\ MqttTyped' /\ LinkTyped' /\ TasksTyped' /\ QuietInv'
  BY <1>1 DEF Inv, CallTyped, TimerTyped, LeaseTyped, FlagsTyped, WorkerTyped,
         MqttTyped, LinkTyped, TasksTyped, QuietInv
<1> QED
  BY <1>2, <1>3, <1>4, <1>5, <1>6 DEF Inv

LEMMA DialCancelledStep ==
    ASSUME Inv, DialCancelled
    PROVE  Inv'
<1>1. UNCHANGED <<serving, link, bound, waiting, expected, media, tasks, control,
      active, pending, offer, answered, withdrawn, ringing, ringThread, timer, joining,
      created, owner, ownerId, cancelled, ticket, endAsked, transition, mqtt, worker>>
  BY DEF DialCancelled, CmdAt, CmdGo, dialFrame, CmdIdle, callVars, timerVars,
         arbiterVars, cmdFrame, linkVars
<1>2. CmdTyped'
  BY <1>1, RetriesAssumption, MaxOffersAssumption, RoomsApart DEF Inv, CmdTyped,
         CallTyped, TimerTyped, DialCancelled, CmdAt, CmdGo, CmdIdle, CmdType, CmdSteps,
         MaybeRoom, TimerType, Threads
<1>3. ConnTyped'
  BY <1>1, HeadTyped, RoomsApart DEF Inv, ConnTyped, CmdTyped, TasksTyped, OfferInv,
         DialCancelled, CmdAt, CmdGo, CmdIdle, CmdType, CmdSteps
<1>4. OfferInv'
  BY <1>1, MaxOffersAssumption, RoomsApart DEF Inv, OfferInv, CallTyped, CmdTyped,
         MqttTyped, TimerTyped, DialCancelled, CmdAt, CmdGo, CmdIdle, MaybeRoom,
         CmdType, CmdSteps, MqttType, TimerType, Threads
<1>5. ServeInv'
  BY <1>1 DEF Inv, ServeInv, CmdTyped, InAction, DialCancelled, CmdAt, CmdGo, CmdIdle,
         CmdType, CmdSteps
<1>6. QuietInv'
  BY <1>1, HeadTyped, RoomsApart DEF Inv, QuietInv, ServeInv, ConnTyped, CmdTyped,
         TasksTyped, InAction, DialCancelled, CmdAt, CmdGo, CmdIdle, CmdType, CmdSteps
<1>7. /\ CallTyped' /\ TimerTyped' /\ LeaseTyped' /\ FlagsTyped' /\ WorkerTyped'
      /\ MqttTyped' /\ LinkTyped' /\ TasksTyped'
  BY <1>1 DEF Inv, CallTyped, TimerTyped, LeaseTyped, FlagsTyped, WorkerTyped,
         MqttTyped, LinkTyped, TasksTyped
<1> QED
  BY <1>2, <1>3, <1>4, <1>5, <1>6, <1>7 DEF Inv

LEMMA DialAgainStep ==
    ASSUME Inv, DialAgain
    PROVE  Inv'
<1>1. UNCHANGED <<serving, link, bound, current, waiting, sess, expected, media, tasks,
      control, active, pending, offer, answered, withdrawn, ringing, ringThread, timer,
      joining, created, owner, ownerId, cancelled, ticket, endAsked, transition, mqtt,
      worker>>
  BY DEF DialAgain, CmdAt, dialFrame, callVars, timerVars, arbiterVars, cmdFrame,
         linkVars
<1>2. CmdTyped'
  BY <1>1, RetriesAssumption, MaxOffersAssumption, RoomsApart DEF Inv, CmdTyped,
         CallTyped, TimerTyped, DialAgain, CmdAt, CmdType, CmdSteps, MaybeRoom,
         TimerType, Threads
<1>3. ConnTyped'
  BY <1>1, HeadTyped, RoomsApart DEF Inv, ConnTyped, CmdTyped, TasksTyped, OfferInv,
         DialAgain, CmdAt, CmdType, CmdSteps
<1>4. OfferInv'
  BY <1>1, MaxOffersAssumption, RoomsApart DEF Inv, OfferInv, CallTyped, CmdTyped,
         MqttTyped, TimerTyped, DialAgain, CmdAt, MaybeRoom, CmdType, CmdSteps,
         MqttType, TimerType, Threads
<1>5. ServeInv'
  BY <1>1 DEF Inv, ServeInv, CmdTyped, InAction, DialAgain, CmdAt, CmdType, CmdSteps
<1>6. /\ CallTyped' /\ TimerTyped' /\ LeaseTyped' /\ FlagsTyped' /\ WorkerTyped'
      /\ MqttTyped' /\ LinkTyped' /\ TasksTyped' /\ QuietInv'
  BY <1>1 DEF Inv, CallTyped, TimerTyped, LeaseTyped, FlagsTyped, WorkerTyped,
         MqttTyped, LinkTyped, TasksTyped, QuietInv
<1> QED
  BY <1>2, <1>3, <1>4, <1>5, <1>6 DEF Inv

LEMMA DialFailsStep ==
    ASSUME Inv, DialFails
    PROVE  Inv'
<1>1. UNCHANGED <<serving, link, bound, waiting, expected, media, tasks, control,
      active, pending, offer, answered, withdrawn, ringing, ringThread, timer, joining,
      created, owner, ownerId, cancelled, ticket, endAsked, transition, mqtt, worker>>
  BY DEF DialFails, CmdAt, CmdGo, dialFrame, CmdIdle, callVars, timerVars, arbiterVars,
         cmdFrame, linkVars
<1>2. CmdTyped'
  BY <1>1, RetriesAssumption, MaxOffersAssumption, RoomsApart DEF Inv, CmdTyped,
         CallTyped, TimerTyped, DialFails, CmdAt, CmdGo, CmdIdle, CmdType, CmdSteps,
         MaybeRoom, TimerType, Threads
<1>3. ConnTyped'
  BY <1>1, HeadTyped, RoomsApart DEF Inv, ConnTyped, CmdTyped, TasksTyped, OfferInv,
         DialFails, CmdAt, CmdGo, CmdIdle, CmdType, CmdSteps
<1>4. OfferInv'
  BY <1>1, MaxOffersAssumption, RoomsApart DEF Inv, OfferInv, CallTyped, CmdTyped,
         MqttTyped, TimerTyped, DialFails, CmdAt, CmdGo, CmdIdle, MaybeRoom, CmdType,
         CmdSteps, MqttType, TimerType, Threads
<1>5. ServeInv'
  BY <1>1 DEF Inv, ServeInv, CmdTyped, InAction, DialFails, CmdAt, CmdGo, CmdIdle,
         CmdType, CmdSteps
<1>6. QuietInv'
  BY <1>1, HeadTyped, RoomsApart DEF Inv, QuietInv, ServeInv, ConnTyped, CmdTyped,
         TasksTyped, InAction, DialFails, CmdAt, CmdGo, CmdIdle, CmdType, CmdSteps
<1>7. /\ CallTyped' /\ TimerTyped' /\ LeaseTyped' /\ FlagsTyped' /\ WorkerTyped'
      /\ MqttTyped' /\ LinkTyped' /\ TasksTyped'
  BY <1>1 DEF Inv, CallTyped, TimerTyped, LeaseTyped, FlagsTyped, WorkerTyped,
         MqttTyped, LinkTyped, TasksTyped
<1> QED
  BY <1>2, <1>3, <1>4, <1>5, <1>6, <1>7 DEF Inv

LEMMA DialWonStep ==
    ASSUME Inv, DialWon
    PROVE  Inv'
<1>1. UNCHANGED <<serving, link, bound, current, waiting, sess, expected, media, tasks,
      control, active, pending, offer, answered, withdrawn, ringing, ringThread, timer,
      joining, created, owner, ownerId, cancelled, ticket, endAsked, transition, mqtt,
      worker>>
  BY DEF DialWon, CmdAt, CmdGo, dialFrame, CmdIdle, callVars, timerVars, arbiterVars,
         cmdFrame, linkVars
<1>2. CmdTyped'
  BY <1>1, RetriesAssumption, MaxOffersAssumption, RoomsApart DEF Inv, CmdTyped,
         CallTyped, TimerTyped, DialWon, CmdAt, CmdGo, CmdIdle, CmdType, CmdSteps,
         MaybeRoom, TimerType, Threads
<1>3. ConnTyped'
  BY <1>1, HeadTyped, RoomsApart DEF Inv, ConnTyped, CmdTyped, TasksTyped, OfferInv,
         DialWon, CmdAt, CmdGo, CmdIdle, CmdType, CmdSteps
<1>4. OfferInv'
  BY <1>1, MaxOffersAssumption, RoomsApart DEF Inv, OfferInv, CallTyped, CmdTyped,
         MqttTyped, TimerTyped, DialWon, CmdAt, CmdGo, CmdIdle, MaybeRoom, CmdType,
         CmdSteps, MqttType, TimerType, Threads
<1>5. ServeInv'
  BY <1>1 DEF Inv, ServeInv, CmdTyped, InAction, DialWon, CmdAt, CmdGo, CmdIdle,
         CmdType, CmdSteps
<1>6. /\ CallTyped' /\ TimerTyped' /\ LeaseTyped' /\ FlagsTyped' /\ WorkerTyped'
      /\ MqttTyped' /\ LinkTyped' /\ TasksTyped' /\ QuietInv'
  BY <1>1 DEF Inv, CallTyped, TimerTyped, LeaseTyped, FlagsTyped, WorkerTyped,
         MqttTyped, LinkTyped, TasksTyped, QuietInv
<1> QED
  BY <1>2, <1>3, <1>4, <1>5, <1>6 DEF Inv

LEMMA DialSucceedsStep ==
    ASSUME Inv, DialSucceeds
    PROVE  Inv'
<1>1. UNCHANGED <<serving, link, bound, waiting, expected, attempt, media, tasks,
      control, active, pending, offer, answered, withdrawn, ringing, ringThread, timer,
      joining, created, owner, ownerId, cancelled, ticket, endAsked, transition, mqtt,
      worker>>
  BY DEF DialSucceeds, CmdAt, CmdGo, dialFrame, CmdIdle, callVars, timerVars,
         arbiterVars, cmdFrame, linkVars
<1>2. CmdTyped'
  BY <1>1, RetriesAssumption, MaxOffersAssumption, RoomsApart DEF Inv, CmdTyped,
         CallTyped, TimerTyped, DialSucceeds, CmdAt, CmdGo, CmdIdle, CmdType, CmdSteps,
         MaybeRoom, TimerType, Threads
<1>3. ConnTyped'
  BY <1>1, HeadTyped, RoomsApart DEF Inv, ConnTyped, CmdTyped, TasksTyped, OfferInv,
         DialSucceeds, CmdAt, CmdGo, CmdIdle, CmdType, CmdSteps
<1>4. OfferInv'
  BY <1>1, MaxOffersAssumption, RoomsApart DEF Inv, OfferInv, CallTyped, CmdTyped,
         MqttTyped, TimerTyped, DialSucceeds, CmdAt, CmdGo, CmdIdle, MaybeRoom, CmdType,
         CmdSteps, MqttType, TimerType, Threads
<1>5. ServeInv'
  BY <1>1 DEF Inv, ServeInv, CmdTyped, InAction, DialSucceeds, CmdAt, CmdGo, CmdIdle,
         CmdType, CmdSteps
<1>6. QuietInv'
  BY <1>1, HeadTyped, RoomsApart DEF Inv, QuietInv, ServeInv, ConnTyped, CmdTyped,
         TasksTyped, InAction, DialSucceeds, CmdAt, CmdGo, CmdIdle, CmdType, CmdSteps
<1>7. /\ CallTyped' /\ TimerTyped' /\ LeaseTyped' /\ FlagsTyped' /\ WorkerTyped'
      /\ MqttTyped' /\ LinkTyped' /\ TasksTyped'
  BY <1>1 DEF Inv, CallTyped, TimerTyped, LeaseTyped, FlagsTyped, WorkerTyped,
         MqttTyped, LinkTyped, TasksTyped
<1> QED
  BY <1>2, <1>3, <1>4, <1>5, <1>6, <1>7 DEF Inv

LEMMA SubscribePeerStep ==
    ASSUME Inv, SubscribePeer
    PROVE  Inv'
<1>1. UNCHANGED <<serving, bound, expected, attempt, tasks, control, active, pending,
      offer, answered, withdrawn, timer, created, owner, ownerId, cancelled, ticket,
      endAsked, transition, mqtt, worker>>
  BY DEF SubscribePeer, CmdAt, CmdGo, connVars, timerVars, LetGo, CancelTimer,
         callVars, arbiterVars, cmdFrame, CmdIdle
<1>2. TimerTyped'
  BY <1>1, RoomsApart DEF Inv, TimerTyped, CmdTyped, OfferInv, SubscribePeer, CmdAt,
         CmdGo, connVars, timerVars, LetGo, CancelTimer, CmdIdle, TimerType, Threads,
         CmdType, CmdSteps
<1>3. FlagsTyped'
  BY <1>1 DEF Inv, FlagsTyped, SubscribePeer, CmdAt, CmdGo, connVars, timerVars, LetGo,
         CancelTimer, CmdIdle
<1>4. CmdTyped'
  BY <1>1, RetriesAssumption, MaxOffersAssumption, RoomsApart DEF Inv, CmdTyped,
         CallTyped, TimerTyped, SubscribePeer, CmdAt, CmdGo, connVars, timerVars, LetGo,
         CancelTimer, CmdIdle, CmdType, CmdSteps, MaybeRoom, TimerType, Threads
<1>5. LinkTyped'
  BY <1>1, DisconnectTyped, RoomsApart DEF Inv, LinkTyped, CmdTyped, ConnTyped,
         TasksTyped, WorkerTyped, SubscribePeer, CmdAt, CmdGo, connVars, timerVars,
         LetGo, CancelTimer, CmdIdle, LinkType, CmdType, CmdSteps, WorkerType
<1>6. ConnTyped'
  BY <1>1, HeadTyped, RoomsApart DEF Inv, ConnTyped, CmdTyped, TasksTyped, OfferInv,
         SubscribePeer, CmdAt, CmdGo, connVars, timerVars, LetGo, CancelTimer, CmdIdle,
         CmdType, CmdSteps
<1>7. OfferInv'
  BY <1>1, MaxOffersAssumption, RoomsApart DEF Inv, OfferInv, CallTyped, CmdTyped,
         MqttTyped, TimerTyped, SubscribePeer, CmdAt, CmdGo, connVars, timerVars, LetGo,
         CancelTimer, CmdIdle, MaybeRoom, CmdType, CmdSteps, MqttType, TimerType,
         Threads
<1>8. ServeInv'
  BY <1>1 DEF Inv, ServeInv, CmdTyped, InAction, SubscribePeer, CmdAt, CmdGo, connVars,
         timerVars, LetGo, CancelTimer, CmdIdle, CmdType, CmdSteps
<1>9. QuietInv'
  BY <1>1, HeadTyped, RoomsApart DEF Inv, QuietInv, ServeInv, ConnTyped, CmdTyped,
         TasksTyped, InAction, SubscribePeer, CmdAt, CmdGo, connVars, timerVars, LetGo,
         CancelTimer, CmdIdle, CmdType, CmdSteps
<1>10. /\ CallTyped' /\ LeaseTyped' /\ WorkerTyped' /\ MqttTyped' /\ TasksTyped'
  BY <1>1 DEF Inv, CallTyped, LeaseTyped, WorkerTyped, MqttTyped, TasksTyped
<1> QED
  BY <1>2, <1>3, <1>4, <1>5, <1>6, <1>7, <1>8, <1>9, <1>10 DEF Inv

LEMMA ConnectionLostStep ==
    ASSUME Inv, ConnectionLost
    PROVE  Inv'
<1>1. UNCHANGED <<serving, bound, current, waiting, sess, expected, attempt, media,
      tasks, control, pending, offer, withdrawn, ringing, ringThread, timer, created,
      owner, ownerId, cancelled, ticket, transition, mqtt, worker>>
  BY DEF ConnectionLost, CmdAt, Unjoin, NotActive, CmdGo, ringVars, ownerVars,
         cmdFrame, connVars, CmdIdle
<1>2. CallTyped'
  BY <1>1, MaxOffersAssumption, RoomsApart DEF Inv, CallTyped, OfferInv, CmdTyped,
         MqttTyped, ConnectionLost, CmdAt, Unjoin, NotActive, CmdGo, CmdIdle, MaybeRoom,
         CmdType, CmdSteps, MqttType
<1>3. TimerTyped'
  BY <1>1, RoomsApart DEF Inv, TimerTyped, CmdTyped, OfferInv, ConnectionLost, CmdAt,
         Unjoin, NotActive, CmdGo, CmdIdle, TimerType, Threads, CmdType, CmdSteps
<1>4. FlagsTyped'
  BY <1>1 DEF Inv, FlagsTyped, ConnectionLost, CmdAt, Unjoin, NotActive, CmdGo, CmdIdle
<1>5. CmdTyped'
  BY <1>1, RetriesAssumption, MaxOffersAssumption, RoomsApart DEF Inv, CmdTyped,
         CallTyped, TimerTyped, ConnectionLost, CmdAt, Unjoin, NotActive, CmdGo,
         CmdIdle, CmdType, CmdSteps, MaybeRoom, TimerType, Threads
<1>6. LinkTyped'
  BY <1>1, DisconnectTyped, RoomsApart DEF Inv, LinkTyped, CmdTyped, ConnTyped,
         TasksTyped, WorkerTyped, ConnectionLost, CmdAt, Unjoin, NotActive, CmdGo,
         CmdIdle, LinkType, CmdType, CmdSteps, WorkerType
<1>7. OfferInv'
  BY <1>1, MaxOffersAssumption, RoomsApart DEF Inv, OfferInv, CallTyped, CmdTyped,
         MqttTyped, TimerTyped, ConnectionLost, CmdAt, Unjoin, NotActive, CmdGo,
         CmdIdle, MaybeRoom, CmdType, CmdSteps, MqttType, TimerType, Threads
<1>8. ServeInv'
  BY <1>1 DEF Inv, ServeInv, CmdTyped, InAction, ConnectionLost, CmdAt, Unjoin,
         NotActive, CmdGo, CmdIdle, CmdType, CmdSteps
<1>9. /\ LeaseTyped' /\ WorkerTyped' /\ MqttTyped' /\ ConnTyped' /\ TasksTyped'
      /\ QuietInv'
  BY <1>1 DEF Inv, LeaseTyped, WorkerTyped, MqttTyped, ConnTyped, TasksTyped, QuietInv
<1> QED
  BY <1>2, <1>3, <1>4, <1>5, <1>6, <1>7, <1>8, <1>9 DEF Inv

LEMMA StartCallStep ==
    ASSUME Inv, StartCall
    PROVE  Inv'
<1>1. UNCHANGED <<serving, bound, current, waiting, sess, expected, attempt, tasks,
      active, pending, offer, answered, withdrawn, timer, created, owner, ownerId,
      cancelled, ticket, endAsked, transition, mqtt, worker>>
  BY DEF StartCall, CmdAt, StartMedia, CancelTimer, CmdGo, timerVars, callVars,
         arbiterVars, cmdFrame, connVars, CmdIdle
<1>2. TimerTyped'
  BY <1>1, RoomsApart DEF Inv, TimerTyped, CmdTyped, OfferInv, StartCall, CmdAt,
         StartMedia, CancelTimer, CmdGo, timerVars, CmdIdle, TimerType, Threads,
         CmdType, CmdSteps
<1>3. FlagsTyped'
  BY <1>1 DEF Inv, FlagsTyped, StartCall, CmdAt, StartMedia, CancelTimer, CmdGo,
         timerVars, CmdIdle
<1>4. CmdTyped'
  BY <1>1, RetriesAssumption, MaxOffersAssumption, RoomsApart DEF Inv, CmdTyped,
         CallTyped, TimerTyped, StartCall, CmdAt, StartMedia, CancelTimer, CmdGo,
         timerVars, CmdIdle, CmdType, CmdSteps, MaybeRoom, TimerType, Threads
<1>5. LinkTyped'
  BY <1>1, DisconnectTyped, RoomsApart DEF Inv, LinkTyped, CmdTyped, ConnTyped,
         TasksTyped, WorkerTyped, StartCall, CmdAt, StartMedia, CancelTimer, CmdGo,
         timerVars, CmdIdle, LinkType, CmdType, CmdSteps, WorkerType
<1>6. ConnTyped'
  BY <1>1, HeadTyped, RoomsApart DEF Inv, ConnTyped, CmdTyped, TasksTyped, OfferInv,
         StartCall, CmdAt, StartMedia, CancelTimer, CmdGo, timerVars, CmdIdle, CmdType,
         CmdSteps
<1>7. OfferInv'
  BY <1>1, MaxOffersAssumption, RoomsApart DEF Inv, OfferInv, CallTyped, CmdTyped,
         MqttTyped, TimerTyped, StartCall, CmdAt, StartMedia, CancelTimer, CmdGo,
         timerVars, CmdIdle, MaybeRoom, CmdType, CmdSteps, MqttType, TimerType, Threads
<1>8. ServeInv'
  BY <1>1 DEF Inv, ServeInv, CmdTyped, InAction, StartCall, CmdAt, StartMedia,
         CancelTimer, CmdGo, timerVars, CmdIdle, CmdType, CmdSteps
<1>9. QuietInv'
  BY <1>1, HeadTyped, RoomsApart DEF Inv, QuietInv, ServeInv, ConnTyped, CmdTyped,
         TasksTyped, InAction, StartCall, CmdAt, StartMedia, CancelTimer, CmdGo,
         timerVars, CmdIdle, CmdType, CmdSteps
<1>10. /\ CallTyped' /\ LeaseTyped' /\ WorkerTyped' /\ MqttTyped' /\ TasksTyped'
  BY <1>1 DEF Inv, CallTyped, LeaseTyped, WorkerTyped, MqttTyped, TasksTyped
<1> QED
  BY <1>2, <1>3, <1>4, <1>5, <1>6, <1>7, <1>8, <1>9, <1>10 DEF Inv

LEMMA CallStartedStep ==
    ASSUME Inv, CallStarted
    PROVE  Inv'
<1>1. UNCHANGED <<serving, link, bound, current, waiting, sess, expected, attempt,
      media, tasks, active, pending, offer, answered, withdrawn, ringing, ringThread,
      timer, created, owner, ownerId, cancelled, ticket, endAsked, transition, mqtt,
      worker>>
  BY DEF CallStarted, CmdAt, Unjoin, CmdGo, callVars, ringVars, arbiterVars, cmdFrame,
         linkVars, connVars, CmdIdle
<1>2. TimerTyped'
  BY <1>1, RoomsApart DEF Inv, TimerTyped, CmdTyped, OfferInv, CallStarted, CmdAt,
         Unjoin, CmdGo, CmdIdle, TimerType, Threads, CmdType, CmdSteps
<1>3. CmdTyped'
  BY <1>1, RetriesAssumption, MaxOffersAssumption, RoomsApart DEF Inv, CmdTyped,
         CallTyped, TimerTyped, CallStarted, CmdAt, Unjoin, CmdGo, CmdIdle, CmdType,
         CmdSteps, MaybeRoom, TimerType, Threads
<1>4. ConnTyped'
  BY <1>1, HeadTyped, RoomsApart DEF Inv, ConnTyped, CmdTyped, TasksTyped, OfferInv,
         CallStarted, CmdAt, Unjoin, CmdGo, CmdIdle, CmdType, CmdSteps
<1>5. OfferInv'
  BY <1>1, MaxOffersAssumption, RoomsApart DEF Inv, OfferInv, CallTyped, CmdTyped,
         MqttTyped, TimerTyped, CallStarted, CmdAt, Unjoin, CmdGo, CmdIdle, MaybeRoom,
         CmdType, CmdSteps, MqttType, TimerType, Threads
<1>6. ServeInv'
  BY <1>1 DEF Inv, ServeInv, CmdTyped, InAction, CallStarted, CmdAt, Unjoin, CmdGo,
         CmdIdle, CmdType, CmdSteps
<1>7. /\ CallTyped' /\ LeaseTyped' /\ FlagsTyped' /\ WorkerTyped' /\ MqttTyped'
      /\ LinkTyped' /\ TasksTyped' /\ QuietInv'
  BY <1>1 DEF Inv, CallTyped, LeaseTyped, FlagsTyped, WorkerTyped, MqttTyped,
         LinkTyped, TasksTyped, QuietInv
<1> QED
  BY <1>2, <1>3, <1>4, <1>5, <1>6, <1>7 DEF Inv

LEMMA ActionEndsStep ==
    ASSUME Inv, ActionEnds
    PROVE  Inv'
<1>1. UNCHANGED <<link, current, waiting, sess, expected, attempt, media, tasks,
      control, active, pending, offer, answered, withdrawn, ringing, ringThread, timer,
      joining, created, ticket, mqtt, worker>>
  BY DEF ActionEnds, CmdAt, EndOwner, CmdGo, transportVars, callVars, timerVars,
         cmdFrame, Release, connVars, CmdIdle, linkVars
<1>2. LeaseTyped'
  BY <1>1, RoomsApart DEF Inv, LeaseTyped, CmdTyped, CallTyped, MqttTyped, ActionEnds,
         CmdAt, EndOwner, CmdGo, transportVars, Release, CmdIdle, linkVars, CmdType,
         CmdSteps, MaybeRoom, MqttType
<1>3. FlagsTyped'
  BY <1>1 DEF Inv, FlagsTyped, ActionEnds, CmdAt, EndOwner, CmdGo, transportVars,
         Release, CmdIdle, linkVars
<1>4. CmdTyped'
  BY <1>1, RetriesAssumption, MaxOffersAssumption, RoomsApart DEF Inv, CmdTyped,
         CallTyped, TimerTyped, ActionEnds, CmdAt, EndOwner, CmdGo, transportVars,
         Release, CmdIdle, linkVars, CmdType, CmdSteps, MaybeRoom, TimerType, Threads
<1>5. LinkTyped'
  BY <1>1, DisconnectTyped, RoomsApart DEF Inv, LinkTyped, CmdTyped, ConnTyped,
         TasksTyped, WorkerTyped, ActionEnds, CmdAt, EndOwner, CmdGo, transportVars,
         Release, CmdIdle, linkVars, LinkType, CmdType, CmdSteps, WorkerType
<1>6. OfferInv'
  BY <1>1, MaxOffersAssumption, RoomsApart DEF Inv, OfferInv, CallTyped, CmdTyped,
         MqttTyped, TimerTyped, ActionEnds, CmdAt, EndOwner, CmdGo, transportVars,
         Release, CmdIdle, linkVars, MaybeRoom, CmdType, CmdSteps, MqttType, TimerType,
         Threads
<1>7. ServeInv'
  BY <1>1 DEF Inv, ServeInv, CmdTyped, InAction, ActionEnds, CmdAt, EndOwner, CmdGo,
         transportVars, Release, CmdIdle, linkVars, CmdType, CmdSteps
<1>8. QuietInv'
  BY <1>1, HeadTyped, RoomsApart DEF Inv, QuietInv, ServeInv, ConnTyped, CmdTyped,
         TasksTyped, InAction, ActionEnds, CmdAt, EndOwner, CmdGo, transportVars,
         Release, CmdIdle, linkVars, CmdType, CmdSteps
<1>9. /\ CallTyped' /\ TimerTyped' /\ WorkerTyped' /\ MqttTyped' /\ ConnTyped'
      /\ TasksTyped'
  BY <1>1 DEF Inv, CallTyped, TimerTyped, WorkerTyped, MqttTyped, ConnTyped, TasksTyped
<1> QED
  BY <1>2, <1>3, <1>4, <1>5, <1>6, <1>7, <1>8, <1>9 DEF Inv

LEMMA HangupStep ==
    ASSUME Inv, Hangup
    PROVE  Inv'
<1>1. UNCHANGED <<serving, link, bound, current, waiting, sess, expected, attempt,
      media, tasks, control, active, pending, offer, answered, withdrawn, timer,
      created, owner, ownerId, cancelled, ticket, endAsked, transition, mqtt, worker>>
  BY DEF Hangup, User, DoHangup, callVars, arbiterVars, cmdFrame, transportVars, CmdAt,
         CmdGo, timerVars, CancelTimer, linkVars, connVars, CmdIdle
<1>0. /\ cmd' \in CmdType
      /\ \/ cmd'.at \in {"idle", "finish"} /\ cmd'.room = NoRoom
         \/ cmd'.at = "hangingUp" /\ cmd'.then \in {"idle", "finish"}
  <2>1. CASE CmdGo("idle") \/ CmdGo("finish")
    BY <2>1, RetriesAssumption, MaxOffersAssumption
    DEF Inv, CmdTyped, OfferInv, Hangup, User, CmdAt, CmdGo, CmdIdle, CmdType, CmdSteps, MaybeRoom
  <2>2. CASE cmd' = [cmd EXCEPT !.at = "hangingUp", !.then = "finish"]
    BY <2>2 DEF Inv, CmdTyped, CmdType, CmdSteps
  <2>3. CASE cmd' = [cmd EXCEPT !.at = "hangingUp", !.then = "idle"]
    BY <2>3 DEF Inv, CmdTyped, CmdType, CmdSteps
  <2> QED
    BY <2>1, <2>2, <2>3 DEF Hangup, DoHangup
<1>2. TimerTyped'
  BY <1>1, RoomsApart DEF Inv, TimerTyped, CmdTyped, OfferInv, Hangup, User, DoHangup,
         CmdAt, CmdGo, timerVars, CancelTimer, CmdIdle, TimerType, Threads, CmdType,
         CmdSteps
<1>3. FlagsTyped'
  BY <1>1 DEF Inv, FlagsTyped, Hangup, User, DoHangup, CmdAt, CmdGo, timerVars,
         CancelTimer, CmdIdle
<1>4. CmdTyped'
  BY <1>0 DEF Inv, CmdTyped
<1>5. OfferInv'
  BY <1>1, <1>0, MaxOffersAssumption, RoomsApart DEF Inv, OfferInv, CallTyped,
         MqttTyped, TimerTyped, Hangup, User, CmdAt, timerVars, CancelTimer, MaybeRoom,
         MqttType, TimerType, Threads
<1>6. ServeInv'
  BY <1>1, <1>0 DEF Inv, ServeInv, InAction, Hangup, User, CmdAt, timerVars,
         CancelTimer
<1>7. /\ CallTyped' /\ LeaseTyped' /\ WorkerTyped' /\ MqttTyped' /\ LinkTyped'
      /\ ConnTyped' /\ TasksTyped' /\ QuietInv'
  BY <1>1 DEF Inv, CallTyped, LeaseTyped, WorkerTyped, MqttTyped, LinkTyped, ConnTyped,
         TasksTyped, QuietInv
<1> QED
  BY <1>2, <1>3, <1>4, <1>5, <1>6, <1>7 DEF Inv

LEMMA OnConnectFailedStep ==
    ASSUME Inv, OnConnectFailed
    PROVE  Inv'
<1>1. UNCHANGED <<serving, link, bound, current, waiting, sess, expected, attempt,
      media, tasks, control, active, pending, offer, answered, withdrawn, timer,
      created, owner, ownerId, cancelled, ticket, endAsked, transition, mqtt, worker>>
  BY DEF OnConnectFailed, CmdAt, DoHangup, callVars, arbiterVars, cmdFrame,
         transportVars, CmdGo, timerVars, CancelTimer, linkVars, connVars, CmdIdle
<1>0. /\ cmd' \in CmdType
      /\ \/ cmd'.at = "actionFailed"
         \/ cmd'.at = "hangingUp" /\ cmd'.then = "actionFailed"
  <2>1. CASE CmdGo("actionFailed")
    BY <2>1 DEF Inv, CmdTyped, CmdGo, CmdType, CmdSteps
  <2>2. CASE cmd' = [cmd EXCEPT !.at = "hangingUp", !.then = "actionFailed"]
    BY <2>2 DEF Inv, CmdTyped, CmdType, CmdSteps
  <2> QED
    BY <2>1, <2>2 DEF OnConnectFailed, DoHangup
<1>2. TimerTyped'
  BY <1>1, RoomsApart DEF Inv, TimerTyped, CmdTyped, OfferInv, OnConnectFailed, CmdAt,
         DoHangup, CmdGo, timerVars, CancelTimer, CmdIdle, TimerType, Threads, CmdType,
         CmdSteps
<1>3. FlagsTyped'
  BY <1>1 DEF Inv, FlagsTyped, OnConnectFailed, CmdAt, DoHangup, CmdGo, timerVars,
         CancelTimer, CmdIdle
<1>4. CmdTyped'
  BY <1>0 DEF Inv, CmdTyped
<1>5. OfferInv'
  BY <1>1, <1>0, MaxOffersAssumption, RoomsApart DEF Inv, OfferInv, CallTyped,
         MqttTyped, TimerTyped, OnConnectFailed, CmdAt, timerVars, CancelTimer,
         MaybeRoom, MqttType, TimerType, Threads
<1>6. ServeInv'
  BY <1>1, <1>0 DEF Inv, ServeInv, InAction, OnConnectFailed, CmdAt, timerVars,
         CancelTimer
<1>7. /\ CallTyped' /\ LeaseTyped' /\ WorkerTyped' /\ MqttTyped' /\ LinkTyped'
      /\ ConnTyped' /\ TasksTyped' /\ QuietInv'
  BY <1>1 DEF Inv, CallTyped, LeaseTyped, WorkerTyped, MqttTyped, LinkTyped, ConnTyped,
         TasksTyped, QuietInv
<1> QED
  BY <1>2, <1>3, <1>4, <1>5, <1>6, <1>7 DEF Inv

LEMMA HangUpCallStep ==
    ASSUME Inv, HangUpCall
    PROVE  Inv'
<1>1. UNCHANGED <<serving, bound, tasks, control, active, pending, offer, answered,
      withdrawn, ringing, ringThread, timer, created, owner, ownerId, cancelled, ticket,
      endAsked, transition, mqtt, worker>>
  BY DEF HangUpCall, CmdAt, Unjoin, HangUp, CmdGo, callVars, ringVars, arbiterVars,
         cmdFrame, CmdIdle
<1>2. TimerTyped'
  BY <1>1, RoomsApart DEF Inv, TimerTyped, CmdTyped, OfferInv, HangUpCall, CmdAt,
         Unjoin, HangUp, CmdGo, CmdIdle, TimerType, Threads, CmdType, CmdSteps
<1>3. CmdTyped'
  BY <1>1, RetriesAssumption, MaxOffersAssumption, RoomsApart DEF Inv, CmdTyped,
         CallTyped, TimerTyped, HangUpCall, CmdAt, Unjoin, HangUp, CmdGo, CmdIdle,
         CmdType, CmdSteps, MaybeRoom, TimerType, Threads
<1>4. LinkTyped'
  BY <1>1, DisconnectTyped, RoomsApart DEF Inv, LinkTyped, CmdTyped, ConnTyped,
         TasksTyped, WorkerTyped, HangUpCall, CmdAt, Unjoin, HangUp, CmdGo, CmdIdle,
         LinkType, CmdType, CmdSteps, WorkerType
<1>5. ConnTyped'
  BY <1>1, HeadTyped, RoomsApart DEF Inv, ConnTyped, CmdTyped, TasksTyped, OfferInv,
         HangUpCall, CmdAt, Unjoin, HangUp, CmdGo, CmdIdle, CmdType, CmdSteps
<1>6. OfferInv'
  BY <1>1, MaxOffersAssumption, RoomsApart DEF Inv, OfferInv, CallTyped, CmdTyped,
         MqttTyped, TimerTyped, HangUpCall, CmdAt, Unjoin, HangUp, CmdGo, CmdIdle,
         MaybeRoom, CmdType, CmdSteps, MqttType, TimerType, Threads
<1>7. ServeInv'
  BY <1>1 DEF Inv, ServeInv, CmdTyped, InAction, HangUpCall, CmdAt, Unjoin, HangUp,
         CmdGo, CmdIdle, CmdType, CmdSteps
<1>8. QuietInv'
  BY <1>1, HeadTyped, RoomsApart DEF Inv, QuietInv, ServeInv, ConnTyped, CmdTyped,
         TasksTyped, InAction, HangUpCall, CmdAt, Unjoin, HangUp, CmdGo, CmdIdle,
         CmdType, CmdSteps
<1>9. /\ CallTyped' /\ LeaseTyped' /\ FlagsTyped' /\ WorkerTyped' /\ MqttTyped'
      /\ TasksTyped'
  BY <1>1 DEF Inv, CallTyped, LeaseTyped, FlagsTyped, WorkerTyped, MqttTyped,
         TasksTyped
<1> QED
  BY <1>2, <1>3, <1>4, <1>5, <1>6, <1>7, <1>8, <1>9 DEF Inv

LEMMA CancelStep ==
    ASSUME Inv, Cancel
    PROVE  Inv'
<1>1. UNCHANGED <<serving, link, bound, current, waiting, sess, expected, attempt,
      media, tasks, control, active, pending, offer, answered, withdrawn, timer,
      created, owner, ownerId, cancelled, ticket, endAsked, transition, mqtt, worker>>
  BY DEF Cancel, User, CancelTimer, CmdGo, timerVars, callVars, arbiterVars, cmdFrame,
         transportVars, CmdAt, CmdIdle, linkVars, connVars
<1>0. /\ cmd' \in CmdType
      /\ \/ cmd'.at = "finish"
         \/ cmd'.at = "cancelling" /\ cmd'.then = "finish"
  <2>1. CASE CmdGo("finish")
    BY <2>1 DEF Inv, CmdTyped, CmdGo, CmdType, CmdSteps
  <2>2. CASE cmd' = [cmd EXCEPT !.at = "cancelling", !.then = "finish"]
    BY <2>2 DEF Inv, CmdTyped, CmdType, CmdSteps
  <2> QED
    BY <2>1, <2>2 DEF Cancel
<1>2. TimerTyped'
  BY <1>1, RoomsApart DEF Inv, TimerTyped, CmdTyped, OfferInv, Cancel, User,
         CancelTimer, CmdGo, timerVars, CmdAt, CmdIdle, TimerType, Threads, CmdType,
         CmdSteps
<1>3. FlagsTyped'
  BY <1>1 DEF Inv, FlagsTyped, Cancel, User, CancelTimer, CmdGo, timerVars, CmdAt,
         CmdIdle
<1>4. CmdTyped'
  BY <1>0 DEF Inv, CmdTyped
<1>5. OfferInv'
  BY <1>1, <1>0, MaxOffersAssumption, RoomsApart DEF Inv, OfferInv, CallTyped,
         MqttTyped, TimerTyped, Cancel, User, CancelTimer, timerVars, CmdAt, MaybeRoom,
         MqttType, TimerType, Threads
<1>6. ServeInv'
  BY <1>1, <1>0 DEF Inv, ServeInv, InAction, Cancel, User, CancelTimer, timerVars,
         CmdAt
<1>7. /\ CallTyped' /\ LeaseTyped' /\ WorkerTyped' /\ MqttTyped' /\ LinkTyped'
      /\ ConnTyped' /\ TasksTyped' /\ QuietInv'
  BY <1>1 DEF Inv, CallTyped, LeaseTyped, WorkerTyped, MqttTyped, LinkTyped, ConnTyped,
         TasksTyped, QuietInv
<1> QED
  BY <1>2, <1>3, <1>4, <1>5, <1>6, <1>7 DEF Inv

LEMMA CancelCallStep ==
    ASSUME Inv, CancelCall
    PROVE  Inv'
<1>1. UNCHANGED <<serving, link, bound, current, waiting, sess, attempt, media, tasks,
      control, active, pending, offer, answered, withdrawn, ringing, ringThread, timer,
      created, owner, ownerId, cancelled, ticket, endAsked, transition, mqtt, worker>>
  BY DEF CancelCall, CmdAt, Unjoin, CmdGo, callVars, ringVars, arbiterVars, cmdFrame,
         linkVars, connVars, CmdIdle
<1>2. TimerTyped'
  BY <1>1, RoomsApart DEF Inv, TimerTyped, CmdTyped, OfferInv, CancelCall, CmdAt,
         Unjoin, CmdGo, CmdIdle, TimerType, Threads, CmdType, CmdSteps
<1>3. CmdTyped'
  BY <1>1, RetriesAssumption, MaxOffersAssumption, RoomsApart DEF Inv, CmdTyped,
         CallTyped, TimerTyped, CancelCall, CmdAt, Unjoin, CmdGo, CmdIdle, CmdType,
         CmdSteps, MaybeRoom, TimerType, Threads
<1>4. ConnTyped'
  BY <1>1, HeadTyped, RoomsApart DEF Inv, ConnTyped, CmdTyped, TasksTyped, OfferInv,
         CancelCall, CmdAt, Unjoin, CmdGo, CmdIdle, CmdType, CmdSteps
<1>5. OfferInv'
  BY <1>1, MaxOffersAssumption, RoomsApart DEF Inv, OfferInv, CallTyped, CmdTyped,
         MqttTyped, TimerTyped, CancelCall, CmdAt, Unjoin, CmdGo, CmdIdle, MaybeRoom,
         CmdType, CmdSteps, MqttType, TimerType, Threads
<1>6. ServeInv'
  BY <1>1 DEF Inv, ServeInv, CmdTyped, InAction, CancelCall, CmdAt, Unjoin, CmdGo,
         CmdIdle, CmdType, CmdSteps
<1>7. /\ CallTyped' /\ LeaseTyped' /\ FlagsTyped' /\ WorkerTyped' /\ MqttTyped'
      /\ LinkTyped' /\ TasksTyped' /\ QuietInv'
  BY <1>1 DEF Inv, CallTyped, LeaseTyped, FlagsTyped, WorkerTyped, MqttTyped,
         LinkTyped, TasksTyped, QuietInv
<1> QED
  BY <1>2, <1>3, <1>4, <1>5, <1>6, <1>7 DEF Inv

LEMMA EndCallStep ==
    ASSUME Inv, EndCall
    PROVE  Inv'
<1>1. UNCHANGED <<serving, link, bound, current, waiting, sess, expected, attempt,
      media, tasks, control, pending, offer, withdrawn, ringing, ringThread, timer,
      joining, created, owner, ownerId, cancelled, ticket, transition, mqtt, worker>>
  BY DEF EndCall, CmdAt, NotActive, EndSession, CmdGo, timerVars, ownerVars, cmdFrame,
         transportVars, CmdIdle, linkVars, connVars
<1>2. CallTyped'
  BY <1>1, MaxOffersAssumption, RoomsApart DEF Inv, CallTyped, OfferInv, CmdTyped,
         MqttTyped, EndCall, CmdAt, NotActive, EndSession, CmdGo, CmdIdle, MaybeRoom,
         CmdType, CmdSteps, MqttType
<1>3. FlagsTyped'
  BY <1>1 DEF Inv, FlagsTyped, EndCall, CmdAt, NotActive, EndSession, CmdGo, CmdIdle
<1>4. CmdTyped'
  BY <1>1, RetriesAssumption, MaxOffersAssumption, RoomsApart DEF Inv, CmdTyped,
         CallTyped, TimerTyped, EndCall, CmdAt, NotActive, EndSession, CmdGo, CmdIdle,
         CmdType, CmdSteps, MaybeRoom, TimerType, Threads
<1>5. OfferInv'
  BY <1>1, MaxOffersAssumption, RoomsApart DEF Inv, OfferInv, CallTyped, CmdTyped,
         MqttTyped, TimerTyped, EndCall, CmdAt, NotActive, EndSession, CmdGo, CmdIdle,
         MaybeRoom, CmdType, CmdSteps, MqttType, TimerType, Threads
<1>6. ServeInv'
  BY <1>1 DEF Inv, ServeInv, CmdTyped, InAction, EndCall, CmdAt, NotActive, EndSession,
         CmdGo, CmdIdle, CmdType, CmdSteps
<1>7. /\ TimerTyped' /\ LeaseTyped' /\ WorkerTyped' /\ MqttTyped' /\ LinkTyped'
      /\ ConnTyped' /\ TasksTyped' /\ QuietInv'
  BY <1>1 DEF Inv, TimerTyped, LeaseTyped, WorkerTyped, MqttTyped, LinkTyped,
         ConnTyped, TasksTyped, QuietInv
<1> QED
  BY <1>2, <1>3, <1>4, <1>5, <1>6, <1>7 DEF Inv

LEMMA FinishStep ==
    ASSUME Inv, Finish
    PROVE  Inv'
<1>1. UNCHANGED <<link, current, waiting, sess, expected, attempt, media, tasks,
      control, active, pending, offer, answered, withdrawn, ringing, ringThread, timer,
      joining, created, ticket, mqtt, worker>>
  BY DEF Finish, CmdAt, EndOwner, CmdGo, arbiterVars, transportVars, callVars,
         timerVars, cmdFrame, Release, connVars, CmdIdle, linkVars
<1>2. LeaseTyped'
  BY <1>1, RoomsApart DEF Inv, LeaseTyped, CmdTyped, CallTyped, MqttTyped, Finish,
         CmdAt, EndOwner, CmdGo, arbiterVars, transportVars, Release, CmdIdle, linkVars,
         CmdType, CmdSteps, MaybeRoom, MqttType
<1>3. FlagsTyped'
  BY <1>1 DEF Inv, FlagsTyped, Finish, CmdAt, EndOwner, CmdGo, arbiterVars,
         transportVars, Release, CmdIdle, linkVars
<1>4. CmdTyped'
  BY <1>1, RetriesAssumption, MaxOffersAssumption, RoomsApart DEF Inv, CmdTyped,
         CallTyped, TimerTyped, Finish, CmdAt, EndOwner, CmdGo, arbiterVars,
         transportVars, Release, CmdIdle, linkVars, CmdType, CmdSteps, MaybeRoom,
         TimerType, Threads
<1>5. LinkTyped'
  BY <1>1, DisconnectTyped, RoomsApart DEF Inv, LinkTyped, CmdTyped, ConnTyped,
         TasksTyped, WorkerTyped, Finish, CmdAt, EndOwner, CmdGo, arbiterVars,
         transportVars, Release, CmdIdle, linkVars, LinkType, CmdType, CmdSteps,
         WorkerType
<1>6. OfferInv'
  BY <1>1, MaxOffersAssumption, RoomsApart DEF Inv, OfferInv, CallTyped, CmdTyped,
         MqttTyped, TimerTyped, Finish, CmdAt, EndOwner, CmdGo, arbiterVars,
         transportVars, Release, CmdIdle, linkVars, MaybeRoom, CmdType, CmdSteps,
         MqttType, TimerType, Threads
<1>7. ServeInv'
  BY <1>1 DEF Inv, ServeInv, CmdTyped, InAction, Finish, CmdAt, EndOwner, CmdGo,
         arbiterVars, transportVars, Release, CmdIdle, linkVars, CmdType, CmdSteps
<1>8. QuietInv'
  BY <1>1, HeadTyped, RoomsApart DEF Inv, QuietInv, ServeInv, ConnTyped, CmdTyped,
         TasksTyped, InAction, Finish, CmdAt, EndOwner, CmdGo, arbiterVars,
         transportVars, Release, CmdIdle, linkVars, CmdType, CmdSteps
<1>9. /\ CallTyped' /\ TimerTyped' /\ WorkerTyped' /\ MqttTyped' /\ ConnTyped'
      /\ TasksTyped'
  BY <1>1 DEF Inv, CallTyped, TimerTyped, WorkerTyped, MqttTyped, ConnTyped, TasksTyped
<1> QED
  BY <1>2, <1>3, <1>4, <1>5, <1>6, <1>7, <1>8, <1>9 DEF Inv

LEMMA FinishedStep ==
    ASSUME Inv, Finished
    PROVE  Inv'
<1>1. UNCHANGED <<serving, link, bound, current, waiting, sess, expected, attempt,
      media, tasks, control, active, pending, offer, answered, withdrawn, ringing,
      ringThread, timer, joining, created, owner, ownerId, cancelled, ticket, endAsked,
      transition, mqtt, worker>>
  BY DEF Finished, CmdAt, CmdGo, callVars, timerVars, arbiterVars, cmdFrame,
         transportVars, CmdIdle, linkVars, connVars
<1>2. CmdTyped'
  BY <1>1, RetriesAssumption, MaxOffersAssumption, RoomsApart DEF Inv, CmdTyped,
         CallTyped, TimerTyped, Finished, CmdAt, CmdGo, CmdIdle, CmdType, CmdSteps,
         MaybeRoom, TimerType, Threads
<1>3. OfferInv'
  BY <1>1, MaxOffersAssumption, RoomsApart DEF Inv, OfferInv, CallTyped, CmdTyped,
         MqttTyped, TimerTyped, Finished, CmdAt, CmdGo, CmdIdle, MaybeRoom, CmdType,
         CmdSteps, MqttType, TimerType, Threads
<1>4. ServeInv'
  BY <1>1 DEF Inv, ServeInv, CmdTyped, InAction, Finished, CmdAt, CmdGo, CmdIdle,
         CmdType, CmdSteps
<1>5. /\ CallTyped' /\ TimerTyped' /\ LeaseTyped' /\ FlagsTyped' /\ WorkerTyped'
      /\ MqttTyped' /\ LinkTyped' /\ ConnTyped' /\ TasksTyped' /\ QuietInv'
  BY <1>1 DEF Inv, CallTyped, TimerTyped, LeaseTyped, FlagsTyped, WorkerTyped,
         MqttTyped, LinkTyped, ConnTyped, TasksTyped, QuietInv
<1> QED
  BY <1>2, <1>3, <1>4, <1>5 DEF Inv

LEMMA RejectStep ==
    ASSUME Inv, Reject
    PROVE  Inv'
<1>1. UNCHANGED <<serving, link, bound, current, waiting, sess, expected, attempt,
      media, tasks, control, active, offer, answered, ringing, ringThread, timer,
      joining, created, owner, ownerId, cancelled, ticket, endAsked, transition, mqtt,
      worker>>
  BY DEF Reject, User, NotPending, timerVars, arbiterVars, cmdFrame, transportVars,
         CmdAt, linkVars, connVars
<1>2. CallTyped'
  BY <1>1, MaxOffersAssumption, RoomsApart DEF Inv, CallTyped, OfferInv, CmdTyped,
         MqttTyped, Reject, User, NotPending, CmdAt, MaybeRoom, CmdType, CmdSteps,
         MqttType
<1>3. CmdTyped'
  BY <1>1, RetriesAssumption, MaxOffersAssumption, RoomsApart DEF Inv, CmdTyped,
         CallTyped, TimerTyped, Reject, User, NotPending, CmdAt, CmdType, CmdSteps,
         MaybeRoom, TimerType, Threads
<1>4. OfferInv'
  BY <1>1, MaxOffersAssumption, RoomsApart DEF Inv, OfferInv, CallTyped, CmdTyped,
         MqttTyped, TimerTyped, Reject, User, NotPending, CmdAt, MaybeRoom, CmdType,
         CmdSteps, MqttType, TimerType, Threads
<1>5. ServeInv'
  BY <1>1 DEF Inv, ServeInv, CmdTyped, InAction, Reject, User, NotPending, CmdAt,
         CmdType, CmdSteps
<1>6. /\ TimerTyped' /\ LeaseTyped' /\ FlagsTyped' /\ WorkerTyped' /\ MqttTyped'
      /\ LinkTyped' /\ ConnTyped' /\ TasksTyped' /\ QuietInv'
  BY <1>1 DEF Inv, TimerTyped, LeaseTyped, FlagsTyped, WorkerTyped, MqttTyped,
         LinkTyped, ConnTyped, TasksTyped, QuietInv
<1> QED
  BY <1>2, <1>3, <1>4, <1>5, <1>6 DEF Inv

LEMMA ExpirePendingStep ==
    ASSUME Inv, ExpirePending
    PROVE  Inv'
<1>1. UNCHANGED <<serving, link, bound, current, waiting, sess, expected, attempt,
      media, tasks, control, active, offer, answered, ringing, ringThread, timer,
      joining, created, owner, ownerId, cancelled, ticket, endAsked, transition, mqtt,
      worker>>
  BY DEF ExpirePending, CmdAt, NotPending, timerVars, arbiterVars, cmdFrame,
         transportVars, linkVars, connVars
<1>2. CallTyped'
  BY <1>1, MaxOffersAssumption, RoomsApart DEF Inv, CallTyped, OfferInv, CmdTyped,
         MqttTyped, ExpirePending, CmdAt, NotPending, MaybeRoom, CmdType, CmdSteps,
         MqttType
<1>3. CmdTyped'
  BY <1>1, RetriesAssumption, MaxOffersAssumption, RoomsApart DEF Inv, CmdTyped,
         CallTyped, TimerTyped, ExpirePending, CmdAt, NotPending, CmdType, CmdSteps,
         MaybeRoom, TimerType, Threads
<1>4. OfferInv'
  BY <1>1, MaxOffersAssumption, RoomsApart DEF Inv, OfferInv, CallTyped, CmdTyped,
         MqttTyped, TimerTyped, ExpirePending, CmdAt, NotPending, MaybeRoom, CmdType,
         CmdSteps, MqttType, TimerType, Threads
<1>5. ServeInv'
  BY <1>1 DEF Inv, ServeInv, CmdTyped, InAction, ExpirePending, CmdAt, NotPending,
         CmdType, CmdSteps
<1>6. /\ TimerTyped' /\ LeaseTyped' /\ FlagsTyped' /\ WorkerTyped' /\ MqttTyped'
      /\ LinkTyped' /\ ConnTyped' /\ TasksTyped' /\ QuietInv'
  BY <1>1 DEF Inv, TimerTyped, LeaseTyped, FlagsTyped, WorkerTyped, MqttTyped,
         LinkTyped, ConnTyped, TasksTyped, QuietInv
<1> QED
  BY <1>2, <1>3, <1>4, <1>5, <1>6 DEF Inv

LEMMA DropTicketStep ==
    ASSUME Inv, DropTicket
    PROVE  Inv'
<1>1. UNCHANGED <<serving, link, bound, current, waiting, sess, expected, attempt,
      media, tasks, control, active, pending, offer, answered, withdrawn, ringing,
      ringThread, timer, joining, created, owner, ownerId, endAsked, transition, mqtt,
      worker>>
  BY DEF DropTicket, CmdAt, ClearPendingId, CmdGo, callVars, timerVars, cmdFrame,
         transportVars, CmdIdle, linkVars, connVars
<1>2. LeaseTyped'
  BY <1>1, RoomsApart DEF Inv, LeaseTyped, CmdTyped, CallTyped, MqttTyped, DropTicket,
         CmdAt, ClearPendingId, CmdGo, CmdIdle, CmdType, CmdSteps, MaybeRoom, MqttType
<1>3. FlagsTyped'
  BY <1>1 DEF Inv, FlagsTyped, DropTicket, CmdAt, ClearPendingId, CmdGo, CmdIdle
<1>4. CmdTyped'
  BY <1>1, RetriesAssumption, MaxOffersAssumption, RoomsApart DEF Inv, CmdTyped,
         CallTyped, TimerTyped, DropTicket, CmdAt, ClearPendingId, CmdGo, CmdIdle,
         CmdType, CmdSteps, MaybeRoom, TimerType, Threads
<1>5. OfferInv'
  BY <1>1, MaxOffersAssumption, RoomsApart DEF Inv, OfferInv, CallTyped, CmdTyped,
         MqttTyped, TimerTyped, DropTicket, CmdAt, ClearPendingId, CmdGo, CmdIdle,
         MaybeRoom, CmdType, CmdSteps, MqttType, TimerType, Threads
<1>6. ServeInv'
  BY <1>1 DEF Inv, ServeInv, CmdTyped, InAction, DropTicket, CmdAt, ClearPendingId,
         CmdGo, CmdIdle, CmdType, CmdSteps
<1>7. /\ CallTyped' /\ TimerTyped' /\ WorkerTyped' /\ MqttTyped' /\ LinkTyped'
      /\ ConnTyped' /\ TasksTyped' /\ QuietInv'
  BY <1>1 DEF Inv, CallTyped, TimerTyped, WorkerTyped, MqttTyped, LinkTyped, ConnTyped,
         TasksTyped, QuietInv
<1> QED
  BY <1>2, <1>3, <1>4, <1>5, <1>6, <1>7 DEF Inv

LEMMA CallIncomingStep ==
    ASSUME Inv, NEW r \in Incoming, CallIncoming(r)
    PROVE  Inv'
<1>1. UNCHANGED <<serving, link, bound, current, waiting, sess, expected, attempt,
      media, tasks, control, active, pending, offer, answered, withdrawn, ringing,
      ringThread, timer, joining, created, owner, ownerId, cancelled, endAsked,
      transition, cmd, worker>>
  BY DEF CallIncoming, MqttAt, callVars, timerVars, mqttFrame, transportVars, linkVars,
         connVars
<1>2. LeaseTyped'
  BY <1>1, RoomsApart DEF Inv, LeaseTyped, CmdTyped, CallTyped, MqttTyped,
         CallIncoming, MqttAt, CmdType, CmdSteps, MaybeRoom, MqttType
<1>3. MqttTyped'
  BY <1>1, MaxOffersAssumption, RoomsApart DEF Inv, MqttTyped, CallTyped, TimerTyped,
         CallIncoming, MqttAt, MqttType, MaybeRoom, TimerType, Threads
<1>4. /\ CallTyped' /\ TimerTyped' /\ FlagsTyped' /\ CmdTyped' /\ WorkerTyped'
      /\ LinkTyped' /\ ConnTyped' /\ TasksTyped' /\ OfferInv' /\ ServeInv' /\ QuietInv'
  BY <1>1 DEF Inv, CallTyped, TimerTyped, FlagsTyped, CmdTyped, WorkerTyped, LinkTyped,
         ConnTyped, TasksTyped, OfferInv, ServeInv, QuietInv, InAction, CmdAt
<1> QED
  BY <1>2, <1>3, <1>4 DEF Inv

LEMMA RoomCancelStep ==
    ASSUME Inv, NEW r \in Incoming \cup created, RoomCancel(r)
    PROVE  Inv'
<1>0. r \in Rooms /\ r # NoRoom
  BY RoomsApart DEF Inv, TimerTyped
<1>1. UNCHANGED <<serving, link, bound, current, waiting, sess, expected, attempt,
      media, tasks, control, offer, timer, created, owner, ownerId, cancelled, ticket,
      endAsked, transition, cmd, worker>>
  BY DEF RoomCancel, MqttAt, NotPending, timerVars, NotActive, CancelTimer, callVars,
         arbiterVars, mqttFrame, transportVars, linkVars, connVars
<1>2. \/ pending = r /\ NotPending /\ UNCHANGED timerVars /\ mqtt' = [at |-> "told", room |-> r]
      \/ active = r /\ NotActive /\ CancelTimer("mqtt") /\ mqtt' = [at |-> "hangs", room |-> r]
      \/ UNCHANGED <<callVars, timerVars>> /\ mqtt' = [at |-> "told", room |-> r]
  <2>1. CASE pending = r
    BY <2>1 DEF RoomCancel
  <2>2. CASE pending # r /\ active = r
    BY <2>2 DEF RoomCancel
  <2>3. CASE pending # r /\ active # r
    BY <2>3 DEF RoomCancel
  <2> QED
    BY <2>1, <2>2, <2>3
<1>3. CallTyped'
  <2>1. CASE pending = r /\ NotPending
    BY <2>1, <1>0, <1>1, MaxOffersAssumption, RoomsApart DEF Inv, CallTyped, OfferInv,
         MaybeRoom, NotPending
  <2>2. CASE active = r /\ NotActive
    BY <2>2, <1>0, <1>1, MaxOffersAssumption, RoomsApart DEF Inv, CallTyped, OfferInv,
         MaybeRoom, NotActive
  <2>3. CASE UNCHANGED callVars
    BY <2>3, <1>1 DEF Inv, CallTyped, callVars
  <2> QED
    BY <1>2, <2>1, <2>2, <2>3
<1>4. TimerTyped'
  BY <1>1, <1>0, RoomsApart, <1>2 DEF Inv, TimerTyped, CmdTyped, OfferInv, MqttAt,
         NotPending, timerVars, NotActive, CancelTimer, callVars, TimerType, Threads,
         CmdType, CmdSteps, CmdAt
<1>5. FlagsTyped'
  BY <1>1, <1>0, <1>2 DEF Inv, FlagsTyped, MqttAt, NotPending, timerVars, NotActive,
         CancelTimer, callVars
<1>6. MqttTyped'
  BY <1>1, <1>0, MaxOffersAssumption, RoomsApart, <1>2 DEF Inv, MqttTyped, CallTyped,
         TimerTyped, MqttAt, NotPending, timerVars, NotActive, CancelTimer, callVars,
         MqttType, MaybeRoom, TimerType, Threads
<1>7. OfferInv'
  <2>1. CASE pending = r /\ NotPending
    BY <2>1, <1>0, <1>1, MaxOffersAssumption, RoomsApart DEF Inv, OfferInv, CallTyped,
         NotPending
  <2>2. CASE active = r /\ NotActive
    BY <2>2, <1>0, <1>1, MaxOffersAssumption, RoomsApart DEF Inv, OfferInv, CallTyped,
         NotActive
  <2>3. CASE UNCHANGED callVars
    BY <2>3, <1>1 DEF Inv, OfferInv, callVars
  <2> QED
    BY <1>2, <2>1, <2>2, <2>3
<1>8. /\ LeaseTyped' /\ CmdTyped' /\ WorkerTyped' /\ LinkTyped' /\ ConnTyped'
      /\ TasksTyped' /\ ServeInv' /\ QuietInv'
  BY <1>1 DEF Inv, LeaseTyped, CmdTyped, WorkerTyped, LinkTyped, ConnTyped, TasksTyped,
         ServeInv, QuietInv, InAction, CmdAt
<1> QED
  BY <1>3, <1>4, <1>5, <1>6, <1>7, <1>8 DEF Inv

LEMMA CallRejectStep ==
    ASSUME Inv, NEW r \in created, CallReject(r)
    PROVE  Inv'
<1>0. r \in Rooms
  BY RoomsApart DEF Inv, TimerTyped
<1>1. UNCHANGED <<serving, link, bound, current, waiting, sess, expected, attempt,
      media, tasks, control, pending, offer, withdrawn, timer, created, owner, ownerId,
      cancelled, ticket, endAsked, transition, cmd, worker>>
  BY DEF CallReject, MqttAt, NotActive, CancelTimer, callVars, timerVars, arbiterVars,
         mqttFrame, transportVars, linkVars, connVars
<1>2. CallTyped'
  BY <1>1, <1>0, MaxOffersAssumption, RoomsApart DEF Inv, CallTyped, OfferInv,
         CmdTyped, MqttTyped, CallReject, MqttAt, NotActive, CancelTimer, callVars,
         timerVars, MaybeRoom, CmdAt, CmdType, CmdSteps, MqttType
<1>3. TimerTyped'
  BY <1>1, <1>0, RoomsApart DEF Inv, TimerTyped, CmdTyped, OfferInv, CallReject,
         MqttAt, NotActive, CancelTimer, callVars, timerVars, TimerType, Threads,
         CmdType, CmdSteps, CmdAt
<1>4. FlagsTyped'
  BY <1>1, <1>0 DEF Inv, FlagsTyped, CallReject, MqttAt, NotActive, CancelTimer,
         callVars, timerVars
<1>5. MqttTyped'
  BY <1>1, <1>0, MaxOffersAssumption, RoomsApart DEF Inv, MqttTyped, CallTyped,
         TimerTyped, CallReject, MqttAt, NotActive, CancelTimer, callVars, timerVars,
         MqttType, MaybeRoom, TimerType, Threads
<1>6. OfferInv'
  BY <1>1, <1>0, MaxOffersAssumption, RoomsApart DEF Inv, OfferInv, CallTyped,
         CmdTyped, MqttTyped, TimerTyped, CallReject, MqttAt, NotActive, CancelTimer,
         callVars, timerVars, CmdAt, MaybeRoom, CmdType, CmdSteps, MqttType, TimerType,
         Threads
<1>7. /\ LeaseTyped' /\ CmdTyped' /\ WorkerTyped' /\ LinkTyped' /\ ConnTyped'
      /\ TasksTyped' /\ ServeInv' /\ QuietInv'
  BY <1>1 DEF Inv, LeaseTyped, CmdTyped, WorkerTyped, LinkTyped, ConnTyped, TasksTyped,
         ServeInv, QuietInv, InAction, CmdAt
<1> QED
  BY <1>2, <1>3, <1>4, <1>5, <1>6, <1>7 DEF Inv

LEMMA OnCallIncomingStep ==
    ASSUME Inv, OnCallIncoming
    PROVE  Inv'
<1>1. UNCHANGED <<serving, link, bound, current, waiting, sess, expected, attempt,
      media, tasks, control, active, answered, withdrawn, ringing, ringThread, timer,
      joining, created, owner, ownerId, cancelled, ticket, endAsked, transition, cmd,
      worker>>
  BY DEF OnCallIncoming, MqttAt, MqttGo, timerVars, arbiterVars, mqttFrame,
         transportVars, linkVars, connVars
<1>2. CallTyped'
  BY <1>1, MaxOffersAssumption, RoomsApart DEF Inv, CallTyped, OfferInv, CmdTyped,
         MqttTyped, OnCallIncoming, MqttAt, MqttGo, MaybeRoom, CmdAt, CmdType, CmdSteps,
         MqttType
<1>3. MqttTyped'
  BY <1>1, MaxOffersAssumption, RoomsApart DEF Inv, MqttTyped, CallTyped, TimerTyped,
         OnCallIncoming, MqttAt, MqttGo, MqttType, MaybeRoom, TimerType, Threads
<1>4. OfferInv'
  BY <1>1, MaxOffersAssumption, RoomsApart DEF Inv, OfferInv, CallTyped, CmdTyped,
         MqttTyped, TimerTyped, OnCallIncoming, MqttAt, MqttGo, CmdAt, MaybeRoom,
         CmdType, CmdSteps, MqttType, TimerType, Threads
<1>5. /\ TimerTyped' /\ LeaseTyped' /\ FlagsTyped' /\ CmdTyped' /\ WorkerTyped'
      /\ LinkTyped' /\ ConnTyped' /\ TasksTyped' /\ ServeInv' /\ QuietInv'
  BY <1>1 DEF Inv, TimerTyped, LeaseTyped, FlagsTyped, CmdTyped, WorkerTyped,
         LinkTyped, ConnTyped, TasksTyped, ServeInv, QuietInv, InAction, CmdAt
<1> QED
  BY <1>2, <1>3, <1>4, <1>5 DEF Inv

LEMMA RungStep ==
    ASSUME Inv, Rung
    PROVE  Inv'
<1>1. UNCHANGED <<serving, link, bound, current, waiting, sess, expected, attempt,
      media, tasks, control, active, pending, offer, answered, withdrawn, ringing,
      ringThread, timer, joining, created, owner, ownerId, endAsked, transition, cmd,
      worker>>
  BY DEF Rung, MqttAt, ClearPendingId, MqttGo, callVars, timerVars, mqttFrame,
         transportVars, linkVars, connVars
<1>2. LeaseTyped'
  BY <1>1, RoomsApart DEF Inv, LeaseTyped, CmdTyped, CallTyped, MqttTyped, Rung,
         MqttAt, ClearPendingId, MqttGo, CmdType, CmdSteps, MaybeRoom, MqttType
<1>3. FlagsTyped'
  BY <1>1 DEF Inv, FlagsTyped, Rung, MqttAt, ClearPendingId, MqttGo
<1>4. MqttTyped'
  BY <1>1, MaxOffersAssumption, RoomsApart DEF Inv, MqttTyped, CallTyped, TimerTyped,
         Rung, MqttAt, ClearPendingId, MqttGo, MqttType, MaybeRoom, TimerType, Threads
<1>5. /\ CallTyped' /\ TimerTyped' /\ CmdTyped' /\ WorkerTyped' /\ LinkTyped'
      /\ ConnTyped' /\ TasksTyped' /\ OfferInv' /\ ServeInv' /\ QuietInv'
  BY <1>1 DEF Inv, CallTyped, TimerTyped, CmdTyped, WorkerTyped, LinkTyped, ConnTyped,
         TasksTyped, OfferInv, ServeInv, QuietInv, InAction, CmdAt
<1> QED
  BY <1>2, <1>3, <1>4, <1>5 DEF Inv

LEMMA RoomCancelEndsStep ==
    ASSUME Inv, RoomCancelEnds
    PROVE  Inv'
<1>1. UNCHANGED <<serving, bound, tasks, control, active, pending, offer, answered,
      withdrawn, ringing, ringThread, timer, created, owner, ownerId, cancelled, ticket,
      transition, cmd, worker>>
  BY DEF RoomCancelEnds, MqttAt, Unjoin, CallIsActive, HangUp, transportVars,
         EndSession, MqttGo, callVars, ringVars, mqttFrame, ownerVars, linkVars,
         connVars
<1>2. TimerTyped'
  BY <1>1, RoomsApart DEF Inv, TimerTyped, CmdTyped, OfferInv, RoomCancelEnds, MqttAt,
         Unjoin, CallIsActive, HangUp, transportVars, EndSession, MqttGo, linkVars,
         connVars, TimerType, Threads, CmdType, CmdSteps, CmdAt
<1>3. FlagsTyped'
  BY <1>1 DEF Inv, FlagsTyped, RoomCancelEnds, MqttAt, Unjoin, CallIsActive, HangUp,
         transportVars, EndSession, MqttGo, linkVars, connVars
<1>4. MqttTyped'
  BY <1>1, MaxOffersAssumption, RoomsApart DEF Inv, MqttTyped, CallTyped, TimerTyped,
         RoomCancelEnds, MqttAt, Unjoin, CallIsActive, HangUp, transportVars,
         EndSession, MqttGo, linkVars, connVars, MqttType, MaybeRoom, TimerType, Threads
<1>5. LinkTyped'
  BY <1>1, DisconnectTyped, RoomsApart DEF Inv, LinkTyped, CmdTyped, ConnTyped,
         TasksTyped, WorkerTyped, RoomCancelEnds, MqttAt, Unjoin, CallIsActive, HangUp,
         transportVars, EndSession, MqttGo, linkVars, connVars, LinkType, CmdType,
         CmdSteps, WorkerType
<1>6. ConnTyped'
  BY <1>1, HeadTyped, RoomsApart DEF Inv, ConnTyped, CmdTyped, TasksTyped, OfferInv,
         RoomCancelEnds, MqttAt, Unjoin, CallIsActive, HangUp, transportVars,
         EndSession, MqttGo, linkVars, connVars, CmdType, CmdSteps, CmdAt
<1>7. QuietInv'
  BY <1>1, HeadTyped, RoomsApart DEF Inv, QuietInv, ServeInv, ConnTyped, CmdTyped,
         TasksTyped, InAction, RoomCancelEnds, MqttAt, Unjoin, CallIsActive, HangUp,
         transportVars, EndSession, MqttGo, linkVars, connVars, CmdAt, CmdType, CmdSteps
<1>8. /\ CallTyped' /\ LeaseTyped' /\ CmdTyped' /\ WorkerTyped' /\ TasksTyped'
      /\ OfferInv' /\ ServeInv'
  BY <1>1 DEF Inv, CallTyped, LeaseTyped, CmdTyped, WorkerTyped, TasksTyped, OfferInv,
         ServeInv, InAction, CmdAt
<1> QED
  BY <1>2, <1>3, <1>4, <1>5, <1>6, <1>7, <1>8 DEF Inv

LEMMA CallRejectEndsStep ==
    ASSUME Inv, CallRejectEnds
    PROVE  Inv'
<1>1. UNCHANGED <<serving, link, bound, current, waiting, sess, attempt, media, tasks,
      control, active, pending, offer, answered, withdrawn, ringing, ringThread, timer,
      created, owner, ownerId, cancelled, ticket, transition, cmd, worker>>
  BY DEF CallRejectEnds, MqttAt, Unjoin, EndSession, MqttGo, callVars, ringVars,
         mqttFrame, ownerVars, linkVars, connVars
<1>2. TimerTyped'
  BY <1>1, RoomsApart DEF Inv, TimerTyped, CmdTyped, OfferInv, CallRejectEnds, MqttAt,
         Unjoin, EndSession, MqttGo, TimerType, Threads, CmdType, CmdSteps, CmdAt
<1>3. FlagsTyped'
  BY <1>1 DEF Inv, FlagsTyped, CallRejectEnds, MqttAt, Unjoin, EndSession, MqttGo
<1>4. MqttTyped'
  BY <1>1, MaxOffersAssumption, RoomsApart DEF Inv, MqttTyped, CallTyped, TimerTyped,
         CallRejectEnds, MqttAt, Unjoin, EndSession, MqttGo, MqttType, MaybeRoom,
         TimerType, Threads
<1>5. ConnTyped'
  BY <1>1, HeadTyped, RoomsApart DEF Inv, ConnTyped, CmdTyped, TasksTyped, OfferInv,
         CallRejectEnds, MqttAt, Unjoin, EndSession, MqttGo, CmdType, CmdSteps, CmdAt
<1>6. /\ CallTyped' /\ LeaseTyped' /\ CmdTyped' /\ WorkerTyped' /\ LinkTyped'
      /\ TasksTyped' /\ OfferInv' /\ ServeInv' /\ QuietInv'
  BY <1>1 DEF Inv, CallTyped, LeaseTyped, CmdTyped, WorkerTyped, LinkTyped, TasksTyped,
         OfferInv, ServeInv, QuietInv, InAction, CmdAt
<1> QED
  BY <1>2, <1>3, <1>4, <1>5, <1>6 DEF Inv

LEMMA ToldStep ==
    ASSUME Inv, Told
    PROVE  Inv'
<1>1. UNCHANGED <<serving, link, bound, current, waiting, sess, expected, attempt,
      media, tasks, control, active, pending, offer, answered, withdrawn, ringing,
      ringThread, timer, joining, created, owner, ownerId, transition, cmd, worker>>
  BY DEF Told, MqttAt, CancelId, MqttGo, callVars, timerVars, mqttFrame, transportVars,
         linkVars, connVars
<1>2. LeaseTyped'
  BY <1>1, RoomsApart DEF Inv, LeaseTyped, CmdTyped, CallTyped, MqttTyped, Told,
         MqttAt, CancelId, MqttGo, CmdType, CmdSteps, MaybeRoom, MqttType
<1>3. FlagsTyped'
  BY <1>1 DEF Inv, FlagsTyped, Told, MqttAt, CancelId, MqttGo
<1>4. MqttTyped'
  BY <1>1, MaxOffersAssumption, RoomsApart DEF Inv, MqttTyped, CallTyped, TimerTyped,
         Told, MqttAt, CancelId, MqttGo, MqttType, MaybeRoom, TimerType, Threads
<1>5. /\ CallTyped' /\ TimerTyped' /\ CmdTyped' /\ WorkerTyped' /\ LinkTyped'
      /\ ConnTyped' /\ TasksTyped' /\ OfferInv' /\ ServeInv' /\ QuietInv'
  BY <1>1 DEF Inv, CallTyped, TimerTyped, CmdTyped, WorkerTyped, LinkTyped, ConnTyped,
         TasksTyped, OfferInv, ServeInv, QuietInv, InAction, CmdAt
<1> QED
  BY <1>2, <1>3, <1>4, <1>5 DEF Inv

LEMMA AcceptingStep ==
    ASSUME Inv, Accepting
    PROVE  Inv'
<1>1. UNCHANGED <<serving, bound, expected, attempt, control, active, pending, offer,
      answered, withdrawn, ringing, ringThread, timer, joining, created, owner, ownerId,
      cancelled, ticket, endAsked, transition, cmd, mqtt, worker>>
  BY DEF Accepting, WorkerIdle, AcceptTask, sessionVars, connVars, callVars, timerVars,
         arbiterVars, threadVars
<1>2. LinkTyped'
  BY <1>1, DisconnectTyped, RoomsApart DEF Inv, LinkTyped, CmdTyped, ConnTyped,
         TasksTyped, WorkerTyped, Accepting, WorkerIdle, AcceptTask, connVars, LinkType,
         CmdType, CmdSteps, WorkerType
<1>3. ConnTyped'
  BY <1>1, HeadTyped, RoomsApart DEF Inv, ConnTyped, CmdTyped, TasksTyped, OfferInv,
         Accepting, WorkerIdle, AcceptTask, connVars, CmdType, CmdSteps, CmdAt
<1>4. TasksTyped'
  BY <1>1, TaskTyped, HeadTyped, AppendTyped DEF Inv, TasksTyped, Accepting,
         WorkerIdle, AcceptTask, connVars
<1>5. QuietInv'
  BY <1>1, HeadTyped, RoomsApart DEF Inv, QuietInv, ServeInv, ConnTyped, CmdTyped,
         TasksTyped, InAction, Accepting, WorkerIdle, AcceptTask, connVars, CmdAt,
         CmdType, CmdSteps
<1>6. /\ CallTyped' /\ TimerTyped' /\ LeaseTyped' /\ FlagsTyped' /\ CmdTyped'
      /\ WorkerTyped' /\ MqttTyped' /\ OfferInv' /\ ServeInv'
  BY <1>1 DEF Inv, CallTyped, TimerTyped, LeaseTyped, FlagsTyped, CmdTyped,
         WorkerTyped, MqttTyped, OfferInv, ServeInv, InAction, CmdAt
<1> QED
  BY <1>2, <1>3, <1>4, <1>5, <1>6 DEF Inv

LEMMA EndTaskStep ==
    ASSUME Inv, EndTask
    PROVE  Inv'
<1>1. UNCHANGED <<serving, bound, expected, attempt, active, pending, offer, answered,
      withdrawn, timer, created, owner, ownerId, cancelled, ticket, endAsked,
      transition, cmd, mqtt>>
  BY DEF EndTask, WorkerIdle, Ending, LetGo, CancelTimer, timerVars, callVars,
         arbiterVars, workerFrame
<1>2. TimerTyped'
  BY <1>1, RoomsApart DEF Inv, TimerTyped, CmdTyped, OfferInv, EndTask, WorkerIdle,
         Ending, LetGo, CancelTimer, timerVars, TimerType, Threads, CmdType, CmdSteps,
         CmdAt
<1>3. FlagsTyped'
  BY <1>1 DEF Inv, FlagsTyped, EndTask, WorkerIdle, Ending, LetGo, CancelTimer,
         timerVars
<1>4. WorkerTyped'
  <2>1. Head(tasks).room \in Rooms /\ FALSE \in BOOLEAN /\ TRUE \in BOOLEAN
    BY HeadTyped DEF Inv, WorkerIdle, EndTask
  <2>2. [at |-> "lost", room |-> Head(tasks).room, close |-> FALSE] \in WorkerType
    BY <2>1, LostTyped, Zenon
  <2>3. [at |-> "lost", room |-> Head(tasks).room, close |-> TRUE] \in WorkerType
    BY <2>1, LostTyped, Zenon
  <2>4. Ending(FALSE) \/ Ending(TRUE)
    BY DEF EndTask
  <2>5. CASE Ending(FALSE)
    BY <2>2, <2>5, Zenon DEF Ending, Inv, WorkerTyped
  <2>6. CASE Ending(TRUE)
    BY <2>3, <2>6, Zenon DEF Ending, Inv, WorkerTyped
  <2> QED
    BY <2>4, <2>5, <2>6, Zenon
<1>5. LinkTyped'
  BY <1>1, DisconnectTyped, RoomsApart DEF Inv, LinkTyped, CmdTyped, ConnTyped,
         TasksTyped, WorkerTyped, EndTask, WorkerIdle, Ending, LetGo, CancelTimer,
         timerVars, LinkType, CmdType, CmdSteps, WorkerType
<1>6. ConnTyped'
  BY <1>1, HeadTyped, RoomsApart DEF Inv, ConnTyped, CmdTyped, TasksTyped, OfferInv,
         EndTask, WorkerIdle, Ending, LetGo, CancelTimer, timerVars, CmdType, CmdSteps,
         CmdAt
<1>7. TasksTyped'
  BY <1>1, TaskTyped, HeadTyped, AppendTyped DEF Inv, TasksTyped, EndTask, WorkerIdle,
         Ending, LetGo, CancelTimer, timerVars
<1>8. QuietInv'
  BY <1>1, HeadTyped, RoomsApart DEF Inv, QuietInv, ServeInv, ConnTyped, CmdTyped,
         TasksTyped, InAction, EndTask, WorkerIdle, Ending, LetGo, CancelTimer,
         timerVars, CmdAt, CmdType, CmdSteps
<1>9. /\ CallTyped' /\ LeaseTyped' /\ CmdTyped' /\ MqttTyped' /\ OfferInv' /\ ServeInv'
  BY <1>1 DEF Inv, CallTyped, LeaseTyped, CmdTyped, MqttTyped, OfferInv, ServeInv,
         InAction, CmdAt
<1> QED
  BY <1>2, <1>3, <1>4, <1>5, <1>6, <1>7, <1>8, <1>9 DEF Inv

LEMMA CommandTaskStep ==
    ASSUME Inv, CommandTask
    PROVE  Inv'
<1>1. UNCHANGED <<serving, bound, expected, attempt, active, pending, offer, answered,
      withdrawn, timer, created, owner, ownerId, cancelled, ticket, endAsked,
      transition, cmd, mqtt>>
  BY DEF CommandTask, WorkerIdle, Ending, StartMedia, CancelTimer, callVars,
         arbiterVars, workerFrame, linkVars, sessionVars, connVars, LetGo, timerVars,
         threadVars
<1>2. TimerTyped'
  BY <1>1, RoomsApart DEF Inv, TimerTyped, CmdTyped, OfferInv, CommandTask, WorkerIdle,
         Ending, StartMedia, CancelTimer, linkVars, sessionVars, connVars, LetGo,
         timerVars, threadVars, TimerType, Threads, CmdType, CmdSteps, CmdAt
<1>3. FlagsTyped'
  BY <1>1 DEF Inv, FlagsTyped, CommandTask, WorkerIdle, Ending, StartMedia,
         CancelTimer, linkVars, sessionVars, connVars, LetGo, timerVars, threadVars
<1>4. WorkerTyped'
  <2>1. Head(tasks).room \in Rooms /\ FALSE \in BOOLEAN /\ TRUE \in BOOLEAN
    BY HeadTyped DEF Inv, WorkerIdle, CommandTask
  <2>2. [at |-> "lost", room |-> Head(tasks).room, close |-> FALSE] \in WorkerType
    BY <2>1, LostTyped, Zenon
  <2>3. [at |-> "lost", room |-> Head(tasks).room, close |-> TRUE] \in WorkerType
    BY <2>1, LostTyped, Zenon
  <2>4. [at |-> "connected", room |-> Head(tasks).room, close |-> FALSE] \in WorkerType
    BY <2>1, ConnectedTyped, Zenon
  <2>5. CASE Ending(TRUE)
    BY <2>3, <2>5, Zenon DEF Ending, Inv, WorkerTyped
  <2>6. CASE worker' = [at |-> "connected", room |-> Head(tasks).room, close |-> FALSE]
    BY <2>4, <2>6, Zenon DEF WorkerTyped
  <2>7. CASE UNCHANGED worker
    BY <2>7 DEF Inv, WorkerTyped
  <2> QED
    BY <2>5, <2>6, <2>7, Zenon DEF CommandTask, sessionVars, threadVars
<1>5. LinkTyped'
  BY <1>1, DisconnectTyped, RoomsApart DEF Inv, LinkTyped, CmdTyped, ConnTyped,
         TasksTyped, WorkerTyped, CommandTask, WorkerIdle, Ending, StartMedia,
         CancelTimer, linkVars, sessionVars, connVars, LetGo, timerVars, threadVars,
         LinkType, CmdType, CmdSteps, WorkerType
<1>6. ConnTyped'
  BY <1>1, HeadTyped, RoomsApart DEF Inv, ConnTyped, CmdTyped, TasksTyped, OfferInv,
         CommandTask, WorkerIdle, Ending, StartMedia, CancelTimer, linkVars,
         sessionVars, connVars, LetGo, timerVars, threadVars, CmdType, CmdSteps, CmdAt
<1>7. TasksTyped'
  BY <1>1, TaskTyped, HeadTyped, AppendTyped DEF Inv, TasksTyped, CommandTask,
         WorkerIdle, Ending, StartMedia, CancelTimer, linkVars, sessionVars, connVars,
         LetGo, timerVars, threadVars
<1>8. QuietInv'
  BY <1>1, HeadTyped, RoomsApart DEF Inv, QuietInv, ServeInv, ConnTyped, CmdTyped,
         TasksTyped, InAction, CommandTask, WorkerIdle, Ending, StartMedia, CancelTimer,
         linkVars, sessionVars, connVars, LetGo, timerVars, threadVars, CmdAt, CmdType,
         CmdSteps
<1>9. /\ CallTyped' /\ LeaseTyped' /\ CmdTyped' /\ MqttTyped' /\ OfferInv' /\ ServeInv'
  BY <1>1 DEF Inv, CallTyped, LeaseTyped, CmdTyped, MqttTyped, OfferInv, ServeInv,
         InAction, CmdAt
<1> QED
  BY <1>2, <1>3, <1>4, <1>5, <1>6, <1>7, <1>8, <1>9 DEF Inv

LEMMA P2pConnectedStep ==
    ASSUME Inv, P2pConnected
    PROVE  Inv'
<1>1. UNCHANGED <<serving, link, bound, current, waiting, sess, expected, attempt,
      media, tasks, active, pending, offer, answered, withdrawn, ringing, ringThread,
      timer, created, owner, ownerId, cancelled, ticket, endAsked, transition, cmd, mqtt>>
  BY DEF P2pConnected, Unjoin, WorkerRests, callVars, ringVars, arbiterVars,
         workerFrame, linkVars, connVars
<1>2. TimerTyped'
  BY <1>1, RoomsApart DEF Inv, TimerTyped, CmdTyped, OfferInv, P2pConnected, Unjoin,
         WorkerRests, TimerType, Threads, CmdType, CmdSteps, CmdAt
<1>3. WorkerTyped'
  BY <1>1, HeadTyped, RoomsApart DEF Inv, WorkerTyped, TasksTyped, P2pConnected,
         Unjoin, WorkerRests, WorkerType
<1>4. ConnTyped'
  BY <1>1, HeadTyped, RoomsApart DEF Inv, ConnTyped, CmdTyped, TasksTyped, OfferInv,
         P2pConnected, Unjoin, WorkerRests, CmdType, CmdSteps, CmdAt
<1>5. QuietInv'
  BY <1>1, HeadTyped, RoomsApart DEF Inv, QuietInv, ServeInv, ConnTyped, CmdTyped,
         TasksTyped, InAction, P2pConnected, Unjoin, WorkerRests, CmdAt, CmdType,
         CmdSteps
<1>6. /\ CallTyped' /\ LeaseTyped' /\ FlagsTyped' /\ CmdTyped' /\ MqttTyped'
      /\ LinkTyped' /\ TasksTyped' /\ OfferInv' /\ ServeInv'
  BY <1>1 DEF Inv, CallTyped, LeaseTyped, FlagsTyped, CmdTyped, MqttTyped, LinkTyped,
         TasksTyped, OfferInv, ServeInv, InAction, CmdAt
<1> QED
  BY <1>2, <1>3, <1>4, <1>5, <1>6 DEF Inv

LEMMA TransportEndedStep ==
    ASSUME Inv, TransportEnded
    PROVE  Inv'
<1>1. UNCHANGED <<serving, bound, current, waiting, sess, expected, attempt, media,
      tasks, pending, offer, withdrawn, ringing, ringThread, timer, created, owner,
      ownerId, cancelled, ticket, transition, cmd, mqtt>>
  BY DEF TransportEnded, Unjoin, NotActive, WorkerRests, ringVars, ownerVars,
         workerFrame, connVars
<1>2. CallTyped'
  BY <1>1, MaxOffersAssumption, RoomsApart DEF Inv, CallTyped, OfferInv, CmdTyped,
         MqttTyped, TransportEnded, Unjoin, NotActive, WorkerRests, MaybeRoom, CmdAt,
         CmdType, CmdSteps, MqttType
<1>3. TimerTyped'
  BY <1>1, RoomsApart DEF Inv, TimerTyped, CmdTyped, OfferInv, TransportEnded, Unjoin,
         NotActive, WorkerRests, TimerType, Threads, CmdType, CmdSteps, CmdAt
<1>4. FlagsTyped'
  BY <1>1 DEF Inv, FlagsTyped, TransportEnded, Unjoin, NotActive, WorkerRests
<1>5. WorkerTyped'
  BY <1>1, HeadTyped, RoomsApart DEF Inv, WorkerTyped, TasksTyped, TransportEnded,
         Unjoin, NotActive, WorkerRests, WorkerType
<1>6. LinkTyped'
  BY <1>1, DisconnectTyped, RoomsApart DEF Inv, LinkTyped, CmdTyped, ConnTyped,
         TasksTyped, WorkerTyped, TransportEnded, Unjoin, NotActive, WorkerRests,
         LinkType, CmdType, CmdSteps, WorkerType
<1>7. ConnTyped'
  BY <1>1, HeadTyped, RoomsApart DEF Inv, ConnTyped, CmdTyped, TasksTyped, OfferInv,
         TransportEnded, Unjoin, NotActive, WorkerRests, CmdType, CmdSteps, CmdAt
<1>8. OfferInv'
  BY <1>1, MaxOffersAssumption, RoomsApart DEF Inv, OfferInv, CallTyped, CmdTyped,
         MqttTyped, TimerTyped, TransportEnded, Unjoin, NotActive, WorkerRests, CmdAt,
         MaybeRoom, CmdType, CmdSteps, MqttType, TimerType, Threads
<1>9. QuietInv'
  BY <1>1, HeadTyped, RoomsApart DEF Inv, QuietInv, ServeInv, ConnTyped, CmdTyped,
         TasksTyped, InAction, TransportEnded, Unjoin, NotActive, WorkerRests, CmdAt,
         CmdType, CmdSteps
<1>10. /\ LeaseTyped' /\ CmdTyped' /\ MqttTyped' /\ TasksTyped' /\ ServeInv'
  BY <1>1 DEF Inv, LeaseTyped, CmdTyped, MqttTyped, TasksTyped, ServeInv, InAction,
         CmdAt
<1> QED
  BY <1>2, <1>3, <1>4, <1>5, <1>6, <1>7, <1>8, <1>9, <1>10 DEF Inv

LEMMA LifecycleWorkerStep ==
    ASSUME Inv, LifecycleWorker
    PROVE  Inv'
<1>1. UNCHANGED <<link, current, waiting, sess, expected, attempt, media, tasks,
      control, active, pending, offer, answered, withdrawn, ringing, ringThread, timer,
      joining, created, ticket, cmd, mqtt, worker>>
  BY DEF LifecycleWorker, EndOwner, callVars, timerVars, threadVars, Release, connVars
<1>2. LeaseTyped'
  BY <1>1, RoomsApart DEF Inv, LeaseTyped, CmdTyped, CallTyped, MqttTyped,
         LifecycleWorker, EndOwner, Release, CmdType, CmdSteps, MaybeRoom, MqttType
<1>3. FlagsTyped'
  BY <1>1 DEF Inv, FlagsTyped, LifecycleWorker, EndOwner, Release
<1>4. LinkTyped'
  BY <1>1, DisconnectTyped, RoomsApart DEF Inv, LinkTyped, CmdTyped, ConnTyped,
         TasksTyped, WorkerTyped, LifecycleWorker, EndOwner, Release, LinkType, CmdType,
         CmdSteps, WorkerType
<1>5. ServeInv'
  BY <1>1 DEF Inv, ServeInv, CmdTyped, InAction, LifecycleWorker, EndOwner, Release,
         CmdAt, CmdType, CmdSteps
<1>6. QuietInv'
  BY <1>1, HeadTyped, RoomsApart DEF Inv, QuietInv, ServeInv, ConnTyped, CmdTyped,
         TasksTyped, InAction, LifecycleWorker, EndOwner, Release, CmdAt, CmdType,
         CmdSteps
<1>7. /\ CallTyped' /\ TimerTyped' /\ CmdTyped' /\ WorkerTyped' /\ MqttTyped'
      /\ ConnTyped' /\ TasksTyped' /\ OfferInv'
  BY <1>1 DEF Inv, CallTyped, TimerTyped, CmdTyped, WorkerTyped, MqttTyped, ConnTyped,
         TasksTyped, OfferInv, InAction, CmdAt
<1> QED
  BY <1>2, <1>3, <1>4, <1>5, <1>6, <1>7 DEF Inv

LEMMA ServiceHangsUpStep ==
    ASSUME Inv, ServiceHangsUp
    PROVE  Inv'
<1>1. UNCHANGED <<serving, bound, tasks, control, active, pending, offer, answered,
      withdrawn, ringing, ringThread, timer, joining, created, owner, ownerId,
      cancelled, ticket, endAsked, cmd, mqtt, worker>>
  BY DEF ServiceHangsUp, HangUp, callVars, timerVars, threadVars
<1>2. LeaseTyped'
  BY <1>1, RoomsApart DEF Inv, LeaseTyped, CmdTyped, CallTyped, MqttTyped,
         ServiceHangsUp, HangUp, CmdType, CmdSteps, MaybeRoom, MqttType
<1>3. LinkTyped'
  BY <1>1, DisconnectTyped, RoomsApart DEF Inv, LinkTyped, CmdTyped, ConnTyped,
         TasksTyped, WorkerTyped, ServiceHangsUp, HangUp, LinkType, CmdType, CmdSteps,
         WorkerType
<1>4. ConnTyped'
  BY <1>1, HeadTyped, RoomsApart DEF Inv, ConnTyped, CmdTyped, TasksTyped, OfferInv,
         ServiceHangsUp, HangUp, CmdType, CmdSteps, CmdAt
<1>5. ServeInv'
  BY <1>1 DEF Inv, ServeInv, CmdTyped, InAction, ServiceHangsUp, HangUp, CmdAt,
         CmdType, CmdSteps
<1>6. QuietInv'
  BY <1>1, HeadTyped, RoomsApart DEF Inv, QuietInv, ServeInv, ConnTyped, CmdTyped,
         TasksTyped, InAction, ServiceHangsUp, HangUp, CmdAt, CmdType, CmdSteps
<1>7. /\ CallTyped' /\ TimerTyped' /\ FlagsTyped' /\ CmdTyped' /\ WorkerTyped'
      /\ MqttTyped' /\ TasksTyped' /\ OfferInv'
  BY <1>1 DEF Inv, CallTyped, TimerTyped, FlagsTyped, CmdTyped, WorkerTyped, MqttTyped,
         TasksTyped, OfferInv, InAction, CmdAt
<1> QED
  BY <1>2, <1>3, <1>4, <1>5, <1>6, <1>7 DEF Inv

LEMMA ServiceDrainedStep ==
    ASSUME Inv, ServiceDrained
    PROVE  Inv'
<1>1. UNCHANGED <<serving, link, bound, current, waiting, sess, expected, attempt,
      media, tasks, control, active, pending, offer, answered, withdrawn, ringing,
      ringThread, timer, joining, created, owner, ownerId, cancelled, ticket, endAsked,
      cmd, mqtt, worker>>
  BY DEF ServiceDrained, callVars, timerVars, threadVars, transportVars, linkVars,
         connVars
<1>2. LeaseTyped'
  BY <1>1, RoomsApart DEF Inv, LeaseTyped, CmdTyped, CallTyped, MqttTyped,
         ServiceDrained, CmdType, CmdSteps, MaybeRoom, MqttType
<1>3. ServeInv'
  BY <1>1 DEF Inv, ServeInv, CmdTyped, InAction, ServiceDrained, CmdAt, CmdType,
         CmdSteps
<1>4. QuietInv'
  BY <1>1, HeadTyped, RoomsApart DEF Inv, QuietInv, ServeInv, ConnTyped, CmdTyped,
         TasksTyped, InAction, ServiceDrained, CmdAt, CmdType, CmdSteps
<1>5. /\ CallTyped' /\ TimerTyped' /\ FlagsTyped' /\ CmdTyped' /\ WorkerTyped'
      /\ MqttTyped' /\ LinkTyped' /\ ConnTyped' /\ TasksTyped' /\ OfferInv'
  BY <1>1 DEF Inv, CallTyped, TimerTyped, FlagsTyped, CmdTyped, WorkerTyped, MqttTyped,
         LinkTyped, ConnTyped, TasksTyped, OfferInv, InAction, CmdAt
<1> QED
  BY <1>2, <1>3, <1>4, <1>5 DEF Inv

LEMMA TimerStopsStep ==
    ASSUME Inv, NEW r \in Outgoing, TimerStops(r)
    PROVE  Inv'
<1>1. UNCHANGED <<serving, link, bound, current, waiting, sess, expected, attempt,
      media, tasks, control, active, pending, offer, answered, withdrawn, ringing,
      ringThread, joining, created, owner, ownerId, cancelled, ticket, endAsked,
      transition, cmd, mqtt, worker>>
  BY DEF TimerStops, timerFrame, transportVars, callVars, threadVars, linkVars,
         connVars
<1>2. TimerTyped'
  BY <1>1, RoomsApart DEF Inv, TimerTyped, CmdTyped, OfferInv, TimerStops, TimerType,
         Threads, CmdType, CmdSteps, CmdAt
<1>3. /\ CallTyped' /\ LeaseTyped' /\ FlagsTyped' /\ CmdTyped' /\ WorkerTyped'
      /\ MqttTyped' /\ LinkTyped' /\ ConnTyped' /\ TasksTyped' /\ OfferInv' /\ ServeInv'
      /\ QuietInv'
  BY <1>1 DEF Inv, CallTyped, LeaseTyped, FlagsTyped, CmdTyped, WorkerTyped, MqttTyped,
         LinkTyped, ConnTyped, TasksTyped, OfferInv, ServeInv, QuietInv, InAction, CmdAt
<1> QED
  BY <1>2, <1>3 DEF Inv

LEMMA TimerExpiresStep ==
    ASSUME Inv, NEW r \in Outgoing, TimerExpires(r)
    PROVE  Inv'
<1>1. UNCHANGED <<serving, link, bound, current, waiting, sess, expected, attempt,
      media, tasks, control, active, pending, offer, answered, withdrawn, ringing,
      ringThread, joining, created, owner, ownerId, cancelled, ticket, endAsked,
      transition, cmd, mqtt, worker>>
  BY DEF TimerExpires, timerFrame, transportVars, callVars, threadVars, linkVars,
         connVars
<1>2. TimerTyped'
  BY <1>1, RoomsApart DEF Inv, TimerTyped, CmdTyped, OfferInv, TimerExpires, TimerType,
         Threads, CmdType, CmdSteps, CmdAt
<1>3. /\ CallTyped' /\ LeaseTyped' /\ FlagsTyped' /\ CmdTyped' /\ WorkerTyped'
      /\ MqttTyped' /\ LinkTyped' /\ ConnTyped' /\ TasksTyped' /\ OfferInv' /\ ServeInv'
      /\ QuietInv'
  BY <1>1 DEF Inv, CallTyped, LeaseTyped, FlagsTyped, CmdTyped, WorkerTyped, MqttTyped,
         LinkTyped, ConnTyped, TasksTyped, OfferInv, ServeInv, QuietInv, InAction, CmdAt
<1> QED
  BY <1>2, <1>3 DEF Inv

LEMMA TimerClearsStep ==
    ASSUME Inv, NEW r \in Outgoing, TimerClears(r)
    PROVE  Inv'
<1>1. UNCHANGED <<serving, link, bound, current, waiting, sess, attempt, media, tasks,
      control, active, pending, offer, answered, withdrawn, ringing, ringThread,
      joining, created, owner, ownerId, cancelled, ticket, endAsked, transition, cmd,
      mqtt, worker>>
  BY DEF TimerClears, timerFrame, linkVars, connVars, callVars, threadVars
<1>2. TimerTyped'
  BY <1>1, RoomsApart DEF Inv, TimerTyped, CmdTyped, OfferInv, TimerClears, TimerType,
         Threads, CmdType, CmdSteps, CmdAt
<1>3. ConnTyped'
  BY <1>1, HeadTyped, RoomsApart DEF Inv, ConnTyped, CmdTyped, TasksTyped, OfferInv,
         TimerClears, CmdType, CmdSteps, CmdAt
<1>4. /\ CallTyped' /\ LeaseTyped' /\ FlagsTyped' /\ CmdTyped' /\ WorkerTyped'
      /\ MqttTyped' /\ LinkTyped' /\ TasksTyped' /\ OfferInv' /\ ServeInv' /\ QuietInv'
  BY <1>1 DEF Inv, CallTyped, LeaseTyped, FlagsTyped, CmdTyped, WorkerTyped, MqttTyped,
         LinkTyped, TasksTyped, OfferInv, ServeInv, QuietInv, InAction, CmdAt
<1> QED
  BY <1>2, <1>3, <1>4 DEF Inv

LEMMA TimerEndsStep ==
    ASSUME Inv, NEW r \in Outgoing, TimerEnds(r)
    PROVE  Inv'
<1>1. UNCHANGED <<serving, link, bound, current, waiting, sess, expected, attempt,
      media, tasks, control, pending, offer, withdrawn, ringThread, joining, created,
      owner, ownerId, cancelled, ticket, transition, cmd, mqtt, worker>>
  BY DEF TimerEnds, EndSession, threadVars, transportVars, linkVars, connVars
<1>2. CallTyped'
  BY <1>1, MaxOffersAssumption, RoomsApart DEF Inv, CallTyped, OfferInv, CmdTyped,
         MqttTyped, TimerEnds, EndSession, MaybeRoom, CmdAt, CmdType, CmdSteps, MqttType
<1>3. TimerTyped'
  BY <1>1, RoomsApart DEF Inv, TimerTyped, CmdTyped, OfferInv, TimerEnds, EndSession,
         TimerType, Threads, CmdType, CmdSteps, CmdAt
<1>4. FlagsTyped'
  BY <1>1 DEF Inv, FlagsTyped, TimerEnds, EndSession
<1>5. OfferInv'
  BY <1>1, MaxOffersAssumption, RoomsApart DEF Inv, OfferInv, CallTyped, CmdTyped,
         MqttTyped, TimerTyped, TimerEnds, EndSession, CmdAt, MaybeRoom, CmdType,
         CmdSteps, MqttType, TimerType, Threads
<1>6. /\ LeaseTyped' /\ CmdTyped' /\ WorkerTyped' /\ MqttTyped' /\ LinkTyped'
      /\ ConnTyped' /\ TasksTyped' /\ ServeInv' /\ QuietInv'
  BY <1>1 DEF Inv, LeaseTyped, CmdTyped, WorkerTyped, MqttTyped, LinkTyped, ConnTyped,
         TasksTyped, ServeInv, QuietInv, InAction, CmdAt
<1> QED
  BY <1>2, <1>3, <1>4, <1>5, <1>6 DEF Inv

LEMMA PeerConnectsStep ==
    ASSUME Inv, NEW r \in created, PeerConnects(r), UNCHANGED sessionVars
    PROVE  Inv'
<1>0. r \in Rooms
  BY RoomsApart DEF Inv, TimerTyped
<1>1. UNCHANGED <<serving, current, sess, expected, attempt, media, control, active,
      pending, offer, answered, withdrawn, ringing, ringThread, timer, joining, created,
      owner, ownerId, cancelled, ticket, endAsked, transition, cmd, mqtt, worker>>
  BY DEF PeerConnects, Defer, sessionVars, callVars, timerVars, arbiterVars, threadVars
<1>2. LinkTyped'
  BY <1>1, <1>0, DisconnectTyped, RoomsApart DEF Inv, LinkTyped, CmdTyped, ConnTyped,
         TasksTyped, WorkerTyped, PeerConnects, Defer, LinkType, CmdType, CmdSteps,
         WorkerType
<1>3. ConnTyped'
  BY <1>1, <1>0, HeadTyped, RoomsApart DEF Inv, ConnTyped, CmdTyped, TasksTyped,
         OfferInv, PeerConnects, Defer, CmdType, CmdSteps, CmdAt
<1>4. TasksTyped'
  BY <1>1, <1>0, TaskTyped, HeadTyped, AppendTyped DEF Inv, TasksTyped, PeerConnects,
         Defer
<1>5. ServeInv'
  BY <1>1, <1>0 DEF Inv, ServeInv, CmdTyped, InAction, PeerConnects, Defer, CmdAt,
         CmdType, CmdSteps
<1>6. QuietInv'
  BY <1>1, <1>0, HeadTyped, RoomsApart DEF Inv, QuietInv, ServeInv, ConnTyped,
         CmdTyped, TasksTyped, InAction, PeerConnects, Defer, CmdAt, CmdType, CmdSteps
<1>7. /\ CallTyped' /\ TimerTyped' /\ LeaseTyped' /\ FlagsTyped' /\ CmdTyped'
      /\ WorkerTyped' /\ MqttTyped' /\ OfferInv'
  BY <1>1 DEF Inv, CallTyped, TimerTyped, LeaseTyped, FlagsTyped, CmdTyped,
         WorkerTyped, MqttTyped, OfferInv, InAction, CmdAt
<1> QED
  BY <1>2, <1>3, <1>4, <1>5, <1>6, <1>7 DEF Inv

LEMMA PeerNamesRoomStep ==
    ASSUME Inv, NEW r \in created, PeerNamesRoom(r), UNCHANGED sessionVars
    PROVE  Inv'
<1>0. r \in Rooms
  BY RoomsApart DEF Inv, TimerTyped
<1>1. UNCHANGED <<serving, link, bound, current, waiting, sess, expected, attempt,
      media, control, active, pending, offer, answered, withdrawn, ringing, ringThread,
      timer, joining, created, owner, ownerId, cancelled, ticket, endAsked, transition,
      cmd, mqtt, worker>>
  BY DEF PeerNamesRoom, Defer, linkVars, connVars, sessionVars, callVars, timerVars,
         arbiterVars, threadVars
<1>2. TasksTyped'
  BY <1>1, <1>0, TaskTyped, HeadTyped, AppendTyped DEF Inv, TasksTyped, PeerNamesRoom,
         Defer
<1>3. QuietInv'
  BY <1>1, <1>0, HeadTyped, RoomsApart DEF Inv, QuietInv, ServeInv, ConnTyped,
         CmdTyped, TasksTyped, InAction, PeerNamesRoom, Defer, CmdAt, CmdType, CmdSteps
<1>4. /\ CallTyped' /\ TimerTyped' /\ LeaseTyped' /\ FlagsTyped' /\ CmdTyped'
      /\ WorkerTyped' /\ MqttTyped' /\ LinkTyped' /\ ConnTyped' /\ OfferInv'
      /\ ServeInv'
  BY <1>1 DEF Inv, CallTyped, TimerTyped, LeaseTyped, FlagsTyped, CmdTyped,
         WorkerTyped, MqttTyped, LinkTyped, ConnTyped, OfferInv, ServeInv, InAction,
         CmdAt
<1> QED
  BY <1>2, <1>3, <1>4 DEF Inv

LEMMA ConnErrorStep ==
    ASSUME Inv, NEW r \in Rooms, ConnError(r), UNCHANGED sessionVars
    PROVE  Inv'
<1>1. UNCHANGED <<serving, bound, current, waiting, sess, expected, attempt, media,
      control, active, pending, offer, answered, withdrawn, ringing, ringThread, timer,
      joining, created, owner, ownerId, cancelled, ticket, endAsked, transition, cmd,
      mqtt, worker>>
  BY DEF ConnError, DeferIfBound, connVars, Defer, sessionVars, callVars, timerVars,
         arbiterVars, threadVars
<1>2. LinkTyped'
  BY <1>1, DisconnectTyped, RoomsApart DEF Inv, LinkTyped, CmdTyped, ConnTyped,
         TasksTyped, WorkerTyped, ConnError, DeferIfBound, Defer, LinkType, CmdType,
         CmdSteps, WorkerType
<1>3. TasksTyped'
  BY <1>1, TaskTyped, HeadTyped, AppendTyped DEF Inv, TasksTyped, ConnError,
         DeferIfBound, Defer
<1>4. QuietInv'
  BY <1>1, HeadTyped, RoomsApart DEF Inv, QuietInv, ServeInv, ConnTyped, CmdTyped,
         TasksTyped, InAction, ConnError, DeferIfBound, Defer, CmdAt, CmdType, CmdSteps
<1>5. /\ CallTyped' /\ TimerTyped' /\ LeaseTyped' /\ FlagsTyped' /\ CmdTyped'
      /\ WorkerTyped' /\ MqttTyped' /\ ConnTyped' /\ OfferInv' /\ ServeInv'
  BY <1>1 DEF Inv, CallTyped, TimerTyped, LeaseTyped, FlagsTyped, CmdTyped,
         WorkerTyped, MqttTyped, ConnTyped, OfferInv, ServeInv, InAction, CmdAt
<1> QED
  BY <1>2, <1>3, <1>4, <1>5 DEF Inv

LEMMA OnDisconnectedStep ==
    ASSUME Inv, NEW r \in Rooms, OnDisconnected(r), UNCHANGED sessionVars
    PROVE  Inv'
<1>1. UNCHANGED <<serving, current, waiting, sess, expected, attempt, media, control,
      active, pending, offer, answered, withdrawn, ringing, ringThread, timer, joining,
      created, owner, ownerId, cancelled, ticket, endAsked, transition, cmd, mqtt,
      worker>>
  BY DEF OnDisconnected, DeferIfBound, connVars, Defer, sessionVars, callVars,
         timerVars, arbiterVars, threadVars
<1>2. LinkTyped'
  BY <1>1, DisconnectTyped, RoomsApart DEF Inv, LinkTyped, CmdTyped, ConnTyped,
         TasksTyped, WorkerTyped, OnDisconnected, DeferIfBound, Defer, LinkType,
         CmdType, CmdSteps, WorkerType
<1>3. TasksTyped'
  BY <1>1, TaskTyped, HeadTyped, AppendTyped DEF Inv, TasksTyped, OnDisconnected,
         DeferIfBound, Defer
<1>4. ServeInv'
  BY <1>1 DEF Inv, ServeInv, CmdTyped, InAction, OnDisconnected, DeferIfBound, Defer,
         CmdAt, CmdType, CmdSteps
<1>5. QuietInv'
  BY <1>1, HeadTyped, RoomsApart DEF Inv, QuietInv, ServeInv, ConnTyped, CmdTyped,
         TasksTyped, InAction, OnDisconnected, DeferIfBound, Defer, CmdAt, CmdType,
         CmdSteps
<1>6. /\ CallTyped' /\ TimerTyped' /\ LeaseTyped' /\ FlagsTyped' /\ CmdTyped'
      /\ WorkerTyped' /\ MqttTyped' /\ ConnTyped' /\ OfferInv'
  BY <1>1 DEF Inv, CallTyped, TimerTyped, LeaseTyped, FlagsTyped, CmdTyped,
         WorkerTyped, MqttTyped, ConnTyped, OfferInv, InAction, CmdAt
<1> QED
  BY <1>2, <1>3, <1>4, <1>5, <1>6 DEF Inv

LEMMA ConnectedStep ==
    ASSUME Inv, CmdAt("dialing"), Connected(cmd.room), UNCHANGED sessionVars
    PROVE  Inv'
<1>1. UNCHANGED <<serving, current, waiting, sess, expected, media, tasks, control,
      active, pending, offer, answered, withdrawn, ringing, ringThread, timer, joining,
      created, owner, ownerId, cancelled, ticket, endAsked, transition, cmd, mqtt,
      worker>>
  BY DEF Connected, linkVars, connVars, CmdAt, sessionVars, callVars, timerVars,
         arbiterVars, threadVars
<1>2. LinkTyped'
  BY <1>1, DisconnectTyped, RoomsApart DEF Inv, LinkTyped, CmdTyped, ConnTyped,
         TasksTyped, WorkerTyped, Connected, linkVars, CmdAt, LinkType, CmdType,
         CmdSteps, WorkerType, OfferInv
<1>3. ConnTyped'
  BY <1>1, HeadTyped, RoomsApart DEF Inv, ConnTyped, CmdTyped, TasksTyped, OfferInv,
         Connected, linkVars, CmdAt, CmdType, CmdSteps
<1>4. ServeInv'
  BY <1>1 DEF Inv, ServeInv, CmdTyped, InAction, Connected, linkVars, CmdAt, CmdType,
         CmdSteps
<1>5. /\ CallTyped' /\ TimerTyped' /\ LeaseTyped' /\ FlagsTyped' /\ CmdTyped'
      /\ WorkerTyped' /\ MqttTyped' /\ TasksTyped' /\ OfferInv' /\ QuietInv'
  BY <1>1 DEF Inv, CallTyped, TimerTyped, LeaseTyped, FlagsTyped, CmdTyped,
         WorkerTyped, MqttTyped, TasksTyped, OfferInv, QuietInv, InAction, CmdAt
<1> QED
  BY <1>2, <1>3, <1>4, <1>5 DEF Inv

LEMMA MediaEndsStep ==
    ASSUME Inv, MediaEnds, UNCHANGED sessionVars
    PROVE  Inv'
<1>1. UNCHANGED <<serving, bound, current, waiting, sess, expected, attempt, tasks,
      control, active, pending, offer, answered, withdrawn, ringing, ringThread, timer,
      joining, created, owner, ownerId, cancelled, ticket, endAsked, transition, cmd,
      mqtt, worker>>
  BY DEF MediaEnds, connVars, sessionVars, callVars, timerVars, arbiterVars, threadVars
<1>2. LinkTyped'
  BY <1>1, DisconnectTyped, RoomsApart DEF Inv, LinkTyped, CmdTyped, ConnTyped,
         TasksTyped, WorkerTyped, MediaEnds, LinkType, CmdType, CmdSteps, WorkerType
<1>3. ConnTyped'
  BY <1>1, HeadTyped, RoomsApart DEF Inv, ConnTyped, CmdTyped, TasksTyped, OfferInv,
         MediaEnds, CmdType, CmdSteps, CmdAt
<1>4. QuietInv'
  BY <1>1, HeadTyped, RoomsApart DEF Inv, QuietInv, ServeInv, ConnTyped, CmdTyped,
         TasksTyped, InAction, MediaEnds, CmdAt, CmdType, CmdSteps
<1>5. /\ CallTyped' /\ TimerTyped' /\ LeaseTyped' /\ FlagsTyped' /\ CmdTyped'
      /\ WorkerTyped' /\ MqttTyped' /\ TasksTyped' /\ OfferInv' /\ ServeInv'
  BY <1>1 DEF Inv, CallTyped, TimerTyped, LeaseTyped, FlagsTyped, CmdTyped,
         WorkerTyped, MqttTyped, TasksTyped, OfferInv, ServeInv, InAction, CmdAt
<1> QED
  BY <1>2, <1>3, <1>4, <1>5 DEF Inv

LEMMA StutterStep ==
    ASSUME Inv, UNCHANGED vars
    PROVE  Inv'
<1>1. UNCHANGED <<serving, link, bound, current, waiting, sess, expected, attempt,
      media, tasks, control, active, pending, offer, answered, withdrawn, ringing,
      ringThread, timer, joining, created, owner, ownerId, cancelled, ticket, endAsked,
      transition, cmd, mqtt, worker>>
  BY DEF vars, transportVars, linkVars, connVars, sessionVars, callVars, timerVars,
         arbiterVars, threadVars
<1> QED
  BY <1>1 DEF Inv, CallTyped, TimerTyped, LeaseTyped, FlagsTyped, CmdTyped, WorkerTyped,
         MqttTyped, LinkTyped, ConnTyped, TasksTyped, OfferInv, ServeInv, QuietInv, InAction

-----------------------------------------------------------------------------
(* The invariant is inductive. *)

LEMMA InitInv == Init => Inv
<1> SUFFICES ASSUME Init PROVE Inv
  OBVIOUS
<1>1. CallTyped /\ TimerTyped /\ LeaseTyped /\ MqttTyped
  BY MaxOffersAssumption, RoomsApart
  DEF Init, LeaseInit, CallTyped, TimerTyped, LeaseTyped, MqttTyped, MqttType, TimerType,
      MaybeRoom, Threads
<1>2. FlagsTyped
  BY DEF Init, TransportInit, LeaseInit, FlagsTyped
<1>3. CmdTyped
  BY MaxOffersAssumption, RetriesAssumption DEF Init, CmdTyped, CmdType, CmdSteps, MaybeRoom
<1>4. WorkerTyped
  <2>1. \A b \in BOOLEAN : [at |-> "idle", room |-> NoRoom, close |-> b] \in WorkerType
    BY DEF WorkerType, MaybeRoom
  <2>2. FALSE \in BOOLEAN
    OBVIOUS
  <2> QED
    BY <2>1, <2>2, Zenon DEF Init, WorkerTyped
<1>5. LinkTyped /\ ConnTyped
  BY DEF Init, TransportInit, LinkTyped, ConnTyped, LinkType, MaybeRoom
<1>6. TasksTyped
  BY DEF Init, TransportInit, TasksTyped
<1>7. OfferInv
  BY RoomsApart DEF Init, OfferInv
<1>8. ServeInv
  <2>1. owner = "NONE" /\ transition = "free" /\ bound = {} /\ cmd.at = "idle"
    BY DEF Init, TransportInit, LeaseInit
  <2>2. ~serving
    BY DEF Init, TransportInit
  <2> QED
    BY <2>1, <2>2 DEF ServeInv, InAction
<1>9. QuietInv
  BY DEF Init, TransportInit, QuietInv
<1> QED
  BY <1>1, <1>2, <1>3, <1>4, <1>5, <1>6, <1>7, <1>8, <1>9 DEF Inv

LEMMA NextInv == Inv /\ [Next]_vars => Inv'
<1> SUFFICES ASSUME Inv, [Next]_vars PROVE Inv'
  OBVIOUS
<1>1. CASE Call
  BY <1>1, DoCallStep, BeginCallStep, RequestRoomStep, ResponseStep,
     SetExpectedRoomStep, StartRingTimerStep
  DEF Call
<1>2. CASE Accept
  BY <1>2, DoAcceptStep, DeviceInfoStep, BeginAcceptStep, RunActionStep, ActivateStep,
     ConnectStep, DialCancelledStep, DialAgainStep, DialFailsStep, DialWonStep,
     DialSucceedsStep, SubscribePeerStep, ConnectionLostStep, StartCallStep,
     CallStartedStep, ActionEndsStep
  DEF Accept
<1>3. CASE Other
  BY <1>3, HangupStep, OnConnectFailedStep, HangUpCallStep, CancelStep, CancelCallStep,
     EndCallStep, FinishStep, FinishedStep, RejectStep, ExpirePendingStep,
     DropTicketStep
  DEF Other
<1>4. CASE Message
  BY <1>4, CallIncomingStep, RoomCancelStep, CallRejectStep DEF Message
<1>5. CASE Handling
  BY <1>5, OnCallIncomingStep, RungStep, RoomCancelEndsStep, CallRejectEndsStep,
     ToldStep
  DEF Handling
<1>6. CASE Worker
  BY <1>6, AcceptingStep, EndTaskStep, CommandTaskStep, P2pConnectedStep,
     TransportEndedStep
  DEF Worker
<1>7. CASE Arbiter
  BY <1>7, LifecycleWorkerStep, ServiceHangsUpStep, ServiceDrainedStep DEF Arbiter
<1>8. CASE \E r \in Outgoing : RingTimer(r)
  BY <1>8, TimerStopsStep, TimerExpiresStep, TimerClearsStep, TimerEndsStep DEF RingTimer
<1>9. CASE Sdk /\ UNCHANGED sessionVars
  BY <1>9, PeerConnectsStep, PeerNamesRoomStep, ConnErrorStep, OnDisconnectedStep,
     ConnectedStep, MediaEndsStep DEF Sdk
<1>10. CASE UNCHANGED vars
  BY <1>10, StutterStep
<1> QED
  BY <1>1, <1>2, <1>3, <1>4, <1>5, <1>6, <1>7, <1>8, <1>9, <1>10 DEF Next

-----------------------------------------------------------------------------
(* Who watches over a held session. *)

\* For which call the session is held, by the phases of the command thread.
HeldInv ==
    owner = "HELD" =>
        /\ ownerId \in Incoming \cup {NoRoom}
        /\ ownerId = NoRoom => active \notin Incoming
        /\ cmd.at \in {"request", "response"} => ownerId = NoRoom
        /\ cmd.at = "run" =>
               /\ ownerId \in Incoming
               /\ offer <= 1 => ownerId = cmd.room /\ (cancelled => endAsked)
        /\ InAction => ownerId \in Incoming /\ ownerId = cmd.room

\* What the command thread knows of the active call and of the one that rings.
HandInv ==
    /\ cmd.at \in {"begin", "request", "response"} => active = NoRoom
    /\ cmd.at \in {"expect", "arm"} => active \in {NoRoom, cmd.room}
    /\ cmd.at \in {"info", "beginAccept", "run"} => offer # 0
    /\ cmd.at \in {"info", "beginAccept"} /\ offer <= 1 /\ pending # NoRoom
           => pending = cmd.room
    /\ cmd.at = "run" /\ mqtt.at = "rung" => pending # NoRoom

\* A ring timer that runs is the session's or is being joined; and where a
\* thread is while it joins one.
JoinInv ==
    /\ \A r \in Outgoing : timer[r] # "none" =>
           \/ r = ringThread \/ joining["cmd"] = r \/ joining["mqtt"] = r
           \/ joining["worker"] = r
    /\ joining["cmd"] # NoRoom
           => cmd.at \in {"arm", "lost", "started", "hangingUp", "cancelling"}
    /\ joining["mqtt"] # NoRoom => mqtt.at \in {"hangs", "rejected"}
    /\ joining["worker"] # NoRoom => worker.at \in {"lost", "connected"}
    /\ cmd.at = "arm" => ringThread = NoRoom
    /\ worker.at \in {"connected", "lost"} => control = "worker"
    /\ cmd.at = "started" => control = "cmd"

\* A connection that is announced is still to be accepted; one of a call
\* placed here is up, or the worker has still to hear of its end.
Has(q, t) == \E k \in DOMAIN q : q[k] = t
EndsLast(q, r) ==
    \E k \in DOMAIN q :
        /\ q[k] = Task("finish", r)
        /\ \A j \in DOMAIN q : q[j] = Task("accept", r) => j < k
Up(r) == r \in bound /\ link[r] # "none"
UpInv ==
    /\ owner = "HELD" /\ waiting # NoRoom => Has(tasks, Task("accept", waiting))
    /\ owner = "HELD" /\ ownerId = NoRoom =>
           /\ current # NoRoom => Up(current) \/ Has(tasks, Task("finish", current))
           /\ waiting # NoRoom => Up(waiting) \/ EndsLast(tasks, waiting)

\* Somebody is about to end the session.
Closing ==
    \/ endAsked \/ cmd.at \in {"hangingUp", "cancelling", "hungUp"}
    \/ mqtt.at \in {"hangs", "rejected"}

\* What a held session has: the call it is for, and who watches over it.
WatchInv ==
    owner = "HELD" =>
        /\ ownerId # NoRoom =>
               \/ active = ownerId \/ offer > 1 \/ Closing
               \/ cmd.at \in {"run", "activate", "lost", "actionFailed"}
        /\ ownerId = NoRoom =>
               active # NoRoom \/ Closing \/ cmd.at \in {"request", "response"}
        /\ ownerId = NoRoom /\ active # NoRoom =>
               \/ Rings(active) \/ Closing \/ worker.at = "lost" \/ current # NoRoom
               \/ cmd.at \in {"expect", "arm"}
        /\ ownerId = NoRoom /\ worker.at = "connected" => current # NoRoom

HeldInvs == HeldInv /\ HandInv /\ JoinInv /\ UpInv /\ WatchInv

-----------------------------------------------------------------------------
(* The helpers. *)

LEMMA HasTail ==
    ASSUME NEW q \in Seq(TaskType), q # <<>>, NEW t, Has(q, t), Head(q) # t
    PROVE  Has(Tail(q), t)
<1>1. PICK k \in DOMAIN q : q[k] = t
  BY DEF Has
<1>2. k \in 2..Len(q) /\ Len(Tail(q)) = Len(q) - 1 /\ Len(q) \in Nat
  BY <1>1, HeadTailProperties
<1>3. k - 1 \in DOMAIN Tail(q) /\ Tail(q)[k - 1] = t
  BY <1>1, <1>2
<1> QED
  BY <1>3 DEF Has

LEMMA EndsLastTail ==
    ASSUME NEW q \in Seq(TaskType), q # <<>>, NEW r, EndsLast(q, r),
           Head(q) # Task("finish", r) \/ Has(q, Task("accept", r))
    PROVE  EndsLast(Tail(q), r)
<1>1. PICK k \in DOMAIN q : /\ q[k] = Task("finish", r)
                            /\ \A j \in DOMAIN q : q[j] = Task("accept", r) => j < k
  BY DEF EndsLast
<1>2. k # 1
  BY <1>1 DEF Has, Task
<1>3. k \in 2..Len(q) /\ Len(Tail(q)) = Len(q) - 1 /\ Len(q) \in Nat
  BY <1>1, <1>2, HeadTailProperties
<1>4. k - 1 \in DOMAIN Tail(q) /\ Tail(q)[k - 1] = Task("finish", r)
  BY <1>1, <1>3
<1>5. \A j \in DOMAIN Tail(q) : Tail(q)[j] = Task("accept", r) => j < k - 1
  <2>1. SUFFICES ASSUME NEW j \in DOMAIN Tail(q), Tail(q)[j] = Task("accept", r)
                 PROVE  j < k - 1
    OBVIOUS
  <2>2. j + 1 \in DOMAIN q /\ q[j + 1] = Task("accept", r) /\ j \in Int
    BY <2>1, <1>3
  <2>3. j + 1 < k
    BY <1>1, <2>2
  <2> QED
    BY <1>3, <2>2, <2>3
<1> QED
  BY <1>4, <1>5 DEF EndsLast

LEMMA HasAppend ==
    ASSUME NEW q \in Seq(TaskType), NEW x
    PROVE  Has(Append(q, x), x) /\ \A t : Has(q, t) => Has(Append(q, x), t)
<1>1. Len(q) + 1 \in DOMAIN Append(q, x) /\ Append(q, x)[Len(q) + 1] = x
  BY LenProperties
<1>2. \A k \in DOMAIN q : k \in DOMAIN Append(q, x) /\ Append(q, x)[k] = q[k]
  BY LenProperties
<1> QED
  BY <1>1, <1>2 DEF Has

LEMMA EndsLastAppend ==
    ASSUME NEW q \in Seq(TaskType), NEW x, NEW r
    PROVE  /\ x = Task("finish", r) => EndsLast(Append(q, x), r)
           /\ EndsLast(q, r) /\ x # Task("accept", r) => EndsLast(Append(q, x), r)
<1>1. DOMAIN q = 1..Len(q) /\ DOMAIN Append(q, x) = 1..(Len(q) + 1) /\ Len(q) \in Nat
  BY LenProperties
<1>2. Append(q, x)[Len(q) + 1] = x /\ \A k \in DOMAIN q : Append(q, x)[k] = q[k]
  BY <1>1
<1>3. ASSUME x = Task("finish", r) PROVE EndsLast(Append(q, x), r)
  <2>1. x # Task("accept", r)
    BY <1>3 DEF Task
  <2>2. \A j \in DOMAIN Append(q, x) : Append(q, x)[j] = Task("accept", r) => j < Len(q) + 1
    BY <1>1, <1>2, <2>1
  <2> QED
    BY <1>1, <1>2, <1>3, <2>2 DEF EndsLast
<1>4. ASSUME EndsLast(q, r), x # Task("accept", r) PROVE EndsLast(Append(q, x), r)
  <2>1. PICK k \in DOMAIN q : /\ q[k] = Task("finish", r)
                              /\ \A j \in DOMAIN q : q[j] = Task("accept", r) => j < k
    BY <1>4 DEF EndsLast
  <2>2. k \in DOMAIN Append(q, x) /\ Append(q, x)[k] = Task("finish", r)
    BY <2>1, <1>1, <1>2
  <2>3. \A j \in DOMAIN Append(q, x) : Append(q, x)[j] = Task("accept", r) => j < k
    BY <1>1, <1>2, <1>4, <2>1
  <2> QED
    BY <2>2, <2>3 DEF EndsLast
<1> QED
  BY <1>3, <1>4

LEMMA EndsLastHas ==
    ASSUME NEW q, NEW r, EndsLast(q, r) PROVE Has(q, Task("finish", r))
BY DEF EndsLast, Has

LEMMA DisconnectUp ==
    ASSUME NEW l \in LinkType, NEW x
    PROVE  \A r \in Rooms : l[r] # "none" => Disconnect(l, x)[r] # "none"
BY DEF Disconnect, LinkType

LEMMA DoApart ==
    /\ \A r, s : /\ Task("accept", r) # Task("finish", s) /\ Task("accept", r) # Task("command", s)
                 /\ Task("accept", r) # Task("disconnect", s)
                 /\ Task("finish", r) # Task("command", s) /\ Task("finish", r) # Task("disconnect", s)
    /\ \A do, r, s : Task(do, r) = Task(do, s) => r = s
    /\ \A do, r : Task(do, r).do = do /\ Task(do, r).room = r
BY DEF Task

LEMMA HeadTask == ASSUME TasksTyped, tasks # <<>>
                  PROVE  Head(tasks) = Task(Head(tasks).do, Head(tasks).room)
<1>1. Head(tasks) \in TaskType
  BY HeadTyped
<1> QED
  BY <1>1 DEF TaskType, Task

\* A step that leaves the call's connections and the tasks alone, and no link
\* becomes "none".
LEMMA UpKept ==
    ASSUME Inv, UpInv, UNCHANGED <<waiting, current, owner, ownerId, tasks>>,
           \A r \in Rooms : Up(r) => r \in bound' /\ link'[r] # "none"
    PROVE  UpInv'
<1>1. current \in Rooms \cup {NoRoom} /\ waiting \in Rooms \cup {NoRoom}
  BY DEF Inv, ConnTyped, MaybeRoom
<1>2. \A r \in Rooms : Up(r) => Up(r)'
  BY DEF Up
<1> QED
  BY <1>1, <1>2 DEF UpInv

\* Who asks for the end of a session that is held, asks.
LEMMA Asks == ASSUME EndSession, Inv PROVE (owner = "HELD" => endAsked') /\ (endAsked => endAsked')
BY Zenon DEF EndSession


\* The connection whose end the worker has learned of is the call's no more.
LEMMA EndingUp ==
    ASSUME Inv, HeldInvs, NEW b \in BOOLEAN, Ending(b), tasks # <<>>,
           Head(tasks).do \in {"finish", "disconnect", "command"},
           UNCHANGED <<owner, ownerId, bound>>
    PROVE  UpInv'
<1> DEFINE r == Head(tasks).room
<1>1. tasks \in Seq(TaskType) /\ link \in LinkType /\ r \in Rooms
  BY HeadTyped DEF Inv, TasksTyped, LinkTyped, TaskType
<1>2. tasks' = Tail(tasks) /\ Head(tasks) = Task(Head(tasks).do, r)
  BY HeadTask DEF Ending, Inv
<1>3. /\ \A s : Head(tasks) # Task("accept", s)
      /\ \A s : s # r => Head(tasks) # Task("finish", s)
  BY <1>2, DoApart
<1>4. \A s : Has(tasks, Task("accept", s)) => Has(tasks', Task("accept", s))
  BY <1>1, <1>2, <1>3, HasTail
<1>5. \A s : s # r /\ Has(tasks, Task("finish", s)) => Has(tasks', Task("finish", s))
  BY <1>1, <1>2, <1>3, HasTail
<1>6. \A s : EndsLast(tasks, s) /\ (s # r \/ Has(tasks, Task("accept", s)))
             => EndsLast(tasks', s)
  BY <1>1, <1>2, <1>3, EndsLastTail
<1>7. \A s \in Rooms : Up(s) => s \in bound' /\ link'[s] # "none"
  <2>1. link' = link \/ \E x : link' = Disconnect(link, x)
    BY DEF Ending
  <2> QED
    BY <1>1, <2>1, DisconnectUp DEF Up
<1>8. current \in Rooms \cup {NoRoom} /\ waiting \in Rooms \cup {NoRoom}
  BY DEF Inv, ConnTyped, MaybeRoom
<1>9. \/ current = r /\ current' = NoRoom /\ waiting' = waiting
      \/ current # r /\ current' = current /\ waiting' \in {waiting, NoRoom}
         /\ (waiting' # NoRoom => waiting # r)
  BY DEF Ending, LetGo
<1>10. owner' = "HELD" /\ waiting' # NoRoom => Has(tasks', Task("accept", waiting'))
  BY <1>4, <1>9 DEF HeldInvs, UpInv
<1>11. ASSUME owner' = "HELD", ownerId' = NoRoom, current' # NoRoom
       PROVE  Up(current)' \/ Has(tasks', Task("finish", current'))
  BY <1>5, <1>7, <1>8, <1>9, <1>11 DEF HeldInvs, UpInv, Up
<1>12. ASSUME owner' = "HELD", ownerId' = NoRoom, waiting' # NoRoom
       PROVE  Up(waiting)' \/ EndsLast(tasks', waiting')
  <2>1. waiting' = waiting /\ waiting \in Rooms
    BY <1>8, <1>9, <1>12
  <2>2. Has(tasks, Task("accept", waiting)) /\ (Up(waiting) \/ EndsLast(tasks, waiting))
    BY <1>12, <2>1 DEF HeldInvs, UpInv
  <2>3. CASE Up(waiting)
    BY <1>7, <2>1, <2>3 DEF Up
  <2>4. CASE EndsLast(tasks, waiting)
    BY <1>6, <2>1, <2>2, <2>4
  <2> QED
    BY <2>2, <2>3, <2>4
<1> QED
  BY <1>10, <1>11, <1>12 DEF UpInv

\* The command thread has told the ring timer to stop, and joins it.
LEMMA CancelsHeld ==
    ASSUME Inv, HeldInvs, CancelTimer("cmd"), joining["cmd"] = NoRoom,
           UNCHANGED <<link, bound, current, waiting, tasks, control, active, pending, offer,
                       owner, ownerId, cancelled, endAsked, mqtt, worker>>,
           cmd.at # "started", cmd'.at \in {"hangingUp", "cancelling"}, cmd'.room = cmd.room,
           InAction' <=> InAction
    PROVE  HeldInvs'
<1>1. HeldInv' /\ HandInv'
  BY DEF HeldInvs, HeldInv, HandInv
<1>2. JoinInv'
  BY DEF HeldInvs, JoinInv, CancelTimer, Inv, TimerTyped, Threads
<1>3. UpInv' /\ WatchInv'
  BY DEF HeldInvs, UpInv, WatchInv, Up, Has, EndsLast, Closing
<1> QED
  BY <1>1, <1>2, <1>3 DEF HeldInvs

LEMMA DoCallHeld ==
    ASSUME Inv, HeldInvs, DoCall
    PROVE  HeldInvs'
<1>1. UNCHANGED <<serving, link, bound, current, waiting, sess, expected, attempt,
      media, tasks, control, active, pending, offer, answered, withdrawn, ringing,
      ringThread, timer, joining, created, owner, ownerId, cancelled, ticket, endAsked,
      transition, mqtt, worker>>
  BY DEF DoCall, User, CmdGo, callVars, timerVars, arbiterVars, cmdFrame, transportVars,
         CmdAt, CmdIdle, linkVars, connVars
<1>2. HeldInv'
  BY <1>1, RoomsApart DEF
     HeldInvs, HeldInv, Inv, OfferInv, CmdTyped, CmdType, CmdSteps, LeaseTyped,
     CallTyped, ServeInv, InAction, HandInv, DoCall, User, CmdGo, callVars, timerVars,
     arbiterVars, cmdFrame, transportVars, CmdAt, linkVars, connVars, CmdIdle
<1>3. HandInv'
  BY <1>1, RoomsApart DEF
     HeldInvs, HandInv, Inv, OfferInv, CmdTyped, CmdType, CmdSteps, MqttTyped, MqttType,
     CallTyped, DoCall, User, CmdGo, callVars, timerVars, arbiterVars, cmdFrame,
     transportVars, CmdAt, linkVars, connVars, CmdIdle
<1>4. JoinInv'
  BY <1>1, RoomsApart DEF
     HeldInvs, JoinInv, Inv, TimerTyped, TimerType, CmdTyped, CmdType, CmdSteps,
     MqttTyped, MqttType, WorkerTyped, WorkerType, Threads, Joined, MaybeRoom, DoCall,
     User, CmdGo, callVars, timerVars, arbiterVars, cmdFrame, transportVars, CmdAt,
     linkVars, connVars, CmdIdle
<1>5. WatchInv'
  BY <1>1, RoomsApart DEF
     HeldInvs, WatchInv, Inv, ServeInv, QuietInv, CmdTyped, CmdType, CmdSteps,
     CallTyped, Closing, Rings, InAction, HeldInv, HandInv, JoinInv, OfferInv,
     LeaseTyped, DoCall, User, CmdGo, callVars, timerVars, arbiterVars, cmdFrame,
     transportVars, CmdAt, linkVars, connVars, CmdIdle
<1>6. UpInv'
  BY <1>1 DEF HeldInvs, UpInv, EndsLast, Has, Up
<1> QED
  BY <1>2, <1>3, <1>4, <1>5, <1>6 DEF HeldInvs

LEMMA BeginCallHeld ==
    ASSUME Inv, HeldInvs, BeginCall
    PROVE  HeldInvs'
<1>1. UNCHANGED <<link, bound, current, waiting, sess, expected, attempt, media, tasks,
      control, active, pending, offer, answered, withdrawn, ringing, ringThread, timer,
      joining, created, ticket, transition, mqtt, worker>>
  BY DEF BeginCall, CmdAt, BeginSession, CmdGo, callVars, timerVars, cmdFrame, linkVars,
         connVars, Hold, CmdIdle
<1>2. HeldInv'
  BY <1>1, RoomsApart DEF
     HeldInvs, HeldInv, Inv, OfferInv, CmdTyped, CmdType, CmdSteps, LeaseTyped,
     CallTyped, ServeInv, InAction, HandInv, BeginCall, CmdAt, BeginSession, CmdGo,
     callVars, timerVars, cmdFrame, linkVars, connVars, Hold, CmdIdle
<1>3. HandInv'
  BY <1>1, RoomsApart DEF
     HeldInvs, HandInv, Inv, OfferInv, CmdTyped, CmdType, CmdSteps, MqttTyped, MqttType,
     CallTyped, BeginCall, CmdAt, BeginSession, CmdGo, callVars, timerVars, cmdFrame,
     linkVars, connVars, Hold, CmdIdle
<1>4. JoinInv'
  BY <1>1, RoomsApart DEF
     HeldInvs, JoinInv, Inv, TimerTyped, TimerType, CmdTyped, CmdType, CmdSteps,
     MqttTyped, MqttType, WorkerTyped, WorkerType, Threads, Joined, MaybeRoom,
     BeginCall, CmdAt, BeginSession, CmdGo, callVars, timerVars, cmdFrame, linkVars,
     connVars, Hold, CmdIdle
<1>5. UpInv'
  BY <1>1, RoomsApart DEF
     HeldInvs, UpInv, Inv, ServeInv, QuietInv, LinkTyped, LinkType, ConnTyped, Up, Has,
     EndsLast, HeldInv, InAction, BeginCall, CmdAt, BeginSession, CmdGo, callVars,
     timerVars, cmdFrame, linkVars, connVars, Hold, CmdIdle
<1>6. WatchInv'
  BY <1>1, RoomsApart DEF
     HeldInvs, WatchInv, Inv, ServeInv, QuietInv, CmdTyped, CmdType, CmdSteps,
     CallTyped, Closing, Rings, InAction, HeldInv, HandInv, JoinInv, OfferInv,
     LeaseTyped, BeginCall, CmdAt, BeginSession, CmdGo, callVars, timerVars, cmdFrame,
     linkVars, connVars, Hold, CmdIdle
<1> QED
  BY <1>2, <1>3, <1>4, <1>5, <1>6 DEF HeldInvs

LEMMA RequestRoomHeld ==
    ASSUME Inv, HeldInvs, RequestRoom
    PROVE  HeldInvs'
<1>a. /\ cmd.at = "request"
      /\ UNCHANGED <<callVars, timerVars, arbiterVars, mqtt, worker, transportVars>>
  BY Zenon DEF RequestRoom, CmdAt
<1>1. UNCHANGED <<link, bound, current, waiting, tasks, control, active, pending, offer,
      ringing, ringThread, timer, joining, owner, ownerId, cancelled, endAsked, mqtt,
      worker>>
  BY <1>a DEF callVars, timerVars, arbiterVars, transportVars, linkVars, connVars
<1>2. cmd'.at = "response"
  <2>1. CASE \E r \in Outgoing \ created : cmd' = [cmd EXCEPT !.at = "response", !.room = r]
    <3>1. PICK r \in Outgoing : cmd' = [cmd EXCEPT !.at = "response", !.room = r]
      BY <2>1, Zenon
    <3> QED
      BY <3>1 DEF Inv, CmdTyped, CmdType
  <2>2. CASE CmdGo("response")
    BY <2>2 DEF CmdGo, Inv, CmdTyped, CmdType
  <2> QED
    BY <2>1, <2>2, Zenon DEF RequestRoom
<1>3. HeldInv' /\ HandInv' /\ JoinInv'
  BY <1>1, <1>2, <1>a DEF HeldInvs, HeldInv, HandInv, JoinInv, InAction
<1>4. UpInv' /\ WatchInv'
  BY <1>1, <1>2, <1>a DEF HeldInvs, UpInv, WatchInv, Up, Has, EndsLast, Closing, Rings
<1> QED
  BY <1>3, <1>4 DEF HeldInvs

LEMMA ResponseHeld ==
    ASSUME Inv, HeldInvs, Response
    PROVE  HeldInvs'
<1>1. UNCHANGED <<serving, link, bound, current, waiting, sess, expected, attempt,
      media, tasks, control, pending, offer, answered, withdrawn, ringing, ringThread,
      timer, joining, created, owner, ownerId, cancelled, ticket, transition, mqtt,
      worker>>
  BY DEF Response, CmdAt, CmdGo, EndSession, timerVars, ownerVars, cmdFrame,
         transportVars, CmdIdle, linkVars, connVars
<1>2. HeldInv'
  BY <1>1, RoomsApart DEF
     HeldInvs, HeldInv, Inv, OfferInv, CmdTyped, CmdType, CmdSteps, LeaseTyped,
     CallTyped, ServeInv, InAction, HandInv, Response, CmdAt, CmdGo, EndSession,
     timerVars, ownerVars, cmdFrame, transportVars, linkVars, connVars, CmdIdle
<1>3. HandInv'
  BY <1>1, RoomsApart DEF
     HeldInvs, HandInv, Inv, OfferInv, CmdTyped, CmdType, CmdSteps, MqttTyped, MqttType,
     CallTyped, Response, CmdAt, CmdGo, EndSession, timerVars, ownerVars, cmdFrame,
     transportVars, linkVars, connVars, CmdIdle
<1>4. JoinInv'
  BY <1>1, RoomsApart DEF
     HeldInvs, JoinInv, Inv, TimerTyped, TimerType, CmdTyped, CmdType, CmdSteps,
     MqttTyped, MqttType, WorkerTyped, WorkerType, Threads, Joined, MaybeRoom, Response,
     CmdAt, CmdGo, EndSession, timerVars, ownerVars, cmdFrame, transportVars, linkVars,
     connVars, CmdIdle
<1>5. WatchInv'
  <2>1. cmd.at = "response" /\ (owner = "HELD" => ownerId = NoRoom)
    BY DEF Response, CmdAt, HeldInvs, HeldInv
  <2>2. \/ active' # NoRoom /\ cmd'.at = "expect" /\ UNCHANGED endAsked
        \/ UNCHANGED active /\ (owner = "HELD" => endAsked')
    <3>1. CASE EndSession /\ UNCHANGED active
      BY <3>1, Asks
    <3>2. CASE cmd.room # NoRoom /\ active' = cmd.room /\ CmdGo("expect") /\ UNCHANGED endAsked
      BY <3>2 DEF CmdGo, Inv, CmdTyped, CmdType
    <3> QED
      BY <3>1, <3>2 DEF Response
  <2> QED
    BY <1>1, <2>1, <2>2 DEF HeldInvs, WatchInv, Closing, Rings
<1>6. UpInv'
  BY <1>1 DEF HeldInvs, UpInv, EndsLast, Has, Up
<1> QED
  BY <1>2, <1>3, <1>4, <1>5, <1>6 DEF HeldInvs

LEMMA SetExpectedRoomHeld ==
    ASSUME Inv, HeldInvs, SetExpectedRoom
    PROVE  HeldInvs'
<1>1. UNCHANGED <<serving, link, bound, current, waiting, sess, attempt, media, tasks,
      control, active, pending, offer, answered, withdrawn, timer, created, owner,
      ownerId, cancelled, ticket, endAsked, transition, mqtt, worker>>
  BY DEF SetExpectedRoom, CmdAt, CancelTimer, CmdGo, callVars, arbiterVars, cmdFrame,
         linkVars, connVars, CmdIdle
<1>2. HeldInv'
  BY <1>1, RoomsApart DEF
     HeldInvs, HeldInv, Inv, OfferInv, CmdTyped, CmdType, CmdSteps, LeaseTyped,
     CallTyped, ServeInv, InAction, HandInv, SetExpectedRoom, CmdAt, CancelTimer, CmdGo,
     callVars, arbiterVars, cmdFrame, linkVars, connVars, CmdIdle
<1>3. HandInv'
  BY <1>1, RoomsApart DEF
     HeldInvs, HandInv, Inv, OfferInv, CmdTyped, CmdType, CmdSteps, MqttTyped, MqttType,
     CallTyped, SetExpectedRoom, CmdAt, CancelTimer, CmdGo, callVars, arbiterVars,
     cmdFrame, linkVars, connVars, CmdIdle
<1>4. JoinInv'
  BY <1>1, RoomsApart DEF
     HeldInvs, JoinInv, Inv, TimerTyped, TimerType, CmdTyped, CmdType, CmdSteps,
     MqttTyped, MqttType, WorkerTyped, WorkerType, Threads, Joined, MaybeRoom,
     SetExpectedRoom, CmdAt, CancelTimer, CmdGo, callVars, arbiterVars, cmdFrame,
     linkVars, connVars, CmdIdle
<1>5. WatchInv'
  BY <1>1, RoomsApart DEF
     HeldInvs, WatchInv, Inv, ServeInv, QuietInv, CmdTyped, CmdType, CmdSteps,
     CallTyped, Closing, Rings, InAction, HeldInv, HandInv, JoinInv, OfferInv,
     LeaseTyped, SetExpectedRoom, CmdAt, CancelTimer, CmdGo, callVars, arbiterVars,
     cmdFrame, linkVars, connVars, CmdIdle
<1>6. UpInv'
  BY <1>1 DEF HeldInvs, UpInv, EndsLast, Has, Up
<1> QED
  BY <1>2, <1>3, <1>4, <1>5, <1>6 DEF HeldInvs

LEMMA StartRingTimerHeld ==
    ASSUME Inv, HeldInvs, StartRingTimer
    PROVE  HeldInvs'
<1>1. UNCHANGED <<serving, link, bound, current, waiting, sess, expected, attempt,
      media, tasks, control, active, pending, offer, answered, withdrawn, created,
      owner, ownerId, cancelled, ticket, endAsked, transition, mqtt, worker>>
  BY DEF StartRingTimer, CmdAt, CreateTimer, Unjoin, CmdGo, callVars, arbiterVars,
         cmdFrame, transportVars, CmdIdle, linkVars, connVars
<1>2. HeldInv'
  BY <1>1, RoomsApart DEF
     HeldInvs, HeldInv, Inv, OfferInv, CmdTyped, CmdType, CmdSteps, LeaseTyped,
     CallTyped, ServeInv, InAction, HandInv, StartRingTimer, CmdAt, CreateTimer, Unjoin,
     CmdGo, callVars, arbiterVars, cmdFrame, transportVars, linkVars, connVars, CmdIdle
<1>3. HandInv'
  BY <1>1, RoomsApart DEF
     HeldInvs, HandInv, Inv, OfferInv, CmdTyped, CmdType, CmdSteps, MqttTyped, MqttType,
     CallTyped, StartRingTimer, CmdAt, CreateTimer, Unjoin, CmdGo, callVars,
     arbiterVars, cmdFrame, transportVars, linkVars, connVars, CmdIdle
<1>4. JoinInv'
  <2>1. /\ ringThread' = cmd.room /\ timer' = [timer EXCEPT ![cmd.room] = "ticking"]
        /\ joining' = [joining EXCEPT !["cmd"] = NoRoom] /\ cmd'.at = "idle"
        /\ cmd.at = "arm" /\ \A r \in Outgoing : joining["cmd"] = r => timer[r] = "none"
    BY DEF StartRingTimer, CreateTimer, Unjoin, Joined, CmdAt, CmdGo, CmdIdle
  <2>2. joining' \in [Threads -> Outgoing \cup {NoRoom}] /\ joining'["cmd"] = NoRoom
        /\ joining'["mqtt"] = joining["mqtt"] /\ joining'["worker"] = joining["worker"]
    BY <2>1 DEF Inv, TimerTyped, Threads
  <2>3. \A r \in Outgoing : r # cmd.room => timer'[r] = timer[r]
    BY <2>1 DEF Inv, TimerTyped, TimerType
  <2>4. \A r \in Outgoing : timer[r] # "none" => r # joining["cmd"]
    BY <2>1
  <2>5. ASSUME NEW r \in Outgoing, timer'[r] # "none", r # cmd.room
        PROVE  joining["mqtt"] = r \/ joining["worker"] = r
    <3>1. timer[r] # "none" /\ r # NoRoom
      BY <2>3, <2>5, RoomsApart
    <3>2. ringThread = NoRoom
      BY <2>1 DEF HeldInvs, JoinInv
    <3> QED
      BY <2>4, <3>1, <3>2 DEF HeldInvs, JoinInv
  <2> QED
    BY <1>1, <2>1, <2>2, <2>3, <2>5 DEF HeldInvs, JoinInv
<1>5. WatchInv'
  <2>1. /\ cmd.at = "arm" /\ cmd.room \in Outgoing /\ cmd'.at = "idle" /\ ringing' = TRUE
        /\ timer' = [timer EXCEPT ![cmd.room] = "ticking"]
    BY DEF StartRingTimer, CreateTimer, CmdAt, CmdGo, CmdIdle, Inv, OfferInv
  <2>2. timer'[cmd.room] = "ticking"
    BY <2>1 DEF Inv, TimerTyped, TimerType
  <2>3. active \in {NoRoom, cmd.room}
    BY <2>1 DEF HeldInvs, HandInv
  <2>4. active # NoRoom => Rings(active)'
    BY <1>1, <2>1, <2>2, <2>3 DEF Rings
  <2> QED
    BY <1>1, <2>1, <2>4 DEF HeldInvs, WatchInv, Closing
<1>6. UpInv'
  BY <1>1 DEF HeldInvs, UpInv, EndsLast, Has, Up
<1> QED
  BY <1>2, <1>3, <1>4, <1>5, <1>6 DEF HeldInvs

LEMMA DoAcceptHeld ==
    ASSUME Inv, HeldInvs, DoAccept
    PROVE  HeldInvs'
<1>1. UNCHANGED <<serving, link, bound, current, waiting, sess, expected, attempt,
      media, tasks, control, active, pending, offer, answered, withdrawn, ringing,
      ringThread, timer, joining, created, owner, ownerId, cancelled, ticket, endAsked,
      transition, mqtt, worker>>
  BY DEF DoAccept, User, callVars, timerVars, arbiterVars, cmdFrame, transportVars,
         CmdAt, linkVars, connVars
<1>2. HeldInv'
  BY <1>1, RoomsApart DEF
     HeldInvs, HeldInv, Inv, OfferInv, CmdTyped, CmdType, CmdSteps, LeaseTyped,
     CallTyped, ServeInv, InAction, HandInv, DoAccept, User, callVars, timerVars,
     arbiterVars, cmdFrame, transportVars, CmdAt, linkVars, connVars, CmdIdle
<1>3. HandInv'
  BY <1>1, RoomsApart DEF
     HeldInvs, HandInv, Inv, OfferInv, CmdTyped, CmdType, CmdSteps, MqttTyped, MqttType,
     CallTyped, DoAccept, User, callVars, timerVars, arbiterVars, cmdFrame,
     transportVars, CmdAt, linkVars, connVars, CmdIdle
<1>4. JoinInv'
  BY <1>1, RoomsApart DEF
     HeldInvs, JoinInv, Inv, TimerTyped, TimerType, CmdTyped, CmdType, CmdSteps,
     MqttTyped, MqttType, WorkerTyped, WorkerType, Threads, Joined, MaybeRoom, DoAccept,
     User, callVars, timerVars, arbiterVars, cmdFrame, transportVars, CmdAt, linkVars,
     connVars, CmdIdle
<1>5. WatchInv'
  BY <1>1, RoomsApart DEF
     HeldInvs, WatchInv, Inv, ServeInv, QuietInv, CmdTyped, CmdType, CmdSteps,
     CallTyped, Closing, Rings, InAction, HeldInv, HandInv, JoinInv, OfferInv,
     LeaseTyped, DoAccept, User, callVars, timerVars, arbiterVars, cmdFrame,
     transportVars, CmdAt, linkVars, connVars, CmdIdle
<1>6. UpInv'
  BY <1>1 DEF HeldInvs, UpInv, EndsLast, Has, Up
<1> QED
  BY <1>2, <1>3, <1>4, <1>5, <1>6 DEF HeldInvs

LEMMA DeviceInfoHeld ==
    ASSUME Inv, HeldInvs, DeviceInfo
    PROVE  HeldInvs'
<1>1. UNCHANGED <<serving, link, bound, current, waiting, sess, expected, attempt,
      media, tasks, control, active, pending, offer, answered, withdrawn, ringing,
      ringThread, timer, joining, created, owner, ownerId, cancelled, ticket, endAsked,
      transition, mqtt, worker>>
  BY DEF DeviceInfo, CmdAt, StillPending, CmdGo, callVars, timerVars, arbiterVars,
         cmdFrame, transportVars, CmdIdle, linkVars, connVars
<1>2. HeldInv'
  BY <1>1, RoomsApart DEF
     HeldInvs, HeldInv, Inv, OfferInv, CmdTyped, CmdType, CmdSteps, LeaseTyped,
     CallTyped, ServeInv, InAction, HandInv, DeviceInfo, CmdAt, StillPending, CmdGo,
     callVars, timerVars, arbiterVars, cmdFrame, transportVars, linkVars, connVars,
     CmdIdle
<1>3. HandInv'
  BY <1>1, RoomsApart DEF
     HeldInvs, HandInv, Inv, OfferInv, CmdTyped, CmdType, CmdSteps, MqttTyped, MqttType,
     CallTyped, DeviceInfo, CmdAt, StillPending, CmdGo, callVars, timerVars,
     arbiterVars, cmdFrame, transportVars, linkVars, connVars, CmdIdle
<1>4. JoinInv'
  BY <1>1, RoomsApart DEF
     HeldInvs, JoinInv, Inv, TimerTyped, TimerType, CmdTyped, CmdType, CmdSteps,
     MqttTyped, MqttType, WorkerTyped, WorkerType, Threads, Joined, MaybeRoom,
     DeviceInfo, CmdAt, StillPending, CmdGo, callVars, timerVars, arbiterVars, cmdFrame,
     transportVars, linkVars, connVars, CmdIdle
<1>5. WatchInv'
  BY <1>1, RoomsApart DEF
     HeldInvs, WatchInv, Inv, ServeInv, QuietInv, CmdTyped, CmdType, CmdSteps,
     CallTyped, Closing, Rings, InAction, HeldInv, HandInv, JoinInv, OfferInv,
     LeaseTyped, DeviceInfo, CmdAt, StillPending, CmdGo, callVars, timerVars,
     arbiterVars, cmdFrame, transportVars, linkVars, connVars, CmdIdle
<1>6. UpInv'
  BY <1>1 DEF HeldInvs, UpInv, EndsLast, Has, Up
<1> QED
  BY <1>2, <1>3, <1>4, <1>5, <1>6 DEF HeldInvs

LEMMA BeginAcceptHeld ==
    ASSUME Inv, HeldInvs, BeginAccept
    PROVE  HeldInvs'
<1>1. UNCHANGED <<link, bound, current, waiting, sess, expected, attempt, media, tasks,
      control, active, pending, offer, answered, withdrawn, ringing, ringThread, timer,
      joining, created, transition, mqtt, worker>>
  BY DEF BeginAccept, CmdAt, BeginSession, CmdGo, callVars, timerVars, cmdFrame,
         linkVars, connVars, Hold, CmdIdle
<1>2. HeldInv'
  BY <1>1, RoomsApart DEF
     HeldInvs, HeldInv, Inv, OfferInv, CmdTyped, CmdType, CmdSteps, LeaseTyped,
     CallTyped, ServeInv, InAction, HandInv, BeginAccept, CmdAt, BeginSession, CmdGo,
     callVars, timerVars, cmdFrame, linkVars, connVars, Hold, CmdIdle
<1>3. HandInv'
  BY <1>1, RoomsApart DEF
     HeldInvs, HandInv, Inv, OfferInv, CmdTyped, CmdType, CmdSteps, MqttTyped, MqttType,
     CallTyped, BeginAccept, CmdAt, BeginSession, CmdGo, callVars, timerVars, cmdFrame,
     linkVars, connVars, Hold, CmdIdle
<1>4. JoinInv'
  BY <1>1, RoomsApart DEF
     HeldInvs, JoinInv, Inv, TimerTyped, TimerType, CmdTyped, CmdType, CmdSteps,
     MqttTyped, MqttType, WorkerTyped, WorkerType, Threads, Joined, MaybeRoom,
     BeginAccept, CmdAt, BeginSession, CmdGo, callVars, timerVars, cmdFrame, linkVars,
     connVars, Hold, CmdIdle
<1>5. UpInv'
  BY <1>1, RoomsApart DEF
     HeldInvs, UpInv, Inv, ServeInv, QuietInv, LinkTyped, LinkType, ConnTyped, Up, Has,
     EndsLast, HeldInv, InAction, BeginAccept, CmdAt, BeginSession, CmdGo, callVars,
     timerVars, cmdFrame, linkVars, connVars, Hold, CmdIdle
<1>6. WatchInv'
  BY <1>1, RoomsApart DEF
     HeldInvs, WatchInv, Inv, ServeInv, QuietInv, CmdTyped, CmdType, CmdSteps,
     CallTyped, Closing, Rings, InAction, HeldInv, HandInv, JoinInv, OfferInv,
     LeaseTyped, BeginAccept, CmdAt, BeginSession, CmdGo, callVars, timerVars, cmdFrame,
     linkVars, connVars, Hold, CmdIdle
<1> QED
  BY <1>2, <1>3, <1>4, <1>5, <1>6 DEF HeldInvs

LEMMA RunActionHeld ==
    ASSUME Inv, HeldInvs, RunAction
    PROVE  HeldInvs'
<1>1. UNCHANGED <<serving, link, bound, current, waiting, sess, expected, attempt,
      media, tasks, control, active, pending, offer, answered, withdrawn, ringing,
      ringThread, timer, joining, created, owner, ownerId, cancelled, ticket, endAsked,
      mqtt, worker>>
  BY DEF RunAction, CmdAt, CmdGo, callVars, timerVars, cmdFrame, transportVars, CmdIdle,
         linkVars, connVars
<1>2. HeldInv'
  BY <1>1, RoomsApart DEF
     HeldInvs, HeldInv, Inv, OfferInv, CmdTyped, CmdType, CmdSteps, LeaseTyped,
     CallTyped, ServeInv, InAction, HandInv, RunAction, CmdAt, CmdGo, callVars,
     timerVars, cmdFrame, transportVars, linkVars, connVars, CmdIdle
<1>3. HandInv'
  BY <1>1, RoomsApart DEF
     HeldInvs, HandInv, Inv, OfferInv, CmdTyped, CmdType, CmdSteps, MqttTyped, MqttType,
     CallTyped, RunAction, CmdAt, CmdGo, callVars, timerVars, cmdFrame, transportVars,
     linkVars, connVars, CmdIdle
<1>4. JoinInv'
  BY <1>1, RoomsApart DEF
     HeldInvs, JoinInv, Inv, TimerTyped, TimerType, CmdTyped, CmdType, CmdSteps,
     MqttTyped, MqttType, WorkerTyped, WorkerType, Threads, Joined, MaybeRoom,
     RunAction, CmdAt, CmdGo, callVars, timerVars, cmdFrame, transportVars, linkVars,
     connVars, CmdIdle
<1>5. WatchInv'
  BY <1>1, RoomsApart DEF
     HeldInvs, WatchInv, Inv, ServeInv, QuietInv, CmdTyped, CmdType, CmdSteps,
     CallTyped, Closing, Rings, InAction, HeldInv, HandInv, JoinInv, OfferInv,
     LeaseTyped, RunAction, CmdAt, CmdGo, callVars, timerVars, cmdFrame, transportVars,
     linkVars, connVars, CmdIdle
<1>6. UpInv'
  BY <1>1 DEF HeldInvs, UpInv, EndsLast, Has, Up
<1> QED
  BY <1>2, <1>3, <1>4, <1>5, <1>6 DEF HeldInvs

LEMMA ActivateHeld ==
    ASSUME Inv, HeldInvs, Activate
    PROVE  HeldInvs'
<1>1. UNCHANGED <<serving, link, bound, current, waiting, sess, expected, attempt,
      media, tasks, control, offer, withdrawn, ringing, ringThread, timer, joining,
      created, owner, ownerId, cancelled, ticket, endAsked, transition, mqtt, worker>>
  BY DEF Activate, CmdAt, StillPending, CmdGo, timerVars, arbiterVars, cmdFrame,
         transportVars, CmdIdle, linkVars, connVars
<1>2. HeldInv'
  BY <1>1, RoomsApart DEF
     HeldInvs, HeldInv, Inv, OfferInv, CmdTyped, CmdType, CmdSteps, LeaseTyped,
     CallTyped, ServeInv, InAction, HandInv, Activate, CmdAt, StillPending, CmdGo,
     timerVars, arbiterVars, cmdFrame, transportVars, linkVars, connVars, CmdIdle
<1>3. HandInv'
  BY <1>1, RoomsApart DEF
     HeldInvs, HandInv, Inv, OfferInv, CmdTyped, CmdType, CmdSteps, MqttTyped, MqttType,
     CallTyped, Activate, CmdAt, StillPending, CmdGo, timerVars, arbiterVars, cmdFrame,
     transportVars, linkVars, connVars, CmdIdle
<1>4. JoinInv'
  BY <1>1, RoomsApart DEF
     HeldInvs, JoinInv, Inv, TimerTyped, TimerType, CmdTyped, CmdType, CmdSteps,
     MqttTyped, MqttType, WorkerTyped, WorkerType, Threads, Joined, MaybeRoom, Activate,
     CmdAt, StillPending, CmdGo, timerVars, arbiterVars, cmdFrame, transportVars,
     linkVars, connVars, CmdIdle
<1>5. WatchInv'
  BY <1>1, RoomsApart DEF
     HeldInvs, WatchInv, Inv, ServeInv, QuietInv, CmdTyped, CmdType, CmdSteps,
     CallTyped, Closing, Rings, InAction, HeldInv, HandInv, JoinInv, OfferInv,
     LeaseTyped, Activate, CmdAt, StillPending, CmdGo, timerVars, arbiterVars, cmdFrame,
     transportVars, linkVars, connVars, CmdIdle
<1>6. UpInv'
  BY <1>1 DEF HeldInvs, UpInv, EndsLast, Has, Up
<1> QED
  BY <1>2, <1>3, <1>4, <1>5, <1>6 DEF HeldInvs

LEMMA ConnectHeld ==
    ASSUME Inv, HeldInvs, Connect
    PROVE  HeldInvs'
<1>1. UNCHANGED <<link, bound, current, waiting, tasks, control, active, pending, offer,
      ringing, ringThread, timer, joining, owner, ownerId, cancelled, endAsked, mqtt,
      worker>>
  BY DEF Connect, CmdAt, CmdGo, callVars, timerVars, arbiterVars, cmdFrame, linkVars,
         CmdIdle
<1>2. cmd.at = "connect" /\ cmd'.at \in {"actionFailed", "dialing"} /\ cmd'.room = cmd.room
  BY DEF Connect, CmdAt, CmdGo, Inv, CmdTyped, CmdType
<1>3. HeldInv' /\ HandInv' /\ JoinInv'
  BY <1>1, <1>2 DEF HeldInvs, HeldInv, HandInv, JoinInv, InAction
<1>4. UpInv' /\ WatchInv'
  BY <1>1, <1>2 DEF HeldInvs, UpInv, WatchInv, Up, Has, EndsLast, Closing, Rings
<1> QED
  BY <1>3, <1>4 DEF HeldInvs

LEMMA DialCancelledHeld ==
    ASSUME Inv, HeldInvs, DialCancelled
    PROVE  HeldInvs'
<1>1. UNCHANGED <<serving, link, bound, waiting, expected, media, tasks, control,
      active, pending, offer, answered, withdrawn, ringing, ringThread, timer, joining,
      created, owner, ownerId, cancelled, ticket, endAsked, transition, mqtt, worker>>
  BY DEF DialCancelled, CmdAt, CmdGo, dialFrame, CmdIdle, callVars, timerVars,
         arbiterVars, cmdFrame, linkVars
<1>2. HeldInv'
  BY <1>1, RoomsApart DEF
     HeldInvs, HeldInv, Inv, OfferInv, CmdTyped, CmdType, CmdSteps, LeaseTyped,
     CallTyped, ServeInv, InAction, HandInv, DialCancelled, CmdAt, CmdGo, dialFrame,
     callVars, timerVars, arbiterVars, cmdFrame, linkVars, CmdIdle
<1>3. HandInv'
  BY <1>1, RoomsApart DEF
     HeldInvs, HandInv, Inv, OfferInv, CmdTyped, CmdType, CmdSteps, MqttTyped, MqttType,
     CallTyped, DialCancelled, CmdAt, CmdGo, dialFrame, callVars, timerVars,
     arbiterVars, cmdFrame, linkVars, CmdIdle
<1>4. JoinInv'
  BY <1>1, RoomsApart DEF
     HeldInvs, JoinInv, Inv, TimerTyped, TimerType, CmdTyped, CmdType, CmdSteps,
     MqttTyped, MqttType, WorkerTyped, WorkerType, Threads, Joined, MaybeRoom,
     DialCancelled, CmdAt, CmdGo, dialFrame, callVars, timerVars, arbiterVars, cmdFrame,
     linkVars, CmdIdle
<1>5. UpInv'
  BY <1>1, RoomsApart DEF
     HeldInvs, UpInv, Inv, ServeInv, QuietInv, LinkTyped, LinkType, ConnTyped, Up, Has,
     EndsLast, HeldInv, InAction, DialCancelled, CmdAt, CmdGo, dialFrame, callVars,
     timerVars, arbiterVars, cmdFrame, linkVars, CmdIdle
<1>6. WatchInv'
  BY <1>1, RoomsApart DEF
     HeldInvs, WatchInv, Inv, ServeInv, QuietInv, CmdTyped, CmdType, CmdSteps,
     CallTyped, Closing, Rings, InAction, HeldInv, HandInv, JoinInv, OfferInv,
     LeaseTyped, DialCancelled, CmdAt, CmdGo, dialFrame, callVars, timerVars,
     arbiterVars, cmdFrame, linkVars, CmdIdle
<1> QED
  BY <1>2, <1>3, <1>4, <1>5, <1>6 DEF HeldInvs

LEMMA DialAgainHeld ==
    ASSUME Inv, HeldInvs, DialAgain
    PROVE  HeldInvs'
<1>1. UNCHANGED <<serving, link, bound, current, waiting, sess, expected, media, tasks,
      control, active, pending, offer, answered, withdrawn, ringing, ringThread, timer,
      joining, created, owner, ownerId, cancelled, ticket, endAsked, transition, mqtt,
      worker>>
  BY DEF DialAgain, CmdAt, dialFrame, callVars, timerVars, arbiterVars, cmdFrame,
         linkVars
<1>2. HeldInv'
  BY <1>1, RoomsApart DEF
     HeldInvs, HeldInv, Inv, OfferInv, CmdTyped, CmdType, CmdSteps, LeaseTyped,
     CallTyped, ServeInv, InAction, HandInv, DialAgain, CmdAt, dialFrame, callVars,
     timerVars, arbiterVars, cmdFrame, linkVars, CmdIdle
<1>3. HandInv'
  BY <1>1, RoomsApart DEF
     HeldInvs, HandInv, Inv, OfferInv, CmdTyped, CmdType, CmdSteps, MqttTyped, MqttType,
     CallTyped, DialAgain, CmdAt, dialFrame, callVars, timerVars, arbiterVars, cmdFrame,
     linkVars, CmdIdle
<1>4. JoinInv'
  BY <1>1, RoomsApart DEF
     HeldInvs, JoinInv, Inv, TimerTyped, TimerType, CmdTyped, CmdType, CmdSteps,
     MqttTyped, MqttType, WorkerTyped, WorkerType, Threads, Joined, MaybeRoom,
     DialAgain, CmdAt, dialFrame, callVars, timerVars, arbiterVars, cmdFrame, linkVars,
     CmdIdle
<1>5. WatchInv'
  BY <1>1, RoomsApart DEF
     HeldInvs, WatchInv, Inv, ServeInv, QuietInv, CmdTyped, CmdType, CmdSteps,
     CallTyped, Closing, Rings, InAction, HeldInv, HandInv, JoinInv, OfferInv,
     LeaseTyped, DialAgain, CmdAt, dialFrame, callVars, timerVars, arbiterVars,
     cmdFrame, linkVars, CmdIdle
<1>6. UpInv'
  BY <1>1 DEF HeldInvs, UpInv, EndsLast, Has, Up
<1> QED
  BY <1>2, <1>3, <1>4, <1>5, <1>6 DEF HeldInvs

LEMMA DialFailsHeld ==
    ASSUME Inv, HeldInvs, DialFails
    PROVE  HeldInvs'
<1>1. UNCHANGED <<serving, link, bound, waiting, expected, media, tasks, control,
      active, pending, offer, answered, withdrawn, ringing, ringThread, timer, joining,
      created, owner, ownerId, cancelled, ticket, endAsked, transition, mqtt, worker>>
  BY DEF DialFails, CmdAt, CmdGo, dialFrame, CmdIdle, callVars, timerVars, arbiterVars,
         cmdFrame, linkVars
<1>2. HeldInv'
  BY <1>1, RoomsApart DEF
     HeldInvs, HeldInv, Inv, OfferInv, CmdTyped, CmdType, CmdSteps, LeaseTyped,
     CallTyped, ServeInv, InAction, HandInv, DialFails, CmdAt, CmdGo, dialFrame,
     callVars, timerVars, arbiterVars, cmdFrame, linkVars, CmdIdle
<1>3. HandInv'
  BY <1>1, RoomsApart DEF
     HeldInvs, HandInv, Inv, OfferInv, CmdTyped, CmdType, CmdSteps, MqttTyped, MqttType,
     CallTyped, DialFails, CmdAt, CmdGo, dialFrame, callVars, timerVars, arbiterVars,
     cmdFrame, linkVars, CmdIdle
<1>4. JoinInv'
  BY <1>1, RoomsApart DEF
     HeldInvs, JoinInv, Inv, TimerTyped, TimerType, CmdTyped, CmdType, CmdSteps,
     MqttTyped, MqttType, WorkerTyped, WorkerType, Threads, Joined, MaybeRoom,
     DialFails, CmdAt, CmdGo, dialFrame, callVars, timerVars, arbiterVars, cmdFrame,
     linkVars, CmdIdle
<1>5. UpInv'
  BY <1>1, RoomsApart DEF
     HeldInvs, UpInv, Inv, ServeInv, QuietInv, LinkTyped, LinkType, ConnTyped, Up, Has,
     EndsLast, HeldInv, InAction, DialFails, CmdAt, CmdGo, dialFrame, callVars,
     timerVars, arbiterVars, cmdFrame, linkVars, CmdIdle
<1>6. WatchInv'
  BY <1>1, RoomsApart DEF
     HeldInvs, WatchInv, Inv, ServeInv, QuietInv, CmdTyped, CmdType, CmdSteps,
     CallTyped, Closing, Rings, InAction, HeldInv, HandInv, JoinInv, OfferInv,
     LeaseTyped, DialFails, CmdAt, CmdGo, dialFrame, callVars, timerVars, arbiterVars,
     cmdFrame, linkVars, CmdIdle
<1> QED
  BY <1>2, <1>3, <1>4, <1>5, <1>6 DEF HeldInvs

LEMMA DialWonHeld ==
    ASSUME Inv, HeldInvs, DialWon
    PROVE  HeldInvs'
<1>1. UNCHANGED <<serving, link, bound, current, waiting, sess, expected, media, tasks,
      control, active, pending, offer, answered, withdrawn, ringing, ringThread, timer,
      joining, created, owner, ownerId, cancelled, ticket, endAsked, transition, mqtt,
      worker>>
  BY DEF DialWon, CmdAt, CmdGo, dialFrame, CmdIdle, callVars, timerVars, arbiterVars,
         cmdFrame, linkVars
<1>2. HeldInv'
  BY <1>1, RoomsApart DEF
     HeldInvs, HeldInv, Inv, OfferInv, CmdTyped, CmdType, CmdSteps, LeaseTyped,
     CallTyped, ServeInv, InAction, HandInv, DialWon, CmdAt, CmdGo, dialFrame, callVars,
     timerVars, arbiterVars, cmdFrame, linkVars, CmdIdle
<1>3. HandInv'
  BY <1>1, RoomsApart DEF
     HeldInvs, HandInv, Inv, OfferInv, CmdTyped, CmdType, CmdSteps, MqttTyped, MqttType,
     CallTyped, DialWon, CmdAt, CmdGo, dialFrame, callVars, timerVars, arbiterVars,
     cmdFrame, linkVars, CmdIdle
<1>4. JoinInv'
  BY <1>1, RoomsApart DEF
     HeldInvs, JoinInv, Inv, TimerTyped, TimerType, CmdTyped, CmdType, CmdSteps,
     MqttTyped, MqttType, WorkerTyped, WorkerType, Threads, Joined, MaybeRoom, DialWon,
     CmdAt, CmdGo, dialFrame, callVars, timerVars, arbiterVars, cmdFrame, linkVars,
     CmdIdle
<1>5. WatchInv'
  BY <1>1, RoomsApart DEF
     HeldInvs, WatchInv, Inv, ServeInv, QuietInv, CmdTyped, CmdType, CmdSteps,
     CallTyped, Closing, Rings, InAction, HeldInv, HandInv, JoinInv, OfferInv,
     LeaseTyped, DialWon, CmdAt, CmdGo, dialFrame, callVars, timerVars, arbiterVars,
     cmdFrame, linkVars, CmdIdle
<1>6. UpInv'
  BY <1>1 DEF HeldInvs, UpInv, EndsLast, Has, Up
<1> QED
  BY <1>2, <1>3, <1>4, <1>5, <1>6 DEF HeldInvs

LEMMA DialSucceedsHeld ==
    ASSUME Inv, HeldInvs, DialSucceeds
    PROVE  HeldInvs'
<1>1. UNCHANGED <<serving, link, bound, waiting, expected, attempt, media, tasks,
      control, active, pending, offer, answered, withdrawn, ringing, ringThread, timer,
      joining, created, owner, ownerId, cancelled, ticket, endAsked, transition, mqtt,
      worker>>
  BY DEF DialSucceeds, CmdAt, CmdGo, dialFrame, CmdIdle, callVars, timerVars,
         arbiterVars, cmdFrame, linkVars
<1>2. HeldInv'
  BY <1>1, RoomsApart DEF
     HeldInvs, HeldInv, Inv, OfferInv, CmdTyped, CmdType, CmdSteps, LeaseTyped,
     CallTyped, ServeInv, InAction, HandInv, DialSucceeds, CmdAt, CmdGo, dialFrame,
     callVars, timerVars, arbiterVars, cmdFrame, linkVars, CmdIdle
<1>3. HandInv'
  BY <1>1, RoomsApart DEF
     HeldInvs, HandInv, Inv, OfferInv, CmdTyped, CmdType, CmdSteps, MqttTyped, MqttType,
     CallTyped, DialSucceeds, CmdAt, CmdGo, dialFrame, callVars, timerVars, arbiterVars,
     cmdFrame, linkVars, CmdIdle
<1>4. JoinInv'
  BY <1>1, RoomsApart DEF
     HeldInvs, JoinInv, Inv, TimerTyped, TimerType, CmdTyped, CmdType, CmdSteps,
     MqttTyped, MqttType, WorkerTyped, WorkerType, Threads, Joined, MaybeRoom,
     DialSucceeds, CmdAt, CmdGo, dialFrame, callVars, timerVars, arbiterVars, cmdFrame,
     linkVars, CmdIdle
<1>5. UpInv'
  BY <1>1, RoomsApart DEF
     HeldInvs, UpInv, Inv, ServeInv, QuietInv, LinkTyped, LinkType, ConnTyped, Up, Has,
     EndsLast, HeldInv, InAction, DialSucceeds, CmdAt, CmdGo, dialFrame, callVars,
     timerVars, arbiterVars, cmdFrame, linkVars, CmdIdle
<1>6. WatchInv'
  BY <1>1, RoomsApart DEF
     HeldInvs, WatchInv, Inv, ServeInv, QuietInv, CmdTyped, CmdType, CmdSteps,
     CallTyped, Closing, Rings, InAction, HeldInv, HandInv, JoinInv, OfferInv,
     LeaseTyped, DialSucceeds, CmdAt, CmdGo, dialFrame, callVars, timerVars,
     arbiterVars, cmdFrame, linkVars, CmdIdle
<1> QED
  BY <1>2, <1>3, <1>4, <1>5, <1>6 DEF HeldInvs

LEMMA SubscribePeerHeld ==
    ASSUME Inv, HeldInvs, SubscribePeer
    PROVE  HeldInvs'
<1>1. UNCHANGED <<serving, bound, expected, attempt, tasks, control, active, pending,
      offer, answered, withdrawn, timer, created, owner, ownerId, cancelled, ticket,
      endAsked, transition, mqtt, worker>>
  BY DEF SubscribePeer, CmdAt, CmdGo, connVars, timerVars, LetGo, CancelTimer, callVars,
         arbiterVars, cmdFrame, CmdIdle
<1>2. HeldInv'
  BY <1>1, RoomsApart DEF
     HeldInvs, HeldInv, Inv, OfferInv, CmdTyped, CmdType, CmdSteps, LeaseTyped,
     CallTyped, ServeInv, InAction, HandInv, SubscribePeer, CmdAt, CmdGo, connVars,
     timerVars, LetGo, CancelTimer, callVars, arbiterVars, cmdFrame, CmdIdle
<1>3. HandInv'
  BY <1>1, RoomsApart DEF
     HeldInvs, HandInv, Inv, OfferInv, CmdTyped, CmdType, CmdSteps, MqttTyped, MqttType,
     CallTyped, SubscribePeer, CmdAt, CmdGo, connVars, timerVars, LetGo, CancelTimer,
     callVars, arbiterVars, cmdFrame, CmdIdle
<1>4. JoinInv'
  BY <1>1, RoomsApart DEF
     HeldInvs, JoinInv, Inv, TimerTyped, TimerType, CmdTyped, CmdType, CmdSteps,
     MqttTyped, MqttType, WorkerTyped, WorkerType, Threads, Joined, MaybeRoom,
     SubscribePeer, CmdAt, CmdGo, connVars, timerVars, LetGo, CancelTimer, callVars,
     arbiterVars, cmdFrame, CmdIdle
<1>5. UpInv'
  BY <1>1, RoomsApart DEF
     HeldInvs, UpInv, Inv, ServeInv, QuietInv, LinkTyped, LinkType, ConnTyped, Up, Has,
     EndsLast, HeldInv, InAction, SubscribePeer, CmdAt, CmdGo, connVars, timerVars,
     LetGo, CancelTimer, callVars, arbiterVars, cmdFrame, CmdIdle
<1>6. WatchInv'
  BY <1>1, RoomsApart DEF
     HeldInvs, WatchInv, Inv, ServeInv, QuietInv, CmdTyped, CmdType, CmdSteps,
     CallTyped, Closing, Rings, InAction, HeldInv, HandInv, JoinInv, OfferInv,
     LeaseTyped, SubscribePeer, CmdAt, CmdGo, connVars, timerVars, LetGo, CancelTimer,
     callVars, arbiterVars, cmdFrame, CmdIdle
<1> QED
  BY <1>2, <1>3, <1>4, <1>5, <1>6 DEF HeldInvs

LEMMA ConnectionLostHeld ==
    ASSUME Inv, HeldInvs, ConnectionLost
    PROVE  HeldInvs'
<1>1. UNCHANGED <<serving, bound, current, waiting, sess, expected, attempt, media,
      tasks, control, pending, offer, withdrawn, ringing, ringThread, timer, created,
      owner, ownerId, cancelled, ticket, transition, mqtt, worker>>
  BY DEF ConnectionLost, CmdAt, Unjoin, NotActive, CmdGo, ringVars, ownerVars, cmdFrame,
         connVars, CmdIdle
<1>2. HeldInv'
  BY <1>1, RoomsApart DEF
     HeldInvs, HeldInv, Inv, OfferInv, CmdTyped, CmdType, CmdSteps, LeaseTyped,
     CallTyped, ServeInv, InAction, HandInv, ConnectionLost, CmdAt, Unjoin, NotActive,
     CmdGo, ringVars, ownerVars, cmdFrame, connVars, CmdIdle
<1>3. HandInv'
  BY <1>1, RoomsApart DEF
     HeldInvs, HandInv, Inv, OfferInv, CmdTyped, CmdType, CmdSteps, MqttTyped, MqttType,
     CallTyped, ConnectionLost, CmdAt, Unjoin, NotActive, CmdGo, ringVars, ownerVars,
     cmdFrame, connVars, CmdIdle
<1>4. JoinInv'
  BY <1>1, RoomsApart DEF
     HeldInvs, JoinInv, Inv, TimerTyped, TimerType, CmdTyped, CmdType, CmdSteps,
     MqttTyped, MqttType, WorkerTyped, WorkerType, Threads, Joined, MaybeRoom,
     ConnectionLost, CmdAt, Unjoin, NotActive, CmdGo, ringVars, ownerVars, cmdFrame,
     connVars, CmdIdle
<1>5. UpInv'
  BY <1>1, RoomsApart DEF
     HeldInvs, UpInv, Inv, ServeInv, QuietInv, LinkTyped, LinkType, ConnTyped, Up, Has,
     EndsLast, HeldInv, InAction, ConnectionLost, CmdAt, Unjoin, NotActive, CmdGo,
     ringVars, ownerVars, cmdFrame, connVars, CmdIdle
<1>6. WatchInv'
  BY <1>1, RoomsApart DEF
     HeldInvs, WatchInv, Inv, ServeInv, QuietInv, CmdTyped, CmdType, CmdSteps,
     CallTyped, Closing, Rings, InAction, HeldInv, HandInv, JoinInv, OfferInv,
     LeaseTyped, ConnectionLost, CmdAt, Unjoin, NotActive, CmdGo, ringVars, ownerVars,
     cmdFrame, connVars, CmdIdle
<1> QED
  BY <1>2, <1>3, <1>4, <1>5, <1>6 DEF HeldInvs

LEMMA StartCallHeld ==
    ASSUME Inv, HeldInvs, StartCall
    PROVE  HeldInvs'
<1>1. UNCHANGED <<serving, bound, current, waiting, sess, expected, attempt, tasks,
      active, pending, offer, answered, withdrawn, timer, created, owner, ownerId,
      cancelled, ticket, endAsked, transition, mqtt, worker>>
  BY DEF StartCall, CmdAt, StartMedia, CancelTimer, CmdGo, timerVars, callVars,
         arbiterVars, cmdFrame, connVars, CmdIdle
<1>2. HeldInv'
  BY <1>1, RoomsApart DEF
     HeldInvs, HeldInv, Inv, OfferInv, CmdTyped, CmdType, CmdSteps, LeaseTyped,
     CallTyped, ServeInv, InAction, HandInv, StartCall, CmdAt, StartMedia, CancelTimer,
     CmdGo, timerVars, callVars, arbiterVars, cmdFrame, connVars, CmdIdle
<1>3. HandInv'
  BY <1>1, RoomsApart DEF
     HeldInvs, HandInv, Inv, OfferInv, CmdTyped, CmdType, CmdSteps, MqttTyped, MqttType,
     CallTyped, StartCall, CmdAt, StartMedia, CancelTimer, CmdGo, timerVars, callVars,
     arbiterVars, cmdFrame, connVars, CmdIdle
<1>4. JoinInv'
  BY <1>1, RoomsApart DEF
     HeldInvs, JoinInv, Inv, TimerTyped, TimerType, CmdTyped, CmdType, CmdSteps,
     MqttTyped, MqttType, WorkerTyped, WorkerType, Threads, Joined, MaybeRoom,
     StartCall, CmdAt, StartMedia, CancelTimer, CmdGo, timerVars, callVars, arbiterVars,
     cmdFrame, connVars, CmdIdle
<1>5. UpInv'
  BY <1>1, RoomsApart DEF
     HeldInvs, UpInv, Inv, ServeInv, QuietInv, LinkTyped, LinkType, ConnTyped, Up, Has,
     EndsLast, HeldInv, InAction, StartCall, CmdAt, StartMedia, CancelTimer, CmdGo,
     timerVars, callVars, arbiterVars, cmdFrame, connVars, CmdIdle
<1>6. WatchInv'
  BY <1>1, RoomsApart DEF
     HeldInvs, WatchInv, Inv, ServeInv, QuietInv, CmdTyped, CmdType, CmdSteps,
     CallTyped, Closing, Rings, InAction, HeldInv, HandInv, JoinInv, OfferInv,
     LeaseTyped, StartCall, CmdAt, StartMedia, CancelTimer, CmdGo, timerVars, callVars,
     arbiterVars, cmdFrame, connVars, CmdIdle
<1> QED
  BY <1>2, <1>3, <1>4, <1>5, <1>6 DEF HeldInvs

LEMMA CallStartedHeld ==
    ASSUME Inv, HeldInvs, CallStarted
    PROVE  HeldInvs'
<1>1. UNCHANGED <<serving, link, bound, current, waiting, sess, expected, attempt,
      media, tasks, active, pending, offer, answered, withdrawn, ringing, ringThread,
      timer, created, owner, ownerId, cancelled, ticket, endAsked, transition, mqtt,
      worker>>
  BY DEF CallStarted, CmdAt, Unjoin, CmdGo, callVars, ringVars, arbiterVars, cmdFrame,
         linkVars, connVars, CmdIdle
<1>2. HeldInv'
  BY <1>1, RoomsApart DEF
     HeldInvs, HeldInv, Inv, OfferInv, CmdTyped, CmdType, CmdSteps, LeaseTyped,
     CallTyped, ServeInv, InAction, HandInv, CallStarted, CmdAt, Unjoin, CmdGo,
     callVars, ringVars, arbiterVars, cmdFrame, linkVars, connVars, CmdIdle
<1>3. HandInv'
  BY <1>1, RoomsApart DEF
     HeldInvs, HandInv, Inv, OfferInv, CmdTyped, CmdType, CmdSteps, MqttTyped, MqttType,
     CallTyped, CallStarted, CmdAt, Unjoin, CmdGo, callVars, ringVars, arbiterVars,
     cmdFrame, linkVars, connVars, CmdIdle
<1>4. JoinInv'
  BY <1>1, RoomsApart DEF
     HeldInvs, JoinInv, Inv, TimerTyped, TimerType, CmdTyped, CmdType, CmdSteps,
     MqttTyped, MqttType, WorkerTyped, WorkerType, Threads, Joined, MaybeRoom,
     CallStarted, CmdAt, Unjoin, CmdGo, callVars, ringVars, arbiterVars, cmdFrame,
     linkVars, connVars, CmdIdle
<1>5. WatchInv'
  BY <1>1, RoomsApart DEF
     HeldInvs, WatchInv, Inv, ServeInv, QuietInv, CmdTyped, CmdType, CmdSteps,
     CallTyped, Closing, Rings, InAction, HeldInv, HandInv, JoinInv, OfferInv,
     LeaseTyped, CallStarted, CmdAt, Unjoin, CmdGo, callVars, ringVars, arbiterVars,
     cmdFrame, linkVars, connVars, CmdIdle
<1>6. UpInv'
  BY <1>1 DEF HeldInvs, UpInv, EndsLast, Has, Up
<1> QED
  BY <1>2, <1>3, <1>4, <1>5, <1>6 DEF HeldInvs

LEMMA ActionEndsHeld ==
    ASSUME Inv, HeldInvs, ActionEnds
    PROVE  HeldInvs'
<1>1. UNCHANGED <<link, current, waiting, sess, expected, attempt, media, tasks,
      control, active, pending, offer, answered, withdrawn, ringing, ringThread, timer,
      joining, created, ticket, mqtt, worker>>
  BY DEF ActionEnds, CmdAt, EndOwner, CmdGo, transportVars, callVars, timerVars,
         cmdFrame, Release, connVars, CmdIdle, linkVars
<1>2. HeldInv'
  BY <1>1, RoomsApart DEF
     HeldInvs, HeldInv, Inv, OfferInv, CmdTyped, CmdType, CmdSteps, LeaseTyped,
     CallTyped, ServeInv, InAction, HandInv, ActionEnds, CmdAt, EndOwner, CmdGo,
     transportVars, callVars, timerVars, cmdFrame, Release, connVars, linkVars, CmdIdle
<1>3. HandInv'
  BY <1>1, RoomsApart DEF
     HeldInvs, HandInv, Inv, OfferInv, CmdTyped, CmdType, CmdSteps, MqttTyped, MqttType,
     CallTyped, ActionEnds, CmdAt, EndOwner, CmdGo, transportVars, callVars, timerVars,
     cmdFrame, Release, connVars, linkVars, CmdIdle
<1>4. JoinInv'
  BY <1>1, RoomsApart DEF
     HeldInvs, JoinInv, Inv, TimerTyped, TimerType, CmdTyped, CmdType, CmdSteps,
     MqttTyped, MqttType, WorkerTyped, WorkerType, Threads, Joined, MaybeRoom,
     ActionEnds, CmdAt, EndOwner, CmdGo, transportVars, callVars, timerVars, cmdFrame,
     Release, connVars, linkVars, CmdIdle
<1>5. UpInv'
  BY <1>1, RoomsApart DEF
     HeldInvs, UpInv, Inv, ServeInv, QuietInv, LinkTyped, LinkType, ConnTyped, Up, Has,
     EndsLast, HeldInv, InAction, ActionEnds, CmdAt, EndOwner, CmdGo, transportVars,
     callVars, timerVars, cmdFrame, Release, connVars, linkVars, CmdIdle
<1>6. WatchInv'
  BY <1>1, RoomsApart DEF
     HeldInvs, WatchInv, Inv, ServeInv, QuietInv, CmdTyped, CmdType, CmdSteps,
     CallTyped, Closing, Rings, InAction, HeldInv, HandInv, JoinInv, OfferInv,
     LeaseTyped, ActionEnds, CmdAt, EndOwner, CmdGo, transportVars, callVars, timerVars,
     cmdFrame, Release, connVars, linkVars, CmdIdle
<1> QED
  BY <1>2, <1>3, <1>4, <1>5, <1>6 DEF HeldInvs

LEMMA HangupHeld ==
    ASSUME Inv, HeldInvs, Hangup
    PROVE  HeldInvs'
<1>1. UNCHANGED <<link, bound, current, waiting, tasks, control, active, pending, offer,
      owner, ownerId, cancelled, endAsked, mqtt, worker>>
  BY DEF Hangup, User, DoHangup, callVars, arbiterVars, cmdFrame, transportVars, CmdAt,
         CmdGo, timerVars, CancelTimer, linkVars, connVars, CmdIdle
<1>2. cmd.at = "idle" /\ joining["cmd"] = NoRoom
  BY DEF Hangup, User, CmdAt, HeldInvs, JoinInv
<1>3. CASE active = NoRoom
  <2>1. cmd'.at \in {"idle", "finish"} /\ UNCHANGED <<ringing, ringThread, timer, joining>>
    BY <1>3, <1>2 DEF Hangup, DoHangup, CmdGo, CmdIdle, timerVars, Inv, CmdTyped, CmdType
  <2>2. HeldInv' /\ HandInv' /\ JoinInv'
    BY <1>1, <1>2, <2>1 DEF HeldInvs, HeldInv, HandInv, JoinInv, InAction
  <2>3. UpInv' /\ WatchInv'
    BY <1>1, <1>2, <2>1 DEF HeldInvs, UpInv, WatchInv, Up, Has, EndsLast, Closing, Rings
  <2> QED
    BY <2>2, <2>3 DEF HeldInvs
<1>4. CASE active # NoRoom
  <2>1. /\ CancelTimer("cmd") /\ cmd'.at = "hangingUp" /\ cmd'.then \in {"idle", "finish"}
        /\ cmd'.room = cmd.room
    BY <1>4, <1>2 DEF Hangup, DoHangup, Inv, CmdTyped, CmdType
  <2> QED
    BY <1>1, <1>2, <2>1, CancelsHeld DEF InAction
<1> QED
  BY <1>3, <1>4

LEMMA OnConnectFailedHeld ==
    ASSUME Inv, HeldInvs, OnConnectFailed
    PROVE  HeldInvs'
<1>1. UNCHANGED <<link, bound, current, waiting, tasks, control, active, pending, offer,
      owner, ownerId, cancelled, endAsked, mqtt, worker>>
  BY DEF OnConnectFailed, DoHangup, callVars, arbiterVars, cmdFrame, transportVars, CmdAt,
         CmdGo, timerVars, CancelTimer, linkVars, connVars, CmdIdle
<1>2. cmd.at = "connectFailed" /\ joining["cmd"] = NoRoom
  BY DEF OnConnectFailed, CmdAt, HeldInvs, JoinInv
<1>3. CASE active = NoRoom
  <2>1. /\ cmd'.at = "actionFailed" /\ cmd'.room = cmd.room
        /\ UNCHANGED <<ringing, ringThread, timer, joining>>
    BY <1>3, <1>2 DEF OnConnectFailed, DoHangup, CmdGo, timerVars, Inv, CmdTyped, CmdType
  <2>2. HeldInv' /\ HandInv' /\ JoinInv'
    BY <1>1, <1>2, <2>1 DEF HeldInvs, HeldInv, HandInv, JoinInv, InAction
  <2>3. UpInv' /\ WatchInv'
    BY <1>1, <1>2, <2>1 DEF HeldInvs, UpInv, WatchInv, Up, Has, EndsLast, Closing, Rings
  <2> QED
    BY <2>2, <2>3 DEF HeldInvs
<1>4. CASE active # NoRoom
  <2>1. /\ CancelTimer("cmd") /\ cmd'.at = "hangingUp" /\ cmd'.then = "actionFailed"
        /\ cmd'.room = cmd.room
    BY <1>4, <1>2 DEF OnConnectFailed, DoHangup, Inv, CmdTyped, CmdType
  <2> QED
    BY <1>1, <1>2, <2>1, CancelsHeld DEF InAction
<1> QED
  BY <1>3, <1>4

LEMMA HangUpCallHeld ==
    ASSUME Inv, HeldInvs, HangUpCall
    PROVE  HeldInvs'
<1>1. UNCHANGED <<serving, bound, tasks, control, active, pending, offer, answered,
      withdrawn, ringing, ringThread, timer, created, owner, ownerId, cancelled, ticket,
      endAsked, transition, mqtt, worker>>
  BY DEF HangUpCall, CmdAt, Unjoin, HangUp, CmdGo, callVars, ringVars, arbiterVars,
         cmdFrame, CmdIdle
<1>2. HeldInv'
  BY <1>1, RoomsApart DEF
     HeldInvs, HeldInv, Inv, OfferInv, CmdTyped, CmdType, CmdSteps, LeaseTyped,
     CallTyped, ServeInv, InAction, HandInv, HangUpCall, CmdAt, Unjoin, HangUp, CmdGo,
     callVars, ringVars, arbiterVars, cmdFrame, CmdIdle
<1>3. HandInv'
  BY <1>1, RoomsApart DEF
     HeldInvs, HandInv, Inv, OfferInv, CmdTyped, CmdType, CmdSteps, MqttTyped, MqttType,
     CallTyped, HangUpCall, CmdAt, Unjoin, HangUp, CmdGo, callVars, ringVars,
     arbiterVars, cmdFrame, CmdIdle
<1>4. JoinInv'
  BY <1>1, RoomsApart DEF
     HeldInvs, JoinInv, Inv, TimerTyped, TimerType, CmdTyped, CmdType, CmdSteps,
     MqttTyped, MqttType, WorkerTyped, WorkerType, Threads, Joined, MaybeRoom,
     HangUpCall, CmdAt, Unjoin, HangUp, CmdGo, callVars, ringVars, arbiterVars,
     cmdFrame, CmdIdle
<1>5. UpInv'
  BY <1>1, RoomsApart DEF
     HeldInvs, UpInv, Inv, ServeInv, QuietInv, LinkTyped, LinkType, ConnTyped, Up, Has,
     EndsLast, HeldInv, InAction, HangUpCall, CmdAt, Unjoin, HangUp, CmdGo, callVars,
     ringVars, arbiterVars, cmdFrame, CmdIdle
<1>6. WatchInv'
  BY <1>1, RoomsApart DEF
     HeldInvs, WatchInv, Inv, ServeInv, QuietInv, CmdTyped, CmdType, CmdSteps,
     CallTyped, Closing, Rings, InAction, HeldInv, HandInv, JoinInv, OfferInv,
     LeaseTyped, HangUpCall, CmdAt, Unjoin, HangUp, CmdGo, callVars, ringVars,
     arbiterVars, cmdFrame, CmdIdle
<1> QED
  BY <1>2, <1>3, <1>4, <1>5, <1>6 DEF HeldInvs

LEMMA CancelHeld ==
    ASSUME Inv, HeldInvs, Cancel
    PROVE  HeldInvs'
<1>1. UNCHANGED <<link, bound, current, waiting, tasks, control, active, pending, offer,
      owner, ownerId, cancelled, endAsked, mqtt, worker>>
  BY DEF Cancel, User, callVars, arbiterVars, cmdFrame, transportVars, CmdAt,
         CmdGo, timerVars, CancelTimer, linkVars, connVars, CmdIdle
<1>2. cmd.at = "idle" /\ joining["cmd"] = NoRoom
  BY DEF Cancel, User, CmdAt, HeldInvs, JoinInv
<1>3. CASE active \notin Outgoing
  <2>1. cmd'.at = "finish" /\ UNCHANGED <<ringing, ringThread, timer, joining>>
    BY <1>3, <1>2 DEF Cancel, CmdGo, CmdIdle, timerVars, Inv, CmdTyped, CmdType
  <2>2. HeldInv' /\ HandInv' /\ JoinInv'
    BY <1>1, <1>2, <2>1 DEF HeldInvs, HeldInv, HandInv, JoinInv, InAction
  <2>3. UpInv' /\ WatchInv'
    BY <1>1, <1>2, <2>1 DEF HeldInvs, UpInv, WatchInv, Up, Has, EndsLast, Closing, Rings
  <2> QED
    BY <2>2, <2>3 DEF HeldInvs
<1>4. CASE active \in Outgoing
  <2>1. /\ CancelTimer("cmd") /\ cmd'.at = "cancelling" /\ cmd'.room = cmd.room
    BY <1>4, <1>2 DEF Cancel, Inv, CmdTyped, CmdType
  <2> QED
    BY <1>1, <1>2, <2>1, CancelsHeld DEF InAction
<1> QED
  BY <1>3, <1>4

LEMMA CancelCallHeld ==
    ASSUME Inv, HeldInvs, CancelCall
    PROVE  HeldInvs'
<1>1. UNCHANGED <<serving, link, bound, current, waiting, sess, attempt, media, tasks,
      control, active, pending, offer, answered, withdrawn, ringing, ringThread, timer,
      created, owner, ownerId, cancelled, ticket, endAsked, transition, mqtt, worker>>
  BY DEF CancelCall, CmdAt, Unjoin, CmdGo, callVars, ringVars, arbiterVars, cmdFrame,
         linkVars, connVars, CmdIdle
<1>2. HeldInv'
  BY <1>1, RoomsApart DEF
     HeldInvs, HeldInv, Inv, OfferInv, CmdTyped, CmdType, CmdSteps, LeaseTyped,
     CallTyped, ServeInv, InAction, HandInv, CancelCall, CmdAt, Unjoin, CmdGo, callVars,
     ringVars, arbiterVars, cmdFrame, linkVars, connVars, CmdIdle
<1>3. HandInv'
  BY <1>1, RoomsApart DEF
     HeldInvs, HandInv, Inv, OfferInv, CmdTyped, CmdType, CmdSteps, MqttTyped, MqttType,
     CallTyped, CancelCall, CmdAt, Unjoin, CmdGo, callVars, ringVars, arbiterVars,
     cmdFrame, linkVars, connVars, CmdIdle
<1>4. JoinInv'
  BY <1>1, RoomsApart DEF
     HeldInvs, JoinInv, Inv, TimerTyped, TimerType, CmdTyped, CmdType, CmdSteps,
     MqttTyped, MqttType, WorkerTyped, WorkerType, Threads, Joined, MaybeRoom,
     CancelCall, CmdAt, Unjoin, CmdGo, callVars, ringVars, arbiterVars, cmdFrame,
     linkVars, connVars, CmdIdle
<1>5. WatchInv'
  BY <1>1, RoomsApart DEF
     HeldInvs, WatchInv, Inv, ServeInv, QuietInv, CmdTyped, CmdType, CmdSteps,
     CallTyped, Closing, Rings, InAction, HeldInv, HandInv, JoinInv, OfferInv,
     LeaseTyped, CancelCall, CmdAt, Unjoin, CmdGo, callVars, ringVars, arbiterVars,
     cmdFrame, linkVars, connVars, CmdIdle
<1>6. UpInv'
  BY <1>1 DEF HeldInvs, UpInv, EndsLast, Has, Up
<1> QED
  BY <1>2, <1>3, <1>4, <1>5, <1>6 DEF HeldInvs

LEMMA EndCallHeld ==
    ASSUME Inv, HeldInvs, EndCall
    PROVE  HeldInvs'
<1>1. UNCHANGED <<serving, link, bound, current, waiting, sess, expected, attempt,
      media, tasks, control, pending, offer, withdrawn, ringing, ringThread, timer,
      joining, created, owner, ownerId, cancelled, ticket, transition, mqtt, worker>>
  BY DEF EndCall, CmdAt, NotActive, EndSession, CmdGo, timerVars, ownerVars, cmdFrame,
         transportVars, CmdIdle, linkVars, connVars
<1>2. HeldInv'
  BY <1>1, RoomsApart DEF
     HeldInvs, HeldInv, Inv, OfferInv, CmdTyped, CmdType, CmdSteps, LeaseTyped,
     CallTyped, ServeInv, InAction, HandInv, EndCall, CmdAt, NotActive, EndSession,
     CmdGo, timerVars, ownerVars, cmdFrame, transportVars, linkVars, connVars, CmdIdle
<1>3. HandInv'
  BY <1>1, RoomsApart DEF
     HeldInvs, HandInv, Inv, OfferInv, CmdTyped, CmdType, CmdSteps, MqttTyped, MqttType,
     CallTyped, EndCall, CmdAt, NotActive, EndSession, CmdGo, timerVars, ownerVars,
     cmdFrame, transportVars, linkVars, connVars, CmdIdle
<1>4. JoinInv'
  BY <1>1, RoomsApart DEF
     HeldInvs, JoinInv, Inv, TimerTyped, TimerType, CmdTyped, CmdType, CmdSteps,
     MqttTyped, MqttType, WorkerTyped, WorkerType, Threads, Joined, MaybeRoom, EndCall,
     CmdAt, NotActive, EndSession, CmdGo, timerVars, ownerVars, cmdFrame, transportVars,
     linkVars, connVars, CmdIdle
<1>5. WatchInv'
  BY <1>1, RoomsApart DEF
     HeldInvs, WatchInv, Inv, ServeInv, QuietInv, CmdTyped, CmdType, CmdSteps,
     CallTyped, Closing, Rings, InAction, HeldInv, HandInv, JoinInv, OfferInv,
     LeaseTyped, EndCall, CmdAt, NotActive, EndSession, CmdGo, timerVars, ownerVars,
     cmdFrame, transportVars, linkVars, connVars, CmdIdle
<1>6. UpInv'
  BY <1>1 DEF HeldInvs, UpInv, EndsLast, Has, Up
<1> QED
  BY <1>2, <1>3, <1>4, <1>5, <1>6 DEF HeldInvs

LEMMA FinishHeld ==
    ASSUME Inv, HeldInvs, Finish
    PROVE  HeldInvs'
<1>1. UNCHANGED <<link, current, waiting, sess, expected, attempt, media, tasks,
      control, active, pending, offer, answered, withdrawn, ringing, ringThread, timer,
      joining, created, ticket, mqtt, worker>>
  BY DEF Finish, CmdAt, EndOwner, CmdGo, arbiterVars, transportVars, callVars,
         timerVars, cmdFrame, Release, connVars, CmdIdle, linkVars
<1>2. HeldInv'
  BY <1>1, RoomsApart DEF
     HeldInvs, HeldInv, Inv, OfferInv, CmdTyped, CmdType, CmdSteps, LeaseTyped,
     CallTyped, ServeInv, InAction, HandInv, Finish, CmdAt, EndOwner, CmdGo,
     arbiterVars, transportVars, callVars, timerVars, cmdFrame, Release, connVars,
     linkVars, CmdIdle
<1>3. HandInv'
  BY <1>1, RoomsApart DEF
     HeldInvs, HandInv, Inv, OfferInv, CmdTyped, CmdType, CmdSteps, MqttTyped, MqttType,
     CallTyped, Finish, CmdAt, EndOwner, CmdGo, arbiterVars, transportVars, callVars,
     timerVars, cmdFrame, Release, connVars, linkVars, CmdIdle
<1>4. JoinInv'
  BY <1>1, RoomsApart DEF
     HeldInvs, JoinInv, Inv, TimerTyped, TimerType, CmdTyped, CmdType, CmdSteps,
     MqttTyped, MqttType, WorkerTyped, WorkerType, Threads, Joined, MaybeRoom, Finish,
     CmdAt, EndOwner, CmdGo, arbiterVars, transportVars, callVars, timerVars, cmdFrame,
     Release, connVars, linkVars, CmdIdle
<1>5. UpInv'
  BY <1>1, RoomsApart DEF
     HeldInvs, UpInv, Inv, ServeInv, QuietInv, LinkTyped, LinkType, ConnTyped, Up, Has,
     EndsLast, HeldInv, InAction, Finish, CmdAt, EndOwner, CmdGo, arbiterVars,
     transportVars, callVars, timerVars, cmdFrame, Release, connVars, linkVars, CmdIdle
<1>6. WatchInv'
  BY <1>1, RoomsApart DEF
     HeldInvs, WatchInv, Inv, ServeInv, QuietInv, CmdTyped, CmdType, CmdSteps,
     CallTyped, Closing, Rings, InAction, HeldInv, HandInv, JoinInv, OfferInv,
     LeaseTyped, Finish, CmdAt, EndOwner, CmdGo, arbiterVars, transportVars, callVars,
     timerVars, cmdFrame, Release, connVars, linkVars, CmdIdle
<1> QED
  BY <1>2, <1>3, <1>4, <1>5, <1>6 DEF HeldInvs

LEMMA FinishedHeld ==
    ASSUME Inv, HeldInvs, Finished
    PROVE  HeldInvs'
<1>1. UNCHANGED <<serving, link, bound, current, waiting, sess, expected, attempt,
      media, tasks, control, active, pending, offer, answered, withdrawn, ringing,
      ringThread, timer, joining, created, owner, ownerId, cancelled, ticket, endAsked,
      transition, mqtt, worker>>
  BY DEF Finished, CmdAt, CmdGo, callVars, timerVars, arbiterVars, cmdFrame,
         transportVars, CmdIdle, linkVars, connVars
<1>2. HeldInv'
  BY <1>1, RoomsApart DEF
     HeldInvs, HeldInv, Inv, OfferInv, CmdTyped, CmdType, CmdSteps, LeaseTyped,
     CallTyped, ServeInv, InAction, HandInv, Finished, CmdAt, CmdGo, callVars,
     timerVars, arbiterVars, cmdFrame, transportVars, linkVars, connVars, CmdIdle
<1>3. HandInv'
  BY <1>1, RoomsApart DEF
     HeldInvs, HandInv, Inv, OfferInv, CmdTyped, CmdType, CmdSteps, MqttTyped, MqttType,
     CallTyped, Finished, CmdAt, CmdGo, callVars, timerVars, arbiterVars, cmdFrame,
     transportVars, linkVars, connVars, CmdIdle
<1>4. JoinInv'
  BY <1>1, RoomsApart DEF
     HeldInvs, JoinInv, Inv, TimerTyped, TimerType, CmdTyped, CmdType, CmdSteps,
     MqttTyped, MqttType, WorkerTyped, WorkerType, Threads, Joined, MaybeRoom, Finished,
     CmdAt, CmdGo, callVars, timerVars, arbiterVars, cmdFrame, transportVars, linkVars,
     connVars, CmdIdle
<1>5. WatchInv'
  BY <1>1, RoomsApart DEF
     HeldInvs, WatchInv, Inv, ServeInv, QuietInv, CmdTyped, CmdType, CmdSteps,
     CallTyped, Closing, Rings, InAction, HeldInv, HandInv, JoinInv, OfferInv,
     LeaseTyped, Finished, CmdAt, CmdGo, callVars, timerVars, arbiterVars, cmdFrame,
     transportVars, linkVars, connVars, CmdIdle
<1>6. UpInv'
  BY <1>1 DEF HeldInvs, UpInv, EndsLast, Has, Up
<1> QED
  BY <1>2, <1>3, <1>4, <1>5, <1>6 DEF HeldInvs

LEMMA RejectHeld ==
    ASSUME Inv, HeldInvs, Reject
    PROVE  HeldInvs'
<1>1. UNCHANGED <<serving, link, bound, current, waiting, sess, expected, attempt,
      media, tasks, control, active, offer, answered, ringing, ringThread, timer,
      joining, created, owner, ownerId, cancelled, ticket, endAsked, transition, mqtt,
      worker>>
  BY DEF Reject, User, NotPending, timerVars, arbiterVars, cmdFrame, transportVars,
         CmdAt, linkVars, connVars
<1>2. HeldInv'
  BY <1>1, RoomsApart DEF
     HeldInvs, HeldInv, Inv, OfferInv, CmdTyped, CmdType, CmdSteps, LeaseTyped,
     CallTyped, ServeInv, InAction, HandInv, Reject, User, NotPending, timerVars,
     arbiterVars, cmdFrame, transportVars, CmdAt, linkVars, connVars, CmdIdle
<1>3. HandInv'
  BY <1>1, RoomsApart DEF
     HeldInvs, HandInv, Inv, OfferInv, CmdTyped, CmdType, CmdSteps, MqttTyped, MqttType,
     CallTyped, Reject, User, NotPending, timerVars, arbiterVars, cmdFrame,
     transportVars, CmdAt, linkVars, connVars, CmdIdle
<1>4. JoinInv'
  BY <1>1, RoomsApart DEF
     HeldInvs, JoinInv, Inv, TimerTyped, TimerType, CmdTyped, CmdType, CmdSteps,
     MqttTyped, MqttType, WorkerTyped, WorkerType, Threads, Joined, MaybeRoom, Reject,
     User, NotPending, timerVars, arbiterVars, cmdFrame, transportVars, CmdAt, linkVars,
     connVars, CmdIdle
<1>5. WatchInv'
  BY <1>1, RoomsApart DEF
     HeldInvs, WatchInv, Inv, ServeInv, QuietInv, CmdTyped, CmdType, CmdSteps,
     CallTyped, Closing, Rings, InAction, HeldInv, HandInv, JoinInv, OfferInv,
     LeaseTyped, Reject, User, NotPending, timerVars, arbiterVars, cmdFrame,
     transportVars, CmdAt, linkVars, connVars, CmdIdle
<1>6. UpInv'
  BY <1>1 DEF HeldInvs, UpInv, EndsLast, Has, Up
<1> QED
  BY <1>2, <1>3, <1>4, <1>5, <1>6 DEF HeldInvs

LEMMA ExpirePendingHeld ==
    ASSUME Inv, HeldInvs, ExpirePending
    PROVE  HeldInvs'
<1>1. UNCHANGED <<serving, link, bound, current, waiting, sess, expected, attempt,
      media, tasks, control, active, offer, answered, ringing, ringThread, timer,
      joining, created, owner, ownerId, cancelled, ticket, endAsked, transition, mqtt,
      worker>>
  BY DEF ExpirePending, CmdAt, NotPending, timerVars, arbiterVars, cmdFrame,
         transportVars, linkVars, connVars
<1>2. HeldInv'
  BY <1>1, RoomsApart DEF
     HeldInvs, HeldInv, Inv, OfferInv, CmdTyped, CmdType, CmdSteps, LeaseTyped,
     CallTyped, ServeInv, InAction, HandInv, ExpirePending, CmdAt, NotPending,
     timerVars, arbiterVars, cmdFrame, transportVars, linkVars, connVars, CmdIdle
<1>3. HandInv'
  BY <1>1, RoomsApart DEF
     HeldInvs, HandInv, Inv, OfferInv, CmdTyped, CmdType, CmdSteps, MqttTyped, MqttType,
     CallTyped, ExpirePending, CmdAt, NotPending, timerVars, arbiterVars, cmdFrame,
     transportVars, linkVars, connVars, CmdIdle
<1>4. JoinInv'
  BY <1>1, RoomsApart DEF
     HeldInvs, JoinInv, Inv, TimerTyped, TimerType, CmdTyped, CmdType, CmdSteps,
     MqttTyped, MqttType, WorkerTyped, WorkerType, Threads, Joined, MaybeRoom,
     ExpirePending, CmdAt, NotPending, timerVars, arbiterVars, cmdFrame, transportVars,
     linkVars, connVars, CmdIdle
<1>5. WatchInv'
  BY <1>1, RoomsApart DEF
     HeldInvs, WatchInv, Inv, ServeInv, QuietInv, CmdTyped, CmdType, CmdSteps,
     CallTyped, Closing, Rings, InAction, HeldInv, HandInv, JoinInv, OfferInv,
     LeaseTyped, ExpirePending, CmdAt, NotPending, timerVars, arbiterVars, cmdFrame,
     transportVars, linkVars, connVars, CmdIdle
<1>6. UpInv'
  BY <1>1 DEF HeldInvs, UpInv, EndsLast, Has, Up
<1> QED
  BY <1>2, <1>3, <1>4, <1>5, <1>6 DEF HeldInvs

LEMMA DropTicketHeld ==
    ASSUME Inv, HeldInvs, DropTicket
    PROVE  HeldInvs'
<1>1. UNCHANGED <<serving, link, bound, current, waiting, sess, expected, attempt,
      media, tasks, control, active, pending, offer, answered, withdrawn, ringing,
      ringThread, timer, joining, created, owner, ownerId, endAsked, transition, mqtt,
      worker>>
  BY DEF DropTicket, CmdAt, ClearPendingId, CmdGo, callVars, timerVars, cmdFrame,
         transportVars, CmdIdle, linkVars, connVars
<1>2. HeldInv'
  BY <1>1, RoomsApart DEF
     HeldInvs, HeldInv, Inv, OfferInv, CmdTyped, CmdType, CmdSteps, LeaseTyped,
     CallTyped, ServeInv, InAction, HandInv, DropTicket, CmdAt, ClearPendingId, CmdGo,
     callVars, timerVars, cmdFrame, transportVars, linkVars, connVars, CmdIdle
<1>3. HandInv'
  BY <1>1, RoomsApart DEF
     HeldInvs, HandInv, Inv, OfferInv, CmdTyped, CmdType, CmdSteps, MqttTyped, MqttType,
     CallTyped, DropTicket, CmdAt, ClearPendingId, CmdGo, callVars, timerVars, cmdFrame,
     transportVars, linkVars, connVars, CmdIdle
<1>4. JoinInv'
  BY <1>1, RoomsApart DEF
     HeldInvs, JoinInv, Inv, TimerTyped, TimerType, CmdTyped, CmdType, CmdSteps,
     MqttTyped, MqttType, WorkerTyped, WorkerType, Threads, Joined, MaybeRoom,
     DropTicket, CmdAt, ClearPendingId, CmdGo, callVars, timerVars, cmdFrame,
     transportVars, linkVars, connVars, CmdIdle
<1>5. WatchInv'
  BY <1>1, RoomsApart DEF
     HeldInvs, WatchInv, Inv, ServeInv, QuietInv, CmdTyped, CmdType, CmdSteps,
     CallTyped, Closing, Rings, InAction, HeldInv, HandInv, JoinInv, OfferInv,
     LeaseTyped, DropTicket, CmdAt, ClearPendingId, CmdGo, callVars, timerVars,
     cmdFrame, transportVars, linkVars, connVars, CmdIdle
<1>6. UpInv'
  BY <1>1 DEF HeldInvs, UpInv, EndsLast, Has, Up
<1> QED
  BY <1>2, <1>3, <1>4, <1>5, <1>6 DEF HeldInvs

LEMMA CallIncomingHeld ==
    ASSUME Inv, HeldInvs, NEW r \in Incoming, CallIncoming(r)
    PROVE  HeldInvs'
<1>1. UNCHANGED <<serving, link, bound, current, waiting, sess, expected, attempt,
      media, tasks, control, active, pending, offer, answered, withdrawn, ringing,
      ringThread, timer, joining, created, owner, ownerId, cancelled, endAsked,
      transition, cmd, worker>>
  BY DEF CallIncoming, MqttAt, callVars, timerVars, mqttFrame, transportVars, linkVars,
         connVars
<1>2. HandInv'
  BY <1>1, RoomsApart DEF
     HeldInvs, HandInv, Inv, OfferInv, CmdTyped, CmdType, CmdSteps, MqttTyped, MqttType,
     CallTyped, CallIncoming, MqttAt, callVars, timerVars, mqttFrame, transportVars,
     linkVars, connVars, CmdAt, CmdIdle
<1>3. JoinInv'
  BY <1>1, RoomsApart DEF
     HeldInvs, JoinInv, Inv, TimerTyped, TimerType, CmdTyped, CmdType, CmdSteps,
     MqttTyped, MqttType, WorkerTyped, WorkerType, Threads, Joined, MaybeRoom,
     CallIncoming, MqttAt, callVars, timerVars, mqttFrame, transportVars, linkVars,
     connVars, CmdAt, CmdIdle
<1>4. WatchInv'
  BY <1>1, RoomsApart DEF
     HeldInvs, WatchInv, Inv, ServeInv, QuietInv, CmdTyped, CmdType, CmdSteps,
     CallTyped, Closing, Rings, InAction, HeldInv, HandInv, JoinInv, OfferInv,
     LeaseTyped, CallIncoming, MqttAt, callVars, timerVars, mqttFrame, transportVars,
     linkVars, connVars, CmdAt, CmdIdle
<1>5. HeldInv' /\ UpInv'
  BY <1>1 DEF HeldInvs, HeldInv, UpInv, EndsLast, Has, InAction, Up
<1> QED
  BY <1>2, <1>3, <1>4, <1>5 DEF HeldInvs

LEMMA RoomCancelHeld ==
    ASSUME Inv, HeldInvs, NEW r \in Incoming \cup created, RoomCancel(r)
    PROVE  HeldInvs'
<1>1. UNCHANGED <<link, bound, current, waiting, tasks, control, offer, timer, owner,
      ownerId, cancelled, endAsked, cmd, worker>>
  BY DEF RoomCancel, MqttAt, NotPending, timerVars, NotActive, CancelTimer, callVars,
         arbiterVars, mqttFrame, transportVars, linkVars, connVars
<1>2. mqtt.at = "idle" /\ joining["mqtt"] = NoRoom
  BY DEF RoomCancel, MqttAt, HeldInvs, JoinInv
<1>3. \/ /\ mqtt'.at = "told" /\ UNCHANGED <<active, ringing, ringThread, joining>>
         /\ pending' \in {pending, NoRoom}
      \/ /\ mqtt'.at = "hangs" /\ active' = NoRoom /\ CancelTimer("mqtt")
         /\ UNCHANGED pending
  <2>1. CASE pending = r
    BY <2>1 DEF RoomCancel, NotPending, timerVars
  <2>2. CASE pending # r /\ active = r
    BY <2>2 DEF RoomCancel, NotActive
  <2>3. CASE pending # r /\ active # r
    BY <2>3 DEF RoomCancel, callVars, timerVars
  <2> QED
    BY <2>1, <2>2, <2>3
<1>4. HeldInv'
  BY <1>1, <1>3, RoomsApart DEF HeldInvs, HeldInv, InAction
<1>5. HandInv'
  BY <1>1, <1>2, <1>3 DEF HeldInvs, HandInv
<1>6. JoinInv'
  BY <1>1, <1>2, <1>3 DEF HeldInvs, JoinInv, CancelTimer, Inv, TimerTyped, Threads
<1>7. UpInv'
  BY <1>1 DEF HeldInvs, UpInv, Up, Has, EndsLast
<1>8. WatchInv'
  BY <1>1, <1>2, <1>3 DEF HeldInvs, WatchInv, Closing, Rings
<1> QED
  BY <1>4, <1>5, <1>6, <1>7, <1>8 DEF HeldInvs

LEMMA CallRejectHeld ==
    ASSUME Inv, HeldInvs, NEW r \in created, CallReject(r)
    PROVE  HeldInvs'
<1>1. UNCHANGED <<serving, link, bound, current, waiting, sess, expected, attempt,
      media, tasks, control, pending, offer, withdrawn, timer, created, owner, ownerId,
      cancelled, ticket, endAsked, transition, cmd, worker>>
  BY DEF CallReject, MqttAt, NotActive, CancelTimer, callVars, timerVars, arbiterVars,
         mqttFrame, transportVars, linkVars, connVars
<1>2. HeldInv'
  BY <1>1, RoomsApart DEF
     HeldInvs, HeldInv, Inv, OfferInv, CmdTyped, CmdType, CmdSteps, LeaseTyped,
     CallTyped, ServeInv, InAction, HandInv, CallReject, MqttAt, NotActive, CancelTimer,
     callVars, timerVars, arbiterVars, mqttFrame, transportVars, linkVars, connVars,
     CmdAt, CmdIdle
<1>3. HandInv'
  BY <1>1, RoomsApart DEF
     HeldInvs, HandInv, Inv, OfferInv, CmdTyped, CmdType, CmdSteps, MqttTyped, MqttType,
     CallTyped, CallReject, MqttAt, NotActive, CancelTimer, callVars, timerVars,
     arbiterVars, mqttFrame, transportVars, linkVars, connVars, CmdAt, CmdIdle
<1>4. JoinInv'
  BY <1>1, RoomsApart DEF
     HeldInvs, JoinInv, Inv, TimerTyped, TimerType, CmdTyped, CmdType, CmdSteps,
     MqttTyped, MqttType, WorkerTyped, WorkerType, Threads, Joined, MaybeRoom,
     CallReject, MqttAt, NotActive, CancelTimer, callVars, timerVars, arbiterVars,
     mqttFrame, transportVars, linkVars, connVars, CmdAt, CmdIdle
<1>5. WatchInv'
  BY <1>1, RoomsApart DEF
     HeldInvs, WatchInv, Inv, ServeInv, QuietInv, CmdTyped, CmdType, CmdSteps,
     CallTyped, Closing, Rings, InAction, HeldInv, HandInv, JoinInv, OfferInv,
     LeaseTyped, CallReject, MqttAt, NotActive, CancelTimer, callVars, timerVars,
     arbiterVars, mqttFrame, transportVars, linkVars, connVars, CmdAt, CmdIdle
<1>6. UpInv'
  BY <1>1 DEF HeldInvs, UpInv, EndsLast, Has, Up
<1> QED
  BY <1>2, <1>3, <1>4, <1>5, <1>6 DEF HeldInvs

LEMMA OnCallIncomingHeld ==
    ASSUME Inv, HeldInvs, OnCallIncoming
    PROVE  HeldInvs'
<1>1. UNCHANGED <<serving, link, bound, current, waiting, sess, expected, attempt,
      media, tasks, control, active, answered, withdrawn, ringing, ringThread, timer,
      joining, created, owner, ownerId, cancelled, ticket, endAsked, transition, cmd,
      worker>>
  BY DEF OnCallIncoming, MqttAt, MqttGo, timerVars, arbiterVars, mqttFrame,
         transportVars, linkVars, connVars
<1>2. HeldInv'
  BY <1>1, RoomsApart DEF
     HeldInvs, HeldInv, Inv, OfferInv, CmdTyped, CmdType, CmdSteps, LeaseTyped,
     CallTyped, ServeInv, InAction, HandInv, OnCallIncoming, MqttAt, MqttGo, timerVars,
     arbiterVars, mqttFrame, transportVars, linkVars, connVars, CmdAt, CmdIdle
<1>3. HandInv'
  BY <1>1, RoomsApart DEF
     HeldInvs, HandInv, Inv, OfferInv, CmdTyped, CmdType, CmdSteps, MqttTyped, MqttType,
     CallTyped, OnCallIncoming, MqttAt, MqttGo, timerVars, arbiterVars, mqttFrame,
     transportVars, linkVars, connVars, CmdAt, CmdIdle
<1>4. JoinInv'
  BY <1>1, RoomsApart DEF
     HeldInvs, JoinInv, Inv, TimerTyped, TimerType, CmdTyped, CmdType, CmdSteps,
     MqttTyped, MqttType, WorkerTyped, WorkerType, Threads, Joined, MaybeRoom,
     OnCallIncoming, MqttAt, MqttGo, timerVars, arbiterVars, mqttFrame, transportVars,
     linkVars, connVars, CmdAt, CmdIdle
<1>5. WatchInv'
  BY <1>1, RoomsApart DEF
     HeldInvs, WatchInv, Inv, ServeInv, QuietInv, CmdTyped, CmdType, CmdSteps,
     CallTyped, Closing, Rings, InAction, HeldInv, HandInv, JoinInv, OfferInv,
     LeaseTyped, OnCallIncoming, MqttAt, MqttGo, timerVars, arbiterVars, mqttFrame,
     transportVars, linkVars, connVars, CmdAt, CmdIdle
<1>6. UpInv'
  BY <1>1 DEF HeldInvs, UpInv, EndsLast, Has, Up
<1> QED
  BY <1>2, <1>3, <1>4, <1>5, <1>6 DEF HeldInvs

LEMMA RungHeld ==
    ASSUME Inv, HeldInvs, Rung
    PROVE  HeldInvs'
<1>1. UNCHANGED <<serving, link, bound, current, waiting, sess, expected, attempt,
      media, tasks, control, active, pending, offer, answered, withdrawn, ringing,
      ringThread, timer, joining, created, owner, ownerId, endAsked, transition, cmd,
      worker>>
  BY DEF Rung, MqttAt, ClearPendingId, MqttGo, callVars, timerVars, mqttFrame,
         transportVars, linkVars, connVars
<1>2. HeldInv'
  BY <1>1, RoomsApart DEF
     HeldInvs, HeldInv, Inv, OfferInv, CmdTyped, CmdType, CmdSteps, LeaseTyped,
     CallTyped, ServeInv, InAction, HandInv, Rung, MqttAt, ClearPendingId, MqttGo,
     callVars, timerVars, mqttFrame, transportVars, linkVars, connVars, CmdAt, CmdIdle
<1>3. HandInv'
  BY <1>1, RoomsApart DEF
     HeldInvs, HandInv, Inv, OfferInv, CmdTyped, CmdType, CmdSteps, MqttTyped, MqttType,
     CallTyped, Rung, MqttAt, ClearPendingId, MqttGo, callVars, timerVars, mqttFrame,
     transportVars, linkVars, connVars, CmdAt, CmdIdle
<1>4. JoinInv'
  BY <1>1, RoomsApart DEF
     HeldInvs, JoinInv, Inv, TimerTyped, TimerType, CmdTyped, CmdType, CmdSteps,
     MqttTyped, MqttType, WorkerTyped, WorkerType, Threads, Joined, MaybeRoom, Rung,
     MqttAt, ClearPendingId, MqttGo, callVars, timerVars, mqttFrame, transportVars,
     linkVars, connVars, CmdAt, CmdIdle
<1>5. WatchInv'
  BY <1>1, RoomsApart DEF
     HeldInvs, WatchInv, Inv, ServeInv, QuietInv, CmdTyped, CmdType, CmdSteps,
     CallTyped, Closing, Rings, InAction, HeldInv, HandInv, JoinInv, OfferInv,
     LeaseTyped, Rung, MqttAt, ClearPendingId, MqttGo, callVars, timerVars, mqttFrame,
     transportVars, linkVars, connVars, CmdAt, CmdIdle
<1>6. UpInv'
  BY <1>1 DEF HeldInvs, UpInv, EndsLast, Has, Up
<1> QED
  BY <1>2, <1>3, <1>4, <1>5, <1>6 DEF HeldInvs

LEMMA RoomCancelEndsHeld ==
    ASSUME Inv, HeldInvs, RoomCancelEnds
    PROVE  HeldInvs'
<1>1. UNCHANGED <<serving, bound, tasks, control, active, pending, offer, answered,
      withdrawn, ringing, ringThread, timer, created, owner, ownerId, cancelled, ticket,
      transition, cmd, worker>>
  BY DEF RoomCancelEnds, MqttAt, Unjoin, CallIsActive, HangUp, transportVars,
         EndSession, MqttGo, callVars, ringVars, mqttFrame, ownerVars, linkVars,
         connVars
<1>2. HeldInv'
  BY <1>1, RoomsApart DEF
     HeldInvs, HeldInv, Inv, OfferInv, CmdTyped, CmdType, CmdSteps, LeaseTyped,
     CallTyped, ServeInv, InAction, HandInv, RoomCancelEnds, MqttAt, Unjoin,
     CallIsActive, HangUp, transportVars, EndSession, MqttGo, callVars, ringVars,
     mqttFrame, ownerVars, linkVars, connVars, CmdAt, CmdIdle
<1>3. HandInv'
  BY <1>1, RoomsApart DEF
     HeldInvs, HandInv, Inv, OfferInv, CmdTyped, CmdType, CmdSteps, MqttTyped, MqttType,
     CallTyped, RoomCancelEnds, MqttAt, Unjoin, CallIsActive, HangUp, transportVars,
     EndSession, MqttGo, callVars, ringVars, mqttFrame, ownerVars, linkVars, connVars,
     CmdAt, CmdIdle
<1>4. JoinInv'
  BY <1>1, RoomsApart DEF
     HeldInvs, JoinInv, Inv, TimerTyped, TimerType, CmdTyped, CmdType, CmdSteps,
     MqttTyped, MqttType, WorkerTyped, WorkerType, Threads, Joined, MaybeRoom,
     RoomCancelEnds, MqttAt, Unjoin, CallIsActive, HangUp, transportVars, EndSession,
     MqttGo, callVars, ringVars, mqttFrame, ownerVars, linkVars, connVars, CmdAt,
     CmdIdle
<1>5. UpInv'
  BY <1>1, RoomsApart DEF
     HeldInvs, UpInv, Inv, ServeInv, QuietInv, LinkTyped, LinkType, ConnTyped, Up, Has,
     EndsLast, HeldInv, InAction, RoomCancelEnds, MqttAt, Unjoin, CallIsActive, HangUp,
     transportVars, EndSession, MqttGo, callVars, ringVars, mqttFrame, ownerVars,
     linkVars, connVars, CmdAt, CmdIdle
<1>6. WatchInv'
  BY <1>1, RoomsApart DEF
     HeldInvs, WatchInv, Inv, ServeInv, QuietInv, CmdTyped, CmdType, CmdSteps,
     CallTyped, Closing, Rings, InAction, HeldInv, HandInv, JoinInv, OfferInv,
     LeaseTyped, RoomCancelEnds, MqttAt, Unjoin, CallIsActive, HangUp, transportVars,
     EndSession, MqttGo, callVars, ringVars, mqttFrame, ownerVars, linkVars, connVars,
     CmdAt, CmdIdle
<1> QED
  BY <1>2, <1>3, <1>4, <1>5, <1>6 DEF HeldInvs

LEMMA CallRejectEndsHeld ==
    ASSUME Inv, HeldInvs, CallRejectEnds
    PROVE  HeldInvs'
<1>1. UNCHANGED <<serving, link, bound, current, waiting, sess, attempt, media, tasks,
      control, active, pending, offer, answered, withdrawn, ringing, ringThread, timer,
      created, owner, ownerId, cancelled, ticket, transition, cmd, worker>>
  BY DEF CallRejectEnds, MqttAt, Unjoin, EndSession, MqttGo, callVars, ringVars,
         mqttFrame, ownerVars, linkVars, connVars
<1>2. HeldInv'
  BY <1>1, RoomsApart DEF
     HeldInvs, HeldInv, Inv, OfferInv, CmdTyped, CmdType, CmdSteps, LeaseTyped,
     CallTyped, ServeInv, InAction, HandInv, CallRejectEnds, MqttAt, Unjoin, EndSession,
     MqttGo, callVars, ringVars, mqttFrame, ownerVars, linkVars, connVars, CmdAt,
     CmdIdle
<1>3. HandInv'
  BY <1>1, RoomsApart DEF
     HeldInvs, HandInv, Inv, OfferInv, CmdTyped, CmdType, CmdSteps, MqttTyped, MqttType,
     CallTyped, CallRejectEnds, MqttAt, Unjoin, EndSession, MqttGo, callVars, ringVars,
     mqttFrame, ownerVars, linkVars, connVars, CmdAt, CmdIdle
<1>4. JoinInv'
  BY <1>1, RoomsApart DEF
     HeldInvs, JoinInv, Inv, TimerTyped, TimerType, CmdTyped, CmdType, CmdSteps,
     MqttTyped, MqttType, WorkerTyped, WorkerType, Threads, Joined, MaybeRoom,
     CallRejectEnds, MqttAt, Unjoin, EndSession, MqttGo, callVars, ringVars, mqttFrame,
     ownerVars, linkVars, connVars, CmdAt, CmdIdle
<1>5. WatchInv'
  BY <1>1, RoomsApart DEF
     HeldInvs, WatchInv, Inv, ServeInv, QuietInv, CmdTyped, CmdType, CmdSteps,
     CallTyped, Closing, Rings, InAction, HeldInv, HandInv, JoinInv, OfferInv,
     LeaseTyped, CallRejectEnds, MqttAt, Unjoin, EndSession, MqttGo, callVars, ringVars,
     mqttFrame, ownerVars, linkVars, connVars, CmdAt, CmdIdle
<1>6. UpInv'
  BY <1>1 DEF HeldInvs, UpInv, EndsLast, Has, Up
<1> QED
  BY <1>2, <1>3, <1>4, <1>5, <1>6 DEF HeldInvs

LEMMA ToldHeld ==
    ASSUME Inv, HeldInvs, Told
    PROVE  HeldInvs'
<1>1. UNCHANGED <<serving, link, bound, current, waiting, sess, expected, attempt,
      media, tasks, control, active, pending, offer, answered, withdrawn, ringing,
      ringThread, timer, joining, created, owner, ownerId, transition, cmd, worker>>
  BY DEF Told, MqttAt, CancelId, MqttGo, callVars, timerVars, mqttFrame, transportVars,
         linkVars, connVars
<1>2. HeldInv'
  BY <1>1, RoomsApart DEF
     HeldInvs, HeldInv, Inv, OfferInv, CmdTyped, CmdType, CmdSteps, LeaseTyped,
     CallTyped, ServeInv, InAction, HandInv, Told, MqttAt, CancelId, MqttGo, callVars,
     timerVars, mqttFrame, transportVars, linkVars, connVars, CmdAt, CmdIdle
<1>3. HandInv'
  BY <1>1, RoomsApart DEF
     HeldInvs, HandInv, Inv, OfferInv, CmdTyped, CmdType, CmdSteps, MqttTyped, MqttType,
     CallTyped, Told, MqttAt, CancelId, MqttGo, callVars, timerVars, mqttFrame,
     transportVars, linkVars, connVars, CmdAt, CmdIdle
<1>4. JoinInv'
  BY <1>1, RoomsApart DEF
     HeldInvs, JoinInv, Inv, TimerTyped, TimerType, CmdTyped, CmdType, CmdSteps,
     MqttTyped, MqttType, WorkerTyped, WorkerType, Threads, Joined, MaybeRoom, Told,
     MqttAt, CancelId, MqttGo, callVars, timerVars, mqttFrame, transportVars, linkVars,
     connVars, CmdAt, CmdIdle
<1>5. WatchInv'
  BY <1>1, RoomsApart DEF
     HeldInvs, WatchInv, Inv, ServeInv, QuietInv, CmdTyped, CmdType, CmdSteps,
     CallTyped, Closing, Rings, InAction, HeldInv, HandInv, JoinInv, OfferInv,
     LeaseTyped, Told, MqttAt, CancelId, MqttGo, callVars, timerVars, mqttFrame,
     transportVars, linkVars, connVars, CmdAt, CmdIdle
<1>6. UpInv'
  BY <1>1 DEF HeldInvs, UpInv, EndsLast, Has, Up
<1> QED
  BY <1>2, <1>3, <1>4, <1>5, <1>6 DEF HeldInvs

LEMMA AcceptingHeld ==
    ASSUME Inv, HeldInvs, Accepting
    PROVE  HeldInvs'
<1>1. UNCHANGED <<serving, bound, expected, attempt, control, active, pending, offer,
      answered, withdrawn, ringing, ringThread, timer, joining, created, owner, ownerId,
      cancelled, ticket, endAsked, transition, cmd, mqtt, worker>>
  BY DEF Accepting, WorkerIdle, AcceptTask, sessionVars, connVars, callVars, timerVars,
         arbiterVars, threadVars
<1>2. UpInv'
  <2> DEFINE r == Head(tasks).room
  <2>1. tasks # <<>> /\ tasks \in Seq(TaskType) /\ Head(tasks).do = "accept" /\ r \in Rooms
    BY HeadTyped DEF Accepting, WorkerIdle, Inv, TasksTyped
  <2>2. Head(tasks) = Task("accept", r) /\ tasks' = Tail(tasks)
    BY <2>1, HeadTask DEF Accepting, AcceptTask, Inv
  <2>3. \A s : Head(tasks) # Task("finish", s)
    BY <2>2, DoApart
  <2>4. \A s : /\ Has(tasks, Task("finish", s)) => Has(tasks', Task("finish", s))
               /\ EndsLast(tasks, s) => EndsLast(tasks', s)
    BY <2>1, <2>2, <2>3, HasTail, EndsLastTail
  <2>5. \A s : s # r /\ Has(tasks, Task("accept", s)) => Has(tasks', Task("accept", s))
    <3>1. \A s : s # r => Head(tasks) # Task("accept", s)
      BY <2>2, DoApart
    <3> QED
      BY <2>1, <2>2, <3>1, HasTail
  <2>6. \A s \in Rooms : Up(s) => s \in bound' /\ link'[s] # "none"
    <3>1. link' = link \/ \E x : link' = Disconnect(link, x)
      BY DEF Accepting, AcceptTask
    <3>2. link \in LinkType
      BY DEF Inv, LinkTyped
    <3> QED
      BY <1>1, <3>1, <3>2, DisconnectUp DEF Up
  <2>7. CASE serving /\ waiting = r
    <3>1. current' = r /\ waiting' = NoRoom
      BY <2>7 DEF Accepting, AcceptTask
    <3>2. Up(r) \/ EndsLast(tasks, r)
             => (r \in bound' /\ link'[r] # "none") \/ Has(tasks', Task("finish", r))
      BY <2>1, <2>4, <2>6, EndsLastHas
    <3>3. r # NoRoom
      BY <2>1, RoomsApart
    <3>4. owner = "HELD" /\ ownerId = NoRoom => Up(r) \/ EndsLast(tasks, r)
      BY <2>7, <3>3 DEF HeldInvs, UpInv
    <3>5. Up(current)' <=> (r \in bound' /\ link'[r] # "none")
      BY <3>1 DEF Up
    <3> QED
      BY <1>1, <3>1, <3>2, <3>4, <3>5 DEF UpInv
  <2>8. CASE ~(serving /\ waiting = r)
    <3>1. UNCHANGED <<current, waiting>>
      BY <2>8 DEF Accepting, AcceptTask, connVars
    <3>2. current \in Rooms \cup {NoRoom} /\ waiting \in Rooms \cup {NoRoom}
      BY DEF Inv, ConnTyped, MaybeRoom
    <3>3. owner = "HELD" => waiting # r
      BY <2>8 DEF Inv, ServeInv
    <3>4. Up(current)' <=> (current \in bound' /\ link'[current] # "none")
      BY <3>1 DEF Up
    <3>5. Up(waiting)' <=> (waiting \in bound' /\ link'[waiting] # "none")
      BY <3>1 DEF Up
    <3> QED
      BY <1>1, <2>4, <2>5, <2>6, <3>1, <3>2, <3>3, <3>4, <3>5 DEF HeldInvs, UpInv
  <2> QED
    BY <2>7, <2>8
<1>3. WatchInv'
  <2>1. Head(tasks).room # NoRoom
    BY HeadTyped, RoomsApart DEF Accepting, WorkerIdle, Inv
  <2>2. current # NoRoom => current' # NoRoom
    BY <2>1 DEF Accepting, AcceptTask, connVars
  <2> QED
    BY <1>1, <2>2 DEF HeldInvs, WatchInv, Closing, Rings
<1>4. HeldInv' /\ HandInv' /\ JoinInv'
  BY <1>1 DEF HeldInvs, HeldInv, HandInv, JoinInv, InAction
<1> QED
  BY <1>2, <1>3, <1>4 DEF HeldInvs

LEMMA EndTaskHeld ==
    ASSUME Inv, HeldInvs, EndTask
    PROVE  HeldInvs'
<1>1. UNCHANGED <<serving, bound, expected, attempt, active, pending, offer, answered,
      withdrawn, timer, created, owner, ownerId, cancelled, ticket, endAsked,
      transition, cmd, mqtt>>
  BY DEF EndTask, WorkerIdle, Ending, LetGo, CancelTimer, timerVars, callVars,
         arbiterVars, workerFrame
<1>2. JoinInv'
  BY <1>1, RoomsApart DEF
     HeldInvs, JoinInv, Inv, TimerTyped, TimerType, CmdTyped, CmdType, CmdSteps,
     MqttTyped, MqttType, WorkerTyped, WorkerType, Threads, Joined, MaybeRoom, EndTask,
     WorkerIdle, Ending, LetGo, CancelTimer, timerVars, callVars, arbiterVars,
     workerFrame, CmdAt, CmdIdle
<1>3. UpInv'
  <2>1. \E b \in BOOLEAN : Ending(b)
    BY DEF EndTask
  <2>2. tasks # <<>> /\ Head(tasks).do \in {"finish", "disconnect"}
    BY DEF EndTask, WorkerIdle
  <2> QED
    BY <1>1, <2>1, <2>2, EndingUp
<1>4. WatchInv'
  BY <1>1, RoomsApart DEF
     HeldInvs, WatchInv, Inv, ServeInv, QuietInv, CmdTyped, CmdType, CmdSteps,
     CallTyped, Closing, Rings, InAction, HeldInv, HandInv, JoinInv, OfferInv,
     LeaseTyped, EndTask, WorkerIdle, Ending, LetGo, CancelTimer, timerVars, callVars,
     arbiterVars, workerFrame, CmdAt, CmdIdle
<1>5. HeldInv' /\ HandInv'
  BY <1>1 DEF HeldInvs, HeldInv, HandInv, InAction
<1> QED
  BY <1>2, <1>3, <1>4, <1>5 DEF HeldInvs

LEMMA CommandTaskHeld ==
    ASSUME Inv, HeldInvs, CommandTask
    PROVE  HeldInvs'
<1>1. UNCHANGED <<serving, bound, expected, attempt, active, pending, offer, answered,
      withdrawn, timer, created, owner, ownerId, cancelled, ticket, endAsked,
      transition, cmd, mqtt>>
  BY DEF CommandTask, WorkerIdle, Ending, StartMedia, CancelTimer, callVars,
         arbiterVars, workerFrame, linkVars, sessionVars, connVars, LetGo, timerVars,
         threadVars
<1>2. JoinInv'
  BY <1>1, RoomsApart DEF
     HeldInvs, JoinInv, Inv, TimerTyped, TimerType, CmdTyped, CmdType, CmdSteps,
     MqttTyped, MqttType, WorkerTyped, WorkerType, Threads, Joined, MaybeRoom,
     CommandTask, WorkerIdle, Ending, StartMedia, CancelTimer, callVars, arbiterVars,
     workerFrame, linkVars, sessionVars, connVars, LetGo, timerVars, threadVars, CmdAt,
     CmdIdle
<1>3. UpInv'
  <2>1. tasks # <<>> /\ Head(tasks).do = "command"
    BY DEF CommandTask, WorkerIdle
  <2>2. CASE Ending(TRUE)
    BY <1>1, <2>1, <2>2, EndingUp
  <2>3. CASE tasks' = Tail(tasks) /\ UNCHANGED <<current, waiting, link, bound>>
    <3>1. tasks' = Tail(tasks) /\ UNCHANGED <<current, waiting, link, bound>>
      BY <2>3
    <3>2. \A s : Head(tasks) # Task("finish", s) /\ Head(tasks) # Task("accept", s)
      BY <2>1, DoApart
    <3>3. tasks \in Seq(TaskType)
      BY DEF Inv, TasksTyped
    <3>4. \A s : /\ Has(tasks, Task("finish", s)) => Has(tasks', Task("finish", s))
                 /\ Has(tasks, Task("accept", s)) => Has(tasks', Task("accept", s))
                 /\ EndsLast(tasks, s) => EndsLast(tasks', s)
      BY <2>1, <3>1, <3>2, <3>3, HasTail, EndsLastTail
    <3>5. (Up(current)' <=> Up(current)) /\ (Up(waiting)' <=> Up(waiting))
      BY <3>1 DEF Up
    <3> QED
      BY <1>1, <3>1, <3>4, <3>5 DEF HeldInvs, UpInv
  <2>4. Ending(TRUE) \/ (tasks' = Tail(tasks) /\ UNCHANGED <<current, waiting, link, bound>>)
    BY DEF CommandTask, sessionVars, linkVars, connVars
  <2> QED
    BY <2>2, <2>3, <2>4
<1>4. WatchInv'
  <2>1. Head(tasks).room # NoRoom
    BY HeadTyped, RoomsApart DEF CommandTask, WorkerIdle, Inv
  <2>2. worker.at = "idle"
    BY DEF CommandTask, WorkerIdle
  <2>3. \/ UNCHANGED <<current, worker, ringing>>
        \/ worker'.at = "lost"
        \/ worker'.at = "connected" /\ current' # NoRoom
    <3>1. CASE Ending(TRUE)
      BY <3>1 DEF Ending, LetGo, timerVars
    <3>2. CASE worker' = [at |-> "connected", room |-> Head(tasks).room, close |-> FALSE]
               /\ current = Head(tasks).room /\ UNCHANGED current
      BY <2>1, <3>2
    <3>3. CASE UNCHANGED <<sessionVars, connVars>>
      BY <3>3 DEF sessionVars, timerVars, threadVars, connVars
    <3>4. \/ Ending(TRUE)
          \/ worker' = [at |-> "connected", room |-> Head(tasks).room, close |-> FALSE]
             /\ current = Head(tasks).room /\ UNCHANGED current
          \/ UNCHANGED <<sessionVars, connVars>>
      BY DEF CommandTask
    <3> QED
      BY <3>1, <3>2, <3>3, <3>4
  <2> QED
    BY <1>1, <2>2, <2>3 DEF HeldInvs, WatchInv, Closing, Rings
<1>5. HeldInv' /\ HandInv'
  BY <1>1 DEF HeldInvs, HeldInv, HandInv, InAction
<1> QED
  BY <1>2, <1>3, <1>4, <1>5 DEF HeldInvs

LEMMA P2pConnectedHeld ==
    ASSUME Inv, HeldInvs, P2pConnected
    PROVE  HeldInvs'
<1>1. UNCHANGED <<serving, link, bound, current, waiting, sess, expected, attempt,
      media, tasks, active, pending, offer, answered, withdrawn, ringing, ringThread,
      timer, created, owner, ownerId, cancelled, ticket, endAsked, transition, cmd, mqtt>>
  BY DEF P2pConnected, Unjoin, WorkerRests, callVars, ringVars, arbiterVars,
         workerFrame, linkVars, connVars
<1>2. JoinInv'
  BY <1>1, RoomsApart DEF
     HeldInvs, JoinInv, Inv, TimerTyped, TimerType, CmdTyped, CmdType, CmdSteps,
     MqttTyped, MqttType, WorkerTyped, WorkerType, Threads, Joined, MaybeRoom,
     P2pConnected, Unjoin, WorkerRests, callVars, ringVars, arbiterVars, workerFrame,
     linkVars, connVars, CmdAt, CmdIdle
<1>3. WatchInv'
  BY <1>1, RoomsApart DEF
     HeldInvs, WatchInv, Inv, ServeInv, QuietInv, CmdTyped, CmdType, CmdSteps,
     CallTyped, Closing, Rings, InAction, HeldInv, HandInv, JoinInv, OfferInv,
     LeaseTyped, P2pConnected, Unjoin, WorkerRests, callVars, ringVars, arbiterVars,
     workerFrame, linkVars, connVars, CmdAt, CmdIdle
<1>4. HeldInv' /\ HandInv' /\ UpInv'
  BY <1>1 DEF HeldInvs, HeldInv, HandInv, UpInv, EndsLast, Has, InAction, Up
<1> QED
  BY <1>2, <1>3, <1>4 DEF HeldInvs

LEMMA TransportEndedHeld ==
    ASSUME Inv, HeldInvs, TransportEnded
    PROVE  HeldInvs'
<1>1. UNCHANGED <<serving, bound, current, waiting, sess, expected, attempt, media,
      tasks, pending, offer, withdrawn, ringing, ringThread, timer, created, owner,
      ownerId, cancelled, ticket, transition, cmd, mqtt>>
  BY DEF TransportEnded, Unjoin, NotActive, WorkerRests, ringVars, ownerVars,
         workerFrame, connVars
<1>2. HeldInv'
  <2>1. active' = NoRoom /\ (endAsked => endAsked')
    BY Zenon DEF TransportEnded, NotActive
  <2> QED
    BY <1>1, <2>1, RoomsApart DEF HeldInvs, HeldInv, InAction
<1>3. HandInv'
  BY <1>1, RoomsApart DEF
     HeldInvs, HandInv, Inv, OfferInv, CmdTyped, CmdType, CmdSteps, MqttTyped, MqttType,
     CallTyped, TransportEnded, Unjoin, NotActive, WorkerRests, ringVars, ownerVars,
     workerFrame, connVars, CmdAt, CmdIdle
<1>4. JoinInv'
  <2>1. /\ joining' = [joining EXCEPT !["worker"] = NoRoom] /\ worker'.at = "idle"
        /\ control' = "free" /\ worker.at = "lost"
        /\ \A r \in Outgoing : joining["worker"] = r => timer[r] = "none"
    BY DEF TransportEnded, Unjoin, Joined, WorkerRests
  <2>2. /\ joining'["worker"] = NoRoom /\ joining'["cmd"] = joining["cmd"]
        /\ joining'["mqtt"] = joining["mqtt"]
    BY <2>1 DEF Inv, TimerTyped, Threads
  <2>3. control = "worker"
    BY <2>1 DEF HeldInvs, JoinInv
  <2> QED
    BY <1>1, <2>1, <2>2, <2>3, RoomsApart DEF HeldInvs, JoinInv
<1>5. UpInv'
  <2>1. link' = link \/ link' = Disconnect(link, worker.room)
    BY DEF TransportEnded
  <2>2. link \in LinkType
    BY DEF Inv, LinkTyped
  <2>3. \A r \in Rooms : Up(r) => r \in bound' /\ link'[r] # "none"
    BY <1>1, <2>1, <2>2, DisconnectUp DEF Up
  <2> QED
    BY <1>1, <2>3, UpKept DEF HeldInvs
<1>6. WatchInv'
  BY <1>1, RoomsApart DEF
     HeldInvs, WatchInv, Inv, ServeInv, QuietInv, CmdTyped, CmdType, CmdSteps,
     CallTyped, Closing, Rings, InAction, HeldInv, HandInv, JoinInv, OfferInv,
     LeaseTyped, TransportEnded, Unjoin, NotActive, WorkerRests, ringVars, ownerVars,
     workerFrame, connVars, CmdAt, CmdIdle
<1> QED
  BY <1>2, <1>3, <1>4, <1>5, <1>6 DEF HeldInvs

LEMMA LifecycleWorkerHeld ==
    ASSUME Inv, HeldInvs, LifecycleWorker
    PROVE  HeldInvs'
<1>1. UNCHANGED <<link, current, waiting, sess, expected, attempt, media, tasks,
      control, active, pending, offer, answered, withdrawn, ringing, ringThread, timer,
      joining, created, ticket, cmd, mqtt, worker>>
  BY DEF LifecycleWorker, EndOwner, callVars, timerVars, threadVars, Release, connVars
<1>2. HeldInv'
  BY <1>1, RoomsApart DEF
     HeldInvs, HeldInv, Inv, OfferInv, CmdTyped, CmdType, CmdSteps, LeaseTyped,
     CallTyped, ServeInv, InAction, HandInv, LifecycleWorker, EndOwner, callVars,
     timerVars, threadVars, Release, connVars, CmdAt, CmdIdle
<1>3. UpInv'
  BY <1>1, RoomsApart DEF
     HeldInvs, UpInv, Inv, ServeInv, QuietInv, LinkTyped, LinkType, ConnTyped, Up, Has,
     EndsLast, HeldInv, InAction, LifecycleWorker, EndOwner, callVars, timerVars,
     threadVars, Release, connVars, CmdAt, CmdIdle
<1>4. WatchInv'
  BY <1>1, RoomsApart DEF
     HeldInvs, WatchInv, Inv, ServeInv, QuietInv, CmdTyped, CmdType, CmdSteps,
     CallTyped, Closing, Rings, InAction, HeldInv, HandInv, JoinInv, OfferInv,
     LeaseTyped, LifecycleWorker, EndOwner, callVars, timerVars, threadVars, Release,
     connVars, CmdAt, CmdIdle
<1>5. HandInv' /\ JoinInv'
  BY <1>1 DEF HeldInvs, HandInv, JoinInv
<1> QED
  BY <1>2, <1>3, <1>4, <1>5 DEF HeldInvs

LEMMA ServiceHangsUpHeld ==
    ASSUME Inv, HeldInvs, ServiceHangsUp
    PROVE  HeldInvs'
<1>1. UNCHANGED <<serving, bound, tasks, control, active, pending, offer, answered,
      withdrawn, ringing, ringThread, timer, joining, created, owner, ownerId,
      cancelled, ticket, endAsked, cmd, mqtt, worker>>
  BY DEF ServiceHangsUp, HangUp, callVars, timerVars, threadVars
<1>2. UpInv'
  BY <1>1, RoomsApart DEF
     HeldInvs, UpInv, Inv, ServeInv, QuietInv, LinkTyped, LinkType, ConnTyped, Up, Has,
     EndsLast, HeldInv, InAction, ServiceHangsUp, HangUp, callVars, timerVars,
     threadVars, CmdAt, CmdIdle
<1>3. WatchInv'
  BY <1>1, RoomsApart DEF
     HeldInvs, WatchInv, Inv, ServeInv, QuietInv, CmdTyped, CmdType, CmdSteps,
     CallTyped, Closing, Rings, InAction, HeldInv, HandInv, JoinInv, OfferInv,
     LeaseTyped, ServiceHangsUp, HangUp, callVars, timerVars, threadVars, CmdAt, CmdIdle
<1>4. HeldInv' /\ HandInv' /\ JoinInv'
  BY <1>1 DEF HeldInvs, HeldInv, HandInv, JoinInv, InAction
<1> QED
  BY <1>2, <1>3, <1>4 DEF HeldInvs

LEMMA ServiceDrainedHeld ==
    ASSUME Inv, HeldInvs, ServiceDrained
    PROVE  HeldInvs'
<1>1. UNCHANGED <<serving, link, bound, current, waiting, sess, expected, attempt,
      media, tasks, control, active, pending, offer, answered, withdrawn, ringing,
      ringThread, timer, joining, created, owner, ownerId, cancelled, ticket, endAsked,
      cmd, mqtt, worker>>
  BY DEF ServiceDrained, callVars, timerVars, threadVars, transportVars, linkVars,
         connVars
<1>2. HeldInv' /\ HandInv' /\ JoinInv' /\ UpInv' /\ WatchInv'
  BY <1>1 DEF HeldInvs, HeldInv, HandInv, JoinInv, UpInv, WatchInv, Closing, EndsLast,
         Has, InAction, Rings, Up
<1> QED
  BY <1>2 DEF HeldInvs

LEMMA TimerStopsHeld ==
    ASSUME Inv, HeldInvs, NEW r \in Outgoing, TimerStops(r)
    PROVE  HeldInvs'
<1>1. UNCHANGED <<serving, link, bound, current, waiting, sess, expected, attempt,
      media, tasks, control, active, pending, offer, answered, withdrawn, ringing,
      ringThread, joining, created, owner, ownerId, cancelled, ticket, endAsked,
      transition, cmd, mqtt, worker>>
  BY DEF TimerStops, timerFrame, transportVars, callVars, threadVars, linkVars, connVars
<1>2. JoinInv'
  BY <1>1, RoomsApart DEF
     HeldInvs, JoinInv, Inv, TimerTyped, TimerType, CmdTyped, CmdType, CmdSteps,
     MqttTyped, MqttType, WorkerTyped, WorkerType, Threads, Joined, MaybeRoom,
     TimerStops, timerFrame, transportVars, callVars, threadVars, linkVars, connVars,
     CmdAt, CmdIdle
<1>3. WatchInv'
  BY <1>1, RoomsApart DEF
     HeldInvs, WatchInv, Inv, ServeInv, QuietInv, CmdTyped, CmdType, CmdSteps,
     CallTyped, Closing, Rings, InAction, HeldInv, HandInv, JoinInv, OfferInv,
     LeaseTyped, TimerStops, timerFrame, transportVars, callVars, threadVars, linkVars,
     connVars, CmdAt, CmdIdle
<1>4. HeldInv' /\ HandInv' /\ UpInv'
  BY <1>1 DEF HeldInvs, HeldInv, HandInv, UpInv, EndsLast, Has, InAction, Up
<1> QED
  BY <1>2, <1>3, <1>4 DEF HeldInvs

LEMMA TimerExpiresHeld ==
    ASSUME Inv, HeldInvs, NEW r \in Outgoing, TimerExpires(r)
    PROVE  HeldInvs'
<1>1. UNCHANGED <<serving, link, bound, current, waiting, sess, expected, attempt,
      media, tasks, control, active, pending, offer, answered, withdrawn, ringing,
      ringThread, joining, created, owner, ownerId, cancelled, ticket, endAsked,
      transition, cmd, mqtt, worker>>
  BY DEF TimerExpires, timerFrame, transportVars, callVars, threadVars, linkVars,
         connVars
<1>2. JoinInv'
  BY <1>1, RoomsApart DEF
     HeldInvs, JoinInv, Inv, TimerTyped, TimerType, CmdTyped, CmdType, CmdSteps,
     MqttTyped, MqttType, WorkerTyped, WorkerType, Threads, Joined, MaybeRoom,
     TimerExpires, timerFrame, transportVars, callVars, threadVars, linkVars, connVars,
     CmdAt, CmdIdle
<1>3. WatchInv'
  BY <1>1, RoomsApart DEF
     HeldInvs, WatchInv, Inv, ServeInv, QuietInv, CmdTyped, CmdType, CmdSteps,
     CallTyped, Closing, Rings, InAction, HeldInv, HandInv, JoinInv, OfferInv,
     LeaseTyped, TimerExpires, timerFrame, transportVars, callVars, threadVars,
     linkVars, connVars, CmdAt, CmdIdle
<1>4. HeldInv' /\ HandInv' /\ UpInv'
  BY <1>1 DEF HeldInvs, HeldInv, HandInv, UpInv, EndsLast, Has, InAction, Up
<1> QED
  BY <1>2, <1>3, <1>4 DEF HeldInvs

LEMMA TimerClearsHeld ==
    ASSUME Inv, HeldInvs, NEW r \in Outgoing, TimerClears(r)
    PROVE  HeldInvs'
<1>1. UNCHANGED <<serving, link, bound, current, waiting, sess, attempt, media, tasks,
      control, active, pending, offer, answered, withdrawn, ringing, ringThread,
      joining, created, owner, ownerId, cancelled, ticket, endAsked, transition, cmd,
      mqtt, worker>>
  BY DEF TimerClears, timerFrame, linkVars, connVars, callVars, threadVars
<1>2. JoinInv'
  BY <1>1, RoomsApart DEF
     HeldInvs, JoinInv, Inv, TimerTyped, TimerType, CmdTyped, CmdType, CmdSteps,
     MqttTyped, MqttType, WorkerTyped, WorkerType, Threads, Joined, MaybeRoom,
     TimerClears, timerFrame, linkVars, connVars, callVars, threadVars, CmdAt, CmdIdle
<1>3. WatchInv'
  BY <1>1, RoomsApart DEF
     HeldInvs, WatchInv, Inv, ServeInv, QuietInv, CmdTyped, CmdType, CmdSteps,
     CallTyped, Closing, Rings, InAction, HeldInv, HandInv, JoinInv, OfferInv,
     LeaseTyped, TimerClears, timerFrame, linkVars, connVars, callVars, threadVars,
     CmdAt, CmdIdle
<1>4. HeldInv' /\ HandInv' /\ UpInv'
  BY <1>1 DEF HeldInvs, HeldInv, HandInv, UpInv, EndsLast, Has, InAction, Up
<1> QED
  BY <1>2, <1>3, <1>4 DEF HeldInvs

LEMMA TimerEndsHeld ==
    ASSUME Inv, HeldInvs, NEW r \in Outgoing, TimerEnds(r)
    PROVE  HeldInvs'
<1>1. UNCHANGED <<serving, link, bound, current, waiting, sess, expected, attempt,
      media, tasks, control, pending, offer, withdrawn, ringThread, joining, created,
      owner, ownerId, cancelled, ticket, transition, cmd, mqtt, worker>>
  BY DEF TimerEnds, EndSession, threadVars, transportVars, linkVars, connVars
<1>2. HeldInv'
  <2>1. active' \in {active, NoRoom} /\ (endAsked => endAsked')
    BY Asks DEF TimerEnds
  <2> QED
    BY <1>1, <2>1, RoomsApart DEF HeldInvs, HeldInv, InAction
<1>3. HandInv'
  BY <1>1, RoomsApart DEF
     HeldInvs, HandInv, Inv, OfferInv, CmdTyped, CmdType, CmdSteps, MqttTyped, MqttType,
     CallTyped, TimerEnds, EndSession, threadVars, transportVars, linkVars, connVars,
     CmdAt, CmdIdle
<1>4. JoinInv'
  BY <1>1, RoomsApart DEF
     HeldInvs, JoinInv, Inv, TimerTyped, TimerType, CmdTyped, CmdType, CmdSteps,
     MqttTyped, MqttType, WorkerTyped, WorkerType, Threads, Joined, MaybeRoom,
     TimerEnds, EndSession, threadVars, transportVars, linkVars, connVars, CmdAt,
     CmdIdle
<1>5. WatchInv'
  <2>1. timer[r] = "ending" /\ timer' = [timer EXCEPT ![r] = "none"] /\ ringing' = FALSE
    BY DEF TimerEnds
  <2>2. CASE active = r
    <3>1. active' = NoRoom /\ (owner = "HELD" => endAsked')
      BY <2>2, Asks DEF TimerEnds
    <3> QED
      BY <1>1, <3>1 DEF HeldInvs, WatchInv, Closing
  <2>3. CASE active # r
    <3>1. UNCHANGED <<active, endAsked>>
      BY <2>3 DEF TimerEnds
    <3>2. ASSUME owner = "HELD", ownerId = NoRoom, active # NoRoom, Rings(active)
          PROVE  \/ Rings(active)' \/ Closing' \/ worker.at = "lost" \/ current # NoRoom
                 \/ cmd.at \in {"expect", "arm"}
      <4>1. active \in Outgoing /\ timer'[active] = timer[active] /\ timer[active] # "none"
        BY <2>1, <2>3, <3>2, RoomsApart DEF HeldInvs, HeldInv, Rings, Inv, CallTyped, MaybeRoom,
           Rooms, TimerTyped, TimerType
      <4>2. \E t \in {"cmd", "mqtt", "worker"} : joining[t] # NoRoom
        BY <2>1, <2>3, <4>1, RoomsApart DEF HeldInvs, JoinInv
      <4>3. ~InAction
        BY <3>2, RoomsApart DEF HeldInvs, HeldInv
      <4> QED
        BY <1>1, <3>2, <4>2, <4>3 DEF HeldInvs, JoinInv, WatchInv, Closing, InAction
    <3> QED
      BY <1>1, <3>1, <3>2 DEF HeldInvs, WatchInv, Closing
  <2> QED
    BY <2>2, <2>3
<1>6. UpInv'
  BY <1>1 DEF HeldInvs, UpInv, EndsLast, Has, Up
<1> QED
  BY <1>2, <1>3, <1>4, <1>5, <1>6 DEF HeldInvs

LEMMA PeerConnectsHeld ==
    ASSUME Inv, HeldInvs, NEW r \in created, PeerConnects(r), UNCHANGED sessionVars
    PROVE  HeldInvs'
<1>1. UNCHANGED <<serving, current, sess, expected, attempt, media, control, active,
      pending, offer, answered, withdrawn, ringing, ringThread, timer, joining, created,
      owner, ownerId, cancelled, ticket, endAsked, transition, cmd, mqtt, worker>>
  BY DEF PeerConnects, Defer, sessionVars, callVars, timerVars, arbiterVars, threadVars
<1>2. UpInv'
  <2>0. r \in Rooms /\ r # NoRoom
    BY RoomsApart DEF Inv, TimerTyped
  <2>1. CASE ~serving
    BY <1>1, <2>1 DEF Inv, ServeInv, UpInv
  <2>2. CASE serving
    <3>1. /\ link' = [link EXCEPT ![r] = "open"] /\ bound' = bound \cup {r} /\ waiting' = r
          /\ tasks' = Append(tasks, Task("accept", r))
      BY <2>2 DEF PeerConnects, Defer
    <3>2. tasks \in Seq(TaskType) /\ link \in LinkType /\ current \in Rooms \cup {NoRoom}
      BY DEF Inv, TasksTyped, LinkTyped, ConnTyped, MaybeRoom
    <3>3. Has(tasks', Task("accept", r)) /\ \A t : Has(tasks, t) => Has(tasks', t)
      BY <3>1, <3>2, HasAppend
    <3>4. r \in bound' /\ link'[r] # "none"
      BY <2>0, <3>1, <3>2 DEF LinkType
    <3>5. Up(waiting)'
      BY <3>1, <3>4 DEF Up
    <3>6. current # NoRoom /\ Up(current) => Up(current)'
      BY <1>1, <2>0, <3>1, <3>2 DEF Up, LinkType
    <3> QED
      BY <1>1, <3>1, <3>3, <3>5, <3>6 DEF HeldInvs, UpInv
  <2> QED
    BY <2>1, <2>2
<1>3. HeldInv' /\ HandInv' /\ JoinInv' /\ WatchInv'
  BY <1>1 DEF HeldInvs, HeldInv, HandInv, JoinInv, WatchInv, Closing, InAction, Rings
<1> QED
  BY <1>2, <1>3 DEF HeldInvs

LEMMA PeerNamesRoomHeld ==
    ASSUME Inv, HeldInvs, NEW r \in created, PeerNamesRoom(r), UNCHANGED sessionVars
    PROVE  HeldInvs'
<1>1. UNCHANGED <<serving, link, bound, current, waiting, sess, expected, attempt,
      media, control, active, pending, offer, answered, withdrawn, ringing, ringThread,
      timer, joining, created, owner, ownerId, cancelled, ticket, endAsked, transition,
      cmd, mqtt, worker>>
  BY DEF PeerNamesRoom, Defer, linkVars, connVars, sessionVars, callVars, timerVars,
         arbiterVars, threadVars
<1>2. UpInv'
  BY <1>1, RoomsApart DEF
     HeldInvs, UpInv, Inv, ServeInv, QuietInv, LinkTyped, LinkType, ConnTyped, Up, Has,
     EndsLast, HeldInv, InAction, PeerNamesRoom, Defer, linkVars, connVars, sessionVars,
     callVars, timerVars, arbiterVars, threadVars, CmdAt, CmdIdle
<1>3. HeldInv' /\ HandInv' /\ JoinInv' /\ WatchInv'
  BY <1>1 DEF HeldInvs, HeldInv, HandInv, JoinInv, WatchInv, Closing, InAction, Rings
<1> QED
  BY <1>2, <1>3 DEF HeldInvs

LEMMA ConnErrorHeld ==
    ASSUME Inv, HeldInvs, NEW r \in Rooms, ConnError(r), UNCHANGED sessionVars
    PROVE  HeldInvs'
<1>1. UNCHANGED <<serving, bound, current, waiting, sess, expected, attempt, media,
      control, active, pending, offer, answered, withdrawn, ringing, ringThread, timer,
      joining, created, owner, ownerId, cancelled, ticket, endAsked, transition, cmd,
      mqtt, worker>>
  BY DEF ConnError, DeferIfBound, connVars, Defer, sessionVars, callVars, timerVars,
         arbiterVars, threadVars
<1>2. UpInv'
  <2>1. link' = [link EXCEPT ![r] = "broken"]
    BY DEF ConnError
  <2>2. \E x : tasks' = Append(tasks, Task("disconnect", x)) \/ tasks' = tasks
    BY DEF ConnError, DeferIfBound, Defer
  <2>3. tasks \in Seq(TaskType) /\ link \in LinkType
    BY DEF Inv, TasksTyped, LinkTyped
  <2>4. /\ \A s : EndsLast(tasks, s) => EndsLast(tasks', s)
        /\ \A t : Has(tasks, t) => Has(tasks', t)
    <3>1. CASE tasks' = tasks
      BY <3>1
    <3>2. ASSUME NEW x, tasks' = Append(tasks, Task("disconnect", x))
          PROVE  /\ \A s : EndsLast(tasks, s) => EndsLast(tasks', s)
                 /\ \A t : Has(tasks, t) => Has(tasks', t)
      <4>1. \A s : Task("disconnect", x) # Task("accept", s)
        BY DoApart
      <4> QED
        BY <2>3, <3>2, <4>1, HasAppend, EndsLastAppend
    <3> QED
      BY <2>2, <3>1, <3>2
  <2>5. current \in Rooms \cup {NoRoom} /\ waiting \in Rooms \cup {NoRoom}
    BY DEF Inv, ConnTyped, MaybeRoom
  <2>6. \A s \in Rooms : Up(s) => s \in bound' /\ link'[s] # "none"
    BY <1>1, <2>1, <2>3 DEF Up, LinkType
  <2>7. /\ current # NoRoom /\ Up(current) => Up(current)'
        /\ waiting # NoRoom /\ Up(waiting) => Up(waiting)'
    BY <1>1, <2>5, <2>6 DEF Up
  <2> QED
    BY <1>1, <2>4, <2>7 DEF HeldInvs, UpInv
<1>3. HeldInv' /\ HandInv' /\ JoinInv' /\ WatchInv'
  BY <1>1 DEF HeldInvs, HeldInv, HandInv, JoinInv, WatchInv, Closing, InAction, Rings
<1> QED
  BY <1>2, <1>3 DEF HeldInvs

LEMMA OnDisconnectedHeld ==
    ASSUME Inv, HeldInvs, NEW r \in Rooms, OnDisconnected(r), UNCHANGED sessionVars
    PROVE  HeldInvs'
<1>1. UNCHANGED <<serving, current, waiting, sess, expected, attempt, media, control,
      active, pending, offer, answered, withdrawn, ringing, ringThread, timer, joining,
      created, owner, ownerId, cancelled, ticket, endAsked, transition, cmd, mqtt,
      worker>>
  BY DEF OnDisconnected, DeferIfBound, connVars, Defer, sessionVars, callVars,
         timerVars, arbiterVars, threadVars
<1>2. UpInv'
  <2>1. link' = [link EXCEPT ![r] = "none"] /\ bound' = bound \ {r} /\ link[r] # "none"
    BY DEF OnDisconnected
  <2>2. IF r \in bound THEN tasks' = Append(tasks, Task("finish", r)) ELSE tasks' = tasks
    BY DEF OnDisconnected, DeferIfBound, Defer
  <2>3. tasks \in Seq(TaskType) /\ link \in LinkType
    BY DEF Inv, TasksTyped, LinkTyped
  <2>4. \A s : EndsLast(tasks, s) => EndsLast(tasks', s)
    BY <2>2, <2>3, EndsLastAppend, DoApart
  <2>5. \A t : Has(tasks, t) => Has(tasks', t)
    BY <2>2, <2>3, HasAppend
  <2>6. current \in Rooms \cup {NoRoom} /\ waiting \in Rooms \cup {NoRoom}
    BY DEF Inv, ConnTyped, MaybeRoom
  <2>7. \A s \in Rooms : Up(s) => \/ s \in bound' /\ link'[s] # "none"
                                  \/ EndsLast(tasks', s)
    <3>1. SUFFICES ASSUME NEW s \in Rooms, Up(s)
                   PROVE  (s \in bound' /\ link'[s] # "none") \/ EndsLast(tasks', s)
      OBVIOUS
    <3>2. CASE s = r
      BY <2>2, <2>3, <3>1, <3>2, EndsLastAppend DEF Up
    <3>3. CASE s # r
      BY <2>1, <2>3, <3>1, <3>3 DEF Up, LinkType
    <3> QED
      BY <3>2, <3>3
  <2>8. /\ current # NoRoom /\ Up(current) => Up(current)' \/ Has(tasks', Task("finish", current))
        /\ waiting # NoRoom /\ Up(waiting) => Up(waiting)' \/ EndsLast(tasks', waiting)
    BY <1>1, <2>6, <2>7, EndsLastHas DEF Up
  <2> QED
    BY <1>1, <2>4, <2>5, <2>8 DEF HeldInvs, UpInv
<1>3. HeldInv' /\ HandInv' /\ JoinInv' /\ WatchInv'
  BY <1>1 DEF HeldInvs, HeldInv, HandInv, JoinInv, WatchInv, Closing, InAction, Rings
<1> QED
  BY <1>2, <1>3 DEF HeldInvs

LEMMA ConnectedHeld ==
    ASSUME Inv, HeldInvs, CmdAt("dialing"), Connected(cmd.room), UNCHANGED sessionVars
    PROVE  HeldInvs'
<1>1. UNCHANGED <<serving, current, waiting, sess, expected, media, tasks, control,
      active, pending, offer, answered, withdrawn, ringing, ringThread, timer, joining,
      created, owner, ownerId, cancelled, ticket, endAsked, transition, cmd, mqtt,
      worker>>
  BY DEF Connected, linkVars, connVars, CmdAt, sessionVars, callVars, timerVars,
         arbiterVars, threadVars
<1>2. UpInv'
  BY <1>1, RoomsApart DEF
     HeldInvs, UpInv, Inv, ServeInv, QuietInv, LinkTyped, LinkType, ConnTyped, Up, Has,
     EndsLast, HeldInv, InAction, Connected, linkVars, connVars, CmdAt, sessionVars,
     callVars, timerVars, arbiterVars, threadVars, CmdIdle
<1>3. HeldInv' /\ HandInv' /\ JoinInv' /\ WatchInv'
  BY <1>1 DEF HeldInvs, HeldInv, HandInv, JoinInv, WatchInv, Closing, InAction, Rings
<1> QED
  BY <1>2, <1>3 DEF HeldInvs

LEMMA MediaEndsHeld ==
    ASSUME Inv, HeldInvs, MediaEnds, UNCHANGED sessionVars
    PROVE  HeldInvs'
<1>1. UNCHANGED <<serving, bound, current, waiting, sess, expected, attempt, tasks,
      control, active, pending, offer, answered, withdrawn, ringing, ringThread, timer,
      joining, created, owner, ownerId, cancelled, ticket, endAsked, transition, cmd,
      mqtt, worker>>
  BY DEF MediaEnds, connVars, sessionVars, callVars, timerVars, arbiterVars, threadVars
<1>2. UpInv'
  <2>1. link' = link \/ link' = Disconnect(link, current)
    BY DEF MediaEnds
  <2>2. link \in LinkType
    BY DEF Inv, LinkTyped
  <2>3. \A r \in Rooms : Up(r) => r \in bound' /\ link'[r] # "none"
    BY <1>1, <2>1, <2>2, DisconnectUp DEF Up
  <2> QED
    BY <1>1, <2>3, UpKept DEF HeldInvs
<1>3. HeldInv' /\ HandInv' /\ JoinInv' /\ WatchInv'
  BY <1>1 DEF HeldInvs, HeldInv, HandInv, JoinInv, WatchInv, Closing, InAction, Rings
<1> QED
  BY <1>2, <1>3 DEF HeldInvs

LEMMA StutterHeld ==
    ASSUME Inv, HeldInvs, UNCHANGED vars
    PROVE  HeldInvs'
<1>1. UNCHANGED <<link, bound, current, waiting, tasks, control, active, pending, offer,
      ringing, ringThread, timer, joining, owner, ownerId, cancelled, endAsked, cmd, mqtt,
      worker>>
  BY DEF vars, transportVars, linkVars, connVars, sessionVars, callVars, timerVars,
         arbiterVars, threadVars
<1>2. HeldInv' /\ HandInv' /\ JoinInv'
  BY <1>1 DEF HeldInvs, HeldInv, HandInv, JoinInv, InAction
<1>3. UpInv' /\ WatchInv'
  BY <1>1 DEF HeldInvs, UpInv, WatchInv, Up, Has, EndsLast, Closing, Rings
<1> QED
  BY <1>2, <1>3 DEF HeldInvs

LEMMA InitHeld == Init => HeldInvs
<1> SUFFICES ASSUME Init PROVE HeldInvs
  OBVIOUS
<1>1. /\ owner = "NONE" /\ cmd.at = "idle" /\ mqtt.at = "idle" /\ worker.at = "idle"
      /\ timer = [r \in Outgoing |-> "none"] /\ joining = [t \in Threads |-> NoRoom]
  BY DEF Init, LeaseInit
<1>2. HeldInv /\ HandInv /\ UpInv /\ WatchInv
  BY <1>1 DEF HeldInv, HandInv, UpInv, WatchInv
<1>3. JoinInv
  BY <1>1 DEF JoinInv, Threads
<1> QED
  BY <1>2, <1>3 DEF HeldInvs

LEMMA NextHeld == Inv /\ HeldInvs /\ [Next]_vars => HeldInvs'
<1> SUFFICES ASSUME Inv, HeldInvs, [Next]_vars PROVE HeldInvs'
  OBVIOUS
<1>1. CASE Call
  BY <1>1, DoCallHeld, BeginCallHeld, RequestRoomHeld, ResponseHeld,
     SetExpectedRoomHeld, StartRingTimerHeld
  DEF Call
<1>2. CASE Accept
  BY <1>2, DoAcceptHeld, DeviceInfoHeld, BeginAcceptHeld, RunActionHeld, ActivateHeld,
     ConnectHeld, DialCancelledHeld, DialAgainHeld, DialFailsHeld, DialWonHeld,
     DialSucceedsHeld, SubscribePeerHeld, ConnectionLostHeld, StartCallHeld,
     CallStartedHeld, ActionEndsHeld
  DEF Accept
<1>3. CASE Other
  BY <1>3, HangupHeld, OnConnectFailedHeld, HangUpCallHeld, CancelHeld, CancelCallHeld,
     EndCallHeld, FinishHeld, FinishedHeld, RejectHeld, ExpirePendingHeld,
     DropTicketHeld
  DEF Other
<1>4. CASE Message
  BY <1>4, CallIncomingHeld, RoomCancelHeld, CallRejectHeld DEF Message
<1>5. CASE Handling
  BY <1>5, OnCallIncomingHeld, RungHeld, RoomCancelEndsHeld, CallRejectEndsHeld,
     ToldHeld
  DEF Handling
<1>6. CASE Worker
  BY <1>6, AcceptingHeld, EndTaskHeld, CommandTaskHeld, P2pConnectedHeld,
     TransportEndedHeld
  DEF Worker
<1>7. CASE Arbiter
  BY <1>7, LifecycleWorkerHeld, ServiceHangsUpHeld, ServiceDrainedHeld DEF Arbiter
<1>8. CASE \E r \in Outgoing : RingTimer(r)
  BY <1>8, TimerStopsHeld, TimerExpiresHeld, TimerClearsHeld, TimerEndsHeld DEF RingTimer
<1>9. CASE Sdk /\ UNCHANGED sessionVars
  BY <1>9, PeerConnectsHeld, PeerNamesRoomHeld, ConnErrorHeld, OnDisconnectedHeld,
     ConnectedHeld, MediaEndsHeld DEF Sdk
<1>10. CASE UNCHANGED vars
  BY <1>10, StutterHeld
<1> QED
  BY <1>1, <1>2, <1>3, <1>4, <1>5, <1>6, <1>7, <1>8, <1>9, <1>10 DEF Next

LEMMA WatchedFromInv == Inv /\ HeldInvs => HeldSessionIsWatched
<1> SUFFICES ASSUME Inv, HeldInvs, AtRest, owner = "HELD", ~TookAnotherTicket
             PROVE  \/ ownerId # NoRoom /\ active = ownerId
                    \/ /\ ownerId = NoRoom /\ active \in Outgoing
                       /\ Rings(active) \/ OnAConnection
  BY DEF HeldSessionIsWatched
<1>1. cmd.at = "idle" /\ mqtt.at = "idle" /\ worker.at = "idle" /\ tasks = <<>> /\ ~endAsked
  BY DEF AtRest, CmdAt, MqttAt
<1>2. ~Closing
  BY <1>1 DEF Closing
<1>3. CASE ownerId # NoRoom
  BY <1>1, <1>2, <1>3 DEF HeldInvs, HeldInv, WatchInv, TookAnotherTicket
<1>4. CASE ownerId = NoRoom
  <2>1. active \in Outgoing
    BY <1>1, <1>2, <1>4 DEF HeldInvs, HeldInv, WatchInv, Inv, CallTyped, MaybeRoom, Rooms
  <2>2. CASE Rings(active)
    BY <1>4, <2>1, <2>2
  <2>3. CASE current # NoRoom
    <3>1. \A t : ~Has(tasks, t)
      BY <1>1 DEF Has
    <3>2. Up(current)
      BY <1>4, <2>3, <3>1 DEF HeldInvs, UpInv
    <3> QED
      BY <1>4, <2>1, <3>2 DEF Up, OnAConnection
  <2> QED
    BY <1>1, <1>2, <1>4, <2>1, <2>2, <2>3, RoomsApart DEF HeldInvs, WatchInv
<1> QED
  BY <1>3, <1>4

-----------------------------------------------------------------------------
(* The theorems. *)

\* The invariant above holds in every reachable state: the threads, the ring
\* timers, the worker and the arbiter keep the variables of a call in step
\* (call_session.c, tirtc_call.c, main.c).
THEOREM DeviceCallInductive == Spec => []Inv
<1>1. Init => Inv
  BY InitInv
<1>2. Inv /\ [Next]_vars => Inv'
  BY NextInv
<1> QED
  BY <1>1, <1>2, PTL DEF Spec

\* Every variable of a device call keeps its type, whatever is typed, whatever
\* the server and the peers send and however requests fail.
THEOREM DeviceCallTyped == Spec => []TypeOK
<1>1. Inv => TypeOK
  <2> SUFFICES ASSUME Inv PROVE TypeOK
    OBVIOUS
  <2>1. TransportTypeOK
    BY DEF Inv, FlagsTyped, LinkTyped, LinkType, ConnTyped, TasksTyped, TaskType, MaybeRoom,
           TransportTypeOK
  <2>2. LeaseTypeOK(Rooms, Incoming)
    BY DEF Inv, LeaseTyped, FlagsTyped, LeaseTypeOK, MaybeRoom
  <2>3. /\ cmd.room \in MaybeRoom /\ cmd.offer \in 0..MaxOffers
        /\ cmd.tries \in 0..Retries /\ cmd.then \in {"idle", "finish", "actionFailed"}
        /\ mqtt.room \in MaybeRoom /\ worker.room \in MaybeRoom
    BY DEF Inv, CmdTyped, CmdType, MqttTyped, MqttType, WorkerTyped, WorkerType
  <2>4. ringing \in BOOLEAN
    BY DEF Inv, FlagsTyped
  <2> QED
    BY <2>1, <2>2, <2>3, <2>4 DEF Inv, CallTyped, TimerTyped, TimerType, TypeOK
<1> QED
  BY <1>1, DeviceCallInductive, PTL

\* A call whose offer was withdrawn, by its caller, by the user or by the 45
\* seconds, is never the active call: the three looks of accept
\* (call_session.c) are enough, however many calls ring in between.
THEOREM CancelledCallStaysDown == Spec => []CancelledCallIsNotResurrected
<1>1. Inv => CancelledCallIsNotResurrected
  BY DEF Inv, OfferInv, CancelledCallIsNotResurrected
<1> QED
  BY <1>1, DeviceCallInductive, PTL

\* A device whose owner is released and whose stop is through has no
\* connection of a call, no media thread and no deferred task (_stop_call of
\* main.c, call_service_stop).
THEOREM ReleasedIsQuietAlways == Spec => []ReleasedIsQuiet
<1>1. Inv => ReleasedIsQuiet
  BY DEF Inv, QuietInv, ReleasedIsQuiet
<1> QED
  BY <1>1, DeviceCallInductive, PTL

\* The second invariant holds as well: for which call a session is held, what
\* joins each ring timer, and whose end the worker has still to hear of.
THEOREM HeldInductive == Spec => []HeldInvs
<1>1. Init => HeldInvs
  BY InitHeld
<1>2. Inv /\ HeldInvs /\ [Next]_vars => HeldInvs'
  BY NextHeld
<1> QED
  BY <1>1, <1>2, DeviceCallInductive, PTL DEF Spec

\* When no thread of the device has anything begun, a session that is held is
\* that of the accepted call, or of a call placed here whose ring timer runs
\* or whose connection is up; unless accept took the ticket of another call
\* (call_session.c, tirtc_call.c, session_arbiter.c).
THEOREM HeldSessionIsWatchedAlways == Spec => []HeldSessionIsWatched
<1>1. Inv /\ HeldInvs => HeldSessionIsWatched
  BY WatchedFromInv
<1> QED
  BY <1>1, DeviceCallInductive, HeldInductive, PTL
=============================================================================
