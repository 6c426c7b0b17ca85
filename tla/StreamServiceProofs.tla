-------------------------- MODULE StreamServiceProofs --------------------------
(***************************************************************************)
(* Theorems of StreamService for every number of connections, of deferred  *)
(* tasks and of sessions: a stopped stream is quiet, and the barriers of   *)
(* the runtime's stop leave nobody inside the service.  At the end those   *)
(* of its viewers (StreamMedia, as MCMedia runs it): who is owed a key     *)
(* frame gets no delta frame first; of the recorder (AudioRecorder, of the *)
(* same run): nothing it accepted is lost, no worker is joined twice; and  *)
(* of the clock (MediaTimeline): a jump takes the audio along.             *)
(***************************************************************************)
EXTENDS StreamService, MCMedia, SequenceTheorems, FiniteSetTheorems, TLAPS

-----------------------------------------------------------------------------
(* The inductive invariant. *)

GuardType == [started : BOOLEAN, active : Nat, queue : Seq(Task), running : Task \cup {NoTask}]
CallbackType == [Handles -> {"none", "accepted", "error", "disconnected"}]
ConnType == [Handles -> {"free", "open", "broken", "closing"}]

SdkTyped ==
    /\ sdk \in {"off", "starting", "started", "stopping", "stopped"}
    /\ conn \in ConnType /\ callback \in CallbackType
SessionTyped ==
    /\ activeGen \in 0..MaxGeneration /\ generation \in 0..MaxGeneration
    /\ bound \in [Handles -> 0..MaxGeneration]
FlagsTyped ==
    /\ started \in BOOLEAN /\ stopped \in BOOLEAN /\ serviceActive \in BOOLEAN
    /\ pushRunning \in BOOLEAN /\ pushCreated \in BOOLEAN
ControlTyped ==
    /\ halt \in HaltStep
    /\ session \in {"off", "activated", "on", "deactivated", "stopPush", "join", "drain"}
    /\ leaving \subseteq Handles
WorkTyped ==
    /\ accepting \in {"idle", "ensure", "join", "open", "opened", "activate", "subscribed",
                      "refuse"}
    /\ media \in {"open", "closed"} /\ push \in {"none", "loop", "closed", "ended"}
ClientsTyped == clients \in [Handles -> {"FREE", "PENDING", "ACTIVE"}]
GuardsTyped ==
    /\ DOMAIN guard = {"runtime", "stream"}
    /\ \A g \in {"runtime", "stream"} : guard[g] \in GuardType /\ Len(guard[g].queue) <= GuardCap

\* The callbacks inside a handler are the ones the runtime's guard counts; the
\* service's own guard counts none, and its worker's task is the accept under
\* way.
Busy == {h \in Handles : callback[h] # "none"}
GuardsInv ==
    /\ guard["runtime"].active = Cardinality(Busy)
    /\ guard["stream"].active = 0
    /\ accepting # "idle" <=> guard["stream"].running # NoTask

\* A session runs on a runtime that is up, and its clients exist while the
\* service is active; an accept that outlives its session is awaited.
SessionInv ==
    /\ session # "off" => halt = "up"
    /\ activeGen # 0 => session \in {"activated", "on"}
    /\ serviceActive <=> session \in {"on", "deactivated"}
    /\ ~serviceActive => clients = NoClients
    /\ session \in {"off", "activated"} => accepting = "idle"

\* Without a generation no callback reaches a handler any more: what the first
\* barriers have waited for stays so.
HaltInv ==
    /\ halt = "new" => sdk = "off"
    /\ halt \notin {"up", "callbacks"} => \A h \in Handles : callback[h] = "none"
    /\ halt \notin {"up", "callbacks", "services"} => Drained(guard["stream"])

\* One push thread: the service's, the one the worker joins, or the one the
\* stop joins; and the media source is the thread's or the worker's.
PushInv ==
    /\ pushRunning => pushCreated
    /\ pushCreated => push # "none" /\ session \in {"on", "deactivated", "stopPush"}
    /\ pushCreated /\ ~pushRunning => push = "ended"
    /\ push # "none" => pushCreated \/ accepting = "join" \/ session = "join"
    /\ accepting = "join" => push = "ended"
    /\ accepting \in {"join", "open", "opened"} => ~pushCreated
    /\ accepting \in {"open", "opened"} /\ serviceActive => push = "none"
    /\ session = "join" => push # "none" /\ accepting # "join"
    /\ media = "open" => push = "loop" \/ accepting = "opened"

Inv == /\ SdkTyped /\ SessionTyped /\ FlagsTyped /\ ControlTyped /\ WorkTyped /\ ClientsTyped
       /\ GuardsTyped /\ GuardsInv /\ SessionInv /\ HaltInv /\ PushInv

-----------------------------------------------------------------------------
(* The guard. *)

LEMMA TaskIsOne == \A t \in Task : t # NoTask /\ t.h \in Handles
BY DEF Task, NoTask

LEMMA HeadTyped ==
    ASSUME NEW q \in Seq(Task), q # <<>>
    PROVE  Head(q) \in Task /\ Tail(q) \in Seq(Task) /\ Len(Tail(q)) = Len(q) - 1
BY HeadTailProperties

LEMMA LengthTyped == \A q \in Seq(Task) : Len(q) \in Nat /\ (Len(q) = 0 <=> q = <<>>)
BY EmptySeq, LenProperties

\* What each function of the guard does to a guard of the right type.
LEMMA EnterLeave ==
    ASSUME NEW g \in GuardType
    PROVE  /\ Enter(g) \in GuardType /\ Enter(g).queue = g.queue
           /\ Enter(g).running = g.running /\ Enter(g).active = g.active + 1
           /\ Leave(g) \in GuardType /\ Leave(g).queue = g.queue
           /\ Leave(g).running = g.running
           /\ Leave(g).active = IF g.active > 0 THEN g.active - 1 ELSE g.active
<1>1. /\ Enter(g) \in GuardType /\ Enter(g).queue = g.queue
      /\ Enter(g).running = g.running /\ Enter(g).active = g.active + 1
  BY DEF Enter, GuardType
<1>2. /\ Leave(g) \in GuardType /\ Leave(g).queue = g.queue
      /\ Leave(g).running = g.running
      /\ Leave(g).active = IF g.active > 0 THEN g.active - 1 ELSE g.active
  BY DEF Leave, GuardType
<1> QED
  BY <1>1, <1>2

LEMMA Deferred ==
    ASSUME NEW g \in GuardType, NEW t \in Task, Len(g.queue) <= GuardCap
    PROVE  /\ Defer(g, t) \in GuardType /\ Len(Defer(g, t).queue) <= GuardCap
           /\ Defer(g, t).running = g.running /\ Defer(g, t).active = g.active
<1>1. CASE CanDefer(g)
  <2>1. Append(g.queue, t) \in Seq(Task) /\ Len(Append(g.queue, t)) = Len(g.queue) + 1
    BY AppendProperties DEF GuardType
  <2>2. Len(g.queue) < GuardCap /\ Len(g.queue) \in Nat /\ GuardCap \in Nat
    BY <1>1, LengthTyped, GuardCapAssumption DEF CanDefer, GuardType
  <2>3. Defer(g, t) = [g EXCEPT !.queue = Append(g.queue, t)]
    BY <1>1 DEF Defer
  <2>4. /\ [g EXCEPT !.queue = Append(g.queue, t)] \in GuardType
        /\ [g EXCEPT !.queue = Append(g.queue, t)].queue = Append(g.queue, t)
        /\ [g EXCEPT !.queue = Append(g.queue, t)].running = g.running
        /\ [g EXCEPT !.queue = Append(g.queue, t)].active = g.active
    BY <2>1 DEF GuardType
  <2> QED
    BY <2>1, <2>2, <2>3, <2>4
<1>2. CASE ~CanDefer(g)
  BY <1>2 DEF Defer
<1> QED
  BY <1>1, <1>2

LEMMA Finished ==
    ASSUME NEW g \in GuardType
    PROVE  /\ Finish(g) \in GuardType /\ Finish(g).queue = g.queue
           /\ Finish(g).running = NoTask /\ Finish(g).active = g.active
BY DEF Finish, GuardType

LEMMA TakenTask ==
    ASSUME NEW g \in GuardType, Len(g.queue) <= GuardCap, CanTake(g)
    PROVE  /\ Take(g) \in GuardType /\ Len(Take(g).queue) <= GuardCap
           /\ Take(g).running = Head(g.queue) /\ Take(g).active = g.active
           /\ Head(g.queue) \in Task /\ g.queue # <<>> /\ g.running = NoTask
<1>1. g.queue \in Seq(Task) /\ g.queue # <<>> /\ g.running = NoTask
  BY DEF CanTake, GuardType
<1>2. /\ Head(g.queue) \in Task /\ Tail(g.queue) \in Seq(Task)
      /\ Len(Tail(g.queue)) = Len(g.queue) - 1
  BY <1>1, HeadTyped
<1>3. Len(Tail(g.queue)) <= GuardCap
  BY <1>1, <1>2, LengthTyped, GuardCapAssumption
<1>4. /\ Take(g) \in GuardType /\ Take(g).queue = Tail(g.queue)
      /\ Take(g).running = Head(g.queue) /\ Take(g).active = g.active
  BY <1>1, <1>2 DEF Take, GuardType
<1> QED
  BY <1>1, <1>2, <1>3, <1>4

LEMMA StartedStopped ==
    ASSUME NEW g \in GuardType, Len(g.queue) <= GuardCap
    PROVE  /\ GuardStart(g) \in GuardType /\ Len(GuardStart(g).queue) <= GuardCap
           /\ GuardStart(g).active = g.active
           /\ GuardStart(g).running \in {g.running, NoTask}
           /\ Len(GuardStart(g).queue) <= Len(g.queue)
           /\ GuardStop(g) \in GuardType /\ Len(GuardStop(g).queue) <= GuardCap
           /\ GuardStop(g).active = g.active /\ GuardStop(g).running = NoTask
           /\ Len(GuardStop(g).queue) = 0
<1>1. <<>> \in Seq(Task) /\ Len(<<>>) = 0 /\ 0 <= GuardCap
  BY EmptySeq, GuardCapAssumption
<1>2. /\ [NewGuard EXCEPT !.active = g.active] \in GuardType
      /\ [NewGuard EXCEPT !.active = g.active].active = g.active
      /\ [NewGuard EXCEPT !.active = g.active].running = NoTask
      /\ [NewGuard EXCEPT !.active = g.active].queue = <<>>
  BY <1>1 DEF NewGuard, GuardType
<1>3. /\ [NewGuard EXCEPT !.started = TRUE, !.active = g.active] \in GuardType
      /\ [NewGuard EXCEPT !.started = TRUE, !.active = g.active].active = g.active
      /\ [NewGuard EXCEPT !.started = TRUE, !.active = g.active].running = NoTask
      /\ [NewGuard EXCEPT !.started = TRUE, !.active = g.active].queue = <<>>
  BY <1>1 DEF NewGuard, GuardType
<1>4. Len(g.queue) \in Nat
  BY LengthTyped DEF GuardType
<1>5. GuardStart(g) \in {g, [NewGuard EXCEPT !.started = TRUE, !.active = g.active]}
  BY DEF GuardStart
<1>6. /\ GuardStart(g) \in GuardType /\ Len(GuardStart(g).queue) <= GuardCap
      /\ GuardStart(g).active = g.active /\ GuardStart(g).running \in {g.running, NoTask}
      /\ Len(GuardStart(g).queue) <= Len(g.queue)
  <2>1. CASE GuardStart(g) = g
    BY <1>4, <2>1
  <2>2. CASE GuardStart(g) = [NewGuard EXCEPT !.started = TRUE, !.active = g.active]
    <3> DEFINE n == [NewGuard EXCEPT !.started = TRUE, !.active = g.active]
    <3>1. n \in GuardType /\ n.active = g.active /\ n.running = NoTask /\ n.queue = <<>>
      BY <1>3
    <3> HIDE DEF n
    <3>2. Len(n.queue) = 0
      BY <1>1, <3>1
    <3> QED
      BY <1>1, <1>4, <2>2, <3>1, <3>2 DEF n
  <2> QED
    BY <1>5, <2>1, <2>2
<1>7. /\ GuardStop(g) \in GuardType /\ Len(GuardStop(g).queue) <= GuardCap
      /\ GuardStop(g).active = g.active /\ GuardStop(g).running = NoTask
      /\ Len(GuardStop(g).queue) = 0
  BY <1>1, <1>2 DEF GuardStop
<1> QED
  BY <1>6, <1>7

\* Nothing waits in a guard, and nothing runs.
LEMMA DrainedIs ==
    ASSUME NEW g \in GuardType
    PROVE  Drained(g) <=> g.active = 0 /\ g.queue = <<>> /\ g.running = NoTask
BY LengthTyped DEF Drained, Pending, GuardType

-----------------------------------------------------------------------------
(* The callbacks. *)

LEMMA BusyFinite == IsFiniteSet(Busy) /\ Cardinality(Busy) \in Nat
BY HandlesAssumption, FS_Subset, FS_CardinalityType DEF Busy

LEMMA Entered ==
    ASSUME SdkTyped, NEW h \in Handles, callback[h] = "none",
           NEW kind \in {"accepted", "error", "disconnected"},
           callback' = [callback EXCEPT ![h] = kind]
    PROVE  Cardinality(Busy') = Cardinality(Busy) + 1
<1>1. Busy' = Busy \cup {h} /\ h \notin Busy
  BY DEF Busy, SdkTyped, CallbackType
<1> QED
  BY <1>1, BusyFinite, FS_AddElement

LEMMA Left ==
    ASSUME SdkTyped, NEW h \in Handles, callback[h] # "none",
           callback' = [callback EXCEPT ![h] = "none"]
    PROVE  /\ Cardinality(Busy') = Cardinality(Busy) - 1
           /\ Cardinality(Busy) > 0
<1>1. Busy' = Busy \ {h} /\ h \in Busy
  BY DEF Busy, SdkTyped, CallbackType
<1>2. Cardinality(Busy') = Cardinality(Busy) - 1
  BY <1>1, BusyFinite, FS_RemoveElement
<1>3. Cardinality(Busy) # 0
  BY <1>1, BusyFinite, FS_EmptySet
<1> QED
  BY <1>2, <1>3, BusyFinite

LEMMA NobodyInside ==
    ASSUME Cardinality(Busy) = 0
    PROVE  \A h \in Handles : callback[h] = "none"
BY BusyFinite, FS_EmptySet DEF Busy

LEMMA StillNoClients ==
    ASSUME NEW h, clients = NoClients
    PROVE  [clients EXCEPT ![h] = "FREE"] = NoClients
BY DEF NoClients

-----------------------------------------------------------------------------
(* What the steps do to the guards. *)

LEMMA RuntimeGuard ==
    ASSUME GuardsTyped, NEW g \in GuardType, Len(g.queue) <= GuardCap,
           guard' = [guard EXCEPT !["runtime"] = g]
    PROVE  GuardsTyped' /\ guard'["runtime"] = g /\ guard'["stream"] = guard["stream"]
BY DEF GuardsTyped

LEMMA StreamGuard ==
    ASSUME GuardsTyped, NEW g \in GuardType, Len(g.queue) <= GuardCap,
           guard' = [guard EXCEPT !["stream"] = g]
    PROVE  GuardsTyped' /\ guard'["stream"] = g /\ guard'["runtime"] = guard["runtime"]
BY DEF GuardsTyped

\* A callback enters, and its handler is still to come.
LEMMA Selected ==
    ASSUME Inv, NEW h \in Handles, callback[h] = "none",
           NEW kind \in {"accepted", "error", "disconnected"},
           Select(h, kind), UNCHANGED accepting
    PROVE  /\ callback' \in CallbackType /\ guard'["stream"] = guard["stream"]
           /\ GuardsTyped' /\ GuardsInv'
<1> DEFINE g == Enter(guard["runtime"])
<1>1. guard["runtime"] \in GuardType /\ Len(guard["runtime"].queue) <= GuardCap
  BY DEF Inv, GuardsTyped
<1>2. g \in GuardType /\ Len(g.queue) <= GuardCap /\ g.active = guard["runtime"].active + 1
  BY <1>1, EnterLeave
<1>3. guard' = [guard EXCEPT !["runtime"] = g]
  BY DEF Select
<1>4. callback' = [callback EXCEPT ![h] = kind]
  BY DEF Select
<1> HIDE DEF g
<1>5. GuardsTyped' /\ guard'["runtime"] = g /\ guard'["stream"] = guard["stream"]
  BY <1>2, <1>3, RuntimeGuard DEF Inv
<1>6. Cardinality(Busy') = Cardinality(Busy) + 1
  BY <1>4, Entered DEF Inv
<1>7. GuardsInv'
  BY <1>2, <1>5, <1>6 DEF Inv, GuardsInv
<1>8. callback' \in CallbackType
  BY <1>4 DEF Inv, SdkTyped, CallbackType
<1> QED
  BY <1>5, <1>7, <1>8

\* A callback without a handler leaves a disconnect behind, or nothing.
LEMMA PutOff ==
    ASSUME Inv, NEW h \in Handles, DisconnectLater(h), UNCHANGED accepting
    PROVE  /\ UNCHANGED callback /\ guard'["stream"] = guard["stream"]
           /\ GuardsTyped' /\ GuardsInv'
<1> DEFINE r == guard["runtime"]
           g == IF started THEN Defer(r, DisconnectTask(h)) ELSE r
<1>1. r \in GuardType /\ Len(r.queue) <= GuardCap
  BY DEF Inv, GuardsTyped
<1>2. DisconnectTask(h) \in Task
  BY DEF DisconnectTask, Task
<1>3. g \in GuardType /\ Len(g.queue) <= GuardCap /\ g.active = r.active
  <2>1. CASE started
    BY <1>1, <1>2, <2>1, Deferred
  <2>2. CASE ~started
    BY <1>1, <2>2
  <2> QED
    BY <2>1, <2>2
<1>4. guard' = [guard EXCEPT !["runtime"] = g] /\ UNCHANGED callback
  BY DEF DisconnectLater
<1> HIDE DEF g
<1>5. GuardsTyped' /\ guard'["runtime"] = g /\ guard'["stream"] = guard["stream"]
  BY <1>3, <1>4, RuntimeGuard DEF Inv
<1>6. Busy' = Busy
  BY <1>4 DEF Busy
<1>7. GuardsInv'
  BY <1>3, <1>5, <1>6 DEF Inv, GuardsInv
<1> QED
  BY <1>4, <1>5, <1>7

\* A handler returns, with what it has deferred.
LEMMA Returned ==
    ASSUME Inv, NEW h \in Handles, callback[h] # "none",
           NEW g \in GuardType, Len(g.queue) <= GuardCap, g.active = 0,
           g.running = guard["stream"].running, Return(h, g), UNCHANGED accepting
    PROVE  /\ callback' \in CallbackType /\ GuardsTyped' /\ GuardsInv'
           /\ halt \in {"up", "callbacks"}
<1> DEFINE r == Leave(guard["runtime"])
<1>1. guard["runtime"] \in GuardType /\ Len(guard["runtime"].queue) <= GuardCap
  BY DEF Inv, GuardsTyped
<1>2. /\ r \in GuardType /\ Len(r.queue) <= GuardCap
      /\ r.active = IF guard["runtime"].active > 0 THEN guard["runtime"].active - 1
                                                    ELSE guard["runtime"].active
  BY <1>1, EnterLeave
<1>3. guard' = [runtime |-> r, stream |-> g]
  BY DEF Return
<1>4. callback' = [callback EXCEPT ![h] = "none"]
  BY DEF Return
<1> HIDE DEF r
<1>5. guard'["runtime"] = r /\ guard'["stream"] = g /\ DOMAIN guard' = {"runtime", "stream"}
  BY <1>3
<1>6. GuardsTyped'
  BY <1>2, <1>5 DEF GuardsTyped
<1>7. Cardinality(Busy') = Cardinality(Busy) - 1 /\ Cardinality(Busy) > 0
  BY <1>4, Left DEF Inv
<1>8. GuardsInv'
  BY <1>2, <1>5, <1>7 DEF Inv, GuardsInv
<1>9. callback' \in CallbackType
  BY <1>4 DEF Inv, SdkTyped, CallbackType
<1>10. halt \in {"up", "callbacks"}
  BY DEF Inv, HaltInv
<1> QED
  BY <1>6, <1>8, <1>9, <1>10

\* The service's worker is done with its task.
LEMMA TaskFinished ==
    ASSUME Inv, FinishTask, UNCHANGED callback
    PROVE  GuardsTyped' /\ GuardsInv' /\ (Drained(guard["stream"]) => Drained(guard'["stream"]))
<1> DEFINE s == guard["stream"]
<1>1. s \in GuardType /\ Len(s.queue) <= GuardCap
  BY DEF Inv, GuardsTyped
<1>2. /\ Finish(s) \in GuardType /\ Finish(s).queue = s.queue
      /\ Finish(s).running = NoTask /\ Finish(s).active = s.active
  BY <1>1, Finished
<1>3. guard' = [guard EXCEPT !["stream"] = Finish(s)] /\ accepting' = "idle"
  BY DEF FinishTask
<1> HIDE DEF s
<1>4. GuardsTyped' /\ guard'["stream"] = Finish(s) /\ guard'["runtime"] = guard["runtime"]
  BY <1>1, <1>2, <1>3, StreamGuard DEF Inv
<1>5. Busy' = Busy
  BY DEF Busy
<1>6. GuardsInv'
  BY <1>2, <1>3, <1>4, <1>5 DEF Inv, GuardsInv, s
<1>7. Drained(s) => Drained(Finish(s))
  BY <1>1, <1>2, DrainedIs
<1> QED
  BY <1>4, <1>6, <1>7 DEF s

\* A connection is disconnected, or was already.
LEMMA DisconnectedTyped ==
    ASSUME NEW c \in ConnType, NEW h
    PROVE  Disconnected(c, h) \in ConnType
BY DEF Disconnected, ConnType

LEMMA DisconnectedAllTyped ==
    ASSUME NEW c \in ConnType, NEW hs
    PROVE  DisconnectedAll(c, hs) \in ConnType
<1>1. \A h \in Handles : Disconnected(c, h)[h] \in {"free", "open", "broken", "closing"}
  BY DisconnectedTyped DEF ConnType
<1> QED
  BY <1>1 DEF DisconnectedAll, ConnType

-----------------------------------------------------------------------------
(* The steps. *)

LEMMA OnConnAcceptedStep ==
    ASSUME Inv, NEW h \in Handles, OnConnAccepted(h), UNCHANGED streamVars
    PROVE  Inv'
<1>1. UNCHANGED <<sdk, started, stopped, activeGen, generation, halt, serviceActive,
      clients, accepting, media, push, pushRunning, pushCreated, session, leaving>>
  BY DEF OnConnAccepted, SdkMayCall, sessionVars, streamVars, pushVars, controlVars
<1>2. /\ GuardsTyped' /\ GuardsInv' /\ callback' \in CallbackType
      /\ guard'["stream"] = guard["stream"] /\ (activeGen # 0 \/ UNCHANGED callback)
  <2>1. CASE started /\ activeGen # 0
    <3>1. Select(h, "accepted") /\ callback[h] = "none"
      BY <2>1 DEF OnConnAccepted, SdkMayCall
    <3>2. activeGen # 0
      BY <2>1 DEF Inv, SessionTyped, Current
    <3>3. UNCHANGED accepting
      BY <1>1
    <3> QED
      BY <3>1, <3>2, <3>3, Selected
  <2>2. CASE ~(started /\ activeGen # 0)
    <3>1. DisconnectLater(h)
      BY <2>2 DEF OnConnAccepted
    <3>2. UNCHANGED accepting
      BY <1>1
    <3> QED
      BY <3>1, <3>2, PutOff DEF Inv, SdkTyped
  <2> QED
    BY <2>1, <2>2
<1>3. SdkTyped'
  BY <1>1, <1>2 DEF Inv, SdkTyped, ConnType, OnConnAccepted, SdkMayCall
<1>4. SessionTyped'
  BY <1>1, <1>2, MaxGenerationAssumption DEF Inv, SessionTyped, OnConnAccepted,
         SdkMayCall
<1>5. HaltInv'
  BY <1>1, <1>2 DEF Inv, HaltInv, SessionInv, SdkTyped, OnConnAccepted
<1>6. /\ FlagsTyped' /\ ControlTyped' /\ WorkTyped' /\ ClientsTyped' /\ SessionInv'
      /\ PushInv'
  BY <1>1 DEF Inv, FlagsTyped, ControlTyped, WorkTyped, ClientsTyped, SessionInv,
         PushInv
<1> QED
  BY <1>3, <1>4, <1>2, <1>5, <1>6 DEF Inv

LEMMA OnConnErrorStep ==
    ASSUME Inv, NEW h \in Handles, OnConnError(h), UNCHANGED streamVars
    PROVE  Inv'
<1>1. UNCHANGED <<sdk, started, stopped, activeGen, generation, bound, halt,
      serviceActive, clients, accepting, media, push, pushRunning, pushCreated, session,
      leaving>>
  BY DEF OnConnError, SdkMayCall, Current, sessionVars, streamVars, pushVars,
         controlVars
<1>2. /\ GuardsTyped' /\ GuardsInv' /\ callback' \in CallbackType
      /\ guard'["stream"] = guard["stream"] /\ (activeGen # 0 \/ UNCHANGED callback)
  <2>1. CASE Current(h)
    <3>1. Select(h, "error") /\ callback[h] = "none"
      BY <2>1 DEF OnConnError, SdkMayCall
    <3>2. activeGen # 0
      BY <2>1 DEF Inv, SessionTyped, Current
    <3>3. UNCHANGED accepting
      BY <1>1
    <3> QED
      BY <3>1, <3>2, <3>3, Selected
  <2>2. CASE ~(Current(h))
    <3>1. DisconnectLater(h)
      BY <2>2 DEF OnConnError
    <3>2. UNCHANGED accepting
      BY <1>1
    <3> QED
      BY <3>1, <3>2, PutOff DEF Inv, SdkTyped
  <2> QED
    BY <2>1, <2>2
<1>3. SdkTyped'
  BY <1>1, <1>2 DEF Inv, SdkTyped, ConnType, OnConnError, SdkMayCall
<1>4. HaltInv'
  BY <1>1, <1>2 DEF Inv, HaltInv, SessionInv, SdkTyped, OnConnError
<1>5. /\ SessionTyped' /\ FlagsTyped' /\ ControlTyped' /\ WorkTyped' /\ ClientsTyped'
      /\ SessionInv' /\ PushInv'
  BY <1>1 DEF Inv, SessionTyped, FlagsTyped, ControlTyped, WorkTyped, ClientsTyped,
         SessionInv, PushInv
<1> QED
  BY <1>3, <1>2, <1>4, <1>5 DEF Inv

LEMMA OnDisconnectedStep ==
    ASSUME Inv, NEW h \in Handles, OnDisconnected(h), UNCHANGED streamVars
    PROVE  Inv'
<1>1. UNCHANGED <<sdk, started, stopped, activeGen, generation, halt, serviceActive,
      clients, accepting, media, push, pushRunning, pushCreated, session, leaving>>
  BY DEF OnDisconnected, SdkMayCall, Current, sessionVars, streamVars, pushVars,
         controlVars
<1>2. /\ GuardsTyped' /\ GuardsInv' /\ callback' \in CallbackType
      /\ guard'["stream"] = guard["stream"] /\ (activeGen # 0 \/ UNCHANGED callback)
  <2>1. CASE Current(h)
    <3>1. Select(h, "disconnected") /\ callback[h] = "none"
      BY <2>1 DEF OnDisconnected, SdkMayCall
    <3>2. activeGen # 0
      BY <2>1 DEF Inv, SessionTyped, Current
    <3>3. UNCHANGED accepting
      BY <1>1
    <3> QED
      BY <3>1, <3>2, <3>3, Selected
  <2>2. CASE ~(Current(h))
    <3>1. UNCHANGED <<callback, guard>>
      BY <2>2 DEF OnDisconnected
    <3>2. UNCHANGED accepting
      BY <1>1
    <3> QED
      BY <3>1, <3>2 DEF Inv, GuardsTyped, GuardsInv, Busy, SdkTyped
  <2> QED
    BY <2>1, <2>2
<1>3. SdkTyped'
  BY <1>1, <1>2 DEF Inv, SdkTyped, ConnType, OnDisconnected, SdkMayCall
<1>4. SessionTyped'
  BY <1>1, <1>2, MaxGenerationAssumption DEF Inv, SessionTyped, OnDisconnected,
         SdkMayCall, Current
<1>5. HaltInv'
  BY <1>1, <1>2 DEF Inv, HaltInv, SessionInv, SdkTyped, OnDisconnected
<1>6. /\ FlagsTyped' /\ ControlTyped' /\ WorkTyped' /\ ClientsTyped' /\ SessionInv'
      /\ PushInv'
  BY <1>1 DEF Inv, FlagsTyped, ControlTyped, WorkTyped, ClientsTyped, SessionInv,
         PushInv
<1> QED
  BY <1>3, <1>4, <1>2, <1>5, <1>6 DEF Inv

LEMMA SdkClosesStep ==
    ASSUME Inv, NEW h \in Handles, SdkCloses(h), UNCHANGED streamVars
    PROVE  Inv'
<1>1. UNCHANGED <<sdk, callback, guard, started, stopped, activeGen, generation, bound,
      halt, serviceActive, clients, accepting, media, push, pushRunning, pushCreated,
      session, leaving>>
  BY DEF SdkCloses, sessionVars, streamVars, pushVars, controlVars
<1>2. SdkTyped'
  BY <1>1, DisconnectedTyped, DisconnectedAllTyped DEF Inv, SdkTyped, SdkCloses,
         ConnType, CallbackType
<1>3. /\ SessionTyped' /\ FlagsTyped' /\ ControlTyped' /\ WorkTyped' /\ ClientsTyped'
      /\ GuardsTyped' /\ GuardsInv' /\ SessionInv' /\ HaltInv' /\ PushInv'
  BY <1>1 DEF Inv, SessionTyped, FlagsTyped, ControlTyped, WorkTyped, ClientsTyped,
         GuardsTyped, GuardsInv, SessionInv, HaltInv, PushInv, Busy
<1> QED
  BY <1>2, <1>3 DEF Inv

LEMMA AcceptCallbackStep ==
    ASSUME Inv, NEW h \in Handles, callback[h] # "none", AcceptCallback(h),
           UNCHANGED <<sdk, started, stopped, sessionVars, bound, halt,
               serviceActive, accepting, pushVars, controlVars>>
    PROVE  Inv'
<1>1. UNCHANGED <<sdk, conn, started, stopped, activeGen, generation, bound, halt,
      serviceActive, accepting, media, push, pushRunning, pushCreated, session, leaving>>
  BY DEF AcceptCallback, sessionVars, pushVars, controlVars
<1> DEFINE g == CASE clients[h] # "FREE" -> Streaming
                  [] serviceActive /\ ~(clients[h] # "FREE") /\ CanDefer(Streaming)
                        -> Defer(Streaming, [do |-> "accept", h |-> h])
                  [] OTHER -> Defer(Streaming, DisconnectTask(h))
<1>2. /\ g \in GuardType /\ Len(g.queue) <= GuardCap /\ g.active = 0
      /\ g.running = guard["stream"].running
  <2> DEFINE task == [do |-> "accept", h |-> h]
  <2>1. g \in {Streaming, Defer(Streaming, task), Defer(Streaming, DisconnectTask(h))}
    OBVIOUS
  <2>2. task \in Task /\ DisconnectTask(h) \in Task
    BY DEF Task, DisconnectTask
  <2>3. /\ Streaming \in GuardType /\ Len(Streaming.queue) <= GuardCap
        /\ Streaming.active = 0
    BY DEF Inv, GuardsTyped, GuardsInv, Streaming
  <2> HIDE DEF g, task
  <2>4. /\ Defer(Streaming, task) \in GuardType
        /\ Len(Defer(Streaming, task).queue) <= GuardCap
        /\ Defer(Streaming, task).active = 0
        /\ Defer(Streaming, task).running = Streaming.running
    BY <2>2, <2>3, Deferred
  <2>5. /\ Defer(Streaming, DisconnectTask(h)) \in GuardType
        /\ Len(Defer(Streaming, DisconnectTask(h)).queue) <= GuardCap
        /\ Defer(Streaming, DisconnectTask(h)).active = 0
        /\ Defer(Streaming, DisconnectTask(h)).running = Streaming.running
    BY <2>2, <2>3, Deferred
  <2> QED
    BY <2>1, <2>3, <2>4, <2>5 DEF Streaming
<1>3. Return(h, g) /\ UNCHANGED accepting
  BY <1>1 DEF AcceptCallback
<1> HIDE DEF g
<1>4. /\ callback' \in CallbackType /\ GuardsTyped' /\ GuardsInv'
      /\ halt \in {"up", "callbacks"}
  BY <1>2, <1>3, Returned
<1>5. SdkTyped'
  BY <1>1, <1>4 DEF Inv, SdkTyped, ConnType, AcceptCallback
<1>6. ClientsTyped'
  BY <1>1, <1>2, <1>3, <1>4 DEF Inv, ClientsTyped, AcceptCallback, NoClients
<1>7. SessionInv'
  BY <1>1, <1>2, <1>3, <1>4 DEF Inv, SessionInv, WorkTyped, ControlTyped,
         AcceptCallback, NoClients, HaltStep
<1>8. HaltInv'
  BY <1>1, <1>4 DEF Inv, HaltInv
<1>9. /\ SessionTyped' /\ FlagsTyped' /\ ControlTyped' /\ WorkTyped' /\ PushInv'
  BY <1>1 DEF Inv, SessionTyped, FlagsTyped, ControlTyped, WorkTyped, PushInv
<1> QED
  BY <1>5, <1>6, <1>4, <1>7, <1>8, <1>9 DEF Inv

LEMMA ErrorCallbackStep ==
    ASSUME Inv, NEW h \in Handles, callback[h] # "none", ErrorCallback(h),
           UNCHANGED <<sdk, started, stopped, sessionVars, bound, halt,
               serviceActive, accepting, pushVars, controlVars>>
    PROVE  Inv'
<1>1. UNCHANGED <<sdk, conn, started, stopped, activeGen, generation, bound, halt,
      serviceActive, accepting, media, push, pushRunning, pushCreated, session, leaving>>
  BY DEF ErrorCallback, sessionVars, pushVars, controlVars
<1> DEFINE g == Defer(Streaming, DisconnectTask(h))
<1>2. /\ g \in GuardType /\ Len(g.queue) <= GuardCap /\ g.active = 0
      /\ g.running = guard["stream"].running
  <2>1. DisconnectTask(h) \in Task
    BY DEF Task, DisconnectTask
  <2>2. /\ Streaming \in GuardType /\ Len(Streaming.queue) <= GuardCap
        /\ Streaming.active = 0
    BY DEF Inv, GuardsTyped, GuardsInv, Streaming
  <2> QED
    BY <2>1, <2>2, Deferred DEF Streaming
<1>3. Return(h, g) /\ UNCHANGED accepting
  BY <1>1 DEF ErrorCallback
<1> HIDE DEF g
<1>4. /\ callback' \in CallbackType /\ GuardsTyped' /\ GuardsInv'
      /\ halt \in {"up", "callbacks"}
  BY <1>2, <1>3, Returned
<1>5. SdkTyped'
  BY <1>1, <1>4 DEF Inv, SdkTyped, ConnType, ErrorCallback
<1>6. ClientsTyped'
  BY <1>1, <1>2, <1>3, <1>4 DEF Inv, ClientsTyped, ErrorCallback, NoClients
<1>7. SessionInv'
  <2>1. clients' = [clients EXCEPT ![h] = "FREE"]
    BY DEF ErrorCallback
  <2> QED
    BY <1>1, <2>1, StillNoClients DEF Inv, SessionInv
<1>8. HaltInv'
  BY <1>1, <1>4 DEF Inv, HaltInv
<1>9. /\ SessionTyped' /\ FlagsTyped' /\ ControlTyped' /\ WorkTyped' /\ PushInv'
  BY <1>1 DEF Inv, SessionTyped, FlagsTyped, ControlTyped, WorkTyped, PushInv
<1> QED
  BY <1>5, <1>6, <1>4, <1>7, <1>8, <1>9 DEF Inv

LEMMA DisconnectedCallbackStep ==
    ASSUME Inv, NEW h \in Handles, callback[h] # "none", DisconnectedCallback(h),
           UNCHANGED <<sdk, started, stopped, sessionVars, bound, halt,
               serviceActive, accepting, pushVars, controlVars>>
    PROVE  Inv'
<1>1. UNCHANGED <<sdk, started, stopped, activeGen, generation, bound, halt,
      serviceActive, accepting, media, push, pushRunning, pushCreated, session, leaving>>
  BY DEF DisconnectedCallback, sessionVars, pushVars, controlVars
<1> DEFINE g == Streaming
<1>2. /\ g \in GuardType /\ Len(g.queue) <= GuardCap /\ g.active = 0
      /\ g.running = guard["stream"].running
  BY DEF Inv, GuardsTyped, GuardsInv, Streaming
<1>3. Return(h, g) /\ UNCHANGED accepting
  BY <1>1 DEF DisconnectedCallback
<1> HIDE DEF g
<1>4. /\ callback' \in CallbackType /\ GuardsTyped' /\ GuardsInv'
      /\ halt \in {"up", "callbacks"}
  BY <1>2, <1>3, Returned
<1>5. SdkTyped'
  BY <1>1, <1>4 DEF Inv, SdkTyped, ConnType, DisconnectedCallback
<1>6. ClientsTyped'
  BY <1>1, <1>2, <1>3, <1>4 DEF Inv, ClientsTyped, DisconnectedCallback, NoClients
<1>7. SessionInv'
  <2>1. clients' = [clients EXCEPT ![h] = "FREE"]
    BY DEF DisconnectedCallback
  <2> QED
    BY <1>1, <2>1, StillNoClients DEF Inv, SessionInv
<1>8. HaltInv'
  BY <1>1, <1>4 DEF Inv, HaltInv
<1>9. /\ SessionTyped' /\ FlagsTyped' /\ ControlTyped' /\ WorkTyped' /\ PushInv'
  BY <1>1 DEF Inv, SessionTyped, FlagsTyped, ControlTyped, WorkTyped, PushInv
<1> QED
  BY <1>5, <1>6, <1>4, <1>7, <1>8, <1>9 DEF Inv

LEMMA TakeTaskStep ==
    ASSUME Inv, TakeTask,
           UNCHANGED <<sdk, callback, started, stopped, sessionVars, bound, halt,
               serviceActive, controlVars>>
    PROVE  Inv'
<1>1. UNCHANGED <<sdk, callback, started, stopped, activeGen, generation, bound, halt,
      serviceActive, clients, media, push, pushRunning, pushCreated, session, leaving>>
  BY DEF TakeTask, pushVars, sessionVars, controlVars
<1>2. accepting = "idle" /\ halt \in {"up", "callbacks", "services"}
      /\ GuardsTyped' /\ GuardsInv' /\ accepting' \in {"idle", "ensure"}
      /\ (accepting' = "ensure" => serviceActive)
  <2> DEFINE s == guard["stream"]
             announced == /\ Head(s.queue).do = "accept"
                          /\ serviceActive /\ clients[Head(s.queue).h] = "PENDING"
             g == IF announced THEN Take(s) ELSE Finish(Take(s))
  <2>1. s \in GuardType /\ Len(s.queue) <= GuardCap /\ s.active = 0
    BY DEF Inv, GuardsTyped, GuardsInv
  <2>2. CanTake(s)
    BY DEF TakeTask, Streaming
  <2>3. guard' = [guard EXCEPT !["stream"] = g]
    BY DEF TakeTask, Streaming
  <2>4. accepting' = IF announced THEN "ensure" ELSE "idle"
    BY DEF TakeTask, Streaming
  <2>5. accepting = "idle" \/ s.running # NoTask
    BY DEF Inv, GuardsInv
  <2>6. halt \notin {"up", "callbacks", "services"} => Drained(s)
    BY DEF Inv, HaltInv
  <2>7. halt \in HaltStep /\ (announced => serviceActive)
    BY DEF Inv, ControlTyped
  <2> HIDE DEF s, announced, g
  <2>8. /\ Take(s) \in GuardType /\ Len(Take(s).queue) <= GuardCap
        /\ Take(s).running = Head(s.queue) /\ Take(s).active = 0
        /\ Head(s.queue) # NoTask /\ s.queue # <<>> /\ s.running = NoTask
    BY <2>1, <2>2, TakenTask, TaskIsOne
  <2>9. /\ Finish(Take(s)) \in GuardType /\ Len(Finish(Take(s)).queue) <= GuardCap
        /\ Finish(Take(s)).running = NoTask /\ Finish(Take(s)).active = 0
    BY <2>8, Finished
  <2>10. /\ g \in GuardType /\ Len(g.queue) <= GuardCap /\ g.active = 0
         /\ (announced <=> g.running # NoTask)
    BY <2>8, <2>9 DEF g
  <2>11. GuardsTyped' /\ guard'["stream"] = g /\ guard'["runtime"] = guard["runtime"]
    BY <2>3, <2>10, StreamGuard DEF Inv
  <2>12. Busy' = Busy
    BY <1>1 DEF Busy
  <2>13. accepting' # "idle" <=> announced
    BY <2>4
  <2>14. GuardsInv'
    BY <2>10, <2>11, <2>12, <2>13 DEF Inv, GuardsInv
  <2>15. ~Drained(s)
    BY <2>1, <2>8, DrainedIs
  <2> QED
    BY <2>4, <2>5, <2>6, <2>7, <2>8, <2>11, <2>14, <2>15
<1>3. SdkTyped'
  BY <1>1, <1>2, DisconnectedTyped, DisconnectedAllTyped DEF Inv, SdkTyped, TakeTask,
         ConnType, CallbackType
<1>4. WorkTyped'
  BY <1>1, <1>2 DEF Inv, WorkTyped
<1>5. SessionInv'
  BY <1>1, <1>2 DEF Inv, SessionInv, TakeTask
<1>6. HaltInv'
  BY <1>1, <1>2 DEF Inv, HaltInv, SdkTyped, TakeTask
<1>7. PushInv'
  BY <1>1, <1>2 DEF Inv, PushInv, WorkTyped
<1>8. /\ SessionTyped' /\ FlagsTyped' /\ ControlTyped' /\ ClientsTyped'
  BY <1>1 DEF Inv, SessionTyped, FlagsTyped, ControlTyped, ClientsTyped
<1> QED
  BY <1>3, <1>4, <1>2, <1>5, <1>6, <1>7, <1>8 DEF Inv

LEMMA EnsurePushStep ==
    ASSUME Inv, EnsurePush,
           UNCHANGED <<sdk, callback, started, stopped, sessionVars, bound, halt,
               serviceActive, controlVars>>
    PROVE  Inv'
<1>1. UNCHANGED <<sdk, conn, callback, guard, started, stopped, activeGen, generation,
      bound, halt, serviceActive, clients, media, push, pushRunning, session, leaving>>
  BY DEF EnsurePush, sessionVars, controlVars
<1>2. FlagsTyped'
  BY <1>1 DEF Inv, FlagsTyped, EnsurePush
<1>3. WorkTyped'
  BY <1>1 DEF Inv, WorkTyped, EnsurePush
<1>4. GuardsInv'
  BY <1>1 DEF Inv, GuardsInv, EnsurePush, Busy
<1>5. SessionInv'
  BY <1>1 DEF Inv, SessionInv, WorkTyped, ControlTyped, EnsurePush, NoClients, HaltStep
<1>6. PushInv'
  <2>1. /\ accepting = "ensure"
        /\ UNCHANGED <<media, push, pushRunning, session, serviceActive>>
    BY <1>1 DEF EnsurePush
  <2>2. pushCreated' <=> pushCreated /\ pushRunning
    <3>1. pushCreated' = (pushCreated /\ pushRunning)
      BY DEF EnsurePush
    <3> QED
      BY <3>1, Zenon
  <2>3. accepting' = IF pushRunning THEN "activate" ELSE IF pushCreated THEN "join" ELSE "open"
    BY DEF EnsurePush
  <2>4. session \notin {"off", "activated"}
    BY <2>1 DEF Inv, SessionInv
  <2>5. CASE pushRunning
    BY <2>1, <2>3, <2>5, <2>2 DEF Inv, PushInv
  <2>6. CASE ~pushRunning /\ pushCreated
    BY <2>1, <2>3, <2>6, <2>2 DEF Inv, PushInv
  <2>7. CASE ~pushRunning /\ ~pushCreated
    <3>1. accepting' = "open" /\ ~pushCreated'
      BY <2>1, <2>3, <2>7, <2>2
    <3>2. serviceActive => push = "none"
      BY <2>1, <2>7 DEF Inv, PushInv, SessionInv
    <3> QED
      BY <2>1, <2>7, <3>1, <3>2 DEF Inv, PushInv
  <2> QED
    BY <2>5, <2>6, <2>7
<1>7. /\ SdkTyped' /\ SessionTyped' /\ ControlTyped' /\ ClientsTyped' /\ GuardsTyped'
      /\ HaltInv'
  BY <1>1 DEF Inv, SdkTyped, SessionTyped, ControlTyped, ClientsTyped, GuardsTyped,
         HaltInv
<1> QED
  BY <1>2, <1>3, <1>4, <1>5, <1>6, <1>7 DEF Inv

LEMMA JoinFinishedPushStep ==
    ASSUME Inv, JoinFinishedPush,
           UNCHANGED <<sdk, callback, started, stopped, sessionVars, bound, halt,
               serviceActive, controlVars>>
    PROVE  Inv'
<1>1. UNCHANGED <<sdk, conn, callback, guard, started, stopped, activeGen, generation,
      bound, halt, serviceActive, clients, media, pushRunning, pushCreated, session,
      leaving>>
  BY DEF JoinFinishedPush, sessionVars, controlVars
<1>2. WorkTyped'
  BY <1>1 DEF Inv, WorkTyped, JoinFinishedPush
<1>3. GuardsInv'
  BY <1>1 DEF Inv, GuardsInv, JoinFinishedPush, Busy
<1>4. SessionInv'
  BY <1>1 DEF Inv, SessionInv, WorkTyped, ControlTyped, JoinFinishedPush, NoClients,
         HaltStep
<1>5. PushInv'
  BY <1>1 DEF Inv, PushInv, WorkTyped, ControlTyped, SessionInv, JoinFinishedPush,
         HaltStep, NoClients
<1>6. /\ SdkTyped' /\ SessionTyped' /\ FlagsTyped' /\ ControlTyped' /\ ClientsTyped'
      /\ GuardsTyped' /\ HaltInv'
  BY <1>1 DEF Inv, SdkTyped, SessionTyped, FlagsTyped, ControlTyped, ClientsTyped,
         GuardsTyped, HaltInv
<1> QED
  BY <1>2, <1>3, <1>4, <1>5, <1>6 DEF Inv

LEMMA OpenMediaStep ==
    ASSUME Inv, OpenMedia,
           UNCHANGED <<sdk, callback, started, stopped, sessionVars, bound, halt,
               serviceActive, controlVars>>
    PROVE  Inv'
<1>1. UNCHANGED <<sdk, conn, callback, guard, started, stopped, activeGen, generation,
      bound, halt, serviceActive, clients, push, pushRunning, pushCreated, session,
      leaving>>
  BY DEF OpenMedia, sessionVars, controlVars
<1>2. WorkTyped'
  BY <1>1 DEF Inv, WorkTyped, OpenMedia
<1>3. GuardsInv'
  BY <1>1 DEF Inv, GuardsInv, OpenMedia, Busy
<1>4. SessionInv'
  BY <1>1 DEF Inv, SessionInv, WorkTyped, ControlTyped, OpenMedia, NoClients, HaltStep
<1>5. PushInv'
  BY <1>1 DEF Inv, PushInv, WorkTyped, ControlTyped, SessionInv, OpenMedia, HaltStep,
         NoClients
<1>6. /\ SdkTyped' /\ SessionTyped' /\ FlagsTyped' /\ ControlTyped' /\ ClientsTyped'
      /\ GuardsTyped' /\ HaltInv'
  BY <1>1 DEF Inv, SdkTyped, SessionTyped, FlagsTyped, ControlTyped, ClientsTyped,
         GuardsTyped, HaltInv
<1> QED
  BY <1>2, <1>3, <1>4, <1>5, <1>6 DEF Inv

LEMMA CreatePushStep ==
    ASSUME Inv, CreatePush,
           UNCHANGED <<sdk, callback, started, stopped, sessionVars, bound, halt,
               serviceActive, controlVars>>
    PROVE  Inv'
<1>1. UNCHANGED <<sdk, conn, callback, guard, started, stopped, activeGen, generation,
      bound, halt, serviceActive, clients, session, leaving>>
  BY DEF CreatePush, sessionVars, controlVars
<1>2. FlagsTyped'
  BY <1>1 DEF Inv, FlagsTyped, CreatePush
<1>3. WorkTyped'
  BY <1>1 DEF Inv, WorkTyped, CreatePush
<1>4. GuardsInv'
  BY <1>1 DEF Inv, GuardsInv, CreatePush, Busy
<1>5. SessionInv'
  BY <1>1 DEF Inv, SessionInv, WorkTyped, ControlTyped, CreatePush, NoClients, HaltStep
<1>6. PushInv'
  BY <1>1 DEF Inv, PushInv, WorkTyped, ControlTyped, SessionInv, CreatePush, HaltStep,
         NoClients
<1>7. /\ SdkTyped' /\ SessionTyped' /\ ControlTyped' /\ ClientsTyped' /\ GuardsTyped'
      /\ HaltInv'
  BY <1>1 DEF Inv, SdkTyped, SessionTyped, ControlTyped, ClientsTyped, GuardsTyped,
         HaltInv
<1> QED
  BY <1>2, <1>3, <1>4, <1>5, <1>6, <1>7 DEF Inv

LEMMA NoPushStep ==
    ASSUME Inv, NoPush,
           UNCHANGED <<sdk, callback, started, stopped, sessionVars, bound, halt,
               serviceActive, controlVars>>
    PROVE  Inv'
<1>1. UNCHANGED <<sdk, callback, started, stopped, activeGen, generation, bound, halt,
      serviceActive, media, push, pushRunning, pushCreated, session, leaving>>
  BY DEF NoPush, Taken, Refuse, pushVars, sessionVars, controlVars
<1>2. /\ GuardsTyped' /\ GuardsInv' /\ accepting = "refuse" /\ accepting' = "idle"
      /\ UNCHANGED <<pushVars, session, halt, activeGen, serviceActive>>
  <2>1. FinishTask /\ UNCHANGED callback
    BY <1>1 DEF NoPush, Refuse
  <2>2. accepting' = "idle" /\ accepting = "refuse"
    BY DEF NoPush, Refuse, FinishTask
  <2> QED
    BY <1>1, <2>1, <2>2, TaskFinished DEF pushVars
<1>3. SdkTyped'
  BY <1>1, <1>2, DisconnectedTyped, DisconnectedAllTyped DEF Inv, SdkTyped, NoPush,
         Taken, Refuse, ConnType, CallbackType
<1>4. WorkTyped'
  BY <1>2 DEF Inv, WorkTyped, pushVars
<1>5. ClientsTyped'
  BY <1>1, <1>2 DEF Inv, ClientsTyped, NoPush, Taken, Refuse, NoClients
<1>6. SessionInv'
  <2>1. clients' = [clients EXCEPT ![Taken.h] = "FREE"]
    BY DEF NoPush
  <2> QED
    BY <1>1, <1>2, <2>1, StillNoClients DEF Inv, SessionInv
<1>7. HaltInv'
  BY <1>1, <1>2 DEF Inv, HaltInv, ControlTyped, SdkTyped, SessionInv, SessionTyped,
         NoPush, Taken, Refuse, HaltStep, ConnType, CallbackType, NoClients
<1>8. PushInv'
  BY <1>1, <1>2 DEF Inv, PushInv, pushVars
<1>9. /\ SessionTyped' /\ FlagsTyped' /\ ControlTyped'
  BY <1>1 DEF Inv, SessionTyped, FlagsTyped, ControlTyped
<1> QED
  BY <1>3, <1>4, <1>5, <1>2, <1>6, <1>7, <1>8, <1>9 DEF Inv

LEMMA ActivateClientStep ==
    ASSUME Inv, ActivateClient,
           UNCHANGED <<sdk, callback, started, stopped, sessionVars, bound, halt,
               serviceActive, controlVars>>
    PROVE  Inv'
<1>1. UNCHANGED <<sdk, callback, started, stopped, activeGen, generation, bound, halt,
      serviceActive, media, push, pushRunning, pushCreated, session, leaving>>
  BY DEF ActivateClient, Taken, Refuse, pushVars, sessionVars, controlVars
<1>2. /\ GuardsTyped' /\ GuardsInv' /\ accepting = "activate"
      /\ accepting' \in {"idle", "subscribed"}
      /\ UNCHANGED <<pushVars, session, halt, activeGen, serviceActive>>
  <2>1. accepting = "activate"
    BY DEF ActivateClient
  <2>2. CASE serviceActive /\ clients[Taken.h] = "PENDING"
    <3>1. accepting' = "subscribed" /\ UNCHANGED <<guard, callback>>
      BY <1>1, <2>2 DEF ActivateClient
    <3>2. Busy' = Busy
      BY <3>1 DEF Busy
    <3> QED
      BY <1>1, <2>1, <3>1, <3>2 DEF Inv, GuardsTyped, GuardsInv, pushVars
  <2>3. CASE ~(serviceActive /\ clients[Taken.h] = "PENDING")
    <3>1. FinishTask /\ UNCHANGED callback /\ accepting' = "idle"
      BY <1>1, <2>3 DEF ActivateClient, Refuse, FinishTask
    <3> QED
      BY <1>1, <2>1, <3>1, TaskFinished DEF pushVars
  <2> QED
    BY <2>2, <2>3
<1>3. SdkTyped'
  BY <1>1, <1>2, DisconnectedTyped, DisconnectedAllTyped DEF Inv, SdkTyped,
         ActivateClient, Taken, Refuse, ConnType, CallbackType
<1>4. WorkTyped'
  BY <1>2 DEF Inv, WorkTyped, pushVars
<1>5. ClientsTyped'
  BY <1>1, <1>2 DEF Inv, ClientsTyped, ActivateClient, Taken, Refuse, NoClients
<1>6. SessionInv'
  BY <1>1, <1>2 DEF Inv, SessionInv, WorkTyped, ControlTyped, ActivateClient, Taken,
         Refuse, NoClients, HaltStep
<1>7. HaltInv'
  BY <1>1, <1>2 DEF Inv, HaltInv, ControlTyped, SdkTyped, SessionInv, SessionTyped,
         ActivateClient, Taken, Refuse, HaltStep, ConnType, CallbackType, NoClients
<1>8. PushInv'
  BY <1>1, <1>2 DEF Inv, PushInv, pushVars
<1>9. /\ SessionTyped' /\ FlagsTyped' /\ ControlTyped'
  BY <1>1 DEF Inv, SessionTyped, FlagsTyped, ControlTyped
<1> QED
  BY <1>3, <1>4, <1>5, <1>2, <1>6, <1>7, <1>8, <1>9 DEF Inv

LEMMA SubscribedDownStep ==
    ASSUME Inv, SubscribedDown,
           UNCHANGED <<sdk, callback, started, stopped, sessionVars, bound, halt,
               serviceActive, controlVars>>
    PROVE  Inv'
<1>1. UNCHANGED <<sdk, callback, started, stopped, activeGen, generation, bound, halt,
      serviceActive, clients, media, push, pushRunning, pushCreated, session, leaving>>
  BY DEF SubscribedDown, Taken, Refuse, pushVars, sessionVars, controlVars
<1>2. /\ GuardsTyped' /\ GuardsInv' /\ accepting = "subscribed"
      /\ accepting' \in {"idle", "subscribed"}
      /\ UNCHANGED <<pushVars, session, halt, activeGen, serviceActive>>
  <2>1. accepting = "subscribed"
    BY DEF SubscribedDown
  <2>2. CASE serviceActive /\ clients[Taken.h] = "ACTIVE"
    <3>1. FinishTask /\ UNCHANGED callback /\ accepting' = "idle"
      BY <1>1, <2>2 DEF SubscribedDown, FinishTask
    <3> QED
      BY <1>1, <2>1, <3>1, TaskFinished DEF pushVars
  <2>3. CASE ~(serviceActive /\ clients[Taken.h] = "ACTIVE")
    <3>1. FinishTask /\ UNCHANGED callback /\ accepting' = "idle"
      BY <1>1, <2>3 DEF SubscribedDown, Refuse, FinishTask
    <3> QED
      BY <1>1, <2>1, <3>1, TaskFinished DEF pushVars
  <2> QED
    BY <2>2, <2>3
<1>3. SdkTyped'
  BY <1>1, <1>2, DisconnectedTyped, DisconnectedAllTyped DEF Inv, SdkTyped,
         SubscribedDown, Taken, Refuse, ConnType, CallbackType
<1>4. WorkTyped'
  BY <1>2 DEF Inv, WorkTyped, pushVars
<1>5. SessionInv'
  BY <1>1, <1>2 DEF Inv, SessionInv, WorkTyped, ControlTyped, SubscribedDown, Taken,
         Refuse, NoClients, HaltStep
<1>6. HaltInv'
  BY <1>1, <1>2 DEF Inv, HaltInv, ControlTyped, SdkTyped, SessionInv, SessionTyped,
         SubscribedDown, Taken, Refuse, HaltStep, ConnType, CallbackType, NoClients
<1>7. PushInv'
  BY <1>1, <1>2 DEF Inv, PushInv, pushVars
<1>8. /\ SessionTyped' /\ FlagsTyped' /\ ControlTyped' /\ ClientsTyped'
  BY <1>1 DEF Inv, SessionTyped, FlagsTyped, ControlTyped, ClientsTyped
<1> QED
  BY <1>3, <1>4, <1>2, <1>5, <1>6, <1>7, <1>8 DEF Inv

LEMMA SendFailsStep ==
    ASSUME Inv, NEW h \in Handles, SendFails(h)
    PROVE  Inv'
<1>1. UNCHANGED <<sdk, callback, guard, started, stopped, activeGen, generation, bound,
      halt, serviceActive, accepting, media, push, pushRunning, pushCreated, session,
      leaving>>
  BY DEF SendFails, pushVars, PushUnchanged, sessionVars, controlVars
<1>2. SdkTyped'
  BY <1>1, DisconnectedTyped, DisconnectedAllTyped DEF Inv, SdkTyped, SendFails,
         PushUnchanged, ConnType, CallbackType
<1>3. ClientsTyped'
  BY <1>1 DEF Inv, ClientsTyped, SendFails, PushUnchanged, NoClients
<1>4. SessionInv'
  BY <1>1 DEF Inv, SessionInv, WorkTyped, ControlTyped, SendFails, PushUnchanged,
         NoClients, HaltStep
<1>5. /\ SessionTyped' /\ FlagsTyped' /\ ControlTyped' /\ WorkTyped' /\ GuardsTyped'
      /\ GuardsInv' /\ HaltInv' /\ PushInv'
  BY <1>1 DEF Inv, SessionTyped, FlagsTyped, ControlTyped, WorkTyped, GuardsTyped,
         GuardsInv, HaltInv, PushInv, Busy
<1> QED
  BY <1>2, <1>3, <1>4, <1>5 DEF Inv

LEMMA LeaveLoopStep ==
    ASSUME Inv, LeaveLoop
    PROVE  Inv'
<1>1. UNCHANGED <<sdk, conn, callback, guard, started, stopped, activeGen, generation,
      bound, halt, serviceActive, clients, accepting, pushRunning, pushCreated, session,
      leaving>>
  BY DEF LeaveLoop, PushUnchanged, sessionVars, controlVars
<1>2. WorkTyped'
  BY <1>1 DEF Inv, WorkTyped, LeaveLoop, PushUnchanged
<1>3. PushInv'
  BY <1>1 DEF Inv, PushInv, WorkTyped, ControlTyped, SessionInv, LeaveLoop,
         PushUnchanged, HaltStep, NoClients
<1>4. /\ SdkTyped' /\ SessionTyped' /\ FlagsTyped' /\ ControlTyped' /\ ClientsTyped'
      /\ GuardsTyped' /\ GuardsInv' /\ SessionInv' /\ HaltInv'
  BY <1>1 DEF Inv, SdkTyped, SessionTyped, FlagsTyped, ControlTyped, ClientsTyped,
         GuardsTyped, GuardsInv, SessionInv, HaltInv, Busy
<1> QED
  BY <1>2, <1>3, <1>4 DEF Inv

LEMMA EndPushStep ==
    ASSUME Inv, EndPush
    PROVE  Inv'
<1>1. UNCHANGED <<sdk, conn, callback, guard, started, stopped, activeGen, generation,
      bound, halt, serviceActive, clients, accepting, media, pushCreated, session,
      leaving>>
  BY DEF EndPush, PushUnchanged, sessionVars, controlVars
<1>2. FlagsTyped'
  BY <1>1 DEF Inv, FlagsTyped, EndPush, PushUnchanged
<1>3. WorkTyped'
  BY <1>1 DEF Inv, WorkTyped, EndPush, PushUnchanged
<1>4. PushInv'
  BY <1>1 DEF Inv, PushInv, WorkTyped, ControlTyped, SessionInv, EndPush,
         PushUnchanged, HaltStep, NoClients
<1>5. /\ SdkTyped' /\ SessionTyped' /\ ControlTyped' /\ ClientsTyped' /\ GuardsTyped'
      /\ GuardsInv' /\ SessionInv' /\ HaltInv'
  BY <1>1 DEF Inv, SdkTyped, SessionTyped, ControlTyped, ClientsTyped, GuardsTyped,
         GuardsInv, SessionInv, HaltInv, Busy
<1> QED
  BY <1>2, <1>3, <1>4, <1>5 DEF Inv

LEMMA StartStreamStep ==
    ASSUME Inv, StartStream
    PROVE  Inv'
<1>1. UNCHANGED <<sdk, conn, callback, guard, started, stopped, bound, halt,
      serviceActive, clients, accepting, media, push, pushRunning, pushCreated, leaving>>
  BY DEF StartStream, Activate, pushVars, sdkVars
<1>2. SessionTyped'
  BY <1>1, MaxGenerationAssumption DEF Inv, SessionTyped, StartStream, Activate
<1>3. ControlTyped'
  BY <1>1 DEF Inv, ControlTyped, ClientsTyped, StartStream, Activate, HaltStep,
         NoClients
<1>4. SessionInv'
  BY <1>1 DEF Inv, SessionInv, WorkTyped, ControlTyped, StartStream, Activate,
         NoClients, HaltStep
<1>5. PushInv'
  BY <1>1 DEF Inv, PushInv, WorkTyped, ControlTyped, SessionInv, StartStream, Activate,
         HaltStep, NoClients
<1>6. /\ SdkTyped' /\ FlagsTyped' /\ WorkTyped' /\ ClientsTyped' /\ GuardsTyped'
      /\ GuardsInv' /\ HaltInv'
  BY <1>1 DEF Inv, SdkTyped, FlagsTyped, WorkTyped, ClientsTyped, GuardsTyped,
         GuardsInv, HaltInv, Busy
<1> QED
  BY <1>2, <1>3, <1>4, <1>5, <1>6 DEF Inv

LEMMA StartServiceStep ==
    ASSUME Inv, StartService
    PROVE  Inv'
<1>1. UNCHANGED <<sdk, conn, callback, guard, started, stopped, activeGen, generation,
      bound, halt, accepting, media, push, pushRunning, pushCreated, leaving>>
  BY DEF StartService, pushVars, ControlUnchanged, sessionVars
<1>2. FlagsTyped'
  BY <1>1 DEF Inv, FlagsTyped, StartService, ControlUnchanged
<1>3. ControlTyped'
  BY <1>1 DEF Inv, ControlTyped, ClientsTyped, StartService, ControlUnchanged,
         HaltStep, NoClients
<1>4. ClientsTyped'
  BY <1>1 DEF Inv, ClientsTyped, StartService, ControlUnchanged, NoClients
<1>5. SessionInv'
  BY <1>1 DEF Inv, SessionInv, WorkTyped, ControlTyped, StartService, ControlUnchanged,
         NoClients, HaltStep
<1>6. PushInv'
  BY <1>1 DEF Inv, PushInv, WorkTyped, ControlTyped, SessionInv, StartService,
         ControlUnchanged, HaltStep, NoClients
<1>7. /\ SdkTyped' /\ SessionTyped' /\ WorkTyped' /\ GuardsTyped' /\ GuardsInv'
      /\ HaltInv'
  BY <1>1 DEF Inv, SdkTyped, SessionTyped, WorkTyped, GuardsTyped, GuardsInv, HaltInv,
         Busy
<1> QED
  BY <1>2, <1>3, <1>4, <1>5, <1>6, <1>7 DEF Inv

LEMMA StopStreamStep ==
    ASSUME Inv, StopStream
    PROVE  Inv'
<1>1. UNCHANGED <<sdk, conn, callback, guard, started, stopped, generation, bound, halt,
      serviceActive, clients, accepting, media, push, pushRunning, pushCreated, leaving>>
  BY DEF StopStream, Deactivate, pushVars, sdkVars
<1>2. SessionTyped'
  BY <1>1, MaxGenerationAssumption DEF Inv, SessionTyped, StopStream, Deactivate
<1>3. ControlTyped'
  BY <1>1 DEF Inv, ControlTyped, ClientsTyped, StopStream, Deactivate, HaltStep,
         NoClients
<1>4. SessionInv'
  BY <1>1 DEF Inv, SessionInv, WorkTyped, ControlTyped, StopStream, Deactivate,
         NoClients, HaltStep
<1>5. PushInv'
  BY <1>1 DEF Inv, PushInv, WorkTyped, ControlTyped, SessionInv, StopStream,
         Deactivate, HaltStep, NoClients
<1>6. /\ SdkTyped' /\ FlagsTyped' /\ WorkTyped' /\ ClientsTyped' /\ GuardsTyped'
      /\ GuardsInv' /\ HaltInv'
  BY <1>1 DEF Inv, SdkTyped, FlagsTyped, WorkTyped, ClientsTyped, GuardsTyped,
         GuardsInv, HaltInv, Busy
<1> QED
  BY <1>2, <1>3, <1>4, <1>5, <1>6 DEF Inv

LEMMA StopServiceStep ==
    ASSUME Inv, StopService
    PROVE  Inv'
<1>1. UNCHANGED <<sdk, conn, callback, guard, started, stopped, activeGen, generation,
      bound, halt, accepting, media, push, pushRunning, pushCreated>>
  BY DEF StopService, pushVars, ControlUnchanged, sessionVars
<1>2. FlagsTyped'
  BY <1>1 DEF Inv, FlagsTyped, StopService, ControlUnchanged
<1>3. ControlTyped'
  BY <1>1 DEF Inv, ControlTyped, ClientsTyped, StopService, ControlUnchanged, HaltStep,
         NoClients
<1>4. ClientsTyped'
  BY <1>1 DEF Inv, ClientsTyped, StopService, ControlUnchanged, NoClients
<1>5. SessionInv'
  BY <1>1 DEF Inv, SessionInv, WorkTyped, ControlTyped, StopService, ControlUnchanged,
         NoClients, HaltStep
<1>6. PushInv'
  BY <1>1 DEF Inv, PushInv, WorkTyped, ControlTyped, SessionInv, StopService,
         ControlUnchanged, HaltStep, NoClients
<1>7. /\ SdkTyped' /\ SessionTyped' /\ WorkTyped' /\ GuardsTyped' /\ GuardsInv'
      /\ HaltInv'
  BY <1>1 DEF Inv, SdkTyped, SessionTyped, WorkTyped, GuardsTyped, GuardsInv, HaltInv,
         Busy
<1> QED
  BY <1>2, <1>3, <1>4, <1>5, <1>6, <1>7 DEF Inv

LEMMA StopPushThreadStep ==
    ASSUME Inv, StopPushThread
    PROVE  Inv'
<1>1. UNCHANGED <<sdk, callback, guard, started, stopped, activeGen, generation, bound,
      halt, serviceActive, clients, accepting, media, push>>
  BY DEF StopPushThread, DisconnectLeaving, ControlUnchanged, sessionVars
<1>2. SdkTyped'
  BY <1>1, DisconnectedTyped, DisconnectedAllTyped DEF Inv, SdkTyped, StopPushThread,
         DisconnectLeaving, ControlUnchanged, ConnType, CallbackType
<1>3. FlagsTyped'
  BY <1>1 DEF Inv, FlagsTyped, StopPushThread, DisconnectLeaving, ControlUnchanged
<1>4. ControlTyped'
  BY <1>1 DEF Inv, ControlTyped, ClientsTyped, StopPushThread, DisconnectLeaving,
         ControlUnchanged, HaltStep, NoClients
<1>5. SessionInv'
  BY <1>1 DEF Inv, SessionInv, WorkTyped, ControlTyped, StopPushThread,
         DisconnectLeaving, ControlUnchanged, NoClients, HaltStep
<1>6. PushInv'
  BY <1>1 DEF Inv, PushInv, WorkTyped, ControlTyped, SessionInv, StopPushThread,
         DisconnectLeaving, ControlUnchanged, HaltStep, NoClients
<1>7. /\ SessionTyped' /\ WorkTyped' /\ ClientsTyped' /\ GuardsTyped' /\ GuardsInv'
      /\ HaltInv'
  BY <1>1 DEF Inv, SessionTyped, WorkTyped, ClientsTyped, GuardsTyped, GuardsInv,
         HaltInv, Busy
<1> QED
  BY <1>2, <1>3, <1>4, <1>5, <1>6, <1>7 DEF Inv

LEMMA JoinPushStep ==
    ASSUME Inv, JoinPush
    PROVE  Inv'
<1>1. UNCHANGED <<sdk, callback, guard, started, stopped, activeGen, generation, bound,
      halt, serviceActive, clients, accepting, media, pushRunning, pushCreated>>
  BY DEF JoinPush, DisconnectLeaving, ControlUnchanged, sessionVars
<1>2. SdkTyped'
  BY <1>1, DisconnectedTyped, DisconnectedAllTyped DEF Inv, SdkTyped, JoinPush,
         DisconnectLeaving, ControlUnchanged, ConnType, CallbackType
<1>3. ControlTyped'
  BY <1>1 DEF Inv, ControlTyped, ClientsTyped, JoinPush, DisconnectLeaving,
         ControlUnchanged, HaltStep, NoClients
<1>4. WorkTyped'
  BY <1>1 DEF Inv, WorkTyped, JoinPush, DisconnectLeaving, ControlUnchanged
<1>5. SessionInv'
  BY <1>1 DEF Inv, SessionInv, WorkTyped, ControlTyped, JoinPush, DisconnectLeaving,
         ControlUnchanged, NoClients, HaltStep
<1>6. PushInv'
  BY <1>1 DEF Inv, PushInv, WorkTyped, ControlTyped, SessionInv, JoinPush,
         DisconnectLeaving, ControlUnchanged, HaltStep, NoClients
<1>7. /\ SessionTyped' /\ FlagsTyped' /\ ClientsTyped' /\ GuardsTyped' /\ GuardsInv'
      /\ HaltInv'
  BY <1>1 DEF Inv, SessionTyped, FlagsTyped, ClientsTyped, GuardsTyped, GuardsInv,
         HaltInv, Busy
<1> QED
  BY <1>2, <1>3, <1>4, <1>5, <1>6, <1>7 DEF Inv

LEMMA DrainServiceStep ==
    ASSUME Inv, DrainService
    PROVE  Inv'
<1>1. UNCHANGED <<sdk, conn, callback, guard, started, stopped, activeGen, generation,
      bound, halt, serviceActive, clients, accepting, media, push, pushRunning,
      pushCreated, leaving>>
  BY DEF DrainService, pushVars, ControlUnchanged, sessionVars
<1>2. ControlTyped'
  BY <1>1 DEF Inv, ControlTyped, ClientsTyped, DrainService, ControlUnchanged,
         HaltStep, NoClients
<1>3. SessionInv'
  <2>1. guard["stream"] \in GuardType /\ Drained(guard["stream"])
    BY DEF Inv, GuardsTyped, DrainService, Streaming
  <2>2. accepting = "idle"
    BY <2>1, DrainedIs DEF Inv, GuardsInv
  <2> QED
    BY <1>1, <2>2 DEF Inv, SessionInv, DrainService
<1>4. PushInv'
  BY <1>1 DEF Inv, PushInv, WorkTyped, ControlTyped, SessionInv, DrainService,
         ControlUnchanged, HaltStep, NoClients
<1>5. /\ SdkTyped' /\ SessionTyped' /\ FlagsTyped' /\ WorkTyped' /\ ClientsTyped'
      /\ GuardsTyped' /\ GuardsInv' /\ HaltInv'
  BY <1>1 DEF Inv, SdkTyped, SessionTyped, FlagsTyped, WorkTyped, ClientsTyped,
         GuardsTyped, GuardsInv, HaltInv, Busy
<1> QED
  BY <1>2, <1>3, <1>4, <1>5 DEF Inv

LEMMA OnEventStep ==
    ASSUME Inv, OnEvent, UNCHANGED streamVars
    PROVE  Inv'
<1>1. UNCHANGED <<conn, callback, guard, activeGen, generation, bound, halt,
      serviceActive, clients, accepting, media, push, pushRunning, pushCreated, session,
      leaving>>
  BY DEF OnEvent, sessionVars, streamVars, pushVars, controlVars
<1>2. SdkTyped'
  BY <1>1, DisconnectedTyped, DisconnectedAllTyped DEF Inv, SdkTyped, OnEvent,
         ConnType, CallbackType
<1>3. FlagsTyped'
  BY <1>1 DEF Inv, FlagsTyped, OnEvent
<1>4. HaltInv'
  BY <1>1 DEF Inv, HaltInv, ControlTyped, SdkTyped, SessionInv, SessionTyped, OnEvent,
         HaltStep, ConnType, CallbackType, NoClients
<1>5. /\ SessionTyped' /\ ControlTyped' /\ WorkTyped' /\ ClientsTyped' /\ GuardsTyped'
      /\ GuardsInv' /\ SessionInv' /\ PushInv'
  BY <1>1 DEF Inv, SessionTyped, ControlTyped, WorkTyped, ClientsTyped, GuardsTyped,
         GuardsInv, SessionInv, PushInv, Busy
<1> QED
  BY <1>2, <1>3, <1>4, <1>5 DEF Inv

LEMMA RuntimeWorkerStep ==
    ASSUME Inv, RuntimeWorker, UNCHANGED streamVars
    PROVE  Inv'
<1>1. UNCHANGED <<sdk, callback, started, stopped, activeGen, generation, bound, halt,
      serviceActive, clients, accepting, media, push, pushRunning, pushCreated, session,
      leaving>>
  BY DEF RuntimeWorker, sessionVars, streamVars, pushVars, controlVars
<1>2. GuardsTyped' /\ GuardsInv' /\ guard'["stream"] = guard["stream"]
  <2> DEFINE r == guard["runtime"]
             g == Finish(Take(r))
  <2>1. r \in GuardType /\ Len(r.queue) <= GuardCap
    BY DEF Inv, GuardsTyped
  <2>2. CanTake(r) /\ guard' = [guard EXCEPT !["runtime"] = g]
    BY DEF RuntimeWorker
  <2> HIDE DEF r
  <2>3. /\ Take(r) \in GuardType /\ Len(Take(r).queue) <= GuardCap
        /\ Take(r).active = r.active
    BY <2>1, <2>2, TakenTask
  <2>4. g \in GuardType /\ Len(g.queue) <= GuardCap /\ g.active = r.active
    BY <2>3, Finished
  <2> HIDE DEF g
  <2>5. GuardsTyped' /\ guard'["runtime"] = g /\ guard'["stream"] = guard["stream"]
    BY <2>2, <2>4, RuntimeGuard DEF Inv
  <2>6. Busy' = Busy
    BY <1>1 DEF Busy
  <2>7. GuardsInv'
    BY <1>1, <2>4, <2>5, <2>6 DEF Inv, GuardsInv, r
  <2> QED
    BY <2>5, <2>7
<1>3. SdkTyped'
  BY <1>1, <1>2, DisconnectedTyped, DisconnectedAllTyped DEF Inv, SdkTyped,
         RuntimeWorker, ConnType, CallbackType
<1>4. HaltInv'
  BY <1>1, <1>2 DEF Inv, HaltInv
<1>5. /\ SessionTyped' /\ FlagsTyped' /\ ControlTyped' /\ WorkTyped' /\ ClientsTyped'
      /\ SessionInv' /\ PushInv'
  BY <1>1 DEF Inv, SessionTyped, FlagsTyped, ControlTyped, WorkTyped, ClientsTyped,
         SessionInv, PushInv
<1> QED
  BY <1>3, <1>2, <1>4, <1>5 DEF Inv

LEMMA RuntimeStartStep ==
    ASSUME Inv, RuntimeStart, UNCHANGED streamVars
    PROVE  Inv'
<1>1. UNCHANGED <<conn, callback, started, stopped, activeGen, generation, bound,
      serviceActive, clients, accepting, media, push, pushRunning, pushCreated, session,
      leaving>>
  BY DEF RuntimeStart, sessionVars, streamVars, pushVars, controlVars
<1>2. /\ DOMAIN guard' = {"runtime", "stream"}
      /\ \A g \in {"runtime", "stream"} : guard'[g] = GuardStart(guard[g])
  BY DEF Inv, GuardsTyped, RuntimeStart
<1>3. \A g \in {"runtime", "stream"} :
         /\ guard[g] \in GuardType /\ Len(guard[g].queue) <= GuardCap
  BY DEF Inv, GuardsTyped
<1>4. \A g \in {"runtime", "stream"} :
         /\ guard'[g] \in GuardType /\ Len(guard'[g].queue) <= GuardCap
         /\ guard'[g].active = guard[g].active
         /\ guard'[g].running \in {guard[g].running, NoTask}
         /\ Len(guard'[g].queue) <= Len(guard[g].queue)
  BY <1>2, <1>3, StartedStopped
<1>5. guard["stream"].running = NoTask /\ Drained(guard["stream"])
  <2>1. halt = "new"
    BY DEF RuntimeStart
  <2>2. Drained(guard["stream"])
    BY <2>1 DEF Inv, HaltInv
  <2> QED
    BY <1>3, <2>2, DrainedIs
<1>6. SdkTyped'
  BY <1>1, <1>2, <1>3, <1>4, <1>5, DisconnectedTyped, DisconnectedAllTyped DEF Inv,
         SdkTyped, RuntimeStart, ConnType, CallbackType
<1>7. ControlTyped'
  BY <1>1, <1>2, <1>3, <1>4, <1>5 DEF Inv, ControlTyped, ClientsTyped, RuntimeStart,
         HaltStep, NoClients
<1>8. GuardsTyped'
  BY <1>2, <1>4 DEF GuardsTyped
<1>9. GuardsInv'
  <2>1. Busy' = Busy
    BY <1>1 DEF Busy
  <2> QED
    BY <1>1, <1>4, <1>5, <2>1 DEF Inv, GuardsInv
<1>10. SessionInv'
  BY <1>1, <1>2, <1>3, <1>4, <1>5 DEF Inv, SessionInv, WorkTyped, ControlTyped,
         RuntimeStart, NoClients, HaltStep
<1>11. HaltInv'
  <2>1. Len(guard["stream"].queue) = 0
    BY <1>3, <1>5, LengthTyped, DrainedIs DEF GuardType
  <2>2. guard'["stream"].queue = <<>>
    BY <1>3, <1>4, <2>1, LengthTyped DEF GuardType
  <2>3. guard["stream"].active = 0
    BY DEF Inv, GuardsInv
  <2>4. Drained(guard'["stream"])
    BY <1>4, <1>5, <2>2, <2>3, DrainedIs
  <2> QED
    BY <1>1, <2>4 DEF Inv, HaltInv, RuntimeStart
<1>12. /\ SessionTyped' /\ FlagsTyped' /\ WorkTyped' /\ ClientsTyped' /\ PushInv'
  BY <1>1 DEF Inv, SessionTyped, FlagsTyped, WorkTyped, ClientsTyped, PushInv
<1> QED
  BY <1>6, <1>7, <1>8, <1>9, <1>10, <1>11, <1>12 DEF Inv

LEMMA WaitStartedStep ==
    ASSUME Inv, WaitStarted, UNCHANGED streamVars
    PROVE  Inv'
<1>1. UNCHANGED <<sdk, conn, callback, guard, started, stopped, activeGen, generation,
      bound, serviceActive, clients, accepting, media, push, pushRunning, pushCreated,
      session, leaving>>
  BY DEF WaitStarted, sdkVars, sessionVars, streamVars, pushVars, controlVars
<1>2. ControlTyped'
  BY <1>1 DEF Inv, ControlTyped, ClientsTyped, WaitStarted, HaltStep, NoClients
<1>3. SessionInv'
  BY <1>1 DEF Inv, SessionInv, WorkTyped, ControlTyped, WaitStarted, NoClients,
         HaltStep
<1>4. HaltInv'
  BY <1>1 DEF Inv, HaltInv, ControlTyped, SdkTyped, SessionInv, SessionTyped,
         WaitStarted, HaltStep, ConnType, CallbackType, NoClients
<1>5. /\ SdkTyped' /\ SessionTyped' /\ FlagsTyped' /\ WorkTyped' /\ ClientsTyped'
      /\ GuardsTyped' /\ GuardsInv' /\ PushInv'
  BY <1>1 DEF Inv, SdkTyped, SessionTyped, FlagsTyped, WorkTyped, ClientsTyped,
         GuardsTyped, GuardsInv, PushInv, Busy
<1> QED
  BY <1>2, <1>3, <1>4, <1>5 DEF Inv

LEMMA RuntimeStopStep ==
    ASSUME Inv, session = "off", RuntimeStop, UNCHANGED streamVars
    PROVE  Inv'
<1>1. UNCHANGED <<sdk, conn, callback, guard, started, stopped, generation, bound,
      serviceActive, clients, accepting, media, push, pushRunning, pushCreated, session,
      leaving>>
  BY DEF RuntimeStop, sdkVars, streamVars, pushVars, controlVars
<1>2. SessionTyped'
  BY <1>1, MaxGenerationAssumption DEF Inv, SessionTyped, RuntimeStop
<1>3. ControlTyped'
  BY <1>1 DEF Inv, ControlTyped, ClientsTyped, RuntimeStop, HaltStep, NoClients
<1>4. SessionInv'
  BY <1>1 DEF Inv, SessionInv, WorkTyped, ControlTyped, RuntimeStop, NoClients,
         HaltStep
<1>5. HaltInv'
  BY <1>1 DEF Inv, HaltInv, ControlTyped, SdkTyped, SessionInv, SessionTyped,
         RuntimeStop, HaltStep, ConnType, CallbackType, NoClients
<1>6. /\ SdkTyped' /\ FlagsTyped' /\ WorkTyped' /\ ClientsTyped' /\ GuardsTyped'
      /\ GuardsInv' /\ PushInv'
  BY <1>1 DEF Inv, SdkTyped, FlagsTyped, WorkTyped, ClientsTyped, GuardsTyped,
         GuardsInv, PushInv, Busy
<1> QED
  BY <1>2, <1>3, <1>4, <1>5, <1>6 DEF Inv

LEMMA WaitBarrierStep ==
    ASSUME Inv, WaitBarrier, UNCHANGED streamVars
    PROVE  Inv'
<1>1. UNCHANGED <<sdk, conn, callback, guard, started, stopped, activeGen, generation,
      bound, serviceActive, clients, accepting, media, push, pushRunning, pushCreated,
      session, leaving>>
  BY DEF WaitBarrier, Barrier, sdkVars, sessionVars, streamVars, pushVars, controlVars
<1>2. ControlTyped'
  BY <1>1 DEF Inv, ControlTyped, ClientsTyped, WaitBarrier, Barrier, HaltStep,
         NoClients
<1>3. SessionInv'
  BY <1>1 DEF Inv, SessionInv, WorkTyped, ControlTyped, WaitBarrier, Barrier,
         NoClients, HaltStep
<1>4. HaltInv'
  <2>1. guard["runtime"] \in GuardType /\ guard["stream"] \in GuardType
    BY DEF Inv, GuardsTyped
  <2>2. CASE Barrier("callbacks", "runtime", "services")
    <3>1. guard["runtime"].active = 0
      BY <2>1, <2>2, DrainedIs DEF Barrier
    <3>2. \A h \in Handles : callback[h] = "none"
      BY <3>1, NobodyInside DEF Inv, GuardsInv
    <3> QED
      BY <1>1, <2>2, <3>2 DEF Barrier, HaltInv
  <2>3. CASE Barrier("services", "stream", "callbacksAgain")
    BY <1>1, <2>3 DEF Barrier, Inv, HaltInv
  <2>4. CASE \/ Barrier("callbacksAgain", "runtime", "stopSdk")
             \/ Barrier("stopping", "runtime", "lateServices")
             \/ Barrier("lateServices", "stream", "lastCallbacks")
             \/ Barrier("lastCallbacks", "runtime", "uninit")
    BY <1>1, <2>4 DEF Barrier, Inv, HaltInv
  <2> QED
    BY <2>2, <2>3, <2>4 DEF WaitBarrier
<1>5. /\ SdkTyped' /\ SessionTyped' /\ FlagsTyped' /\ WorkTyped' /\ ClientsTyped'
      /\ GuardsTyped' /\ GuardsInv' /\ PushInv'
  BY <1>1 DEF Inv, SdkTyped, SessionTyped, FlagsTyped, WorkTyped, ClientsTyped,
         GuardsTyped, GuardsInv, PushInv, Busy
<1> QED
  BY <1>2, <1>3, <1>4, <1>5 DEF Inv

LEMMA StopSdkStep ==
    ASSUME Inv, StopSdk, UNCHANGED streamVars
    PROVE  Inv'
<1>1. UNCHANGED <<conn, callback, guard, started, stopped, activeGen, generation, bound,
      serviceActive, clients, accepting, media, push, pushRunning, pushCreated, session,
      leaving>>
  BY DEF StopSdk, sessionVars, streamVars, pushVars, controlVars
<1>2. SdkTyped'
  BY <1>1, DisconnectedTyped, DisconnectedAllTyped DEF Inv, SdkTyped, StopSdk,
         ConnType, CallbackType
<1>3. ControlTyped'
  BY <1>1 DEF Inv, ControlTyped, ClientsTyped, StopSdk, HaltStep, NoClients
<1>4. SessionInv'
  BY <1>1 DEF Inv, SessionInv, WorkTyped, ControlTyped, StopSdk, NoClients, HaltStep
<1>5. HaltInv'
  BY <1>1 DEF Inv, HaltInv, ControlTyped, SdkTyped, SessionInv, SessionTyped, StopSdk,
         HaltStep, ConnType, CallbackType, NoClients
<1>6. /\ SessionTyped' /\ FlagsTyped' /\ WorkTyped' /\ ClientsTyped' /\ GuardsTyped'
      /\ GuardsInv' /\ PushInv'
  BY <1>1 DEF Inv, SessionTyped, FlagsTyped, WorkTyped, ClientsTyped, GuardsTyped,
         GuardsInv, PushInv, Busy
<1> QED
  BY <1>2, <1>3, <1>4, <1>5, <1>6 DEF Inv

LEMMA UninitStep ==
    ASSUME Inv, Uninit, UNCHANGED streamVars
    PROVE  Inv'
<1>1. UNCHANGED <<conn, callback, guard, started, stopped, activeGen, generation, bound,
      serviceActive, clients, accepting, media, push, pushRunning, pushCreated, session,
      leaving>>
  BY DEF Uninit, sessionVars, streamVars, pushVars, controlVars
<1>2. SdkTyped'
  BY <1>1, DisconnectedTyped, DisconnectedAllTyped DEF Inv, SdkTyped, Uninit, ConnType,
         CallbackType
<1>3. ControlTyped'
  BY <1>1 DEF Inv, ControlTyped, ClientsTyped, Uninit, HaltStep, NoClients
<1>4. SessionInv'
  BY <1>1 DEF Inv, SessionInv, WorkTyped, ControlTyped, Uninit, NoClients, HaltStep
<1>5. HaltInv'
  BY <1>1 DEF Inv, HaltInv, ControlTyped, SdkTyped, SessionInv, SessionTyped, Uninit,
         HaltStep, ConnType, CallbackType, NoClients
<1>6. /\ SessionTyped' /\ FlagsTyped' /\ WorkTyped' /\ ClientsTyped' /\ GuardsTyped'
      /\ GuardsInv' /\ PushInv'
  BY <1>1 DEF Inv, SessionTyped, FlagsTyped, WorkTyped, ClientsTyped, GuardsTyped,
         GuardsInv, PushInv, Busy
<1> QED
  BY <1>2, <1>3, <1>4, <1>5, <1>6 DEF Inv

LEMMA StopGuardsStep ==
    ASSUME Inv, StopGuards, UNCHANGED streamVars
    PROVE  Inv'
<1>1. UNCHANGED <<sdk, callback, stopped, activeGen, generation, serviceActive, clients,
      accepting, media, push, pushRunning, pushCreated, session, leaving>>
  BY DEF StopGuards, sessionVars, streamVars, pushVars, controlVars
<1>2. /\ DOMAIN guard' = {"runtime", "stream"}
      /\ \A g \in {"runtime", "stream"} : guard'[g] = GuardStop(guard[g])
  BY DEF Inv, GuardsTyped, StopGuards
<1>3. \A g \in {"runtime", "stream"} :
         /\ guard[g] \in GuardType /\ Len(guard[g].queue) <= GuardCap /\ Drained(guard[g])
  BY DEF Inv, GuardsTyped, StopGuards
<1>4. \A g \in {"runtime", "stream"} :
         /\ guard'[g] \in GuardType /\ Len(guard'[g].queue) <= GuardCap
         /\ guard'[g].active = guard[g].active
         /\ guard'[g].running = NoTask /\ Len(guard'[g].queue) = 0
  BY <1>2, <1>3, StartedStopped
<1>5. guard["stream"].running = NoTask /\ guard["stream"].active = 0
  BY <1>3, DrainedIs
<1>6. SdkTyped'
  BY <1>1, <1>2, <1>3, <1>4, <1>5, DisconnectedTyped, DisconnectedAllTyped DEF Inv,
         SdkTyped, StopGuards, ConnType, CallbackType
<1>7. SessionTyped'
  BY <1>1, <1>2, <1>3, <1>4, <1>5, MaxGenerationAssumption DEF Inv, SessionTyped,
         StopGuards
<1>8. FlagsTyped'
  BY <1>1, <1>2, <1>3, <1>4, <1>5 DEF Inv, FlagsTyped, StopGuards
<1>9. ControlTyped'
  BY <1>1, <1>2, <1>3, <1>4, <1>5 DEF Inv, ControlTyped, ClientsTyped, StopGuards,
         HaltStep, NoClients
<1>10. GuardsTyped'
  BY <1>2, <1>4 DEF GuardsTyped
<1>11. GuardsInv'
  <2>1. Busy' = Busy
    BY <1>1 DEF Busy
  <2> QED
    BY <1>1, <1>4, <1>5, <2>1 DEF Inv, GuardsInv
<1>12. SessionInv'
  BY <1>1, <1>2, <1>3, <1>4, <1>5 DEF Inv, SessionInv, WorkTyped, ControlTyped,
         StopGuards, NoClients, HaltStep
<1>13. HaltInv'
  <2>1. guard'["stream"].queue = <<>>
    BY <1>4, LengthTyped DEF GuardType
  <2>2. Drained(guard'["stream"])
    BY <1>4, <1>5, <2>1, DrainedIs
  <2> QED
    BY <1>1, <2>2 DEF Inv, HaltInv, StopGuards
<1>14. /\ WorkTyped' /\ ClientsTyped' /\ PushInv'
  BY <1>1 DEF Inv, WorkTyped, ClientsTyped, PushInv
<1> QED
  BY <1>6, <1>7, <1>8, <1>9, <1>10, <1>11, <1>12, <1>13, <1>14 DEF Inv
LEMMA StutterStep ==
    ASSUME Inv, UNCHANGED vars
    PROVE  Inv'
<1>1. UNCHANGED <<sdk, conn, callback, guard, started, stopped, activeGen, generation,
      bound, halt, serviceActive, clients, accepting, media, push, pushRunning,
      pushCreated, session, leaving>>
  BY DEF vars, runtimeVars, sdkVars, sessionVars, streamVars, pushVars, controlVars
<1> QED
  BY <1>1 DEF Inv, SdkTyped, SessionTyped, FlagsTyped, ControlTyped, WorkTyped, ClientsTyped,
         GuardsTyped, GuardsInv, SessionInv, HaltInv, PushInv, Busy

-----------------------------------------------------------------------------
(* The invariant is inductive. *)

LEMMA InitInv == Init => Inv
<1> SUFFICES ASSUME Init PROVE Inv
  OBVIOUS
<1>1. SdkTyped /\ ClientsTyped /\ ControlTyped /\ WorkTyped
  BY DEF Init, RuntimeInit, NoClients, SdkTyped, ClientsTyped, ControlTyped, WorkTyped,
         ConnType, CallbackType, HaltStep
<1>2. SessionTyped
  BY MaxGenerationAssumption DEF Init, RuntimeInit, SessionTyped
<1>3. FlagsTyped
  BY DEF Init, RuntimeInit, FlagsTyped
<1>4. NewGuard \in GuardType /\ NewGuard.active = 0 /\ NewGuard.running = NoTask
      /\ NewGuard.queue = <<>>
  BY EmptySeq DEF NewGuard, GuardType
<1>5. Len(<<>>) = 0 /\ 0 <= GuardCap
  BY EmptySeq, GuardCapAssumption
<1>6. /\ GuardStart(NewGuard) \in GuardType /\ GuardStart(NewGuard).active = 0
      /\ GuardStart(NewGuard).running = NoTask
      /\ Len(GuardStart(NewGuard).queue) <= Len(NewGuard.queue)
  BY <1>4, <1>5, StartedStopped
<1>7. GuardStart(NewGuard).queue = <<>>
  BY <1>4, <1>5, <1>6, LengthTyped DEF GuardType
<1>8. /\ DOMAIN guard = {"runtime", "stream"} /\ guard["runtime"] = NewGuard
      /\ guard["stream"] = GuardStart(NewGuard)
  BY DEF Init, RuntimeInit
<1>9. GuardsTyped
  BY <1>4, <1>5, <1>6, <1>7, <1>8 DEF GuardsTyped
<1>10. GuardsInv
  <2>1. Busy = {}
    BY DEF Init, RuntimeInit, Busy
  <2>2. Cardinality(Busy) = 0
    BY <2>1, FS_EmptySet
  <2> QED
    BY <1>4, <1>6, <1>8, <2>2 DEF Init, GuardsInv
<1>11. SessionInv /\ PushInv
  BY DEF Init, RuntimeInit, SessionInv, PushInv
<1>12. HaltInv
  <2>1. Drained(guard["stream"])
    BY <1>6, <1>7, <1>8, DrainedIs
  <2> QED
    BY <2>1 DEF Init, RuntimeInit, HaltInv
<1> QED
  BY <1>1, <1>2, <1>3, <1>9, <1>10, <1>11, <1>12 DEF Inv

LEMMA NextInv == Inv /\ [Next]_vars => Inv'
<1> SUFFICES ASSUME Inv, [Next]_vars PROVE Inv'
  OBVIOUS
<1>1. CASE \E h \in Handles : Dispatch(h)
  BY <1>1, OnConnAcceptedStep, OnConnErrorStep, OnDisconnectedStep, SdkClosesStep
  DEF Dispatch
<1>2. CASE \E h \in Handles : Handler(h)
  <2>1. PICK h \in Handles : Handler(h)
    BY <1>2
  <2>2. callback[h] # "none"
    BY <2>1 DEF Handler
  <2> QED
    BY <2>1, <2>2, AcceptCallbackStep, ErrorCallbackStep, DisconnectedCallbackStep
    DEF Handler
<1>3. CASE \E h \in Handles : SendFails(h)
  BY <1>3, SendFailsStep
<1>4. CASE Runtime
  BY <1>4, OnEventStep, RuntimeWorkerStep, RuntimeStartStep, WaitStartedStep, RuntimeStopStep,
     WaitBarrierStep, StopSdkStep, UninitStep, StopGuardsStep
  DEF Runtime
<1>5. CASE Worker
  BY <1>5, TakeTaskStep, EnsurePushStep, JoinFinishedPushStep, OpenMediaStep, CreatePushStep,
     NoPushStep, ActivateClientStep, SubscribedDownStep
  DEF Worker
<1>6. CASE Control
  BY <1>6, StartStreamStep, StartServiceStep, StopStreamStep, StopServiceStep,
     StopPushThreadStep, JoinPushStep, DrainServiceStep
  DEF Control
<1>7. CASE LeaveLoop \/ EndPush
  BY <1>7, LeaveLoopStep, EndPushStep
<1>8. CASE UNCHANGED vars
  BY <1>8, StutterStep
<1> QED
  BY <1>1, <1>2, <1>3, <1>4, <1>5, <1>6, <1>7, <1>8 DEF Next

-----------------------------------------------------------------------------
(* The theorems. *)

\* The invariant above holds in every reachable state: the guards count the
\* callbacks inside a handler, the worker's task is the accept under way, the
\* push thread belongs to the service or to whoever joins it
\* (tirtc_stream.c, sdk_callback_guard.c), and what the first barriers of
\* tirtc_runtime_stop have waited for does not come back.
THEOREM StreamInductive == Spec => []Inv
<1>1. Init => Inv
  BY InitInv
<1>2. Inv /\ [Next]_vars => Inv'
  BY NextInv
<1> QED
  BY <1>1, <1>2, PTL DEF Spec

\* Every variable keeps its type; no guard counts more callbacks than the SDK
\* has connections, and none holds more tasks than its queue has places.
THEOREM StreamTyped == Spec => []TypeOK
<1>1. ASSUME NEW g \in GuardType, g.active <= Cardinality(Handles), Len(g.queue) <= GuardCap
      PROVE  g \in Guard(Task, Cardinality(Handles))
  <2>1. Cardinality(Handles) \in Nat
    BY HandlesAssumption, FS_CardinalityType
  <2>2. g.active \in 0..Cardinality(Handles)
    BY <1>1, <2>1 DEF GuardType
  <2>3. g.queue \in [1..Len(g.queue) -> Task] /\ Len(g.queue) \in Nat
    BY LenProperties DEF GuardType
  <2>4. Len(g.queue) \in 0..GuardCap
    BY <1>1, <2>3, GuardCapAssumption
  <2>5. g.queue \in UNION {[1..n -> Task] : n \in 0..GuardCap}
    BY <2>3, <2>4
  <2> QED
    BY <2>2, <2>5 DEF GuardType, Guard
<1>2. Inv => TypeOK
  <2> SUFFICES ASSUME Inv PROVE TypeOK
    OBVIOUS
  <2>1. Cardinality(Busy) <= Cardinality(Handles) /\ 0 <= Cardinality(Handles)
    BY HandlesAssumption, FS_Subset, FS_CardinalityType DEF Busy
  <2>2. /\ guard["runtime"].active <= Cardinality(Handles)
        /\ guard["stream"].active <= Cardinality(Handles)
    BY <2>1 DEF Inv, GuardsInv
  <2>3. \A g \in DOMAIN guard : guard[g] \in Guard(Task, Cardinality(Handles))
    BY <1>1, <2>2 DEF Inv, GuardsTyped
  <2>4. RuntimeTypeOK
    BY <2>3 DEF Inv, SdkTyped, SessionTyped, FlagsTyped, ControlTyped, GuardsTyped, ConnType,
           CallbackType, RuntimeTypeOK
  <2> QED
    BY <2>4 DEF Inv, FlagsTyped, ControlTyped, WorkTyped, ClientsTyped, TypeOK
<1> QED
  BY <1>2, StreamInductive, PTL

\* When stream_service_stop has returned nothing of the session is left: no
\* client, no push thread, no open source and no client half accepted.
THEOREM StoppedIsQuietAlways == Spec => []StoppedIsQuiet
<1>1. Inv => StoppedIsQuiet
  <2> SUFFICES ASSUME Inv, session = "off" PROVE StoppedIsQuiet
    BY DEF StoppedIsQuiet
  <2>1. ~serviceActive /\ accepting = "idle"
    BY DEF Inv, SessionInv
  <2>2. clients = NoClients
    BY <2>1 DEF Inv, SessionInv
  <2>3. ~pushCreated /\ push = "none"
    BY <2>1 DEF Inv, PushInv
  <2>4. media = "closed"
    BY <2>1, <2>3 DEF Inv, WorkTyped, PushInv
  <2> QED
    BY <2>1, <2>2, <2>3, <2>4 DEF StoppedIsQuiet
<1> QED
  BY <1>1, StreamInductive, PTL

\* TiRtcStop and TiRtcUninit find no callback inside the service and nothing
\* it deferred, also when SYS_STOPPED never comes: tirtc_runtime_stop ended
\* the generation before its barriers, so nobody enters after them.
THEOREM BarriersHoldAlways == Spec => BarriersHold
<1>1. Inv /\ [Next]_vars => [StopSdk \/ Uninit => NothingInTheService]_vars
  <2> SUFFICES ASSUME Inv, StopSdk \/ Uninit PROVE NothingInTheService
    OBVIOUS
  <2>1. halt \in {"stopSdk", "uninit"}
    BY DEF StopSdk, Uninit
  <2> QED
    BY <2>1 DEF Inv, HaltInv, NothingInTheService, Streaming
<1> QED
  BY <1>1, StreamInductive, PTL DEF Spec, BarriersHold
-----------------------------------------------------------------------------
(* The media of the live stream (StreamMedia).  The push thread decides    *)
(* under the lock, sends without it and notes the outcome under it again;  *)
(* what keeps a delta frame from a viewer that is owed a key frame is that *)
(* the viewer waits whenever it is owed one, but for the moment between a  *)
(* refused frame and its noting, in which the thread sends nothing else.   *)

ClientType ==
    [state : {"FREE", "PENDING", "ACTIVE"}, subs : SUBSET Kinds, waiting : BOOLEAN, fails : Nat]

Reasons == {"connect", "subscribe", "busy"}

LiveTyped ==
    /\ client \in [Viewers -> ClientType] /\ owed \in [Viewers -> SUBSET Reasons]
    /\ \A h \in Viewers : client[h].state = "FREE" => client[h].subs = {}

\* A viewer must not get a delta frame now.
Owed(h) == owed[h] \cap {"connect", "busy"} # {}

NotesBusy(h) ==
    /\ sending.at = "note" /\ sending.to = h
    /\ sending.result = "busy" /\ sending.frame # "audio"

WaitsInv ==
    \A h \in Viewers : Owed(h) /\ "video" \in client[h].subs => client[h].waiting \/ NotesBusy(h)

\* Nobody becomes a new viewer under the handle of a send.
HandleInv == \A h \in Viewers : Live!Sending(h) => client[h].state # "PENDING"

SendInv ==
    \A h \in Viewers : Live!Sending(h) =>
        /\ sending.at = "send" /\ sending.frame = "delta" => ~Owed(h)
        /\ sending.at = "note" /\ sending.result = "ok" /\ sending.frame # "audio" => ~Owed(h)
        /\ sending.frame \in {"audio", "key", "delta"}

OfferInv == sending.at = "offer" => sending.frame \in {"audio", "key", "delta"}

KeyInv == LiveTyped /\ WaitsInv /\ HandleInv /\ SendInv /\ OfferInv

LEMMA KeyInitInv == Live!Init => KeyInv
BY DEF Live!Init, Live!Gone, Live!Top, KeyInv, LiveTyped, ClientType, WaitsInv, Owed, HandleInv,
       SendInv, OfferInv, Live!Sending

\* A callback of h, while the push thread stays where it is: whoever is owed a key
\* frame on video waits, and nobody is owed one anew under a send to him.
LEMMA CallbackFrame ==
    ASSUME KeyInv, NEW h \in Viewers, NEW c \in ClientType, NEW w \in SUBSET Reasons,
           client' = [client EXCEPT ![h] = c], owed' = [owed EXCEPT ![h] = w],
           UNCHANGED sending,
           c.state = "FREE" => c.subs = {},
           Live!Sending(h) => c.state # "PENDING",
           w \cap {"connect", "busy"} \subseteq owed[h] \/ ~Live!Sending(h),
           w \cap {"connect", "busy"} # {} /\ "video" \in c.subs => c.waiting \/ NotesBusy(h)
    PROVE  KeyInv'
<1>1. /\ client \in [Viewers -> ClientType] /\ owed \in [Viewers -> SUBSET Reasons]
      /\ \A g \in Viewers : client[g].state = "FREE" => client[g].subs = {}
  BY DEF KeyInv, LiveTyped
<1>2. /\ client'[h] = c /\ owed'[h] = w
      /\ \A g \in Viewers \ {h} : client'[g] = client[g] /\ owed'[g] = owed[g]
  BY <1>1
<1>3. LiveTyped'
  BY <1>1, <1>2 DEF LiveTyped
<1>4. \A g \in Viewers \ {h} : Owed(g)' = Owed(g) /\ NotesBusy(g)' = NotesBusy(g)
  BY <1>2 DEF Owed, NotesBusy
<1>5. WaitsInv'
  BY <1>2, <1>4 DEF KeyInv, WaitsInv, Owed, NotesBusy
<1>6. HandleInv'
  BY <1>2 DEF KeyInv, HandleInv, Live!Sending
<1>7. SendInv' /\ OfferInv'
  BY <1>2, <1>4 DEF KeyInv, SendInv, OfferInv, Live!Sending, Owed
<1> QED
  BY <1>3, <1>5, <1>6, <1>7 DEF KeyInv

LEMMA CallbackKeeps ==
    ASSUME KeyInv, NEW h \in Viewers, Live!Callback(h) PROVE KeyInv'
<1> DEFINE b == client[h]
<1>1. b \in ClientType /\ client \in [Viewers -> ClientType] /\ owed \in [Viewers -> SUBSET Reasons]
  BY DEF KeyInv, LiveTyped
<1>2. /\ b.state = "FREE" => b.subs = {}
      /\ Live!Sending(h) => b.state # "PENDING"
      /\ Owed(h) /\ "video" \in b.subs => b.waiting \/ NotesBusy(h)
  BY DEF KeyInv, LiveTyped, HandleInv, WaitsInv
<1>3. owed[h] \in SUBSET Reasons /\ owed = [owed EXCEPT ![h] = owed[h]]
  BY <1>1
<1>4. CASE Live!Accept(h)
  <2> DEFINE c == [b EXCEPT !.state = "PENDING"]
             w == Tracked \cap {"connect"}
  <2>1. /\ client' = [client EXCEPT ![h] = c] /\ owed' = [owed EXCEPT ![h] = w]
        /\ b.state = "FREE" /\ ~Live!Sending(h) /\ UNCHANGED sending
    BY <1>1, <1>4 DEF Live!Accept
  <2>2. c \in ClientType /\ c.state = "PENDING" /\ c.subs = {} /\ w \in SUBSET Reasons
    BY <1>1, <1>2, <2>1 DEF ClientType, Reasons
  <2> HIDE DEF b, c, w
  <2> QED
    BY <2>1, <2>2, CallbackFrame
<1>5. CASE Live!Activate(h)
  <2> DEFINE c == [b EXCEPT !.state = "ACTIVE"]
  <2>1. /\ client' = [client EXCEPT ![h] = c] /\ owed' = [owed EXCEPT ![h] = owed[h]]
        /\ UNCHANGED sending
    BY <1>1, <1>3, <1>5 DEF Live!Activate
  <2>2. c \in ClientType /\ c.state = "ACTIVE" /\ c.subs = b.subs /\ c.waiting = b.waiting
    BY <1>1 DEF ClientType
  <2>3. owed[h] \cap {"connect", "busy"} # {} /\ "video" \in c.subs => c.waiting \/ NotesBusy(h)
    BY <1>2, <2>2 DEF Owed
  <2> HIDE DEF b, c
  <2> QED
    BY <1>3, <2>1, <2>2, <2>3, CallbackFrame
<1>6. CASE Live!SubscribeAudio(h)
  <2> DEFINE c == [b EXCEPT !.subs = @ \cup {"audio"}]
  <2>1. /\ client' = [client EXCEPT ![h] = c] /\ owed' = [owed EXCEPT ![h] = owed[h]]
        /\ UNCHANGED sending /\ b.state # "FREE" /\ "audio" \in Kinds
    BY <1>1, <1>3, <1>6 DEF Live!SubscribeAudio
  <2>2. /\ c \in ClientType /\ c.state = b.state /\ c.subs = b.subs \cup {"audio"}
        /\ c.waiting = b.waiting
    BY <1>1, <2>1 DEF ClientType
  <2>3. owed[h] \cap {"connect", "busy"} # {} /\ "video" \in c.subs => c.waiting \/ NotesBusy(h)
    BY <1>2, <2>2 DEF Owed
  <2> HIDE DEF b, c
  <2> QED
    BY <1>2, <1>3, <2>1, <2>2, <2>3, CallbackFrame
<1>7. CASE Live!SubscribeVideo(h)
  <2> DEFINE c == [b EXCEPT !.subs = @ \cup {"video"}, !.waiting = TRUE]
             w == owed[h] \cup (Tracked \cap {"subscribe"})
  <2>1. /\ client' = [client EXCEPT ![h] = c] /\ owed' = [owed EXCEPT ![h] = w]
        /\ UNCHANGED sending /\ b.state # "FREE" /\ "video" \in Kinds
    BY <1>1, <1>7 DEF Live!SubscribeVideo, Live!Owe
  <2>2. /\ c \in ClientType /\ c.state = b.state /\ c.waiting
        /\ w \in SUBSET Reasons /\ w \cap {"connect", "busy"} \subseteq owed[h]
    BY <1>1, <1>3, <2>1 DEF ClientType, Reasons
  <2> HIDE DEF b, c, w
  <2> QED
    BY <1>2, <2>1, <2>2, CallbackFrame
<1>8. CASE Live!Unsubscribe(h)
  <2>1. PICK k \in b.subs :
            client' = [client EXCEPT ![h].subs = @ \ {k}, ![h].waiting = @ /\ k # "video"]
    BY <1>8 DEF Live!Unsubscribe
  <2> DEFINE c == [b EXCEPT !.subs = @ \ {k}, !.waiting = @ /\ k # "video"]
  <2>2. /\ client' = [client EXCEPT ![h] = c] /\ owed' = [owed EXCEPT ![h] = owed[h]]
        /\ UNCHANGED sending
    BY <1>1, <1>3, <1>8, <2>1 DEF Live!Unsubscribe
  <2>3. /\ c \in ClientType /\ c.state = b.state /\ c.subs = b.subs \ {k}
        /\ c.waiting = (b.waiting /\ k # "video")
    BY <1>1 DEF ClientType
  <2>4. owed[h] \cap {"connect", "busy"} # {} /\ "video" \in c.subs => c.waiting \/ NotesBusy(h)
    BY <1>2, <2>3 DEF Owed
  <2>5. c.state = "FREE" => c.subs = {}
    BY <1>2, <2>3
  <2> HIDE DEF b, c
  <2> QED
    BY <1>2, <1>3, <2>2, <2>3, <2>4, <2>5, CallbackFrame
<1>9. CASE Live!RequestKey(h)
  <2> DEFINE v == h \in Live!Subscribers("video")
             c == [b EXCEPT !.waiting = (@ \/ v)]
  <2>1. /\ client' = [client EXCEPT ![h] = c] /\ owed' = [owed EXCEPT ![h] = owed[h]]
        /\ UNCHANGED sending
    BY <1>1, <1>3, <1>9 DEF Live!RequestKey
  <2> HIDE DEF v
  <2>2. /\ c \in ClientType /\ c.state = b.state /\ c.subs = b.subs
        /\ c.waiting = (b.waiting \/ v)
    BY <1>1 DEF ClientType
  <2>3. owed[h] \cap {"connect", "busy"} # {} /\ "video" \in c.subs => c.waiting \/ NotesBusy(h)
    BY <1>2, <2>2 DEF Owed
  <2> HIDE DEF b, c
  <2> QED
    BY <1>2, <1>3, <2>1, <2>2, <2>3, CallbackFrame
<1>10. CASE Live!Leave(h)
  <2>1. /\ client' = [client EXCEPT ![h] = Live!Gone] /\ owed' = [owed EXCEPT ![h] = owed[h]]
        /\ UNCHANGED sending
    BY <1>1, <1>3, <1>10 DEF Live!Leave
  <2>2. Live!Gone \in ClientType /\ Live!Gone.state = "FREE" /\ Live!Gone.subs = {}
    BY DEF Live!Gone, ClientType
  <2> QED
    BY <1>3, <2>1, <2>2, CallbackFrame
<1> QED
  BY <1>4, <1>5, <1>6, <1>7, <1>8, <1>9, <1>10 DEF Live!Callback

\* The thread takes stock, reads, and offers the frame to its targets.
LEMMA OffersKeep ==
    ASSUME KeyInv, Live!Snapshot \/ Live!ReadAudio \/ Live!ReadVideo \/ Live!NoTargets
    PROVE  KeyInv'
<1>1. UNCHANGED <<client, owed>> /\ sending.at \in {"top", "read", "offer"}
  BY DEF Live!Snapshot, Live!ReadAudio, Live!ReadVideo, Live!NoTargets
<1>2. /\ sending'.at \in {"top", "read", "offer"}
      /\ sending'.at = "offer" => sending'.frame \in {"audio", "key", "delta"}
  <2>1. CASE Live!Snapshot
    <3>1. sending'.at \in {"top", "read"}
      BY <2>1 DEF Live!Snapshot, Live!Top
    <3> QED
      BY <3>1
  <2>2. CASE Live!ReadAudio
    BY <2>2 DEF Live!ReadAudio, Live!Offer
  <2>3. CASE Live!ReadVideo
    BY <2>3 DEF Live!ReadVideo, Live!Offer
  <2>4. CASE Live!NoTargets
    BY <2>4 DEF Live!NoTargets, Live!Top
  <2> QED
    BY <2>1, <2>2, <2>3, <2>4
<1>3. LiveTyped' /\ HandleInv' /\ SendInv' /\ OfferInv'
  BY <1>1, <1>2 DEF KeyInv, LiveTyped, HandleInv, SendInv, OfferInv, Live!Sending
<1>4. WaitsInv'
  BY <1>1 DEF KeyInv, WaitsInv, Owed, NotesBusy
<1> QED
  BY <1>3, <1>4 DEF KeyInv

LEMMA CheckKeeps ==
    ASSUME KeyInv, NEW h \in Viewers, Live!Check(h) PROVE KeyInv'
<1>1. /\ UNCHANGED <<client, owed>> /\ sending.at = "offer"
      /\ sending.frame \in {"audio", "key", "delta"}
  BY DEF Live!Check, KeyInv, OfferInv
<1>2. LiveTyped' /\ (WaitsInv /\ \A g \in Viewers : ~NotesBusy(g))
  BY <1>1 DEF KeyInv, LiveTyped, NotesBusy
<1>3. CASE Live!Allowed(h, sending.frame) /\ sending' = Live!Sends(h)
  <2>1. /\ sending'.at = "send" /\ sending'.to = h /\ sending'.frame = sending.frame
        /\ client[h].state = "ACTIVE"
        /\ sending.frame = "delta" => "video" \in client[h].subs /\ ~client[h].waiting
    BY <1>3 DEF Live!Sends, Live!Allowed, Live!Active, Live!Kind
  <2>2. sending.frame = "delta" => ~Owed(h)
    BY <1>2, <2>1 DEF WaitsInv
  <2>3. WaitsInv' /\ HandleInv' /\ SendInv' /\ OfferInv'
    BY <1>1, <1>2, <2>1, <2>2
    DEF WaitsInv, HandleInv, SendInv, OfferInv, Live!Sending, Owed, NotesBusy
  <2> QED
    BY <1>2, <2>3 DEF KeyInv
<1>4. CASE sending' = Live!Without(h)
  <2>1. sending'.at = "offer" /\ sending'.frame = sending.frame
    BY <1>4 DEF Live!Without
  <2>2. WaitsInv' /\ HandleInv' /\ SendInv' /\ OfferInv'
    BY <1>1, <1>2, <2>1
    DEF WaitsInv, HandleInv, SendInv, OfferInv, Live!Sending, Owed, NotesBusy
  <2> QED
    BY <1>2, <2>2 DEF KeyInv
<1> QED
  BY <1>3, <1>4 DEF Live!Check

\* A key frame that went out pays what is owed; a refused frame is owed.
LEMMA SendKeeps ==
    ASSUME KeyInv, NEW h \in Viewers, NEW result \in Live!Results, Live!Send(h, result)
    PROVE  KeyInv'
<1>1. /\ sending.at = "send" /\ sending.to = h /\ UNCHANGED client
      /\ sending'.at = "note" /\ sending'.to = h /\ sending'.frame = sending.frame
      /\ sending'.result = result
  BY DEF Live!Send, Live!Returns
<1>2. Live!Sending(h) /\ sending.frame \in {"audio", "key", "delta"}
      /\ (sending.frame = "delta" => ~Owed(h)) /\ client[h].state # "PENDING"
  BY <1>1 DEF KeyInv, SendInv, HandleInv, Live!Sending
<1>3. owed \in [Viewers -> SUBSET Reasons] /\ \A g \in Viewers : ~NotesBusy(g)
  BY <1>1 DEF KeyInv, LiveTyped, NotesBusy
<1>4. /\ owed' \in [Viewers -> SUBSET Reasons]
      /\ \A g \in Viewers \ {h} : owed'[g] = owed[g]
      /\ result = "ok" /\ sending.frame # "audio" => ~Owed(h)'
      /\ result # "busy" \/ sending.frame = "audio" => owed'[h] \subseteq owed[h]
  <2>1. CASE sending.frame = "key" /\ result = "ok"
    BY <1>3, <2>1 DEF Live!Send, Owed
  <2>2. CASE sending.frame # "audio" /\ result = "busy"
    BY <1>3, <2>2 DEF Live!Send, Live!Owe, Reasons
  <2>3. CASE ~(sending.frame = "key" /\ result = "ok") /\ ~(sending.frame # "audio" /\ result = "busy")
    BY <1>2, <1>3, <2>3 DEF Live!Send, Owed
  <2> QED
    BY <2>1, <2>2, <2>3
<1>5. LiveTyped'
  BY <1>1, <1>4 DEF KeyInv, LiveTyped
<1>6. HandleInv' /\ SendInv' /\ OfferInv'
  BY <1>1, <1>2, <1>4 DEF HandleInv, SendInv, OfferInv, Live!Sending
<1>7. WaitsInv'
  <2> SUFFICES ASSUME NEW g \in Viewers, Owed(g)', "video" \in client[g].subs
               PROVE  client[g].waiting \/ NotesBusy(g)'
    BY <1>1 DEF WaitsInv
  <2>1. CASE g # h
    BY <1>3, <1>4, <2>1 DEF KeyInv, WaitsInv, Owed
  <2>2. CASE g = h /\ result = "busy" /\ sending.frame # "audio"
    BY <1>1, <2>2 DEF NotesBusy
  <2>3. CASE g = h /\ (result # "busy" \/ sending.frame = "audio")
    BY <1>3, <1>4, <2>3 DEF KeyInv, WaitsInv, Owed
  <2> QED
    BY <2>1, <2>2, <2>3
<1> QED
  BY <1>5, <1>6, <1>7 DEF KeyInv

\* The outcome is noted: who was refused waits from now on.
LEMMA NotedKeeps ==
    ASSUME KeyInv, NEW h \in Viewers, Live!Sent(h) \/ Live!Busy(h) \/ Live!Failed(h)
    PROVE  KeyInv'
<1>1. /\ sending.at = "note" /\ sending.to = h /\ UNCHANGED owed
      /\ sending' = Live!Done(h)
  BY DEF Live!Sent, Live!Busy, Live!Failed, Live!Noted
<1>2. /\ sending'.at \in {"top", "offer"}
      /\ sending'.at = "offer" => sending'.frame = sending.frame
  BY <1>1 DEF Live!Done, Live!Top, Live!Without
<1>3. /\ Live!Sending(h) /\ sending.frame \in {"audio", "key", "delta"}
      /\ client[h].state # "PENDING"
      /\ sending.result = "ok" /\ sending.frame # "audio" => ~Owed(h)
  BY <1>1 DEF KeyInv, SendInv, HandleInv, Live!Sending
<1>4. HandleInv' /\ SendInv' /\ OfferInv'
  BY <1>2, <1>3 DEF HandleInv, SendInv, OfferInv, Live!Sending
<1> DEFINE b == client[h]
<1>5. b \in ClientType /\ client \in [Viewers -> ClientType]
      /\ (b.state = "FREE" => b.subs = {})
      /\ (Owed(h) /\ "video" \in b.subs => b.waiting \/ NotesBusy(h))
  BY DEF KeyInv, LiveTyped, WaitsInv
<1>6. \E c \in ClientType : /\ client' = [client EXCEPT ![h] = c]
                            /\ c.state = "FREE" => c.subs = {}
                            /\ Owed(h) /\ "video" \in c.subs => c.waiting
  <2>1. CASE Live!Sent(h)
    <3>1. ~NotesBusy(h)
      BY <2>1 DEF Live!Sent, NotesBusy
    <3>2. CASE ~Live!Active(h)
      <4>1. client' = [client EXCEPT ![h] = b]
        BY <1>5, <2>1, <3>2 DEF Live!Sent
      <4> HIDE DEF b
      <4> QED
        BY <1>5, <3>1, <4>1
    <3>3. CASE Live!Active(h)
      <4> DEFINE c == [b EXCEPT !.fails = 0, !.waiting = @ /\ sending.frame # "key"]
      <4>1. client' = [client EXCEPT ![h] = c]
        BY <1>5, <2>1, <3>3 DEF Live!Sent
      <4>2. /\ c \in ClientType /\ c.state = b.state /\ c.subs = b.subs
            /\ c.waiting = (b.waiting /\ sending.frame # "key")
        BY <1>5 DEF ClientType
      <4>3. sending.result = "ok"
        BY <2>1 DEF Live!Sent
      <4> HIDE DEF b, c
      <4> QED
        BY <1>3, <1>5, <3>1, <4>1, <4>2, <4>3
    <3> QED
      BY <3>2, <3>3
  <2>2. CASE Live!Busy(h)
    <3>1. CASE /\ sending.result = "busy" /\ sending.frame # "audio"
               /\ h \in Live!Subscribers("video")
      <4> DEFINE c == [b EXCEPT !.waiting = TRUE]
      <4>1. client' = [client EXCEPT ![h] = c]
        BY <1>5, <2>2, <3>1 DEF Live!Busy
      <4>2. c \in ClientType /\ c.state = b.state /\ c.subs = b.subs /\ c.waiting
        BY <1>5 DEF ClientType
      <4> HIDE DEF b, c
      <4> QED
        BY <1>5, <4>1, <4>2
    <3>2. CASE ~(/\ sending.result = "busy" /\ sending.frame # "audio"
                 /\ h \in Live!Subscribers("video"))
      <4>1. UNCHANGED client
        BY <2>2, <3>2 DEF Live!Busy
      <4>2. client' = [client EXCEPT ![h] = b]
        BY <1>5, <4>1
      <4>3. NotesBusy(h) => "video" \notin b.subs
        BY <1>3, <1>5, <3>2 DEF NotesBusy, Live!Subscribers, Live!Active, ClientType
      <4> HIDE DEF b
      <4> QED
        BY <1>5, <4>2, <4>3
    <3> QED
      BY <3>1, <3>2
  <2>3. CASE Live!Failed(h)
    <3>1. ~NotesBusy(h)
      BY <2>3 DEF Live!Failed, NotesBusy
    <3>2. CASE client' = [client EXCEPT ![h] = Live!Gone]
      <4>1. Live!Gone \in ClientType /\ Live!Gone.subs = {}
        BY DEF Live!Gone, ClientType
      <4> QED
        BY <3>2, <4>1
    <3>3. CASE UNCHANGED client
      <4>1. client' = [client EXCEPT ![h] = b]
        BY <1>5, <3>3
      <4> HIDE DEF b
      <4> QED
        BY <1>5, <3>1, <4>1
    <3>4. CASE client' = [client EXCEPT ![h].fails = client[h].fails + 1]
      <4> DEFINE c == [b EXCEPT !.fails = client[h].fails + 1]
      <4>1. client' = [client EXCEPT ![h] = c]
        BY <1>5, <3>4
      <4>2. c \in ClientType /\ c.state = b.state /\ c.subs = b.subs /\ c.waiting = b.waiting
        BY <1>5 DEF ClientType
      <4> HIDE DEF b, c
      <4> QED
        BY <1>5, <3>1, <4>1, <4>2
    <3>5. \/ client' = [client EXCEPT ![h] = Live!Gone]
          \/ client' = [client EXCEPT ![h].fails = client[h].fails + 1]
          \/ client' = client
      <4> DEFINE gone == [client EXCEPT ![h] = Live!Gone]
                 more == [client EXCEPT ![h].fails = client[h].fails + 1]
                 lost == \/ sending.result = "fatal"
                         \/ Live!Active(h) /\ client[h].fails + 1 = MaxFails
                 live == Live!Active(h)
      <4>1. client' = CASE lost -> gone [] live -> more [] OTHER -> client
        BY <2>3 DEF Live!Failed
      <4> HIDE DEF gone, more, lost, live
      <4>2. client' = gone \/ client' = more \/ client' = client
        BY <4>1
      <4> QED
        BY <4>2 DEF gone, more
    <3> QED
      BY <3>2, <3>3, <3>4, <3>5
  <2> QED
    BY <2>1, <2>2, <2>3
<1>7. PICK c \in ClientType : /\ client' = [client EXCEPT ![h] = c]
                              /\ c.state = "FREE" => c.subs = {}
                              /\ Owed(h) /\ "video" \in c.subs => c.waiting
  BY <1>6
<1>8. client'[h] = c /\ \A g \in Viewers \ {h} : client'[g] = client[g]
  BY <1>5, <1>7
<1>9. LiveTyped'
  BY <1>1, <1>5, <1>7, <1>8 DEF KeyInv, LiveTyped
<1>10. WaitsInv'
  <2> SUFFICES ASSUME NEW g \in Viewers, Owed(g), "video" \in client'[g].subs
               PROVE  client'[g].waiting
    BY <1>1 DEF WaitsInv, Owed
  <2>1. CASE g = h
    BY <1>7, <1>8, <2>1
  <2>2. CASE g # h
    BY <1>1, <1>8, <2>2 DEF KeyInv, WaitsInv, NotesBusy
  <2> QED
    BY <2>1, <2>2
<1> QED
  BY <1>4, <1>9, <1>10 DEF KeyInv

LEMMA KeyStepInv == KeyInv /\ [Live!Next]_liveVars => KeyInv'
<1> SUFFICES ASSUME KeyInv, [Live!Next]_liveVars PROVE KeyInv'
  OBVIOUS
<1>1. CASE UNCHANGED liveVars
  BY <1>1 DEF liveVars, KeyInv, LiveTyped, WaitsInv, Owed, NotesBusy, HandleInv, SendInv, OfferInv,
              Live!Sending
<1>2. CASE Live!Next
  BY <1>2, CallbackKeeps, OffersKeep, CheckKeeps, SendKeeps, NotedKeeps DEF Live!Next, Live!Push
<1> QED
  BY <1>1, <1>2

LEMMA KeyFromInv == KeyInv => KeyFrameWhenOwed
BY DEF KeyInv, SendInv, Owed, Live!Sending, KeyFrameWhenOwed, Live!KeyFrameWhenOwed,
       Live!FirstFrameIsKey, Live!BusyNeedsKey, Live!NoDelta, Live!SentDelta

\* A viewer that is owed a key frame waits for one, and no delta frame is on its
\* way to it.
THEOREM KeyFramesInductive == MediaSpec => []KeyInv
<1>1. MediaInit => KeyInv
  BY KeyInitInv DEF MediaInit
<1>2. [MediaNext]_<<part, liveVars, clockVars, fileVars, containerVars, recorderVars>>
          => [Live!Next]_liveVars
  BY DEF MediaNext
<1> QED
  BY <1>1, <1>2, KeyStepInv, PTL DEF MediaSpec

\* The first video frame on a connection, and the first after a refused one, is a
\* key frame, for any number of viewers and any file.
THEOREM KeyFrameWhenOwedAlways == MediaSpec => []KeyFrameWhenOwed
BY KeyFramesInductive, KeyFromInv, PTL

-----------------------------------------------------------------------------
(* The recorder (AudioRecorder).  Calls of one session that last over the  *)
(* open of the next: whoever has set closing is alone until it is back,    *)
(* and a worker that is marked as started has not been joined, unless the  *)
(* one who joined it is still at the files.                                *)

Steps == {"idle", "enter", "sleep", "join", "files", "finish", "fopen", "reset", "create", "mark"}
FlagType == [{"started", "accepting", "stopping", "closing"} -> BOOLEAN]

InClose(t) == pc[t] \in {"join", "files", "finish"}
Folk == Closers \cup {Opener}

RecorderTyped ==
    /\ pc \in [Folk -> Steps] /\ target \in [Folk -> Nat] /\ flags \in FlagType
    /\ opens \in Nat /\ worker \in Nat /\ raw \in Nat /\ opening \in BOOLEAN

AloneInv ==
    /\ \A t \in Folk : InClose(t) => flags["closing"]
    /\ \A t, u \in Folk : InClose(t) /\ InClose(u) => t = u

JoinInv ==
    /\ \A t \in Folk : pc[t] = "join" /\ target[t] # 0 =>
          flags["started"] /\ target[t] = worker /\ worker \notin joined
    /\ flags["started"] => worker \notin joined \/ \E t \in Folk : pc[t] \in {"files", "finish"}

OpenerInv ==
    /\ pc[Opener] \in {"fopen", "reset", "create", "mark"} => ~flags["started"]
    /\ pc[Opener] \in {"reset", "create"} => worker < opens
    /\ pc[Opener] = "mark" => worker = opens /\ worker \notin joined

OverlapInv ==
    /\ RecorderTyped /\ joined \subseteq 1..worker /\ worker <= opens
    /\ AloneInv /\ JoinInv /\ OpenerInv

\* Sessions that keep apart: nobody closes while the next is being opened; a
\* frame that was accepted for the open file is in it, in the queue or in the
\* worker's hands, and the worker is gone before the file is closed.
Lives(f) == work[f].pc \in {"run", "sleep", "write"}
InHand(f) == IF work[f].pc = "write" THEN 1 ELSE 0

SessionTypedApart ==
    /\ work \in [Apart!Files -> [pc : {"none", "run", "sleep", "write", "gone"}, frame : Nat]]
    /\ opens \in 0..ApartOpens /\ raw \in {0, opens} /\ queue \in Seq(Nat)
    /\ accepted \in [Apart!Files -> Nat] /\ written \in [Apart!Files -> Nat]

FilesInv ==
    \A f \in Apart!Files :
        /\ f > opens => accepted[f] = 0 /\ written[f] = 0 /\ work[f].pc = "none"
        /\ Lives(f) => f = raw
        /\ work[f].pc = "write" => work[f].frame = f
        /\ f <= opens /\ f # raw => written[f] = accepted[f]

RawInv ==
    /\ flags["stopping"] => ~flags["accepting"]
    /\ raw = 0 => queue = <<>>
    /\ \A i \in 1..Len(queue) : queue[i] = raw
    /\ raw # 0 => accepted[raw] = written[raw] + Len(queue) + InHand(raw)
    /\ raw # 0 /\ work[raw].pc = "gone" =>
          queue = <<>> /\ flags["stopping"] /\ ~flags["accepting"]

CloseInv ==
    /\ \A t \in Folk : pc[t] = "join" => flags["started"] /\ target[t] = worker /\ raw # 0
    /\ \A t \in Folk : pc[t] = "files" => raw # 0 /\ work[raw].pc = "gone"
    /\ \A t \in Folk : pc[t] = "finish" => raw = 0
    /\ flags["started"] => worker = opens /\ (raw # 0 \/ \E t \in Folk : pc[t] = "finish")
    /\ raw # 0 /\ pc[Opener] \notin {"reset", "create", "mark"} => flags["started"]

OpenInv ==
    /\ opening => pc[Opener] # "idle" /\ \A t \in Closers : pc[t] = "idle"
    /\ pc[Opener] \in {"fopen", "reset", "create", "mark"} => opening /\ ~flags["started"]
    /\ pc[Opener] = "fopen" => raw = 0
    /\ pc[Opener] \in {"reset", "create", "mark"} => raw = opens /\ raw # 0
    /\ pc[Opener] \in {"reset", "create"} => work[opens].pc = "none" /\ queue = <<>>
    /\ pc[Opener] = "mark" => worker = opens
    /\ opening => opens < ApartOpens \/ pc[Opener] \in {"reset", "create", "mark"}

ApartInv ==
    RecorderTyped /\ SessionTypedApart /\ FilesInv /\ RawInv /\ AloneInv /\ CloseInv /\ OpenInv

RecorderInv == (part = "overlap" => OverlapInv) /\ (part = "recorder" => ApartInv)

\* t goes on at l; whoever slept may have been woken.
Moves(t, l) ==
    /\ pc' \in [Folk -> Steps] /\ pc'[t] = l
    /\ \A u \in Folk \ {t} : pc'[u] = pc[u] \/ (pc[u] = "sleep" /\ pc'[u] = "enter")

\* Nobody goes on; whoever slept may have been woken.
Wakes ==
    /\ pc' \in [Folk -> Steps]
    /\ \A u \in Folk : pc'[u] = pc[u] \/ (pc[u] = "sleep" /\ pc'[u] = "enter")

LEMMA OverlapMoves ==
    ASSUME RecorderTyped, NEW t \in Folk, NEW l \in Steps
    PROVE  /\ Overlapping!Goto(t, l) => Moves(t, l)
           /\ Overlapping!Broadcast([pc EXCEPT ![t] = l], work) /\ l # "sleep" => Moves(t, l)
           /\ Overlapping!Signal(pc, work) => Wakes
<1>1. pc \in [Folk -> Steps] /\ "enter" \in Steps
  BY DEF RecorderTyped, Steps
<1>2. Overlapping!Goto(t, l) => Moves(t, l)
  BY <1>1 DEF Overlapping!Goto, Moves
<1>3. ASSUME Overlapping!Broadcast([pc EXCEPT ![t] = l], work), l # "sleep" PROVE Moves(t, l)
  <2> DEFINE p == [pc EXCEPT ![t] = l]
  <2>1. pc' = [u \in Folk |-> IF p[u] = "sleep" THEN "enter" ELSE p[u]]
    BY <1>3 DEF Overlapping!Broadcast, Overlapping!Threads, Folk
  <2>2. p \in [Folk -> Steps] /\ p[t] = l /\ \A u \in Folk \ {t} : p[u] = pc[u]
    BY <1>1
  <2> HIDE DEF p
  <2>3. pc' \in [Folk -> Steps]
    BY <1>1, <2>1, <2>2
  <2> QED
    BY <1>3, <2>1, <2>2, <2>3 DEF Moves
<1>4. ASSUME Overlapping!Signal(pc, work) PROVE Wakes
  <2>1. pc' = pc \/ \E u \in Folk : pc[u] = "sleep" /\ pc' = [pc EXCEPT ![u] = "enter"]
    BY <1>4 DEF Overlapping!Signal, Overlapping!Threads, Folk
  <2> QED
    BY <1>1, <2>1 DEF Wakes
<1> QED
  BY <1>2, <1>3, <1>4

\* Steps outside the close, and outside what the open changes.
OverlapFrees(u) ==
    /\ ~InClose(u) /\ pc'[u] \in {"idle", "enter", "sleep", "fopen"}
    /\ pc'[u] = "fopen" => ~flags["started"]

LEMMA OverlapFrame ==
    ASSUME OverlapInv, RecorderTyped',
           UNCHANGED <<target, opens, joined, worker>>,
           \A x \in {"started", "closing"} : flags'[x] = flags[x],
           \A u \in Folk : pc'[u] = pc[u] \/ OverlapFrees(u)
    PROVE  OverlapInv'
<1>1. \A u \in Folk : InClose(u)' <=> InClose(u)
  BY DEF InClose, OverlapFrees
<1>2. \A u \in Folk, l \in {"join", "files", "finish"} : pc'[u] = l <=> pc[u] = l
  BY DEF InClose, OverlapFrees
<1>3. AloneInv'
  BY <1>1 DEF OverlapInv, AloneInv
<1>4. JoinInv'
  BY <1>2 DEF OverlapInv, JoinInv
<1>5. OpenerInv'
  BY DEF OverlapInv, OpenerInv, OverlapFrees, Folk
<1> QED
  BY <1>3, <1>4, <1>5 DEF OverlapInv

LEMMA OverlapClosing ==
    ASSUME OverlapInv, NEW t \in Folk, Overlapping!Close(t) \/ Overlapping!Enter(t)
    PROVE  OverlapInv'
<1>1. RecorderTyped /\ {"idle", "enter", "sleep", "join", "fopen"} \subseteq Steps
  BY DEF OverlapInv, Steps
<1>2. CASE Overlapping!Close(t)
  <2>1. Moves(t, "enter") /\ pc[t] = "idle"
        /\ UNCHANGED <<opening, target, opens, joined, flags, worker, raw>>
    BY <1>1, <1>2, OverlapMoves
    DEF Overlapping!Close, Overlapping!history, Overlapping!fields
  <2>2. RecorderTyped'
    BY <1>1, <2>1 DEF RecorderTyped, Moves
  <2>3. \A u \in Folk : pc'[u] = pc[u] \/ OverlapFrees(u)
    BY <2>1 DEF Moves, OverlapFrees, InClose
  <2> QED
    BY <2>1, <2>2, <2>3, OverlapFrame
<1>3. CASE Overlapping!Enter(t) /\ (flags["closing"] \/ (~flags["started"] /\ raw = 0))
  <2>1. /\ Moves(t, "sleep") \/ (Moves(t, Overlapping!Returned(t)) /\ ~flags["started"])
        /\ Overlapping!Returned(t) \in {"idle", "fopen"}
        /\ pc[t] = "enter"
        /\ UNCHANGED <<opening, target, opens, joined, flags, worker, raw>>
    <3>1. Overlapping!Returned(t) \in {"idle", "fopen"}
      BY DEF Overlapping!Returned
    <3> QED
      BY <1>1, <1>3, <3>1, OverlapMoves DEF Overlapping!Enter, Overlapping!history
  <2>2. RecorderTyped'
    BY <1>1, <2>1 DEF RecorderTyped, Moves
  <2>3. \A u \in Folk : pc'[u] = pc[u] \/ OverlapFrees(u)
    BY <2>1 DEF Moves, OverlapFrees, InClose
  <2> QED
    BY <2>1, <2>2, <2>3, OverlapFrame
<1>4. CASE Overlapping!Enter(t) /\ ~flags["closing"] /\ (flags["started"] \/ raw # 0)
  <2>1. /\ Moves(t, "join") /\ pc[t] = "enter"
        /\ UNCHANGED <<opening, opens, joined, worker, raw>>
        /\ flags' = [flags EXCEPT !["closing"] = TRUE, !["accepting"] = FALSE, !["stopping"] = TRUE]
        /\ target' = [target EXCEPT ![t] = IF flags["started"] THEN worker ELSE 0]
    BY <1>1, <1>4, OverlapMoves DEF Overlapping!Enter, Overlapping!history
  <2>2. /\ flags' \in FlagType /\ flags'["closing"] /\ flags'["started"] = flags["started"]
    BY <1>1, <2>1 DEF RecorderTyped, FlagType
  <2>3. /\ target' \in [Folk -> Nat] /\ target'[t] = IF flags["started"] THEN worker ELSE 0
        /\ \A u \in Folk \ {t} : target'[u] = target[u]
    BY <1>1, <2>1 DEF RecorderTyped
  <2>4. RecorderTyped'
    BY <1>1, <2>1, <2>2, <2>3 DEF RecorderTyped, Moves
  <2>5. \A u \in Folk : ~InClose(u) /\ (InClose(u)' => u = t)
    BY <1>4, <2>1 DEF OverlapInv, AloneInv, InClose, Moves
  <2>6. AloneInv'
    BY <2>2, <2>5 DEF AloneInv
  <2>7. JoinInv'
    BY <2>1, <2>2, <2>3, <2>5 DEF OverlapInv, JoinInv, InClose, Moves
  <2>8. OpenerInv'
    BY <2>1, <2>2 DEF OverlapInv, OpenerInv, Moves, Folk
  <2> QED
    BY <2>1, <2>4, <2>6, <2>7, <2>8 DEF OverlapInv
<1> QED
  BY <1>2, <1>3, <1>4

LEMMA OverlapJoins ==
    ASSUME OverlapInv, NEW t \in Folk, Overlapping!Join(t) PROVE OverlapInv'
<1>1. /\ pc[t] = "join" /\ joined' = joined \cup ({target[t]} \ {0})
      /\ Moves(t, "files") /\ UNCHANGED <<opening, target, opens, flags, worker, raw>>
  BY OverlapMoves DEF Overlapping!Join, Overlapping!fields, OverlapInv, Steps
<1>2. RecorderTyped'
  BY <1>1 DEF OverlapInv, RecorderTyped, Moves
<1>3. InClose(t) /\ InClose(t)' /\ \A u \in Folk : InClose(u)' => u = t
  BY <1>1 DEF OverlapInv, AloneInv, InClose, Moves
<1>4. AloneInv'
  BY <1>1, <1>3 DEF OverlapInv, AloneInv
<1>5. JoinInv'
  BY <1>1, <1>3 DEF JoinInv, InClose, Moves
<1>6. joined' \subseteq 1..worker'
  <2>1. worker \in Nat /\ target[t] \in Nat /\ joined \subseteq 1..worker
    BY DEF OverlapInv, RecorderTyped
  <2>2. target[t] # 0 => target[t] = worker
    BY <1>1 DEF OverlapInv, JoinInv
  <2>3. CASE target[t] = 0
    BY <1>1, <2>1, <2>3
  <2>4. CASE target[t] # 0
    <3>1. joined' = joined \cup {worker} /\ worker \in 1..worker
      BY <1>1, <2>1, <2>2, <2>4
    <3> QED
      BY <1>1, <2>1, <3>1
  <2> QED
    BY <2>3, <2>4
<1>7. OpenerInv'
  BY <1>1 DEF OverlapInv, JoinInv, OpenerInv, Moves, Folk
<1> QED
  BY <1>1, <1>2, <1>4, <1>5, <1>6, <1>7 DEF OverlapInv

LEMMA OverlapFiles ==
    ASSUME OverlapInv, NEW t \in Folk, Overlapping!CloseFiles(t) PROVE OverlapInv'
<1>1. /\ pc[t] = "files" /\ raw' = 0 /\ Moves(t, "finish")
      /\ UNCHANGED <<opening, target, opens, joined, flags, worker>>
  BY OverlapMoves DEF Overlapping!CloseFiles, Overlapping!history, OverlapInv, Steps
<1>2. RecorderTyped'
  BY <1>1 DEF OverlapInv, RecorderTyped, Moves
<1>3. InClose(t) /\ InClose(t)' /\ \A u \in Folk : InClose(u)' => u = t
  BY <1>1 DEF OverlapInv, AloneInv, InClose, Moves
<1>4. AloneInv'
  BY <1>1, <1>3 DEF OverlapInv, AloneInv
<1>5. JoinInv'
  BY <1>1, <1>3 DEF JoinInv, InClose, Moves
<1>6. OpenerInv'
  BY <1>1 DEF OverlapInv, OpenerInv, Moves, Folk
<1> QED
  BY <1>1, <1>2, <1>4, <1>5, <1>6 DEF OverlapInv

LEMMA OverlapFinish ==
    ASSUME OverlapInv, NEW t \in Folk, Overlapping!Finish(t) PROVE OverlapInv'
<1>1. Overlapping!Returned(t) \in {"idle", "fopen"}
  BY DEF Overlapping!Returned
<1>2. /\ pc[t] = "finish" /\ Moves(t, Overlapping!Returned(t))
      /\ flags' = [flags EXCEPT !["started"] = FALSE, !["closing"] = FALSE]
      /\ UNCHANGED <<opening, target, opens, joined, worker, raw>>
  BY <1>1, OverlapMoves DEF Overlapping!Finish, Overlapping!history, OverlapInv, Steps
<1>3. flags' \in FlagType /\ ~flags'["started"]
  BY <1>2 DEF OverlapInv, RecorderTyped, FlagType
<1>4. RecorderTyped'
  BY <1>2, <1>3 DEF OverlapInv, RecorderTyped, Moves
<1>5. \A u \in Folk : ~InClose(u)'
  BY <1>1, <1>2 DEF OverlapInv, AloneInv, InClose, Moves
<1>6. AloneInv' /\ JoinInv'
  BY <1>3, <1>5 DEF AloneInv, JoinInv, InClose
<1>7. OpenerInv'
  BY <1>1, <1>2, <1>3 DEF OverlapInv, OpenerInv, Moves, Folk
<1> QED
  BY <1>2, <1>4, <1>6, <1>7 DEF OverlapInv

LEMMA OverlapOpener ==
    ASSUME OverlapInv, Overlapping!Open \/ Overlapping!Opening PROVE OverlapInv'
<1>1. /\ RecorderTyped /\ Opener \in Folk
      /\ {"idle", "enter", "reset", "create", "mark"} \subseteq Steps
  BY DEF OverlapInv, Folk, Steps
<1>2. CASE Overlapping!Open \/ Overlapping!OpenFails
  <2>1. /\ \E l \in {"enter", "idle"} : Moves(Opener, l)
        /\ pc[Opener] \in {"idle", "fopen", "create"}
        /\ opening' \in BOOLEAN /\ raw' \in {0, raw}
        /\ flags' = flags \/ flags' = [flags EXCEPT !["accepting"] = FALSE]
        /\ UNCHANGED <<target, opens, joined, worker>>
    BY <1>1, <1>2, OverlapMoves
    DEF Overlapping!Open, Overlapping!OpenFails, Overlapping!history, Overlapping!fields
  <2>2. flags' \in FlagType /\ \A x \in {"started", "closing"} : flags'[x] = flags[x]
    BY <1>1, <2>1 DEF RecorderTyped, FlagType
  <2>3. RecorderTyped'
    BY <1>1, <2>1, <2>2 DEF RecorderTyped, Moves
  <2>4. \A u \in Folk : pc'[u] = pc[u] \/ OverlapFrees(u)
    BY <2>1 DEF Moves, OverlapFrees, InClose
  <2> QED
    BY <2>1, <2>2, <2>3, <2>4, OverlapFrame
<1>3. ASSUME NEW l \in {"reset", "create", "mark", "idle"}, Moves(Opener, l),
             pc[Opener] \in {"fopen", "reset", "create", "mark"}, RecorderTyped',
             UNCHANGED <<target, joined>>, flags'["closing"] = flags["closing"],
             \/ UNCHANGED <<opens, worker>> /\ flags'["started"] = flags["started"] /\ l = "create"
                                           /\ pc[Opener] = "reset"
             \/ opens' = opens + 1 /\ UNCHANGED worker /\ flags'["started"] = flags["started"]
                                  /\ l = "reset"
             \/ worker' = opens /\ UNCHANGED opens /\ flags'["started"] = flags["started"]
                               /\ l = "mark" /\ pc[Opener] = "create"
             \/ UNCHANGED <<opens, worker>> /\ pc[Opener] = "mark" /\ l = "idle"
      PROVE OverlapInv'
  <2>1. \A u \in Folk, k \in {"join", "files", "finish"} : pc'[u] = k <=> pc[u] = k
    BY <1>1, <1>3 DEF Moves
  <2>2. \A u \in Folk : InClose(u)' <=> InClose(u)
    BY <2>1 DEF InClose
  <2>3. ~flags["started"]
    BY <1>3 DEF OverlapInv, OpenerInv
  <2>4. AloneInv'
    BY <1>3, <2>2 DEF OverlapInv, AloneInv
  <2>5. \A u \in Folk : pc'[u] = "join" => target'[u] = 0
    BY <1>3, <2>1, <2>3 DEF OverlapInv, JoinInv
  <2>6. JoinInv'
    BY <1>3, <2>3, <2>5 DEF OverlapInv, JoinInv, OpenerInv
  <2>7. opens \in Nat /\ worker \in Nat /\ worker <= opens /\ joined \subseteq 1..worker
        /\ pc'[Opener] = l
    BY <1>1, <1>3 DEF OverlapInv, RecorderTyped, Moves
  <2>8. OpenerInv'
    BY <1>3, <2>3, <2>7 DEF OverlapInv, OpenerInv
  <2>9. joined' \subseteq 1..worker' /\ worker' <= opens'
    BY <1>3, <2>7
  <2> QED
    BY <1>3, <2>4, <2>6, <2>8, <2>9 DEF OverlapInv
<1>4. CASE Overlapping!OpenFile
  <2>1. /\ Moves(Opener, "reset") /\ pc[Opener] = "fopen" /\ opens' = opens + 1
        /\ raw' = opens + 1 /\ UNCHANGED <<opening, target, joined, flags, worker>>
    BY <1>1, <1>4, OverlapMoves DEF Overlapping!OpenFile
  <2>2. RecorderTyped'
    BY <1>1, <2>1 DEF RecorderTyped, Moves
  <2> QED
    BY <1>3, <2>1, <2>2
<1>5. CASE Overlapping!Reset
  <2>1. /\ Moves(Opener, "create") /\ pc[Opener] = "reset"
        /\ flags' = [flags EXCEPT !["stopping"] = FALSE, !["accepting"] = TRUE]
        /\ UNCHANGED <<opening, target, opens, joined, worker, raw>>
    BY <1>1, <1>5, OverlapMoves DEF Overlapping!Reset, Overlapping!history
  <2>2. flags' \in FlagType /\ \A x \in {"started", "closing"} : flags'[x] = flags[x]
    BY <1>1, <2>1 DEF RecorderTyped, FlagType
  <2>3. RecorderTyped'
    BY <1>1, <2>1, <2>2 DEF RecorderTyped, Moves
  <2> QED
    BY <1>3, <2>1, <2>2, <2>3
<1>6. CASE Overlapping!CreateWorker
  <2>1. /\ Moves(Opener, "mark") /\ pc[Opener] = "create" /\ worker' = opens
        /\ UNCHANGED <<opening, target, opens, joined, flags, raw>>
    BY <1>1, <1>6, OverlapMoves DEF Overlapping!CreateWorker, Overlapping!history
  <2>2. RecorderTyped'
    BY <1>1, <2>1 DEF RecorderTyped, Moves
  <2> QED
    BY <1>3, <2>1, <2>2
<1>7. CASE Overlapping!Mark
  <2>1. /\ Moves(Opener, "idle") /\ pc[Opener] = "mark" /\ opening' = FALSE
        /\ flags' = [flags EXCEPT !["started"] = TRUE]
        /\ UNCHANGED <<target, opens, joined, worker, raw>>
    BY <1>1, <1>7, OverlapMoves DEF Overlapping!Mark, Overlapping!history
  <2>2. flags' \in FlagType /\ flags'["closing"] = flags["closing"]
    BY <1>1, <2>1 DEF RecorderTyped, FlagType
  <2>3. RecorderTyped'
    BY <1>1, <2>1, <2>2 DEF RecorderTyped, Moves
  <2> QED
    BY <1>3, <2>1, <2>2, <2>3
<1> QED
  BY <1>2, <1>4, <1>5, <1>6, <1>7 DEF Overlapping!Opening

LEMMA OverlapWorks ==
    ASSUME OverlapInv, Overlapping!Submit \/ \E f \in Overlapping!Files : Overlapping!Worker(f)
    PROVE  OverlapInv'
<1>1. Wakes /\ UNCHANGED <<opening, target, opens, joined, flags, worker, raw>>
  <2>1. CASE Overlapping!Submit
    BY <2>1, OverlapMoves DEF Overlapping!Submit, OverlapInv, Folk, Steps
  <2>2. CASE \E f \in Overlapping!Files : Overlapping!Worker(f)
    BY <2>2 DEF Overlapping!Worker, Overlapping!Take, Overlapping!Write, Overlapping!history,
                Overlapping!fields, OverlapInv, RecorderTyped, Wakes
  <2> QED
    BY <2>1, <2>2
<1>2. RecorderTyped'
  BY <1>1 DEF OverlapInv, RecorderTyped, Wakes
<1>3. \A u \in Folk : pc'[u] = pc[u] \/ OverlapFrees(u)
  BY <1>1 DEF Wakes, OverlapFrees, InClose
<1> QED
  BY <1>1, <1>2, <1>3, OverlapFrame

LEMMA OverlapStep == OverlapInv /\ Overlapping!Next => OverlapInv'
<1> SUFFICES ASSUME OverlapInv, Overlapping!Next PROVE OverlapInv'
  OBVIOUS
<1>1. ASSUME NEW t \in Folk, Overlapping!Close(t) \/ Overlapping!Closing(t) PROVE OverlapInv'
  BY <1>1, OverlapClosing, OverlapJoins, OverlapFiles, OverlapFinish DEF Overlapping!Closing
<1>2. CASE Overlapping!Open \/ Overlapping!Opening
  BY <1>2, OverlapOpener
<1>3. CASE Overlapping!Submit \/ \E f \in Overlapping!Files : Overlapping!Worker(f)
  BY <1>3, OverlapWorks
<1> QED
  BY <1>1, <1>2, <1>3 DEF Overlapping!Next, Overlapping!Threads, Folk

LEMMA OverlapInit == Overlapping!Init => OverlapInv
<1> SUFFICES ASSUME Overlapping!Init PROVE OverlapInv
  OBVIOUS
<1>1. /\ pc \in [Folk -> Steps] /\ \A t \in Folk : pc[t] = "idle" /\ target[t] = 0
      /\ target \in [Folk -> Nat] /\ flags \in FlagType /\ ~flags["started"]
      /\ opens = 0 /\ worker = 0 /\ raw = 0 /\ opening = FALSE /\ joined = {} /\ Opener \in Folk
  BY DEF Overlapping!Init, Overlapping!Threads, Folk, Steps, FlagType
<1>2. 0 \in Nat /\ FALSE \in BOOLEAN
  OBVIOUS
<1>3. RecorderTyped
  BY <1>1, <1>2 DEF RecorderTyped
<1>4. joined \subseteq 1..worker /\ worker <= opens
  BY <1>1
<1>5. AloneInv /\ JoinInv /\ OpenerInv
  BY <1>1 DEF AloneInv, InClose, JoinInv, OpenerInv
<1> QED
  BY <1>3, <1>4, <1>5 DEF OverlapInv

LEMMA OverlapJoinedOnce == OverlapInv => Overlapping!JoinedOnce
BY DEF OverlapInv, AloneInv, JoinInv, InClose, Overlapping!JoinedOnce, Overlapping!Threads, Folk

\* The workers go on as they were, but for those woken.
WorkSame ==
    /\ work' \in [Apart!Files -> [pc : {"none", "run", "sleep", "write", "gone"}, frame : Nat]]
    /\ \A f \in Apart!Files :
          /\ Lives(f)' <=> Lives(f)
          /\ work'[f].frame = work[f].frame
          /\ \A s \in {"none", "write", "gone"} : work'[f].pc = s <=> work[f].pc = s

LEMMA ApartMoves ==
    ASSUME RecorderTyped, SessionTypedApart, NEW t \in Folk, NEW l \in Steps
    PROVE  /\ Apart!Goto(t, l) => Moves(t, l)
           /\ Apart!Broadcast([pc EXCEPT ![t] = l], work) /\ l # "sleep" => Moves(t, l) /\ WorkSame
           /\ Apart!Signal(pc, work) => Wakes /\ WorkSame
           /\ UNCHANGED work => WorkSame
<1>1. pc \in [Folk -> Steps] /\ "enter" \in Steps
  BY DEF RecorderTyped, Steps
<1> DEFINE W == [pc : {"none", "run", "sleep", "write", "gone"}, frame : Nat]
<1>2. work \in [Apart!Files -> W]
  BY DEF SessionTypedApart
<1>3. Apart!Goto(t, l) => Moves(t, l)
  BY <1>1 DEF Apart!Goto, Moves
<1>4. UNCHANGED work => WorkSame
  BY <1>2 DEF WorkSame, Lives
<1>5. ASSUME NEW w \in W, w.pc = "sleep"
      PROVE  [w EXCEPT !.pc = "run"] \in W /\ [w EXCEPT !.pc = "run"].pc = "run"
             /\ [w EXCEPT !.pc = "run"].frame = w.frame
  BY <1>5
<1>6. ASSUME work' \in [Apart!Files -> W],
             \A f \in Apart!Files :
                work'[f] = work[f] \/ (work[f].pc = "sleep" /\ work'[f] = [work[f] EXCEPT !.pc = "run"])
      PROVE  WorkSame
  <2> SUFFICES ASSUME NEW f \in Apart!Files
               PROVE  /\ Lives(f)' <=> Lives(f)
                      /\ work'[f].frame = work[f].frame
                      /\ \A s \in {"none", "write", "gone"} : work'[f].pc = s <=> work[f].pc = s
    BY <1>6 DEF WorkSame
  <2>1. CASE work'[f] = work[f]
    BY <2>1 DEF Lives
  <2>2. CASE work[f].pc = "sleep" /\ work'[f] = [work[f] EXCEPT !.pc = "run"]
    <3>1. work'[f].pc = "run" /\ work'[f].frame = work[f].frame
      BY <1>2, <1>5, <2>2
    <3> QED
      BY <2>2, <3>1 DEF Lives
  <2> QED
    BY <1>6, <2>1, <2>2
<1>7. ASSUME Apart!Broadcast([pc EXCEPT ![t] = l], work), l # "sleep" PROVE Moves(t, l) /\ WorkSame
  <2> DEFINE p == [pc EXCEPT ![t] = l]
  <2>1. /\ pc' = [u \in Folk |-> IF p[u] = "sleep" THEN "enter" ELSE p[u]]
        /\ work' = [f \in Apart!Files |-> IF work[f].pc = "sleep" THEN [work[f] EXCEPT !.pc = "run"]
                                          ELSE work[f]]
    BY <1>7 DEF Apart!Broadcast, Apart!Threads, Folk
  <2>2. p \in [Folk -> Steps] /\ p[t] = l /\ \A u \in Folk \ {t} : p[u] = pc[u]
    BY <1>1
  <2> HIDE DEF p
  <2>3. pc' \in [Folk -> Steps]
    BY <1>1, <2>1, <2>2
  <2>4. Moves(t, l)
    BY <1>7, <2>1, <2>2, <2>3 DEF Moves
  <2>5. \A f \in Apart!Files :
           /\ work'[f] = work[f] \/ (work[f].pc = "sleep" /\ work'[f] = [work[f] EXCEPT !.pc = "run"])
           /\ work'[f] \in W
    BY <1>2, <1>5, <2>1
  <2>6. work' \in [Apart!Files -> W]
    BY <2>1, <2>5
  <2> QED
    BY <1>6, <2>4, <2>5, <2>6
<1>8. ASSUME Apart!Signal(pc, work) PROVE Wakes /\ WorkSame
  <2>1. \/ /\ \E u \in Folk : pc[u] = "sleep" /\ pc' = [pc EXCEPT ![u] = "enter"]
           /\ work' = work
        \/ /\ \E f \in Apart!Files : work[f].pc = "sleep" /\ work' = [work EXCEPT ![f].pc = "run"]
           /\ pc' = pc
        \/ UNCHANGED <<pc, work>>
    BY <1>8 DEF Apart!Signal, Apart!Threads, Folk
  <2>2. CASE \E u \in Folk : pc[u] = "sleep" /\ pc' = [pc EXCEPT ![u] = "enter"] /\ work' = work
    BY <1>1, <1>4, <2>2 DEF Wakes
  <2>3. ASSUME NEW f \in Apart!Files, work[f].pc = "sleep", work' = [work EXCEPT ![f].pc = "run"],
               pc' = pc
        PROVE  Wakes /\ WorkSame
    <3>1. /\ work' = [work EXCEPT ![f] = [work[f] EXCEPT !.pc = "run"]]
          /\ [work[f] EXCEPT !.pc = "run"] \in W
      BY <1>2, <1>5, <2>3
    <3>2. work' \in [Apart!Files -> W]
      BY <1>2, <3>1
    <3>3. \A g \in Apart!Files :
             work'[g] = work[g] \/ (work[g].pc = "sleep" /\ work'[g] = [work[g] EXCEPT !.pc = "run"])
      BY <1>2, <2>3, <3>1
    <3> QED
      BY <1>1, <1>6, <2>3, <3>2, <3>3 DEF Wakes
  <2>4. CASE UNCHANGED <<pc, work>>
    BY <1>1, <1>4, <2>4 DEF Wakes
  <2> QED
    BY <2>1, <2>2, <2>3, <2>4
<1> QED
  BY <1>3, <1>4, <1>7, <1>8

LEMMA RawIsAFile == RecorderTyped /\ SessionTypedApart /\ raw # 0 => raw \in Apart!Files /\ raw = opens
BY PartsAssumption DEF RecorderTyped, SessionTypedApart, Apart!Files, Apart!RecorderAssumption

\* Steps that leave the files and the queue alone.
LEMMA ApartStill ==
    ASSUME RecorderTyped, SessionTypedApart, FilesInv, RawInv, WorkSame,
           UNCHANGED <<opens, raw, queue, accepted, written>>,
           flags["stopping"] => flags'["stopping"],
           flags'["accepting"] => flags["accepting"] /\ ~flags'["stopping"]
    PROVE  SessionTypedApart' /\ FilesInv' /\ RawInv'
<1>1. SessionTypedApart'
  BY DEF SessionTypedApart, WorkSame
<1>2. FilesInv'
  BY DEF FilesInv, WorkSame
<1>3. raw # 0 => InHand(raw)' = InHand(raw) /\ (work'[raw].pc = "gone" <=> work[raw].pc = "gone")
  BY RawIsAFile DEF WorkSame, InHand
<1>4. RawInv'
  BY <1>3 DEF RawInv
<1> QED
  BY <1>1, <1>2, <1>4

\* Steps outside the close that change neither the flags nor the files.
ApartFrees(u) ==
    /\ pc[u] \in {"idle", "enter", "sleep", "fopen"}
    /\ pc'[u] \in {"idle", "enter", "sleep", "fopen"}

LEMMA ApartFrame ==
    ASSUME ApartInv, RecorderTyped', WorkSame, OpenInv',
           UNCHANGED <<target, opens, accepted, written, queue, flags, worker, raw>>,
           \A u \in Folk : pc'[u] = pc[u] \/ ApartFrees(u)
    PROVE  ApartInv'
<1>1. \A u \in Folk, l \in {"join", "files", "finish"} : pc'[u] = l <=> pc[u] = l
  BY DEF ApartFrees
<1>2. \A u \in Folk : InClose(u)' <=> InClose(u)
  BY <1>1 DEF InClose
<1>3. AloneInv'
  BY <1>2 DEF ApartInv, AloneInv
<1>4. SessionTypedApart' /\ FilesInv' /\ RawInv'
  BY ApartStill DEF ApartInv, RawInv
<1>5. raw # 0 => (work'[raw].pc = "gone" <=> work[raw].pc = "gone")
  BY RawIsAFile DEF ApartInv, WorkSame
<1>6. pc'[Opener] \notin {"reset", "create", "mark"} => pc[Opener] \notin {"reset", "create", "mark"}
  BY DEF ApartFrees, Folk
<1>7. CloseInv'
  BY <1>1, <1>5, <1>6 DEF ApartInv, CloseInv
<1> QED
  BY <1>3, <1>4, <1>7 DEF ApartInv

LEMMA ApartClosing ==
    ASSUME ApartInv, NEW t \in Folk, Apart!Close(t) \/ Apart!Enter(t)
    PROVE  ApartInv'
<1>1. /\ RecorderTyped /\ SessionTypedApart /\ OpenInv
      /\ {"idle", "enter", "sleep", "join", "fopen"} \subseteq Steps
  BY DEF ApartInv, Steps
<1>2. CASE Apart!Close(t)
  <2>1. /\ Moves(t, "enter") /\ pc[t] = "idle" /\ ~opening /\ WorkSame
        /\ UNCHANGED <<opening, target, opens, joined, accepted, written, queue, flags, worker, raw>>
    BY <1>1, <1>2, ApartMoves DEF Apart!Close, Apart!history, Apart!fields
  <2>2. RecorderTyped'
    BY <1>1, <2>1 DEF RecorderTyped, Moves
  <2>3. \A u \in Folk : pc'[u] = pc[u] \/ ApartFrees(u)
    BY <2>1 DEF Moves, ApartFrees
  <2>4. OpenInv'
    BY <1>1, <2>1 DEF OpenInv, Moves, Folk
  <2> QED
    BY <2>1, <2>2, <2>3, <2>4, ApartFrame
<1>3. CASE Apart!Enter(t) /\ (flags["closing"] \/ (~flags["started"] /\ raw = 0))
  <2>1. /\ \/ Moves(t, "sleep")
           \/ Moves(t, Apart!Returned(t)) /\ ~flags["started"] /\ raw = 0
        /\ Apart!Returned(t) = IF t = Opener /\ opening THEN "fopen" ELSE "idle"
        /\ pc[t] = "enter" /\ WorkSame
        /\ UNCHANGED <<opening, target, opens, joined, accepted, written, queue, flags, worker, raw>>
    <3>1. Apart!Returned(t) \in {"idle", "fopen"}
      BY DEF Apart!Returned
    <3> QED
      BY <1>1, <1>3, <3>1, ApartMoves DEF Apart!Enter, Apart!history, Apart!Returned
  <2>2. RecorderTyped'
    BY <1>1, <2>1 DEF RecorderTyped, Moves
  <2>3. \A u \in Folk : pc'[u] = pc[u] \/ ApartFrees(u)
    BY <2>1 DEF Moves, ApartFrees
  <2>4. OpenInv'
    BY <1>1, <2>1 DEF OpenInv, Moves, Folk
  <2> QED
    BY <2>1, <2>2, <2>3, <2>4, ApartFrame
<1>4. CASE Apart!Enter(t) /\ ~flags["closing"] /\ (flags["started"] \/ raw # 0)
  <2>1. /\ Moves(t, "join") /\ pc[t] = "enter" /\ WorkSame
        /\ UNCHANGED <<opening, opens, joined, accepted, written, queue, worker, raw>>
        /\ flags' = [flags EXCEPT !["closing"] = TRUE, !["accepting"] = FALSE, !["stopping"] = TRUE]
        /\ target' = [target EXCEPT ![t] = IF flags["started"] THEN worker ELSE 0]
    BY <1>1, <1>4, ApartMoves DEF Apart!Enter, Apart!history
  <2>2. \A u \in Folk : ~InClose(u) /\ (InClose(u)' => u = t)
    BY <1>4, <2>1 DEF ApartInv, AloneInv, InClose, Moves
  <2>3. flags["started"] /\ raw # 0
    BY <1>1, <1>4, <2>1, <2>2 DEF ApartInv, CloseInv, OpenInv, InClose, Folk
  <2>4. /\ flags' \in FlagType /\ flags'["closing"] /\ flags'["started"] /\ flags'["stopping"]
        /\ ~flags'["accepting"]
    BY <1>1, <2>1, <2>3 DEF RecorderTyped, FlagType
  <2>5. target' \in [Folk -> Nat] /\ target'[t] = worker
    BY <1>1, <2>1, <2>3 DEF RecorderTyped
  <2>6. RecorderTyped'
    BY <1>1, <2>1, <2>4, <2>5 DEF RecorderTyped, Moves
  <2>7. AloneInv'
    BY <2>2, <2>4 DEF AloneInv
  <2>8. SessionTypedApart' /\ FilesInv' /\ RawInv'
    BY <2>1, <2>4, ApartStill DEF ApartInv
  <2>9. \A u \in Folk : pc'[u] \notin {"files", "finish"} /\ (pc'[u] = "join" => u = t)
    BY <2>1, <2>2 DEF InClose, Moves
  <2>10. CloseInv'
    BY <2>1, <2>3, <2>4, <2>5, <2>9 DEF ApartInv, CloseInv
  <2>11. OpenInv'
    BY <1>1, <2>1, <2>3 DEF OpenInv, Moves, Folk
  <2> QED
    BY <2>6, <2>7, <2>8, <2>10, <2>11 DEF ApartInv
<1> QED
  BY <1>2, <1>3, <1>4

LEMMA ApartJoins ==
    ASSUME ApartInv, NEW t \in Folk, Apart!Join(t) PROVE ApartInv'
<1>1. /\ RecorderTyped /\ SessionTypedApart /\ FilesInv /\ OpenInv /\ "files" \in Steps
  BY DEF ApartInv, Steps
<1>2. /\ pc[t] = "join" /\ (target[t] # 0 => work[target[t]].pc = "gone")
      /\ Moves(t, "files") /\ WorkSame
      /\ UNCHANGED <<opening, target, opens, accepted, written, queue, flags, worker, raw>>
  BY <1>1, ApartMoves DEF Apart!Join, Apart!fields
<1>3. /\ target[t] = raw /\ raw # 0 /\ raw \in Apart!Files /\ flags["started"]
  BY <1>1, <1>2, RawIsAFile DEF ApartInv, CloseInv
<1>4. work'[raw].pc = "gone"
  BY <1>2, <1>3 DEF WorkSame
<1>5. RecorderTyped'
  BY <1>1, <1>2 DEF RecorderTyped, Moves
<1>6. InClose(t) /\ \A u \in Folk : InClose(u)' => u = t
  BY <1>2 DEF ApartInv, AloneInv, InClose, Moves
<1>7. AloneInv'
  BY <1>2, <1>6 DEF ApartInv, AloneInv
<1>8. SessionTypedApart' /\ FilesInv' /\ RawInv'
  BY <1>2, ApartStill DEF ApartInv, RawInv
<1>9. \A u \in Folk : pc'[u] \notin {"join", "finish"}
  BY <1>2, <1>6 DEF InClose, Moves
<1>10. CloseInv'
  BY <1>2, <1>3, <1>4, <1>9 DEF ApartInv, CloseInv
<1>11. OpenInv'
  BY <1>1, <1>2 DEF OpenInv, Moves, Folk
<1> QED
  BY <1>5, <1>7, <1>8, <1>10, <1>11 DEF ApartInv

LEMMA ApartFiles ==
    ASSUME ApartInv, NEW t \in Folk, Apart!CloseFiles(t) PROVE ApartInv'
<1>1. /\ RecorderTyped /\ SessionTypedApart /\ FilesInv /\ RawInv /\ OpenInv /\ "finish" \in Steps
  BY DEF ApartInv, Steps
<1>2. /\ pc[t] = "files" /\ raw' = 0 /\ Moves(t, "finish")
      /\ UNCHANGED <<opening, target, work, opens, accepted, written, queue, flags, worker>>
  BY <1>1, ApartMoves DEF Apart!CloseFiles, Apart!history
<1>3. raw # 0 /\ work[raw].pc = "gone" /\ \A f \in Apart!Files : ~Lives(f)
  BY <1>1, <1>2 DEF ApartInv, CloseInv, FilesInv, Lives
<1>4. RecorderTyped'
  BY <1>1, <1>2 DEF RecorderTyped, Moves
<1>5. InClose(t) /\ \A u \in Folk : InClose(u)' => u = t
  BY <1>2 DEF ApartInv, AloneInv, InClose, Moves
<1>6. AloneInv'
  BY <1>2, <1>5 DEF ApartInv, AloneInv
<1>7. \A u \in Folk : pc'[u] \notin {"join", "files"} /\ pc'[t] = "finish"
  BY <1>2, <1>5 DEF InClose, Moves
<1>8. CloseInv'
  BY <1>2, <1>7 DEF ApartInv, CloseInv
<1>9. OpenInv'
  <2>1. pc'[Opener] # pc[Opener] => t = Opener \/ pc'[Opener] = "enter"
    BY <1>2 DEF Moves, Folk
  <2>2. ~(opening /\ t # Opener)
    BY <1>1, <1>2 DEF OpenInv, Folk
  <2>3. pc'[Opener] \notin {"fopen", "reset", "create", "mark"}
    BY <1>1, <1>2, <2>1, <2>2 DEF OpenInv, Moves
  <2>4. opening => pc'[Opener] # "idle" /\ \A u \in Closers : pc'[u] = "idle"
    BY <1>1, <1>2, <2>2 DEF OpenInv, Moves, Folk
  <2>5. opening => opens < ApartOpens
    BY <1>1, <1>2, <2>2 DEF OpenInv
  <2> QED
    BY <1>2, <2>3, <2>4, <2>5 DEF OpenInv
\* The open file's worker is gone: nothing is left in the queue.
<1>10. written[raw] = accepted[raw] /\ queue = <<>>
  <2>1. raw \in Apart!Files
    BY <1>1, <1>3, RawIsAFile
  <2>2. queue = <<>> /\ InHand(raw) = 0 /\ accepted[raw] = written[raw] + Len(queue) + InHand(raw)
    BY <1>1, <1>3 DEF RawInv, InHand
  <2> QED
    BY <1>1, <2>1, <2>2 DEF SessionTypedApart
<1>11. SessionTypedApart' /\ RawInv'
  BY <1>1, <1>2, <1>10 DEF SessionTypedApart, RawInv
<1>12. FilesInv'
  BY <1>1, <1>2, <1>3, <1>10 DEF FilesInv, Lives
<1> QED
  BY <1>4, <1>6, <1>8, <1>9, <1>11, <1>12 DEF ApartInv

LEMMA ApartFinish ==
    ASSUME ApartInv, NEW t \in Folk, Apart!Finish(t) PROVE ApartInv'
<1>1. RecorderTyped /\ SessionTypedApart /\ OpenInv /\ {"idle", "fopen"} \subseteq Steps
  BY DEF ApartInv, Steps
<1>2. Apart!Returned(t) = IF t = Opener /\ opening THEN "fopen" ELSE "idle"
  BY DEF Apart!Returned
<1>3. /\ pc[t] = "finish" /\ Moves(t, Apart!Returned(t)) /\ WorkSame
      /\ flags' = [flags EXCEPT !["started"] = FALSE, !["closing"] = FALSE]
      /\ UNCHANGED <<opening, target, opens, accepted, written, queue, worker, raw>>
  BY <1>1, <1>2, ApartMoves DEF Apart!Finish, Apart!history
<1>4. /\ flags' \in FlagType /\ ~flags'["started"]
      /\ \A x \in {"stopping", "accepting"} : flags'[x] = flags[x]
  BY <1>1, <1>3 DEF RecorderTyped, FlagType
<1>5. RecorderTyped'
  BY <1>1, <1>3, <1>4 DEF RecorderTyped, Moves
<1>6. \A u \in Folk : ~InClose(u)'
  BY <1>2, <1>3 DEF ApartInv, AloneInv, InClose, Moves
<1>7. raw = 0
  BY <1>3 DEF ApartInv, CloseInv
<1>8. AloneInv' /\ CloseInv'
  BY <1>3, <1>4, <1>6, <1>7 DEF AloneInv, CloseInv, InClose
<1>9. SessionTypedApart' /\ FilesInv' /\ RawInv'
  BY <1>3, <1>4, ApartStill DEF ApartInv, RawInv
<1>10. OpenInv'
  <2>1. pc'[Opener] \notin {"reset", "create", "mark"}
    BY <1>1, <1>2, <1>3 DEF OpenInv, Moves, Folk
  <2>2. pc'[Opener] = "fopen" => opening
    BY <1>1, <1>2, <1>3 DEF OpenInv, Moves, Folk
  <2>3. opening => pc'[Opener] # "idle" /\ \A u \in Closers : pc'[u] = "idle"
    BY <1>1, <1>2, <1>3 DEF OpenInv, Moves, Folk
  <2>4. opening => opens < ApartOpens
    BY <1>1, <1>3 DEF OpenInv, Folk
  <2> QED
    BY <1>3, <1>4, <1>7, <2>1, <2>2, <2>3, <2>4 DEF OpenInv
<1> QED
  BY <1>5, <1>8, <1>9, <1>10 DEF ApartInv

LEMMA ApartBegins == ASSUME ApartInv, Apart!Open PROVE ApartInv'
<1>1. RecorderTyped /\ SessionTypedApart /\ OpenInv /\ Opener \in Folk /\ "enter" \in Steps
  BY DEF ApartInv, Folk, Steps
<1>2. /\ Moves(Opener, "enter") /\ pc[Opener] = "idle" /\ opening' = TRUE /\ WorkSame
      /\ \A u \in Closers : pc[u] = "idle"
      /\ UNCHANGED <<target, opens, accepted, written, queue, flags, worker, raw>>
  BY <1>1, ApartMoves DEF Apart!Open, Apart!history, Apart!fields
<1>3. RecorderTyped'
  BY <1>1, <1>2 DEF RecorderTyped, Moves
<1>4. \A u \in Folk : pc'[u] = pc[u] \/ ApartFrees(u)
  BY <1>2 DEF Moves, ApartFrees
<1>5. OpenInv'
  <2>1. pc'[Opener] = "enter" /\ Opener \notin Closers /\ opens < ApartOpens
    BY <1>2, PartsAssumption DEF Moves, Apart!RecorderAssumption, Apart!Open
  <2>2. \A u \in Closers : pc'[u] = "idle"
    BY <1>2, <2>1 DEF Moves, Folk
  <2> QED
    BY <1>2, <2>1, <2>2 DEF OpenInv
<1> QED
  BY <1>2, <1>3, <1>4, <1>5, ApartFrame

\* While the opener opens, nobody is in the close and no worker lives.
LEMMA OpenAlone ==
    ASSUME ApartInv, pc[Opener] \in {"fopen", "reset", "create", "mark"}
    PROVE  /\ opening /\ ~flags["started"]
           /\ \A u \in Closers : pc[u] = "idle"
           /\ \A u \in Folk : ~InClose(u)
BY DEF ApartInv, OpenInv, InClose, Folk

\* What a step of the open leaves: everybody but the opener is where he was.
LEMMA ApartOpener ==
    ASSUME ApartInv, NEW l \in {"idle", "reset", "create", "mark"}, Moves(Opener, l),
           pc[Opener] \in {"fopen", "reset", "create", "mark"},
           RecorderTyped', SessionTypedApart', FilesInv', RawInv',
           opening' = (l # "idle"),
           l # "idle" => ~flags'["started"] /\ raw' = opens' /\ raw' # 0,
           l \in {"reset", "create"} => work'[opens'].pc = "none" /\ queue' = <<>>,
           l = "mark" => worker' = opens',
           l = "idle" => (flags'["started"] <=> raw' # 0) /\ (raw' # 0 => worker' = opens')
    PROVE  ApartInv'
<1>1. \A u \in Closers : pc[u] = "idle"
  BY OpenAlone
<1>2. \A u \in Closers \ {Opener} : pc'[u] = "idle"
  BY <1>1 DEF Moves, Folk
<1>3. Opener \notin Closers /\ pc'[Opener] = l
  BY PartsAssumption DEF Apart!RecorderAssumption, Moves
<1>4. \A u \in Folk : ~InClose(u)' /\ pc'[u] \notin {"join", "files", "finish"}
  BY <1>2, <1>3 DEF InClose, Folk
<1>5. AloneInv'
  BY <1>4 DEF AloneInv
<1>6. CloseInv'
  BY <1>3, <1>4 DEF CloseInv
<1>7. OpenInv'
  BY <1>2, <1>3 DEF OpenInv
<1> QED
  BY <1>5, <1>6, <1>7 DEF ApartInv

LEMMA ApartOpening == ASSUME ApartInv, Apart!Opening PROVE ApartInv'
<1>1. /\ RecorderTyped /\ SessionTypedApart /\ FilesInv /\ RawInv /\ OpenInv /\ Opener \in Folk
      /\ {"idle", "reset", "create", "mark"} \subseteq Steps
  BY DEF ApartInv, Folk, Steps
<1>2. pc[Opener] \in {"fopen", "reset", "create", "mark"}
  BY DEF Apart!Opening, Apart!OpenFile, Apart!Reset, Apart!CreateWorker, Apart!Mark, Apart!OpenFails
<1>3. opening /\ ~flags["started"]
  BY <1>2, OpenAlone
<1>4. \A f \in Apart!Files : Lives(f) => f = raw
  BY <1>1 DEF FilesInv
<1>5. CASE Apart!OpenFile
  <2>1. /\ pc[Opener] = "fopen" /\ Moves(Opener, "reset") /\ raw' = opens + 1 /\ opens' = opens + 1
        /\ UNCHANGED <<opening, target, work, joined, accepted, written, queue, flags, worker>>
    BY <1>1, <1>5, ApartMoves DEF Apart!OpenFile
  <2>2. RecorderTyped'
    BY <1>1, <2>1 DEF RecorderTyped, Moves
  <2>3. raw = 0 /\ queue = <<>> /\ opens \in Nat /\ opens < ApartOpens
    BY <1>1, <1>3, <2>1 DEF OpenInv, RawInv, RecorderTyped
  <2>4. opens + 1 \in Apart!Files /\ raw' = opens'
    BY <2>1, <2>3, PartsAssumption DEF Apart!Files, Apart!RecorderAssumption
  <2>5. accepted[opens + 1] = 0 /\ written[opens + 1] = 0 /\ work[opens + 1].pc = "none"
    BY <1>1, <2>3, <2>4 DEF FilesInv
  <2>6. SessionTypedApart'
    BY <1>1, <2>1, <2>3, PartsAssumption DEF SessionTypedApart, Apart!RecorderAssumption
  <2>7. FilesInv'
    <3>1. \A f \in Apart!Files : f \in Nat /\ f # 0
      BY PartsAssumption DEF Apart!Files, Apart!RecorderAssumption
    <3> QED
      BY <1>1, <2>1, <2>3, <3>1 DEF FilesInv, Lives
  <2>8. RawInv'
    BY <1>1, <2>1, <2>3, <2>5 DEF RawInv, InHand
  <2>9. /\ opening' /\ ~flags'["started"] /\ raw' = opens' /\ raw' # 0
        /\ work'[opens'].pc = "none" /\ queue' = <<>>
    BY <1>3, <2>1, <2>3, <2>5
  <2> QED
    BY <2>1, <2>2, <2>6, <2>7, <2>8, <2>9, ApartOpener
<1>6. CASE Apart!Reset
  <2>1. /\ pc[Opener] = "reset" /\ Moves(Opener, "create") /\ queue' = <<>>
        /\ flags' = [flags EXCEPT !["stopping"] = FALSE, !["accepting"] = TRUE]
        /\ UNCHANGED <<opening, target, work, opens, accepted, written, worker, raw>>
    BY <1>1, <1>6, ApartMoves DEF Apart!Reset, Apart!history
  <2>2. flags' \in FlagType /\ flags'["started"] = flags["started"] /\ ~flags'["stopping"]
    BY <1>1, <2>1 DEF RecorderTyped, FlagType
  <2>3. RecorderTyped'
    BY <1>1, <2>1, <2>2 DEF RecorderTyped, Moves
  <2>4. raw = opens /\ raw # 0 /\ work[raw].pc = "none" /\ queue = <<>>
    BY <1>1, <2>1 DEF OpenInv
  <2>5. UNCHANGED queue
    BY <2>1, <2>4
  <2>6. SessionTypedApart' /\ FilesInv'
    BY <1>1, <2>1, <2>5 DEF SessionTypedApart, FilesInv, Lives
  <2>7. RawInv'
    BY <1>1, <2>1, <2>2, <2>4, <2>5 DEF RawInv, InHand
  <2> QED
    BY <1>3, <2>1, <2>2, <2>3, <2>4, <2>6, <2>7, ApartOpener
<1>7. CASE Apart!CreateWorker
  <2>1. /\ pc[Opener] = "create" /\ Moves(Opener, "mark") /\ worker' = opens
        /\ work' = [work EXCEPT ![opens].pc = "run"]
        /\ UNCHANGED <<opening, target, opens, accepted, written, queue, flags, raw>>
    BY <1>1, <1>7, ApartMoves DEF Apart!CreateWorker, Apart!history
  <2>2. RecorderTyped'
    BY <1>1, <2>1 DEF RecorderTyped, Moves
  <2>3. raw = opens /\ raw # 0 /\ work[raw].pc = "none" /\ raw \in Apart!Files
        /\ opens \in Nat
    BY <1>1, <2>1, RawIsAFile DEF OpenInv, RecorderTyped
  <2>4. /\ work' \in [Apart!Files -> [pc : {"none", "run", "sleep", "write", "gone"}, frame : Nat]]
        /\ work'[raw].pc = "run" /\ \A f \in Apart!Files \ {raw} : work'[f] = work[f]
    BY <1>1, <2>1, <2>3 DEF SessionTypedApart
  <2>5. SessionTypedApart'
    BY <1>1, <2>1, <2>4 DEF SessionTypedApart
  <2>6. FilesInv'
    BY <1>1, <2>1, <2>3, <2>4 DEF FilesInv, Lives
  <2>7. RawInv'
    BY <1>1, <2>1, <2>3, <2>4 DEF RawInv, InHand
  <2> QED
    BY <1>3, <2>1, <2>2, <2>3, <2>5, <2>6, <2>7, ApartOpener
<1>8. CASE Apart!Mark
  <2>1. /\ pc[Opener] = "mark" /\ Moves(Opener, "idle") /\ opening' = FALSE /\ WorkSame
        /\ flags' = [flags EXCEPT !["started"] = TRUE]
        /\ UNCHANGED <<target, opens, accepted, written, queue, worker, raw>>
    BY <1>1, <1>8, ApartMoves DEF Apart!Mark, Apart!history
  <2>2. /\ flags' \in FlagType /\ flags'["started"]
        /\ \A x \in {"stopping", "accepting"} : flags'[x] = flags[x]
    BY <1>1, <2>1 DEF RecorderTyped, FlagType
  <2>3. RecorderTyped'
    BY <1>1, <2>1, <2>2 DEF RecorderTyped, Moves
  <2>4. raw = opens /\ raw # 0 /\ worker = opens
    BY <1>1, <2>1 DEF OpenInv
  <2>5. SessionTypedApart' /\ FilesInv' /\ RawInv'
    BY <1>1, <2>1, <2>2, ApartStill DEF RawInv
  <2> QED
    BY <2>1, <2>2, <2>3, <2>4, <2>5, ApartOpener
<1>9. CASE Apart!OpenFails
  <2>1. /\ Moves(Opener, "idle") /\ opening' = FALSE
        /\ \/ pc[Opener] = "fopen" /\ UNCHANGED <<raw, flags>>
           \/ /\ pc[Opener] = "create" /\ raw' = 0
              /\ flags' = [flags EXCEPT !["accepting"] = FALSE]
        /\ UNCHANGED <<target, work, opens, accepted, written, queue, worker>>
    BY <1>1, <1>9, ApartMoves DEF Apart!OpenFails, Apart!history
  <2>2. flags' \in FlagType /\ ~flags'["started"] /\ (flags'["stopping"] => ~flags'["accepting"])
    BY <1>1, <1>3, <2>1 DEF RecorderTyped, FlagType, RawInv
  <2>3. raw' = 0
    BY <1>1, <2>1 DEF OpenInv
  <2>4. RecorderTyped'
    BY <1>1, <2>1, <2>2, <2>3 DEF RecorderTyped, Moves
  <2>5. queue = <<>> /\ (raw # 0 => work[raw].pc = "none" /\ raw = opens)
    BY <1>1, <2>1 DEF OpenInv, RawInv
  <2>6. raw # 0 => accepted[raw] = written[raw]
    <3> SUFFICES ASSUME raw # 0 PROVE accepted[raw] = written[raw]
      OBVIOUS
    <3>1. raw \in Apart!Files
      BY <1>1, RawIsAFile
    <3>2. accepted[raw] = written[raw] + Len(queue) + InHand(raw) /\ InHand(raw) = 0 /\ Len(queue) = 0
      BY <1>1, <2>5 DEF RawInv, InHand
    <3> QED
      BY <1>1, <3>1, <3>2 DEF SessionTypedApart
  <2>7. \A f \in Apart!Files : ~Lives(f)
    <3>1. 0 \notin Apart!Files
      BY PartsAssumption DEF Apart!Files, Apart!RecorderAssumption
    <3> QED
      BY <1>4, <2>5, <3>1 DEF Lives
  <2>8. SessionTypedApart' /\ RawInv'
    BY <1>1, <2>1, <2>2, <2>3, <2>5 DEF SessionTypedApart, RawInv
  <2>9. FilesInv'
    BY <1>1, <2>1, <2>3, <2>6, <2>7 DEF FilesInv, Lives
  <2> QED
    BY <2>1, <2>2, <2>3, <2>4, <2>8, <2>9, <1>2, ApartOpener
<1> QED
  BY <1>5, <1>6, <1>7, <1>8, <1>9 DEF Apart!Opening

LEMMA ApartSubmit == ASSUME ApartInv, Apart!Submit PROVE ApartInv'
<1>1. /\ RecorderTyped /\ SessionTypedApart /\ FilesInv /\ RawInv /\ OpenInv
      /\ Opener \in Folk /\ "idle" \in Steps
  BY DEF ApartInv, Folk, Steps
<1>2. /\ flags["accepting"] /\ raw # 0 /\ ~opening /\ Wakes /\ WorkSame
      /\ queue' = Append(queue, raw) /\ accepted' = [accepted EXCEPT ![raw] = @ + 1]
      /\ UNCHANGED <<opening, target, opens, written, flags, worker, raw>>
  BY <1>1, ApartMoves DEF Apart!Submit
<1>3. raw \in Apart!Files /\ raw = opens /\ raw \in Nat
  BY <1>1, <1>2, RawIsAFile DEF RecorderTyped
<1>4. RecorderTyped'
  BY <1>1, <1>2 DEF RecorderTyped, Wakes
<1>5. /\ queue' \in Seq(Nat) /\ Len(queue') = Len(queue) + 1
      /\ \A i \in 1..Len(queue') : queue'[i] = raw
  <2>1. queue \in Seq(Nat) /\ \A i \in 1..Len(queue) : queue[i] = raw
    BY <1>1 DEF SessionTypedApart, RawInv
  <2> QED
    BY <1>2, <1>3, <2>1
<1>6. /\ accepted' \in [Apart!Files -> Nat] /\ accepted'[raw] = accepted[raw] + 1
      /\ \A f \in Apart!Files \ {raw} : accepted'[f] = accepted[f]
  BY <1>1, <1>2, <1>3 DEF SessionTypedApart
<1>7. SessionTypedApart'
  BY <1>1, <1>2, <1>5, <1>6 DEF SessionTypedApart, WorkSame
<1>8. FilesInv'
  BY <1>1, <1>2, <1>3, <1>6 DEF FilesInv, WorkSame
<1>9. RawInv'
  <2>1. work[raw].pc # "gone" /\ work'[raw].pc # "gone" /\ InHand(raw)' = InHand(raw)
    BY <1>1, <1>2, <1>3 DEF RawInv, WorkSame, InHand
  <2>2. accepted[raw] = written[raw] + Len(queue) + InHand(raw) /\ InHand(raw) \in Nat
        /\ accepted[raw] \in Nat /\ written[raw] \in Nat /\ Len(queue) \in Nat
    BY <1>1, <1>2, <1>3 DEF RawInv, SessionTypedApart, InHand
  <2> DEFINE a == accepted[raw]
             n == Len(queue)
             k == InHand(raw)
             w == written[raw]
  <2>3. a + 1 = w + (n + 1) + k
    <3> HIDE DEF a, n, k, w
    <3> QED
      BY <2>2 DEF a, n, k, w
  <2>4. accepted'[raw] = written[raw] + Len(queue') + InHand(raw)'
    BY <1>5, <1>6, <2>1, <2>3
  <2> QED
    BY <1>1, <1>2, <1>5, <2>1, <2>4 DEF RawInv
<1>10. \A u \in Folk, l \in {"join", "files", "finish"} : pc'[u] = l <=> pc[u] = l
  BY <1>2 DEF Wakes
<1>11. AloneInv'
  BY <1>2, <1>10 DEF ApartInv, AloneInv, InClose
<1>12. \A l \in {"fopen", "reset", "create", "mark"} : pc'[Opener] = l <=> pc[Opener] = l
  BY <1>1, <1>2 DEF Wakes
<1>13. CloseInv'
  BY <1>2, <1>3, <1>10, <1>12 DEF ApartInv, CloseInv, WorkSame
<1>14. OpenInv'
  BY <1>1, <1>2, <1>12 DEF OpenInv
<1> QED
  BY <1>4, <1>7, <1>8, <1>9, <1>11, <1>13, <1>14 DEF ApartInv

\* Steps of a worker that lives: the threads stay where they are.
LEMMA ApartWorker ==
    ASSUME ApartInv, SessionTypedApart', FilesInv', RawInv',
           UNCHANGED <<pc, opening, target, opens, flags, worker, raw>>,
           pc[Opener] \in {"reset", "create"} \/ (\E t \in Folk : pc[t] = "files") =>
              UNCHANGED <<work, queue>>
    PROVE  ApartInv'
<1>1. RecorderTyped' /\ AloneInv'
  BY DEF ApartInv, RecorderTyped, AloneInv, InClose
<1>2. CloseInv'
  BY DEF ApartInv, CloseInv
<1>3. OpenInv'
  BY DEF ApartInv, OpenInv
<1> QED
  BY <1>1, <1>2, <1>3 DEF ApartInv

LEMMA ApartWorks ==
    ASSUME ApartInv, NEW f \in Apart!Files, Apart!Worker(f) PROVE ApartInv'
<1>1. RecorderTyped /\ SessionTypedApart /\ FilesInv /\ RawInv /\ OpenInv
  BY DEF ApartInv
<1> DEFINE W == [pc : {"none", "run", "sleep", "write", "gone"}, frame : Nat]
<1>2. work \in [Apart!Files -> W] /\ queue \in Seq(Nat) /\ written \in [Apart!Files -> Nat]
      /\ accepted \in [Apart!Files -> Nat]
  BY <1>1 DEF SessionTypedApart
<1>3. /\ Lives(f) /\ f = raw /\ raw # 0 /\ raw = opens
      /\ UNCHANGED <<pc, opening, target, opens, accepted, flags, worker, raw>>
  <2>1. /\ Lives(f) /\ UNCHANGED <<pc, opening, target, opens, accepted, flags, worker, raw>>
    BY DEF Apart!Worker, Apart!Take, Apart!Write, Apart!history, Apart!fields, Lives
  <2>2. f = raw /\ raw # 0
    BY <1>1, <2>1, PartsAssumption DEF FilesInv, Apart!Files, Apart!RecorderAssumption
  <2> QED
    BY <1>1, <2>1, <2>2, RawIsAFile
<1>4. ~(pc[Opener] \in {"reset", "create"} \/ \E t \in Folk : pc[t] = "files")
  BY <1>1, <1>3 DEF ApartInv, CloseInv, OpenInv, Lives
<1>5. /\ accepted[f] = written[f] + Len(queue) + InHand(f)
      /\ \A i \in 1..Len(queue) : queue[i] = f
      /\ work[f].pc = "write" => work[f].frame = f
  BY <1>1, <1>3 DEF RawInv, FilesInv
<1>6. \A g \in Apart!Files \ {f} : ~Lives(g)
  BY <1>1, <1>3 DEF FilesInv
<1>7. ASSUME NEW w \in W, work' = [work EXCEPT ![f] = w],
             w.pc \in {"run", "sleep", "write", "gone"}, w.pc = "write" => w.frame = f,
             w.pc = "gone" => queue' = <<>> /\ flags["stopping"],
             queue' \in Seq(Nat), \A i \in 1..Len(queue') : queue'[i] = f,
             written' \in [Apart!Files -> Nat],
             \A g \in Apart!Files \ {f} : written'[g] = written[g],
             accepted[f] = written'[f] + Len(queue') + (IF w.pc = "write" THEN 1 ELSE 0)
      PROVE  ApartInv'
  <2>1. /\ work' \in [Apart!Files -> W] /\ work'[f] = w
        /\ \A g \in Apart!Files \ {f} : work'[g] = work[g]
    BY <1>2, <1>7
  <2>2. SessionTypedApart'
    BY <1>1, <1>3, <1>7, <2>1 DEF SessionTypedApart
  <2>3. opens \in Nat
    BY <1>1 DEF RecorderTyped
  <2>4. FilesInv'
    BY <1>1, <1>3, <1>7, <2>1, <2>3 DEF FilesInv, Lives
  <2>5. RawInv'
    BY <1>1, <1>3, <1>7, <2>1 DEF RawInv, InHand
  <2> QED
    BY <1>3, <1>4, <2>2, <2>4, <2>5, ApartWorker
<1>8. CASE Apart!Take(f)
  <2>1. work[f].pc = "run" /\ InHand(f) = 0 /\ written' = written
    BY <1>8 DEF Apart!Take, Apart!history, InHand
  <2>2. CASE queue = <<>>
    <3> DEFINE w == [work[f] EXCEPT !.pc = IF flags["stopping"] THEN "gone" ELSE "sleep"]
    <3>1. work' = [work EXCEPT ![f] = w] /\ queue' = queue
      BY <1>2, <1>8, <2>2 DEF Apart!Take
    <3>2. w \in W /\ w.pc = IF flags["stopping"] THEN "gone" ELSE "sleep"
      BY <1>2
    <3> HIDE DEF w
    <3> QED
      BY <1>2, <1>5, <1>7, <2>1, <2>2, <3>1, <3>2
  <2>3. CASE queue # <<>>
    <3> DEFINE w == [pc |-> "write", frame |-> Head(queue)]
    <3>1. work' = [work EXCEPT ![f] = w] /\ queue' = Tail(queue)
      BY <1>8, <2>3 DEF Apart!Take
    <3>2. /\ Head(queue) = f /\ Tail(queue) \in Seq(Nat) /\ Len(Tail(queue)) = Len(queue) - 1
          /\ Len(queue) \in Nat /\ \A i \in 1..Len(Tail(queue)) : Tail(queue)[i] = f
      BY <1>2, <1>5, <2>3
    <3>3. f \in Nat
      BY DEF Apart!Files
    <3>4. w \in W /\ w.pc = "write" /\ w.frame = f
      BY <3>2, <3>3
    <3>5. accepted[f] = written[f] + (Len(queue) - 1) + 1
      BY <1>2, <1>5, <2>1, <3>2
    <3> HIDE DEF w
    <3> QED
      BY <1>2, <1>7, <2>1, <3>1, <3>2, <3>4, <3>5
  <2> QED
    BY <2>2, <2>3
<1>9. CASE Apart!Write(f)
  <2> DEFINE w == [pc |-> "run", frame |-> 0]
  <2>1. /\ work[f].pc = "write" /\ work[f].frame = f /\ queue' = queue
        /\ work' = [work EXCEPT ![f] = w] /\ written' = [written EXCEPT ![f] = @ + 1]
    BY <1>3, <1>5, <1>9 DEF Apart!Write, Apart!fields
  <2>2. w \in W /\ w.pc = "run"
    OBVIOUS
  <2>3. /\ written' \in [Apart!Files -> Nat] /\ written'[f] = written[f] + 1
        /\ \A g \in Apart!Files \ {f} : written'[g] = written[g]
    BY <1>2, <2>1
  <2>4. accepted[f] = (written[f] + 1) + Len(queue) + 0
    <3>1. InHand(f) = 1 /\ Len(queue) \in Nat /\ written[f] \in Nat
      BY <1>2, <2>1 DEF InHand
    <3> QED
      BY <1>5, <3>1
  <2> HIDE DEF w
  <2> QED
    BY <1>2, <1>5, <1>7, <2>1, <2>2, <2>3, <2>4
<1> QED
  BY <1>8, <1>9 DEF Apart!Worker

LEMMA ApartStep == ApartInv /\ Apart!Next => ApartInv'
<1> SUFFICES ASSUME ApartInv, Apart!Next PROVE ApartInv'
  OBVIOUS
<1>1. ASSUME NEW t \in Folk, Apart!Close(t) \/ Apart!Closing(t) PROVE ApartInv'
  BY <1>1, ApartClosing, ApartJoins, ApartFiles, ApartFinish DEF Apart!Closing
<1>2. CASE Apart!Open \/ Apart!Opening
  BY <1>2, ApartBegins, ApartOpening
<1>3. CASE Apart!Submit \/ \E f \in Apart!Files : Apart!Worker(f)
  BY <1>3, ApartSubmit, ApartWorks
<1> QED
  BY <1>1, <1>2, <1>3 DEF Apart!Next, Apart!Threads, Folk

LEMMA ApartInit == Apart!Init => ApartInv
<1> SUFFICES ASSUME Apart!Init PROVE ApartInv
  OBVIOUS
<1>1. /\ pc \in [Folk -> Steps] /\ \A t \in Folk : pc[t] = "idle"
      /\ target \in [Folk -> Nat] /\ flags \in FlagType /\ ~flags["started"] /\ ~flags["stopping"]
      /\ opens = 0 /\ worker = 0 /\ raw = 0 /\ opening = FALSE /\ Opener \in Folk
      /\ queue = <<>>
  BY DEF Apart!Init, Apart!Threads, Folk, Steps, FlagType
<1>2. /\ work \in [Apart!Files -> [pc : {"none", "run", "sleep", "write", "gone"}, frame : Nat]]
      /\ accepted \in [Apart!Files -> Nat] /\ written \in [Apart!Files -> Nat]
      /\ \A f \in Apart!Files : work[f].pc = "none" /\ accepted[f] = 0 /\ written[f] = 0
  BY DEF Apart!Init
<1>3. 0 \in Nat /\ FALSE \in BOOLEAN /\ queue \in Seq(Nat) /\ Len(queue) = 0
      /\ 0 \in 0..ApartOpens
  BY <1>1, PartsAssumption DEF Apart!RecorderAssumption
<1>4. RecorderTyped
  BY <1>1, <1>3 DEF RecorderTyped
<1>5. SessionTypedApart
  BY <1>1, <1>2, <1>3 DEF SessionTypedApart
<1>6. FilesInv /\ RawInv
  BY <1>1, <1>2, <1>3 DEF FilesInv, RawInv, Lives
<1>7. AloneInv /\ CloseInv /\ OpenInv
  BY <1>1 DEF AloneInv, InClose, CloseInv, OpenInv
<1> QED
  BY <1>4, <1>5, <1>6, <1>7 DEF ApartInv

LEMMA ApartNothingLost == ApartInv => Apart!NothingLost
BY DEF ApartInv, FilesInv, Apart!NothingLost

\* A close that has set closing is alone until it is back, a worker that is
\* marked as started waits to be joined, and a frame accepted for the open file
\* is in it, in the queue or in the worker's hands.
THEOREM RecorderInductive == MediaSpec => []RecorderInv
<1>1. MediaInit => RecorderInv
  BY OverlapInit, ApartInit DEF MediaInit, RecorderInv
<1>2. RecorderInv /\ [MediaNext]_<<part, liveVars, clockVars, fileVars, containerVars, recorderVars>>
          => RecorderInv'
  <2> SUFFICES ASSUME RecorderInv,
                      [MediaNext]_<<part, liveVars, clockVars, fileVars, containerVars, recorderVars>>
               PROVE  RecorderInv'
    OBVIOUS
  <2>1. CASE UNCHANGED <<part, recorderVars>>
    <3>1. part' = part
      BY <2>1
    <3>2. OverlapInv => OverlapInv'
      BY <2>1 DEF recorderVars, OverlapInv, RecorderTyped, AloneInv, InClose, JoinInv, OpenerInv
    <3>3. ApartInv => ApartInv'
      BY <2>1 DEF recorderVars, ApartInv, RecorderTyped, SessionTypedApart, FilesInv, RawInv, AloneInv,
                  InClose, CloseInv, OpenInv, Lives, InHand
    <3> QED
      BY <3>1, <3>2, <3>3 DEF RecorderInv
  <2>2. CASE part = "recorder" /\ UNCHANGED part /\ Apart!Next
    BY <2>2, ApartStep DEF RecorderInv
  <2>3. CASE part = "overlap" /\ UNCHANGED part /\ Overlapping!Next
    BY <2>3, OverlapStep DEF RecorderInv
  <2> QED
    BY <2>1, <2>2, <2>3 DEF MediaNext
<1> QED
  BY <1>1, <1>2, PTL DEF MediaSpec

\* Whatever the recorder accepted is in the file when it has been closed, and no
\* worker is joined twice, for any number of closing threads, files and slots.
THEOREM RecorderIsSoundAlways == MediaSpec => []RecorderIsSound
<1>1. RecorderInv => RecorderIsSound
  BY OverlapJoinedOnce, ApartNothingLost DEF RecorderInv, RecorderIsSound
<1> QED
  BY <1>1, RecorderInductive, PTL

-----------------------------------------------------------------------------
(* The clock.  The two time stamps never drift apart by more than a frame, *)
(* so that a jump of the video, which puts the audio where the new frame   *)
(* sounds, leaves the two reading positions as near as the time stamps.    *)

\* A set of naturals has a least element: the numbers of S below a member are
\* finitely many, and the fewest are none.
LEMMA LeastMember ==
    ASSUME NEW S \in SUBSET Nat, IsFiniteSet(S), S # {}
    PROVE  Clock!Least(S) \in S
<1> DEFINE Below(x) == {y \in S : y < x}
           T == {Below(x) : x \in S}
<1>1. IsWellFoundedOn(StrictSubsetOrdering(S), FiniteSubsetsOf(S))
  BY FS_StrictSubsetOrderingWellFounded
<1>2. T \subseteq FiniteSubsetsOf(S) /\ T # {}
  <2>1. FiniteSubsetsOf(S) = SUBSET S
    BY FS_FiniteSubsetsOfFinite
  <2>2. T \subseteq SUBSET S /\ T # {}
    OBVIOUS
  <2> QED
    BY <2>1, <2>2
<1>3. PICK B \in T : \A A \in T : ~(<<A, B>> \in StrictSubsetOrdering(S))
  BY <1>1, <1>2, WFMin
<1>4. PICK x \in S : B = Below(x)
  BY <1>3
<1>5. \A y \in S : x <= y
  <2> SUFFICES ASSUME NEW y \in S, y < x PROVE FALSE
    OBVIOUS
  <2>1. Below(y) \in SUBSET S /\ Below(x) \in SUBSET S
    OBVIOUS
  <2>2. Below(y) \subseteq Below(x) /\ Below(y) # Below(x)
    <3>1. x \in Nat /\ y \in Nat /\ \A z \in S : z \in Nat
      OBVIOUS
    <3>2. \A z \in Below(y) : z \in Below(x)
      BY <3>1
    <3>3. y \in Below(x) /\ y \notin Below(y)
      BY <3>1
    <3> QED
      BY <3>2, <3>3
  <2>3. <<Below(y), Below(x)>> \in StrictSubsetOrdering(S)
    BY <2>1, <2>2 DEF StrictSubsetOrdering
  <2> QED
    BY <1>3, <1>4, <2>3
<1> QED
  BY <1>5 DEF Clock!Least

ClockInv ==
    /\ audioPts \in Int /\ videoPts \in Int
    /\ audioIndex \in Int /\ videoIndex \in Int /\ keyForced \in BOOLEAN
    /\ audioPts - videoPts <= 3

LEMMA FramesAreNumbers ==
    /\ Loops \in Nat \ {0} /\ KeyFrames # {}
    /\ KeyFrames \in SUBSET Nat /\ IsFiniteSet(KeyFrames)
<1>1. /\ Loops \in Nat \ {0} /\ KeyFrames # {}
      /\ KeyFrames \subseteq 0..3 * Loops - 1
  BY PartsAssumption DEF Clock!TimelineAssumption
<1>2. IsFiniteSet(0..3 * Loops - 1)
  BY <1>1, FS_Interval
<1>3. KeyFrames \in SUBSET Nat
  BY <1>1
<1> QED
  BY <1>1, <1>2, <1>3, FS_Subset

LEMMA NextFrameIsNumber ==
    ASSUME videoIndex \in Int, NEW force \in BOOLEAN
    PROVE  Clock!NextFrame(force) \in Int /\ (~force => Clock!NextFrame(force) \in {0, videoIndex})
<1> DEFINE i == Clock!Wrap(videoIndex, Clock!videoCount)
           later == {k \in KeyFrames : k >= i}
           from == IF later = {} THEN KeyFrames ELSE later
<1>1. i \in {0, videoIndex} /\ i \in Int
  BY DEF Clock!Wrap
<1>2. /\ from \in SUBSET Nat /\ from # {} /\ IsFiniteSet(from)
  BY FramesAreNumbers, FS_Subset
<1>3. Clock!Least(from) \in Int
  BY <1>2, LeastMember
<1> QED
  BY <1>1, <1>3 DEF Clock!NextFrame

LEMMA ClockStarts == Clock!Init => ClockInv
<1> DEFINE least == Clock!Least(KeyFrames)
<1>1. least \in KeyFrames /\ KeyFrames \in SUBSET Nat
  BY FramesAreNumbers, LeastMember
<1> HIDE DEF least
<1>2. least \in Int
  BY <1>1
<1> USE DEF least
<1> QED
  BY <1>2 DEF Clock!Init, ClockInv, Clock!AlignedAudio, Clock!VideoTime, Clock!AudioTime

LEMMA ClockStep ==
    ASSUME ClockInv, [Clock!Next]_clockVars PROVE ClockInv'
<1>1. CASE Clock!Tick
  BY <1>1 DEF ClockInv, Clock!Tick, Clock!Later
<1>2. CASE Clock!Start \/ Clock!Pause
  <2>1. keyForced' \in {TRUE, keyForced} /\ UNCHANGED <<audioIndex, videoIndex>>
    BY <1>2 DEF Clock!Start, Clock!Pause
  <2>2. audioPts' = Clock!Later(audioPts) /\ videoPts' = Clock!Later(videoPts)
    BY <1>2 DEF Clock!Start, Clock!Pause
  <2>3. /\ audioPts' \in Int /\ videoPts' \in Int /\ audioPts' - videoPts' <= 3
    BY <2>2 DEF ClockInv, Clock!Later
  <2>4. keyForced' \in BOOLEAN
    BY <2>1 DEF ClockInv
  <2> QED
    BY <2>1, <2>3, <2>4 DEF ClockInv
<1>3. CASE Clock!SendAudio
  BY <1>3 DEF ClockInv, Clock!SendAudio, Clock!Wrap, Clock!AudioTime
<1>4. CASE Clock!SendVideo
  <2>1. PICK i \in Int : /\ videoIndex' = i + 1 /\ videoPts' = videoPts + 5
                         /\ audioIndex' \in {(i * 5) \div 3, audioIndex}
                         /\ audioPts' = audioPts
    <3>1. Clock!NextFrame(keyForced) \in Int
      BY NextFrameIsNumber DEF ClockInv
    <3> QED
      BY <1>4, <3>1
      DEF Clock!SendVideo, Clock!AlignedAudio, Clock!VideoTime, Clock!AudioTime
  <2>2. keyForced' = FALSE
    BY <1>4 DEF Clock!SendVideo
  <2>3. /\ audioPts' \in Int /\ videoPts' \in Int /\ audioPts' - videoPts' <= 3
        /\ videoIndex' \in Int
    BY <2>1 DEF ClockInv
  <2>4. (i * 5) \div 3 \in Int
    OBVIOUS
  <2>5. audioIndex' \in Int
    BY <2>1, <2>4 DEF ClockInv
  <2> QED
    BY <2>2, <2>3, <2>5 DEF ClockInv
<1>5. CASE Clock!ForceKey \/ UNCHANGED clockVars
  BY <1>5 DEF ClockInv, Clock!ForceKey, clockVars
<1> QED
  BY <1>1, <1>2, <1>3, <1>4, <1>5 DEF Clock!Next

\* Below its divisor a number is its own remainder.
LEMMA SmallRemainder ==
    ASSUME NEW n \in Nat, NEW x \in Nat, x < n PROVE x % n = x
OBVIOUS

LEMMA JumpIsNear ==
    ASSUME ClockInv, Clock!SendVideo, keyForced, videoIndex' # videoIndex + 1
    PROVE  Clock!Near'
<1> DEFINE i == Clock!NextFrame(keyForced)
           d == (i * 5) - 3 * ((i * 5) \div 3) + (audioPts - videoPts)
<1>1. i \in Int
  BY NextFrameIsNumber DEF ClockInv
<1>2. /\ videoIndex' = i + 1 /\ audioIndex' = (i * 5) \div 3
      /\ videoPts' = videoPts + 5 /\ audioPts' = audioPts
      /\ audioPts > videoPts
  BY <1>1
  DEF ClockInv, Clock!SendVideo, Clock!AlignedAudio, Clock!VideoTime, Clock!AudioTime
<1> HIDE DEF i
<1>3. Clock!Offset' = d
  BY <1>1, <1>2 DEF ClockInv, Clock!Offset, Clock!VideoTime, Clock!AudioTime
<1>4. d \in 1..5
  BY <1>1, <1>2 DEF ClockInv
<1> HIDE DEF d
<1>5. 15 * Loops \in Nat /\ d < 15 * Loops
  BY <1>4, FramesAreNumbers
<1>6. d % (15 * Loops) = d
  BY <1>4, <1>5, SmallRemainder
<1>7. Clock!Distance' <= 8
  BY <1>3, <1>4, <1>5, <1>6 DEF Clock!Distance
<1> QED
  BY <1>7 DEF Clock!Near, Clock!VideoTime, Clock!AudioTime

\* A jump of the video takes the audio along, for a file of any length, any key
\* frames, and however late the thread is.
THEOREM JumpTakesAudioAlongAlways == MediaSpec => JumpTakesAudioAlong
<1>1. MediaInit => ClockInv
  BY ClockStarts DEF MediaInit
<1>2. /\ ClockInv
      /\ [MediaNext]_<<part, liveVars, clockVars, fileVars, containerVars, recorderVars>>
      => /\ ClockInv'
         /\ [Clock!SendVideo /\ keyForced /\ videoIndex' # videoIndex + 1 => Clock!Near']_clockVars
  <2> SUFFICES ASSUME ClockInv,
                      [MediaNext]_<<part, liveVars, clockVars, fileVars, containerVars,
                                    recorderVars>>
               PROVE  /\ ClockInv'
                      /\ Clock!SendVideo /\ keyForced /\ videoIndex' # videoIndex + 1
                         => Clock!Near'
    OBVIOUS
  <2>1. [Clock!Next]_clockVars
    BY DEF MediaNext
  <2> QED
    BY <2>1, ClockStep, JumpIsNear
<1> QED
  BY <1>1, <1>2, PTL DEF MediaSpec, JumpTakesAudioAlong, Clock!JumpTakesAudioAlong, Clock!vars, clockVars

=============================================================================
