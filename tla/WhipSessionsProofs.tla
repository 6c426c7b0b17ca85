-------------------------- MODULE WhipSessionsProofs --------------------------
(***************************************************************************)
(* Theorems of the two sessions that dial with TiRtcWhipConnect, for every *)
(* number of attempts, of tasks under way and of rooms.  Of an AI session: *)
(* no connection is left open that nobody will close, a released device is *)
(* quiet, and whatever a session waits for has a deadline.  Of a WeChat    *)
(* call: a held session has a call and a deadline to wait for, and a dial  *)
(* that timed out is not answered later.                                   *)
(***************************************************************************)
EXTENDS MCWhipSessions, SequenceTheorems, TLAPS

-----------------------------------------------------------------------------
(* An AI session: the inductive invariant. *)

TaskType == [do : {"disconnect", "finish", "command", "close", "ended"}, conn : Conns]
CmdType == [at : {"idle", "token", "connect", "deadline", "finish", "ended", "stop", "send", "sent"},
            conn : 0..MaxAttempts]
WorkerType == [at : {"idle", "lost", "message"}, task : TaskType, join : BOOLEAN]

LinkType == [Conns -> {"none", "dialing", "open", "closing"}]
StopType == [at : {"running", "stopping"}, had : BOOLEAN, join : BOOLEAN]

FlagsTyped ==
    /\ owner \in {"NONE", "HELD"} /\ ownerId = NoRoom /\ ticket = NoRoom
    /\ cancelled \in BOOLEAN /\ endAsked \in BOOLEAN
    /\ transition \in {"free", "action", "stop", "drain"}
    /\ state \in {"IDLE", "CONNECTING", "IN_CALL", "DISCONNECTING"}
    /\ fresh \in BOOLEAN /\ startPending \in BOOLEAN /\ timed \in BOOLEAN
    /\ pushNeeded \in BOOLEAN /\ pushCreated \in BOOLEAN /\ push \in BOOLEAN
    /\ serving \in BOOLEAN
NumbersTyped == attempt \in 0..MaxAttempts /\ hconn \in 0..MaxAttempts
SetsTyped == bound \subseteq Conns /\ asked \subseteq Conns

TypeInv == /\ FlagsTyped /\ NumbersTyped /\ SetsTyped
           /\ link \in LinkType /\ tasks \in Seq(TaskType)
           /\ stopping \in [Stoppers -> StopType]
           /\ cmd \in CmdType /\ worker \in WorkerType

\* The tasks deferred, in whatever order.
Tasks == {tasks[i] : i \in DOMAIN tasks}

\* The runtime serves an AI while it is the owner, and a stop has none.
ServeInv ==
    /\ serving <=> owner = "HELD"
    /\ ~serving => bound = {}
    /\ transition # "free" => owner = "NONE"

StopInv ==
    /\ stopping["arbiter"].at = "stopping" => transition = "stop"
    /\ stopping["cmd"].at = "stopping" => CmdAt("idle")

\* Once the stop has taken the connection nothing brings one back.
QuietInv ==
    owner = "NONE" /\ (transition # "stop" \/ stopping["arbiter"].at = "stopping")
    => hconn = 0 /\ ~fresh

\* Before its session begins a command holds the owner, and nobody asks for
\* its end.
TokenInv ==
    CmdAt("token") =>
        /\ serving /\ ~fresh /\ ~endAsked /\ hconn = 0 /\ state # "CONNECTING"
        /\ WorkerAt("idle")

\* The session's connection is that of its last attempt.
ConnInv ==
    /\ hconn \in {0, attempt}
    /\ state \in {"IDLE", "DISCONNECTING"} => hconn = 0 /\ ~timed /\ ~startPending
    /\ CmdAt("connect") => /\ cmd.conn = attempt /\ attempt # 0
                           /\ hconn = 0 /\ link[attempt] = "none" /\ ~timed
    /\ CmdAt("send") \/ CmdAt("sent") => cmd.conn # 0
    /\ attempt # 0 => (link[attempt] = "dialing" => hconn = 0)
    /\ startPending => hconn # 0
    /\ state = "CONNECTING" => fresh

\* What anybody knows a connection by belongs to an attempt that was dialled.
Known(c) == \/ link[c] # "none" \/ c \in bound
            \/ \E t \in Tasks : t.conn = c
            \/ (~WorkerAt("idle") /\ worker.task.conn = c)
DialedInv ==
    \A c \in Conns : Known(c) => c <= attempt /\ ~(CmdAt("connect") /\ c = attempt)

FinishInv == \A t \in Tasks : t.do = "finish" => link[t.conn] = "none"

\* While the worker takes a session apart, or handles its message, no other
\* session gets a connection: the arbiter waits for the worker first.
BusyInv == ~WorkerAt("idle") /\ transition = "free" => serving
LostInv == WorkerAt("lost") => hconn = 0 /\ state # "CONNECTING" /\ ~timed
MessageInv ==
    WorkerAt("message") => attempt = worker.task.conn /\ link[attempt] # "dialing"

\* Who is about to close a connection that is not the session's.
ClosedInv ==
    \A c \in Conns : link[c] = "open" =>
        \/ hconn = c \/ Task("close", c) \in Tasks \/ Task("disconnect", c) \in Tasks
        \/ (WorkerAt("lost") /\ worker.task = Task("disconnect", c))

\* What a session that connects waits for.
TimedInv ==
    state = "CONNECTING" =>
        \/ timed \/ startPending \/ CmdAt("connect") \/ CmdAt("stop")
        \/ (CmdAt("deadline") /\ hconn = 0)
        \/ ((CmdAt("send") \/ CmdAt("sent")) /\ cmd.conn = hconn /\ hconn # 0)
        \/ (hconn # 0 /\ Task("disconnect", hconn) \in Tasks)

Inv == /\ TypeInv /\ ServeInv /\ StopInv /\ QuietInv /\ TokenInv /\ ConnInv /\ DialedInv
       /\ FinishInv /\ BusyInv /\ LostInv /\ MessageInv /\ ClosedInv /\ TimedInv

-----------------------------------------------------------------------------
(* The guard's queue as a set. *)

LEMMA TypeInvTyped == TypeInv /\ ConnInv => TypeOK
BY DEF TypeInv, TypeOK, LeaseTypeOK, FlagsTyped, NumbersTyped, SetsTyped, LinkType, TaskType,
       StopType, ConnInv, CmdAt

LEMMA TaskTyped == \A do \in {"disconnect", "finish", "command", "close", "ended"}, c \in Conns :
                      Task(do, c) \in TaskType /\ Task(do, c).do = do /\ Task(do, c).conn = c
BY DEF Task, TaskType

LEMMA TasksTyped == TypeInv => Tasks \subseteq TaskType
<1> SUFFICES ASSUME TypeInv, NEW i \in DOMAIN tasks PROVE tasks[i] \in TaskType
  BY DEF Tasks
<1>1. tasks \in Seq(TaskType)
  BY DEF TypeInv
<1> QED
  BY <1>1, ElementOfSeq, LenProperties

LEMMA TasksSame == UNCHANGED tasks => Tasks' = Tasks
BY DEF Tasks

LEMMA HeadTaken ==
    ASSUME TypeInv, tasks # <<>>, tasks' = Tail(tasks)
    PROVE  /\ Head(tasks) \in Tasks /\ Head(tasks) \in TaskType /\ tasks' \in Seq(TaskType)
           /\ Tasks' \subseteq Tasks /\ Tasks \subseteq Tasks' \cup {Head(tasks)}
<1>1. tasks \in Seq(TaskType)
  BY DEF TypeInv
<1>2. /\ Head(tasks) \in TaskType /\ Tail(tasks) \in Seq(TaskType)
      /\ Len(Tail(tasks)) = Len(tasks) - 1 /\ Head(tasks) = tasks[1]
      /\ \A i \in 1..Len(Tail(tasks)) : Tail(tasks)[i] = tasks[i + 1]
      /\ Len(tasks) \in Nat /\ Len(tasks) > 0
      /\ DOMAIN tasks = 1..Len(tasks) /\ DOMAIN Tail(tasks) = 1..Len(Tail(tasks))
  BY <1>1, HeadTailProperties, LenProperties
<1>3. \A i \in 1..Len(tasks) : i = 1 \/ (i - 1 \in 1..Len(tasks') /\ tasks'[i - 1] = tasks[i])
  BY <1>2
<1>4. Head(tasks) \in Tasks
  BY <1>2 DEF Tasks
<1>5. Tasks' \subseteq Tasks
  BY <1>2 DEF Tasks
<1>6. Tasks \subseteq Tasks' \cup {Head(tasks)}
  <2> SUFFICES ASSUME NEW i \in 1..Len(tasks) PROVE tasks[i] \in Tasks' \cup {Head(tasks)}
    BY <1>2 DEF Tasks
  <2>1. CASE i = 1
    BY <1>2, <2>1
  <2>2. CASE i - 1 \in 1..Len(tasks') /\ tasks'[i - 1] = tasks[i]
    BY <1>2, <2>2 DEF Tasks
  <2> QED
    BY <1>3, <2>1, <2>2
<1> QED
  BY <1>2, <1>4, <1>5, <1>6

LEMMA TasksAppended ==
    ASSUME TypeInv, NEW t \in TaskType, tasks' = Append(tasks, t)
    PROVE  tasks' \in Seq(TaskType) /\ Tasks' = Tasks \cup {t}
<1>1. tasks \in Seq(TaskType)
  BY DEF TypeInv
<1>2. /\ tasks' \in Seq(TaskType) /\ Len(tasks') = Len(tasks) + 1 /\ Len(tasks) \in Nat
      /\ DOMAIN tasks = 1..Len(tasks) /\ DOMAIN tasks' = 1..Len(tasks')
      /\ \A i \in 1..Len(tasks) : tasks'[i] = tasks[i]
      /\ tasks'[Len(tasks) + 1] = t
  BY <1>1, LenProperties
<1>3. \A i \in 1..Len(tasks') : i \in 1..Len(tasks) \/ i = Len(tasks) + 1
  BY <1>2
<1>4. Tasks' \subseteq Tasks \cup {t}
  BY <1>2, <1>3 DEF Tasks
<1>5. Tasks \cup {t} \subseteq Tasks'
  BY <1>2 DEF Tasks
<1> QED
  BY <1>2, <1>4, <1>5

LEMMA OneDeferred ==
    ASSUME TypeInv, NEW t \in TaskType, Deferred(<<t>>)
    PROVE  tasks' \in Seq(TaskType) /\ Tasks' = Tasks \cup {t}
<1>1. tasks \in Seq(TaskType)
  BY DEF TypeInv
<1>2. tasks \o <<t>> = Append(tasks, t)
  BY <1>1
<1> QED
  BY <1>2, TasksAppended DEF Deferred

LEMMA TwoDeferred ==
    ASSUME TypeInv, NEW t \in TaskType, NEW u \in TaskType, Deferred(<<t, u>>)
    PROVE  tasks' \in Seq(TaskType) /\ Tasks' = Tasks \cup {t, u}
<1>1. tasks \in Seq(TaskType)
  BY DEF TypeInv
<1>2. /\ tasks' \in Seq(TaskType) /\ Len(tasks') = Len(tasks) + 2 /\ Len(tasks) \in Nat
      /\ \A i \in 1..Len(tasks) : tasks'[i] = tasks[i]
      /\ tasks'[Len(tasks) + 1] = t /\ tasks'[Len(tasks) + 2] = u
  BY <1>1, LenProperties DEF Deferred
<1>3. DOMAIN tasks = 1..Len(tasks) /\ DOMAIN tasks' = 1..Len(tasks')
  BY <1>1, <1>2, LenProperties
<1>4. \A i \in 1..Len(tasks') : i \in 1..Len(tasks) \/ i = Len(tasks) + 1 \/ i = Len(tasks) + 2
  BY <1>2
<1>5. Tasks' \subseteq Tasks \cup {t, u}
  BY <1>2, <1>3, <1>4 DEF Tasks
<1>6. Tasks \cup {t, u} \subseteq Tasks'
  BY <1>2, <1>3 DEF Tasks
<1> QED
  BY <1>2, <1>5, <1>6

LEMMA DeadlineKept ==
    ASSUME timed \in BOOLEAN, timed' = (timed /\ hconn = 0) \/ timed' = timed
    PROVE  timed' \in BOOLEAN /\ (timed' => timed) /\ (hconn = 0 /\ timed => timed')
<1>1. CASE timed' = timed
  BY <1>1
<1>2. CASE timed' = (timed /\ hconn = 0)
  <2>1. CASE hconn = 0
    BY <1>2, <2>1
  <2>2. CASE hconn # 0
    <3>1. timed' = FALSE
      BY <1>2, <2>2
    <3> QED
      BY <3>1, <2>2
  <2> QED
    BY <2>1, <2>2
<1> QED
  BY <1>1, <1>2

LEMMA FirstTask == Task("close", 1) \in TaskType
BY BoundsAssumption DEF Task, TaskType, Conns

LEMMA TaskIs == \A t \in TaskType : t = Task(t.do, t.conn)
BY DEF Task, TaskType

-----------------------------------------------------------------------------
(* Every step keeps the invariant. *)

LEMMA LifecycleWorkerStep == ASSUME Inv, LifecycleWorker PROVE Inv'
<1>1. /\ endAsked
      /\ transition = "free"
      /\ owner' = "NONE"
      /\ ownerId' = NoRoom
      /\ cancelled' = FALSE
      /\ endAsked' = FALSE
      /\ transition' = "stop"
      /\ serving' = FALSE
      /\ bound' = {}
      /\ UNCHANGED <<state, attempt, fresh, hconn, startPending, timed, pushNeeded,
                    pushCreated, push, link, asked, tasks, ticket, cmd, worker, stopping>>
  BY DEF LifecycleWorker, EndOwner, Release, connVars, pushVars
<1>2. Tasks' = Tasks
  BY <1>1 DEF Tasks
<1>3. FlagsTyped'
  BY <1>1 DEF Inv, TypeInv, FlagsTyped
<1>4. NumbersTyped' /\ SetsTyped'
  BY <1>1 DEF Inv, TypeInv, SetsTyped, NumbersTyped
<1>5. TypeInv'
  BY <1>3, <1>4, <1>1 DEF Inv, TypeInv
<1>6. ConnInv' /\ FinishInv' /\ LostInv' /\ MessageInv' /\ ClosedInv' /\ TimedInv'
  BY <1>1, <1>2
     DEF Inv, ConnInv, CmdAt, FinishInv, LostInv, WorkerAt, MessageInv, ClosedInv, TimedInv
<1>7. ServeInv'
  BY <1>1
     DEF Inv, ServeInv, TypeInv, FlagsTyped
<1>8. StopInv'
  BY <1>1
     DEF Inv, StopInv, CmdAt, TypeInv, Stoppers
<1>9. QuietInv'
  BY <1>1
     DEF Inv, QuietInv, TypeInv, FlagsTyped, Stoppers, Conns, ServeInv, StopInv, CmdAt,
         TokenInv, WorkerAt
<1>10. TokenInv'
  BY <1>1
     DEF Inv, TokenInv, CmdAt, WorkerAt, TypeInv, FlagsTyped, TaskType, Conns, ServeInv,
         StopInv, QuietInv, BusyInv, ConnInv
<1>11. DialedInv'
  BY <1>1, <1>2
     DEF Inv, DialedInv, CmdAt, WorkerAt, Known, TypeInv, NumbersTyped, LinkType, Conns,
         ConnInv
<1>12. BusyInv'
  BY <1>1
     DEF Inv, BusyInv, WorkerAt, TypeInv, FlagsTyped, TaskType, Conns, ServeInv, QuietInv
<1> QED
  BY <1>5, <1>6, <1>7, <1>8, <1>9, <1>10, <1>11, <1>12 DEF Inv

LEMMA ServiceStopsStep == ASSUME Inv, ServiceStops PROVE Inv'
<1>1. /\ transition = "stop"
      /\ stopping["arbiter"].at = "running"
      /\ stopping' = [stopping EXCEPT !["arbiter"] = [at |-> "stopping", had |-> state # "IDLE",
                                              join |-> pushCreated]]
      /\ state' = IF state # "IDLE" THEN "DISCONNECTING" ELSE "IDLE"
      /\ fresh' = FALSE
      /\ hconn' = 0
      /\ startPending' = FALSE
      /\ timed' = FALSE
      /\ pushNeeded' = FALSE
      /\ pushCreated' = FALSE
      /\ link' = [x \in Conns |-> IF x = hconn /\ link[x] = "open" THEN "closing" ELSE link[x]]
      /\ UNCHANGED <<attempt, push, serving, bound, asked, tasks, owner, ownerId, cancelled,
                    ticket, endAsked, transition, cmd, worker>>
  BY DEF ServiceStops, BeginStop, Disconnect, arbiterVars, arbiterFrame
<1>2. Tasks' = Tasks
  BY <1>1 DEF Tasks
<1>3. FlagsTyped'
  BY <1>1, BoundsAssumption DEF Inv, TypeInv, FlagsTyped
<1>4. NumbersTyped' /\ SetsTyped'
  BY <1>1, BoundsAssumption DEF Inv, TypeInv, SetsTyped, NumbersTyped, Conns
<1>5. link' \in LinkType
  BY <1>1, BoundsAssumption
     DEF Inv, TypeInv, LinkType
<1>6. stopping' \in [Stoppers -> StopType]
  BY <1>1, BoundsAssumption, <1>3
     DEF Inv, TypeInv, StopType, Stoppers, Running, FlagsTyped
<1>7. TypeInv'
  BY <1>3, <1>4, <1>5, <1>6, <1>1 DEF Inv, TypeInv
<1>8. ServeInv' /\ BusyInv'
  BY <1>1
     DEF Inv, ServeInv, BusyInv, WorkerAt
<1>9. StopInv'
  BY <1>1
     DEF Inv, StopInv, CmdAt, TypeInv, Stoppers, Running, StopType
<1>10. QuietInv'
  BY <1>1
     DEF Inv, QuietInv, TypeInv, FlagsTyped, Stoppers, Conns, ServeInv, StopInv, CmdAt,
         TokenInv, WorkerAt
<1>11. TokenInv'
  BY <1>1
     DEF Inv, TokenInv, CmdAt, WorkerAt, TypeInv, FlagsTyped, TaskType, Conns, ServeInv,
         StopInv, QuietInv, BusyInv, ConnInv
<1>12. ConnInv'
  BY <1>1
     DEF Inv, ConnInv, CmdAt, TypeInv, FlagsTyped, NumbersTyped, CmdType, LinkType, Conns,
         DialedInv, WorkerAt, Known, LostInv, TokenInv
<1>13. DialedInv'
  BY <1>1, <1>2
     DEF Inv, DialedInv, CmdAt, WorkerAt, Known, TypeInv, NumbersTyped, LinkType, Conns,
         ConnInv
<1>14. FinishInv'
  BY <1>1, <1>2, TasksTyped
     DEF Inv, FinishInv, TypeInv, LinkType, DialedInv, CmdAt, WorkerAt, Known, ConnInv,
         TaskType
<1>15. LostInv'
  BY <1>1
     DEF Inv, LostInv, WorkerAt, TypeInv, FlagsTyped, ConnInv, CmdAt, TokenInv
<1>16. MessageInv'
  BY <1>1
     DEF Inv, MessageInv, WorkerAt, TypeInv, FlagsTyped, NumbersTyped, WorkerType,
         TaskType, LinkType, Conns, ConnInv, CmdAt, TokenInv, DialedInv, Known
<1>17. ClosedInv'
  BY <1>1, <1>2
     DEF Inv, ClosedInv, WorkerAt, Task, TypeInv, LinkType, NumbersTyped, Conns, ConnInv,
         CmdAt, FinishInv, DialedInv, Known, LostInv
<1>18. TimedInv'
  BY <1>1, <1>2
     DEF Inv, TimedInv, CmdAt, Task, TypeInv, FlagsTyped, NumbersTyped, ConnInv, LostInv,
         WorkerAt, MessageInv
<1> QED
  BY <1>7, <1>8, <1>9, <1>10, <1>11, <1>12, <1>13, <1>14, <1>15, <1>16, <1>17, <1>18 DEF Inv

LEMMA ServiceStoppedStep == ASSUME Inv, ServiceStopped PROVE Inv'
<1>1. /\ transition = "stop"
      /\ stopping["arbiter"].at = "stopping"
      /\ stopping' = [stopping EXCEPT !["arbiter"] = Running]
      /\ state' = IF state = "DISCONNECTING" THEN "IDLE" ELSE state
      /\ push' \in BOOLEAN
      /\ endAsked' \in BOOLEAN
      /\ transition' = "drain"
      /\ UNCHANGED <<attempt, fresh, hconn, startPending, timed, pushNeeded, pushCreated,
                    serving, link, bound, asked, tasks, owner, ownerId, cancelled, ticket, cmd, worker>>
  BY DEF ServiceStopped, EndStop, EndSession, arbiterFrame, Inv, TypeInv, FlagsTyped,
         StopType, Stoppers
<1>2. Tasks' = Tasks
  BY <1>1 DEF Tasks
<1>3. FlagsTyped'
  BY <1>1 DEF Inv, TypeInv, FlagsTyped
<1>4. NumbersTyped' /\ SetsTyped'
  BY <1>1 DEF Inv, TypeInv, SetsTyped, NumbersTyped
<1>5. stopping' \in [Stoppers -> StopType]
  BY <1>1, <1>3
     DEF Inv, TypeInv, StopType, Stoppers, Running, FlagsTyped
<1>6. TypeInv'
  BY <1>3, <1>4, <1>5, <1>1 DEF Inv, TypeInv
<1>7. DialedInv' /\ FinishInv' /\ MessageInv' /\ ClosedInv'
  BY <1>1, <1>2
     DEF Inv, DialedInv, CmdAt, WorkerAt, Known, FinishInv, MessageInv, ClosedInv
<1>8. ServeInv'
  BY <1>1
     DEF Inv, ServeInv, TypeInv, FlagsTyped
<1>9. StopInv'
  BY <1>1
     DEF Inv, StopInv, CmdAt, TypeInv, Stoppers, Running, StopType
<1>10. QuietInv'
  BY <1>1
     DEF Inv, QuietInv, TypeInv, FlagsTyped, Stoppers, Conns, ServeInv, StopInv, CmdAt,
         TokenInv, WorkerAt
<1>11. TokenInv'
  BY <1>1
     DEF Inv, TokenInv, CmdAt, WorkerAt, TypeInv, FlagsTyped, TaskType, Conns, ServeInv,
         StopInv, QuietInv, BusyInv, ConnInv
<1>12. ConnInv'
  BY <1>1
     DEF Inv, ConnInv, CmdAt, TypeInv, FlagsTyped, NumbersTyped, CmdType, LinkType, Conns,
         DialedInv, WorkerAt, Known, LostInv, TokenInv
<1>13. BusyInv'
  BY <1>1
     DEF Inv, BusyInv, WorkerAt, TypeInv, FlagsTyped, TaskType, Conns, ServeInv, QuietInv
<1>14. LostInv'
  BY <1>1
     DEF Inv, LostInv, WorkerAt, TypeInv, FlagsTyped, ConnInv, CmdAt, TokenInv
<1>15. TimedInv'
  BY <1>1, <1>2
     DEF Inv, TimedInv, CmdAt, Task, TypeInv, FlagsTyped, NumbersTyped, ConnInv, LostInv,
         WorkerAt, MessageInv
<1> QED
  BY <1>6, <1>7, <1>8, <1>9, <1>10, <1>11, <1>12, <1>13, <1>14, <1>15 DEF Inv

LEMMA ServiceDrainedStep == ASSUME Inv, ServiceDrained PROVE Inv'
<1>1. /\ transition = "drain"
      /\ worker.at = "idle"
      /\ transition' = "free"
      /\ UNCHANGED <<state, attempt, fresh, hconn, startPending, timed, pushNeeded,
                    pushCreated, push, serving, link, bound, asked, tasks, owner, ownerId, cancelled,
                    ticket, endAsked, cmd, worker, stopping>>
  BY DEF ServiceDrained, connVars, pushVars, arbiterFrame, WorkerAt
<1>2. Tasks' = Tasks
  BY <1>1 DEF Tasks
<1>3. FlagsTyped'
  BY <1>1 DEF Inv, TypeInv, FlagsTyped
<1>4. NumbersTyped' /\ SetsTyped'
  BY <1>1 DEF Inv, TypeInv, SetsTyped, NumbersTyped
<1>5. TypeInv'
  BY <1>3, <1>4, <1>1 DEF Inv, TypeInv
<1>6. TokenInv' /\ ConnInv' /\ DialedInv' /\ FinishInv' /\ LostInv' /\ MessageInv' /\ ClosedInv' /\ TimedInv'
  BY <1>1, <1>2
     DEF Inv, TokenInv, CmdAt, WorkerAt, ConnInv, DialedInv, Known, FinishInv, LostInv,
         MessageInv, ClosedInv, TimedInv
<1>7. ServeInv'
  BY <1>1
     DEF Inv, ServeInv, TypeInv, FlagsTyped
<1>8. StopInv'
  BY <1>1
     DEF Inv, StopInv, CmdAt, TypeInv, Stoppers
<1>9. QuietInv'
  BY <1>1
     DEF Inv, QuietInv, TypeInv, FlagsTyped, Stoppers, Conns, ServeInv, StopInv, CmdAt,
         TokenInv, WorkerAt
<1>10. BusyInv'
  BY <1>1
     DEF Inv, BusyInv, WorkerAt, TypeInv, FlagsTyped, TaskType, Conns, ServeInv, QuietInv
<1> QED
  BY <1>5, <1>6, <1>7, <1>8, <1>9, <1>10 DEF Inv

LEMMA BeginAiStep == ASSUME Inv, BeginAi PROVE Inv'
<1>1. /\ cmd.at = "idle"
      /\ stopping["cmd"].at = "running"
      /\ transition = "free"
      /\ owner = "NONE"
      /\ owner' = "HELD"
      /\ ownerId' = NoRoom
      /\ cancelled' = FALSE
      /\ endAsked' = FALSE
      /\ serving' = TRUE
      /\ cmd' = [at |-> "token", conn |-> cmd.conn]
      /\ UNCHANGED <<state, attempt, fresh, hconn, startPending, timed, pushNeeded,
                    pushCreated, push, link, bound, asked, tasks, ticket, transition, worker, stopping>>
  BY DEF BeginAi, CmdAt, CmdGo, cmdFrame, connVars, pushVars, arbiterVars, Idle, Hold
<1>2. Tasks' = Tasks
  BY <1>1 DEF Tasks
<1>3. FlagsTyped'
  BY <1>1, BoundsAssumption DEF Inv, TypeInv, FlagsTyped
<1>4. NumbersTyped' /\ SetsTyped'
  BY <1>1, BoundsAssumption DEF Inv, TypeInv, SetsTyped, NumbersTyped
<1>5. cmd' \in CmdType
  BY <1>1, BoundsAssumption
     DEF Inv, TypeInv, CmdType, NumbersTyped
<1>6. TypeInv'
  BY <1>3, <1>4, <1>5, <1>1 DEF Inv, TypeInv
<1>7. FinishInv' /\ LostInv' /\ MessageInv' /\ ClosedInv'
  BY <1>1, <1>2
     DEF Inv, FinishInv, LostInv, WorkerAt, MessageInv, ClosedInv
<1>8. ServeInv'
  BY <1>1
     DEF Inv, ServeInv, TypeInv, FlagsTyped
<1>9. StopInv'
  BY <1>1
     DEF Inv, StopInv, CmdAt, TypeInv, Stoppers
<1>10. QuietInv'
  BY <1>1
     DEF Inv, QuietInv, TypeInv, FlagsTyped, Stoppers, Conns, ServeInv, StopInv, CmdAt,
         TokenInv, WorkerAt
<1>11. TokenInv'
  BY <1>1
     DEF Inv, TokenInv, CmdAt, WorkerAt, TypeInv, FlagsTyped, TaskType, Conns, ServeInv,
         StopInv, QuietInv, BusyInv, ConnInv
<1>12. ConnInv'
  BY <1>1
     DEF Inv, ConnInv, CmdAt, TypeInv, FlagsTyped, NumbersTyped, CmdType, LinkType, Conns,
         DialedInv, WorkerAt, Known, LostInv, TokenInv
<1>13. DialedInv'
  BY <1>1, <1>2
     DEF Inv, DialedInv, CmdAt, WorkerAt, Known, TypeInv, NumbersTyped, LinkType, Conns,
         ConnInv
<1>14. BusyInv'
  BY <1>1
     DEF Inv, BusyInv, WorkerAt, TypeInv, FlagsTyped, TaskType, Conns, ServeInv, QuietInv
<1>15. TimedInv'
  BY <1>1, <1>2
     DEF Inv, TimedInv, CmdAt, Task, TypeInv, FlagsTyped, NumbersTyped, ConnInv, LostInv,
         WorkerAt, MessageInv
<1> QED
  BY <1>6, <1>7, <1>8, <1>9, <1>10, <1>11, <1>12, <1>13, <1>14, <1>15 DEF Inv

LEMMA StartFailsStep == ASSUME Inv, StartFails PROVE Inv'
<1>1. /\ cmd.at = "token"
      /\ cmd' = [at |-> "finish", conn |-> cmd.conn]
      /\ UNCHANGED <<state, attempt, fresh, hconn, startPending, timed, pushNeeded,
                    pushCreated, push, serving, link, bound, asked, tasks, owner, ownerId, cancelled,
                    ticket, endAsked, transition, worker, stopping>>
  BY DEF StartFails, CmdAt, CmdGo, cmdFrame, connVars, pushVars, arbiterVars
<1>2. Tasks' = Tasks
  BY <1>1 DEF Tasks
<1>3. FlagsTyped'
  BY <1>1, BoundsAssumption DEF Inv, TypeInv, FlagsTyped
<1>4. NumbersTyped' /\ SetsTyped'
  BY <1>1, BoundsAssumption DEF Inv, TypeInv, SetsTyped, NumbersTyped
<1>5. cmd' \in CmdType
  BY <1>1, BoundsAssumption
     DEF Inv, TypeInv, CmdType, NumbersTyped
<1>6. TypeInv'
  BY <1>3, <1>4, <1>5, <1>1 DEF Inv, TypeInv
<1>7. ServeInv' /\ QuietInv' /\ FinishInv' /\ BusyInv' /\ LostInv' /\ MessageInv' /\ ClosedInv'
  BY <1>1, <1>2
     DEF Inv, ServeInv, QuietInv, FinishInv, BusyInv, WorkerAt, LostInv, MessageInv,
         ClosedInv
<1>8. StopInv'
  BY <1>1
     DEF Inv, StopInv, CmdAt, TypeInv, Stoppers
<1>9. TokenInv'
  BY <1>1
     DEF Inv, TokenInv, CmdAt, WorkerAt, TypeInv, FlagsTyped, TaskType, Conns, ServeInv,
         StopInv, QuietInv, BusyInv, ConnInv
<1>10. ConnInv'
  BY <1>1
     DEF Inv, ConnInv, CmdAt, TypeInv, FlagsTyped, NumbersTyped, CmdType, LinkType, Conns,
         DialedInv, WorkerAt, Known, LostInv, TokenInv
<1>11. DialedInv'
  BY <1>1, <1>2
     DEF Inv, DialedInv, CmdAt, WorkerAt, Known, TypeInv, NumbersTyped, LinkType, Conns,
         ConnInv
<1>12. TimedInv'
  BY <1>1, <1>2
     DEF Inv, TimedInv, CmdAt, Task, TypeInv, FlagsTyped, NumbersTyped, ConnInv, LostInv,
         WorkerAt, MessageInv
<1> QED
  BY <1>6, <1>7, <1>8, <1>9, <1>10, <1>11, <1>12 DEF Inv

LEMMA StartSessionStep == ASSUME Inv, StartSession PROVE Inv'
<1>1. /\ cmd.at = "token"
      /\ state = "IDLE"
      /\ attempt < MaxAttempts
      /\ state' = "CONNECTING"
      /\ attempt' = attempt + 1
      /\ fresh' = TRUE
      /\ hconn' = 0
      /\ startPending' = FALSE
      /\ timed' = FALSE
      /\ pushNeeded' = FALSE
      /\ cmd' = [at |-> "connect", conn |-> attempt + 1]
      /\ UNCHANGED <<pushCreated, push, serving, link, bound, asked, tasks, owner, ownerId,
                    cancelled, ticket, endAsked, transition, worker, stopping>>
  BY DEF StartSession, CmdAt, arbiterVars, sdkVars
<1>2. Tasks' = Tasks
  BY <1>1 DEF Tasks
<1>3. FlagsTyped'
  BY <1>1, BoundsAssumption DEF Inv, TypeInv, FlagsTyped
<1>4. NumbersTyped' /\ SetsTyped'
  BY <1>1, BoundsAssumption DEF Inv, TypeInv, SetsTyped, NumbersTyped, Conns
<1>5. cmd' \in CmdType
  BY <1>1, BoundsAssumption
     DEF Inv, TypeInv, CmdType, NumbersTyped
<1>6. TypeInv'
  BY <1>3, <1>4, <1>5, <1>1 DEF Inv, TypeInv
<1>7. ServeInv' /\ FinishInv' /\ BusyInv'
  BY <1>1, <1>2
     DEF Inv, ServeInv, FinishInv, BusyInv, WorkerAt
<1>8. StopInv'
  BY <1>1
     DEF Inv, StopInv, CmdAt, TypeInv, Stoppers
<1>9. QuietInv'
  BY <1>1
     DEF Inv, QuietInv, TypeInv, FlagsTyped, Stoppers, Conns, ServeInv, StopInv, CmdAt,
         TokenInv, WorkerAt
<1>10. TokenInv'
  BY <1>1
     DEF Inv, TokenInv, CmdAt, WorkerAt, TypeInv, FlagsTyped, TaskType, Conns, ServeInv,
         StopInv, QuietInv, BusyInv, ConnInv
<1>11. ConnInv'
  BY <1>1, BoundsAssumption
     DEF Inv, ConnInv, CmdAt, TypeInv, FlagsTyped, NumbersTyped, CmdType, LinkType, Conns,
         DialedInv, WorkerAt, Known, LostInv, TokenInv
<1>12. DialedInv'
  BY <1>1, <1>2
     DEF Inv, DialedInv, CmdAt, WorkerAt, Known, TypeInv, NumbersTyped, LinkType, Conns,
         ConnInv
<1>13. LostInv'
  BY <1>1
     DEF Inv, LostInv, WorkerAt, TypeInv, FlagsTyped, ConnInv, CmdAt, TokenInv
<1>14. MessageInv'
  BY <1>1
     DEF Inv, MessageInv, WorkerAt, TypeInv, FlagsTyped, NumbersTyped, WorkerType,
         TaskType, LinkType, Conns, ConnInv, CmdAt, TokenInv, DialedInv, Known
<1>15. ClosedInv'
  BY <1>1, <1>2
     DEF Inv, ClosedInv, WorkerAt, Task, TypeInv, LinkType, NumbersTyped, Conns, ConnInv,
         CmdAt, FinishInv, DialedInv, Known, LostInv
<1>16. TimedInv'
  BY <1>1, <1>2
     DEF Inv, TimedInv, CmdAt, Task, TypeInv, FlagsTyped, NumbersTyped, ConnInv, LostInv,
         WorkerAt, MessageInv
<1> QED
  BY <1>6, <1>7, <1>8, <1>9, <1>10, <1>11, <1>12, <1>13, <1>14, <1>15, <1>16 DEF Inv

LEMMA WhipConnectStep == ASSUME Inv, WhipConnect PROVE Inv'
<1>1. CASE /\ cmd.at = "connect"
           /\ link' = [link EXCEPT ![cmd.conn] = "dialing"]
           /\ cmd' = [at |-> "deadline", conn |-> cmd.conn]
           /\ UNCHANGED <<state, attempt, fresh, hconn, startPending, timed, pushNeeded,
                         pushCreated, push, serving, bound, asked, tasks, owner, ownerId, cancelled,
                         ticket, endAsked, transition, worker, stopping>>
  <2>1. Tasks' = Tasks
    BY <1>1 DEF Tasks
  <2>2. FlagsTyped'
    BY <1>1, BoundsAssumption DEF Inv, TypeInv, FlagsTyped
  <2>3. NumbersTyped' /\ SetsTyped'
    BY <1>1, BoundsAssumption DEF Inv, TypeInv, SetsTyped, NumbersTyped
  <2>4. link' \in LinkType
    BY <1>1, BoundsAssumption
       DEF Inv, TypeInv, LinkType, ConnInv, CmdAt
  <2>5. cmd' \in CmdType
    BY <1>1, BoundsAssumption
       DEF Inv, TypeInv, CmdType, ConnInv, CmdAt, NumbersTyped
  <2>6. TypeInv'
    BY <2>2, <2>3, <2>4, <2>5, <1>1 DEF Inv, TypeInv
  <2>7. ServeInv' /\ QuietInv' /\ BusyInv' /\ LostInv'
    BY <1>1
       DEF Inv, ServeInv, QuietInv, BusyInv, WorkerAt, LostInv
  <2>8. StopInv'
    BY <1>1
       DEF Inv, StopInv, CmdAt, TypeInv, Stoppers
  <2>9. TokenInv'
    BY <1>1
       DEF Inv, TokenInv, CmdAt, WorkerAt, TypeInv, FlagsTyped, TaskType, Conns, ServeInv,
           StopInv, QuietInv, BusyInv, ConnInv
  <2>10. ConnInv'
    BY <1>1
       DEF Inv, ConnInv, CmdAt, TypeInv, FlagsTyped, NumbersTyped, CmdType, LinkType,
           Conns, DialedInv, WorkerAt, Known, LostInv, TokenInv
  <2>11. DialedInv'
    BY <1>1, <2>1
       DEF Inv, DialedInv, CmdAt, WorkerAt, Known, TypeInv, NumbersTyped, LinkType, Conns,
           ConnInv
  <2>12. FinishInv'
    BY <1>1, <2>1, TasksTyped
       DEF Inv, FinishInv, TypeInv, LinkType, DialedInv, CmdAt, WorkerAt, Known, ConnInv,
           TaskType
  <2>13. MessageInv'
    BY <1>1
       DEF Inv, MessageInv, WorkerAt, TypeInv, FlagsTyped, NumbersTyped, WorkerType,
           TaskType, LinkType, Conns, ConnInv, CmdAt, TokenInv, DialedInv, Known
  <2>14. ClosedInv'
    BY <1>1, <2>1
       DEF Inv, ClosedInv, WorkerAt, Task, TypeInv, LinkType, NumbersTyped, Conns, ConnInv,
           CmdAt, FinishInv, DialedInv, Known, LostInv
  <2>15. TimedInv'
    BY <1>1, <2>1
       DEF Inv, TimedInv, CmdAt, Task, TypeInv, FlagsTyped, NumbersTyped, ConnInv, LostInv,
           WorkerAt, MessageInv
  <2> QED
    BY <2>6, <2>7, <2>8, <2>9, <2>10, <2>11, <2>12, <2>13, <2>14, <2>15 DEF Inv
<1>2. CASE /\ cmd.at = "connect"
           /\ state' = IF fresh THEN "IDLE" ELSE state
           /\ endAsked' \in BOOLEAN
           /\ cmd' = [at |-> "finish", conn |-> cmd.conn]
           /\ UNCHANGED <<attempt, fresh, hconn, startPending, timed, pushNeeded, pushCreated,
                         push, serving, link, bound, asked, tasks, owner, ownerId, cancelled, ticket,
                         transition, worker, stopping>>
  <2>1. Tasks' = Tasks
    BY <1>2 DEF Tasks
  <2>2. FlagsTyped'
    BY <1>2, BoundsAssumption DEF Inv, TypeInv, FlagsTyped
  <2>3. NumbersTyped' /\ SetsTyped'
    BY <1>2, BoundsAssumption DEF Inv, TypeInv, SetsTyped, NumbersTyped
  <2>4. cmd' \in CmdType
    BY <1>2, BoundsAssumption
       DEF Inv, TypeInv, CmdType, NumbersTyped
  <2>5. TypeInv'
    BY <2>2, <2>3, <2>4, <1>2 DEF Inv, TypeInv
  <2>6. ServeInv' /\ QuietInv' /\ FinishInv' /\ BusyInv' /\ MessageInv' /\ ClosedInv'
    BY <1>2, <2>1
       DEF Inv, ServeInv, QuietInv, FinishInv, BusyInv, WorkerAt, MessageInv, ClosedInv
  <2>7. StopInv'
    BY <1>2
       DEF Inv, StopInv, CmdAt, TypeInv, Stoppers
  <2>8. TokenInv'
    BY <1>2
       DEF Inv, TokenInv, CmdAt, WorkerAt, TypeInv, FlagsTyped, TaskType, Conns, ServeInv,
           StopInv, QuietInv, BusyInv, ConnInv
  <2>9. ConnInv'
    BY <1>2
       DEF Inv, ConnInv, CmdAt, TypeInv, FlagsTyped, NumbersTyped, CmdType, LinkType,
           Conns, DialedInv, WorkerAt, Known, LostInv, TokenInv
  <2>10. DialedInv'
    BY <1>2, <2>1
       DEF Inv, DialedInv, CmdAt, WorkerAt, Known, TypeInv, NumbersTyped, LinkType, Conns,
           ConnInv
  <2>11. LostInv'
    BY <1>2
       DEF Inv, LostInv, WorkerAt, TypeInv, FlagsTyped, ConnInv, CmdAt, TokenInv
  <2>12. TimedInv'
    BY <1>2, <2>1
       DEF Inv, TimedInv, CmdAt, Task, TypeInv, FlagsTyped, NumbersTyped, ConnInv, LostInv,
           WorkerAt, MessageInv
  <2> QED
    BY <2>5, <2>6, <2>7, <2>8, <2>9, <2>10, <2>11, <2>12 DEF Inv
<1> QED
  BY <1>1, <1>2 DEF WhipConnect, CmdAt, CmdGo, cmdFrame, connVars, pushVars, arbiterVars, leaseFrame,
         EndSession, Inv, TypeInv, FlagsTyped

LEMMA SetDeadlineStep == ASSUME Inv, SetDeadline PROVE Inv'
<1>1. /\ cmd.at = "deadline"
      /\ timed' = (timed \/ (fresh /\ state = "CONNECTING" /\ hconn = 0))
      /\ cmd' = [at |-> "idle", conn |-> 0]
      /\ UNCHANGED <<state, attempt, fresh, hconn, startPending, pushNeeded, pushCreated, push,
                    serving, link, bound, asked, tasks, owner, ownerId, cancelled, ticket, endAsked,
                    transition, worker, stopping>>
  BY DEF SetDeadline, CmdAt, CmdGo, cmdFrame, connVars, pushVars, arbiterVars
<1>2. Tasks' = Tasks
  BY <1>1 DEF Tasks
<1>3. FlagsTyped'
  BY <1>1, BoundsAssumption DEF Inv, TypeInv, FlagsTyped
<1>4. NumbersTyped' /\ SetsTyped'
  BY <1>1, BoundsAssumption DEF Inv, TypeInv, SetsTyped, NumbersTyped
<1>5. cmd' \in CmdType
  BY <1>1, BoundsAssumption
     DEF Inv, TypeInv, CmdType, NumbersTyped
<1>6. TypeInv'
  BY <1>3, <1>4, <1>5, <1>1 DEF Inv, TypeInv
<1>7. ServeInv' /\ QuietInv' /\ FinishInv' /\ BusyInv' /\ MessageInv' /\ ClosedInv'
  BY <1>1, <1>2
     DEF Inv, ServeInv, QuietInv, FinishInv, BusyInv, WorkerAt, MessageInv, ClosedInv
<1>8. StopInv'
  BY <1>1
     DEF Inv, StopInv, CmdAt, TypeInv, Stoppers
<1>9. TokenInv'
  BY <1>1
     DEF Inv, TokenInv, CmdAt, WorkerAt, TypeInv, FlagsTyped, TaskType, Conns, ServeInv,
         StopInv, QuietInv, BusyInv, ConnInv
<1>10. ConnInv'
  BY <1>1
     DEF Inv, ConnInv, CmdAt, TypeInv, FlagsTyped, NumbersTyped, CmdType, LinkType, Conns,
         DialedInv, WorkerAt, Known, LostInv, TokenInv
<1>11. DialedInv'
  BY <1>1, <1>2
     DEF Inv, DialedInv, CmdAt, WorkerAt, Known, TypeInv, NumbersTyped, LinkType, Conns,
         ConnInv
<1>12. LostInv'
  BY <1>1
     DEF Inv, LostInv, WorkerAt, TypeInv, FlagsTyped, ConnInv, CmdAt, TokenInv
<1>13. TimedInv'
  BY <1>1, <1>2
     DEF Inv, TimedInv, CmdAt, Task, TypeInv, FlagsTyped, NumbersTyped, ConnInv, LostInv,
         WorkerAt, MessageInv
<1> QED
  BY <1>6, <1>7, <1>8, <1>9, <1>10, <1>11, <1>12, <1>13 DEF Inv

LEMMA FinishStep == ASSUME Inv, Finish PROVE Inv'
<1>1. CASE /\ cmd.at \in {"idle", "finish"}
           /\ (cmd.at = "finish" \/ stopping["cmd"].at = "running")
           /\ transition = "free"
           /\ owner' = "NONE"
           /\ ownerId' = NoRoom
           /\ cancelled' = FALSE
           /\ endAsked' = FALSE
           /\ transition' = "stop"
           /\ serving' = FALSE
           /\ bound' = {}
           /\ cmd' = [at |-> "ended", conn |-> cmd.conn]
           /\ UNCHANGED <<state, attempt, fresh, hconn, startPending, timed, pushNeeded,
                         pushCreated, push, link, asked, tasks, ticket, worker, stopping>>
  <2>1. Tasks' = Tasks
    BY <1>1 DEF Tasks
  <2>2. FlagsTyped'
    BY <1>1, BoundsAssumption DEF Inv, TypeInv, FlagsTyped
  <2>3. NumbersTyped' /\ SetsTyped'
    BY <1>1, BoundsAssumption DEF Inv, TypeInv, SetsTyped, NumbersTyped
  <2>4. cmd' \in CmdType
    BY <1>1, BoundsAssumption
       DEF Inv, TypeInv, CmdType, NumbersTyped
  <2>5. TypeInv'
    BY <2>2, <2>3, <2>4, <1>1 DEF Inv, TypeInv
  <2>6. FinishInv' /\ LostInv' /\ MessageInv' /\ ClosedInv'
    BY <1>1, <2>1
       DEF Inv, FinishInv, LostInv, WorkerAt, MessageInv, ClosedInv
  <2>7. ServeInv'
    BY <1>1
       DEF Inv, ServeInv, TypeInv, FlagsTyped
  <2>8. StopInv'
    BY <1>1
       DEF Inv, StopInv, CmdAt, TypeInv, Stoppers
  <2>9. QuietInv'
    BY <1>1
       DEF Inv, QuietInv, TypeInv, FlagsTyped, Stoppers, Conns, ServeInv, StopInv, CmdAt,
           TokenInv, WorkerAt
  <2>10. TokenInv'
    BY <1>1
       DEF Inv, TokenInv, CmdAt, WorkerAt, TypeInv, FlagsTyped, TaskType, Conns, ServeInv,
           StopInv, QuietInv, BusyInv, ConnInv
  <2>11. ConnInv'
    BY <1>1
       DEF Inv, ConnInv, CmdAt, TypeInv, FlagsTyped, NumbersTyped, CmdType, LinkType,
           Conns, DialedInv, WorkerAt, Known, LostInv, TokenInv
  <2>12. DialedInv'
    BY <1>1, <2>1
       DEF Inv, DialedInv, CmdAt, WorkerAt, Known, TypeInv, NumbersTyped, LinkType, Conns,
           ConnInv
  <2>13. BusyInv'
    BY <1>1
       DEF Inv, BusyInv, WorkerAt, TypeInv, FlagsTyped, TaskType, Conns, ServeInv, QuietInv
  <2>14. TimedInv'
    BY <1>1, <2>1
       DEF Inv, TimedInv, CmdAt, Task, TypeInv, FlagsTyped, NumbersTyped, ConnInv, LostInv,
           WorkerAt, MessageInv
  <2> QED
    BY <2>5, <2>6, <2>7, <2>8, <2>9, <2>10, <2>11, <2>12, <2>13, <2>14 DEF Inv
<1>2. CASE /\ cmd.at \in {"idle", "finish"}
           /\ (cmd.at = "finish" \/ stopping["cmd"].at = "running")
           /\ cmd' = [at |-> "idle", conn |-> 0]
           /\ UNCHANGED <<state, attempt, fresh, hconn, startPending, timed, pushNeeded,
                         pushCreated, push, serving, link, bound, asked, tasks, owner, ownerId, cancelled,
                         ticket, endAsked, transition, worker, stopping>>
  <2>1. Tasks' = Tasks
    BY <1>2 DEF Tasks
  <2>2. FlagsTyped'
    BY <1>2, BoundsAssumption DEF Inv, TypeInv, FlagsTyped
  <2>3. NumbersTyped' /\ SetsTyped'
    BY <1>2, BoundsAssumption DEF Inv, TypeInv, SetsTyped, NumbersTyped
  <2>4. cmd' \in CmdType
    BY <1>2, BoundsAssumption
       DEF Inv, TypeInv, CmdType, NumbersTyped
  <2>5. TypeInv'
    BY <2>2, <2>3, <2>4, <1>2 DEF Inv, TypeInv
  <2>6. ServeInv' /\ QuietInv' /\ FinishInv' /\ BusyInv' /\ LostInv' /\ MessageInv' /\ ClosedInv'
    BY <1>2, <2>1
       DEF Inv, ServeInv, QuietInv, FinishInv, BusyInv, WorkerAt, LostInv, MessageInv,
           ClosedInv
  <2>7. StopInv'
    BY <1>2
       DEF Inv, StopInv, CmdAt, TypeInv, Stoppers
  <2>8. TokenInv'
    BY <1>2
       DEF Inv, TokenInv, CmdAt, WorkerAt, TypeInv, FlagsTyped, TaskType, Conns, ServeInv,
           StopInv, QuietInv, BusyInv, ConnInv
  <2>9. ConnInv'
    BY <1>2
       DEF Inv, ConnInv, CmdAt, TypeInv, FlagsTyped, NumbersTyped, CmdType, LinkType,
           Conns, DialedInv, WorkerAt, Known, LostInv, TokenInv
  <2>10. DialedInv'
    BY <1>2, <2>1
       DEF Inv, DialedInv, CmdAt, WorkerAt, Known, TypeInv, NumbersTyped, LinkType, Conns,
           ConnInv
  <2>11. TimedInv'
    BY <1>2, <2>1
       DEF Inv, TimedInv, CmdAt, Task, TypeInv, FlagsTyped, NumbersTyped, ConnInv, LostInv,
           WorkerAt, MessageInv
  <2> QED
    BY <2>5, <2>6, <2>7, <2>8, <2>9, <2>10, <2>11 DEF Inv
<1> QED
  BY <1>1, <1>2 DEF Finish, CmdAt, CmdGo, cmdFrame, connVars, pushVars, arbiterVars, Idle, EndOwner,
         Release

LEMMA FinishedStep == ASSUME Inv, Finished PROVE Inv'
<1>1. /\ cmd.at = "ended"
      /\ cmd' = [at |-> "idle", conn |-> 0]
      /\ UNCHANGED <<state, attempt, fresh, hconn, startPending, timed, pushNeeded,
                    pushCreated, push, serving, link, bound, asked, tasks, owner, ownerId, cancelled,
                    ticket, endAsked, transition, worker, stopping>>
  BY DEF Finished, CmdAt, CmdGo, cmdFrame, connVars, pushVars, arbiterVars
<1>2. Tasks' = Tasks
  BY <1>1 DEF Tasks
<1>3. FlagsTyped'
  BY <1>1, BoundsAssumption DEF Inv, TypeInv, FlagsTyped
<1>4. NumbersTyped' /\ SetsTyped'
  BY <1>1, BoundsAssumption DEF Inv, TypeInv, SetsTyped, NumbersTyped
<1>5. cmd' \in CmdType
  BY <1>1, BoundsAssumption
     DEF Inv, TypeInv, CmdType, NumbersTyped
<1>6. TypeInv'
  BY <1>3, <1>4, <1>5, <1>1 DEF Inv, TypeInv
<1>7. ServeInv' /\ QuietInv' /\ FinishInv' /\ BusyInv' /\ LostInv' /\ MessageInv' /\ ClosedInv'
  BY <1>1, <1>2
     DEF Inv, ServeInv, QuietInv, FinishInv, BusyInv, WorkerAt, LostInv, MessageInv,
         ClosedInv
<1>8. StopInv'
  BY <1>1
     DEF Inv, StopInv, CmdAt, TypeInv, Stoppers
<1>9. TokenInv'
  BY <1>1
     DEF Inv, TokenInv, CmdAt, WorkerAt, TypeInv, FlagsTyped, TaskType, Conns, ServeInv,
         StopInv, QuietInv, BusyInv, ConnInv
<1>10. ConnInv'
  BY <1>1
     DEF Inv, ConnInv, CmdAt, TypeInv, FlagsTyped, NumbersTyped, CmdType, LinkType, Conns,
         DialedInv, WorkerAt, Known, LostInv, TokenInv
<1>11. DialedInv'
  BY <1>1, <1>2
     DEF Inv, DialedInv, CmdAt, WorkerAt, Known, TypeInv, NumbersTyped, LinkType, Conns,
         ConnInv
<1>12. TimedInv'
  BY <1>1, <1>2
     DEF Inv, TimedInv, CmdAt, Task, TypeInv, FlagsTyped, NumbersTyped, ConnInv, LostInv,
         WorkerAt, MessageInv
<1> QED
  BY <1>6, <1>7, <1>8, <1>9, <1>10, <1>11, <1>12 DEF Inv

LEMMA ExpiresStep == ASSUME Inv, Expires PROVE Inv'
<1>1. /\ cmd.at = "idle"
      /\ stopping["cmd"].at = "running"
      /\ cmd' = [at |-> "stop", conn |-> cmd.conn]
      /\ UNCHANGED <<state, attempt, fresh, hconn, startPending, timed, pushNeeded,
                    pushCreated, push, serving, link, bound, asked, tasks, owner, ownerId, cancelled,
                    ticket, endAsked, transition, worker, stopping>>
  BY DEF Expires, CmdAt, CmdGo, cmdFrame, connVars, pushVars, arbiterVars, Idle
<1>2. Tasks' = Tasks
  BY <1>1 DEF Tasks
<1>3. FlagsTyped'
  BY <1>1, BoundsAssumption DEF Inv, TypeInv, FlagsTyped
<1>4. NumbersTyped' /\ SetsTyped'
  BY <1>1, BoundsAssumption DEF Inv, TypeInv, SetsTyped, NumbersTyped
<1>5. cmd' \in CmdType
  BY <1>1, BoundsAssumption
     DEF Inv, TypeInv, CmdType, NumbersTyped
<1>6. TypeInv'
  BY <1>3, <1>4, <1>5, <1>1 DEF Inv, TypeInv
<1>7. ServeInv' /\ QuietInv' /\ FinishInv' /\ BusyInv' /\ LostInv' /\ MessageInv' /\ ClosedInv'
  BY <1>1, <1>2
     DEF Inv, ServeInv, QuietInv, FinishInv, BusyInv, WorkerAt, LostInv, MessageInv,
         ClosedInv
<1>8. StopInv'
  BY <1>1
     DEF Inv, StopInv, CmdAt, TypeInv, Stoppers
<1>9. TokenInv'
  BY <1>1
     DEF Inv, TokenInv, CmdAt, WorkerAt, TypeInv, FlagsTyped, TaskType, Conns, ServeInv,
         StopInv, QuietInv, BusyInv, ConnInv
<1>10. ConnInv'
  BY <1>1
     DEF Inv, ConnInv, CmdAt, TypeInv, FlagsTyped, NumbersTyped, CmdType, LinkType, Conns,
         DialedInv, WorkerAt, Known, LostInv, TokenInv
<1>11. DialedInv'
  BY <1>1, <1>2
     DEF Inv, DialedInv, CmdAt, WorkerAt, Known, TypeInv, NumbersTyped, LinkType, Conns,
         ConnInv
<1>12. TimedInv'
  BY <1>1, <1>2
     DEF Inv, TimedInv, CmdAt, Task, TypeInv, FlagsTyped, NumbersTyped, ConnInv, LostInv,
         WorkerAt, MessageInv
<1> QED
  BY <1>6, <1>7, <1>8, <1>9, <1>10, <1>11, <1>12 DEF Inv

LEMMA StopSessionStep == ASSUME Inv, StopSession PROVE Inv'
<1>1. /\ cmd.at = "stop"
      /\ stopping' = [stopping EXCEPT !["cmd"] = [at |-> "stopping", had |-> state # "IDLE",
                                              join |-> pushCreated]]
      /\ state' = IF state # "IDLE" THEN "DISCONNECTING" ELSE "IDLE"
      /\ fresh' = FALSE
      /\ hconn' = 0
      /\ startPending' = FALSE
      /\ timed' = FALSE
      /\ pushNeeded' = FALSE
      /\ pushCreated' = FALSE
      /\ link' = [x \in Conns |-> IF x = hconn /\ link[x] = "open" THEN "closing" ELSE link[x]]
      /\ cmd' = [at |-> "idle", conn |-> 0]
      /\ UNCHANGED <<attempt, push, serving, bound, asked, tasks, owner, ownerId, cancelled,
                    ticket, endAsked, transition, worker>>
  BY DEF StopSession, CmdAt, CmdGo, BeginStop, Disconnect, arbiterVars
<1>2. Tasks' = Tasks
  BY <1>1 DEF Tasks
<1>3. FlagsTyped'
  BY <1>1, BoundsAssumption DEF Inv, TypeInv, FlagsTyped
<1>4. NumbersTyped' /\ SetsTyped'
  BY <1>1, BoundsAssumption DEF Inv, TypeInv, SetsTyped, NumbersTyped, Conns
<1>5. link' \in LinkType
  BY <1>1, BoundsAssumption
     DEF Inv, TypeInv, LinkType
<1>6. cmd' \in CmdType
  BY <1>1, BoundsAssumption
     DEF Inv, TypeInv, CmdType, NumbersTyped
<1>7. stopping' \in [Stoppers -> StopType]
  BY <1>1, BoundsAssumption, <1>3
     DEF Inv, TypeInv, StopType, Stoppers, Running, FlagsTyped
<1>8. TypeInv'
  BY <1>3, <1>4, <1>5, <1>6, <1>7, <1>1 DEF Inv, TypeInv
<1>9. ServeInv' /\ BusyInv'
  BY <1>1
     DEF Inv, ServeInv, BusyInv, WorkerAt
<1>10. StopInv'
  BY <1>1
     DEF Inv, StopInv, CmdAt, TypeInv, Stoppers, Running, StopType
<1>11. QuietInv'
  BY <1>1
     DEF Inv, QuietInv, TypeInv, FlagsTyped, Stoppers, Conns, ServeInv, StopInv, CmdAt,
         TokenInv, WorkerAt
<1>12. TokenInv'
  BY <1>1
     DEF Inv, TokenInv, CmdAt, WorkerAt, TypeInv, FlagsTyped, TaskType, Conns, ServeInv,
         StopInv, QuietInv, BusyInv, ConnInv
<1>13. ConnInv'
  BY <1>1
     DEF Inv, ConnInv, CmdAt, TypeInv, FlagsTyped, NumbersTyped, CmdType, LinkType, Conns,
         DialedInv, WorkerAt, Known, LostInv, TokenInv
<1>14. DialedInv'
  BY <1>1, <1>2
     DEF Inv, DialedInv, CmdAt, WorkerAt, Known, TypeInv, NumbersTyped, LinkType, Conns,
         ConnInv
<1>15. FinishInv'
  BY <1>1, <1>2, TasksTyped
     DEF Inv, FinishInv, TypeInv, LinkType, DialedInv, CmdAt, WorkerAt, Known, ConnInv,
         TaskType
<1>16. LostInv'
  BY <1>1
     DEF Inv, LostInv, WorkerAt, TypeInv, FlagsTyped, ConnInv, CmdAt, TokenInv
<1>17. MessageInv'
  BY <1>1
     DEF Inv, MessageInv, WorkerAt, TypeInv, FlagsTyped, NumbersTyped, WorkerType,
         TaskType, LinkType, Conns, ConnInv, CmdAt, TokenInv, DialedInv, Known
<1>18. ClosedInv'
  BY <1>1, <1>2
     DEF Inv, ClosedInv, WorkerAt, Task, TypeInv, LinkType, NumbersTyped, Conns, ConnInv,
         CmdAt, FinishInv, DialedInv, Known, LostInv
<1>19. TimedInv'
  BY <1>1, <1>2
     DEF Inv, TimedInv, CmdAt, Task, TypeInv, FlagsTyped, NumbersTyped, ConnInv, LostInv,
         WorkerAt, MessageInv
<1> QED
  BY <1>8, <1>9, <1>10, <1>11, <1>12, <1>13, <1>14, <1>15, <1>16, <1>17, <1>18, <1>19 DEF Inv

LEMMA StoppedStep == ASSUME Inv, Stopped PROVE Inv'
<1>1. /\ stopping["cmd"].at = "stopping"
      /\ stopping' = [stopping EXCEPT !["cmd"] = Running]
      /\ state' = IF state = "DISCONNECTING" THEN "IDLE" ELSE state
      /\ push' \in BOOLEAN
      /\ endAsked' \in BOOLEAN
      /\ UNCHANGED <<attempt, fresh, hconn, startPending, timed, pushNeeded, pushCreated,
                    serving, link, bound, asked, tasks, owner, ownerId, cancelled, ticket, transition,
                    cmd, worker>>
  BY DEF Stopped, EndStop, EndSession, leaseFrame, Inv, TypeInv, FlagsTyped, StopType,
         Stoppers
<1>2. Tasks' = Tasks
  BY <1>1 DEF Tasks
<1>3. FlagsTyped'
  BY <1>1 DEF Inv, TypeInv, FlagsTyped
<1>4. NumbersTyped' /\ SetsTyped'
  BY <1>1 DEF Inv, TypeInv, SetsTyped, NumbersTyped
<1>5. stopping' \in [Stoppers -> StopType]
  BY <1>1, <1>3
     DEF Inv, TypeInv, StopType, Stoppers, Running, FlagsTyped
<1>6. TypeInv'
  BY <1>3, <1>4, <1>5, <1>1 DEF Inv, TypeInv
<1>7. ServeInv' /\ DialedInv' /\ FinishInv' /\ BusyInv' /\ MessageInv' /\ ClosedInv'
  BY <1>1, <1>2
     DEF Inv, ServeInv, DialedInv, CmdAt, WorkerAt, Known, FinishInv, BusyInv, MessageInv,
         ClosedInv
<1>8. StopInv'
  BY <1>1
     DEF Inv, StopInv, CmdAt, TypeInv, Stoppers, Running, StopType
<1>9. QuietInv'
  BY <1>1
     DEF Inv, QuietInv, TypeInv, FlagsTyped, Stoppers, Conns, ServeInv, StopInv, CmdAt,
         TokenInv, WorkerAt
<1>10. TokenInv'
  BY <1>1
     DEF Inv, TokenInv, CmdAt, WorkerAt, TypeInv, FlagsTyped, TaskType, Conns, ServeInv,
         StopInv, QuietInv, BusyInv, ConnInv
<1>11. ConnInv'
  BY <1>1
     DEF Inv, ConnInv, CmdAt, TypeInv, FlagsTyped, NumbersTyped, CmdType, LinkType, Conns,
         DialedInv, WorkerAt, Known, LostInv, TokenInv
<1>12. LostInv'
  BY <1>1
     DEF Inv, LostInv, WorkerAt, TypeInv, FlagsTyped, ConnInv, CmdAt, TokenInv
<1>13. TimedInv'
  BY <1>1, <1>2
     DEF Inv, TimedInv, CmdAt, Task, TypeInv, FlagsTyped, NumbersTyped, ConnInv, LostInv,
         WorkerAt, MessageInv
<1> QED
  BY <1>6, <1>7, <1>8, <1>9, <1>10, <1>11, <1>12, <1>13 DEF Inv

LEMMA TakeStartStep == ASSUME Inv, TakeStart PROVE Inv'
<1>1. /\ cmd.at = "idle"
      /\ stopping["cmd"].at = "running"
      /\ startPending
      /\ startPending' \in BOOLEAN /\ ~startPending'
      /\ cmd' = [at |-> "send", conn |-> hconn]
      /\ UNCHANGED <<state, attempt, fresh, hconn, timed, pushNeeded, pushCreated, push,
                    serving, link, bound, asked, tasks, owner, ownerId, cancelled, ticket, endAsked,
                    transition, worker, stopping>>
  BY DEF TakeStart, CmdAt, CmdGo, cmdFrame, connVars, pushVars, arbiterVars, Idle
<1>2. Tasks' = Tasks
  BY <1>1 DEF Tasks
<1>3. FlagsTyped'
  BY <1>1, BoundsAssumption DEF Inv, TypeInv, FlagsTyped
<1>4. NumbersTyped' /\ SetsTyped'
  BY <1>1, BoundsAssumption DEF Inv, TypeInv, SetsTyped, NumbersTyped
<1>5. cmd' \in CmdType
  BY <1>1, BoundsAssumption
     DEF Inv, TypeInv, CmdType, NumbersTyped
<1>6. TypeInv'
  BY <1>3, <1>4, <1>5, <1>1 DEF Inv, TypeInv
<1>7. ServeInv' /\ QuietInv' /\ FinishInv' /\ BusyInv' /\ LostInv' /\ MessageInv' /\ ClosedInv'
  BY <1>1, <1>2
     DEF Inv, ServeInv, QuietInv, FinishInv, BusyInv, WorkerAt, LostInv, MessageInv,
         ClosedInv
<1>8. StopInv'
  BY <1>1
     DEF Inv, StopInv, CmdAt, TypeInv, Stoppers
<1>9. TokenInv'
  BY <1>1
     DEF Inv, TokenInv, CmdAt, WorkerAt, TypeInv, FlagsTyped, TaskType, Conns, ServeInv,
         StopInv, QuietInv, BusyInv, ConnInv
<1>10. ConnInv'
  BY <1>1
     DEF Inv, ConnInv, CmdAt, TypeInv, FlagsTyped, NumbersTyped, CmdType, LinkType, Conns,
         DialedInv, WorkerAt, Known, LostInv, TokenInv
<1>11. DialedInv'
  BY <1>1, <1>2
     DEF Inv, DialedInv, CmdAt, WorkerAt, Known, TypeInv, NumbersTyped, LinkType, Conns,
         ConnInv
<1>12. TimedInv'
  BY <1>1, <1>2
     DEF Inv, TimedInv, CmdAt, Task, TypeInv, FlagsTyped, NumbersTyped, ConnInv, LostInv,
         WorkerAt, MessageInv
<1> QED
  BY <1>6, <1>7, <1>8, <1>9, <1>10, <1>11, <1>12 DEF Inv

LEMMA SendStartStep == ASSUME Inv, SendStart PROVE Inv'
<1>1. CASE /\ cmd.at = "send"
           /\ asked' \in {asked, asked \cup {cmd.conn}}
           /\ cmd' = [at |-> "sent", conn |-> cmd.conn]
           /\ UNCHANGED <<state, attempt, fresh, hconn, startPending, timed, pushNeeded,
                         pushCreated, push, serving, link, bound, tasks, owner, ownerId, cancelled,
                         ticket, endAsked, transition, worker, stopping>>
  <2>1. Tasks' = Tasks
    BY <1>1 DEF Tasks
  <2>2. FlagsTyped'
    BY <1>1, BoundsAssumption DEF Inv, TypeInv, FlagsTyped
  <2>3. NumbersTyped' /\ SetsTyped'
    BY <1>1, BoundsAssumption DEF Inv, TypeInv, SetsTyped, NumbersTyped, ConnInv, CmdAt, CmdType, Conns
  <2>4. cmd' \in CmdType
    BY <1>1, BoundsAssumption
       DEF Inv, TypeInv, CmdType, NumbersTyped
  <2>5. TypeInv'
    BY <2>2, <2>3, <2>4, <1>1 DEF Inv, TypeInv
  <2>6. ServeInv' /\ QuietInv' /\ FinishInv' /\ BusyInv' /\ LostInv' /\ MessageInv' /\ ClosedInv'
    BY <1>1, <2>1
       DEF Inv, ServeInv, QuietInv, FinishInv, BusyInv, WorkerAt, LostInv, MessageInv,
           ClosedInv
  <2>7. StopInv'
    BY <1>1
       DEF Inv, StopInv, CmdAt, TypeInv, Stoppers
  <2>8. TokenInv'
    BY <1>1
       DEF Inv, TokenInv, CmdAt, WorkerAt, TypeInv, FlagsTyped, TaskType, Conns, ServeInv,
           StopInv, QuietInv, BusyInv, ConnInv
  <2>9. ConnInv'
    BY <1>1
       DEF Inv, ConnInv, CmdAt, TypeInv, FlagsTyped, NumbersTyped, CmdType, LinkType,
           Conns, DialedInv, WorkerAt, Known, LostInv, TokenInv
  <2>10. DialedInv'
    BY <1>1, <2>1
       DEF Inv, DialedInv, CmdAt, WorkerAt, Known, TypeInv, NumbersTyped, LinkType, Conns,
           ConnInv
  <2>11. TimedInv'
    BY <1>1, <2>1
       DEF Inv, TimedInv, CmdAt, Task, TypeInv, FlagsTyped, NumbersTyped, ConnInv, LostInv,
           WorkerAt, MessageInv
  <2> QED
    BY <2>5, <2>6, <2>7, <2>8, <2>9, <2>10, <2>11 DEF Inv
<1>2. CASE /\ cmd.at = "send"
           /\ cmd' = [at |-> "stop", conn |-> cmd.conn]
           /\ UNCHANGED <<state, attempt, fresh, hconn, startPending, timed, pushNeeded,
                         pushCreated, push, serving, link, bound, asked, tasks, owner, ownerId, cancelled,
                         ticket, endAsked, transition, worker, stopping>>
  <2>1. Tasks' = Tasks
    BY <1>2 DEF Tasks
  <2>2. FlagsTyped'
    BY <1>2, BoundsAssumption DEF Inv, TypeInv, FlagsTyped
  <2>3. NumbersTyped' /\ SetsTyped'
    BY <1>2, BoundsAssumption DEF Inv, TypeInv, SetsTyped, NumbersTyped
  <2>4. cmd' \in CmdType
    BY <1>2, BoundsAssumption
       DEF Inv, TypeInv, CmdType, NumbersTyped
  <2>5. TypeInv'
    BY <2>2, <2>3, <2>4, <1>2 DEF Inv, TypeInv
  <2>6. ServeInv' /\ QuietInv' /\ FinishInv' /\ BusyInv' /\ LostInv' /\ MessageInv' /\ ClosedInv'
    BY <1>2, <2>1
       DEF Inv, ServeInv, QuietInv, FinishInv, BusyInv, WorkerAt, LostInv, MessageInv,
           ClosedInv
  <2>7. StopInv'
    BY <1>2
       DEF Inv, StopInv, CmdAt, TypeInv, Stoppers
  <2>8. TokenInv'
    BY <1>2
       DEF Inv, TokenInv, CmdAt, WorkerAt, TypeInv, FlagsTyped, TaskType, Conns, ServeInv,
           StopInv, QuietInv, BusyInv, ConnInv
  <2>9. ConnInv'
    BY <1>2
       DEF Inv, ConnInv, CmdAt, TypeInv, FlagsTyped, NumbersTyped, CmdType, LinkType,
           Conns, DialedInv, WorkerAt, Known, LostInv, TokenInv
  <2>10. DialedInv'
    BY <1>2, <2>1
       DEF Inv, DialedInv, CmdAt, WorkerAt, Known, TypeInv, NumbersTyped, LinkType, Conns,
           ConnInv
  <2>11. TimedInv'
    BY <1>2, <2>1
       DEF Inv, TimedInv, CmdAt, Task, TypeInv, FlagsTyped, NumbersTyped, ConnInv, LostInv,
           WorkerAt, MessageInv
  <2> QED
    BY <2>5, <2>6, <2>7, <2>8, <2>9, <2>10, <2>11 DEF Inv
<1> QED
  BY <1>1, <1>2 DEF SendStart, CmdAt, CmdGo, cmdFrame, connVars, pushVars, arbiterVars

LEMMA SentStartStep == ASSUME Inv, SentStart PROVE Inv'
<1>1. /\ cmd.at = "sent"
      /\ timed' = (timed \/ (hconn = cmd.conn /\ state = "CONNECTING"))
      /\ cmd' = [at |-> "idle", conn |-> 0]
      /\ UNCHANGED <<state, attempt, fresh, hconn, startPending, pushNeeded, pushCreated, push,
                    serving, link, bound, asked, tasks, owner, ownerId, cancelled, ticket, endAsked,
                    transition, worker, stopping>>
  BY DEF SentStart, CmdAt, CmdGo, cmdFrame, connVars, pushVars, arbiterVars
<1>2. Tasks' = Tasks
  BY <1>1 DEF Tasks
<1>3. FlagsTyped'
  BY <1>1, BoundsAssumption DEF Inv, TypeInv, FlagsTyped
<1>4. NumbersTyped' /\ SetsTyped'
  BY <1>1, BoundsAssumption DEF Inv, TypeInv, SetsTyped, NumbersTyped
<1>5. cmd' \in CmdType
  BY <1>1, BoundsAssumption
     DEF Inv, TypeInv, CmdType, NumbersTyped
<1>6. TypeInv'
  BY <1>3, <1>4, <1>5, <1>1 DEF Inv, TypeInv
<1>7. ServeInv' /\ QuietInv' /\ FinishInv' /\ BusyInv' /\ MessageInv' /\ ClosedInv'
  BY <1>1, <1>2
     DEF Inv, ServeInv, QuietInv, FinishInv, BusyInv, WorkerAt, MessageInv, ClosedInv
<1>8. StopInv'
  BY <1>1
     DEF Inv, StopInv, CmdAt, TypeInv, Stoppers
<1>9. TokenInv'
  BY <1>1
     DEF Inv, TokenInv, CmdAt, WorkerAt, TypeInv, FlagsTyped, TaskType, Conns, ServeInv,
         StopInv, QuietInv, BusyInv, ConnInv
<1>10. ConnInv'
  BY <1>1
     DEF Inv, ConnInv, CmdAt, TypeInv, FlagsTyped, NumbersTyped, CmdType, LinkType, Conns,
         DialedInv, WorkerAt, Known, LostInv, TokenInv
<1>11. DialedInv'
  BY <1>1, <1>2
     DEF Inv, DialedInv, CmdAt, WorkerAt, Known, TypeInv, NumbersTyped, LinkType, Conns,
         ConnInv
<1>12. LostInv'
  BY <1>1
     DEF Inv, LostInv, WorkerAt, TypeInv, FlagsTyped, ConnInv, CmdAt, TokenInv
<1>13. TimedInv'
  BY <1>1, <1>2
     DEF Inv, TimedInv, CmdAt, Task, TypeInv, FlagsTyped, NumbersTyped, ConnInv, LostInv,
         WorkerAt, MessageInv
<1> QED
  BY <1>6, <1>7, <1>8, <1>9, <1>10, <1>11, <1>12, <1>13 DEF Inv

LEMMA CreatePushStep == ASSUME Inv, CreatePush PROVE Inv'
<1>1. CASE /\ cmd.at = "idle"
           /\ stopping["cmd"].at = "running"
           /\ state = "IN_CALL"
           /\ pushNeeded' = FALSE
           /\ pushCreated' = TRUE
           /\ push' = TRUE
           /\ UNCHANGED <<state, attempt, fresh, hconn, startPending, timed, serving, link,
                         bound, asked, tasks, owner, ownerId, cancelled, ticket, endAsked, transition,
                         cmd, worker, stopping>>
  <2>1. Tasks' = Tasks
    BY <1>1 DEF Tasks
  <2>2. FlagsTyped'
    BY <1>1 DEF Inv, TypeInv, FlagsTyped
  <2>3. NumbersTyped' /\ SetsTyped'
    BY <1>1 DEF Inv, TypeInv, SetsTyped, NumbersTyped
  <2>4. TypeInv'
    BY <2>2, <2>3, <1>1 DEF Inv, TypeInv
  <2>5. ServeInv' /\ StopInv' /\ QuietInv' /\ TokenInv' /\ ConnInv' /\ DialedInv' /\ FinishInv' /\ BusyInv' /\ LostInv' /\ MessageInv' /\ ClosedInv' /\ TimedInv'
    BY <1>1, <2>1
       DEF Inv, ServeInv, StopInv, CmdAt, QuietInv, TokenInv, WorkerAt, ConnInv, DialedInv,
           Known, FinishInv, BusyInv, LostInv, MessageInv, ClosedInv, TimedInv
  <2> QED
    BY <2>4, <2>5 DEF Inv
<1>2. CASE /\ cmd.at = "idle"
           /\ stopping["cmd"].at = "running"
           /\ state = "IN_CALL"
           /\ pushNeeded' = FALSE
           /\ cmd' = [at |-> "stop", conn |-> cmd.conn]
           /\ UNCHANGED <<state, attempt, fresh, hconn, startPending, timed, pushCreated, push,
                         serving, link, bound, asked, tasks, owner, ownerId, cancelled, ticket, endAsked,
                         transition, worker, stopping>>
  <2>1. Tasks' = Tasks
    BY <1>2 DEF Tasks
  <2>2. FlagsTyped'
    <3>1. pushNeeded' \in BOOLEAN
      BY <1>2
    <3> QED
      BY <1>2, <3>1 DEF Inv, TypeInv, FlagsTyped
  <2>3. NumbersTyped' /\ SetsTyped'
    BY <1>2, BoundsAssumption DEF Inv, TypeInv, SetsTyped, NumbersTyped
  <2>4. cmd' \in CmdType
    BY <1>2, BoundsAssumption
       DEF Inv, TypeInv, CmdType, NumbersTyped
  <2>5. TypeInv'
    BY <2>2, <2>3, <2>4, <1>2 DEF Inv, TypeInv
  <2>6. ServeInv' /\ QuietInv' /\ FinishInv' /\ BusyInv' /\ LostInv' /\ MessageInv' /\ ClosedInv'
    BY <1>2, <2>1
       DEF Inv, ServeInv, QuietInv, FinishInv, BusyInv, WorkerAt, LostInv, MessageInv,
           ClosedInv
  <2>7. StopInv'
    BY <1>2
       DEF Inv, StopInv, CmdAt, TypeInv, Stoppers
  <2>8. TokenInv'
    BY <1>2
       DEF Inv, TokenInv, CmdAt, WorkerAt, TypeInv, FlagsTyped, TaskType, Conns, ServeInv,
           StopInv, QuietInv, BusyInv, ConnInv
  <2>9. ConnInv'
    BY <1>2
       DEF Inv, ConnInv, CmdAt, TypeInv, FlagsTyped, NumbersTyped, CmdType, LinkType,
           Conns, DialedInv, WorkerAt, Known, LostInv, TokenInv
  <2>10. DialedInv'
    BY <1>2, <2>1
       DEF Inv, DialedInv, CmdAt, WorkerAt, Known, TypeInv, NumbersTyped, LinkType, Conns,
           ConnInv
  <2>11. TimedInv'
    BY <1>2, <2>1
       DEF Inv, TimedInv, CmdAt, Task, TypeInv, FlagsTyped, NumbersTyped, ConnInv, LostInv,
           WorkerAt, MessageInv
  <2> QED
    BY <2>5, <2>6, <2>7, <2>8, <2>9, <2>10, <2>11 DEF Inv
<1> QED
  BY <1>1, <1>2 DEF CreatePush, CmdAt, CmdGo, Idle, arbiterVars, connVars, sdkVars

LEMMA TakeLostStep == ASSUME Inv, TakeLost PROVE Inv'
<1>1. CASE /\ worker.at = "idle"
           /\ Head(tasks) \in Tasks /\ Head(tasks) \in TaskType
           /\ tasks' \in Seq(TaskType)
           /\ Tasks' \subseteq Tasks /\ Tasks \subseteq Tasks' \cup {Head(tasks)}
           /\ Head(tasks).do \in {"disconnect", "finish"}
           /\ hconn = Head(tasks).conn
           /\ state \in {"CONNECTING", "IN_CALL"}
           /\ state' = "DISCONNECTING"
           /\ hconn' = 0
           /\ startPending' = FALSE
           /\ timed' = FALSE
           /\ pushNeeded' = FALSE
           /\ pushCreated' = FALSE
           /\ worker' = [at |-> "lost", task |-> Head(tasks), join |-> pushCreated]
           /\ UNCHANGED <<attempt, fresh, push, serving, link, bound, asked, owner, ownerId,
                         cancelled, ticket, endAsked, transition, cmd, stopping>>
  <2>1. FlagsTyped'
    BY <1>1, BoundsAssumption DEF Inv, TypeInv, FlagsTyped
  <2>2. NumbersTyped' /\ SetsTyped'
    BY <1>1, BoundsAssumption DEF Inv, TypeInv, SetsTyped, NumbersTyped, Conns
  <2>3. worker' \in WorkerType
    BY <1>1, BoundsAssumption, FirstTask
       DEF Inv, TypeInv, WorkerType, FlagsTyped
  <2>4. TypeInv'
    BY <2>1, <2>2, <2>3, <1>1 DEF Inv, TypeInv
  <2>5. ServeInv' /\ StopInv'
    BY <1>1
       DEF Inv, ServeInv, StopInv, CmdAt
  <2>6. QuietInv'
    BY <1>1
       DEF Inv, QuietInv, TypeInv, FlagsTyped, Stoppers, Conns, ServeInv, StopInv, CmdAt,
           TokenInv, WorkerAt
  <2>7. TokenInv'
    BY <1>1
       DEF Inv, TokenInv, CmdAt, WorkerAt, TypeInv, FlagsTyped, TaskType, Conns, ServeInv,
           StopInv, QuietInv, BusyInv, ConnInv
  <2>8. ConnInv'
    BY <1>1
       DEF Inv, ConnInv, CmdAt, TypeInv, FlagsTyped, NumbersTyped, CmdType, LinkType,
           Conns, DialedInv, WorkerAt, Known, LostInv, TokenInv
  <2>9. DialedInv'
    BY <1>1, TasksTyped
       DEF Inv, DialedInv, CmdAt, WorkerAt, Known, TypeInv, NumbersTyped, LinkType, Conns,
           ConnInv, Task, TaskType
  <2>10. FinishInv'
    BY <1>1, TasksTyped
       DEF Inv, FinishInv, TypeInv, LinkType, DialedInv, CmdAt, WorkerAt, Known, ConnInv,
           Task, TaskType
  <2>11. BusyInv'
    BY <1>1
       DEF Inv, BusyInv, WorkerAt, TypeInv, FlagsTyped, TaskType, Conns, ServeInv, QuietInv
  <2>12. LostInv'
    BY <1>1
       DEF Inv, LostInv, WorkerAt, TypeInv, FlagsTyped, ConnInv, CmdAt, TokenInv
  <2>13. MessageInv'
    BY <1>1
       DEF Inv, MessageInv, WorkerAt, TypeInv, FlagsTyped, NumbersTyped, WorkerType,
           TaskType, LinkType, Conns, ConnInv, CmdAt, TokenInv, DialedInv, Known
  <2>14. ClosedInv'
    BY <1>1, TaskIs
       DEF Inv, ClosedInv, WorkerAt, Task, TypeInv, LinkType, NumbersTyped, Conns, ConnInv,
           CmdAt, FinishInv, DialedInv, Known, LostInv
  <2>15. TimedInv'
    BY <1>1
       DEF Inv, TimedInv, CmdAt, Task, TypeInv, FlagsTyped, NumbersTyped, ConnInv, LostInv,
           WorkerAt, MessageInv
  <2> QED
    BY <2>4, <2>5, <2>6, <2>7, <2>8, <2>9, <2>10, <2>11, <2>12, <2>13, <2>14, <2>15 DEF Inv
<1>2. CASE /\ worker.at = "idle"
           /\ Head(tasks) \in Tasks /\ Head(tasks) \in TaskType
           /\ tasks' \in Seq(TaskType)
           /\ Tasks' \subseteq Tasks /\ Tasks \subseteq Tasks' \cup {Head(tasks)}
           /\ Head(tasks).do = "disconnect"
           /\ ~(hconn = Head(tasks).conn /\ state \in {"CONNECTING", "IN_CALL"})
           /\ link' = [x \in Conns |-> IF x = Head(tasks).conn /\ link[x] = "open" THEN "closing" ELSE link[x]]
           /\ UNCHANGED <<state, attempt, fresh, hconn, startPending, timed, pushNeeded,
                         pushCreated, push, serving, bound, asked, owner, ownerId, cancelled, ticket,
                         endAsked, transition, cmd, worker, stopping>>
  <2>1. FlagsTyped'
    BY <1>2 DEF Inv, TypeInv, FlagsTyped
  <2>2. NumbersTyped' /\ SetsTyped'
    BY <1>2 DEF Inv, TypeInv, SetsTyped, NumbersTyped
  <2>3. link' \in LinkType
    BY <1>2
       DEF Inv, TypeInv, LinkType
  <2>4. TypeInv'
    BY <2>1, <2>2, <2>3, <1>2 DEF Inv, TypeInv
  <2>5. ServeInv' /\ StopInv' /\ QuietInv' /\ TokenInv' /\ BusyInv' /\ LostInv'
    BY <1>2
       DEF Inv, ServeInv, StopInv, CmdAt, QuietInv, TokenInv, WorkerAt, BusyInv, LostInv
  <2>6. ConnInv'
    BY <1>2
       DEF Inv, ConnInv, CmdAt, TypeInv, FlagsTyped, NumbersTyped, CmdType, LinkType,
           Conns, DialedInv, WorkerAt, Known, LostInv, TokenInv
  <2>7. DialedInv'
    BY <1>2, TasksTyped
       DEF Inv, DialedInv, CmdAt, WorkerAt, Known, TypeInv, NumbersTyped, LinkType, Conns,
           ConnInv, Task, TaskType
  <2>8. FinishInv'
    BY <1>2, TasksTyped, TasksTyped
       DEF Inv, FinishInv, TypeInv, LinkType, DialedInv, CmdAt, WorkerAt, Known, ConnInv,
           TaskType, Task
  <2>9. MessageInv'
    BY <1>2
       DEF Inv, MessageInv, WorkerAt, TypeInv, FlagsTyped, NumbersTyped, WorkerType,
           TaskType, LinkType, Conns, ConnInv, CmdAt, TokenInv, DialedInv, Known
  <2>10. ClosedInv'
    BY <1>2, TaskIs
       DEF Inv, ClosedInv, WorkerAt, Task, TypeInv, LinkType, NumbersTyped, Conns, ConnInv,
           CmdAt, FinishInv, DialedInv, Known, LostInv
  <2>11. TimedInv'
    BY <1>2
       DEF Inv, TimedInv, CmdAt, Task, TypeInv, FlagsTyped, NumbersTyped, ConnInv, LostInv,
           WorkerAt, MessageInv
  <2> QED
    BY <2>4, <2>5, <2>6, <2>7, <2>8, <2>9, <2>10, <2>11 DEF Inv
<1>3. CASE /\ worker.at = "idle"
           /\ Head(tasks) \in Tasks /\ Head(tasks) \in TaskType
           /\ tasks' \in Seq(TaskType)
           /\ Tasks' \subseteq Tasks /\ Tasks \subseteq Tasks' \cup {Head(tasks)}
           /\ Head(tasks).do = "finish"
           /\ ~(hconn = Head(tasks).conn /\ state \in {"CONNECTING", "IN_CALL"})
           /\ UNCHANGED <<state, attempt, fresh, hconn, startPending, timed, pushNeeded,
                         pushCreated, push, serving, link, bound, asked, owner, ownerId, cancelled,
                         ticket, endAsked, transition, cmd, worker, stopping>>
  <2>1. FlagsTyped'
    BY <1>3 DEF Inv, TypeInv, FlagsTyped
  <2>2. NumbersTyped' /\ SetsTyped'
    BY <1>3 DEF Inv, TypeInv, SetsTyped, NumbersTyped
  <2>3. TypeInv'
    BY <2>1, <2>2, <1>3 DEF Inv, TypeInv
  <2>4. ServeInv' /\ StopInv' /\ QuietInv' /\ TokenInv' /\ ConnInv' /\ BusyInv' /\ LostInv' /\ MessageInv'
    BY <1>3
       DEF Inv, ServeInv, StopInv, CmdAt, QuietInv, TokenInv, WorkerAt, ConnInv, BusyInv,
           LostInv, MessageInv
  <2>5. DialedInv'
    BY <1>3, TasksTyped
       DEF Inv, DialedInv, CmdAt, WorkerAt, Known, TypeInv, NumbersTyped, LinkType, Conns,
           ConnInv, Task, TaskType
  <2>6. FinishInv'
    BY <1>3, TasksTyped
       DEF Inv, FinishInv, TypeInv, LinkType, DialedInv, CmdAt, WorkerAt, Known, ConnInv,
           Task, TaskType
  <2>7. ClosedInv'
    BY <1>3, TaskIs
       DEF Inv, ClosedInv, WorkerAt, Task, TypeInv, LinkType, NumbersTyped, Conns, ConnInv,
           CmdAt, FinishInv, DialedInv, Known, LostInv
  <2>8. TimedInv'
    BY <1>3
       DEF Inv, TimedInv, CmdAt, Task, TypeInv, FlagsTyped, NumbersTyped, ConnInv, LostInv,
           WorkerAt, MessageInv
  <2> QED
    BY <2>3, <2>4, <2>5, <2>6, <2>7, <2>8 DEF Inv
<1> QED
  BY <1>1, <1>2, <1>3, HeadTaken DEF TakeLost, WorkerAt, workerFrame, leaseFrame, Inv, Disconnect

LEMMA LostStep == ASSUME Inv, Lost PROVE Inv'
<1>1. CASE /\ worker.at = "lost"
           /\ worker.task.do = "disconnect"
           /\ worker' = [at |-> "idle", task |-> Task("close", 1), join |-> FALSE]
           /\ state' = "IDLE"
           /\ push' \in BOOLEAN
           /\ endAsked' \in BOOLEAN
           /\ link' = [x \in Conns |-> IF x = worker.task.conn /\ link[x] = "open" THEN "closing" ELSE link[x]]
           /\ UNCHANGED <<attempt, fresh, hconn, startPending, timed, pushNeeded, pushCreated,
                         serving, bound, asked, tasks, owner, ownerId, cancelled, ticket, transition, cmd,
                         stopping>>
  <2>1. Tasks' = Tasks
    BY <1>1 DEF Tasks
  <2>2. FlagsTyped'
    BY <1>1 DEF Inv, TypeInv, FlagsTyped
  <2>3. NumbersTyped' /\ SetsTyped'
    BY <1>1 DEF Inv, TypeInv, SetsTyped, NumbersTyped
  <2>4. link' \in LinkType
    BY <1>1
       DEF Inv, TypeInv, LinkType
  <2>5. worker' \in WorkerType
    BY <1>1, FirstTask
       DEF Inv, TypeInv, WorkerType, FlagsTyped
  <2>6. TypeInv'
    BY <2>2, <2>3, <2>4, <2>5, <1>1 DEF Inv, TypeInv
  <2>7. ServeInv' /\ StopInv' /\ QuietInv'
    BY <1>1
       DEF Inv, ServeInv, StopInv, CmdAt, QuietInv
  <2>8. TokenInv'
    BY <1>1
       DEF Inv, TokenInv, CmdAt, WorkerAt, TypeInv, FlagsTyped, TaskType, Conns, ServeInv,
           StopInv, QuietInv, BusyInv, ConnInv
  <2>9. ConnInv'
    BY <1>1
       DEF Inv, ConnInv, CmdAt, TypeInv, FlagsTyped, NumbersTyped, CmdType, LinkType,
           Conns, DialedInv, WorkerAt, Known, LostInv, TokenInv
  <2>10. DialedInv'
    BY <1>1, <2>1
       DEF Inv, DialedInv, CmdAt, WorkerAt, Known, TypeInv, NumbersTyped, LinkType, Conns,
           ConnInv
  <2>11. FinishInv'
    BY <1>1, <2>1, TasksTyped
       DEF Inv, FinishInv, TypeInv, LinkType, DialedInv, CmdAt, WorkerAt, Known, ConnInv,
           TaskType
  <2>12. BusyInv'
    BY <1>1
       DEF Inv, BusyInv, WorkerAt, TypeInv, FlagsTyped, TaskType, Conns, ServeInv, QuietInv
  <2>13. LostInv'
    BY <1>1
       DEF Inv, LostInv, WorkerAt, TypeInv, FlagsTyped, ConnInv, CmdAt, TokenInv
  <2>14. MessageInv'
    BY <1>1
       DEF Inv, MessageInv, WorkerAt, TypeInv, FlagsTyped, NumbersTyped, WorkerType,
           TaskType, LinkType, Conns, ConnInv, CmdAt, TokenInv, DialedInv, Known
  <2>15. ClosedInv'
    BY <1>1, <2>1
       DEF Inv, ClosedInv, WorkerAt, Task, TypeInv, LinkType, NumbersTyped, Conns, ConnInv,
           CmdAt, FinishInv, DialedInv, Known, LostInv
  <2>16. TimedInv'
    BY <1>1, <2>1
       DEF Inv, TimedInv, CmdAt, Task, TypeInv, FlagsTyped, NumbersTyped, ConnInv, LostInv,
           WorkerAt, MessageInv
  <2> QED
    BY <2>6, <2>7, <2>8, <2>9, <2>10, <2>11, <2>12, <2>13, <2>14, <2>15, <2>16 DEF Inv
<1>2. CASE /\ worker.at = "lost"
           /\ worker.task.do # "disconnect"
           /\ worker' = [at |-> "idle", task |-> Task("close", 1), join |-> FALSE]
           /\ state' = "IDLE"
           /\ push' \in BOOLEAN
           /\ endAsked' \in BOOLEAN
           /\ UNCHANGED <<attempt, fresh, hconn, startPending, timed, pushNeeded, pushCreated,
                         serving, link, bound, asked, tasks, owner, ownerId, cancelled, ticket,
                         transition, cmd, stopping>>
  <2>1. Tasks' = Tasks
    BY <1>2 DEF Tasks
  <2>2. FlagsTyped'
    BY <1>2 DEF Inv, TypeInv, FlagsTyped
  <2>3. NumbersTyped' /\ SetsTyped'
    BY <1>2 DEF Inv, TypeInv, SetsTyped, NumbersTyped
  <2>4. worker' \in WorkerType
    BY <1>2, FirstTask
       DEF Inv, TypeInv, WorkerType, FlagsTyped
  <2>5. TypeInv'
    BY <2>2, <2>3, <2>4, <1>2 DEF Inv, TypeInv
  <2>6. ServeInv' /\ StopInv' /\ QuietInv' /\ FinishInv'
    BY <1>2, <2>1
       DEF Inv, ServeInv, StopInv, CmdAt, QuietInv, FinishInv
  <2>7. TokenInv'
    BY <1>2
       DEF Inv, TokenInv, CmdAt, WorkerAt, TypeInv, FlagsTyped, TaskType, Conns, ServeInv,
           StopInv, QuietInv, BusyInv, ConnInv
  <2>8. ConnInv'
    BY <1>2
       DEF Inv, ConnInv, CmdAt, TypeInv, FlagsTyped, NumbersTyped, CmdType, LinkType,
           Conns, DialedInv, WorkerAt, Known, LostInv, TokenInv
  <2>9. DialedInv'
    BY <1>2, <2>1
       DEF Inv, DialedInv, CmdAt, WorkerAt, Known, TypeInv, NumbersTyped, LinkType, Conns,
           ConnInv
  <2>10. BusyInv'
    BY <1>2
       DEF Inv, BusyInv, WorkerAt, TypeInv, FlagsTyped, TaskType, Conns, ServeInv, QuietInv
  <2>11. LostInv'
    BY <1>2
       DEF Inv, LostInv, WorkerAt, TypeInv, FlagsTyped, ConnInv, CmdAt, TokenInv
  <2>12. MessageInv'
    BY <1>2
       DEF Inv, MessageInv, WorkerAt, TypeInv, FlagsTyped, NumbersTyped, WorkerType,
           TaskType, LinkType, Conns, ConnInv, CmdAt, TokenInv, DialedInv, Known
  <2>13. ClosedInv'
    BY <1>2, <2>1
       DEF Inv, ClosedInv, WorkerAt, Task, TypeInv, LinkType, NumbersTyped, Conns, ConnInv,
           CmdAt, FinishInv, DialedInv, Known, LostInv
  <2>14. TimedInv'
    BY <1>2, <2>1
       DEF Inv, TimedInv, CmdAt, Task, TypeInv, FlagsTyped, NumbersTyped, ConnInv, LostInv,
           WorkerAt, MessageInv
  <2> QED
    BY <2>5, <2>6, <2>7, <2>8, <2>9, <2>10, <2>11, <2>12, <2>13, <2>14 DEF Inv
<1> QED
  BY <1>1, <1>2 DEF Lost, WorkerAt, workerFrame, leaseFrame, WorkerRests, EndSession, Disconnect

LEMMA TakeCommandStep == ASSUME Inv, TakeCommand PROVE Inv'
<1>1. CASE /\ worker.at = "idle"
           /\ Head(tasks) \in Tasks /\ Head(tasks) \in TaskType
           /\ tasks' \in Seq(TaskType)
           /\ Tasks' \subseteq Tasks /\ Tasks \subseteq Tasks' \cup {Head(tasks)}
           /\ Head(tasks).do = "command"
           /\ hconn = Head(tasks).conn
           /\ state # "IDLE"
           /\ worker' = [at |-> "message", task |-> Head(tasks), join |-> worker.join]
           /\ UNCHANGED <<state, attempt, fresh, hconn, startPending, timed, pushNeeded,
                         pushCreated, push, serving, link, bound, asked, owner, ownerId, cancelled,
                         ticket, endAsked, transition, cmd, stopping>>
  <2>1. FlagsTyped'
    BY <1>1 DEF Inv, TypeInv, FlagsTyped
  <2>2. NumbersTyped' /\ SetsTyped'
    BY <1>1 DEF Inv, TypeInv, SetsTyped, NumbersTyped
  <2>3. worker' \in WorkerType
    BY <1>1, FirstTask
       DEF Inv, TypeInv, WorkerType, FlagsTyped
  <2>4. TypeInv'
    BY <2>1, <2>2, <2>3, <1>1 DEF Inv, TypeInv
  <2>5. ServeInv' /\ StopInv' /\ QuietInv' /\ ConnInv'
    BY <1>1
       DEF Inv, ServeInv, StopInv, CmdAt, QuietInv, ConnInv
  <2>6. TokenInv'
    BY <1>1
       DEF Inv, TokenInv, CmdAt, WorkerAt, TypeInv, FlagsTyped, TaskType, Conns, ServeInv,
           StopInv, QuietInv, BusyInv, ConnInv
  <2>7. DialedInv'
    BY <1>1, TasksTyped
       DEF Inv, DialedInv, CmdAt, WorkerAt, Known, TypeInv, NumbersTyped, LinkType, Conns,
           ConnInv, Task, TaskType
  <2>8. FinishInv'
    BY <1>1, TasksTyped
       DEF Inv, FinishInv, TypeInv, LinkType, DialedInv, CmdAt, WorkerAt, Known, ConnInv,
           Task, TaskType
  <2>9. BusyInv'
    BY <1>1
       DEF Inv, BusyInv, WorkerAt, TypeInv, FlagsTyped, TaskType, Conns, ServeInv, QuietInv
  <2>10. LostInv'
    BY <1>1
       DEF Inv, LostInv, WorkerAt, TypeInv, FlagsTyped, ConnInv, CmdAt, TokenInv
  <2>11. MessageInv'
    BY <1>1
       DEF Inv, MessageInv, WorkerAt, TypeInv, FlagsTyped, NumbersTyped, WorkerType,
           TaskType, LinkType, Conns, ConnInv, CmdAt, TokenInv, DialedInv, Known
  <2>12. ClosedInv'
    BY <1>1, TaskIs
       DEF Inv, ClosedInv, WorkerAt, Task, TypeInv, LinkType, NumbersTyped, Conns, ConnInv,
           CmdAt, FinishInv, DialedInv, Known, LostInv
  <2>13. TimedInv'
    BY <1>1
       DEF Inv, TimedInv, CmdAt, Task, TypeInv, FlagsTyped, NumbersTyped, ConnInv, LostInv,
           WorkerAt, MessageInv
  <2> QED
    BY <2>4, <2>5, <2>6, <2>7, <2>8, <2>9, <2>10, <2>11, <2>12, <2>13 DEF Inv
<1>2. CASE /\ worker.at = "idle"
           /\ Head(tasks) \in Tasks /\ Head(tasks) \in TaskType
           /\ tasks' \in Seq(TaskType)
           /\ Tasks' \subseteq Tasks /\ Tasks \subseteq Tasks' \cup {Head(tasks)}
           /\ Head(tasks).do = "command"
           /\ UNCHANGED <<state, attempt, fresh, hconn, startPending, timed, pushNeeded,
                         pushCreated, push, serving, link, bound, asked, owner, ownerId, cancelled,
                         ticket, endAsked, transition, cmd, worker, stopping>>
  <2>1. FlagsTyped'
    BY <1>2 DEF Inv, TypeInv, FlagsTyped
  <2>2. NumbersTyped' /\ SetsTyped'
    BY <1>2 DEF Inv, TypeInv, SetsTyped, NumbersTyped
  <2>3. TypeInv'
    BY <2>1, <2>2, <1>2 DEF Inv, TypeInv
  <2>4. ServeInv' /\ StopInv' /\ QuietInv' /\ TokenInv' /\ ConnInv' /\ BusyInv' /\ LostInv' /\ MessageInv'
    BY <1>2
       DEF Inv, ServeInv, StopInv, CmdAt, QuietInv, TokenInv, WorkerAt, ConnInv, BusyInv,
           LostInv, MessageInv
  <2>5. DialedInv'
    BY <1>2, TasksTyped
       DEF Inv, DialedInv, CmdAt, WorkerAt, Known, TypeInv, NumbersTyped, LinkType, Conns,
           ConnInv, Task, TaskType
  <2>6. FinishInv'
    BY <1>2, TasksTyped
       DEF Inv, FinishInv, TypeInv, LinkType, DialedInv, CmdAt, WorkerAt, Known, ConnInv,
           Task, TaskType
  <2>7. ClosedInv'
    BY <1>2, TaskIs
       DEF Inv, ClosedInv, WorkerAt, Task, TypeInv, LinkType, NumbersTyped, Conns, ConnInv,
           CmdAt, FinishInv, DialedInv, Known, LostInv
  <2>8. TimedInv'
    BY <1>2
       DEF Inv, TimedInv, CmdAt, Task, TypeInv, FlagsTyped, NumbersTyped, ConnInv, LostInv,
           WorkerAt, MessageInv
  <2> QED
    BY <2>3, <2>4, <2>5, <2>6, <2>7, <2>8 DEF Inv
<1> QED
  BY <1>1, <1>2, HeadTaken DEF TakeCommand, WorkerAt, workerFrame, leaseFrame, Inv, TypeInv, WorkerType,
         connVars, pushVars

LEMMA HandleMessageStep == ASSUME Inv, HandleMessage PROVE Inv'
<1>a. tasks' = Append(tasks, Task("disconnect", worker.task.conn)) =>
          /\ tasks' \in Seq(TaskType) /\ Tasks' = Tasks \cup {Task("disconnect", worker.task.conn)}
          /\ Task("disconnect", worker.task.conn) \in TaskType
  BY TasksAppended, TaskTyped DEF Inv, TypeInv, WorkerType, TaskType
<1>b. timed' = (timed /\ hconn = 0) \/ timed' = timed =>
          timed' \in BOOLEAN /\ (timed' => timed) /\ (hconn = 0 /\ timed => timed')
  BY DeadlineKept DEF Inv, TypeInv, FlagsTyped
<1>1. CASE /\ worker.at = "message"
           /\ worker' = [at |-> "idle", task |-> Task("close", 1), join |-> FALSE]
           /\ state' = "IN_CALL"
           /\ timed' = (timed /\ hconn = 0)
           /\ pushNeeded' = TRUE
           /\ UNCHANGED <<attempt, fresh, hconn, startPending, pushCreated, push, serving,
                         link, bound, asked, tasks, owner, ownerId, cancelled, ticket, endAsked,
                         transition, cmd, stopping>>
  <2>1. Tasks' = Tasks
    BY <1>1 DEF Tasks
  <2>2. FlagsTyped'
    BY <1>1 DEF Inv, TypeInv, FlagsTyped
  <2>3. NumbersTyped' /\ SetsTyped'
    BY <1>1 DEF Inv, TypeInv, SetsTyped, NumbersTyped
  <2>4. worker' \in WorkerType
    BY <1>1, FirstTask
       DEF Inv, TypeInv, WorkerType, FlagsTyped
  <2>5. TypeInv'
    BY <2>2, <2>3, <2>4, <1>1 DEF Inv, TypeInv
  <2>6. ServeInv' /\ StopInv' /\ QuietInv' /\ FinishInv'
    BY <1>1, <2>1
       DEF Inv, ServeInv, StopInv, CmdAt, QuietInv, FinishInv
  <2>7. TokenInv'
    BY <1>1
       DEF Inv, TokenInv, CmdAt, WorkerAt, TypeInv, FlagsTyped, TaskType, Conns, ServeInv,
           StopInv, QuietInv, BusyInv, ConnInv
  <2>8. ConnInv'
    BY <1>1
       DEF Inv, ConnInv, CmdAt, TypeInv, FlagsTyped, NumbersTyped, CmdType, LinkType,
           Conns, DialedInv, WorkerAt, Known, LostInv, TokenInv
  <2>9. DialedInv'
    BY <1>1, <2>1
       DEF Inv, DialedInv, CmdAt, WorkerAt, Known, TypeInv, NumbersTyped, LinkType, Conns,
           ConnInv
  <2>10. BusyInv'
    BY <1>1
       DEF Inv, BusyInv, WorkerAt, TypeInv, FlagsTyped, TaskType, Conns, ServeInv, QuietInv
  <2>11. LostInv'
    BY <1>1
       DEF Inv, LostInv, WorkerAt, TypeInv, FlagsTyped, ConnInv, CmdAt, TokenInv
  <2>12. MessageInv'
    BY <1>1
       DEF Inv, MessageInv, WorkerAt, TypeInv, FlagsTyped, NumbersTyped, WorkerType,
           TaskType, LinkType, Conns, ConnInv, CmdAt, TokenInv, DialedInv, Known
  <2>13. ClosedInv'
    BY <1>1, <2>1
       DEF Inv, ClosedInv, WorkerAt, Task, TypeInv, LinkType, NumbersTyped, Conns, ConnInv,
           CmdAt, FinishInv, DialedInv, Known, LostInv
  <2>14. TimedInv'
    BY <1>1, <2>1
       DEF Inv, TimedInv, CmdAt, Task, TypeInv, FlagsTyped, NumbersTyped, ConnInv, LostInv,
           WorkerAt, MessageInv
  <2> QED
    BY <2>5, <2>6, <2>7, <2>8, <2>9, <2>10, <2>11, <2>12, <2>13, <2>14 DEF Inv
<1>2. CASE /\ worker.at = "message"
           /\ Task("disconnect", worker.task.conn) \in TaskType
           /\ tasks' \in Seq(TaskType)
           /\ Tasks' = Tasks \cup {Task("disconnect", worker.task.conn)}
           /\ worker' = [at |-> "idle", task |-> Task("close", 1), join |-> FALSE]
           /\ timed' \in BOOLEAN /\ (timed' => timed) /\ (hconn = 0 /\ timed => timed')
           /\ UNCHANGED <<state, attempt, fresh, hconn, startPending, pushNeeded, pushCreated,
                         push, serving, link, bound, asked, owner, ownerId, cancelled, ticket, endAsked,
                         transition, cmd, stopping>>
  <2>1. FlagsTyped'
    BY <1>2 DEF Inv, TypeInv, FlagsTyped
  <2>2. NumbersTyped' /\ SetsTyped'
    BY <1>2 DEF Inv, TypeInv, SetsTyped, NumbersTyped
  <2>3. worker' \in WorkerType
    BY <1>2, FirstTask
       DEF Inv, TypeInv, WorkerType, FlagsTyped
  <2>4. TypeInv'
    BY <2>1, <2>2, <2>3, <1>2 DEF Inv, TypeInv
  <2>5. ServeInv' /\ StopInv' /\ QuietInv'
    BY <1>2
       DEF Inv, ServeInv, StopInv, CmdAt, QuietInv
  <2>6. TokenInv'
    BY <1>2
       DEF Inv, TokenInv, CmdAt, WorkerAt, TypeInv, FlagsTyped, TaskType, Conns, ServeInv,
           StopInv, QuietInv, BusyInv, ConnInv
  <2>7. ConnInv'
    BY <1>2
       DEF Inv, ConnInv, CmdAt, TypeInv, FlagsTyped, NumbersTyped, CmdType, LinkType,
           Conns, DialedInv, WorkerAt, Known, LostInv, TokenInv
  <2>8. DialedInv'
    BY <1>2, TasksTyped
       DEF Inv, DialedInv, CmdAt, WorkerAt, Known, TypeInv, NumbersTyped, LinkType, Conns,
           ConnInv, Task, TaskType
  <2>9. FinishInv'
    BY <1>2, TasksTyped
       DEF Inv, FinishInv, TypeInv, LinkType, DialedInv, CmdAt, WorkerAt, Known, ConnInv,
           Task, TaskType
  <2>10. BusyInv'
    BY <1>2
       DEF Inv, BusyInv, WorkerAt, TypeInv, FlagsTyped, TaskType, Conns, ServeInv, QuietInv
  <2>11. LostInv'
    BY <1>2
       DEF Inv, LostInv, WorkerAt, TypeInv, FlagsTyped, ConnInv, CmdAt, TokenInv
  <2>12. MessageInv'
    BY <1>2
       DEF Inv, MessageInv, WorkerAt, TypeInv, FlagsTyped, NumbersTyped, WorkerType,
           TaskType, LinkType, Conns, ConnInv, CmdAt, TokenInv, DialedInv, Known
  <2>13. ClosedInv'
    BY <1>2, TaskIs
       DEF Inv, ClosedInv, WorkerAt, Task, TypeInv, LinkType, NumbersTyped, Conns, ConnInv,
           CmdAt, FinishInv, DialedInv, Known, LostInv
  <2>14. TimedInv'
    BY <1>2
       DEF Inv, TimedInv, CmdAt, Task, TypeInv, FlagsTyped, NumbersTyped, ConnInv, LostInv,
           WorkerAt, MessageInv
  <2> QED
    BY <2>4, <2>5, <2>6, <2>7, <2>8, <2>9, <2>10, <2>11, <2>12, <2>13, <2>14 DEF Inv
<1> QED
  BY <1>1, <1>2, <1>a, <1>b DEF HandleMessage, WorkerAt, workerFrame, leaseFrame, WorkerRests

LEMMA TakeTaskStep == ASSUME Inv, TakeTask PROVE Inv'
<1>1. CASE /\ worker.at = "idle"
           /\ Head(tasks) \in Tasks /\ Head(tasks) \in TaskType
           /\ tasks' \in Seq(TaskType)
           /\ Tasks' \subseteq Tasks /\ Tasks \subseteq Tasks' \cup {Head(tasks)}
           /\ Head(tasks).do = "close"
           /\ link' = [x \in Conns |-> IF x = Head(tasks).conn /\ link[x] = "open" THEN "closing" ELSE link[x]]
           /\ UNCHANGED <<state, attempt, fresh, hconn, startPending, timed, pushNeeded,
                         pushCreated, push, serving, bound, asked, owner, ownerId, cancelled, ticket,
                         endAsked, transition, cmd, worker, stopping>>
  <2>1. FlagsTyped'
    BY <1>1 DEF Inv, TypeInv, FlagsTyped
  <2>2. NumbersTyped' /\ SetsTyped'
    BY <1>1 DEF Inv, TypeInv, SetsTyped, NumbersTyped
  <2>3. link' \in LinkType
    BY <1>1
       DEF Inv, TypeInv, LinkType
  <2>4. TypeInv'
    BY <2>1, <2>2, <2>3, <1>1 DEF Inv, TypeInv
  <2>5. ServeInv' /\ StopInv' /\ QuietInv' /\ TokenInv' /\ BusyInv' /\ LostInv'
    BY <1>1
       DEF Inv, ServeInv, StopInv, CmdAt, QuietInv, TokenInv, WorkerAt, BusyInv, LostInv
  <2>6. ConnInv'
    BY <1>1
       DEF Inv, ConnInv, CmdAt, TypeInv, FlagsTyped, NumbersTyped, CmdType, LinkType,
           Conns, DialedInv, WorkerAt, Known, LostInv, TokenInv
  <2>7. DialedInv'
    BY <1>1, TasksTyped
       DEF Inv, DialedInv, CmdAt, WorkerAt, Known, TypeInv, NumbersTyped, LinkType, Conns,
           ConnInv, Task, TaskType
  <2>8. FinishInv'
    BY <1>1, TasksTyped, TasksTyped
       DEF Inv, FinishInv, TypeInv, LinkType, DialedInv, CmdAt, WorkerAt, Known, ConnInv,
           TaskType, Task
  <2>9. MessageInv'
    BY <1>1
       DEF Inv, MessageInv, WorkerAt, TypeInv, FlagsTyped, NumbersTyped, WorkerType,
           TaskType, LinkType, Conns, ConnInv, CmdAt, TokenInv, DialedInv, Known
  <2>10. ClosedInv'
    BY <1>1, TaskIs
       DEF Inv, ClosedInv, WorkerAt, Task, TypeInv, LinkType, NumbersTyped, Conns, ConnInv,
           CmdAt, FinishInv, DialedInv, Known, LostInv
  <2>11. TimedInv'
    BY <1>1
       DEF Inv, TimedInv, CmdAt, Task, TypeInv, FlagsTyped, NumbersTyped, ConnInv, LostInv,
           WorkerAt, MessageInv
  <2> QED
    BY <2>4, <2>5, <2>6, <2>7, <2>8, <2>9, <2>10, <2>11 DEF Inv
<1>2. CASE /\ worker.at = "idle"
           /\ Head(tasks) \in Tasks /\ Head(tasks) \in TaskType
           /\ tasks' \in Seq(TaskType)
           /\ Tasks' \subseteq Tasks /\ Tasks \subseteq Tasks' \cup {Head(tasks)}
           /\ Head(tasks).do = "ended"
           /\ endAsked' \in BOOLEAN /\ (endAsked' => endAsked \/ fresh)
           /\ UNCHANGED <<state, attempt, fresh, hconn, startPending, timed, pushNeeded,
                         pushCreated, push, serving, link, bound, asked, owner, ownerId, cancelled,
                         ticket, transition, cmd, worker, stopping>>
  <2>1. FlagsTyped'
    BY <1>2 DEF Inv, TypeInv, FlagsTyped
  <2>2. NumbersTyped' /\ SetsTyped'
    BY <1>2 DEF Inv, TypeInv, SetsTyped, NumbersTyped
  <2>3. TypeInv'
    BY <2>1, <2>2, <1>2 DEF Inv, TypeInv
  <2>4. ServeInv' /\ StopInv' /\ QuietInv' /\ ConnInv' /\ BusyInv' /\ LostInv' /\ MessageInv'
    BY <1>2
       DEF Inv, ServeInv, StopInv, CmdAt, QuietInv, ConnInv, BusyInv, WorkerAt, LostInv,
           MessageInv
  <2>5. TokenInv'
    BY <1>2
       DEF Inv, TokenInv, CmdAt, WorkerAt, TypeInv, FlagsTyped, TaskType, Conns, ServeInv,
           StopInv, QuietInv, BusyInv, ConnInv
  <2>6. DialedInv'
    BY <1>2, TasksTyped
       DEF Inv, DialedInv, CmdAt, WorkerAt, Known, TypeInv, NumbersTyped, LinkType, Conns,
           ConnInv, Task, TaskType
  <2>7. FinishInv'
    BY <1>2, TasksTyped
       DEF Inv, FinishInv, TypeInv, LinkType, DialedInv, CmdAt, WorkerAt, Known, ConnInv,
           Task, TaskType
  <2>8. ClosedInv'
    BY <1>2, TaskIs
       DEF Inv, ClosedInv, WorkerAt, Task, TypeInv, LinkType, NumbersTyped, Conns, ConnInv,
           CmdAt, FinishInv, DialedInv, Known, LostInv
  <2>9. TimedInv'
    BY <1>2
       DEF Inv, TimedInv, CmdAt, Task, TypeInv, FlagsTyped, NumbersTyped, ConnInv, LostInv,
           WorkerAt, MessageInv
  <2> QED
    BY <2>3, <2>4, <2>5, <2>6, <2>7, <2>8, <2>9 DEF Inv
<1> QED
  BY <1>1, <1>2, HeadTaken DEF TakeTask, WorkerAt, workerFrame, leaseFrame, Inv, TypeInv, FlagsTyped, EndSession,
         Disconnect, connVars, pushVars

LEMMA StaleConnectedStep == ASSUME Inv, NEW c \in Conns, StaleConnected(c) PROVE Inv'
<1>a. Deferred(<<Task("close", c)>>) =>
          tasks' \in Seq(TaskType) /\ Tasks' = Tasks \cup {Task("close", c)}
  BY OneDeferred, TaskTyped DEF Inv
<1>1. CASE /\ link[c] = "dialing"
           /\ ~(fresh /\ attempt = c /\ state = "CONNECTING")
           /\ link' = [link EXCEPT ![c] = "none"]
           /\ UNCHANGED <<state, attempt, fresh, hconn, startPending, timed, pushNeeded,
                         pushCreated, push, serving, bound, asked, tasks, owner, ownerId, cancelled,
                         ticket, endAsked, transition, cmd, worker, stopping>>
  <2>1. Tasks' = Tasks
    BY <1>1 DEF Tasks
  <2>2. FlagsTyped'
    BY <1>1 DEF Inv, TypeInv, FlagsTyped
  <2>3. NumbersTyped' /\ SetsTyped'
    BY <1>1 DEF Inv, TypeInv, SetsTyped, NumbersTyped
  <2>4. link' \in LinkType
    BY <1>1
       DEF Inv, TypeInv, LinkType
  <2>5. TypeInv'
    BY <2>2, <2>3, <2>4, <1>1 DEF Inv, TypeInv
  <2>6. ServeInv' /\ StopInv' /\ QuietInv' /\ TokenInv' /\ BusyInv' /\ LostInv' /\ TimedInv'
    BY <1>1, <2>1
       DEF Inv, ServeInv, StopInv, CmdAt, QuietInv, TokenInv, WorkerAt, BusyInv, LostInv,
           TimedInv
  <2>7. ConnInv'
    BY <1>1
       DEF Inv, ConnInv, CmdAt, TypeInv, FlagsTyped, NumbersTyped, CmdType, LinkType,
           Conns, DialedInv, WorkerAt, Known, LostInv, TokenInv
  <2>8. DialedInv'
    BY <1>1, <2>1
       DEF Inv, DialedInv, CmdAt, WorkerAt, Known, TypeInv, NumbersTyped, LinkType, Conns,
           ConnInv
  <2>9. FinishInv'
    BY <1>1, <2>1, TasksTyped
       DEF Inv, FinishInv, TypeInv, LinkType, DialedInv, CmdAt, WorkerAt, Known, ConnInv,
           TaskType
  <2>10. MessageInv'
    BY <1>1
       DEF Inv, MessageInv, WorkerAt, TypeInv, FlagsTyped, NumbersTyped, WorkerType,
           TaskType, LinkType, Conns, ConnInv, CmdAt, TokenInv, DialedInv, Known
  <2>11. ClosedInv'
    BY <1>1, <2>1
       DEF Inv, ClosedInv, WorkerAt, Task, TypeInv, LinkType, NumbersTyped, Conns, ConnInv,
           CmdAt, FinishInv, DialedInv, Known, LostInv
  <2> QED
    BY <2>5, <2>6, <2>7, <2>8, <2>9, <2>10, <2>11 DEF Inv
<1>2. CASE /\ link[c] = "dialing"
           /\ ~(fresh /\ attempt = c /\ state = "CONNECTING")
           /\ tasks' \in Seq(TaskType)
           /\ Tasks' = Tasks \cup {Task("close", c)}
           /\ link' = [link EXCEPT ![c] = "open"]
           /\ UNCHANGED <<state, attempt, fresh, hconn, startPending, timed, pushNeeded,
                         pushCreated, push, serving, bound, asked, owner, ownerId, cancelled, ticket,
                         endAsked, transition, cmd, worker, stopping>>
  <2>1. FlagsTyped'
    BY <1>2 DEF Inv, TypeInv, FlagsTyped
  <2>2. NumbersTyped' /\ SetsTyped'
    BY <1>2 DEF Inv, TypeInv, SetsTyped, NumbersTyped
  <2>3. link' \in LinkType
    BY <1>2
       DEF Inv, TypeInv, LinkType
  <2>4. TypeInv'
    BY <2>1, <2>2, <2>3, <1>2 DEF Inv, TypeInv
  <2>5. ServeInv' /\ StopInv' /\ QuietInv' /\ TokenInv' /\ BusyInv' /\ LostInv'
    BY <1>2
       DEF Inv, ServeInv, StopInv, CmdAt, QuietInv, TokenInv, WorkerAt, BusyInv, LostInv
  <2>6. ConnInv'
    BY <1>2
       DEF Inv, ConnInv, CmdAt, TypeInv, FlagsTyped, NumbersTyped, CmdType, LinkType,
           Conns, DialedInv, WorkerAt, Known, LostInv, TokenInv
  <2>7. DialedInv'
    BY <1>2, TasksTyped
       DEF Inv, DialedInv, CmdAt, WorkerAt, Known, TypeInv, NumbersTyped, LinkType, Conns,
           ConnInv, Task, TaskType
  <2>8. FinishInv'
    BY <1>2, TasksTyped, TasksTyped
       DEF Inv, FinishInv, TypeInv, LinkType, DialedInv, CmdAt, WorkerAt, Known, ConnInv,
           TaskType, Task
  <2>9. MessageInv'
    BY <1>2
       DEF Inv, MessageInv, WorkerAt, TypeInv, FlagsTyped, NumbersTyped, WorkerType,
           TaskType, LinkType, Conns, ConnInv, CmdAt, TokenInv, DialedInv, Known
  <2>10. ClosedInv'
    BY <1>2, TaskIs
       DEF Inv, ClosedInv, WorkerAt, Task, TypeInv, LinkType, NumbersTyped, Conns, ConnInv,
           CmdAt, FinishInv, DialedInv, Known, LostInv
  <2>11. TimedInv'
    BY <1>2
       DEF Inv, TimedInv, CmdAt, Task, TypeInv, FlagsTyped, NumbersTyped, ConnInv, LostInv,
           WorkerAt, MessageInv
  <2> QED
    BY <2>4, <2>5, <2>6, <2>7, <2>8, <2>9, <2>10, <2>11 DEF Inv
<1> QED
  BY <1>1, <1>2, <1>a DEF StaleConnected, sdkFrame, arbiterVars, pushVars

LEMMA ConnectedStep == ASSUME Inv, NEW c \in Conns, Connected(c) PROVE Inv'
<1>a. Deferred(<<Task("ended", c)>>) =>
          tasks' \in Seq(TaskType) /\ Tasks' = Tasks \cup {Task("ended", c)}
  BY OneDeferred, TaskTyped DEF Inv
<1>b. Deferred(<<Task("close", c), Task("ended", c)>>) =>
          tasks' \in Seq(TaskType) /\ Tasks' = Tasks \cup {Task("close", c), Task("ended", c)}
  BY TwoDeferred, TaskTyped DEF Inv
<1>1. CASE /\ link[c] = "dialing"
           /\ fresh
           /\ attempt = c
           /\ state = "CONNECTING"
           /\ serving
           /\ timed' = FALSE
           /\ link' = [link EXCEPT ![c] = "open"]
           /\ bound' = bound \cup {c}
           /\ hconn' = c
           /\ startPending' = TRUE
           /\ UNCHANGED <<state, attempt, fresh, pushNeeded, pushCreated, push, serving, asked,
                         tasks, owner, ownerId, cancelled, ticket, endAsked, transition, cmd, worker,
                         stopping>>
  <2>1. Tasks' = Tasks
    BY <1>1 DEF Tasks
  <2>2. FlagsTyped'
    BY <1>1, BoundsAssumption DEF Inv, TypeInv, FlagsTyped
  <2>3. NumbersTyped' /\ SetsTyped'
    BY <1>1, BoundsAssumption DEF Inv, TypeInv, SetsTyped, NumbersTyped, Conns
  <2>4. link' \in LinkType
    BY <1>1, BoundsAssumption
       DEF Inv, TypeInv, LinkType
  <2>5. TypeInv'
    BY <2>2, <2>3, <2>4, <1>1 DEF Inv, TypeInv
  <2>6. StopInv' /\ BusyInv'
    BY <1>1
       DEF Inv, StopInv, CmdAt, BusyInv, WorkerAt
  <2>7. ServeInv'
    BY <1>1
       DEF Inv, ServeInv, TypeInv, FlagsTyped
  <2>8. QuietInv'
    BY <1>1
       DEF Inv, QuietInv, TypeInv, FlagsTyped, Stoppers, Conns, ServeInv, StopInv, CmdAt,
           TokenInv, WorkerAt
  <2>9. TokenInv'
    BY <1>1
       DEF Inv, TokenInv, CmdAt, WorkerAt, TypeInv, FlagsTyped, TaskType, Conns, ServeInv,
           StopInv, QuietInv, BusyInv, ConnInv
  <2>10. ConnInv'
    BY <1>1
       DEF Inv, ConnInv, CmdAt, TypeInv, FlagsTyped, NumbersTyped, CmdType, LinkType,
           Conns, DialedInv, WorkerAt, Known, LostInv, TokenInv
  <2>11. DialedInv'
    BY <1>1, <2>1
       DEF Inv, DialedInv, CmdAt, WorkerAt, Known, TypeInv, NumbersTyped, LinkType, Conns,
           ConnInv
  <2>12. FinishInv'
    BY <1>1, <2>1, TasksTyped
       DEF Inv, FinishInv, TypeInv, LinkType, DialedInv, CmdAt, WorkerAt, Known, ConnInv,
           TaskType
  <2>13. LostInv'
    BY <1>1
       DEF Inv, LostInv, WorkerAt, TypeInv, FlagsTyped, ConnInv, CmdAt, TokenInv
  <2>14. MessageInv'
    BY <1>1
       DEF Inv, MessageInv, WorkerAt, TypeInv, FlagsTyped, NumbersTyped, WorkerType,
           TaskType, LinkType, Conns, ConnInv, CmdAt, TokenInv, DialedInv, Known
  <2>15. ClosedInv'
    BY <1>1, <2>1
       DEF Inv, ClosedInv, WorkerAt, Task, TypeInv, LinkType, NumbersTyped, Conns, ConnInv,
           CmdAt, FinishInv, DialedInv, Known, LostInv
  <2>16. TimedInv'
    BY <1>1, <2>1
       DEF Inv, TimedInv, CmdAt, Task, TypeInv, FlagsTyped, NumbersTyped, ConnInv, LostInv,
           WorkerAt, MessageInv
  <2> QED
    BY <2>5, <2>6, <2>7, <2>8, <2>9, <2>10, <2>11, <2>12, <2>13, <2>14, <2>15, <2>16 DEF Inv
<1>2. CASE /\ link[c] = "dialing"
           /\ fresh
           /\ attempt = c
           /\ state = "CONNECTING"
           /\ tasks' \in Seq(TaskType)
           /\ Tasks' = Tasks \cup {Task("ended", c)}
           /\ timed' = FALSE
           /\ link' = [link EXCEPT ![c] = "none"]
           /\ state' = "IDLE"
           /\ hconn' = 0
           /\ startPending' = FALSE
           /\ UNCHANGED <<attempt, fresh, pushNeeded, pushCreated, push, serving, bound, asked,
                         owner, ownerId, cancelled, ticket, endAsked, transition, cmd, worker, stopping>>
  <2>1. FlagsTyped'
    BY <1>2, BoundsAssumption DEF Inv, TypeInv, FlagsTyped
  <2>2. NumbersTyped' /\ SetsTyped'
    BY <1>2, BoundsAssumption DEF Inv, TypeInv, SetsTyped, NumbersTyped, Conns
  <2>3. link' \in LinkType
    BY <1>2, BoundsAssumption
       DEF Inv, TypeInv, LinkType
  <2>4. TypeInv'
    BY <2>1, <2>2, <2>3, <1>2 DEF Inv, TypeInv
  <2>5. ServeInv' /\ StopInv' /\ BusyInv'
    BY <1>2
       DEF Inv, ServeInv, StopInv, CmdAt, BusyInv, WorkerAt
  <2>6. QuietInv'
    BY <1>2
       DEF Inv, QuietInv, TypeInv, FlagsTyped, Stoppers, Conns, ServeInv, StopInv, CmdAt,
           TokenInv, WorkerAt
  <2>7. TokenInv'
    BY <1>2
       DEF Inv, TokenInv, CmdAt, WorkerAt, TypeInv, FlagsTyped, TaskType, Conns, ServeInv,
           StopInv, QuietInv, BusyInv, ConnInv
  <2>8. ConnInv'
    BY <1>2
       DEF Inv, ConnInv, CmdAt, TypeInv, FlagsTyped, NumbersTyped, CmdType, LinkType,
           Conns, DialedInv, WorkerAt, Known, LostInv, TokenInv
  <2>9. DialedInv'
    <3>1. \A d \in Conns : Known(d)' => Known(d)
      BY <1>2 DEF Inv, TypeInv, LinkType, Known, WorkerAt, Task
    <3> QED
      BY <1>2, <3>1 DEF Inv, DialedInv, CmdAt
  <2>10. FinishInv'
    BY <1>2, TasksTyped, TasksTyped
       DEF Inv, FinishInv, TypeInv, LinkType, DialedInv, CmdAt, WorkerAt, Known, ConnInv,
           TaskType, Task
  <2>11. LostInv'
    BY <1>2
       DEF Inv, LostInv, WorkerAt, TypeInv, FlagsTyped, ConnInv, CmdAt, TokenInv
  <2>12. MessageInv'
    BY <1>2
       DEF Inv, MessageInv, WorkerAt, TypeInv, FlagsTyped, NumbersTyped, WorkerType,
           TaskType, LinkType, Conns, ConnInv, CmdAt, TokenInv, DialedInv, Known
  <2>13. ClosedInv'
    BY <1>2, TaskIs
       DEF Inv, ClosedInv, WorkerAt, Task, TypeInv, LinkType, NumbersTyped, Conns, ConnInv,
           CmdAt, FinishInv, DialedInv, Known, LostInv
  <2>14. TimedInv'
    BY <1>2
       DEF Inv, TimedInv, CmdAt, Task, TypeInv, FlagsTyped, NumbersTyped, ConnInv, LostInv,
           WorkerAt, MessageInv
  <2> QED
    BY <2>4, <2>5, <2>6, <2>7, <2>8, <2>9, <2>10, <2>11, <2>12, <2>13, <2>14 DEF Inv
<1>3. CASE /\ link[c] = "dialing"
           /\ fresh
           /\ attempt = c
           /\ state = "CONNECTING"
           /\ ~serving
           /\ tasks' \in Seq(TaskType)
           /\ Tasks' = Tasks \cup {Task("close", c), Task("ended", c)}
           /\ timed' = FALSE
           /\ link' = [link EXCEPT ![c] = "open"]
           /\ state' = "IDLE"
           /\ hconn' = 0
           /\ startPending' = FALSE
           /\ UNCHANGED <<attempt, fresh, pushNeeded, pushCreated, push, serving, bound, asked,
                         owner, ownerId, cancelled, ticket, endAsked, transition, cmd, worker, stopping>>
  <2>1. FlagsTyped'
    BY <1>3, BoundsAssumption DEF Inv, TypeInv, FlagsTyped
  <2>2. NumbersTyped' /\ SetsTyped'
    BY <1>3, BoundsAssumption DEF Inv, TypeInv, SetsTyped, NumbersTyped, Conns
  <2>3. link' \in LinkType
    BY <1>3, BoundsAssumption
       DEF Inv, TypeInv, LinkType
  <2>4. TypeInv'
    BY <2>1, <2>2, <2>3, <1>3 DEF Inv, TypeInv
  <2>5. ServeInv' /\ StopInv' /\ BusyInv'
    BY <1>3
       DEF Inv, ServeInv, StopInv, CmdAt, BusyInv, WorkerAt
  <2>6. QuietInv'
    BY <1>3
       DEF Inv, QuietInv, TypeInv, FlagsTyped, Stoppers, Conns, ServeInv, StopInv, CmdAt,
           TokenInv, WorkerAt
  <2>7. TokenInv'
    BY <1>3
       DEF Inv, TokenInv, CmdAt, WorkerAt, TypeInv, FlagsTyped, TaskType, Conns, ServeInv,
           StopInv, QuietInv, BusyInv, ConnInv
  <2>8. ConnInv'
    BY <1>3
       DEF Inv, ConnInv, CmdAt, TypeInv, FlagsTyped, NumbersTyped, CmdType, LinkType,
           Conns, DialedInv, WorkerAt, Known, LostInv, TokenInv
  <2>9. DialedInv'
    BY <1>3, TasksTyped
       DEF Inv, DialedInv, CmdAt, WorkerAt, Known, TypeInv, NumbersTyped, LinkType, Conns,
           ConnInv, Task, TaskType
  <2>10. FinishInv'
    BY <1>3, TasksTyped, TasksTyped
       DEF Inv, FinishInv, TypeInv, LinkType, DialedInv, CmdAt, WorkerAt, Known, ConnInv,
           TaskType, Task
  <2>11. LostInv'
    BY <1>3
       DEF Inv, LostInv, WorkerAt, TypeInv, FlagsTyped, ConnInv, CmdAt, TokenInv
  <2>12. MessageInv'
    BY <1>3
       DEF Inv, MessageInv, WorkerAt, TypeInv, FlagsTyped, NumbersTyped, WorkerType,
           TaskType, LinkType, Conns, ConnInv, CmdAt, TokenInv, DialedInv, Known
  <2>13. ClosedInv'
    BY <1>3, TaskIs
       DEF Inv, ClosedInv, WorkerAt, Task, TypeInv, LinkType, NumbersTyped, Conns, ConnInv,
           CmdAt, FinishInv, DialedInv, Known, LostInv
  <2>14. TimedInv'
    BY <1>3
       DEF Inv, TimedInv, CmdAt, Task, TypeInv, FlagsTyped, NumbersTyped, ConnInv, LostInv,
           WorkerAt, MessageInv
  <2> QED
    BY <2>4, <2>5, <2>6, <2>7, <2>8, <2>9, <2>10, <2>11, <2>12, <2>13, <2>14 DEF Inv
<1> QED
  BY <1>1, <1>2, <1>3, <1>a, <1>b DEF Connected, sdkFrame, arbiterVars, pushVars

LEMMA PeerCommandsStep == ASSUME Inv, NEW c \in Conns, PeerCommands(c) PROVE Inv'
<1>a. Deferred(<<Task("command", c)>>) =>
          tasks' \in Seq(TaskType) /\ Tasks' = Tasks \cup {Task("command", c)}
  BY OneDeferred, TaskTyped DEF Inv
<1>1. /\ link[c] = "open"
      /\ c \in bound
      /\ tasks' \in Seq(TaskType)
      /\ Tasks' = Tasks \cup {Task("command", c)}
      /\ asked' = asked \ {c}
      /\ UNCHANGED <<state, attempt, fresh, hconn, startPending, timed, pushNeeded,
                    pushCreated, push, serving, link, bound, owner, ownerId, cancelled, ticket, endAsked,
                    transition, cmd, worker, stopping>>
  BY <1>a DEF PeerCommands, sdkFrame, arbiterVars, pushVars, connVars
<1>2. FlagsTyped'
  BY <1>1 DEF Inv, TypeInv, FlagsTyped
<1>3. NumbersTyped' /\ SetsTyped'
  BY <1>1 DEF Inv, TypeInv, SetsTyped, NumbersTyped, ConnInv, CmdAt, CmdType, Conns
<1>4. TypeInv'
  BY <1>2, <1>3, <1>1 DEF Inv, TypeInv
<1>5. ServeInv' /\ StopInv' /\ QuietInv' /\ TokenInv' /\ ConnInv' /\ BusyInv' /\ LostInv' /\ MessageInv'
  BY <1>1
     DEF Inv, ServeInv, StopInv, CmdAt, QuietInv, TokenInv, WorkerAt, ConnInv, BusyInv,
         LostInv, MessageInv
<1>6. DialedInv'
  BY <1>1, TasksTyped
     DEF Inv, DialedInv, CmdAt, WorkerAt, Known, TypeInv, NumbersTyped, LinkType, Conns,
         ConnInv, Task, TaskType
<1>7. FinishInv'
  BY <1>1, TasksTyped
     DEF Inv, FinishInv, TypeInv, LinkType, DialedInv, CmdAt, WorkerAt, Known, ConnInv,
         Task, TaskType
<1>8. ClosedInv'
  BY <1>1, TaskIs
     DEF Inv, ClosedInv, WorkerAt, Task, TypeInv, LinkType, NumbersTyped, Conns, ConnInv,
         CmdAt, FinishInv, DialedInv, Known, LostInv
<1>9. TimedInv'
  BY <1>1
     DEF Inv, TimedInv, CmdAt, Task, TypeInv, FlagsTyped, NumbersTyped, ConnInv, LostInv,
         WorkerAt, MessageInv
<1> QED
  BY <1>4, <1>5, <1>6, <1>7, <1>8, <1>9 DEF Inv

LEMMA ConnErrorStep == ASSUME Inv, NEW c \in Conns, ConnError(c) PROVE Inv'
<1>a. Deferred(<<Task("disconnect", c)>>) =>
          tasks' \in Seq(TaskType) /\ Tasks' = Tasks \cup {Task("disconnect", c)}
  BY OneDeferred, TaskTyped DEF Inv
<1>1. /\ link[c] = "open"
      /\ c \in bound
      /\ tasks' \in Seq(TaskType)
      /\ Tasks' = Tasks \cup {Task("disconnect", c)}
      /\ UNCHANGED <<state, attempt, fresh, hconn, startPending, timed, pushNeeded,
                    pushCreated, push, serving, link, bound, asked, owner, ownerId, cancelled, ticket,
                    endAsked, transition, cmd, worker, stopping>>
  BY <1>a DEF ConnError, sdkFrame, arbiterVars, pushVars
<1>2. FlagsTyped'
  BY <1>1 DEF Inv, TypeInv, FlagsTyped
<1>3. NumbersTyped' /\ SetsTyped'
  BY <1>1 DEF Inv, TypeInv, SetsTyped, NumbersTyped
<1>4. TypeInv'
  BY <1>2, <1>3, <1>1 DEF Inv, TypeInv
<1>5. ServeInv' /\ StopInv' /\ QuietInv' /\ TokenInv' /\ ConnInv' /\ BusyInv' /\ LostInv' /\ MessageInv'
  BY <1>1
     DEF Inv, ServeInv, StopInv, CmdAt, QuietInv, TokenInv, WorkerAt, ConnInv, BusyInv,
         LostInv, MessageInv
<1>6. DialedInv'
  BY <1>1, TasksTyped
     DEF Inv, DialedInv, CmdAt, WorkerAt, Known, TypeInv, NumbersTyped, LinkType, Conns,
         ConnInv, Task, TaskType
<1>7. FinishInv'
  BY <1>1, TasksTyped
     DEF Inv, FinishInv, TypeInv, LinkType, DialedInv, CmdAt, WorkerAt, Known, ConnInv,
         Task, TaskType
<1>8. ClosedInv'
  BY <1>1, TaskIs
     DEF Inv, ClosedInv, WorkerAt, Task, TypeInv, LinkType, NumbersTyped, Conns, ConnInv,
         CmdAt, FinishInv, DialedInv, Known, LostInv
<1>9. TimedInv'
  BY <1>1
     DEF Inv, TimedInv, CmdAt, Task, TypeInv, FlagsTyped, NumbersTyped, ConnInv, LostInv,
         WorkerAt, MessageInv
<1> QED
  BY <1>4, <1>5, <1>6, <1>7, <1>8, <1>9 DEF Inv

LEMMA OnDisconnectedStep == ASSUME Inv, NEW c \in Conns, OnDisconnected(c) PROVE Inv'
<1>a. Deferred(<<Task("finish", c)>>) =>
          tasks' \in Seq(TaskType) /\ Tasks' = Tasks \cup {Task("finish", c)}
  BY OneDeferred, TaskTyped DEF Inv
<1>1. CASE /\ link[c] \in {"open", "closing"}
           /\ tasks' \in Seq(TaskType)
           /\ Tasks' = Tasks \cup {Task("finish", c)}
           /\ link' = [link EXCEPT ![c] = "none"]
           /\ bound' = bound \ {c}
           /\ UNCHANGED <<state, attempt, fresh, hconn, startPending, timed, pushNeeded,
                         pushCreated, push, serving, asked, owner, ownerId, cancelled, ticket, endAsked,
                         transition, cmd, worker, stopping>>
  <2>1. FlagsTyped'
    BY <1>1 DEF Inv, TypeInv, FlagsTyped
  <2>2. NumbersTyped' /\ SetsTyped'
    BY <1>1 DEF Inv, TypeInv, SetsTyped, NumbersTyped
  <2>3. link' \in LinkType
    BY <1>1
       DEF Inv, TypeInv, LinkType
  <2>4. TypeInv'
    BY <2>1, <2>2, <2>3, <1>1 DEF Inv, TypeInv
  <2>5. StopInv' /\ QuietInv' /\ TokenInv' /\ BusyInv' /\ LostInv'
    BY <1>1
       DEF Inv, StopInv, CmdAt, QuietInv, TokenInv, WorkerAt, BusyInv, LostInv
  <2>6. ServeInv'
    BY <1>1
       DEF Inv, ServeInv, TypeInv, FlagsTyped
  <2>7. ConnInv'
    BY <1>1
       DEF Inv, ConnInv, CmdAt, TypeInv, FlagsTyped, NumbersTyped, CmdType, LinkType,
           Conns, DialedInv, WorkerAt, Known, LostInv, TokenInv
  <2>8. DialedInv'
    <3>1. \A d \in Conns : Known(d)' => Known(d)
      BY <1>1 DEF Inv, TypeInv, LinkType, Known, WorkerAt, Task
    <3> QED
      BY <1>1, <3>1 DEF Inv, DialedInv, CmdAt
  <2>9. FinishInv'
    BY <1>1, TasksTyped, TasksTyped
       DEF Inv, FinishInv, TypeInv, LinkType, DialedInv, CmdAt, WorkerAt, Known, ConnInv,
           TaskType, Task
  <2>10. MessageInv'
    BY <1>1
       DEF Inv, MessageInv, WorkerAt, TypeInv, FlagsTyped, NumbersTyped, WorkerType,
           TaskType, LinkType, Conns, ConnInv, CmdAt, TokenInv, DialedInv, Known
  <2>11. ClosedInv'
    BY <1>1, TaskIs
       DEF Inv, ClosedInv, WorkerAt, Task, TypeInv, LinkType, NumbersTyped, Conns, ConnInv,
           CmdAt, FinishInv, DialedInv, Known, LostInv
  <2>12. TimedInv'
    BY <1>1
       DEF Inv, TimedInv, CmdAt, Task, TypeInv, FlagsTyped, NumbersTyped, ConnInv, LostInv,
           WorkerAt, MessageInv
  <2> QED
    BY <2>4, <2>5, <2>6, <2>7, <2>8, <2>9, <2>10, <2>11, <2>12 DEF Inv
<1>2. CASE /\ link[c] \in {"open", "closing"}
           /\ link' = [link EXCEPT ![c] = "none"]
           /\ bound' = bound \ {c}
           /\ UNCHANGED <<state, attempt, fresh, hconn, startPending, timed, pushNeeded,
                         pushCreated, push, serving, asked, tasks, owner, ownerId, cancelled, ticket,
                         endAsked, transition, cmd, worker, stopping>>
  <2>1. Tasks' = Tasks
    BY <1>2 DEF Tasks
  <2>2. FlagsTyped'
    BY <1>2 DEF Inv, TypeInv, FlagsTyped
  <2>3. NumbersTyped' /\ SetsTyped'
    BY <1>2 DEF Inv, TypeInv, SetsTyped, NumbersTyped
  <2>4. link' \in LinkType
    BY <1>2
       DEF Inv, TypeInv, LinkType
  <2>5. TypeInv'
    BY <2>2, <2>3, <2>4, <1>2 DEF Inv, TypeInv
  <2>6. StopInv' /\ QuietInv' /\ TokenInv' /\ BusyInv' /\ LostInv' /\ TimedInv'
    BY <1>2, <2>1
       DEF Inv, StopInv, CmdAt, QuietInv, TokenInv, WorkerAt, BusyInv, LostInv, TimedInv
  <2>7. ServeInv'
    BY <1>2
       DEF Inv, ServeInv, TypeInv, FlagsTyped
  <2>8. ConnInv'
    BY <1>2
       DEF Inv, ConnInv, CmdAt, TypeInv, FlagsTyped, NumbersTyped, CmdType, LinkType,
           Conns, DialedInv, WorkerAt, Known, LostInv, TokenInv
  <2>9. DialedInv'
    BY <1>2, <2>1
       DEF Inv, DialedInv, CmdAt, WorkerAt, Known, TypeInv, NumbersTyped, LinkType, Conns,
           ConnInv
  <2>10. FinishInv'
    BY <1>2, <2>1, TasksTyped
       DEF Inv, FinishInv, TypeInv, LinkType, DialedInv, CmdAt, WorkerAt, Known, ConnInv,
           TaskType
  <2>11. MessageInv'
    BY <1>2
       DEF Inv, MessageInv, WorkerAt, TypeInv, FlagsTyped, NumbersTyped, WorkerType,
           TaskType, LinkType, Conns, ConnInv, CmdAt, TokenInv, DialedInv, Known
  <2>12. ClosedInv'
    BY <1>2, <2>1
       DEF Inv, ClosedInv, WorkerAt, Task, TypeInv, LinkType, NumbersTyped, Conns, ConnInv,
           CmdAt, FinishInv, DialedInv, Known, LostInv
  <2> QED
    BY <2>5, <2>6, <2>7, <2>8, <2>9, <2>10, <2>11, <2>12 DEF Inv
<1> QED
  BY <1>1, <1>2, <1>a DEF OnDisconnected, sdkFrame, arbiterVars, pushVars

LEMMA PushEndsStep == ASSUME Inv, PushEnds PROVE Inv'
<1>1. CASE /\ push' \in BOOLEAN
           /\ link' = [x \in Conns |-> IF x = hconn /\ link[x] = "open" THEN "closing" ELSE link[x]]
           /\ UNCHANGED <<state, attempt, fresh, hconn, startPending, timed, pushNeeded,
                         pushCreated, serving, bound, asked, tasks, owner, ownerId, cancelled, ticket,
                         endAsked, transition, cmd, worker, stopping>>
  <2>1. Tasks' = Tasks
    BY <1>1 DEF Tasks
  <2>2. FlagsTyped'
    BY <1>1 DEF Inv, TypeInv, FlagsTyped
  <2>3. NumbersTyped' /\ SetsTyped'
    BY <1>1 DEF Inv, TypeInv, SetsTyped, NumbersTyped
  <2>4. link' \in LinkType
    BY <1>1
       DEF Inv, TypeInv, LinkType
  <2>5. TypeInv'
    BY <2>2, <2>3, <2>4, <1>1 DEF Inv, TypeInv
  <2>6. ServeInv' /\ StopInv' /\ QuietInv' /\ TokenInv' /\ BusyInv' /\ LostInv' /\ TimedInv'
    BY <1>1, <2>1
       DEF Inv, ServeInv, StopInv, CmdAt, QuietInv, TokenInv, WorkerAt, BusyInv, LostInv,
           TimedInv
  <2>7. ConnInv'
    BY <1>1
       DEF Inv, ConnInv, CmdAt, TypeInv, FlagsTyped, NumbersTyped, CmdType, LinkType,
           Conns, DialedInv, WorkerAt, Known, LostInv, TokenInv
  <2>8. DialedInv'
    BY <1>1, <2>1
       DEF Inv, DialedInv, CmdAt, WorkerAt, Known, TypeInv, NumbersTyped, LinkType, Conns,
           ConnInv
  <2>9. FinishInv'
    BY <1>1, <2>1, TasksTyped
       DEF Inv, FinishInv, TypeInv, LinkType, DialedInv, CmdAt, WorkerAt, Known, ConnInv,
           TaskType
  <2>10. MessageInv'
    BY <1>1
       DEF Inv, MessageInv, WorkerAt, TypeInv, FlagsTyped, NumbersTyped, WorkerType,
           TaskType, LinkType, Conns, ConnInv, CmdAt, TokenInv, DialedInv, Known
  <2>11. ClosedInv'
    BY <1>1, <2>1
       DEF Inv, ClosedInv, WorkerAt, Task, TypeInv, LinkType, NumbersTyped, Conns, ConnInv,
           CmdAt, FinishInv, DialedInv, Known, LostInv
  <2> QED
    BY <2>5, <2>6, <2>7, <2>8, <2>9, <2>10, <2>11 DEF Inv
<1>2. CASE /\ push' \in BOOLEAN
           /\ UNCHANGED <<state, attempt, fresh, hconn, startPending, timed, pushNeeded,
                         pushCreated, serving, link, bound, asked, tasks, owner, ownerId, cancelled,
                         ticket, endAsked, transition, cmd, worker, stopping>>
  <2>1. Tasks' = Tasks
    BY <1>2 DEF Tasks
  <2>2. FlagsTyped'
    BY <1>2 DEF Inv, TypeInv, FlagsTyped
  <2>3. NumbersTyped' /\ SetsTyped'
    BY <1>2 DEF Inv, TypeInv, SetsTyped, NumbersTyped
  <2>4. TypeInv'
    BY <2>2, <2>3, <1>2 DEF Inv, TypeInv
  <2>5. ServeInv' /\ StopInv' /\ QuietInv' /\ TokenInv' /\ ConnInv' /\ DialedInv' /\ FinishInv' /\ BusyInv' /\ LostInv' /\ MessageInv' /\ ClosedInv' /\ TimedInv'
    BY <1>2, <2>1
       DEF Inv, ServeInv, StopInv, CmdAt, QuietInv, TokenInv, WorkerAt, ConnInv, DialedInv,
           Known, FinishInv, BusyInv, LostInv, MessageInv, ClosedInv, TimedInv
  <2> QED
    BY <2>4, <2>5 DEF Inv
<1> QED
  BY <1>1, <1>2 DEF PushEnds, Disconnect, connVars, arbiterVars

LEMMA StutterStep == ASSUME Inv, UNCHANGED vars PROVE Inv'
<1>1. UNCHANGED <<state, attempt, fresh, hconn, startPending, timed, serving, link, bound, asked,
                  tasks, owner, ownerId, cancelled, ticket, endAsked, transition, pushNeeded,
                  pushCreated, push, cmd, worker, stopping>>
  BY DEF vars, connVars, pushVars, sdkVars, arbiterVars
<1>2. Tasks' = Tasks
  BY <1>1 DEF Tasks
<1>3. TypeInv' /\ ServeInv' /\ StopInv' /\ QuietInv' /\ TokenInv' /\ ConnInv'
  BY <1>1 DEF Inv, TypeInv, FlagsTyped, NumbersTyped, SetsTyped, ServeInv, StopInv, QuietInv,
              TokenInv, ConnInv, CmdAt, WorkerAt
<1>4. DialedInv' /\ FinishInv' /\ BusyInv' /\ LostInv' /\ MessageInv' /\ ClosedInv' /\ TimedInv'
  BY <1>1, <1>2 DEF Inv, DialedInv, Known, FinishInv, BusyInv, LostInv, MessageInv, ClosedInv,
                    TimedInv, CmdAt, WorkerAt
<1> QED
  BY <1>3, <1>4 DEF Inv

LEMMA InitInv == Init => Inv
<1> SUFFICES ASSUME Init PROVE Inv
  OBVIOUS
<1>1. /\ state = "IDLE" /\ attempt = 0 /\ fresh = FALSE /\ hconn = 0
      /\ startPending = FALSE /\ timed = FALSE
      /\ pushNeeded = FALSE /\ pushCreated = FALSE /\ push = FALSE
      /\ serving = FALSE /\ link = [c \in Conns |-> "none"]
      /\ bound = {} /\ asked = {} /\ tasks = <<>>
      /\ owner = "NONE" /\ ownerId = NoRoom /\ cancelled = FALSE
      /\ ticket = NoRoom /\ endAsked = FALSE /\ transition = "free"
  BY DEF Init, LeaseInit
<1>2. cmd = [at |-> "idle", conn |-> 0] /\ cmd.at = "idle" /\ cmd \in CmdType
  BY BoundsAssumption DEF Init, CmdType
<1>3. worker.at = "idle" /\ worker \in WorkerType
  BY FirstTask DEF Init, WorkerType
<1>4. /\ stopping["arbiter"].at = "running" /\ stopping["cmd"].at = "running"
      /\ stopping \in [Stoppers -> StopType]
  BY DEF Init, Stoppers, Running, StopType
<1>5. Tasks = {}
  BY <1>1 DEF Tasks
<1>6. FlagsTyped
  BY <1>1 DEF FlagsTyped
<1>7. NumbersTyped /\ SetsTyped /\ link \in LinkType /\ tasks \in Seq(TaskType)
  BY <1>1, BoundsAssumption DEF NumbersTyped, SetsTyped, LinkType
<1>8. TypeInv
  BY <1>2, <1>3, <1>4, <1>6, <1>7 DEF TypeInv
<1>9. ServeInv /\ StopInv /\ QuietInv /\ TokenInv /\ ConnInv
  BY <1>1, <1>2, <1>4 DEF ServeInv, StopInv, QuietInv, TokenInv, ConnInv, CmdAt
<1>10. DialedInv /\ FinishInv
  BY <1>1, <1>3, <1>5 DEF DialedInv, Known, FinishInv, WorkerAt
<1>11. BusyInv /\ LostInv /\ MessageInv /\ ClosedInv /\ TimedInv
  BY <1>1, <1>3, <1>5 DEF BusyInv, LostInv, MessageInv, ClosedInv, TimedInv, WorkerAt
<1> QED
  BY <1>8, <1>9, <1>10, <1>11 DEF Inv

LEMMA NextInv == Inv /\ [Next]_vars => Inv'
<1> SUFFICES ASSUME Inv, [Next]_vars PROVE Inv'
  OBVIOUS
<1>1. CASE Command
  BY <1>1, BeginAiStep, StartFailsStep, StartSessionStep, WhipConnectStep, SetDeadlineStep,
     FinishStep, FinishedStep, ExpiresStep, StopSessionStep, StoppedStep, TakeStartStep,
     SendStartStep, SentStartStep, CreatePushStep DEF Command
<1>2. CASE Worker
  BY <1>2, TakeLostStep, LostStep, TakeCommandStep, HandleMessageStep, TakeTaskStep DEF Worker
<1>3. CASE Arbiter
  BY <1>3, LifecycleWorkerStep, ServiceStopsStep, ServiceStoppedStep, ServiceDrainedStep
     DEF Arbiter
<1>4. CASE Sdk
  BY <1>4, StaleConnectedStep, ConnectedStep, PeerCommandsStep, ConnErrorStep,
     OnDisconnectedStep, PushEndsStep DEF Sdk
<1>5. CASE UNCHANGED vars
  BY <1>5, StutterStep
<1> QED
  BY <1>1, <1>2, <1>3, <1>4, <1>5 DEF Next

-----------------------------------------------------------------------------
(* A WeChat call: the inductive invariant. *)

VTaskType == [do : {"disconnect", "finish", "media", "close", "ended"}, conn : Voip!Conns]
VCmdType == [at : {"idle", "dial", "post", "response", "finish", "ended", "beginAccept",
                   "run", "accept", "start", "actionDone", "actionFailed", "reject",
                   "drop", "lapsed", "timedOut"},
             room : Voip!MaybeRoom]
VMqttType == [at : {"idle", "granted", "current", "look", "answer", "recover", "ring",
                    "rung", "start", "cancelled", "told"},
              room : Voip!MaybeRoom, granted : BOOLEAN, mine : BOOLEAN]

VoipSpec == Voip!Init /\ [][Voip!Next]_voipVars

VLeaseTyped ==
    /\ voipOwner \in {"NONE", "HELD"} /\ voipCancelled \in BOOLEAN /\ voipEndAsked \in BOOLEAN
    /\ voipTransition \in {"free", "action", "stop", "drain"} /\ voipServing \in BOOLEAN
VFlagsTyped ==
    /\ outgoing \in BOOLEAN /\ outTimed \in BOOLEAN
    /\ connecting \in BOOLEAN /\ voipTimed \in BOOLEAN
VNumbersTyped == voipAttempt \in 0..VoipAttempts /\ active \in 0..VoipAttempts
VStateTyped == voipState \in {"IDLE", "CONNECTING", "IN_CALL", "DISCONNECTING"}
VCmdTyped == voipCmd \in VCmdType
VMqttTyped == mqtt \in VMqttType
VTasksTyped == voipTasks \in Seq(VTaskType)

\* A dial waits for its ringback with a deadline, except while its request is
\* under way; a connection that is being made has one, unless it has passed.
VDeadlineInv ==
    /\ outgoing /\ ~outTimed => voipCmd.at \in {"post", "response"}
    /\ active # 0 => ~connecting
    /\ connecting => voipTimed \/ voipCmd.at = "timedOut"
    /\ voipState = "CONNECTING" => voipTimed

\* The runtime serves VOIP while it is the owner; an action holds the owner;
\* and what the stop has taken stays away until the next owner.
VServeInv ==
    /\ voipServing <=> voipOwner = "HELD"
    /\ voipTransition = "action" <=>
           voipCmd.at \in {"accept", "start", "actionDone", "actionFailed"}
    /\ voipTransition = "action" => voipOwner = "HELD"
    /\ voipTransition \in {"stop", "drain"} => voipOwner = "NONE"
    /\ voipOwner = "NONE" /\ voipTransition # "stop" => active = 0

\* A held session has a call, or somebody is about to begin one or to end it.
VEnded == \E k \in DOMAIN voipTasks : voipTasks[k].do = "ended"
VHeldInv ==
    /\ voipOwner = "HELD" =>
           \/ active # 0 \/ connecting \/ outgoing \/ voipEndAsked \/ VEnded
           \/ voipCmd.at \in {"dial", "finish", "run", "accept", "start", "actionFailed",
                             "lapsed"}
           \/ mqtt.at \in {"answer", "start"}
    /\ voipOwner = "HELD" /\ voipCmd.at = "run" /\ voipCancelled => voipEndAsked

\* Which rooms a message and the session are about.
VRoomInv ==
    /\ pending \in Incoming \cup {NoRoom}
    /\ created \subseteq Own
    /\ activeRoom \in Incoming \cup created \cup {NoRoom}
    /\ mqtt.room \in Incoming \cup created \cup {NoRoom}
    /\ mqtt.at # "idle" => mqtt.room # NoRoom
    /\ mqtt.at = "ring" => mqtt.room \in Incoming
    /\ mqtt.at = "start" => activeRoom \in {mqtt.room, NoRoom} \cup Incoming
    /\ mqtt.mine => mqtt.at \in {"answer", "start", "rung"}
    /\ voipCmd.at \in {"idle", "dial", "post"} => voipCmd.room = NoRoom
    /\ voipCmd.at = "response" => voipCmd.room \in created \cup {NoRoom}
    /\ outCall \in created \cup {NoRoom}
    /\ ~outgoing => outCall = NoRoom

\* The call that is dialled is not the session's, nor that of a ringback whose
\* dial was gone when it was looked at.
VDialled(r) == /\ r # NoRoom /\ outgoing
               /\ r = outCall \/ (voipCmd.at = "response" /\ r = voipCmd.room)
VDialledInv ==
    /\ ~VDialled(activeRoom)
    /\ mqtt.at \in {"recover", "answer"} /\ ~mqtt.mine => ~VDialled(mqtt.room)

\* What of the dial that timed out is still under way: its ringback, and the
\* connection it led to.
VAnswers == mqtt.at \in {"answer", "start"} /\ mqtt.room = lapsed
VConnects == (active # 0 \/ connecting) /\ activeRoom = lapsed
VClosing ==
    \/ voipEndAsked \/ VEnded
    \/ voipCmd.at \in {"lapsed", "finish", "run", "accept", "start", "actionFailed"}
VLapsedInv ==
    lapsed # NoRoom =>
        /\ lapsed \in Own /\ ignored = lapsed
        /\ mqtt.at = "recover" => mqtt.room # lapsed
        /\ mqtt.at = "recover" /\ VConnects => voipOwner = "HELD" \/ voipTransition = "stop"
        /\ voipOwner = "HELD" /\ VAnswers /\ ~(active # 0 \/ connecting) => VClosing
        /\ voipOwner = "HELD" /\ VConnects => VClosing \/ VAnswers
        /\ voipCmd.at = "start" /\ activeRoom = lapsed
               => VAnswers \/ active # 0 \/ connecting \/ voipEndAsked \/ VEnded

VTyped == /\ VLeaseTyped /\ VFlagsTyped /\ VNumbersTyped /\ VStateTyped
          /\ VCmdTyped /\ VMqttTyped /\ VTasksTyped

\* However often and wherever a call fails, these hold together.
VInv == /\ VTyped /\ VDeadlineInv /\ VServeInv /\ VHeldInv /\ VRoomInv /\ VDialledInv
        /\ VLapsedInv

-----------------------------------------------------------------------------
(* Lemmas. *)

\* The rooms of own calls and those of a user's are apart, and NoRoom is none.
LEMMA VRoomsApart ==
    /\ Own \cap Incoming = {} /\ NoRoom \notin Own /\ NoRoom \notin Incoming
    /\ VoipAttempts \in Nat \ {0}
  BY VoipAssumption DEF Voip!RoomsAssumption, Voip!Rooms

\* A task that is deferred keeps the end of another under way.
LEMMA VDeferred ==
    ASSUME VTasksTyped, NEW ts \in Seq(VTaskType), Voip!Deferred(ts)
    PROVE  /\ VTasksTyped' /\ (VEnded => VEnded')
           /\ (\E k \in DOMAIN ts : ts[k].do = "ended") => VEnded'
<1>1. voipTasks' = voipTasks \o ts
  BY DEF Voip!Deferred
<1>2. VTasksTyped'
  BY <1>1 DEF VTasksTyped
<1>3. Len(voipTasks') = Len(voipTasks) + Len(ts) /\ Len(voipTasks) \in Nat /\ Len(ts) \in
      Nat
  BY <1>1 DEF VTasksTyped
<1>4. ASSUME NEW k \in DOMAIN voipTasks, voipTasks[k].do = "ended"
      PROVE  VEnded'
  <2>1. k \in DOMAIN voipTasks' /\ voipTasks'[k] = voipTasks[k]
    BY <1>1, <1>3 DEF VTasksTyped
  <2> QED
    BY <2>1, <1>4 DEF VEnded
<1>5. ASSUME NEW k \in DOMAIN ts, ts[k].do = "ended"
      PROVE  VEnded'
  <2>1. Len(voipTasks) + k \in DOMAIN voipTasks' /\ voipTasks'[Len(voipTasks) + k] = ts[k]
    BY <1>1, <1>3 DEF VTasksTyped
  <2> QED
    BY <2>1, <1>5 DEF VEnded
<1> QED
  BY <1>2, <1>4, <1>5 DEF VEnded

\* One task, of whatever kind but a connection's.
LEMMA VOneDeferred ==
    ASSUME VTasksTyped, NEW do \in {"disconnect", "finish", "media", "close", "ended"},
           NEW c \in Voip!Conns, Voip!Deferred(<<Voip!Task(do, c)>>)
    PROVE  VTasksTyped' /\ (VEnded => VEnded') /\ (do = "ended" => VEnded')
<1> DEFINE ts == <<Voip!Task(do, c)>>
<1>1. Voip!Task(do, c) \in VTaskType /\ Voip!Task(do, c).do = do
  BY DEF Voip!Task, VTaskType
<1>2. ts \in Seq(VTaskType) /\ 1 \in DOMAIN ts /\ ts[1].do = do
  BY <1>1
<1>3. /\ VTasksTyped' /\ (VEnded => VEnded')
      /\ (\E k \in DOMAIN ts : ts[k].do = "ended") => VEnded'
  <2> HIDE DEF ts
  <2>1. Voip!Deferred(ts)
    BY DEF ts
  <2> QED
    BY <1>2, <2>1, VDeferred
<1> HIDE DEF ts
<1> QED
  BY <1>2, <1>3

LEMMA VTwoDeferred ==
    ASSUME VTasksTyped, NEW c \in Voip!Conns,
           Voip!Deferred(<<Voip!Task("close", c), Voip!Task("ended", c)>>)
    PROVE  VTasksTyped' /\ VEnded'
<1> DEFINE ts == <<Voip!Task("close", c), Voip!Task("ended", c)>>
<1>1. /\ Voip!Task("close", c) \in VTaskType /\ Voip!Task("ended", c) \in VTaskType
      /\ Voip!Task("ended", c).do = "ended"
  BY DEF Voip!Task, VTaskType
<1>2. ts \in Seq(VTaskType) /\ 2 \in DOMAIN ts /\ ts[2].do = "ended"
  BY <1>1
<1>3. /\ VTasksTyped'
      /\ (\E k \in DOMAIN ts : ts[k].do = "ended") => VEnded'
  <2> HIDE DEF ts
  <2>1. Voip!Deferred(ts)
    BY DEF ts
  <2> QED
    BY <1>2, <2>1, VDeferred
<1> HIDE DEF ts
<1> QED
  BY <1>2, <1>3

\* The end that is taken is the head; any other stays.
LEMMA VTaken ==
    ASSUME VTasksTyped, voipTasks # <<>>, voipTasks' = Tail(voipTasks)
    PROVE  /\ VTasksTyped' /\ Head(voipTasks) \in VTaskType
           /\ VEnded => VEnded' \/ Head(voipTasks).do = "ended"
<1>1. VTasksTyped' /\ Head(voipTasks) \in VTaskType /\ Head(voipTasks) = voipTasks[1]
  BY DEF VTasksTyped
<1>2. ASSUME NEW k \in DOMAIN voipTasks, voipTasks[k].do = "ended", k # 1
      PROVE  VEnded'
  <2>1. k - 1 \in DOMAIN voipTasks' /\ voipTasks'[k - 1] = voipTasks[k]
    BY <1>2 DEF VTasksTyped
  <2> QED
    BY <2>1, <1>2 DEF VEnded
<1> QED
  BY <1>1, <1>2 DEF VEnded

\* A queued end of a held session: what EndSession leaves behind.
LEMMA VAsks == ASSUME VLeaseTyped, Voip!EndSession
               PROVE  /\ voipEndAsked' \in BOOLEAN
                      /\ voipEndAsked' <=> voipEndAsked \/ voipOwner = "HELD"
  BY Zenon DEF Voip!EndSession, VLeaseTyped

\* Where MQTT's thread goes, and what it still knows of its message.
LEMMA VGoes ==
    ASSUME VMqttTyped, Voip!MqttIdle \in VMqttType,
           NEW at \in {"idle", "granted", "current", "look", "answer", "recover", "ring",
                       "rung", "start", "cancelled", "told"},
           Voip!MqttGo(at)
    PROVE  /\ VMqttTyped' /\ mqtt'.at = at
           /\ at # "idle" => mqtt'.room = mqtt.room /\ mqtt'.mine = mqtt.mine
           /\ at = "idle" => mqtt'.room = NoRoom /\ mqtt'.mine = FALSE
  BY DEF Voip!MqttGo, VMqttTyped, VMqttType, Voip!MqttIdle

LEMMA VIdle == Voip!MqttIdle \in VMqttType /\ Voip!CmdIdle \in VCmdType
  BY DEF Voip!MqttIdle, Voip!CmdIdle, VMqttType, VCmdType, Voip!MaybeRoom

LEMMA VHandled ==
    ASSUME VMqttTyped, Voip!Handled
    PROVE  /\ VMqttTyped' /\ mqtt'.at \in {"idle", "rung"}
           /\ mqtt'.at = "rung" => mqtt'.room = mqtt.room /\ mqtt'.mine = mqtt.mine
           /\ mqtt'.at = "idle" => mqtt'.room = NoRoom /\ mqtt'.mine = FALSE
<1>1. CASE Voip!MqttGo("rung")
  BY <1>1, VGoes, VIdle
<1>2. CASE Voip!MqttGo("idle")
  BY <1>2, VGoes, VIdle
<1> QED
  BY <1>1, <1>2 DEF Voip!Handled


-----------------------------------------------------------------------------
(* Every step of a WeChat call keeps the invariant. *)

LEMMA VStaleConnectedStep ==
    ASSUME VInv, NEW c \in Voip!Conns, Voip!StaleConnected(c)
    PROVE  VInv'
<1>1. UNCHANGED <<voipOwner, voipOwnerId, voipCancelled, voipTicket, voipEndAsked,
      voipTransition, outgoing, outCall, outTimed, ignored, pending, activeRoom,
      voipAttempt, connecting, voipFresh, active, voipState, voipTimed, mediaStart,
      voipPush, voipServing, voipBound, created, lapsed, hungUp, voipCmd, mqtt>>
  BY DEF Voip!StaleConnected, Voip!Deferred, Voip!sdkFrame, Voip!connVars, Voip!callVars,
     Voip!histVars, Voip!arbiterVars, Voip!outVars
<1>t. VTasksTyped' /\ (VEnded => VEnded')
  <2>1. CASE UNCHANGED voipTasks
    BY <2>1 DEF VInv, VTyped, VTasksTyped, VEnded
  <2>2. CASE Voip!Deferred(<<Voip!Task("close", c)>>)
    BY <2>2, VOneDeferred DEF VInv, VTyped
  <2> QED
    BY <2>1, <2>2 DEF Voip!StaleConnected
<1>2. VTasksTyped'
  BY <1>t
<1>3. VHeldInv'
  BY <1>1, VRoomsApart, <1>t DEF VInv, VTyped, VHeldInv, VCmdTyped, VCmdType, VMqttTyped,
     VMqttType, VLeaseTyped, VServeInv, VFlagsTyped, VNumbersTyped, VStateTyped,
     VDeadlineInv, Voip!StaleConnected, Voip!sdkFrame, Voip!connVars, Voip!callVars,
     Voip!histVars, Voip!arbiterVars, Voip!outVars
<1>4. VLapsedInv'
  BY <1>1, VRoomsApart, <1>t DEF VInv, VTyped, VLapsedInv, VAnswers, VConnects, VClosing,
     VCmdTyped, VCmdType, VMqttTyped, VMqttType, VLeaseTyped, VFlagsTyped, VNumbersTyped,
     VStateTyped, VServeInv, VRoomInv, VHeldInv, VDialledInv, VDialled,
     Voip!StaleConnected, Voip!sdkFrame, Voip!connVars, Voip!callVars, Voip!histVars,
     Voip!arbiterVars, Voip!outVars
<1>5. VLeaseTyped' /\ VFlagsTyped' /\ VNumbersTyped' /\ VStateTyped' /\ VCmdTyped' /\
      VMqttTyped' /\ VDeadlineInv' /\ VServeInv' /\ VRoomInv' /\ VDialledInv'
  BY <1>1 DEF VInv, VTyped, VLeaseTyped, VFlagsTyped, VNumbersTyped, VStateTyped,
         VCmdTyped, VMqttTyped, VDeadlineInv, VServeInv, VRoomInv, VDialledInv, VDialled
<1> QED
  BY <1>2, <1>3, <1>4, <1>5 DEF VInv, VTyped

LEMMA VConnectedStep ==
    ASSUME VInv, NEW c \in Voip!Conns, Voip!Connected(c)
    PROVE  VInv'
<1>1. UNCHANGED <<voipOwner, voipOwnerId, voipCancelled, voipTicket, voipEndAsked,
      voipTransition, outgoing, outCall, outTimed, ignored, pending, activeRoom,
      voipAttempt, voipFresh, mediaStart, voipPush, voipServing, created, lapsed, hungUp,
      voipCmd, mqtt>>
  BY DEF Voip!Connected, Voip!Deferred, Voip!sdkFrame, Voip!callVars, Voip!histVars,
     Voip!arbiterVars, Voip!outVars
<1>t. VTasksTyped' /\ (VEnded => VEnded') /\ (active' = 0 => VEnded')
  <2>1. CASE UNCHANGED voipTasks /\ active' = c
    BY <2>1 DEF VInv, VTyped, VTasksTyped, VEnded, Voip!Conns
  <2>2. CASE Voip!Deferred(<<Voip!Task("ended", c)>>)
    BY <2>2, VOneDeferred DEF VInv, VTyped
  <2>3. CASE Voip!Deferred(<<Voip!Task("close", c), Voip!Task("ended", c)>>)
    BY <2>3, VTwoDeferred DEF VInv, VTyped
  <2> QED
    BY <2>1, <2>2, <2>3 DEF Voip!Connected
<1>2. VFlagsTyped'
  BY <1>1, VRoomsApart, <1>t DEF VInv, VTyped, VFlagsTyped, Voip!Connected, Voip!sdkFrame,
     Voip!callVars, Voip!histVars, Voip!arbiterVars, Voip!outVars
<1>3. VNumbersTyped'
  BY <1>1, VRoomsApart, <1>t DEF VInv, VTyped, VNumbersTyped, Voip!Conns, Voip!Connected,
     Voip!sdkFrame, Voip!callVars, Voip!histVars, Voip!arbiterVars, Voip!outVars
<1>4. VStateTyped'
  BY <1>1, VRoomsApart, <1>t DEF VInv, VTyped, VStateTyped, Voip!Connected, Voip!sdkFrame,
     Voip!callVars, Voip!histVars, Voip!arbiterVars, Voip!outVars
<1>5. VTasksTyped'
  BY <1>t
<1>6. VDeadlineInv'
  BY <1>1, VRoomsApart, <1>t DEF VInv, VTyped, VDeadlineInv, VCmdTyped, VCmdType,
     VFlagsTyped, VNumbersTyped, VStateTyped, Voip!Connected, Voip!sdkFrame,
     Voip!callVars, Voip!histVars, Voip!arbiterVars, Voip!outVars
<1>7. VServeInv'
  BY <1>1, VRoomsApart, <1>t DEF VInv, VTyped, VServeInv, VCmdTyped, VCmdType,
     VLeaseTyped, VFlagsTyped, VNumbersTyped, VStateTyped, Voip!Connected, Voip!sdkFrame,
     Voip!callVars, Voip!histVars, Voip!arbiterVars, Voip!outVars
<1>8. VHeldInv'
  BY <1>1, VRoomsApart, <1>t DEF
     VInv, VTyped, VHeldInv, VCmdTyped, VCmdType, VMqttTyped, VMqttType, VLeaseTyped,
     VServeInv, VFlagsTyped, VNumbersTyped, VStateTyped, VDeadlineInv, Voip!Connected,
     Voip!sdkFrame, Voip!callVars, Voip!histVars, Voip!arbiterVars, Voip!outVars
<1>9. VLapsedInv'
  BY <1>1, VRoomsApart, <1>t DEF
     VInv, VTyped, VLapsedInv, VAnswers, VConnects, VClosing, VCmdTyped, VCmdType,
     VMqttTyped, VMqttType, VLeaseTyped, VFlagsTyped, VNumbersTyped, VStateTyped,
     VServeInv, VRoomInv, VHeldInv, VDialledInv, VDialled, Voip!Connected, Voip!sdkFrame,
     Voip!callVars, Voip!histVars, Voip!arbiterVars, Voip!outVars
<1>10. VLeaseTyped' /\ VCmdTyped' /\ VMqttTyped' /\ VRoomInv' /\ VDialledInv'
  BY <1>1 DEF VInv, VTyped, VLeaseTyped, VCmdTyped, VMqttTyped, VRoomInv, VDialledInv,
         VDialled
<1> QED
  BY <1>2, <1>3, <1>4, <1>5, <1>6, <1>7, <1>8, <1>9, <1>10 DEF VInv, VTyped

LEMMA VPeerAcceptsStep ==
    ASSUME VInv, NEW c \in Voip!Conns, Voip!PeerAccepts(c)
    PROVE  VInv'
<1>1. UNCHANGED <<voipOwner, voipOwnerId, voipCancelled, voipTicket, voipEndAsked,
      voipTransition, outgoing, outCall, outTimed, ignored, pending, activeRoom,
      voipAttempt, connecting, voipFresh, active, voipPush, voipServing, voipLink,
      voipBound, created, lapsed, hungUp, voipCmd, mqtt>>
  BY DEF Voip!PeerAccepts, Voip!Deferred, Voip!sdkFrame, Voip!callVars, Voip!histVars,
     Voip!arbiterVars, Voip!outVars
<1>t. VTasksTyped' /\ (VEnded => VEnded')
  BY VOneDeferred DEF VInv, VTyped, Voip!PeerAccepts
<1>2. VFlagsTyped'
  BY <1>1, VRoomsApart, <1>t DEF VInv, VTyped, VFlagsTyped, Voip!PeerAccepts,
     Voip!sdkFrame, Voip!callVars, Voip!histVars, Voip!arbiterVars, Voip!outVars
<1>3. VStateTyped'
  BY <1>1, VRoomsApart, <1>t DEF VInv, VTyped, VStateTyped, Voip!PeerAccepts,
     Voip!sdkFrame, Voip!callVars, Voip!histVars, Voip!arbiterVars, Voip!outVars
<1>4. VTasksTyped'
  BY <1>t
<1>5. VDeadlineInv'
  <2>1. ~connecting /\ UNCHANGED connecting
    BY DEF VInv, VDeadlineInv, Voip!PeerAccepts, Voip!Conns
  <2> QED
    BY <1>1, <2>1 DEF VInv, VDeadlineInv, Voip!PeerAccepts
<1>6. VHeldInv'
  BY <1>1, VRoomsApart, <1>t DEF
     VInv, VTyped, VHeldInv, VCmdTyped, VCmdType, VMqttTyped, VMqttType, VLeaseTyped,
     VServeInv, VFlagsTyped, VNumbersTyped, VStateTyped, VDeadlineInv, Voip!PeerAccepts,
     Voip!sdkFrame, Voip!callVars, Voip!histVars, Voip!arbiterVars, Voip!outVars
<1>7. VLapsedInv'
  BY <1>1, VRoomsApart, <1>t DEF VInv, VTyped, VLapsedInv, VAnswers, VConnects, VClosing,
     VCmdTyped, VCmdType, VMqttTyped, VMqttType, VLeaseTyped, VFlagsTyped, VNumbersTyped,
     VStateTyped, VServeInv, VRoomInv, VHeldInv, VDialledInv, VDialled, Voip!PeerAccepts,
     Voip!sdkFrame, Voip!callVars, Voip!histVars, Voip!arbiterVars, Voip!outVars
<1>8. VLeaseTyped' /\ VNumbersTyped' /\ VCmdTyped' /\ VMqttTyped' /\ VServeInv' /\
      VRoomInv' /\ VDialledInv'
  BY <1>1 DEF VInv, VTyped, VLeaseTyped, VNumbersTyped, VCmdTyped, VMqttTyped,
         VServeInv, VRoomInv, VDialledInv, VDialled
<1> QED
  BY <1>2, <1>3, <1>4, <1>5, <1>6, <1>7, <1>8 DEF VInv, VTyped

LEMMA VPeerHangsUpStep ==
    ASSUME VInv, NEW c \in Voip!Conns, Voip!PeerHangsUp(c)
    PROVE  VInv'
<1>1. UNCHANGED <<voipOwner, voipOwnerId, voipCancelled, voipTicket, voipEndAsked,
      voipTransition, outgoing, outCall, outTimed, ignored, pending, activeRoom,
      voipAttempt, connecting, voipFresh, active, voipState, voipTimed, mediaStart,
      voipPush, voipServing, voipLink, voipBound, created, lapsed, hungUp, voipCmd, mqtt>>
  BY DEF Voip!PeerHangsUp, Voip!Deferred, Voip!sdkFrame, Voip!connVars, Voip!callVars,
     Voip!histVars, Voip!arbiterVars, Voip!outVars
<1>t. VTasksTyped' /\ (VEnded => VEnded')
  BY VOneDeferred DEF VInv, VTyped, Voip!PeerHangsUp
<1>2. VTasksTyped'
  BY <1>t
<1>3. VHeldInv'
  BY <1>1, VRoomsApart, <1>t DEF VInv, VTyped, VHeldInv, VCmdTyped, VCmdType, VMqttTyped,
     VMqttType, VLeaseTyped, VServeInv, VFlagsTyped, VNumbersTyped, VStateTyped,
     VDeadlineInv, Voip!PeerHangsUp, Voip!sdkFrame, Voip!connVars, Voip!callVars,
     Voip!histVars, Voip!arbiterVars, Voip!outVars
<1>4. VLapsedInv'
  BY <1>1, VRoomsApart, <1>t DEF VInv, VTyped, VLapsedInv, VAnswers, VConnects, VClosing,
     VCmdTyped, VCmdType, VMqttTyped, VMqttType, VLeaseTyped, VFlagsTyped, VNumbersTyped,
     VStateTyped, VServeInv, VRoomInv, VHeldInv, VDialledInv, VDialled, Voip!PeerHangsUp,
     Voip!sdkFrame, Voip!connVars, Voip!callVars, Voip!histVars, Voip!arbiterVars,
     Voip!outVars
<1>5. VLeaseTyped' /\ VFlagsTyped' /\ VNumbersTyped' /\ VStateTyped' /\ VCmdTyped' /\
      VMqttTyped' /\ VDeadlineInv' /\ VServeInv' /\ VRoomInv' /\ VDialledInv'
  BY <1>1 DEF VInv, VTyped, VLeaseTyped, VFlagsTyped, VNumbersTyped, VStateTyped,
         VCmdTyped, VMqttTyped, VDeadlineInv, VServeInv, VRoomInv, VDialledInv, VDialled
<1> QED
  BY <1>2, <1>3, <1>4, <1>5 DEF VInv, VTyped

LEMMA VOnDisconnectedStep ==
    ASSUME VInv, NEW c \in Voip!Conns, Voip!OnDisconnected(c)
    PROVE  VInv'
<1>1. UNCHANGED <<voipOwner, voipOwnerId, voipCancelled, voipTicket, voipEndAsked,
      voipTransition, outgoing, outCall, outTimed, ignored, pending, activeRoom,
      voipAttempt, connecting, voipFresh, active, voipState, voipTimed, mediaStart,
      voipPush, voipServing, created, lapsed, hungUp, voipCmd, mqtt>>
  BY DEF Voip!OnDisconnected, Voip!Deferred, Voip!sdkFrame, Voip!connVars, Voip!callVars,
     Voip!histVars, Voip!arbiterVars, Voip!outVars
<1>t. VTasksTyped' /\ (VEnded => VEnded')
  <2>1. CASE UNCHANGED voipTasks
    BY <2>1 DEF VInv, VTyped, VTasksTyped, VEnded
  <2>2. CASE Voip!Deferred(<<Voip!Task("finish", c)>>)
    BY <2>2, VOneDeferred DEF VInv, VTyped
  <2> QED
    BY <2>1, <2>2 DEF Voip!OnDisconnected
<1>2. VTasksTyped'
  BY <1>t
<1>3. VHeldInv'
  BY <1>1, VRoomsApart, <1>t DEF VInv, VTyped, VHeldInv, VCmdTyped, VCmdType, VMqttTyped,
     VMqttType, VLeaseTyped, VServeInv, VFlagsTyped, VNumbersTyped, VStateTyped,
     VDeadlineInv, Voip!OnDisconnected, Voip!sdkFrame, Voip!connVars, Voip!callVars,
     Voip!histVars, Voip!arbiterVars, Voip!outVars
<1>4. VLapsedInv'
  BY <1>1, VRoomsApart, <1>t DEF VInv, VTyped, VLapsedInv, VAnswers, VConnects, VClosing,
     VCmdTyped, VCmdType, VMqttTyped, VMqttType, VLeaseTyped, VFlagsTyped, VNumbersTyped,
     VStateTyped, VServeInv, VRoomInv, VHeldInv, VDialledInv, VDialled,
     Voip!OnDisconnected, Voip!sdkFrame, Voip!connVars, Voip!callVars, Voip!histVars,
     Voip!arbiterVars, Voip!outVars
<1>5. VLeaseTyped' /\ VFlagsTyped' /\ VNumbersTyped' /\ VStateTyped' /\ VCmdTyped' /\
      VMqttTyped' /\ VDeadlineInv' /\ VServeInv' /\ VRoomInv' /\ VDialledInv'
  BY <1>1 DEF VInv, VTyped, VLeaseTyped, VFlagsTyped, VNumbersTyped, VStateTyped,
         VCmdTyped, VMqttTyped, VDeadlineInv, VServeInv, VRoomInv, VDialledInv, VDialled
<1> QED
  BY <1>2, <1>3, <1>4, <1>5 DEF VInv, VTyped

LEMMA VPushEndsStep ==
    ASSUME VInv, Voip!PushEnds
    PROVE  VInv'
<1>1. UNCHANGED <<voipOwner, voipOwnerId, voipCancelled, voipTicket, voipEndAsked,
      voipTransition, outgoing, outCall, outTimed, ignored, pending, activeRoom,
      voipAttempt, connecting, voipFresh, active, voipState, voipTimed, mediaStart,
      voipServing, voipBound, voipTasks, created, lapsed, hungUp, voipCmd, mqtt>>
  BY DEF Voip!PushEnds, Voip!Disconnect, Voip!sdkFrame, Voip!connVars, Voip!callVars,
     Voip!histVars, Voip!arbiterVars, Voip!outVars
<1>2. VLeaseTyped' /\ VFlagsTyped' /\ VNumbersTyped' /\ VStateTyped' /\ VCmdTyped' /\
      VMqttTyped' /\ VTasksTyped' /\ VDeadlineInv' /\ VServeInv' /\ VHeldInv' /\
      VRoomInv' /\ VDialledInv' /\ VLapsedInv'
  BY <1>1 DEF VInv, VTyped, VLeaseTyped, VFlagsTyped, VNumbersTyped, VStateTyped,
         VCmdTyped, VMqttTyped, VTasksTyped, VDeadlineInv, VServeInv, VHeldInv,
         VRoomInv, VDialledInv, VLapsedInv, VAnswers, VClosing, VConnects, VDialled,
         VEnded
<1> QED
  BY <1>2 DEF VInv, VTyped

LEMMA VLifecycleWorkerStep ==
    ASSUME VInv, Voip!LifecycleWorker
    PROVE  VInv'
<1>1. UNCHANGED <<voipTicket, outgoing, outCall, outTimed, ignored, pending, activeRoom,
      voipAttempt, connecting, voipFresh, active, voipState, voipTimed, mediaStart,
      voipPush, voipLink, voipTasks, created, lapsed, hungUp, voipCmd, mqtt>>
  BY DEF Voip!LifecycleWorker, Voip!EndOwner, Voip!callVars, Voip!connVars, Voip!histVars,
     Voip!Release, Voip!outVars
<1>2. VLeaseTyped'
  BY <1>1, VRoomsApart DEF VInv, VTyped, VLeaseTyped, Voip!LifecycleWorker, Voip!EndOwner,
     Voip!callVars, Voip!connVars, Voip!histVars, Voip!Release, Voip!outVars
<1>3. VServeInv'
  BY <1>1, VRoomsApart DEF VInv, VTyped, VServeInv, VCmdTyped, VCmdType, VLeaseTyped,
     VFlagsTyped, VNumbersTyped, VStateTyped, Voip!LifecycleWorker, Voip!EndOwner,
     Voip!callVars, Voip!connVars, Voip!histVars, Voip!Release, Voip!outVars
<1>4. VHeldInv'
  BY <1>1, VRoomsApart DEF VInv, VTyped, VHeldInv, VCmdTyped, VCmdType, VMqttTyped,
     VMqttType, VLeaseTyped, VServeInv, VFlagsTyped, VNumbersTyped, VStateTyped,
     VDeadlineInv, VEnded, Voip!LifecycleWorker, Voip!EndOwner, Voip!callVars,
     Voip!connVars, Voip!histVars, Voip!Release, Voip!outVars
<1>5. VLapsedInv'
  BY <1>1, VRoomsApart DEF VInv, VTyped, VLapsedInv, VAnswers, VConnects, VClosing,
     VCmdTyped, VCmdType, VMqttTyped, VMqttType, VLeaseTyped, VFlagsTyped, VNumbersTyped,
     VStateTyped, VServeInv, VRoomInv, VHeldInv, VDialledInv, VDialled, VEnded,
     Voip!LifecycleWorker, Voip!EndOwner, Voip!callVars, Voip!connVars, Voip!histVars,
     Voip!Release, Voip!outVars
<1>6. VFlagsTyped' /\ VNumbersTyped' /\ VStateTyped' /\ VCmdTyped' /\ VMqttTyped' /\
      VTasksTyped' /\ VDeadlineInv' /\ VRoomInv' /\ VDialledInv'
  BY <1>1 DEF VInv, VTyped, VFlagsTyped, VNumbersTyped, VStateTyped, VCmdTyped,
         VMqttTyped, VTasksTyped, VDeadlineInv, VRoomInv, VDialledInv, VDialled
<1> QED
  BY <1>2, <1>3, <1>4, <1>5, <1>6 DEF VInv, VTyped

LEMMA VServiceStopsStep ==
    ASSUME VInv, Voip!ServiceStops
    PROVE  VInv'
<1>1. UNCHANGED <<voipOwner, voipOwnerId, voipCancelled, voipTicket, ignored, voipAttempt,
      voipServing, voipBound, voipTasks, created, lapsed, hungUp, voipCmd, mqtt>>
  BY DEF Voip!ServiceStops, Voip!StopSession, Voip!histVars, Voip!NotOutgoing,
     Voip!Disconnect, Voip!EndSession
<1>2. VLeaseTyped'
  BY <1>1, VRoomsApart DEF VInv, VTyped, VLeaseTyped, Voip!ServiceStops, Voip!StopSession,
     Voip!histVars, Voip!EndSession, Voip!Conns
<1>3. VFlagsTyped'
  BY <1>1, VRoomsApart DEF VInv, VTyped, VFlagsTyped, Voip!ServiceStops, Voip!StopSession,
     Voip!histVars, Voip!NotOutgoing, Voip!Conns
<1>4. VNumbersTyped'
  BY <1>1, VRoomsApart DEF VInv, VTyped, VNumbersTyped, Voip!Conns, Voip!ServiceStops,
     Voip!StopSession, Voip!histVars
<1>5. VStateTyped'
  BY <1>1, VRoomsApart DEF VInv, VTyped, VStateTyped, Voip!ServiceStops, Voip!StopSession,
     Voip!histVars, Voip!Conns
<1>6. VDeadlineInv'
  BY <1>1, VRoomsApart DEF VInv, VTyped, VDeadlineInv, VCmdTyped, VCmdType, VFlagsTyped,
     VNumbersTyped, VStateTyped, Voip!ServiceStops, Voip!StopSession, Voip!histVars,
     Voip!NotOutgoing, Voip!Disconnect, Voip!VoipIsActive, Voip!EndSession, Voip!Conns,
     Voip!InSession
<1>7. VServeInv'
  BY <1>1, VRoomsApart DEF VInv, VTyped, VServeInv, VCmdTyped, VCmdType, VLeaseTyped,
     VFlagsTyped, VNumbersTyped, VStateTyped, Voip!ServiceStops, Voip!StopSession,
     Voip!histVars, Voip!NotOutgoing, Voip!Disconnect, Voip!VoipIsActive, Voip!EndSession,
     Voip!Conns, Voip!InSession
<1>8. VHeldInv'
  BY <1>1, VRoomsApart DEF VInv, VTyped, VHeldInv, VCmdTyped, VCmdType, VMqttTyped,
     VMqttType, VLeaseTyped, VServeInv, VFlagsTyped, VNumbersTyped, VStateTyped,
     VDeadlineInv, VEnded, Voip!ServiceStops, Voip!StopSession, Voip!histVars,
     Voip!NotOutgoing, Voip!Disconnect, Voip!VoipIsActive, Voip!EndSession, Voip!Conns,
     Voip!InSession
<1>9. VRoomInv'
  BY <1>1, VRoomsApart DEF VInv, VTyped, VRoomInv, VCmdTyped, VCmdType, VMqttTyped,
     VMqttType, Voip!ServiceStops, Voip!StopSession, Voip!histVars, Voip!NotOutgoing,
     Voip!Disconnect, Voip!VoipIsActive, Voip!EndSession, Voip!Conns, Voip!InSession
<1>10. VDialledInv'
  BY <1>1, VRoomsApart DEF VInv, VTyped, VDialledInv, VDialled, VRoomInv, VCmdTyped,
     VCmdType, VMqttTyped, VMqttType, Voip!ServiceStops, Voip!StopSession, Voip!histVars,
     Voip!NotOutgoing, Voip!Disconnect, Voip!VoipIsActive, Voip!EndSession, Voip!Conns,
     Voip!InSession
<1>11. VLapsedInv'
  BY <1>1, VRoomsApart DEF VInv, VTyped, VLapsedInv, VAnswers, VConnects, VClosing,
     VCmdTyped, VCmdType, VMqttTyped, VMqttType, VLeaseTyped, VFlagsTyped, VNumbersTyped,
     VStateTyped, VServeInv, VRoomInv, VHeldInv, VDialledInv, VDialled, VEnded,
     Voip!ServiceStops, Voip!StopSession, Voip!histVars, Voip!NotOutgoing,
     Voip!Disconnect, Voip!VoipIsActive, Voip!EndSession, Voip!Conns, Voip!InSession
<1>12. VCmdTyped' /\ VMqttTyped' /\ VTasksTyped'
  BY <1>1 DEF VInv, VTyped, VCmdTyped, VMqttTyped, VTasksTyped
<1> QED
  BY <1>2, <1>3, <1>4, <1>5, <1>6, <1>7, <1>8, <1>9, <1>10, <1>11, <1>12 DEF VInv, VTyped

LEMMA VServiceDrainedStep ==
    ASSUME VInv, Voip!ServiceDrained
    PROVE  VInv'
<1>1. UNCHANGED <<voipOwner, voipOwnerId, voipCancelled, voipTicket, voipEndAsked,
      outgoing, outCall, outTimed, ignored, pending, activeRoom, voipAttempt, connecting,
      voipFresh, active, voipState, voipTimed, mediaStart, voipPush, voipServing,
      voipLink, voipBound, voipTasks, created, lapsed, hungUp, voipCmd, mqtt>>
  BY DEF Voip!ServiceDrained, Voip!callVars, Voip!connVars, Voip!sdkVars, Voip!histVars,
     Voip!outVars
<1>2. VLeaseTyped'
  BY <1>1, VRoomsApart DEF VInv, VTyped, VLeaseTyped, Voip!ServiceDrained, Voip!callVars,
     Voip!connVars, Voip!sdkVars, Voip!histVars, Voip!outVars
<1>3. VServeInv'
  BY <1>1, VRoomsApart DEF VInv, VTyped, VServeInv, VCmdTyped, VCmdType, VLeaseTyped,
     VFlagsTyped, VNumbersTyped, VStateTyped, Voip!ServiceDrained, Voip!callVars,
     Voip!connVars, Voip!sdkVars, Voip!histVars, Voip!outVars
<1>4. VLapsedInv'
  BY <1>1, VRoomsApart DEF
     VInv, VTyped, VLapsedInv, VAnswers, VConnects, VClosing, VCmdTyped, VCmdType,
     VMqttTyped, VMqttType, VLeaseTyped, VFlagsTyped, VNumbersTyped, VStateTyped,
     VServeInv, VRoomInv, VHeldInv, VDialledInv, VDialled, VEnded, Voip!ServiceDrained,
     Voip!callVars, Voip!connVars, Voip!sdkVars, Voip!histVars, Voip!outVars
<1>5. VFlagsTyped' /\ VNumbersTyped' /\ VStateTyped' /\ VCmdTyped' /\ VMqttTyped' /\
      VTasksTyped' /\ VDeadlineInv' /\ VHeldInv' /\ VRoomInv' /\ VDialledInv'
  BY <1>1 DEF VInv, VTyped, VFlagsTyped, VNumbersTyped, VStateTyped, VCmdTyped,
         VMqttTyped, VTasksTyped, VDeadlineInv, VHeldInv, VRoomInv, VDialledInv,
         VDialled, VEnded
<1> QED
  BY <1>2, <1>3, <1>4, <1>5 DEF VInv, VTyped

LEMMA VTicketExpiresStep ==
    ASSUME VInv, Voip!TicketExpires
    PROVE  VInv'
<1>1. UNCHANGED <<voipOwner, voipOwnerId, voipCancelled, voipEndAsked, voipTransition,
      outgoing, outCall, outTimed, ignored, pending, activeRoom, voipAttempt, connecting,
      voipFresh, active, voipState, voipTimed, mediaStart, voipPush, voipServing,
      voipLink, voipBound, voipTasks, created, lapsed, hungUp, voipCmd, mqtt>>
  BY DEF Voip!TicketExpires, Voip!callVars, Voip!connVars, Voip!sdkVars, Voip!histVars,
     Voip!outVars
<1>2. VLeaseTyped' /\ VFlagsTyped' /\ VNumbersTyped' /\ VStateTyped' /\ VCmdTyped' /\
      VMqttTyped' /\ VTasksTyped' /\ VDeadlineInv' /\ VServeInv' /\ VHeldInv' /\
      VRoomInv' /\ VDialledInv' /\ VLapsedInv'
  BY <1>1 DEF VInv, VTyped, VLeaseTyped, VFlagsTyped, VNumbersTyped, VStateTyped,
         VCmdTyped, VMqttTyped, VTasksTyped, VDeadlineInv, VServeInv, VHeldInv,
         VRoomInv, VDialledInv, VLapsedInv, VAnswers, VClosing, VConnects, VDialled,
         VEnded
<1> QED
  BY <1>2 DEF VInv, VTyped

LEMMA VWorkerTaskStep ==
    ASSUME VInv, Voip!WorkerTask
    PROVE  VInv'
<1>1. UNCHANGED <<voipOwner, voipOwnerId, voipCancelled, voipTicket, voipTransition,
      outgoing, outCall, outTimed, ignored, pending, voipAttempt, connecting, voipFresh,
      voipServing, voipBound, created, lapsed, hungUp, voipCmd, mqtt>>
  BY DEF Voip!WorkerTask, Voip!Lost, Voip!HandleDisconnect, Voip!StartMedia,
     Voip!Disconnect, Voip!leaseFrame, Voip!outVars, Voip!connVars, Voip!callVars,
     Voip!histVars
<1>2. /\ VTasksTyped' /\ Head(voipTasks).conn # 0
      /\ VEnded => VEnded' \/ Head(voipTasks).do = "ended"
  BY VTaken DEF VInv, VTyped, Voip!WorkerTask, VTaskType, Voip!Conns
<1>3. \/ /\ UNCHANGED <<active, voipState, voipTimed, activeRoom>>
         /\ Voip!EndSession \/ (UNCHANGED voipEndAsked /\ Head(voipTasks).do # "ended")
      \/ /\ active # 0 /\ active' = 0 /\ voipState' = "IDLE" /\ voipTimed' = FALSE
         /\ activeRoom' = NoRoom /\ Voip!EndSession
  <2>1. CASE Voip!Lost(Head(voipTasks).conn) /\ Head(voipTasks).do # "ended"
    BY <2>1, <1>2 DEF Voip!Lost, Voip!HandleDisconnect, Voip!connVars
  <2>2. CASE /\ UNCHANGED <<active, voipState, voipTimed, activeRoom, voipEndAsked>>
             /\ Head(voipTasks).do # "ended"
    BY <2>2
  <2>3. CASE UNCHANGED <<Voip!callVars, Voip!connVars>> /\ Voip!EndSession
    BY <2>3 DEF Voip!callVars, Voip!connVars
  <2> QED
    BY <2>1, <2>2, <2>3 DEF Voip!WorkerTask, Voip!StartMedia, Voip!callVars, Voip!connVars
<1>4. /\ VLeaseTyped'
      /\ \/ voipEndAsked' = voipEndAsked
         \/ voipEndAsked' <=> voipEndAsked \/ voipOwner = "HELD"
  <2>1. CASE Voip!EndSession
    BY <2>1, <1>1, VAsks DEF VInv, VTyped, VLeaseTyped
  <2>2. CASE UNCHANGED voipEndAsked
    BY <2>2, <1>1 DEF VInv, VTyped, VLeaseTyped
  <2> QED
    BY <2>1, <2>2, <1>3
<1>5. /\ voipEndAsked => voipEndAsked'
      /\ voipEndAsked' \/ voipOwner # "HELD"
         \/ (UNCHANGED <<active, voipState, voipTimed, activeRoom>> /\ Head(voipTasks).do # "ended")
  <2>1. CASE Voip!EndSession
    BY <2>1, VAsks DEF VInv, VTyped
  <2>2. CASE UNCHANGED voipEndAsked /\ Head(voipTasks).do # "ended"
             /\ UNCHANGED <<active, voipState, voipTimed, activeRoom>>
    BY <2>2
  <2> QED
    BY <2>1, <2>2, <1>3
<1>6. VCmdTyped' /\ VMqttTyped' /\ VFlagsTyped' /\ VStateTyped'
  BY <1>1, <1>3 DEF VInv, VTyped, VFlagsTyped, VStateTyped, VCmdTyped, VMqttTyped
<1>7. VNumbersTyped'
  BY <1>1, <1>3, VRoomsApart DEF VInv, VTyped, VNumbersTyped
<1>8. VDeadlineInv'
  BY <1>1, <1>3 DEF VInv, VDeadlineInv
<1>9. VServeInv'
  BY <1>1, <1>3 DEF VInv, VServeInv
<1>10. VHeldInv'
  BY <1>1, <1>2, <1>5 DEF VInv, VHeldInv
<1>11. VRoomInv'
  BY <1>1, <1>3 DEF VInv, VRoomInv
<1>12. VDialledInv'
  BY <1>1, <1>3 DEF VInv, VDialledInv, VDialled
<1>13. VLapsedInv'
  <2>1. CASE voipEndAsked' /\ (\/ UNCHANGED <<active, activeRoom>>
                         \/ (active' = 0 /\ activeRoom' = NoRoom))
    BY <2>1, <1>1, <1>2 DEF VInv, VLapsedInv, VAnswers, VConnects, VClosing
  <2>2. CASE voipOwner # "HELD" /\ (\/ UNCHANGED <<active, activeRoom>>
                         \/ (active' = 0 /\ activeRoom' = NoRoom))
    BY <2>2, <1>1 DEF VInv, VTyped, VLapsedInv, VAnswers, VConnects, VClosing, VServeInv,
                      VLeaseTyped
  <2>3. CASE UNCHANGED <<active, activeRoom>> /\ Head(voipTasks).do # "ended"
    BY <2>3, <1>1, <1>2, <1>5 DEF VInv, VLapsedInv, VAnswers, VConnects, VClosing
  <2> QED
    BY <2>1, <2>2, <2>3, <1>3, <1>5
<1> QED
  BY <1>2, <1>4, <1>6, <1>7, <1>8, <1>9, <1>10, <1>11, <1>12, <1>13 DEF VInv, VTyped

LEMMA VBeginDialStep ==
    ASSUME VInv, Voip!BeginDial
    PROVE  VInv'
<1>1. UNCHANGED <<voipTicket, voipTransition, outgoing, outCall, outTimed, ignored,
      pending, activeRoom, voipAttempt, connecting, voipFresh, active, voipState,
      voipTimed, mediaStart, voipPush, voipLink, voipBound, voipTasks, created, hungUp,
      mqtt>>
  BY DEF Voip!BeginDial, Voip!BeginSession, Voip!CmdGo, Voip!callVars, Voip!cmdFrame,
     Voip!Hold, Voip!outVars, Voip!connVars
<1>2. VLeaseTyped'
  BY <1>1, VRoomsApart DEF VInv, VTyped, VLeaseTyped, Voip!BeginDial, Voip!BeginSession,
     Voip!callVars, Voip!cmdFrame, Voip!Hold, Voip!CmdIdle, Voip!outVars, Voip!connVars
<1>3. VCmdTyped'
  BY <1>1, VRoomsApart DEF VInv, VTyped, VCmdTyped, VCmdType, Voip!MaybeRoom, Voip!Rooms,
     VRoomInv, Voip!BeginDial, Voip!CmdGo, Voip!callVars, Voip!cmdFrame, Voip!CmdIdle,
     Voip!outVars, Voip!connVars
<1>4. VDeadlineInv'
  BY <1>1, VRoomsApart DEF VInv, VTyped, VDeadlineInv, VCmdTyped, VCmdType, VFlagsTyped,
     VNumbersTyped, VStateTyped, Voip!BeginDial, Voip!CmdAt, Voip!BeginSession,
     Voip!CmdGo, Voip!callVars, Voip!cmdFrame, Voip!Hold, Voip!CmdIdle, Voip!outVars,
     Voip!connVars
<1>5. VServeInv'
  BY <1>1, VRoomsApart DEF VInv, VTyped, VServeInv, VCmdTyped, VCmdType, VLeaseTyped,
     VFlagsTyped, VNumbersTyped, VStateTyped, Voip!BeginDial, Voip!CmdAt,
     Voip!BeginSession, Voip!CmdGo, Voip!callVars, Voip!cmdFrame, Voip!Hold, Voip!CmdIdle,
     Voip!outVars, Voip!connVars
<1>6. VHeldInv'
  BY <1>1, VRoomsApart DEF VInv, VTyped, VHeldInv, VCmdTyped, VCmdType, VMqttTyped,
     VMqttType, VLeaseTyped, VServeInv, VFlagsTyped, VNumbersTyped, VStateTyped,
     VDeadlineInv, VEnded, Voip!BeginDial, Voip!CmdAt, Voip!BeginSession, Voip!CmdGo,
     Voip!callVars, Voip!cmdFrame, Voip!Hold, Voip!CmdIdle, Voip!outVars, Voip!connVars
<1>7. VRoomInv'
  BY <1>1, VRoomsApart DEF VInv, VTyped, VRoomInv, VCmdTyped, VCmdType, VMqttTyped,
     VMqttType, Voip!BeginDial, Voip!CmdAt, Voip!BeginSession, Voip!CmdGo, Voip!callVars,
     Voip!cmdFrame, Voip!Hold, Voip!CmdIdle, Voip!outVars, Voip!connVars
<1>8. VDialledInv'
  BY <1>1, VRoomsApart DEF VInv, VTyped, VDialledInv, VDialled, VRoomInv, VCmdTyped,
     VCmdType, VMqttTyped, VMqttType, Voip!BeginDial, Voip!CmdAt, Voip!BeginSession,
     Voip!CmdGo, Voip!callVars, Voip!cmdFrame, Voip!Hold, Voip!CmdIdle, Voip!outVars,
     Voip!connVars
<1>9. VLapsedInv'
  BY <1>1, VRoomsApart DEF VInv, VTyped, VLapsedInv, VAnswers, VConnects, VClosing,
     VCmdTyped, VCmdType, VMqttTyped, VMqttType, VLeaseTyped, VFlagsTyped, VNumbersTyped,
     VStateTyped, VServeInv, VRoomInv, VHeldInv, VDialledInv, VDialled, VEnded,
     Voip!BeginDial, Voip!CmdAt, Voip!BeginSession, Voip!CmdGo, Voip!callVars,
     Voip!cmdFrame, Voip!Hold, Voip!CmdIdle, Voip!outVars, Voip!connVars
<1>10. VFlagsTyped' /\ VNumbersTyped' /\ VStateTyped' /\ VMqttTyped' /\ VTasksTyped'
  BY <1>1 DEF VInv, VTyped, VFlagsTyped, VNumbersTyped, VStateTyped, VMqttTyped,
         VTasksTyped
<1> QED
  BY <1>2, <1>3, <1>4, <1>5, <1>6, <1>7, <1>8, <1>9, <1>10 DEF VInv, VTyped

LEMMA VReserveCallStep ==
    ASSUME VInv, Voip!ReserveCall
    PROVE  VInv'
<1>1. UNCHANGED <<voipOwner, voipOwnerId, voipCancelled, voipTicket, voipEndAsked,
      voipTransition, ignored, pending, activeRoom, voipAttempt, connecting, voipFresh,
      active, voipState, voipTimed, mediaStart, voipPush, voipServing, voipLink,
      voipBound, voipTasks, created, lapsed, hungUp, mqtt>>
  BY DEF Voip!ReserveCall, Voip!CmdGo, Voip!outVars, Voip!histVars, Voip!arbiterVars,
     Voip!cmdFrame, Voip!connVars
<1>2. VFlagsTyped'
  BY <1>1, VRoomsApart DEF VInv, VTyped, VFlagsTyped, Voip!ReserveCall, Voip!outVars,
     Voip!histVars, Voip!arbiterVars, Voip!cmdFrame, Voip!CmdIdle, Voip!connVars
<1>3. VCmdTyped'
  BY <1>1, VRoomsApart DEF VInv, VTyped, VCmdTyped, VCmdType, Voip!MaybeRoom, Voip!Rooms,
     VRoomInv, Voip!ReserveCall, Voip!CmdGo, Voip!outVars, Voip!histVars,
     Voip!arbiterVars, Voip!cmdFrame, Voip!CmdIdle, Voip!connVars
<1>4. VDeadlineInv'
  BY <1>1, VRoomsApart DEF VInv, VTyped, VDeadlineInv, VCmdTyped, VCmdType, VFlagsTyped,
     VNumbersTyped, VStateTyped, Voip!ReserveCall, Voip!CmdAt, Voip!VoipIsActive,
     Voip!CmdGo, Voip!outVars, Voip!histVars, Voip!arbiterVars, Voip!cmdFrame,
     Voip!InSession, Voip!CmdIdle, Voip!connVars
<1>5. VServeInv'
  BY <1>1, VRoomsApart DEF VInv, VTyped, VServeInv, VCmdTyped, VCmdType, VLeaseTyped,
     VFlagsTyped, VNumbersTyped, VStateTyped, Voip!ReserveCall, Voip!CmdAt,
     Voip!VoipIsActive, Voip!CmdGo, Voip!outVars, Voip!histVars, Voip!arbiterVars,
     Voip!cmdFrame, Voip!InSession, Voip!CmdIdle, Voip!connVars
<1>6. VHeldInv'
  BY <1>1, VRoomsApart DEF VInv, VTyped, VHeldInv, VCmdTyped, VCmdType, VMqttTyped,
     VMqttType, VLeaseTyped, VServeInv, VFlagsTyped, VNumbersTyped, VStateTyped,
     VDeadlineInv, VEnded, Voip!ReserveCall, Voip!CmdAt, Voip!VoipIsActive, Voip!CmdGo,
     Voip!outVars, Voip!histVars, Voip!arbiterVars, Voip!cmdFrame, Voip!InSession,
     Voip!CmdIdle, Voip!connVars
<1>7. VRoomInv'
  BY <1>1, VRoomsApart DEF VInv, VTyped, VRoomInv, VCmdTyped, VCmdType, VMqttTyped,
     VMqttType, Voip!ReserveCall, Voip!CmdAt, Voip!VoipIsActive, Voip!CmdGo, Voip!outVars,
     Voip!histVars, Voip!arbiterVars, Voip!cmdFrame, Voip!InSession, Voip!CmdIdle,
     Voip!connVars
<1>8. VDialledInv'
  BY <1>1, VRoomsApart DEF VInv, VTyped, VDialledInv, VDialled, VRoomInv, VCmdTyped,
     VCmdType, VMqttTyped, VMqttType, Voip!ReserveCall, Voip!CmdAt, Voip!VoipIsActive,
     Voip!CmdGo, Voip!outVars, Voip!histVars, Voip!arbiterVars, Voip!cmdFrame,
     Voip!InSession, Voip!CmdIdle, Voip!connVars
<1>9. VLapsedInv'
  BY <1>1, VRoomsApart DEF VInv, VTyped, VLapsedInv, VAnswers, VConnects, VClosing,
     VCmdTyped, VCmdType, VMqttTyped, VMqttType, VLeaseTyped, VFlagsTyped, VNumbersTyped,
     VStateTyped, VServeInv, VRoomInv, VHeldInv, VDialledInv, VDialled, VEnded,
     Voip!ReserveCall, Voip!CmdAt, Voip!VoipIsActive, Voip!CmdGo, Voip!outVars,
     Voip!histVars, Voip!arbiterVars, Voip!cmdFrame, Voip!InSession, Voip!CmdIdle,
     Voip!connVars
<1>10. VLeaseTyped' /\ VNumbersTyped' /\ VStateTyped' /\ VMqttTyped' /\ VTasksTyped'
  BY <1>1 DEF VInv, VTyped, VLeaseTyped, VNumbersTyped, VStateTyped, VMqttTyped,
         VTasksTyped
<1> QED
  BY <1>2, <1>3, <1>4, <1>5, <1>6, <1>7, <1>8, <1>9, <1>10 DEF VInv, VTyped

LEMMA VServerCallsStep ==
    ASSUME VInv, Voip!ServerCalls
    PROVE  VInv'
<1>1. UNCHANGED <<voipOwner, voipOwnerId, voipCancelled, voipTicket, voipEndAsked,
      voipTransition, outgoing, outCall, outTimed, ignored, pending, activeRoom,
      voipAttempt, connecting, voipFresh, active, voipState, voipTimed, mediaStart,
      voipPush, voipServing, voipLink, voipBound, voipTasks, lapsed, hungUp, mqtt>>
  BY DEF Voip!ServerCalls, Voip!CmdGo, Voip!callVars, Voip!arbiterVars, Voip!cmdFrame,
     Voip!outVars, Voip!connVars
<1>2. VCmdTyped'
  BY <1>1, VRoomsApart DEF VInv, VTyped, VCmdTyped, VCmdType, Voip!MaybeRoom, Voip!Rooms,
     VRoomInv, Voip!ServerCalls, Voip!CmdGo, Voip!callVars, Voip!arbiterVars,
     Voip!cmdFrame, Voip!CmdIdle, Voip!outVars, Voip!connVars
<1>3. VDeadlineInv'
  BY <1>1, VRoomsApart DEF VInv, VTyped, VDeadlineInv, VCmdTyped, VCmdType, VFlagsTyped,
     VNumbersTyped, VStateTyped, Voip!ServerCalls, Voip!CmdAt, Voip!CmdGo, Voip!callVars,
     Voip!arbiterVars, Voip!cmdFrame, Voip!CmdIdle, Voip!outVars, Voip!connVars
<1>4. VServeInv'
  BY <1>1, VRoomsApart DEF VInv, VTyped, VServeInv, VCmdTyped, VCmdType, VLeaseTyped,
     VFlagsTyped, VNumbersTyped, VStateTyped, Voip!ServerCalls, Voip!CmdAt, Voip!CmdGo,
     Voip!callVars, Voip!arbiterVars, Voip!cmdFrame, Voip!CmdIdle, Voip!outVars,
     Voip!connVars
<1>5. VHeldInv'
  BY <1>1, VRoomsApart DEF VInv, VTyped, VHeldInv, VCmdTyped, VCmdType, VMqttTyped,
     VMqttType, VLeaseTyped, VServeInv, VFlagsTyped, VNumbersTyped, VStateTyped,
     VDeadlineInv, VEnded, Voip!ServerCalls, Voip!CmdAt, Voip!CmdGo, Voip!callVars,
     Voip!arbiterVars, Voip!cmdFrame, Voip!CmdIdle, Voip!outVars, Voip!connVars
<1>6. VRoomInv'
  BY <1>1, VRoomsApart DEF VInv, VTyped, VRoomInv, VCmdTyped, VCmdType, VMqttTyped,
     VMqttType, Voip!ServerCalls, Voip!CmdAt, Voip!CmdGo, Voip!callVars, Voip!arbiterVars,
     Voip!cmdFrame, Voip!CmdIdle, Voip!outVars, Voip!connVars
<1>7. VDialledInv'
  BY <1>1, VRoomsApart DEF VInv, VTyped, VDialledInv, VDialled, VRoomInv, VCmdTyped,
     VCmdType, VMqttTyped, VMqttType, Voip!ServerCalls, Voip!CmdAt, Voip!CmdGo,
     Voip!callVars, Voip!arbiterVars, Voip!cmdFrame, Voip!CmdIdle, Voip!outVars,
     Voip!connVars
<1>8. VLapsedInv'
  BY <1>1, VRoomsApart DEF VInv, VTyped, VLapsedInv, VAnswers, VConnects, VClosing,
     VCmdTyped, VCmdType, VMqttTyped, VMqttType, VLeaseTyped, VFlagsTyped, VNumbersTyped,
     VStateTyped, VServeInv, VRoomInv, VHeldInv, VDialledInv, VDialled, VEnded,
     Voip!ServerCalls, Voip!CmdAt, Voip!CmdGo, Voip!callVars, Voip!arbiterVars,
     Voip!cmdFrame, Voip!CmdIdle, Voip!outVars, Voip!connVars
<1>9. VLeaseTyped' /\ VFlagsTyped' /\ VNumbersTyped' /\ VStateTyped' /\ VMqttTyped' /\
      VTasksTyped'
  BY <1>1 DEF VInv, VTyped, VLeaseTyped, VFlagsTyped, VNumbersTyped, VStateTyped,
         VMqttTyped, VTasksTyped
<1> QED
  BY <1>2, <1>3, <1>4, <1>5, <1>6, <1>7, <1>8, <1>9 DEF VInv, VTyped

LEMMA VCallAnsweredStep ==
    ASSUME VInv, Voip!CallAnswered
    PROVE  VInv'
<1>1. UNCHANGED <<voipOwner, voipOwnerId, voipCancelled, voipTicket, voipEndAsked,
      voipTransition, ignored, pending, activeRoom, voipAttempt, connecting, voipFresh,
      active, voipState, voipTimed, mediaStart, voipPush, voipServing, voipLink,
      voipBound, voipTasks, created, lapsed, hungUp, mqtt>>
  BY DEF Voip!CallAnswered, Voip!outVars, Voip!CmdGo, Voip!NotOutgoing, Voip!histVars,
     Voip!arbiterVars, Voip!cmdFrame, Voip!connVars
<1>2. VFlagsTyped'
  BY <1>1, VRoomsApart DEF VInv, VTyped, VFlagsTyped, Voip!CallAnswered, Voip!outVars,
     Voip!NotOutgoing, Voip!histVars, Voip!arbiterVars, Voip!cmdFrame, Voip!CmdIdle,
     Voip!connVars
<1>3. VCmdTyped'
  BY <1>1, VRoomsApart DEF VInv, VTyped, VCmdTyped, VCmdType, Voip!MaybeRoom, Voip!Rooms,
     VRoomInv, Voip!CallAnswered, Voip!outVars, Voip!CmdGo, Voip!histVars,
     Voip!arbiterVars, Voip!cmdFrame, Voip!CmdIdle, Voip!connVars
<1>4. VDeadlineInv'
  BY <1>1, VRoomsApart DEF VInv, VTyped, VDeadlineInv, VCmdTyped, VCmdType, VFlagsTyped,
     VNumbersTyped, VStateTyped, Voip!CallAnswered, Voip!CmdAt, Voip!outVars, Voip!CmdGo,
     Voip!NotOutgoing, Voip!histVars, Voip!arbiterVars, Voip!cmdFrame, Voip!CmdIdle,
     Voip!connVars
<1>5. VServeInv'
  BY <1>1, VRoomsApart DEF VInv, VTyped, VServeInv, VCmdTyped, VCmdType, VLeaseTyped,
     VFlagsTyped, VNumbersTyped, VStateTyped, Voip!CallAnswered, Voip!CmdAt, Voip!outVars,
     Voip!CmdGo, Voip!NotOutgoing, Voip!histVars, Voip!arbiterVars, Voip!cmdFrame,
     Voip!CmdIdle, Voip!connVars
<1>6. VHeldInv'
  BY <1>1, VRoomsApart DEF VInv, VTyped, VHeldInv, VCmdTyped, VCmdType, VMqttTyped,
     VMqttType, VLeaseTyped, VServeInv, VFlagsTyped, VNumbersTyped, VStateTyped,
     VDeadlineInv, VEnded, Voip!CallAnswered, Voip!CmdAt, Voip!outVars, Voip!CmdGo,
     Voip!NotOutgoing, Voip!histVars, Voip!arbiterVars, Voip!cmdFrame, Voip!CmdIdle,
     Voip!connVars
<1>7. VRoomInv'
  BY <1>1, VRoomsApart DEF VInv, VTyped, VRoomInv, VCmdTyped, VCmdType, VMqttTyped,
     VMqttType, Voip!CallAnswered, Voip!CmdAt, Voip!outVars, Voip!CmdGo, Voip!NotOutgoing,
     Voip!histVars, Voip!arbiterVars, Voip!cmdFrame, Voip!CmdIdle, Voip!connVars
<1>8. VDialledInv'
  BY <1>1, VRoomsApart DEF VInv, VTyped, VDialledInv, VDialled, VRoomInv, VCmdTyped,
     VCmdType, VMqttTyped, VMqttType, Voip!CallAnswered, Voip!CmdAt, Voip!outVars,
     Voip!CmdGo, Voip!NotOutgoing, Voip!histVars, Voip!arbiterVars, Voip!cmdFrame,
     Voip!CmdIdle, Voip!connVars
<1>9. VLapsedInv'
  BY <1>1, VRoomsApart DEF VInv, VTyped, VLapsedInv, VAnswers, VConnects, VClosing,
     VCmdTyped, VCmdType, VMqttTyped, VMqttType, VLeaseTyped, VFlagsTyped, VNumbersTyped,
     VStateTyped, VServeInv, VRoomInv, VHeldInv, VDialledInv, VDialled, VEnded,
     Voip!CallAnswered, Voip!CmdAt, Voip!outVars, Voip!CmdGo, Voip!NotOutgoing,
     Voip!histVars, Voip!arbiterVars, Voip!cmdFrame, Voip!CmdIdle, Voip!connVars
<1>10. VLeaseTyped' /\ VNumbersTyped' /\ VStateTyped' /\ VMqttTyped' /\ VTasksTyped'
  BY <1>1 DEF VInv, VTyped, VLeaseTyped, VNumbersTyped, VStateTyped, VMqttTyped,
         VTasksTyped
<1> QED
  BY <1>2, <1>3, <1>4, <1>5, <1>6, <1>7, <1>8, <1>9, <1>10 DEF VInv, VTyped

LEMMA VFinishStep ==
    ASSUME VInv, Voip!Finish
    PROVE  VInv'
<1>1. UNCHANGED <<voipTicket, outgoing, outCall, outTimed, ignored, pending, activeRoom,
      voipAttempt, connecting, voipFresh, active, voipState, voipTimed, mediaStart,
      voipPush, voipLink, voipTasks, created, lapsed, hungUp, mqtt>>
  BY DEF Voip!Finish, Voip!EndOwner, Voip!CmdGo, Voip!arbiterVars, Voip!callVars,
     Voip!connVars, Voip!histVars, Voip!Release, Voip!outVars
<1>2. VLeaseTyped'
  BY <1>1, VRoomsApart DEF VInv, VTyped, VLeaseTyped, Voip!Finish, Voip!EndOwner,
     Voip!arbiterVars, Voip!callVars, Voip!connVars, Voip!histVars, Voip!Release,
     Voip!CmdIdle, Voip!outVars
<1>3. VCmdTyped'
  BY <1>1, VRoomsApart DEF VInv, VTyped, VCmdTyped, VCmdType, Voip!MaybeRoom, Voip!Rooms,
     VRoomInv, Voip!Finish, Voip!CmdGo, Voip!arbiterVars, Voip!callVars, Voip!connVars,
     Voip!histVars, Voip!CmdIdle, Voip!outVars
<1>4. VDeadlineInv'
  BY <1>1, VRoomsApart DEF VInv, VTyped, VDeadlineInv, VCmdTyped, VCmdType, VFlagsTyped,
     VNumbersTyped, VStateTyped, Voip!Finish, Voip!CmdAt, Voip!EndOwner, Voip!CmdGo,
     Voip!arbiterVars, Voip!callVars, Voip!connVars, Voip!histVars, Voip!Release,
     Voip!CmdIdle, Voip!outVars
<1>5. VServeInv'
  BY <1>1, VRoomsApart DEF VInv, VTyped, VServeInv, VCmdTyped, VCmdType, VLeaseTyped,
     VFlagsTyped, VNumbersTyped, VStateTyped, Voip!Finish, Voip!CmdAt, Voip!EndOwner,
     Voip!CmdGo, Voip!arbiterVars, Voip!callVars, Voip!connVars, Voip!histVars,
     Voip!Release, Voip!CmdIdle, Voip!outVars
<1>6. VHeldInv'
  BY <1>1, VRoomsApart DEF VInv, VTyped, VHeldInv, VCmdTyped, VCmdType, VMqttTyped,
     VMqttType, VLeaseTyped, VServeInv, VFlagsTyped, VNumbersTyped, VStateTyped,
     VDeadlineInv, VEnded, Voip!Finish, Voip!CmdAt, Voip!EndOwner, Voip!CmdGo,
     Voip!arbiterVars, Voip!callVars, Voip!connVars, Voip!histVars, Voip!Release,
     Voip!CmdIdle, Voip!outVars
<1>7. VRoomInv'
  BY <1>1, VRoomsApart DEF VInv, VTyped, VRoomInv, VCmdTyped, VCmdType, VMqttTyped,
     VMqttType, Voip!Finish, Voip!CmdAt, Voip!EndOwner, Voip!CmdGo, Voip!arbiterVars,
     Voip!callVars, Voip!connVars, Voip!histVars, Voip!Release, Voip!CmdIdle, Voip!outVars
<1>8. VDialledInv'
  BY <1>1, VRoomsApart DEF VInv, VTyped, VDialledInv, VDialled, VRoomInv, VCmdTyped,
     VCmdType, VMqttTyped, VMqttType, Voip!Finish, Voip!CmdAt, Voip!EndOwner, Voip!CmdGo,
     Voip!arbiterVars, Voip!callVars, Voip!connVars, Voip!histVars, Voip!Release,
     Voip!CmdIdle, Voip!outVars
<1>9. VLapsedInv'
  BY <1>1, VRoomsApart DEF VInv, VTyped, VLapsedInv, VAnswers, VConnects, VClosing,
     VCmdTyped, VCmdType, VMqttTyped, VMqttType, VLeaseTyped, VFlagsTyped, VNumbersTyped,
     VStateTyped, VServeInv, VRoomInv, VHeldInv, VDialledInv, VDialled, VEnded,
     Voip!Finish, Voip!CmdAt, Voip!EndOwner, Voip!CmdGo, Voip!arbiterVars, Voip!callVars,
     Voip!connVars, Voip!histVars, Voip!Release, Voip!CmdIdle, Voip!outVars
<1>10. VFlagsTyped' /\ VNumbersTyped' /\ VStateTyped' /\ VMqttTyped' /\ VTasksTyped'
  BY <1>1 DEF VInv, VTyped, VFlagsTyped, VNumbersTyped, VStateTyped, VMqttTyped,
         VTasksTyped
<1> QED
  BY <1>2, <1>3, <1>4, <1>5, <1>6, <1>7, <1>8, <1>9, <1>10 DEF VInv, VTyped

LEMMA VFinishedStep ==
    ASSUME VInv, Voip!Finished
    PROVE  VInv'
<1>1. UNCHANGED <<voipOwner, voipOwnerId, voipCancelled, voipTicket, voipEndAsked,
      voipTransition, outgoing, outCall, outTimed, ignored, pending, activeRoom,
      voipAttempt, connecting, voipFresh, active, voipState, voipTimed, mediaStart,
      voipPush, voipServing, voipLink, voipBound, voipTasks, created, lapsed, hungUp,
      mqtt>>
  BY DEF Voip!Finished, Voip!CmdGo, Voip!callVars, Voip!histVars, Voip!arbiterVars,
     Voip!cmdFrame, Voip!outVars, Voip!connVars
<1>2. VCmdTyped'
  BY <1>1, VRoomsApart DEF VInv, VTyped, VCmdTyped, VCmdType, Voip!MaybeRoom, Voip!Rooms,
     VRoomInv, Voip!Finished, Voip!CmdGo, Voip!callVars, Voip!histVars, Voip!arbiterVars,
     Voip!cmdFrame, Voip!CmdIdle, Voip!outVars, Voip!connVars
<1>3. VDeadlineInv'
  BY <1>1, VRoomsApart DEF VInv, VTyped, VDeadlineInv, VCmdTyped, VCmdType, VFlagsTyped,
     VNumbersTyped, VStateTyped, Voip!Finished, Voip!CmdAt, Voip!CmdGo, Voip!callVars,
     Voip!histVars, Voip!arbiterVars, Voip!cmdFrame, Voip!CmdIdle, Voip!outVars,
     Voip!connVars
<1>4. VServeInv'
  BY <1>1, VRoomsApart DEF VInv, VTyped, VServeInv, VCmdTyped, VCmdType, VLeaseTyped,
     VFlagsTyped, VNumbersTyped, VStateTyped, Voip!Finished, Voip!CmdAt, Voip!CmdGo,
     Voip!callVars, Voip!histVars, Voip!arbiterVars, Voip!cmdFrame, Voip!CmdIdle,
     Voip!outVars, Voip!connVars
<1>5. VHeldInv'
  BY <1>1, VRoomsApart DEF VInv, VTyped, VHeldInv, VCmdTyped, VCmdType, VMqttTyped,
     VMqttType, VLeaseTyped, VServeInv, VFlagsTyped, VNumbersTyped, VStateTyped,
     VDeadlineInv, VEnded, Voip!Finished, Voip!CmdAt, Voip!CmdGo, Voip!callVars,
     Voip!histVars, Voip!arbiterVars, Voip!cmdFrame, Voip!CmdIdle, Voip!outVars,
     Voip!connVars
<1>6. VRoomInv'
  BY <1>1, VRoomsApart DEF VInv, VTyped, VRoomInv, VCmdTyped, VCmdType, VMqttTyped,
     VMqttType, Voip!Finished, Voip!CmdAt, Voip!CmdGo, Voip!callVars, Voip!histVars,
     Voip!arbiterVars, Voip!cmdFrame, Voip!CmdIdle, Voip!outVars, Voip!connVars
<1>7. VDialledInv'
  BY <1>1, VRoomsApart DEF VInv, VTyped, VDialledInv, VDialled, VRoomInv, VCmdTyped,
     VCmdType, VMqttTyped, VMqttType, Voip!Finished, Voip!CmdAt, Voip!CmdGo,
     Voip!callVars, Voip!histVars, Voip!arbiterVars, Voip!cmdFrame, Voip!CmdIdle,
     Voip!outVars, Voip!connVars
<1>8. VLapsedInv'
  BY <1>1, VRoomsApart DEF VInv, VTyped, VLapsedInv, VAnswers, VConnects, VClosing,
     VCmdTyped, VCmdType, VMqttTyped, VMqttType, VLeaseTyped, VFlagsTyped, VNumbersTyped,
     VStateTyped, VServeInv, VRoomInv, VHeldInv, VDialledInv, VDialled, VEnded,
     Voip!Finished, Voip!CmdAt, Voip!CmdGo, Voip!callVars, Voip!histVars,
     Voip!arbiterVars, Voip!cmdFrame, Voip!CmdIdle, Voip!outVars, Voip!connVars
<1>9. VLeaseTyped' /\ VFlagsTyped' /\ VNumbersTyped' /\ VStateTyped' /\ VMqttTyped' /\
      VTasksTyped'
  BY <1>1 DEF VInv, VTyped, VLeaseTyped, VFlagsTyped, VNumbersTyped, VStateTyped,
         VMqttTyped, VTasksTyped
<1> QED
  BY <1>2, <1>3, <1>4, <1>5, <1>6, <1>7, <1>8, <1>9 DEF VInv, VTyped

LEMMA VHangupStep ==
    ASSUME VInv, Voip!Hangup
    PROVE  VInv'
<1>1. UNCHANGED <<voipOwner, voipOwnerId, voipCancelled, voipTicket, voipEndAsked,
      voipTransition, outgoing, outCall, outTimed, ignored, pending, activeRoom,
      voipAttempt, connecting, voipFresh, active, voipState, voipTimed, mediaStart,
      voipPush, voipServing, voipLink, voipBound, voipTasks, created, lapsed, mqtt>>
  BY DEF Voip!Hangup, Voip!CmdGo, Voip!GivenUp, Voip!callVars, Voip!arbiterVars,
     Voip!cmdFrame, Voip!outVars, Voip!connVars
<1>2. VCmdTyped'
  BY <1>1, VRoomsApart DEF VInv, VTyped, VCmdTyped, VCmdType, Voip!MaybeRoom, Voip!Rooms,
     VRoomInv, Voip!Hangup, Voip!CmdGo, Voip!callVars, Voip!arbiterVars, Voip!cmdFrame,
     Voip!CmdIdle, Voip!outVars, Voip!connVars
<1>3. VDeadlineInv'
  BY <1>1, VRoomsApart DEF VInv, VTyped, VDeadlineInv, VCmdTyped, VCmdType, VFlagsTyped,
     VNumbersTyped, VStateTyped, Voip!Hangup, Voip!CmdAt, Voip!CmdGo, Voip!GivenUp,
     Voip!callVars, Voip!arbiterVars, Voip!cmdFrame, Voip!CmdIdle, Voip!outVars,
     Voip!connVars
<1>4. VServeInv'
  BY <1>1, VRoomsApart DEF VInv, VTyped, VServeInv, VCmdTyped, VCmdType, VLeaseTyped,
     VFlagsTyped, VNumbersTyped, VStateTyped, Voip!Hangup, Voip!CmdAt, Voip!CmdGo,
     Voip!GivenUp, Voip!callVars, Voip!arbiterVars, Voip!cmdFrame, Voip!CmdIdle,
     Voip!outVars, Voip!connVars
<1>5. VHeldInv'
  BY <1>1, VRoomsApart DEF VInv, VTyped, VHeldInv, VCmdTyped, VCmdType, VMqttTyped,
     VMqttType, VLeaseTyped, VServeInv, VFlagsTyped, VNumbersTyped, VStateTyped,
     VDeadlineInv, VEnded, Voip!Hangup, Voip!CmdAt, Voip!CmdGo, Voip!GivenUp,
     Voip!callVars, Voip!arbiterVars, Voip!cmdFrame, Voip!CmdIdle, Voip!outVars,
     Voip!connVars
<1>6. VRoomInv'
  BY <1>1, VRoomsApart DEF VInv, VTyped, VRoomInv, VCmdTyped, VCmdType, VMqttTyped,
     VMqttType, Voip!Hangup, Voip!CmdAt, Voip!CmdGo, Voip!GivenUp, Voip!callVars,
     Voip!arbiterVars, Voip!cmdFrame, Voip!CmdIdle, Voip!outVars, Voip!connVars
<1>7. VDialledInv'
  BY <1>1, VRoomsApart DEF VInv, VTyped, VDialledInv, VDialled, VRoomInv, VCmdTyped,
     VCmdType, VMqttTyped, VMqttType, Voip!Hangup, Voip!CmdAt, Voip!CmdGo, Voip!GivenUp,
     Voip!callVars, Voip!arbiterVars, Voip!cmdFrame, Voip!CmdIdle, Voip!outVars,
     Voip!connVars
<1>8. VLapsedInv'
  BY <1>1, VRoomsApart DEF VInv, VTyped, VLapsedInv, VAnswers, VConnects, VClosing,
     VCmdTyped, VCmdType, VMqttTyped, VMqttType, VLeaseTyped, VFlagsTyped, VNumbersTyped,
     VStateTyped, VServeInv, VRoomInv, VHeldInv, VDialledInv, VDialled, VEnded,
     Voip!Hangup, Voip!CmdAt, Voip!CmdGo, Voip!GivenUp, Voip!callVars, Voip!arbiterVars,
     Voip!cmdFrame, Voip!CmdIdle, Voip!outVars, Voip!connVars
<1>9. VLeaseTyped' /\ VFlagsTyped' /\ VNumbersTyped' /\ VStateTyped' /\ VMqttTyped' /\
      VTasksTyped'
  BY <1>1 DEF VInv, VTyped, VLeaseTyped, VFlagsTyped, VNumbersTyped, VStateTyped,
         VMqttTyped, VTasksTyped
<1> QED
  BY <1>2, <1>3, <1>4, <1>5, <1>6, <1>7, <1>8, <1>9 DEF VInv, VTyped

LEMMA VHangupLocalStep ==
    ASSUME VInv, Voip!HangupLocal
    PROVE  VInv'
<1>1. UNCHANGED <<voipOwner, voipOwnerId, voipCancelled, voipTicket, voipTransition,
      ignored, voipAttempt, voipServing, voipBound, voipTasks, created, lapsed, voipCmd,
      mqtt>>
  BY DEF Voip!HangupLocal, Voip!StopSession, Voip!GivenUp, Voip!leaseFrame,
     Voip!NotOutgoing, Voip!Disconnect, Voip!EndSession
<1>2. VLeaseTyped'
  BY <1>1, VRoomsApart DEF VInv, VTyped, VLeaseTyped, Voip!HangupLocal, Voip!StopSession,
     Voip!leaseFrame, Voip!EndSession, Voip!Conns
<1>3. VFlagsTyped'
  BY <1>1, VRoomsApart DEF VInv, VTyped, VFlagsTyped, Voip!HangupLocal, Voip!StopSession,
     Voip!leaseFrame, Voip!NotOutgoing, Voip!Conns
<1>4. VNumbersTyped'
  BY <1>1, VRoomsApart DEF VInv, VTyped, VNumbersTyped, Voip!Conns, Voip!HangupLocal,
     Voip!StopSession, Voip!leaseFrame
<1>5. VStateTyped'
  BY <1>1, VRoomsApart DEF VInv, VTyped, VStateTyped, Voip!HangupLocal, Voip!StopSession,
     Voip!leaseFrame, Voip!Conns
<1>6. VDeadlineInv'
  BY <1>1, VRoomsApart DEF VInv, VTyped, VDeadlineInv, VCmdTyped, VCmdType, VFlagsTyped,
     VNumbersTyped, VStateTyped, Voip!HangupLocal, Voip!CmdAt, Voip!VoipIsActive,
     Voip!StopSession, Voip!GivenUp, Voip!leaseFrame, Voip!InSession, Voip!NotOutgoing,
     Voip!Disconnect, Voip!EndSession, Voip!Conns
<1>7. VServeInv'
  BY <1>1, VRoomsApart DEF VInv, VTyped, VServeInv, VCmdTyped, VCmdType, VLeaseTyped,
     VFlagsTyped, VNumbersTyped, VStateTyped, Voip!HangupLocal, Voip!CmdAt,
     Voip!VoipIsActive, Voip!StopSession, Voip!GivenUp, Voip!leaseFrame, Voip!InSession,
     Voip!NotOutgoing, Voip!Disconnect, Voip!EndSession, Voip!Conns
<1>8. VHeldInv'
  BY <1>1, VRoomsApart DEF VInv, VTyped, VHeldInv, VCmdTyped, VCmdType, VMqttTyped,
     VMqttType, VLeaseTyped, VServeInv, VFlagsTyped, VNumbersTyped, VStateTyped,
     VDeadlineInv, VEnded, Voip!HangupLocal, Voip!CmdAt, Voip!VoipIsActive,
     Voip!StopSession, Voip!GivenUp, Voip!leaseFrame, Voip!InSession, Voip!NotOutgoing,
     Voip!Disconnect, Voip!EndSession, Voip!Conns
<1>9. VRoomInv'
  BY <1>1, VRoomsApart DEF VInv, VTyped, VRoomInv, VCmdTyped, VCmdType, VMqttTyped,
     VMqttType, Voip!HangupLocal, Voip!CmdAt, Voip!VoipIsActive, Voip!StopSession,
     Voip!GivenUp, Voip!leaseFrame, Voip!InSession, Voip!NotOutgoing, Voip!Disconnect,
     Voip!EndSession, Voip!Conns
<1>10. VDialledInv'
  BY <1>1, VRoomsApart DEF VInv, VTyped, VDialledInv, VDialled, VRoomInv, VCmdTyped,
     VCmdType, VMqttTyped, VMqttType, Voip!HangupLocal, Voip!CmdAt, Voip!VoipIsActive,
     Voip!StopSession, Voip!GivenUp, Voip!leaseFrame, Voip!InSession, Voip!NotOutgoing,
     Voip!Disconnect, Voip!EndSession, Voip!Conns
<1>11. VLapsedInv'
  BY <1>1, VRoomsApart DEF VInv, VTyped, VLapsedInv, VAnswers, VConnects, VClosing,
     VCmdTyped, VCmdType, VMqttTyped, VMqttType, VLeaseTyped, VFlagsTyped, VNumbersTyped,
     VStateTyped, VServeInv, VRoomInv, VHeldInv, VDialledInv, VDialled, VEnded,
     Voip!HangupLocal, Voip!CmdAt, Voip!VoipIsActive, Voip!StopSession, Voip!GivenUp,
     Voip!leaseFrame, Voip!InSession, Voip!NotOutgoing, Voip!Disconnect, Voip!EndSession,
     Voip!Conns
<1>12. VCmdTyped' /\ VMqttTyped' /\ VTasksTyped'
  BY <1>1 DEF VInv, VTyped, VCmdTyped, VMqttTyped, VTasksTyped
<1> QED
  BY <1>2, <1>3, <1>4, <1>5, <1>6, <1>7, <1>8, <1>9, <1>10, <1>11, <1>12 DEF VInv, VTyped

LEMMA VAcceptStep ==
    ASSUME VInv, Voip!Accept
    PROVE  VInv'
<1>1. UNCHANGED <<voipOwner, voipOwnerId, voipCancelled, voipTicket, voipEndAsked,
      voipTransition, outgoing, outCall, outTimed, ignored, pending, activeRoom,
      voipAttempt, connecting, voipFresh, active, voipState, voipTimed, mediaStart,
      voipPush, voipServing, voipLink, voipBound, voipTasks, created, lapsed, hungUp,
      mqtt>>
  BY DEF Voip!Accept, Voip!callVars, Voip!histVars, Voip!arbiterVars, Voip!cmdFrame,
     Voip!outVars, Voip!connVars
<1>2. VCmdTyped'
  BY <1>1, VRoomsApart DEF VInv, VTyped, VCmdTyped, VCmdType, Voip!MaybeRoom, Voip!Rooms,
     VRoomInv, Voip!Accept, Voip!callVars, Voip!histVars, Voip!arbiterVars, Voip!cmdFrame,
     Voip!outVars, Voip!connVars
<1>3. VDeadlineInv'
  BY <1>1, VRoomsApart DEF VInv, VTyped, VDeadlineInv, VCmdTyped, VCmdType, VFlagsTyped,
     VNumbersTyped, VStateTyped, Voip!Accept, Voip!CmdAt, Voip!callVars, Voip!histVars,
     Voip!arbiterVars, Voip!cmdFrame, Voip!outVars, Voip!connVars
<1>4. VServeInv'
  BY <1>1, VRoomsApart DEF VInv, VTyped, VServeInv, VCmdTyped, VCmdType, VLeaseTyped,
     VFlagsTyped, VNumbersTyped, VStateTyped, Voip!Accept, Voip!CmdAt, Voip!callVars,
     Voip!histVars, Voip!arbiterVars, Voip!cmdFrame, Voip!outVars, Voip!connVars
<1>5. VHeldInv'
  BY <1>1, VRoomsApart DEF VInv, VTyped, VHeldInv, VCmdTyped, VCmdType, VMqttTyped,
     VMqttType, VLeaseTyped, VServeInv, VFlagsTyped, VNumbersTyped, VStateTyped,
     VDeadlineInv, VEnded, Voip!Accept, Voip!CmdAt, Voip!callVars, Voip!histVars,
     Voip!arbiterVars, Voip!cmdFrame, Voip!outVars, Voip!connVars
<1>6. VRoomInv'
  BY <1>1, VRoomsApart DEF VInv, VTyped, VRoomInv, VCmdTyped, VCmdType, VMqttTyped,
     VMqttType, Voip!Accept, Voip!CmdAt, Voip!callVars, Voip!histVars, Voip!arbiterVars,
     Voip!cmdFrame, Voip!outVars, Voip!connVars
<1>7. VDialledInv'
  BY <1>1, VRoomsApart DEF VInv, VTyped, VDialledInv, VDialled, VRoomInv, VCmdTyped,
     VCmdType, VMqttTyped, VMqttType, Voip!Accept, Voip!CmdAt, Voip!callVars,
     Voip!histVars, Voip!arbiterVars, Voip!cmdFrame, Voip!outVars, Voip!connVars
<1>8. VLapsedInv'
  BY <1>1, VRoomsApart DEF VInv, VTyped, VLapsedInv, VAnswers, VConnects, VClosing,
     VCmdTyped, VCmdType, VMqttTyped, VMqttType, VLeaseTyped, VFlagsTyped, VNumbersTyped,
     VStateTyped, VServeInv, VRoomInv, VHeldInv, VDialledInv, VDialled, VEnded,
     Voip!Accept, Voip!CmdAt, Voip!callVars, Voip!histVars, Voip!arbiterVars,
     Voip!cmdFrame, Voip!outVars, Voip!connVars
<1>9. VLeaseTyped' /\ VFlagsTyped' /\ VNumbersTyped' /\ VStateTyped' /\ VMqttTyped' /\
      VTasksTyped'
  BY <1>1 DEF VInv, VTyped, VLeaseTyped, VFlagsTyped, VNumbersTyped, VStateTyped,
         VMqttTyped, VTasksTyped
<1> QED
  BY <1>2, <1>3, <1>4, <1>5, <1>6, <1>7, <1>8, <1>9 DEF VInv, VTyped

LEMMA VBeginAcceptStep ==
    ASSUME VInv, Voip!BeginAccept
    PROVE  VInv'
<1>1. UNCHANGED <<voipTransition, outgoing, outCall, outTimed, ignored, pending,
      activeRoom, voipAttempt, connecting, voipFresh, active, voipState, voipTimed,
      mediaStart, voipPush, voipLink, voipBound, voipTasks, created, lapsed, hungUp,
      mqtt>>
  BY DEF Voip!BeginAccept, Voip!BeginSession, Voip!CmdGo, Voip!arbiterVars, Voip!callVars,
     Voip!histVars, Voip!cmdFrame, Voip!Hold, Voip!outVars, Voip!connVars
<1>2. VLeaseTyped'
  BY <1>1, VRoomsApart DEF VInv, VTyped, VLeaseTyped, Voip!BeginAccept, Voip!BeginSession,
     Voip!arbiterVars, Voip!callVars, Voip!histVars, Voip!cmdFrame, Voip!Hold,
     Voip!CmdIdle, Voip!outVars, Voip!connVars
<1>3. VCmdTyped'
  BY <1>1, VRoomsApart DEF VInv, VTyped, VCmdTyped, VCmdType, Voip!MaybeRoom, Voip!Rooms,
     VRoomInv, Voip!BeginAccept, Voip!CmdGo, Voip!arbiterVars, Voip!callVars,
     Voip!histVars, Voip!cmdFrame, Voip!CmdIdle, Voip!outVars, Voip!connVars
<1>4. VDeadlineInv'
  BY <1>1, VRoomsApart DEF VInv, VTyped, VDeadlineInv, VCmdTyped, VCmdType, VFlagsTyped,
     VNumbersTyped, VStateTyped, Voip!BeginAccept, Voip!CmdAt, Voip!BeginSession,
     Voip!CmdGo, Voip!arbiterVars, Voip!callVars, Voip!histVars, Voip!cmdFrame, Voip!Hold,
     Voip!CmdIdle, Voip!outVars, Voip!connVars
<1>5. VServeInv'
  BY <1>1, VRoomsApart DEF VInv, VTyped, VServeInv, VCmdTyped, VCmdType, VLeaseTyped,
     VFlagsTyped, VNumbersTyped, VStateTyped, Voip!BeginAccept, Voip!CmdAt,
     Voip!BeginSession, Voip!CmdGo, Voip!arbiterVars, Voip!callVars, Voip!histVars,
     Voip!cmdFrame, Voip!Hold, Voip!CmdIdle, Voip!outVars, Voip!connVars
<1>6. VHeldInv'
  BY <1>1, VRoomsApart DEF VInv, VTyped, VHeldInv, VCmdTyped, VCmdType, VMqttTyped,
     VMqttType, VLeaseTyped, VServeInv, VFlagsTyped, VNumbersTyped, VStateTyped,
     VDeadlineInv, VEnded, Voip!BeginAccept, Voip!CmdAt, Voip!BeginSession, Voip!CmdGo,
     Voip!arbiterVars, Voip!callVars, Voip!histVars, Voip!cmdFrame, Voip!Hold,
     Voip!CmdIdle, Voip!outVars, Voip!connVars
<1>7. VRoomInv'
  BY <1>1, VRoomsApart DEF VInv, VTyped, VRoomInv, VCmdTyped, VCmdType, VMqttTyped,
     VMqttType, Voip!BeginAccept, Voip!CmdAt, Voip!BeginSession, Voip!CmdGo,
     Voip!arbiterVars, Voip!callVars, Voip!histVars, Voip!cmdFrame, Voip!Hold,
     Voip!CmdIdle, Voip!outVars, Voip!connVars
<1>8. VDialledInv'
  BY <1>1, VRoomsApart DEF VInv, VTyped, VDialledInv, VDialled, VRoomInv, VCmdTyped,
     VCmdType, VMqttTyped, VMqttType, Voip!BeginAccept, Voip!CmdAt, Voip!BeginSession,
     Voip!CmdGo, Voip!arbiterVars, Voip!callVars, Voip!histVars, Voip!cmdFrame, Voip!Hold,
     Voip!CmdIdle, Voip!outVars, Voip!connVars
<1>9. VLapsedInv'
  BY <1>1, VRoomsApart DEF VInv, VTyped, VLapsedInv, VAnswers, VConnects, VClosing,
     VCmdTyped, VCmdType, VMqttTyped, VMqttType, VLeaseTyped, VFlagsTyped, VNumbersTyped,
     VStateTyped, VServeInv, VRoomInv, VHeldInv, VDialledInv, VDialled, VEnded,
     Voip!BeginAccept, Voip!CmdAt, Voip!BeginSession, Voip!CmdGo, Voip!arbiterVars,
     Voip!callVars, Voip!histVars, Voip!cmdFrame, Voip!Hold, Voip!CmdIdle, Voip!outVars,
     Voip!connVars
<1>10. VFlagsTyped' /\ VNumbersTyped' /\ VStateTyped' /\ VMqttTyped' /\ VTasksTyped'
  BY <1>1 DEF VInv, VTyped, VFlagsTyped, VNumbersTyped, VStateTyped, VMqttTyped,
         VTasksTyped
<1> QED
  BY <1>2, <1>3, <1>4, <1>5, <1>6, <1>7, <1>8, <1>9, <1>10 DEF VInv, VTyped

LEMMA VRunActionStep ==
    ASSUME VInv, Voip!RunAction
    PROVE  VInv'
<1>1. UNCHANGED <<voipOwner, voipOwnerId, voipCancelled, voipTicket, voipEndAsked,
      outgoing, outCall, outTimed, ignored, pending, activeRoom, voipAttempt, connecting,
      voipFresh, active, voipState, voipTimed, mediaStart, voipPush, voipServing,
      voipLink, voipBound, voipTasks, created, lapsed, hungUp, mqtt>>
  BY DEF Voip!RunAction, Voip!CmdGo, Voip!callVars, Voip!histVars, Voip!cmdFrame,
     Voip!outVars, Voip!connVars
<1>2. VLeaseTyped'
  BY <1>1, VRoomsApart DEF VInv, VTyped, VLeaseTyped, Voip!RunAction, Voip!callVars,
     Voip!histVars, Voip!cmdFrame, Voip!CmdIdle, Voip!outVars, Voip!connVars
<1>3. VCmdTyped'
  BY <1>1, VRoomsApart DEF VInv, VTyped, VCmdTyped, VCmdType, Voip!MaybeRoom, Voip!Rooms,
     VRoomInv, Voip!RunAction, Voip!CmdGo, Voip!callVars, Voip!histVars, Voip!cmdFrame,
     Voip!CmdIdle, Voip!outVars, Voip!connVars
<1>4. VDeadlineInv'
  BY <1>1, VRoomsApart DEF VInv, VTyped, VDeadlineInv, VCmdTyped, VCmdType, VFlagsTyped,
     VNumbersTyped, VStateTyped, Voip!RunAction, Voip!CmdAt, Voip!CmdGo, Voip!callVars,
     Voip!histVars, Voip!cmdFrame, Voip!CmdIdle, Voip!outVars, Voip!connVars
<1>5. VServeInv'
  BY <1>1, VRoomsApart DEF VInv, VTyped, VServeInv, VCmdTyped, VCmdType, VLeaseTyped,
     VFlagsTyped, VNumbersTyped, VStateTyped, Voip!RunAction, Voip!CmdAt, Voip!CmdGo,
     Voip!callVars, Voip!histVars, Voip!cmdFrame, Voip!CmdIdle, Voip!outVars,
     Voip!connVars
<1>6. VHeldInv'
  BY <1>1, VRoomsApart DEF VInv, VTyped, VHeldInv, VCmdTyped, VCmdType, VMqttTyped,
     VMqttType, VLeaseTyped, VServeInv, VFlagsTyped, VNumbersTyped, VStateTyped,
     VDeadlineInv, VEnded, Voip!RunAction, Voip!CmdAt, Voip!CmdGo, Voip!callVars,
     Voip!histVars, Voip!cmdFrame, Voip!CmdIdle, Voip!outVars, Voip!connVars
<1>7. VRoomInv'
  BY <1>1, VRoomsApart DEF VInv, VTyped, VRoomInv, VCmdTyped, VCmdType, VMqttTyped,
     VMqttType, Voip!RunAction, Voip!CmdAt, Voip!CmdGo, Voip!callVars, Voip!histVars,
     Voip!cmdFrame, Voip!CmdIdle, Voip!outVars, Voip!connVars
<1>8. VDialledInv'
  BY <1>1, VRoomsApart DEF VInv, VTyped, VDialledInv, VDialled, VRoomInv, VCmdTyped,
     VCmdType, VMqttTyped, VMqttType, Voip!RunAction, Voip!CmdAt, Voip!CmdGo,
     Voip!callVars, Voip!histVars, Voip!cmdFrame, Voip!CmdIdle, Voip!outVars,
     Voip!connVars
<1>9. VLapsedInv'
  BY <1>1, VRoomsApart DEF VInv, VTyped, VLapsedInv, VAnswers, VConnects, VClosing,
     VCmdTyped, VCmdType, VMqttTyped, VMqttType, VLeaseTyped, VFlagsTyped, VNumbersTyped,
     VStateTyped, VServeInv, VRoomInv, VHeldInv, VDialledInv, VDialled, VEnded,
     Voip!RunAction, Voip!CmdAt, Voip!CmdGo, Voip!callVars, Voip!histVars, Voip!cmdFrame,
     Voip!CmdIdle, Voip!outVars, Voip!connVars
<1>10. VFlagsTyped' /\ VNumbersTyped' /\ VStateTyped' /\ VMqttTyped' /\ VTasksTyped'
  BY <1>1 DEF VInv, VTyped, VFlagsTyped, VNumbersTyped, VStateTyped, VMqttTyped,
         VTasksTyped
<1> QED
  BY <1>2, <1>3, <1>4, <1>5, <1>6, <1>7, <1>8, <1>9, <1>10 DEF VInv, VTyped

LEMMA VAcceptPendingStep ==
    ASSUME VInv, Voip!AcceptPending
    PROVE  VInv'
<1>1. UNCHANGED <<voipOwner, voipOwnerId, voipCancelled, voipTicket, voipEndAsked,
      voipTransition, outgoing, outCall, outTimed, ignored, voipAttempt, connecting,
      voipFresh, active, voipState, voipTimed, mediaStart, voipPush, voipServing,
      voipLink, voipBound, voipTasks, created, lapsed, hungUp, mqtt>>
  BY DEF Voip!AcceptPending, Voip!CmdGo, Voip!outVars, Voip!histVars, Voip!arbiterVars,
     Voip!cmdFrame, Voip!connVars
<1>2. VCmdTyped'
  BY <1>1, VRoomsApart DEF VInv, VTyped, VCmdTyped, VCmdType, Voip!MaybeRoom, Voip!Rooms,
     VRoomInv, Voip!AcceptPending, Voip!CmdGo, Voip!outVars, Voip!histVars,
     Voip!arbiterVars, Voip!cmdFrame, Voip!CmdIdle, Voip!connVars
<1>3. VDeadlineInv'
  BY <1>1, VRoomsApart DEF VInv, VTyped, VDeadlineInv, VCmdTyped, VCmdType, VFlagsTyped,
     VNumbersTyped, VStateTyped, Voip!AcceptPending, Voip!CmdAt, Voip!CmdGo, Voip!outVars,
     Voip!histVars, Voip!arbiterVars, Voip!cmdFrame, Voip!CmdIdle, Voip!connVars
<1>4. VServeInv'
  BY <1>1, VRoomsApart DEF VInv, VTyped, VServeInv, VCmdTyped, VCmdType, VLeaseTyped,
     VFlagsTyped, VNumbersTyped, VStateTyped, Voip!AcceptPending, Voip!CmdAt, Voip!CmdGo,
     Voip!outVars, Voip!histVars, Voip!arbiterVars, Voip!cmdFrame, Voip!CmdIdle,
     Voip!connVars
<1>5. VHeldInv'
  BY <1>1, VRoomsApart DEF VInv, VTyped, VHeldInv, VCmdTyped, VCmdType, VMqttTyped,
     VMqttType, VLeaseTyped, VServeInv, VFlagsTyped, VNumbersTyped, VStateTyped,
     VDeadlineInv, VEnded, Voip!AcceptPending, Voip!CmdAt, Voip!CmdGo, Voip!outVars,
     Voip!histVars, Voip!arbiterVars, Voip!cmdFrame, Voip!CmdIdle, Voip!connVars
<1>6. VRoomInv'
  BY <1>1, VRoomsApart DEF VInv, VTyped, VRoomInv, VCmdTyped, VCmdType, VMqttTyped,
     VMqttType, Voip!AcceptPending, Voip!CmdAt, Voip!CmdGo, Voip!outVars, Voip!histVars,
     Voip!arbiterVars, Voip!cmdFrame, Voip!CmdIdle, Voip!connVars
<1>7. VDialledInv'
  BY <1>1, VRoomsApart DEF VInv, VTyped, VDialledInv, VDialled, VRoomInv, VCmdTyped,
     VCmdType, VMqttTyped, VMqttType, Voip!AcceptPending, Voip!CmdAt, Voip!CmdGo,
     Voip!outVars, Voip!histVars, Voip!arbiterVars, Voip!cmdFrame, Voip!CmdIdle,
     Voip!connVars
<1>8. VLapsedInv'
  BY <1>1, VRoomsApart DEF VInv, VTyped, VLapsedInv, VAnswers, VConnects, VClosing,
     VCmdTyped, VCmdType, VMqttTyped, VMqttType, VLeaseTyped, VFlagsTyped, VNumbersTyped,
     VStateTyped, VServeInv, VRoomInv, VHeldInv, VDialledInv, VDialled, VEnded,
     Voip!AcceptPending, Voip!CmdAt, Voip!CmdGo, Voip!outVars, Voip!histVars,
     Voip!arbiterVars, Voip!cmdFrame, Voip!CmdIdle, Voip!connVars
<1>9. VLeaseTyped' /\ VFlagsTyped' /\ VNumbersTyped' /\ VStateTyped' /\ VMqttTyped' /\
      VTasksTyped'
  BY <1>1 DEF VInv, VTyped, VLeaseTyped, VFlagsTyped, VNumbersTyped, VStateTyped,
         VMqttTyped, VTasksTyped
<1> QED
  BY <1>2, <1>3, <1>4, <1>5, <1>6, <1>7, <1>8, <1>9 DEF VInv, VTyped

LEMMA VStartAcceptedStep ==
    ASSUME VInv, Voip!StartAccepted
    PROVE  VInv'
<1>1. UNCHANGED <<voipOwner, voipOwnerId, voipCancelled, voipTicket, voipEndAsked,
      voipTransition, outgoing, outCall, outTimed, ignored, pending, activeRoom, active,
      voipPush, voipServing, voipBound, voipTasks, created, lapsed, hungUp, mqtt>>
  BY DEF Voip!StartAccepted, Voip!StartSession, Voip!CmdGo, Voip!StartFails,
     Voip!callVars, Voip!histVars, Voip!arbiterVars, Voip!MayStart, Voip!connVars,
     Voip!outVars
<1>2. VFlagsTyped'
  BY <1>1, VRoomsApart DEF VInv, VTyped, VFlagsTyped, Voip!StartAccepted,
     Voip!StartSession, Voip!StartFails, Voip!callVars, Voip!histVars, Voip!arbiterVars,
     Voip!MayStart, Voip!CmdIdle, Voip!connVars, Voip!outVars
<1>3. VNumbersTyped'
  <2>1. CASE Voip!StartSession
    BY <2>1, VRoomsApart DEF VInv, VTyped, VNumbersTyped, Voip!StartSession, Voip!MayStart
  <2>2. CASE Voip!StartFails
    BY <2>2 DEF VInv, VTyped, VNumbersTyped, Voip!StartFails, Voip!connVars
  <2> QED
    BY <2>1, <2>2 DEF Voip!StartAccepted
<1>4. VStateTyped'
  BY <1>1, VRoomsApart DEF VInv, VTyped, VStateTyped, Voip!StartAccepted,
     Voip!StartSession, Voip!StartFails, Voip!callVars, Voip!histVars, Voip!arbiterVars,
     Voip!MayStart, Voip!CmdIdle, Voip!connVars, Voip!outVars
<1>5. VCmdTyped'
  BY <1>1, VRoomsApart DEF VInv, VTyped, VCmdTyped, VCmdType, Voip!MaybeRoom, Voip!Rooms,
     VRoomInv, Voip!StartAccepted, Voip!CmdGo, Voip!callVars, Voip!histVars,
     Voip!arbiterVars, Voip!MayStart, Voip!CmdIdle, Voip!connVars, Voip!outVars
<1>6. VDeadlineInv'
  BY <1>1, VRoomsApart DEF VInv, VTyped, VDeadlineInv, VCmdTyped, VCmdType, VFlagsTyped,
     VNumbersTyped, VStateTyped, Voip!StartAccepted, Voip!CmdAt, Voip!StartSession,
     Voip!CmdGo, Voip!StartFails, Voip!callVars, Voip!histVars, Voip!arbiterVars,
     Voip!MayStart, Voip!CmdIdle, Voip!InSession, Voip!connVars, Voip!outVars
<1>7. VServeInv'
  BY <1>1, VRoomsApart DEF VInv, VTyped, VServeInv, VCmdTyped, VCmdType, VLeaseTyped,
     VFlagsTyped, VNumbersTyped, VStateTyped, Voip!StartAccepted, Voip!CmdAt,
     Voip!StartSession, Voip!CmdGo, Voip!StartFails, Voip!callVars, Voip!histVars,
     Voip!arbiterVars, Voip!MayStart, Voip!CmdIdle, Voip!InSession, Voip!connVars,
     Voip!outVars
<1>8. VHeldInv'
  BY <1>1, VRoomsApart DEF VInv, VTyped, VHeldInv, VCmdTyped, VCmdType, VMqttTyped,
     VMqttType, VLeaseTyped, VServeInv, VFlagsTyped, VNumbersTyped, VStateTyped,
     VDeadlineInv, VEnded, Voip!StartAccepted, Voip!CmdAt, Voip!StartSession, Voip!CmdGo,
     Voip!StartFails, Voip!callVars, Voip!histVars, Voip!arbiterVars, Voip!MayStart,
     Voip!CmdIdle, Voip!InSession, Voip!connVars, Voip!outVars
<1>9. VRoomInv'
  BY <1>1, VRoomsApart DEF VInv, VTyped, VRoomInv, VCmdTyped, VCmdType, VMqttTyped,
     VMqttType, Voip!StartAccepted, Voip!CmdAt, Voip!StartSession, Voip!CmdGo,
     Voip!StartFails, Voip!callVars, Voip!histVars, Voip!arbiterVars, Voip!MayStart,
     Voip!CmdIdle, Voip!InSession, Voip!connVars, Voip!outVars
<1>10. VDialledInv'
  BY <1>1, VRoomsApart DEF VInv, VTyped, VDialledInv, VDialled, VRoomInv, VCmdTyped,
     VCmdType, VMqttTyped, VMqttType, Voip!StartAccepted, Voip!CmdAt, Voip!StartSession,
     Voip!CmdGo, Voip!StartFails, Voip!callVars, Voip!histVars, Voip!arbiterVars,
     Voip!MayStart, Voip!CmdIdle, Voip!InSession, Voip!connVars, Voip!outVars
<1>11. VLapsedInv'
  BY <1>1, VRoomsApart DEF VInv, VTyped, VLapsedInv, VAnswers, VConnects, VClosing,
     VCmdTyped, VCmdType, VMqttTyped, VMqttType, VLeaseTyped, VFlagsTyped, VNumbersTyped,
     VStateTyped, VServeInv, VRoomInv, VHeldInv, VDialledInv, VDialled, VEnded,
     Voip!StartAccepted, Voip!CmdAt, Voip!StartSession, Voip!CmdGo, Voip!StartFails,
     Voip!callVars, Voip!histVars, Voip!arbiterVars, Voip!MayStart, Voip!CmdIdle,
     Voip!InSession, Voip!connVars, Voip!outVars
<1>12. VLeaseTyped' /\ VMqttTyped' /\ VTasksTyped'
  BY <1>1 DEF VInv, VTyped, VLeaseTyped, VMqttTyped, VTasksTyped
<1> QED
  BY <1>2, <1>3, <1>4, <1>5, <1>6, <1>7, <1>8, <1>9, <1>10, <1>11, <1>12 DEF VInv, VTyped

LEMMA VActionEndsStep ==
    ASSUME VInv, Voip!ActionEnds
    PROVE  VInv'
<1>1. UNCHANGED <<voipTicket, outgoing, outCall, outTimed, ignored, pending, activeRoom,
      voipAttempt, connecting, voipFresh, active, voipState, voipTimed, mediaStart,
      voipPush, voipLink, voipTasks, created, lapsed, hungUp, mqtt>>
  BY DEF Voip!ActionEnds, Voip!EndOwner, Voip!CmdGo, Voip!callVars, Voip!connVars,
     Voip!histVars, Voip!Release, Voip!outVars
<1>2. VLeaseTyped'
  BY <1>1, VRoomsApart DEF VInv, VTyped, VLeaseTyped, Voip!ActionEnds, Voip!EndOwner,
     Voip!callVars, Voip!connVars, Voip!histVars, Voip!Release, Voip!CmdIdle, Voip!outVars
<1>3. VCmdTyped'
  BY <1>1, VRoomsApart DEF VInv, VTyped, VCmdTyped, VCmdType, Voip!MaybeRoom, Voip!Rooms,
     VRoomInv, Voip!ActionEnds, Voip!CmdGo, Voip!callVars, Voip!connVars, Voip!histVars,
     Voip!CmdIdle, Voip!outVars
<1>4. VDeadlineInv'
  BY <1>1, VRoomsApart DEF VInv, VTyped, VDeadlineInv, VCmdTyped, VCmdType, VFlagsTyped,
     VNumbersTyped, VStateTyped, Voip!ActionEnds, Voip!CmdAt, Voip!EndOwner, Voip!CmdGo,
     Voip!callVars, Voip!connVars, Voip!histVars, Voip!Release, Voip!CmdIdle, Voip!outVars
<1>5. VServeInv'
  BY <1>1, VRoomsApart DEF VInv, VTyped, VServeInv, VCmdTyped, VCmdType, VLeaseTyped,
     VFlagsTyped, VNumbersTyped, VStateTyped, Voip!ActionEnds, Voip!CmdAt, Voip!EndOwner,
     Voip!CmdGo, Voip!callVars, Voip!connVars, Voip!histVars, Voip!Release, Voip!CmdIdle,
     Voip!outVars
<1>6. VHeldInv'
  BY <1>1, VRoomsApart DEF VInv, VTyped, VHeldInv, VCmdTyped, VCmdType, VMqttTyped,
     VMqttType, VLeaseTyped, VServeInv, VFlagsTyped, VNumbersTyped, VStateTyped,
     VDeadlineInv, VEnded, Voip!ActionEnds, Voip!CmdAt, Voip!EndOwner, Voip!CmdGo,
     Voip!callVars, Voip!connVars, Voip!histVars, Voip!Release, Voip!CmdIdle, Voip!outVars
<1>7. VRoomInv'
  BY <1>1, VRoomsApart DEF VInv, VTyped, VRoomInv, VCmdTyped, VCmdType, VMqttTyped,
     VMqttType, Voip!ActionEnds, Voip!CmdAt, Voip!EndOwner, Voip!CmdGo, Voip!callVars,
     Voip!connVars, Voip!histVars, Voip!Release, Voip!CmdIdle, Voip!outVars
<1>8. VDialledInv'
  BY <1>1, VRoomsApart DEF VInv, VTyped, VDialledInv, VDialled, VRoomInv, VCmdTyped,
     VCmdType, VMqttTyped, VMqttType, Voip!ActionEnds, Voip!CmdAt, Voip!EndOwner,
     Voip!CmdGo, Voip!callVars, Voip!connVars, Voip!histVars, Voip!Release, Voip!CmdIdle,
     Voip!outVars
<1>9. VLapsedInv'
  BY <1>1, VRoomsApart DEF VInv, VTyped, VLapsedInv, VAnswers, VConnects, VClosing,
     VCmdTyped, VCmdType, VMqttTyped, VMqttType, VLeaseTyped, VFlagsTyped, VNumbersTyped,
     VStateTyped, VServeInv, VRoomInv, VHeldInv, VDialledInv, VDialled, VEnded,
     Voip!ActionEnds, Voip!CmdAt, Voip!EndOwner, Voip!CmdGo, Voip!callVars, Voip!connVars,
     Voip!histVars, Voip!Release, Voip!CmdIdle, Voip!outVars
<1>10. VFlagsTyped' /\ VNumbersTyped' /\ VStateTyped' /\ VMqttTyped' /\ VTasksTyped'
  BY <1>1 DEF VInv, VTyped, VFlagsTyped, VNumbersTyped, VStateTyped, VMqttTyped,
         VTasksTyped
<1> QED
  BY <1>2, <1>3, <1>4, <1>5, <1>6, <1>7, <1>8, <1>9, <1>10 DEF VInv, VTyped

LEMMA VRejectStep ==
    ASSUME VInv, Voip!Reject
    PROVE  VInv'
<1>1. UNCHANGED <<voipOwner, voipOwnerId, voipCancelled, voipTicket, voipEndAsked,
      voipTransition, outgoing, outCall, outTimed, ignored, pending, activeRoom,
      voipAttempt, connecting, voipFresh, active, voipState, voipTimed, mediaStart,
      voipPush, voipServing, voipLink, voipBound, voipTasks, created, lapsed, hungUp,
      mqtt>>
  BY DEF Voip!Reject, Voip!callVars, Voip!histVars, Voip!arbiterVars, Voip!cmdFrame,
     Voip!outVars, Voip!connVars
<1>2. VCmdTyped'
  BY <1>1, VRoomsApart DEF VInv, VTyped, VCmdTyped, VCmdType, Voip!MaybeRoom, Voip!Rooms,
     VRoomInv, Voip!Reject, Voip!callVars, Voip!histVars, Voip!arbiterVars, Voip!cmdFrame,
     Voip!outVars, Voip!connVars
<1>3. VDeadlineInv'
  BY <1>1, VRoomsApart DEF VInv, VTyped, VDeadlineInv, VCmdTyped, VCmdType, VFlagsTyped,
     VNumbersTyped, VStateTyped, Voip!Reject, Voip!CmdAt, Voip!callVars, Voip!histVars,
     Voip!arbiterVars, Voip!cmdFrame, Voip!outVars, Voip!connVars
<1>4. VServeInv'
  BY <1>1, VRoomsApart DEF VInv, VTyped, VServeInv, VCmdTyped, VCmdType, VLeaseTyped,
     VFlagsTyped, VNumbersTyped, VStateTyped, Voip!Reject, Voip!CmdAt, Voip!callVars,
     Voip!histVars, Voip!arbiterVars, Voip!cmdFrame, Voip!outVars, Voip!connVars
<1>5. VHeldInv'
  BY <1>1, VRoomsApart DEF VInv, VTyped, VHeldInv, VCmdTyped, VCmdType, VMqttTyped,
     VMqttType, VLeaseTyped, VServeInv, VFlagsTyped, VNumbersTyped, VStateTyped,
     VDeadlineInv, VEnded, Voip!Reject, Voip!CmdAt, Voip!callVars, Voip!histVars,
     Voip!arbiterVars, Voip!cmdFrame, Voip!outVars, Voip!connVars
<1>6. VRoomInv'
  BY <1>1, VRoomsApart DEF VInv, VTyped, VRoomInv, VCmdTyped, VCmdType, VMqttTyped,
     VMqttType, Voip!Reject, Voip!CmdAt, Voip!callVars, Voip!histVars, Voip!arbiterVars,
     Voip!cmdFrame, Voip!outVars, Voip!connVars
<1>7. VDialledInv'
  BY <1>1, VRoomsApart DEF VInv, VTyped, VDialledInv, VDialled, VRoomInv, VCmdTyped,
     VCmdType, VMqttTyped, VMqttType, Voip!Reject, Voip!CmdAt, Voip!callVars,
     Voip!histVars, Voip!arbiterVars, Voip!cmdFrame, Voip!outVars, Voip!connVars
<1>8. VLapsedInv'
  BY <1>1, VRoomsApart DEF VInv, VTyped, VLapsedInv, VAnswers, VConnects, VClosing,
     VCmdTyped, VCmdType, VMqttTyped, VMqttType, VLeaseTyped, VFlagsTyped, VNumbersTyped,
     VStateTyped, VServeInv, VRoomInv, VHeldInv, VDialledInv, VDialled, VEnded,
     Voip!Reject, Voip!CmdAt, Voip!callVars, Voip!histVars, Voip!arbiterVars,
     Voip!cmdFrame, Voip!outVars, Voip!connVars
<1>9. VLeaseTyped' /\ VFlagsTyped' /\ VNumbersTyped' /\ VStateTyped' /\ VMqttTyped' /\
      VTasksTyped'
  BY <1>1 DEF VInv, VTyped, VLeaseTyped, VFlagsTyped, VNumbersTyped, VStateTyped,
         VMqttTyped, VTasksTyped
<1> QED
  BY <1>2, <1>3, <1>4, <1>5, <1>6, <1>7, <1>8, <1>9 DEF VInv, VTyped

LEMMA VRejectPendingStep ==
    ASSUME VInv, Voip!RejectPending
    PROVE  VInv'
<1>1. UNCHANGED <<voipOwner, voipOwnerId, voipCancelled, voipTicket, voipEndAsked,
      voipTransition, outgoing, outCall, outTimed, ignored, activeRoom, voipAttempt,
      connecting, voipFresh, active, voipState, voipTimed, mediaStart, voipPush,
      voipServing, voipLink, voipBound, voipTasks, created, lapsed, hungUp, mqtt>>
  BY DEF Voip!RejectPending, Voip!CmdGo, Voip!outVars, Voip!histVars, Voip!arbiterVars,
     Voip!cmdFrame, Voip!connVars
<1>2. VCmdTyped'
  BY <1>1, VRoomsApart DEF VInv, VTyped, VCmdTyped, VCmdType, Voip!MaybeRoom, Voip!Rooms,
     VRoomInv, Voip!RejectPending, Voip!CmdGo, Voip!outVars, Voip!histVars,
     Voip!arbiterVars, Voip!cmdFrame, Voip!CmdIdle, Voip!connVars
<1>3. VDeadlineInv'
  BY <1>1, VRoomsApart DEF VInv, VTyped, VDeadlineInv, VCmdTyped, VCmdType, VFlagsTyped,
     VNumbersTyped, VStateTyped, Voip!RejectPending, Voip!CmdAt, Voip!CmdGo, Voip!outVars,
     Voip!histVars, Voip!arbiterVars, Voip!cmdFrame, Voip!CmdIdle, Voip!connVars
<1>4. VServeInv'
  BY <1>1, VRoomsApart DEF VInv, VTyped, VServeInv, VCmdTyped, VCmdType, VLeaseTyped,
     VFlagsTyped, VNumbersTyped, VStateTyped, Voip!RejectPending, Voip!CmdAt, Voip!CmdGo,
     Voip!outVars, Voip!histVars, Voip!arbiterVars, Voip!cmdFrame, Voip!CmdIdle,
     Voip!connVars
<1>5. VHeldInv'
  BY <1>1, VRoomsApart DEF VInv, VTyped, VHeldInv, VCmdTyped, VCmdType, VMqttTyped,
     VMqttType, VLeaseTyped, VServeInv, VFlagsTyped, VNumbersTyped, VStateTyped,
     VDeadlineInv, VEnded, Voip!RejectPending, Voip!CmdAt, Voip!CmdGo, Voip!outVars,
     Voip!histVars, Voip!arbiterVars, Voip!cmdFrame, Voip!CmdIdle, Voip!connVars
<1>6. VRoomInv'
  BY <1>1, VRoomsApart DEF VInv, VTyped, VRoomInv, VCmdTyped, VCmdType, VMqttTyped,
     VMqttType, Voip!RejectPending, Voip!CmdAt, Voip!CmdGo, Voip!outVars, Voip!histVars,
     Voip!arbiterVars, Voip!cmdFrame, Voip!CmdIdle, Voip!connVars
<1>7. VDialledInv'
  BY <1>1, VRoomsApart DEF VInv, VTyped, VDialledInv, VDialled, VRoomInv, VCmdTyped,
     VCmdType, VMqttTyped, VMqttType, Voip!RejectPending, Voip!CmdAt, Voip!CmdGo,
     Voip!outVars, Voip!histVars, Voip!arbiterVars, Voip!cmdFrame, Voip!CmdIdle,
     Voip!connVars
<1>8. VLapsedInv'
  BY <1>1, VRoomsApart DEF VInv, VTyped, VLapsedInv, VAnswers, VConnects, VClosing,
     VCmdTyped, VCmdType, VMqttTyped, VMqttType, VLeaseTyped, VFlagsTyped, VNumbersTyped,
     VStateTyped, VServeInv, VRoomInv, VHeldInv, VDialledInv, VDialled, VEnded,
     Voip!RejectPending, Voip!CmdAt, Voip!CmdGo, Voip!outVars, Voip!histVars,
     Voip!arbiterVars, Voip!cmdFrame, Voip!CmdIdle, Voip!connVars
<1>9. VLeaseTyped' /\ VFlagsTyped' /\ VNumbersTyped' /\ VStateTyped' /\ VMqttTyped' /\
      VTasksTyped'
  BY <1>1 DEF VInv, VTyped, VLeaseTyped, VFlagsTyped, VNumbersTyped, VStateTyped,
         VMqttTyped, VTasksTyped
<1> QED
  BY <1>2, <1>3, <1>4, <1>5, <1>6, <1>7, <1>8, <1>9 DEF VInv, VTyped

LEMMA VExpirePendingStep ==
    ASSUME VInv, Voip!ExpirePending
    PROVE  VInv'
<1>1. UNCHANGED <<voipOwner, voipOwnerId, voipCancelled, voipTicket, voipEndAsked,
      voipTransition, outgoing, outCall, outTimed, ignored, activeRoom, voipAttempt,
      connecting, voipFresh, active, voipState, voipTimed, mediaStart, voipPush,
      voipServing, voipLink, voipBound, voipTasks, created, lapsed, hungUp, mqtt>>
  BY DEF Voip!ExpirePending, Voip!outVars, Voip!histVars, Voip!arbiterVars, Voip!cmdFrame,
     Voip!connVars
<1>2. VCmdTyped'
  BY <1>1, VRoomsApart DEF VInv, VTyped, VCmdTyped, VCmdType, Voip!MaybeRoom, Voip!Rooms,
     VRoomInv, Voip!ExpirePending, Voip!outVars, Voip!histVars, Voip!arbiterVars,
     Voip!cmdFrame, Voip!connVars
<1>3. VDeadlineInv'
  BY <1>1, VRoomsApart DEF VInv, VTyped, VDeadlineInv, VCmdTyped, VCmdType, VFlagsTyped,
     VNumbersTyped, VStateTyped, Voip!ExpirePending, Voip!CmdAt, Voip!outVars,
     Voip!histVars, Voip!arbiterVars, Voip!cmdFrame, Voip!connVars
<1>4. VServeInv'
  BY <1>1, VRoomsApart DEF VInv, VTyped, VServeInv, VCmdTyped, VCmdType, VLeaseTyped,
     VFlagsTyped, VNumbersTyped, VStateTyped, Voip!ExpirePending, Voip!CmdAt,
     Voip!outVars, Voip!histVars, Voip!arbiterVars, Voip!cmdFrame, Voip!connVars
<1>5. VHeldInv'
  BY <1>1, VRoomsApart DEF VInv, VTyped, VHeldInv, VCmdTyped, VCmdType, VMqttTyped,
     VMqttType, VLeaseTyped, VServeInv, VFlagsTyped, VNumbersTyped, VStateTyped,
     VDeadlineInv, VEnded, Voip!ExpirePending, Voip!CmdAt, Voip!outVars, Voip!histVars,
     Voip!arbiterVars, Voip!cmdFrame, Voip!connVars
<1>6. VRoomInv'
  BY <1>1, VRoomsApart DEF VInv, VTyped, VRoomInv, VCmdTyped, VCmdType, VMqttTyped,
     VMqttType, Voip!ExpirePending, Voip!CmdAt, Voip!outVars, Voip!histVars,
     Voip!arbiterVars, Voip!cmdFrame, Voip!connVars
<1>7. VDialledInv'
  BY <1>1, VRoomsApart DEF VInv, VTyped, VDialledInv, VDialled, VRoomInv, VCmdTyped,
     VCmdType, VMqttTyped, VMqttType, Voip!ExpirePending, Voip!CmdAt, Voip!outVars,
     Voip!histVars, Voip!arbiterVars, Voip!cmdFrame, Voip!connVars
<1>8. VLapsedInv'
  BY <1>1, VRoomsApart DEF VInv, VTyped, VLapsedInv, VAnswers, VConnects, VClosing,
     VCmdTyped, VCmdType, VMqttTyped, VMqttType, VLeaseTyped, VFlagsTyped, VNumbersTyped,
     VStateTyped, VServeInv, VRoomInv, VHeldInv, VDialledInv, VDialled, VEnded,
     Voip!ExpirePending, Voip!CmdAt, Voip!outVars, Voip!histVars, Voip!arbiterVars,
     Voip!cmdFrame, Voip!connVars
<1>9. VLeaseTyped' /\ VFlagsTyped' /\ VNumbersTyped' /\ VStateTyped' /\ VMqttTyped' /\
      VTasksTyped'
  BY <1>1 DEF VInv, VTyped, VLeaseTyped, VFlagsTyped, VNumbersTyped, VStateTyped,
         VMqttTyped, VTasksTyped
<1> QED
  BY <1>2, <1>3, <1>4, <1>5, <1>6, <1>7, <1>8, <1>9 DEF VInv, VTyped

LEMMA VDropTicketStep ==
    ASSUME VInv, Voip!DropTicket
    PROVE  VInv'
<1>1. UNCHANGED <<voipOwner, voipOwnerId, voipEndAsked, voipTransition, outgoing, outCall,
      outTimed, ignored, pending, activeRoom, voipAttempt, connecting, voipFresh, active,
      voipState, voipTimed, mediaStart, voipPush, voipServing, voipLink, voipBound,
      voipTasks, created, lapsed, hungUp, mqtt>>
  BY DEF Voip!DropTicket, Voip!ClearPendingId, Voip!CmdGo, Voip!callVars, Voip!histVars,
     Voip!cmdFrame, Voip!outVars, Voip!connVars
<1>2. VLeaseTyped'
  BY <1>1, VRoomsApart DEF VInv, VTyped, VLeaseTyped, Voip!DropTicket,
     Voip!ClearPendingId, Voip!callVars, Voip!histVars, Voip!cmdFrame, Voip!CmdIdle,
     Voip!outVars, Voip!connVars
<1>3. VCmdTyped'
  BY <1>1, VRoomsApart DEF VInv, VTyped, VCmdTyped, VCmdType, Voip!MaybeRoom, Voip!Rooms,
     VRoomInv, Voip!DropTicket, Voip!CmdGo, Voip!callVars, Voip!histVars, Voip!cmdFrame,
     Voip!CmdIdle, Voip!outVars, Voip!connVars
<1>4. VDeadlineInv'
  BY <1>1, VRoomsApart DEF VInv, VTyped, VDeadlineInv, VCmdTyped, VCmdType, VFlagsTyped,
     VNumbersTyped, VStateTyped, Voip!DropTicket, Voip!CmdAt, Voip!ClearPendingId,
     Voip!CmdGo, Voip!callVars, Voip!histVars, Voip!cmdFrame, Voip!CmdIdle, Voip!outVars,
     Voip!connVars
<1>5. VServeInv'
  BY <1>1, VRoomsApart DEF VInv, VTyped, VServeInv, VCmdTyped, VCmdType, VLeaseTyped,
     VFlagsTyped, VNumbersTyped, VStateTyped, Voip!DropTicket, Voip!CmdAt,
     Voip!ClearPendingId, Voip!CmdGo, Voip!callVars, Voip!histVars, Voip!cmdFrame,
     Voip!CmdIdle, Voip!outVars, Voip!connVars
<1>6. VHeldInv'
  BY <1>1, VRoomsApart DEF VInv, VTyped, VHeldInv, VCmdTyped, VCmdType, VMqttTyped,
     VMqttType, VLeaseTyped, VServeInv, VFlagsTyped, VNumbersTyped, VStateTyped,
     VDeadlineInv, VEnded, Voip!DropTicket, Voip!CmdAt, Voip!ClearPendingId, Voip!CmdGo,
     Voip!callVars, Voip!histVars, Voip!cmdFrame, Voip!CmdIdle, Voip!outVars,
     Voip!connVars
<1>7. VRoomInv'
  BY <1>1, VRoomsApart DEF VInv, VTyped, VRoomInv, VCmdTyped, VCmdType, VMqttTyped,
     VMqttType, Voip!DropTicket, Voip!CmdAt, Voip!ClearPendingId, Voip!CmdGo,
     Voip!callVars, Voip!histVars, Voip!cmdFrame, Voip!CmdIdle, Voip!outVars,
     Voip!connVars
<1>8. VDialledInv'
  BY <1>1, VRoomsApart DEF VInv, VTyped, VDialledInv, VDialled, VRoomInv, VCmdTyped,
     VCmdType, VMqttTyped, VMqttType, Voip!DropTicket, Voip!CmdAt, Voip!ClearPendingId,
     Voip!CmdGo, Voip!callVars, Voip!histVars, Voip!cmdFrame, Voip!CmdIdle, Voip!outVars,
     Voip!connVars
<1>9. VLapsedInv'
  BY <1>1, VRoomsApart DEF VInv, VTyped, VLapsedInv, VAnswers, VConnects, VClosing,
     VCmdTyped, VCmdType, VMqttTyped, VMqttType, VLeaseTyped, VFlagsTyped, VNumbersTyped,
     VStateTyped, VServeInv, VRoomInv, VHeldInv, VDialledInv, VDialled, VEnded,
     Voip!DropTicket, Voip!CmdAt, Voip!ClearPendingId, Voip!CmdGo, Voip!callVars,
     Voip!histVars, Voip!cmdFrame, Voip!CmdIdle, Voip!outVars, Voip!connVars
<1>10. VFlagsTyped' /\ VNumbersTyped' /\ VStateTyped' /\ VMqttTyped' /\ VTasksTyped'
  BY <1>1 DEF VInv, VTyped, VFlagsTyped, VNumbersTyped, VStateTyped, VMqttTyped,
         VTasksTyped
<1> QED
  BY <1>2, <1>3, <1>4, <1>5, <1>6, <1>7, <1>8, <1>9, <1>10 DEF VInv, VTyped

LEMMA VExpireOutgoingStep ==
    ASSUME VInv, Voip!ExpireOutgoing
    PROVE  VInv'
<1>1. UNCHANGED <<voipOwner, voipOwnerId, voipCancelled, voipTicket, voipEndAsked,
      voipTransition, pending, activeRoom, voipAttempt, connecting, voipFresh, active,
      voipState, voipTimed, mediaStart, voipPush, voipServing, voipLink, voipBound,
      voipTasks, created, hungUp, mqtt>>
  BY DEF Voip!ExpireOutgoing, Voip!NotOutgoing, Voip!CmdGo, Voip!arbiterVars,
     Voip!cmdFrame, Voip!connVars
<1>2. VFlagsTyped'
  BY <1>1, VRoomsApart DEF VInv, VTyped, VFlagsTyped, Voip!ExpireOutgoing,
     Voip!NotOutgoing, Voip!arbiterVars, Voip!cmdFrame, Voip!CmdIdle, Voip!connVars
<1>3. VCmdTyped'
  BY <1>1, VRoomsApart DEF VInv, VTyped, VCmdTyped, VCmdType, Voip!MaybeRoom, Voip!Rooms,
     VRoomInv, Voip!ExpireOutgoing, Voip!CmdGo, Voip!arbiterVars, Voip!cmdFrame,
     Voip!CmdIdle, Voip!connVars
<1>4. VDeadlineInv'
  BY <1>1, VRoomsApart DEF VInv, VTyped, VDeadlineInv, VCmdTyped, VCmdType, VFlagsTyped,
     VNumbersTyped, VStateTyped, Voip!ExpireOutgoing, Voip!CmdAt, Voip!NotOutgoing,
     Voip!CmdGo, Voip!arbiterVars, Voip!cmdFrame, Voip!CmdIdle, Voip!connVars
<1>5. VServeInv'
  BY <1>1, VRoomsApart DEF VInv, VTyped, VServeInv, VCmdTyped, VCmdType, VLeaseTyped,
     VFlagsTyped, VNumbersTyped, VStateTyped, Voip!ExpireOutgoing, Voip!CmdAt,
     Voip!NotOutgoing, Voip!CmdGo, Voip!arbiterVars, Voip!cmdFrame, Voip!CmdIdle,
     Voip!connVars
<1>6. VHeldInv'
  BY <1>1, VRoomsApart DEF VInv, VTyped, VHeldInv, VCmdTyped, VCmdType, VMqttTyped,
     VMqttType, VLeaseTyped, VServeInv, VFlagsTyped, VNumbersTyped, VStateTyped,
     VDeadlineInv, VEnded, Voip!ExpireOutgoing, Voip!CmdAt, Voip!NotOutgoing, Voip!CmdGo,
     Voip!arbiterVars, Voip!cmdFrame, Voip!CmdIdle, Voip!connVars
<1>7. VRoomInv'
  BY <1>1, VRoomsApart DEF VInv, VTyped, VRoomInv, VCmdTyped, VCmdType, VMqttTyped,
     VMqttType, Voip!ExpireOutgoing, Voip!CmdAt, Voip!NotOutgoing, Voip!CmdGo,
     Voip!arbiterVars, Voip!cmdFrame, Voip!CmdIdle, Voip!connVars
<1>8. VDialledInv'
  BY <1>1, VRoomsApart DEF VInv, VTyped, VDialledInv, VDialled, VRoomInv, VCmdTyped,
     VCmdType, VMqttTyped, VMqttType, Voip!ExpireOutgoing, Voip!CmdAt, Voip!NotOutgoing,
     Voip!CmdGo, Voip!arbiterVars, Voip!cmdFrame, Voip!CmdIdle, Voip!connVars
<1>9. VLapsedInv'
  BY <1>1, VRoomsApart DEF VInv, VTyped, VLapsedInv, VAnswers, VConnects, VClosing,
     VCmdTyped, VCmdType, VMqttTyped, VMqttType, VLeaseTyped, VFlagsTyped, VNumbersTyped,
     VStateTyped, VServeInv, VRoomInv, VHeldInv, VDialledInv, VDialled, VEnded,
     Voip!ExpireOutgoing, Voip!CmdAt, Voip!NotOutgoing, Voip!CmdGo, Voip!arbiterVars,
     Voip!cmdFrame, Voip!CmdIdle, Voip!connVars
<1>10. VLeaseTyped' /\ VNumbersTyped' /\ VStateTyped' /\ VMqttTyped' /\ VTasksTyped'
  BY <1>1 DEF VInv, VTyped, VLeaseTyped, VNumbersTyped, VStateTyped, VMqttTyped,
         VTasksTyped
<1> QED
  BY <1>2, <1>3, <1>4, <1>5, <1>6, <1>7, <1>8, <1>9, <1>10 DEF VInv, VTyped

LEMMA VOutgoingLapsedStep ==
    ASSUME VInv, Voip!OutgoingLapsed
    PROVE  VInv'
<1>1. UNCHANGED <<voipOwner, voipOwnerId, voipCancelled, voipTicket, voipTransition,
      outgoing, outCall, outTimed, ignored, pending, activeRoom, voipAttempt, connecting,
      voipFresh, active, voipState, voipTimed, mediaStart, voipPush, voipServing,
      voipLink, voipBound, voipTasks, created, lapsed, hungUp, mqtt>>
  BY DEF Voip!OutgoingLapsed, Voip!EndSession, Voip!CmdGo, Voip!callVars, Voip!histVars,
     Voip!leaseFrame, Voip!cmdFrame, Voip!outVars, Voip!connVars
<1>2. VLeaseTyped'
  BY <1>1, VRoomsApart DEF VInv, VTyped, VLeaseTyped, Voip!OutgoingLapsed,
     Voip!EndSession, Voip!callVars, Voip!histVars, Voip!leaseFrame, Voip!cmdFrame,
     Voip!CmdIdle, Voip!outVars, Voip!connVars
<1>3. VCmdTyped'
  BY <1>1, VRoomsApart DEF VInv, VTyped, VCmdTyped, VCmdType, Voip!MaybeRoom, Voip!Rooms,
     VRoomInv, Voip!OutgoingLapsed, Voip!CmdGo, Voip!callVars, Voip!histVars,
     Voip!leaseFrame, Voip!cmdFrame, Voip!CmdIdle, Voip!outVars, Voip!connVars
<1>4. VDeadlineInv'
  BY <1>1, VRoomsApart DEF VInv, VTyped, VDeadlineInv, VCmdTyped, VCmdType, VFlagsTyped,
     VNumbersTyped, VStateTyped, Voip!OutgoingLapsed, Voip!CmdAt, Voip!EndSession,
     Voip!CmdGo, Voip!callVars, Voip!histVars, Voip!leaseFrame, Voip!cmdFrame,
     Voip!CmdIdle, Voip!outVars, Voip!connVars
<1>5. VServeInv'
  BY <1>1, VRoomsApart DEF VInv, VTyped, VServeInv, VCmdTyped, VCmdType, VLeaseTyped,
     VFlagsTyped, VNumbersTyped, VStateTyped, Voip!OutgoingLapsed, Voip!CmdAt,
     Voip!EndSession, Voip!CmdGo, Voip!callVars, Voip!histVars, Voip!leaseFrame,
     Voip!cmdFrame, Voip!CmdIdle, Voip!outVars, Voip!connVars
<1>6. VHeldInv'
  BY <1>1, VRoomsApart DEF VInv, VTyped, VHeldInv, VCmdTyped, VCmdType, VMqttTyped,
     VMqttType, VLeaseTyped, VServeInv, VFlagsTyped, VNumbersTyped, VStateTyped,
     VDeadlineInv, VEnded, Voip!OutgoingLapsed, Voip!CmdAt, Voip!EndSession, Voip!CmdGo,
     Voip!callVars, Voip!histVars, Voip!leaseFrame, Voip!cmdFrame, Voip!CmdIdle,
     Voip!outVars, Voip!connVars
<1>7. VRoomInv'
  BY <1>1, VRoomsApart DEF VInv, VTyped, VRoomInv, VCmdTyped, VCmdType, VMqttTyped,
     VMqttType, Voip!OutgoingLapsed, Voip!CmdAt, Voip!EndSession, Voip!CmdGo,
     Voip!callVars, Voip!histVars, Voip!leaseFrame, Voip!cmdFrame, Voip!CmdIdle,
     Voip!outVars, Voip!connVars
<1>8. VDialledInv'
  BY <1>1, VRoomsApart DEF VInv, VTyped, VDialledInv, VDialled, VRoomInv, VCmdTyped,
     VCmdType, VMqttTyped, VMqttType, Voip!OutgoingLapsed, Voip!CmdAt, Voip!EndSession,
     Voip!CmdGo, Voip!callVars, Voip!histVars, Voip!leaseFrame, Voip!cmdFrame,
     Voip!CmdIdle, Voip!outVars, Voip!connVars
<1>9. VLapsedInv'
  BY <1>1, VRoomsApart DEF VInv, VTyped, VLapsedInv, VAnswers, VConnects, VClosing,
     VCmdTyped, VCmdType, VMqttTyped, VMqttType, VLeaseTyped, VFlagsTyped, VNumbersTyped,
     VStateTyped, VServeInv, VRoomInv, VHeldInv, VDialledInv, VDialled, VEnded,
     Voip!OutgoingLapsed, Voip!CmdAt, Voip!EndSession, Voip!CmdGo, Voip!callVars,
     Voip!histVars, Voip!leaseFrame, Voip!cmdFrame, Voip!CmdIdle, Voip!outVars,
     Voip!connVars
<1>10. VFlagsTyped' /\ VNumbersTyped' /\ VStateTyped' /\ VMqttTyped' /\ VTasksTyped'
  BY <1>1 DEF VInv, VTyped, VFlagsTyped, VNumbersTyped, VStateTyped, VMqttTyped,
         VTasksTyped
<1> QED
  BY <1>2, <1>3, <1>4, <1>5, <1>6, <1>7, <1>8, <1>9, <1>10 DEF VInv, VTyped

LEMMA VExpireConnectionStep ==
    ASSUME VInv, Voip!ExpireConnection
    PROVE  VInv'
<1>1. UNCHANGED <<voipOwner, voipOwnerId, voipCancelled, voipTicket, voipEndAsked,
      voipTransition, outgoing, outCall, outTimed, ignored, pending, activeRoom,
      voipAttempt, connecting, active, mediaStart, voipPush, voipServing, voipLink,
      voipBound, voipTasks, created, lapsed, hungUp, mqtt>>
  BY DEF Voip!ExpireConnection, Voip!CmdGo, Voip!callVars, Voip!sdkVars, Voip!histVars,
     Voip!arbiterVars, Voip!outVars
<1>2. VFlagsTyped'
  BY <1>1, VRoomsApart DEF VInv, VTyped, VFlagsTyped, Voip!ExpireConnection,
     Voip!callVars, Voip!sdkVars, Voip!histVars, Voip!arbiterVars, Voip!CmdIdle,
     Voip!outVars
<1>3. VStateTyped'
  BY <1>1, VRoomsApart DEF VInv, VTyped, VStateTyped, Voip!ExpireConnection,
     Voip!callVars, Voip!sdkVars, Voip!histVars, Voip!arbiterVars, Voip!CmdIdle,
     Voip!outVars
<1>4. VCmdTyped'
  BY <1>1, VRoomsApart DEF VInv, VTyped, VCmdTyped, VCmdType, Voip!MaybeRoom, Voip!Rooms,
     VRoomInv, Voip!ExpireConnection, Voip!CmdGo, Voip!callVars, Voip!sdkVars,
     Voip!histVars, Voip!arbiterVars, Voip!CmdIdle, Voip!outVars
<1>5. VDeadlineInv'
  BY <1>1, VRoomsApart DEF VInv, VTyped, VDeadlineInv, VCmdTyped, VCmdType, VFlagsTyped,
     VNumbersTyped, VStateTyped, Voip!ExpireConnection, Voip!CmdAt, Voip!CmdGo,
     Voip!callVars, Voip!sdkVars, Voip!histVars, Voip!arbiterVars, Voip!CmdIdle,
     Voip!outVars
<1>6. VServeInv'
  BY <1>1, VRoomsApart DEF VInv, VTyped, VServeInv, VCmdTyped, VCmdType, VLeaseTyped,
     VFlagsTyped, VNumbersTyped, VStateTyped, Voip!ExpireConnection, Voip!CmdAt,
     Voip!CmdGo, Voip!callVars, Voip!sdkVars, Voip!histVars, Voip!arbiterVars,
     Voip!CmdIdle, Voip!outVars
<1>7. VHeldInv'
  BY <1>1, VRoomsApart DEF VInv, VTyped, VHeldInv, VCmdTyped, VCmdType, VMqttTyped,
     VMqttType, VLeaseTyped, VServeInv, VFlagsTyped, VNumbersTyped, VStateTyped,
     VDeadlineInv, VEnded, Voip!ExpireConnection, Voip!CmdAt, Voip!CmdGo, Voip!callVars,
     Voip!sdkVars, Voip!histVars, Voip!arbiterVars, Voip!CmdIdle, Voip!outVars
<1>8. VRoomInv'
  BY <1>1, VRoomsApart DEF VInv, VTyped, VRoomInv, VCmdTyped, VCmdType, VMqttTyped,
     VMqttType, Voip!ExpireConnection, Voip!CmdAt, Voip!CmdGo, Voip!callVars,
     Voip!sdkVars, Voip!histVars, Voip!arbiterVars, Voip!CmdIdle, Voip!outVars
<1>9. VDialledInv'
  BY <1>1, VRoomsApart DEF VInv, VTyped, VDialledInv, VDialled, VRoomInv, VCmdTyped,
     VCmdType, VMqttTyped, VMqttType, Voip!ExpireConnection, Voip!CmdAt, Voip!CmdGo,
     Voip!callVars, Voip!sdkVars, Voip!histVars, Voip!arbiterVars, Voip!CmdIdle,
     Voip!outVars
<1>10. VLapsedInv'
  BY <1>1, VRoomsApart DEF VInv, VTyped, VLapsedInv, VAnswers, VConnects, VClosing,
     VCmdTyped, VCmdType, VMqttTyped, VMqttType, VLeaseTyped, VFlagsTyped, VNumbersTyped,
     VStateTyped, VServeInv, VRoomInv, VHeldInv, VDialledInv, VDialled, VEnded,
     Voip!ExpireConnection, Voip!CmdAt, Voip!CmdGo, Voip!callVars, Voip!sdkVars,
     Voip!histVars, Voip!arbiterVars, Voip!CmdIdle, Voip!outVars
<1>11. VLeaseTyped' /\ VNumbersTyped' /\ VMqttTyped' /\ VTasksTyped'
  BY <1>1 DEF VInv, VTyped, VLeaseTyped, VNumbersTyped, VMqttTyped, VTasksTyped
<1> QED
  BY <1>2, <1>3, <1>4, <1>5, <1>6, <1>7, <1>8, <1>9, <1>10, <1>11 DEF VInv, VTyped

LEMMA VConnectionTimedOutStep ==
    ASSUME VInv, Voip!ConnectionTimedOut
    PROVE  VInv'
<1>1. UNCHANGED <<voipOwner, voipOwnerId, voipCancelled, voipTicket, voipTransition,
      ignored, voipAttempt, voipServing, voipBound, voipTasks, created, lapsed, hungUp,
      mqtt>>
  BY DEF Voip!ConnectionTimedOut, Voip!StopSession, Voip!CmdGo, Voip!histVars,
     Voip!leaseFrame, Voip!NotOutgoing, Voip!Disconnect, Voip!EndSession
<1>2. VLeaseTyped'
  BY <1>1, VRoomsApart DEF VInv, VTyped, VLeaseTyped, Voip!ConnectionTimedOut,
     Voip!StopSession, Voip!histVars, Voip!leaseFrame, Voip!EndSession, Voip!CmdIdle,
     Voip!Conns
<1>3. VFlagsTyped'
  BY <1>1, VRoomsApart DEF VInv, VTyped, VFlagsTyped, Voip!ConnectionTimedOut,
     Voip!StopSession, Voip!histVars, Voip!leaseFrame, Voip!NotOutgoing, Voip!CmdIdle,
     Voip!Conns
<1>4. VNumbersTyped'
  BY <1>1, VRoomsApart DEF VInv, VTyped, VNumbersTyped, Voip!Conns,
     Voip!ConnectionTimedOut, Voip!StopSession, Voip!histVars, Voip!leaseFrame,
     Voip!CmdIdle
<1>5. VStateTyped'
  BY <1>1, VRoomsApart DEF VInv, VTyped, VStateTyped, Voip!ConnectionTimedOut,
     Voip!StopSession, Voip!histVars, Voip!leaseFrame, Voip!CmdIdle, Voip!Conns
<1>6. VCmdTyped'
  BY <1>1, VRoomsApart DEF VInv, VTyped, VCmdTyped, VCmdType, Voip!MaybeRoom, Voip!Rooms,
     VRoomInv, Voip!ConnectionTimedOut, Voip!CmdGo, Voip!histVars, Voip!leaseFrame,
     Voip!CmdIdle, Voip!Conns
<1>7. VDeadlineInv'
  BY <1>1, VRoomsApart DEF VInv, VTyped, VDeadlineInv, VCmdTyped, VCmdType, VFlagsTyped,
     VNumbersTyped, VStateTyped, Voip!ConnectionTimedOut, Voip!CmdAt, Voip!StopSession,
     Voip!CmdGo, Voip!histVars, Voip!leaseFrame, Voip!NotOutgoing, Voip!Disconnect,
     Voip!VoipIsActive, Voip!EndSession, Voip!CmdIdle, Voip!Conns, Voip!InSession
<1>8. VServeInv'
  BY <1>1, VRoomsApart DEF VInv, VTyped, VServeInv, VCmdTyped, VCmdType, VLeaseTyped,
     VFlagsTyped, VNumbersTyped, VStateTyped, Voip!ConnectionTimedOut, Voip!CmdAt,
     Voip!StopSession, Voip!CmdGo, Voip!histVars, Voip!leaseFrame, Voip!NotOutgoing,
     Voip!Disconnect, Voip!VoipIsActive, Voip!EndSession, Voip!CmdIdle, Voip!Conns,
     Voip!InSession
<1>9. VHeldInv'
  BY <1>1, VRoomsApart DEF VInv, VTyped, VHeldInv, VCmdTyped, VCmdType, VMqttTyped,
     VMqttType, VLeaseTyped, VServeInv, VFlagsTyped, VNumbersTyped, VStateTyped,
     VDeadlineInv, VEnded, Voip!ConnectionTimedOut, Voip!CmdAt, Voip!StopSession,
     Voip!CmdGo, Voip!histVars, Voip!leaseFrame, Voip!NotOutgoing, Voip!Disconnect,
     Voip!VoipIsActive, Voip!EndSession, Voip!CmdIdle, Voip!Conns, Voip!InSession
<1>10. VRoomInv'
  BY <1>1, VRoomsApart DEF VInv, VTyped, VRoomInv, VCmdTyped, VCmdType, VMqttTyped,
     VMqttType, Voip!ConnectionTimedOut, Voip!CmdAt, Voip!StopSession, Voip!CmdGo,
     Voip!histVars, Voip!leaseFrame, Voip!NotOutgoing, Voip!Disconnect, Voip!VoipIsActive,
     Voip!EndSession, Voip!CmdIdle, Voip!Conns, Voip!InSession
<1>11. VDialledInv'
  BY <1>1, VRoomsApart DEF VInv, VTyped, VDialledInv, VDialled, VRoomInv, VCmdTyped,
     VCmdType, VMqttTyped, VMqttType, Voip!ConnectionTimedOut, Voip!CmdAt,
     Voip!StopSession, Voip!CmdGo, Voip!histVars, Voip!leaseFrame, Voip!NotOutgoing,
     Voip!Disconnect, Voip!VoipIsActive, Voip!EndSession, Voip!CmdIdle, Voip!Conns,
     Voip!InSession
<1>12. VLapsedInv'
  BY <1>1, VRoomsApart DEF VInv, VTyped, VLapsedInv, VAnswers, VConnects, VClosing,
     VCmdTyped, VCmdType, VMqttTyped, VMqttType, VLeaseTyped, VFlagsTyped, VNumbersTyped,
     VStateTyped, VServeInv, VRoomInv, VHeldInv, VDialledInv, VDialled, VEnded,
     Voip!ConnectionTimedOut, Voip!CmdAt, Voip!StopSession, Voip!CmdGo, Voip!histVars,
     Voip!leaseFrame, Voip!NotOutgoing, Voip!Disconnect, Voip!VoipIsActive,
     Voip!EndSession, Voip!CmdIdle, Voip!Conns, Voip!InSession
<1>13. VMqttTyped' /\ VTasksTyped'
  BY <1>1 DEF VInv, VTyped, VMqttTyped, VTasksTyped
<1> QED
  BY <1>2, <1>3, <1>4, <1>5, <1>6, <1>7, <1>8, <1>9, <1>10, <1>11, <1>12, <1>13 DEF VInv,
     VTyped

LEMMA VVoipIncomingStep ==
    ASSUME VInv, NEW r \in Incoming \cup created, Voip!VoipIncoming(r)
    PROVE  VInv'
<1>1. UNCHANGED <<voipOwner, voipOwnerId, voipCancelled, voipEndAsked, voipTransition,
      outgoing, outCall, outTimed, ignored, pending, activeRoom, voipAttempt, connecting,
      voipFresh, active, voipState, voipTimed, mediaStart, voipPush, voipServing,
      voipLink, voipBound, voipTasks, created, lapsed, hungUp, voipCmd>>
  BY DEF Voip!VoipIncoming, Voip!callVars, Voip!mqttFrame, Voip!outVars, Voip!connVars,
     Voip!histVars
<1>2. VMqttTyped'
  <2>1. r \in Voip!MaybeRoom
    BY DEF VInv, VRoomInv, Voip!MaybeRoom, Voip!Rooms
  <2>2. CASE mqtt' = [at |-> "current", room |-> r, granted |-> FALSE, mine |-> FALSE]
    BY <2>1, <2>2 DEF VMqttTyped, VMqttType
  <2>3. CASE mqtt' = [at |-> "granted", room |-> r, granted |-> TRUE, mine |-> FALSE]
    BY <2>1, <2>3 DEF VMqttTyped, VMqttType
  <2> QED
    BY <2>2, <2>3 DEF Voip!VoipIncoming
<1>3. VHeldInv'
  BY <1>1, VRoomsApart DEF VInv, VTyped, VHeldInv, VCmdTyped, VCmdType, VMqttTyped,
     VMqttType, VLeaseTyped, VServeInv, VFlagsTyped, VNumbersTyped, VStateTyped,
     VDeadlineInv, VEnded, Voip!VoipIncoming, Voip!MqttAt, Voip!callVars, Voip!mqttFrame,
     Voip!outVars, Voip!connVars, Voip!histVars
<1>4. VRoomInv'
  BY <1>1, VRoomsApart DEF VInv, VTyped, VRoomInv, VCmdTyped, VCmdType, VMqttTyped,
     VMqttType, Voip!VoipIncoming, Voip!MqttAt, Voip!callVars, Voip!mqttFrame,
     Voip!outVars, Voip!connVars, Voip!histVars
<1>5. VDialledInv'
  BY <1>1, VRoomsApart DEF VInv, VTyped, VDialledInv, VDialled, VRoomInv, VCmdTyped,
     VCmdType, VMqttTyped, VMqttType, Voip!VoipIncoming, Voip!MqttAt, Voip!callVars,
     Voip!mqttFrame, Voip!outVars, Voip!connVars, Voip!histVars
<1>6. VLapsedInv'
  BY <1>1, VRoomsApart DEF VInv, VTyped, VLapsedInv, VAnswers, VConnects, VClosing,
     VCmdTyped, VCmdType, VMqttTyped, VMqttType, VLeaseTyped, VFlagsTyped, VNumbersTyped,
     VStateTyped, VServeInv, VRoomInv, VHeldInv, VDialledInv, VDialled, VEnded,
     Voip!VoipIncoming, Voip!MqttAt, Voip!callVars, Voip!mqttFrame, Voip!outVars,
     Voip!connVars, Voip!histVars
<1>7. VLeaseTyped' /\ VFlagsTyped' /\ VNumbersTyped' /\ VStateTyped' /\ VCmdTyped' /\
      VTasksTyped' /\ VDeadlineInv' /\ VServeInv'
  BY <1>1 DEF VInv, VTyped, VLeaseTyped, VFlagsTyped, VNumbersTyped, VStateTyped,
         VCmdTyped, VTasksTyped, VDeadlineInv, VServeInv
<1> QED
  BY <1>2, <1>3, <1>4, <1>5, <1>6, <1>7 DEF VInv, VTyped

LEMMA VGrantedStep ==
    ASSUME VInv, Voip!Granted
    PROVE  VInv'
<1>1. UNCHANGED <<voipOwner, voipOwnerId, voipCancelled, voipTicket, voipEndAsked,
      voipTransition, outgoing, outCall, outTimed, ignored, activeRoom, voipAttempt,
      connecting, voipFresh, active, voipState, voipTimed, mediaStart, voipPush,
      voipServing, voipLink, voipBound, voipTasks, created, lapsed, hungUp, voipCmd>>
  BY DEF Voip!Granted, Voip!MqttGo, Voip!outVars, Voip!arbiterVars, Voip!mqttFrame,
     Voip!connVars, Voip!histVars
<1>2. VMqttTyped'
  BY VGoes, VIdle DEF VInv, VTyped, Voip!Granted
<1>3. VHeldInv'
  BY <1>1, VRoomsApart DEF VInv, VTyped, VHeldInv, VCmdTyped, VCmdType, VMqttTyped,
     VMqttType, VLeaseTyped, VServeInv, VFlagsTyped, VNumbersTyped, VStateTyped,
     VDeadlineInv, VEnded, Voip!Granted, Voip!MqttAt, Voip!MqttGo, Voip!outVars,
     Voip!arbiterVars, Voip!mqttFrame, Voip!MqttIdle, Voip!connVars, Voip!histVars
<1>4. VRoomInv'
  BY <1>1, VRoomsApart DEF VInv, VTyped, VRoomInv, VCmdTyped, VCmdType, VMqttTyped,
     VMqttType, Voip!Granted, Voip!MqttAt, Voip!MqttGo, Voip!outVars, Voip!arbiterVars,
     Voip!mqttFrame, Voip!MqttIdle, Voip!connVars, Voip!histVars
<1>5. VDialledInv'
  BY <1>1, VRoomsApart DEF VInv, VTyped, VDialledInv, VDialled, VRoomInv, VCmdTyped,
     VCmdType, VMqttTyped, VMqttType, Voip!Granted, Voip!MqttAt, Voip!MqttGo,
     Voip!outVars, Voip!arbiterVars, Voip!mqttFrame, Voip!MqttIdle, Voip!connVars,
     Voip!histVars
<1>6. VLapsedInv'
  BY <1>1, VRoomsApart DEF VInv, VTyped, VLapsedInv, VAnswers, VConnects, VClosing,
     VCmdTyped, VCmdType, VMqttTyped, VMqttType, VLeaseTyped, VFlagsTyped, VNumbersTyped,
     VStateTyped, VServeInv, VRoomInv, VHeldInv, VDialledInv, VDialled, VEnded,
     Voip!Granted, Voip!MqttAt, Voip!MqttGo, Voip!outVars, Voip!arbiterVars,
     Voip!mqttFrame, Voip!MqttIdle, Voip!connVars, Voip!histVars
<1>7. VLeaseTyped' /\ VFlagsTyped' /\ VNumbersTyped' /\ VStateTyped' /\ VCmdTyped' /\
      VTasksTyped' /\ VDeadlineInv' /\ VServeInv'
  BY <1>1 DEF VInv, VTyped, VLeaseTyped, VFlagsTyped, VNumbersTyped, VStateTyped,
         VCmdTyped, VTasksTyped, VDeadlineInv, VServeInv
<1> QED
  BY <1>2, <1>3, <1>4, <1>5, <1>6, <1>7 DEF VInv, VTyped

LEMMA VOfCurrentStep ==
    ASSUME VInv, Voip!OfCurrent
    PROVE  VInv'
<1>1. UNCHANGED <<voipOwner, voipOwnerId, voipCancelled, voipTicket, voipEndAsked,
      voipTransition, outgoing, outCall, outTimed, ignored, pending, activeRoom,
      voipAttempt, connecting, voipFresh, active, voipState, voipTimed, mediaStart,
      voipPush, voipServing, voipLink, voipBound, voipTasks, created, lapsed, hungUp,
      voipCmd>>
  BY DEF Voip!OfCurrent, Voip!MqttGo, Voip!callVars, Voip!arbiterVars, Voip!mqttFrame,
     Voip!outVars, Voip!connVars, Voip!histVars
<1>2. VMqttTyped'
  BY VGoes, VIdle DEF VInv, VTyped, Voip!OfCurrent
<1>3. VHeldInv'
  BY <1>1, VRoomsApart DEF VInv, VTyped, VHeldInv, VCmdTyped, VCmdType, VMqttTyped,
     VMqttType, VLeaseTyped, VServeInv, VFlagsTyped, VNumbersTyped, VStateTyped,
     VDeadlineInv, VEnded, Voip!OfCurrent, Voip!MqttAt, Voip!VoipIsActive, Voip!MqttGo,
     Voip!callVars, Voip!arbiterVars, Voip!mqttFrame, Voip!InSession, Voip!MqttIdle,
     Voip!outVars, Voip!connVars, Voip!histVars
<1>4. VRoomInv'
  BY <1>1, VRoomsApart DEF VInv, VTyped, VRoomInv, VCmdTyped, VCmdType, VMqttTyped,
     VMqttType, Voip!OfCurrent, Voip!MqttAt, Voip!VoipIsActive, Voip!MqttGo,
     Voip!callVars, Voip!arbiterVars, Voip!mqttFrame, Voip!InSession, Voip!MqttIdle,
     Voip!outVars, Voip!connVars, Voip!histVars
<1>5. VDialledInv'
  BY <1>1, VRoomsApart DEF VInv, VTyped, VDialledInv, VDialled, VRoomInv, VCmdTyped,
     VCmdType, VMqttTyped, VMqttType, Voip!OfCurrent, Voip!MqttAt, Voip!VoipIsActive,
     Voip!MqttGo, Voip!callVars, Voip!arbiterVars, Voip!mqttFrame, Voip!InSession,
     Voip!MqttIdle, Voip!outVars, Voip!connVars, Voip!histVars
<1>6. VLapsedInv'
  BY <1>1, VRoomsApart DEF VInv, VTyped, VLapsedInv, VAnswers, VConnects, VClosing,
     VCmdTyped, VCmdType, VMqttTyped, VMqttType, VLeaseTyped, VFlagsTyped, VNumbersTyped,
     VStateTyped, VServeInv, VRoomInv, VHeldInv, VDialledInv, VDialled, VEnded,
     Voip!OfCurrent, Voip!MqttAt, Voip!VoipIsActive, Voip!MqttGo, Voip!callVars,
     Voip!arbiterVars, Voip!mqttFrame, Voip!InSession, Voip!MqttIdle, Voip!outVars,
     Voip!connVars, Voip!histVars
<1>7. VLeaseTyped' /\ VFlagsTyped' /\ VNumbersTyped' /\ VStateTyped' /\ VCmdTyped' /\
      VTasksTyped' /\ VDeadlineInv' /\ VServeInv'
  BY <1>1 DEF VInv, VTyped, VLeaseTyped, VFlagsTyped, VNumbersTyped, VStateTyped,
         VCmdTyped, VTasksTyped, VDeadlineInv, VServeInv
<1> QED
  BY <1>2, <1>3, <1>4, <1>5, <1>6, <1>7 DEF VInv, VTyped

LEMMA VLookStep ==
    ASSUME VInv, Voip!Look
    PROVE  VInv'
<1>1. UNCHANGED <<voipOwner, voipOwnerId, voipCancelled, voipTicket, voipEndAsked,
      voipTransition, outgoing, outCall, outTimed, ignored, pending, activeRoom,
      voipAttempt, connecting, voipFresh, active, voipState, voipTimed, mediaStart,
      voipPush, voipServing, voipLink, voipBound, voipTasks, created, lapsed, hungUp,
      voipCmd>>
  BY DEF Voip!Look, Voip!Handled, Voip!MqttGo, Voip!callVars, Voip!arbiterVars,
     Voip!mqttFrame, Voip!outVars, Voip!connVars, Voip!histVars
<1>m. /\ VMqttTyped' /\ mqtt.at = "look" /\ (mqtt'.at # "idle" => mqtt'.room = mqtt.room)
      /\ mqtt'.at = "idle" => mqtt'.room = NoRoom
      /\ mqtt'.mine => mqtt'.at = "answer"
      /\ \/ mqtt'.at \in {"idle", "rung"}
         \/ /\ ~Voip!Refuses(mqtt.room) /\ mqtt'.at \in {"answer", "recover", "ring"}
            /\ mqtt'.at = "answer" => mqtt'.mine /\ Voip!MatchesOutgoing(mqtt.room)
            /\ mqtt'.at \in {"recover", "ring"} => ~outgoing
            /\ mqtt'.at = "ring" => mqtt.room \in Incoming
  <2>1. CASE Voip!Handled
    BY <2>1, VHandled DEF VInv, VTyped, VRoomInv, Voip!Look, Voip!MqttAt
  <2>2. CASE /\ ~Voip!Refuses(mqtt.room) /\ Voip!MatchesOutgoing(mqtt.room)
             /\ mqtt' = [mqtt EXCEPT !.at = "answer", !.mine = TRUE]
    BY <2>2 DEF VInv, VTyped, VMqttTyped, VMqttType, Voip!Look, Voip!MqttAt
  <2>3. CASE ~Voip!Refuses(mqtt.room) /\ ~outgoing /\ Voip!MqttGo("recover")
    BY <2>3, VGoes, VIdle DEF VInv, VTyped, VRoomInv, Voip!Look, Voip!MqttAt
  <2>4. CASE ~Voip!Refuses(mqtt.room) /\ ~outgoing /\ mqtt.room \in Incoming /\
        Voip!MqttGo("ring")
    BY <2>4, VGoes, VIdle DEF VInv, VTyped, VRoomInv, Voip!Look, Voip!MqttAt
  <2> QED
    BY <2>1, <2>2, <2>3, <2>4 DEF Voip!Look
<1>2. VMqttTyped'
  BY <1>m
<1>3. VHeldInv'
  BY <1>1, VRoomsApart, <1>m DEF VInv, VTyped, VHeldInv, VCmdTyped, VCmdType, VMqttTyped,
     VMqttType, VLeaseTyped, VServeInv, VFlagsTyped, VNumbersTyped, VStateTyped,
     VDeadlineInv, VEnded, Voip!MqttAt, Voip!Refuses, Voip!MatchesOutgoing, Voip!callVars,
     Voip!arbiterVars, Voip!mqttFrame, Voip!InSession, Voip!outVars, Voip!connVars,
     Voip!histVars
<1>4. VRoomInv'
  BY <1>1, VRoomsApart, <1>m DEF VInv, VTyped, VRoomInv, VCmdTyped, VCmdType, VMqttTyped,
     VMqttType, Voip!MqttAt, Voip!Refuses, Voip!MatchesOutgoing, Voip!callVars,
     Voip!arbiterVars, Voip!mqttFrame, Voip!InSession, Voip!outVars, Voip!connVars,
     Voip!histVars
<1>5. VDialledInv'
  BY <1>1, VRoomsApart, <1>m DEF VInv, VTyped, VDialledInv, VDialled, VRoomInv, VCmdTyped,
     VCmdType, VMqttTyped, VMqttType, Voip!MqttAt, Voip!Refuses, Voip!MatchesOutgoing,
     Voip!callVars, Voip!arbiterVars, Voip!mqttFrame, Voip!InSession, Voip!outVars,
     Voip!connVars, Voip!histVars
<1>6. VLapsedInv'
  BY <1>1, VRoomsApart, <1>m DEF VInv, VTyped, VLapsedInv, VAnswers, VConnects, VClosing,
     VCmdTyped, VCmdType, VMqttTyped, VMqttType, VLeaseTyped, VFlagsTyped, VNumbersTyped,
     VStateTyped, VServeInv, VRoomInv, VHeldInv, VDialledInv, VDialled, VEnded,
     Voip!MqttAt, Voip!Refuses, Voip!MatchesOutgoing, Voip!callVars, Voip!arbiterVars,
     Voip!mqttFrame, Voip!InSession, Voip!outVars, Voip!connVars, Voip!histVars
<1>7. VLeaseTyped' /\ VFlagsTyped' /\ VNumbersTyped' /\ VStateTyped' /\ VCmdTyped' /\
      VTasksTyped' /\ VDeadlineInv' /\ VServeInv'
  BY <1>1 DEF VInv, VTyped, VLeaseTyped, VFlagsTyped, VNumbersTyped, VStateTyped,
         VCmdTyped, VTasksTyped, VDeadlineInv, VServeInv
<1> QED
  BY <1>2, <1>3, <1>4, <1>5, <1>6, <1>7 DEF VInv, VTyped

LEMMA VRecoverStep ==
    ASSUME VInv, Voip!Recover
    PROVE  VInv'
<1>1. UNCHANGED <<voipTransition, outgoing, outCall, outTimed, ignored, pending,
      activeRoom, voipAttempt, connecting, voipFresh, active, voipState, voipTimed,
      mediaStart, voipPush, voipLink, voipBound, voipTasks, created, lapsed, hungUp,
      voipCmd>>
  BY DEF Voip!Recover, Voip!MqttGo, Voip!arbiterVars, Voip!BeginSession, Voip!Handled,
     Voip!callVars, Voip!mqttFrame, Voip!Hold, Voip!outVars, Voip!connVars, Voip!histVars
<1>2. VLeaseTyped'
  BY <1>1, VRoomsApart DEF VInv, VTyped, VLeaseTyped, Voip!Recover, Voip!arbiterVars,
     Voip!BeginSession, Voip!callVars, Voip!mqttFrame, Voip!MqttIdle, Voip!Hold,
     Voip!outVars, Voip!connVars, Voip!histVars
<1>3. VMqttTyped'
  BY VHandled, VGoes, VIdle DEF VInv, VTyped, Voip!Recover
<1>4. VServeInv'
  BY <1>1, VRoomsApart DEF VInv, VTyped, VServeInv, VCmdTyped, VCmdType, VLeaseTyped,
     VFlagsTyped, VNumbersTyped, VStateTyped, Voip!Recover, Voip!MqttAt, Voip!MqttGo,
     Voip!arbiterVars, Voip!BeginSession, Voip!Handled, Voip!callVars, Voip!mqttFrame,
     Voip!MqttIdle, Voip!Hold, Voip!outVars, Voip!connVars, Voip!histVars
<1>5. VHeldInv'
  BY <1>1, VRoomsApart DEF VInv, VTyped, VHeldInv, VCmdTyped, VCmdType, VMqttTyped,
     VMqttType, VLeaseTyped, VServeInv, VFlagsTyped, VNumbersTyped, VStateTyped,
     VDeadlineInv, VEnded, Voip!Recover, Voip!MqttAt, Voip!MqttGo, Voip!arbiterVars,
     Voip!BeginSession, Voip!Handled, Voip!callVars, Voip!mqttFrame, Voip!MqttIdle,
     Voip!Hold, Voip!outVars, Voip!connVars, Voip!histVars
<1>6. VRoomInv'
  BY <1>1, VRoomsApart DEF VInv, VTyped, VRoomInv, VCmdTyped, VCmdType, VMqttTyped,
     VMqttType, Voip!Recover, Voip!MqttAt, Voip!MqttGo, Voip!arbiterVars,
     Voip!BeginSession, Voip!Handled, Voip!callVars, Voip!mqttFrame, Voip!MqttIdle,
     Voip!Hold, Voip!outVars, Voip!connVars, Voip!histVars
<1>7. VDialledInv'
  BY <1>1, VRoomsApart DEF VInv, VTyped, VDialledInv, VDialled, VRoomInv, VCmdTyped,
     VCmdType, VMqttTyped, VMqttType, Voip!Recover, Voip!MqttAt, Voip!MqttGo,
     Voip!arbiterVars, Voip!BeginSession, Voip!Handled, Voip!callVars, Voip!mqttFrame,
     Voip!MqttIdle, Voip!Hold, Voip!outVars, Voip!connVars, Voip!histVars
<1>8. VLapsedInv'
  BY <1>1, VRoomsApart DEF VInv, VTyped, VLapsedInv, VAnswers, VConnects, VClosing,
     VCmdTyped, VCmdType, VMqttTyped, VMqttType, VLeaseTyped, VFlagsTyped, VNumbersTyped,
     VStateTyped, VServeInv, VRoomInv, VHeldInv, VDialledInv, VDialled, VEnded,
     Voip!Recover, Voip!MqttAt, Voip!MqttGo, Voip!arbiterVars, Voip!BeginSession,
     Voip!Handled, Voip!callVars, Voip!mqttFrame, Voip!MqttIdle, Voip!Hold, Voip!outVars,
     Voip!connVars, Voip!histVars
<1>9. VFlagsTyped' /\ VNumbersTyped' /\ VStateTyped' /\ VCmdTyped' /\ VTasksTyped' /\
      VDeadlineInv'
  BY <1>1 DEF VInv, VTyped, VFlagsTyped, VNumbersTyped, VStateTyped, VCmdTyped,
         VTasksTyped, VDeadlineInv
<1> QED
  BY <1>2, <1>3, <1>4, <1>5, <1>6, <1>7, <1>8, <1>9 DEF VInv, VTyped

LEMMA VAnswerOwnStep ==
    ASSUME VInv, Voip!AnswerOwn
    PROVE  VInv'
<1>1. UNCHANGED <<voipOwner, voipOwnerId, voipCancelled, voipTicket, voipTransition,
      ignored, pending, voipAttempt, connecting, voipFresh, active, voipState, voipTimed,
      mediaStart, voipPush, voipServing, voipLink, voipBound, voipTasks, created, lapsed,
      hungUp, voipCmd>>
  BY DEF Voip!AnswerOwn, Voip!NotOutgoing, Voip!outVars, Voip!MqttGo, Voip!EndSession,
     Voip!Handled, Voip!leaseFrame, Voip!mqttFrame, Voip!connVars, Voip!histVars
<1>2. VLeaseTyped'
  BY <1>1, VRoomsApart DEF VInv, VTyped, VLeaseTyped, Voip!AnswerOwn, Voip!outVars,
     Voip!EndSession, Voip!leaseFrame, Voip!mqttFrame, Voip!MqttIdle, Voip!connVars,
     Voip!histVars
<1>3. VFlagsTyped'
  BY <1>1, VRoomsApart DEF VInv, VTyped, VFlagsTyped, Voip!AnswerOwn, Voip!NotOutgoing,
     Voip!outVars, Voip!leaseFrame, Voip!mqttFrame, Voip!MqttIdle, Voip!connVars,
     Voip!histVars
<1>4. VMqttTyped'
  BY VHandled, VGoes, VIdle DEF VInv, VTyped, Voip!AnswerOwn
<1>5. VDeadlineInv'
  BY <1>1, VRoomsApart DEF VInv, VTyped, VDeadlineInv, VCmdTyped, VCmdType, VFlagsTyped,
     VNumbersTyped, VStateTyped, Voip!AnswerOwn, Voip!MqttAt, Voip!NotOutgoing,
     Voip!outVars, Voip!MqttGo, Voip!EndSession, Voip!Handled, Voip!leaseFrame,
     Voip!mqttFrame, Voip!MqttIdle, Voip!connVars, Voip!histVars
<1>6. VHeldInv'
  BY <1>1, VRoomsApart DEF VInv, VTyped, VHeldInv, VCmdTyped, VCmdType, VMqttTyped,
     VMqttType, VLeaseTyped, VServeInv, VFlagsTyped, VNumbersTyped, VStateTyped,
     VDeadlineInv, VEnded, Voip!AnswerOwn, Voip!MqttAt, Voip!NotOutgoing, Voip!outVars,
     Voip!MqttGo, Voip!EndSession, Voip!Handled, Voip!leaseFrame, Voip!mqttFrame,
     Voip!MqttIdle, Voip!connVars, Voip!histVars
<1>7. VRoomInv'
  BY <1>1, VRoomsApart DEF VInv, VTyped, VRoomInv, VCmdTyped, VCmdType, VMqttTyped,
     VMqttType, Voip!AnswerOwn, Voip!MqttAt, Voip!NotOutgoing, Voip!outVars, Voip!MqttGo,
     Voip!EndSession, Voip!Handled, Voip!leaseFrame, Voip!mqttFrame, Voip!MqttIdle,
     Voip!connVars, Voip!histVars
<1>8. VDialledInv'
  BY <1>1, VRoomsApart DEF VInv, VTyped, VDialledInv, VDialled, VRoomInv, VCmdTyped,
     VCmdType, VMqttTyped, VMqttType, Voip!AnswerOwn, Voip!MqttAt, Voip!NotOutgoing,
     Voip!outVars, Voip!MqttGo, Voip!EndSession, Voip!Handled, Voip!leaseFrame,
     Voip!mqttFrame, Voip!MqttIdle, Voip!connVars, Voip!histVars
<1>9. VLapsedInv'
  BY <1>1, VRoomsApart DEF VInv, VTyped, VLapsedInv, VAnswers, VConnects, VClosing,
     VCmdTyped, VCmdType, VMqttTyped, VMqttType, VLeaseTyped, VFlagsTyped, VNumbersTyped,
     VStateTyped, VServeInv, VRoomInv, VHeldInv, VDialledInv, VDialled, VEnded,
     Voip!AnswerOwn, Voip!MqttAt, Voip!NotOutgoing, Voip!outVars, Voip!MqttGo,
     Voip!EndSession, Voip!Handled, Voip!leaseFrame, Voip!mqttFrame, Voip!MqttIdle,
     Voip!connVars, Voip!histVars
<1>10. VNumbersTyped' /\ VStateTyped' /\ VCmdTyped' /\ VTasksTyped' /\ VServeInv'
  BY <1>1 DEF VInv, VTyped, VNumbersTyped, VStateTyped, VCmdTyped, VTasksTyped,
         VServeInv
<1> QED
  BY <1>2, <1>3, <1>4, <1>5, <1>6, <1>7, <1>8, <1>9, <1>10 DEF VInv, VTyped

LEMMA VStartOwnStep ==
    ASSUME VInv, Voip!StartOwn
    PROVE  VInv'
<1>1. UNCHANGED <<voipOwner, voipOwnerId, voipCancelled, voipTicket, voipTransition,
      outgoing, outCall, outTimed, ignored, pending, active, voipPush, voipServing,
      voipBound, voipTasks, created, lapsed, hungUp, voipCmd>>
  BY DEF Voip!StartOwn, Voip!Handled, Voip!StartSession, Voip!StartFails, Voip!EndSession,
     Voip!outVars, Voip!histVars, Voip!leaseFrame, Voip!MqttGo, Voip!MayStart,
     Voip!connVars
<1>2. VLeaseTyped'
  BY <1>1, VRoomsApart DEF VInv, VTyped, VLeaseTyped, Voip!StartOwn, Voip!EndSession,
     Voip!outVars, Voip!histVars, Voip!leaseFrame, Voip!MayStart, Voip!connVars,
     Voip!MqttIdle
<1>3. VFlagsTyped'
  BY <1>1, VRoomsApart DEF VInv, VTyped, VFlagsTyped, Voip!StartOwn, Voip!StartSession,
     Voip!StartFails, Voip!outVars, Voip!histVars, Voip!leaseFrame, Voip!MayStart,
     Voip!connVars, Voip!MqttIdle
<1>4. VNumbersTyped'
  <2>1. CASE Voip!StartSession
    BY <2>1, VRoomsApart DEF VInv, VTyped, VNumbersTyped, Voip!StartSession, Voip!MayStart
  <2>2. CASE Voip!StartFails
    BY <2>2 DEF VInv, VTyped, VNumbersTyped, Voip!StartFails, Voip!connVars
  <2> QED
    BY <2>1, <2>2 DEF Voip!StartOwn
<1>5. VStateTyped'
  BY <1>1, VRoomsApart DEF VInv, VTyped, VStateTyped, Voip!StartOwn, Voip!StartSession,
     Voip!StartFails, Voip!outVars, Voip!histVars, Voip!leaseFrame, Voip!MayStart,
     Voip!connVars, Voip!MqttIdle
<1>6. VMqttTyped'
  BY VHandled DEF VInv, VTyped, Voip!StartOwn
<1>7. VDeadlineInv'
  BY <1>1, VRoomsApart DEF VInv, VTyped, VDeadlineInv, VCmdTyped, VCmdType, VFlagsTyped,
     VNumbersTyped, VStateTyped, Voip!StartOwn, Voip!MqttAt, Voip!Handled,
     Voip!StartSession, Voip!StartFails, Voip!EndSession, Voip!outVars, Voip!histVars,
     Voip!leaseFrame, Voip!MqttGo, Voip!MayStart, Voip!InSession, Voip!connVars,
     Voip!MqttIdle
<1>8. VHeldInv'
  BY <1>1, VRoomsApart DEF VInv, VTyped, VHeldInv, VCmdTyped, VCmdType, VMqttTyped,
     VMqttType, VLeaseTyped, VServeInv, VFlagsTyped, VNumbersTyped, VStateTyped,
     VDeadlineInv, VEnded, Voip!StartOwn, Voip!MqttAt, Voip!Handled, Voip!StartSession,
     Voip!StartFails, Voip!EndSession, Voip!outVars, Voip!histVars, Voip!leaseFrame,
     Voip!MqttGo, Voip!MayStart, Voip!InSession, Voip!connVars, Voip!MqttIdle
<1>9. VRoomInv'
  BY <1>1, VRoomsApart DEF VInv, VTyped, VRoomInv, VCmdTyped, VCmdType, VMqttTyped,
     VMqttType, Voip!StartOwn, Voip!MqttAt, Voip!Handled, Voip!StartSession,
     Voip!StartFails, Voip!EndSession, Voip!outVars, Voip!histVars, Voip!leaseFrame,
     Voip!MqttGo, Voip!MayStart, Voip!InSession, Voip!connVars, Voip!MqttIdle
<1>10. VDialledInv'
  BY <1>1, VRoomsApart DEF VInv, VTyped, VDialledInv, VDialled, VRoomInv, VCmdTyped,
     VCmdType, VMqttTyped, VMqttType, Voip!StartOwn, Voip!MqttAt, Voip!Handled,
     Voip!StartSession, Voip!StartFails, Voip!EndSession, Voip!outVars, Voip!histVars,
     Voip!leaseFrame, Voip!MqttGo, Voip!MayStart, Voip!InSession, Voip!connVars,
     Voip!MqttIdle
<1>11. VLapsedInv'
  <2>1. mqtt.at = "start" /\ VMqttTyped' /\ mqtt'.at \in {"idle", "rung"}
    BY VHandled DEF VInv, VTyped, Voip!StartOwn, Voip!MqttAt
  <2>2. CASE Voip!StartSession /\ UNCHANGED <<activeRoom, voipEndAsked>>
    <3>1. active' = active /\ connecting' /\ active = 0 /\ ~connecting
      BY <2>2 DEF Voip!StartSession, Voip!MayStart, Voip!InSession
    <3> QED
      BY <1>1, <2>1, <2>2, <3>1, VRoomsApart
         DEF VInv, VTyped, VLapsedInv, VAnswers, VConnects, VClosing, VEnded, VRoomInv
  <2>3. CASE activeRoom' = NoRoom /\ Voip!EndSession /\ UNCHANGED <<active, connecting>>
    <3>1. voipEndAsked' <=> voipEndAsked \/ voipOwner = "HELD"
      BY <2>3, VAsks DEF VInv, VTyped
    <3> QED
      BY <1>1, <2>1, <2>3, <3>1 DEF VInv, VTyped, VLapsedInv, VAnswers, VConnects,
         VClosing, VEnded
  <2> QED
    BY <2>2, <2>3 DEF Voip!StartOwn, Voip!StartFails, Voip!connVars
<1>12. VCmdTyped' /\ VTasksTyped' /\ VServeInv'
  BY <1>1 DEF VInv, VTyped, VCmdTyped, VTasksTyped, VServeInv
<1> QED
  BY <1>2, <1>3, <1>4, <1>5, <1>6, <1>7, <1>8, <1>9, <1>10, <1>11, <1>12 DEF VInv, VTyped

LEMMA VRingStep ==
    ASSUME VInv, Voip!Ring
    PROVE  VInv'
<1>1. UNCHANGED <<voipOwner, voipOwnerId, voipCancelled, voipTicket, voipEndAsked,
      voipTransition, outgoing, outCall, outTimed, ignored, activeRoom, voipAttempt,
      connecting, voipFresh, active, voipState, voipTimed, mediaStart, voipPush,
      voipServing, voipLink, voipBound, voipTasks, created, lapsed, hungUp, voipCmd>>
  BY DEF Voip!Ring, Voip!Handled, Voip!outVars, Voip!arbiterVars, Voip!mqttFrame,
     Voip!MqttGo, Voip!connVars, Voip!histVars
<1>2. VMqttTyped'
  BY VHandled DEF VInv, VTyped, Voip!Ring
<1>3. VHeldInv'
  BY <1>1, VRoomsApart DEF VInv, VTyped, VHeldInv, VCmdTyped, VCmdType, VMqttTyped,
     VMqttType, VLeaseTyped, VServeInv, VFlagsTyped, VNumbersTyped, VStateTyped,
     VDeadlineInv, VEnded, Voip!Ring, Voip!MqttAt, Voip!Handled, Voip!outVars,
     Voip!arbiterVars, Voip!mqttFrame, Voip!MqttGo, Voip!connVars, Voip!histVars,
     Voip!MqttIdle
<1>4. VRoomInv'
  BY <1>1, VRoomsApart DEF VInv, VTyped, VRoomInv, VCmdTyped, VCmdType, VMqttTyped,
     VMqttType, Voip!Ring, Voip!MqttAt, Voip!Handled, Voip!outVars, Voip!arbiterVars,
     Voip!mqttFrame, Voip!MqttGo, Voip!connVars, Voip!histVars, Voip!MqttIdle
<1>5. VDialledInv'
  BY <1>1, VRoomsApart DEF VInv, VTyped, VDialledInv, VDialled, VRoomInv, VCmdTyped,
     VCmdType, VMqttTyped, VMqttType, Voip!Ring, Voip!MqttAt, Voip!Handled, Voip!outVars,
     Voip!arbiterVars, Voip!mqttFrame, Voip!MqttGo, Voip!connVars, Voip!histVars,
     Voip!MqttIdle
<1>6. VLapsedInv'
  BY <1>1, VRoomsApart DEF VInv, VTyped, VLapsedInv, VAnswers, VConnects, VClosing,
     VCmdTyped, VCmdType, VMqttTyped, VMqttType, VLeaseTyped, VFlagsTyped, VNumbersTyped,
     VStateTyped, VServeInv, VRoomInv, VHeldInv, VDialledInv, VDialled, VEnded, Voip!Ring,
     Voip!MqttAt, Voip!Handled, Voip!outVars, Voip!arbiterVars, Voip!mqttFrame,
     Voip!MqttGo, Voip!connVars, Voip!histVars, Voip!MqttIdle
<1>7. VLeaseTyped' /\ VFlagsTyped' /\ VNumbersTyped' /\ VStateTyped' /\ VCmdTyped' /\
      VTasksTyped' /\ VDeadlineInv' /\ VServeInv'
  BY <1>1 DEF VInv, VTyped, VLeaseTyped, VFlagsTyped, VNumbersTyped, VStateTyped,
         VCmdTyped, VTasksTyped, VDeadlineInv, VServeInv
<1> QED
  BY <1>2, <1>3, <1>4, <1>5, <1>6, <1>7 DEF VInv, VTyped

LEMMA VRungStep ==
    ASSUME VInv, Voip!Rung
    PROVE  VInv'
<1>1. UNCHANGED <<voipOwner, voipOwnerId, voipEndAsked, voipTransition, outgoing, outCall,
      outTimed, ignored, pending, activeRoom, voipAttempt, connecting, voipFresh, active,
      voipState, voipTimed, mediaStart, voipPush, voipServing, voipLink, voipBound,
      voipTasks, created, lapsed, hungUp, voipCmd>>
  BY DEF Voip!Rung, Voip!MqttGo, Voip!ClearPendingId, Voip!callVars, Voip!mqttFrame,
     Voip!outVars, Voip!connVars, Voip!histVars
<1>2. VLeaseTyped'
  BY <1>1, VRoomsApart DEF VInv, VTyped, VLeaseTyped, Voip!Rung, Voip!ClearPendingId,
     Voip!callVars, Voip!mqttFrame, Voip!MqttIdle, Voip!outVars, Voip!connVars,
     Voip!histVars
<1>3. VMqttTyped'
  BY VGoes, VIdle DEF VInv, VTyped, Voip!Rung
<1>4. VHeldInv'
  BY <1>1, VRoomsApart DEF VInv, VTyped, VHeldInv, VCmdTyped, VCmdType, VMqttTyped,
     VMqttType, VLeaseTyped, VServeInv, VFlagsTyped, VNumbersTyped, VStateTyped,
     VDeadlineInv, VEnded, Voip!Rung, Voip!MqttAt, Voip!MqttGo, Voip!ClearPendingId,
     Voip!callVars, Voip!mqttFrame, Voip!MqttIdle, Voip!outVars, Voip!connVars,
     Voip!histVars
<1>5. VRoomInv'
  BY <1>1, VRoomsApart DEF VInv, VTyped, VRoomInv, VCmdTyped, VCmdType, VMqttTyped,
     VMqttType, Voip!Rung, Voip!MqttAt, Voip!MqttGo, Voip!ClearPendingId, Voip!callVars,
     Voip!mqttFrame, Voip!MqttIdle, Voip!outVars, Voip!connVars, Voip!histVars
<1>6. VDialledInv'
  BY <1>1, VRoomsApart DEF VInv, VTyped, VDialledInv, VDialled, VRoomInv, VCmdTyped,
     VCmdType, VMqttTyped, VMqttType, Voip!Rung, Voip!MqttAt, Voip!MqttGo,
     Voip!ClearPendingId, Voip!callVars, Voip!mqttFrame, Voip!MqttIdle, Voip!outVars,
     Voip!connVars, Voip!histVars
<1>7. VLapsedInv'
  BY <1>1, VRoomsApart DEF VInv, VTyped, VLapsedInv, VAnswers, VConnects, VClosing,
     VCmdTyped, VCmdType, VMqttTyped, VMqttType, VLeaseTyped, VFlagsTyped, VNumbersTyped,
     VStateTyped, VServeInv, VRoomInv, VHeldInv, VDialledInv, VDialled, VEnded, Voip!Rung,
     Voip!MqttAt, Voip!MqttGo, Voip!ClearPendingId, Voip!callVars, Voip!mqttFrame,
     Voip!MqttIdle, Voip!outVars, Voip!connVars, Voip!histVars
<1>8. VFlagsTyped' /\ VNumbersTyped' /\ VStateTyped' /\ VCmdTyped' /\ VTasksTyped' /\
      VDeadlineInv' /\ VServeInv'
  BY <1>1 DEF VInv, VTyped, VFlagsTyped, VNumbersTyped, VStateTyped, VCmdTyped,
         VTasksTyped, VDeadlineInv, VServeInv
<1> QED
  BY <1>2, <1>3, <1>4, <1>5, <1>6, <1>7, <1>8 DEF VInv, VTyped

LEMMA VVoipCancelStep ==
    ASSUME VInv, NEW r \in Incoming \cup created, Voip!VoipCancel(r)
    PROVE  VInv'
<1>1. UNCHANGED <<voipOwner, voipOwnerId, voipCancelled, voipTicket, voipEndAsked,
      voipTransition, outgoing, outCall, outTimed, ignored, voipAttempt, connecting,
      voipFresh, active, voipState, voipTimed, mediaStart, voipPush, voipServing,
      voipLink, voipBound, voipTasks, created, lapsed, hungUp, voipCmd>>
  BY DEF Voip!VoipCancel, Voip!outVars, Voip!arbiterVars, Voip!mqttFrame, Voip!connVars,
     Voip!histVars
<1>2. VMqttTyped'
  BY <1>1, VRoomsApart DEF VInv, VTyped, VMqttTyped, VMqttType, Voip!MaybeRoom,
     Voip!Rooms, VRoomInv, Voip!VoipCancel, Voip!MqttIdle, Voip!outVars, Voip!arbiterVars,
     Voip!mqttFrame, Voip!connVars, Voip!histVars
<1>3. VHeldInv'
  BY <1>1, VRoomsApart DEF VInv, VTyped, VHeldInv, VCmdTyped, VCmdType, VMqttTyped,
     VMqttType, VLeaseTyped, VServeInv, VFlagsTyped, VNumbersTyped, VStateTyped,
     VDeadlineInv, VEnded, Voip!VoipCancel, Voip!MqttAt, Voip!MqttIdle, Voip!InSession,
     Voip!outVars, Voip!arbiterVars, Voip!mqttFrame, Voip!connVars, Voip!histVars
<1>4. VRoomInv'
  BY <1>1, VRoomsApart DEF VInv, VTyped, VRoomInv, VCmdTyped, VCmdType, VMqttTyped,
     VMqttType, Voip!VoipCancel, Voip!MqttAt, Voip!MqttIdle, Voip!InSession, Voip!outVars,
     Voip!arbiterVars, Voip!mqttFrame, Voip!connVars, Voip!histVars
<1>5. VDialledInv'
  BY <1>1, VRoomsApart DEF VInv, VTyped, VDialledInv, VDialled, VRoomInv, VCmdTyped,
     VCmdType, VMqttTyped, VMqttType, Voip!VoipCancel, Voip!MqttAt, Voip!MqttIdle,
     Voip!InSession, Voip!outVars, Voip!arbiterVars, Voip!mqttFrame, Voip!connVars,
     Voip!histVars
<1>6. VLapsedInv'
  BY <1>1, VRoomsApart DEF VInv, VTyped, VLapsedInv, VAnswers, VConnects, VClosing,
     VCmdTyped, VCmdType, VMqttTyped, VMqttType, VLeaseTyped, VFlagsTyped, VNumbersTyped,
     VStateTyped, VServeInv, VRoomInv, VHeldInv, VDialledInv, VDialled, VEnded,
     Voip!VoipCancel, Voip!MqttAt, Voip!MqttIdle, Voip!InSession, Voip!outVars,
     Voip!arbiterVars, Voip!mqttFrame, Voip!connVars, Voip!histVars
<1>7. VLeaseTyped' /\ VFlagsTyped' /\ VNumbersTyped' /\ VStateTyped' /\ VCmdTyped' /\
      VTasksTyped' /\ VDeadlineInv' /\ VServeInv'
  BY <1>1 DEF VInv, VTyped, VLeaseTyped, VFlagsTyped, VNumbersTyped, VStateTyped,
         VCmdTyped, VTasksTyped, VDeadlineInv, VServeInv
<1> QED
  BY <1>2, <1>3, <1>4, <1>5, <1>6, <1>7 DEF VInv, VTyped

LEMMA VCancelStopsStep ==
    ASSUME VInv, Voip!CancelStops
    PROVE  VInv'
<1>1. UNCHANGED <<voipOwner, voipOwnerId, voipCancelled, voipTicket, voipTransition,
      ignored, voipAttempt, voipServing, voipBound, voipTasks, created, lapsed, hungUp,
      voipCmd>>
  BY DEF Voip!CancelStops, Voip!StopSession, Voip!MqttGo, Voip!histVars, Voip!leaseFrame,
     Voip!NotOutgoing, Voip!Disconnect, Voip!EndSession
<1>2. VLeaseTyped'
  BY <1>1, VRoomsApart DEF VInv, VTyped, VLeaseTyped, Voip!CancelStops, Voip!StopSession,
     Voip!histVars, Voip!leaseFrame, Voip!EndSession, Voip!MqttIdle, Voip!Conns
<1>3. VFlagsTyped'
  BY <1>1, VRoomsApart DEF VInv, VTyped, VFlagsTyped, Voip!CancelStops, Voip!StopSession,
     Voip!histVars, Voip!leaseFrame, Voip!NotOutgoing, Voip!MqttIdle, Voip!Conns
<1>4. VNumbersTyped'
  BY <1>1, VRoomsApart DEF VInv, VTyped, VNumbersTyped, Voip!Conns, Voip!CancelStops,
     Voip!StopSession, Voip!histVars, Voip!leaseFrame, Voip!MqttIdle
<1>5. VStateTyped'
  BY <1>1, VRoomsApart DEF VInv, VTyped, VStateTyped, Voip!CancelStops, Voip!StopSession,
     Voip!histVars, Voip!leaseFrame, Voip!MqttIdle, Voip!Conns
<1>6. VMqttTyped'
  BY VGoes, VIdle DEF VInv, VTyped, Voip!CancelStops
<1>7. VDeadlineInv'
  BY <1>1, VRoomsApart DEF VInv, VTyped, VDeadlineInv, VCmdTyped, VCmdType, VFlagsTyped,
     VNumbersTyped, VStateTyped, Voip!CancelStops, Voip!MqttAt, Voip!StopSession,
     Voip!MqttGo, Voip!histVars, Voip!leaseFrame, Voip!NotOutgoing, Voip!Disconnect,
     Voip!VoipIsActive, Voip!EndSession, Voip!MqttIdle, Voip!Conns, Voip!InSession
<1>8. VServeInv'
  BY <1>1, VRoomsApart DEF VInv, VTyped, VServeInv, VCmdTyped, VCmdType, VLeaseTyped,
     VFlagsTyped, VNumbersTyped, VStateTyped, Voip!CancelStops, Voip!MqttAt,
     Voip!StopSession, Voip!MqttGo, Voip!histVars, Voip!leaseFrame, Voip!NotOutgoing,
     Voip!Disconnect, Voip!VoipIsActive, Voip!EndSession, Voip!MqttIdle, Voip!Conns,
     Voip!InSession
<1>9. VHeldInv'
  BY <1>1, VRoomsApart DEF VInv, VTyped, VHeldInv, VCmdTyped, VCmdType, VMqttTyped,
     VMqttType, VLeaseTyped, VServeInv, VFlagsTyped, VNumbersTyped, VStateTyped,
     VDeadlineInv, VEnded, Voip!CancelStops, Voip!MqttAt, Voip!StopSession, Voip!MqttGo,
     Voip!histVars, Voip!leaseFrame, Voip!NotOutgoing, Voip!Disconnect, Voip!VoipIsActive,
     Voip!EndSession, Voip!MqttIdle, Voip!Conns, Voip!InSession
<1>10. VRoomInv'
  BY <1>1, VRoomsApart DEF VInv, VTyped, VRoomInv, VCmdTyped, VCmdType, VMqttTyped,
     VMqttType, Voip!CancelStops, Voip!MqttAt, Voip!StopSession, Voip!MqttGo,
     Voip!histVars, Voip!leaseFrame, Voip!NotOutgoing, Voip!Disconnect, Voip!VoipIsActive,
     Voip!EndSession, Voip!MqttIdle, Voip!Conns, Voip!InSession
<1>11. VDialledInv'
  BY <1>1, VRoomsApart DEF VInv, VTyped, VDialledInv, VDialled, VRoomInv, VCmdTyped,
     VCmdType, VMqttTyped, VMqttType, Voip!CancelStops, Voip!MqttAt, Voip!StopSession,
     Voip!MqttGo, Voip!histVars, Voip!leaseFrame, Voip!NotOutgoing, Voip!Disconnect,
     Voip!VoipIsActive, Voip!EndSession, Voip!MqttIdle, Voip!Conns, Voip!InSession
<1>12. VLapsedInv'
  BY <1>1, VRoomsApart DEF VInv, VTyped, VLapsedInv, VAnswers, VConnects, VClosing,
     VCmdTyped, VCmdType, VMqttTyped, VMqttType, VLeaseTyped, VFlagsTyped, VNumbersTyped,
     VStateTyped, VServeInv, VRoomInv, VHeldInv, VDialledInv, VDialled, VEnded,
     Voip!CancelStops, Voip!MqttAt, Voip!StopSession, Voip!MqttGo, Voip!histVars,
     Voip!leaseFrame, Voip!NotOutgoing, Voip!Disconnect, Voip!VoipIsActive,
     Voip!EndSession, Voip!MqttIdle, Voip!Conns, Voip!InSession
<1>13. VCmdTyped' /\ VTasksTyped'
  BY <1>1 DEF VInv, VTyped, VCmdTyped, VTasksTyped
<1> QED
  BY <1>2, <1>3, <1>4, <1>5, <1>6, <1>7, <1>8, <1>9, <1>10, <1>11, <1>12, <1>13 DEF VInv,
     VTyped

LEMMA VToldStep ==
    ASSUME VInv, Voip!Told
    PROVE  VInv'
<1>1. UNCHANGED <<voipOwner, voipOwnerId, voipTransition, outgoing, outCall, outTimed,
      ignored, pending, activeRoom, voipAttempt, connecting, voipFresh, active, voipState,
      voipTimed, mediaStart, voipPush, voipServing, voipLink, voipBound, voipTasks,
      created, lapsed, hungUp, voipCmd>>
  BY DEF Voip!Told, Voip!MqttGo, Voip!CancelId, Voip!callVars, Voip!mqttFrame,
     Voip!outVars, Voip!connVars, Voip!histVars
<1>2. VLeaseTyped'
  BY <1>1, VRoomsApart DEF VInv, VTyped, VLeaseTyped, Voip!Told, Voip!CancelId,
     Voip!callVars, Voip!mqttFrame, Voip!MqttIdle, Voip!outVars, Voip!connVars,
     Voip!histVars
<1>3. VMqttTyped'
  BY VGoes, VIdle DEF VInv, VTyped, Voip!Told
<1>4. VHeldInv'
  BY <1>1, VRoomsApart DEF VInv, VTyped, VHeldInv, VCmdTyped, VCmdType, VMqttTyped,
     VMqttType, VLeaseTyped, VServeInv, VFlagsTyped, VNumbersTyped, VStateTyped,
     VDeadlineInv, VEnded, Voip!Told, Voip!MqttAt, Voip!MqttGo, Voip!CancelId,
     Voip!callVars, Voip!mqttFrame, Voip!MqttIdle, Voip!outVars, Voip!connVars,
     Voip!histVars
<1>5. VRoomInv'
  BY <1>1, VRoomsApart DEF VInv, VTyped, VRoomInv, VCmdTyped, VCmdType, VMqttTyped,
     VMqttType, Voip!Told, Voip!MqttAt, Voip!MqttGo, Voip!CancelId, Voip!callVars,
     Voip!mqttFrame, Voip!MqttIdle, Voip!outVars, Voip!connVars, Voip!histVars
<1>6. VDialledInv'
  BY <1>1, VRoomsApart DEF VInv, VTyped, VDialledInv, VDialled, VRoomInv, VCmdTyped,
     VCmdType, VMqttTyped, VMqttType, Voip!Told, Voip!MqttAt, Voip!MqttGo, Voip!CancelId,
     Voip!callVars, Voip!mqttFrame, Voip!MqttIdle, Voip!outVars, Voip!connVars,
     Voip!histVars
<1>7. VLapsedInv'
  BY <1>1, VRoomsApart DEF VInv, VTyped, VLapsedInv, VAnswers, VConnects, VClosing,
     VCmdTyped, VCmdType, VMqttTyped, VMqttType, VLeaseTyped, VFlagsTyped, VNumbersTyped,
     VStateTyped, VServeInv, VRoomInv, VHeldInv, VDialledInv, VDialled, VEnded, Voip!Told,
     Voip!MqttAt, Voip!MqttGo, Voip!CancelId, Voip!callVars, Voip!mqttFrame,
     Voip!MqttIdle, Voip!outVars, Voip!connVars, Voip!histVars
<1>8. VFlagsTyped' /\ VNumbersTyped' /\ VStateTyped' /\ VCmdTyped' /\ VTasksTyped' /\
      VDeadlineInv' /\ VServeInv'
  BY <1>1 DEF VInv, VTyped, VFlagsTyped, VNumbersTyped, VStateTyped, VCmdTyped,
         VTasksTyped, VDeadlineInv, VServeInv
<1> QED
  BY <1>2, <1>3, <1>4, <1>5, <1>6, <1>7, <1>8 DEF VInv, VTyped

LEMMA VStutterStep == ASSUME VInv, UNCHANGED voipVars PROVE VInv'
  BY DEF VInv, VTyped, VLeaseTyped, VFlagsTyped, VNumbersTyped, VStateTyped, VCmdTyped,
     VMqttTyped, VTasksTyped, VDeadlineInv, VServeInv, VHeldInv, VRoomInv, VDialledInv,
     VDialled, VLapsedInv, VAnswers, VConnects, VClosing, VEnded, voipVars, Voip!callVars,
     Voip!outVars, Voip!connVars, Voip!sdkVars, Voip!histVars, Voip!arbiterVars

LEMMA VInitInv == Voip!Init => VInv
<1> SUFFICES ASSUME Voip!Init PROVE VInv
  OBVIOUS
<1>1. VCmdTyped /\ VMqttTyped
  BY VIdle DEF Voip!Init, VCmdTyped, VMqttTyped
<1>2. VTasksTyped
  BY DEF Voip!Init, VTasksTyped
<1>3. VLeaseTyped /\ VFlagsTyped /\ VStateTyped
  BY DEF Voip!Init, Voip!LeaseInit, VLeaseTyped, VFlagsTyped, VStateTyped
<1>6. VNumbersTyped
  BY VRoomsApart DEF Voip!Init, VNumbersTyped
<1>4. voipCmd.at = "idle" /\ voipCmd.room = NoRoom /\ mqtt.at = "idle" /\ mqtt.room = NoRoom
      /\ mqtt.mine = FALSE
  BY DEF Voip!Init, Voip!CmdIdle, Voip!MqttIdle
<1>5. VDeadlineInv /\ VServeInv /\ VHeldInv /\ VRoomInv /\ VDialledInv /\ VLapsedInv
  BY <1>4 DEF Voip!Init, Voip!LeaseInit, VDeadlineInv, VServeInv, VHeldInv, VRoomInv,
     VDialledInv, VDialled, VLapsedInv
<1> QED
  BY <1>1, <1>2, <1>3, <1>5, <1>6 DEF VInv, VTyped

LEMMA VNextInv == VInv /\ [Voip!Next]_voipVars => VInv'
<1> SUFFICES ASSUME VInv, [Voip!Next]_voipVars PROVE VInv'
  OBVIOUS
<1>1. CASE Voip!Command
  BY <1>1, VBeginDialStep, VHangupStep, VHangupLocalStep, VAcceptStep, VRejectStep,
     VExpirePendingStep, VExpireOutgoingStep, VExpireConnectionStep DEF Voip!Command
<1>2. CASE Voip!Working
  BY <1>2, VReserveCallStep, VServerCallsStep, VCallAnsweredStep, VFinishStep,
     VFinishedStep, VBeginAcceptStep, VRunActionStep, VAcceptPendingStep,
     VStartAcceptedStep, VActionEndsStep, VRejectPendingStep, VDropTicketStep,
     VOutgoingLapsedStep, VConnectionTimedOutStep DEF Voip!Working
<1>3. CASE Voip!Message
  BY <1>3, VVoipIncomingStep, VVoipCancelStep DEF Voip!Message
<1>4. CASE Voip!Handling
  BY <1>4, VGrantedStep, VOfCurrentStep, VLookStep, VRecoverStep, VAnswerOwnStep,
     VStartOwnStep, VRingStep, VRungStep, VCancelStopsStep, VToldStep DEF Voip!Handling
<1>5. CASE Voip!Arbiter
  BY <1>5, VLifecycleWorkerStep, VServiceStopsStep, VServiceDrainedStep,
     VTicketExpiresStep DEF Voip!Arbiter
<1>6. CASE Voip!Sdk
  BY <1>6, VStaleConnectedStep, VConnectedStep, VPeerAcceptsStep, VPeerHangsUpStep,
     VOnDisconnectedStep, VPushEndsStep DEF Voip!Sdk
<1> QED
  BY <1>1, <1>2, <1>3, <1>4, <1>5, <1>6, VWorkerTaskStep, VStutterStep DEF Voip!Next

LEMMA VWatches == VInv => Voip!HeldSessionIsWatched
<1> SUFFICES ASSUME VInv, Voip!AtRest PROVE Voip!HeldSessionIsWatched
  BY DEF Voip!HeldSessionIsWatched
<1>1. ~VEnded /\ voipCmd.at = "idle" /\ mqtt.at = "idle" /\ ~voipEndAsked
  BY DEF Voip!AtRest, VEnded, Voip!CmdAt, Voip!MqttAt
<1>2. voipOwner = "HELD" => Voip!VoipIsActive
  BY <1>1 DEF VInv, VHeldInv, Voip!VoipIsActive, Voip!InSession
<1> QED
  BY <1>1, <1>2 DEF VInv, VDeadlineInv, Voip!HeldSessionIsWatched

LEMMA VStaysDown == VInv => Voip!TimedOutDialStaysDown
<1> SUFFICES ASSUME VInv, Voip!AtRest, active # 0, activeRoom # NoRoom, activeRoom = lapsed
             PROVE  FALSE
  BY DEF Voip!TimedOutDialStaysDown
<1>1. ~VEnded /\ voipCmd.at = "idle" /\ mqtt.at = "idle" /\ ~voipEndAsked /\
      voipTransition = "free"
  BY DEF Voip!AtRest, VEnded, Voip!CmdAt, Voip!MqttAt
<1> QED
  BY <1>1 DEF VInv, VTyped, VLeaseTyped, VServeInv, VLapsedInv, VAnswers, VConnects,
              VClosing

-----------------------------------------------------------------------------
(* Theorems. *)

\* The invariant holds of every run, however many attempts are made and
\* however the stop of the arbiter, ai_poll's and the worker interleave.
THEOREM AiSessionInductive == Spec => []Inv
<1>1. Init => Inv
  BY InitInv
<1>2. Inv /\ [Next]_vars => Inv'
  BY NextInv
<1> QED
  BY <1>1, <1>2, PTL DEF Spec

\* The fields of the session keep their types; one that is idle has no
\* deadline and nothing to send.
THEOREM AiSessionTyped == Spec => []TypeOK
<1>1. Inv => TypeOK
  BY TypeInvTyped DEF Inv
<1> QED
  BY <1>1, AiSessionInductive, PTL

\* Every connection that is open is the session's, or somebody is about to
\* close it: a TiRtcWhipConnect that comes when its attempt was given up is
\* closed by the task of _ai_connect_cb, one the worker has taken by the
\* worker, and the stop closes the session's.
THEOREM NoConnectionLeftAlways == Spec => []NoConnectionLeft
<1>1. Inv => NoConnectionLeft
  BY DEF Inv, ClosedInv, NoConnectionLeft, Tasks
<1> QED
  BY <1>1, AiSessionInductive, PTL

\* When the arbiter has released the device and its stop is over, no step
\* of the command thread, of the worker or of the SDK that had begun before
\* gives the session a connection again.
THEOREM ReleasedIsQuietAlways == Spec => []ReleasedIsQuiet
<1>1. Inv => ReleasedIsQuiet
  BY DEF Inv, QuietInv, ServeInv, TypeInv, FlagsTyped, ReleasedIsQuiet
<1> QED
  BY <1>1, AiSessionInductive, PTL

\* A session that connects while no thread has anything begun has a deadline
\* ai_poll looks at, or its start_session is about to be sent.
THEOREM WaitingIsTimedAlways == Spec => []WaitingIsTimed
<1>1. Inv => WaitingIsTimed
  <2> SUFFICES ASSUME Inv, AtRest, state = "CONNECTING" PROVE timed \/ startPending
    BY DEF WaitingIsTimed
  <2>1. Tasks = {} /\ cmd.at = "idle"
    BY DEF AtRest, Idle, CmdAt, Tasks
  <2> QED
    BY <2>1 DEF Inv, TimedInv, CmdAt
<1> QED
  BY <1>1, AiSessionInductive, PTL

\* Whichever of the two is drawn, each behaves as its own specification says;
\* so what is proved of a session holds of the run.
THEOREM WhipRunsAlone == WhipSpec => Spec /\ VoipSpec
<1>1. WhipInit => Init /\ Voip!Init
  BY DEF WhipInit
<1>2. [WhipNext]_<<kind, vars, voipVars>> => [Next]_vars /\ [Voip!Next]_voipVars
  BY DEF WhipNext
<1> QED
  BY <1>1, <1>2, PTL DEF WhipSpec, Spec, VoipSpec

\* The invariant of the WeChat call holds of every run, in whatever order the
\* command thread, MQTT's, the guard's worker and the SDK take their steps.
THEOREM VoipInductive == VoipSpec => []VInv
<1> QED
  BY VInitInv, VNextInv, PTL DEF VoipSpec

\* However a call fails or ends, nobody is left holding VOIP without one, and
\* whatever it waits for, the ringback or its connection, has a deadline.
THEOREM VoipHeldIsWatchedAlways == WhipSpec => []VoipHeldIsWatched
<1>1. VInv => VoipHeldIsWatched
  BY VWatches DEF VoipHeldIsWatched
<1> QED
  BY <1>1, WhipRunsAlone, VoipInductive, PTL

\* A dial that timed out is not answered later, until another is placed:
\* whatever of its ringback was under way, and however late it comes.
THEOREM VoipTimedOutStaysDownAlways == WhipSpec => []VoipTimedOutStaysDown
<1>1. VInv => VoipTimedOutStaysDown
  BY VStaysDown DEF VoipTimedOutStaysDown
<1> QED
  BY <1>1, WhipRunsAlone, VoipInductive, PTL

=============================================================================
