--------------------------- MODULE RoomClientProofs ----------------------------
(***************************************************************************)
(* Theorems of RoomClient for every number of connections and every length *)
(* of the event queue: no connection is left behind, and a room that was   *)
(* released or preempted is quiet.                                         *)
(***************************************************************************)
EXTENDS RoomClient, SequenceTheorems, TLAPS

-----------------------------------------------------------------------------
(* The inductive invariant. *)

EventType == [kind : Kinds, conn : MaybeConn, fresh : BOOLEAN]
LinkType == [Conns -> {"none", "dialing", "open", "closing"}]
Steps == {"loop", "event", "finish", "finished", "assignment", "current", "begin", "run"}
CtlType == [at : Steps, event : EventType, bad : BOOLEAN, want : BOOLEAN,
            then : {"loop", "current"}]

FlagsTyped ==
    /\ want \in BOOLEAN /\ moved \in BOOLEAN /\ mic \in BOOLEAN
    /\ active \in BOOLEAN /\ joined \in BOOLEAN /\ ptt \in BOOLEAN
OwnerTyped ==
    /\ owner \in {"NONE", "ROOM", "OTHER"}
    /\ transition \in {"free", "stop", "leave", "mic"}
    /\ media \in {"idle", "fresh", "stale"}
ConnTyped == conn \in MaybeConn /\ leaving \in MaybeConn /\ dial \in MaybeConn
SdkTyped == link \in LinkType /\ bound \subseteq Conns /\ stale \subseteq Conns
QueueTyped == queue \in Seq(EventType) /\ Len(queue) <= QueueCap
CtlTyped == ctl \in CtlType

\* What the queue, or the event that was taken from it, announces.
Carries(q, c) == \E i \in DOMAIN q : q[i].kind = "connected" /\ q[i].conn = c
FreshAt(q) == {i \in DOMAIN q : q[i].kind = "connected" /\ q[i].fresh}
HasFresh(q) == FreshAt(q) # {}
OneFresh(q) == \A i, j \in FreshAt(q) : i = j
NamesWhoJoined(q) == \A i \in DOMAIN q : q[i].kind = "joined" => q[i].conn # NoConn
IsFresh(e) == e.kind = "connected" /\ e.fresh

\* The room's state follows the arbiter's owner, in the order of stop_service.
OwnerInv ==
    /\ owner = "ROOM" => transition = "free" /\ active
    /\ active => owner = "ROOM" \/ transition = "stop"
    /\ leaving # NoConn => transition = "leave"
    /\ bound # {} => active \/ transition = "leave"
    /\ mic \/ media # "idle" => active \/ transition \in {"leave", "mic"}
    /\ ~active => ~joined /\ ~ptt /\ conn = NoConn /\ media # "fresh"

\* Of the current generation there is one connection: it is dialled, announced
\* or the room's.
DialInv ==
    /\ OneFresh(queue) /\ (IsFresh(ctl.event) => ~HasFresh(queue))
    /\ HasFresh(queue) \/ IsFresh(ctl.event) => conn = NoConn /\ dial = NoConn
    /\ dial # NoConn => conn = NoConn
    /\ ~active \/ ctl.at = "run" =>
          /\ conn = NoConn /\ dial = NoConn
          /\ ~HasFresh(queue) /\ ~IsFresh(ctl.event)
CtlInv ==
    /\ ctl.at # "event" => ctl.event = NoEvent
    /\ NamesWhoJoined(queue)
    /\ ctl.event.kind = "joined" => ctl.event.conn # NoConn

LinkInv ==
    \A c \in Conns : link[c] = "open" =>
        \/ c \in {conn, leaving} \/ c \in stale \/ Carries(queue, c)
        \/ ctl.event.kind = "connected" /\ ctl.event.conn = c

Inv == /\ FlagsTyped /\ OwnerTyped /\ ConnTyped /\ SdkTyped /\ QueueTyped /\ CtlTyped
       /\ OwnerInv /\ DialInv /\ CtlInv /\ LinkInv

-----------------------------------------------------------------------------
(* Events and the queue. *)

LEMMA NoEventIs ==
    /\ NoEvent \in EventType /\ ~IsFresh(NoEvent)
    /\ NoEvent.kind = "suspended" /\ NoEvent.conn = NoConn
BY DEF NoEvent, Event, EventType, Kinds, MaybeConn, IsFresh

LEMMA EventIs ==
    ASSUME NEW kind \in Kinds, NEW c \in MaybeConn, NEW fresh \in BOOLEAN
    PROVE  /\ Event(kind, c, fresh) \in EventType
           /\ Event(kind, c, fresh).kind = kind /\ Event(kind, c, fresh).conn = c
           /\ (IsFresh(Event(kind, c, fresh)) => kind = "connected" /\ fresh)
BY DEF Event, EventType, IsFresh

LEMMA Appended ==
    ASSUME NEW q \in Seq(EventType), NEW e \in EventType
    PROVE  /\ Append(q, e) \in Seq(EventType) /\ Len(Append(q, e)) = Len(q) + 1
           /\ \A c : Carries(q, c) => Carries(Append(q, e), c)
           /\ e.kind = "connected" => Carries(Append(q, e), e.conn)
           /\ HasFresh(Append(q, e)) => HasFresh(q) \/ IsFresh(e)
           /\ OneFresh(q) /\ ~(HasFresh(q) /\ IsFresh(e)) => OneFresh(Append(q, e))
           /\ NamesWhoJoined(q) /\ (e.kind = "joined" => e.conn # NoConn)
                => NamesWhoJoined(Append(q, e))
<1> DEFINE r == Append(q, e)
<1>1. r \in Seq(EventType) /\ Len(r) = Len(q) + 1 /\ Len(q) \in Nat
      /\ DOMAIN q = 1..Len(q) /\ DOMAIN r = 1..(Len(q) + 1)
      /\ (\A i \in 1..Len(q) : r[i] = q[i]) /\ r[Len(q) + 1] = e
  BY AppendProperties, LenProperties
<1> HIDE DEF r
<1>2. /\ \A c : Carries(q, c) => Carries(r, c)
      /\ e.kind = "connected" => Carries(r, e.conn)
  BY <1>1 DEF Carries
<1>3. \A i \in FreshAt(r) : i \in FreshAt(q) \/ (i = Len(q) + 1 /\ IsFresh(e))
  BY <1>1 DEF FreshAt, IsFresh
<1>4. HasFresh(r) => HasFresh(q) \/ IsFresh(e)
  BY <1>3 DEF HasFresh
<1>5. OneFresh(q) /\ ~(HasFresh(q) /\ IsFresh(e)) => OneFresh(r)
  BY <1>3 DEF OneFresh, HasFresh
<1>6. NamesWhoJoined(q) /\ (e.kind = "joined" => e.conn # NoConn) => NamesWhoJoined(r)
  BY <1>1 DEF NamesWhoJoined
<1> QED
  BY <1>1, <1>2, <1>4, <1>5, <1>6 DEF r

LEMMA Removed ==
    ASSUME NEW q \in Seq(EventType), q # <<>>
    PROVE  /\ Head(q) \in EventType
           /\ Tail(q) \in Seq(EventType) /\ Len(Tail(q)) = Len(q) - 1
           /\ \A c : Carries(q, c) =>
                 Carries(Tail(q), c) \/ (Head(q).kind = "connected" /\ Head(q).conn = c)
           /\ HasFresh(Tail(q)) \/ IsFresh(Head(q)) => HasFresh(q)
           /\ OneFresh(q) => OneFresh(Tail(q)) /\ ~(IsFresh(Head(q)) /\ HasFresh(Tail(q)))
           /\ NamesWhoJoined(q) =>
                 /\ NamesWhoJoined(Tail(q))
                 /\ Head(q).kind = "joined" => Head(q).conn # NoConn
<1> DEFINE e == Head(q)
           r == Tail(q)
<1>1. Len(q) \in Nat /\ Len(q) > 0 /\ DOMAIN q = 1..Len(q)
  BY EmptySeq, LenProperties
<1>2. e = q[1] /\ e \in EventType /\ r \in Seq(EventType) /\ Len(r) = Len(q) - 1
      /\ (\A i \in 1..Len(r) : r[i] = q[i + 1]) /\ DOMAIN r = 1..Len(r)
  BY <1>1, HeadTailProperties, LenProperties
<1> HIDE DEF e, r
<1>3. \A i \in 1..Len(q) : i = 1 \/ (i - 1 \in 1..Len(r) /\ r[i - 1] = q[i])
  BY <1>1, <1>2
<1>4. \A c : Carries(q, c) => Carries(r, c) \/ (e.kind = "connected" /\ e.conn = c)
  BY <1>1, <1>2, <1>3 DEF Carries
<1>5. \A i \in FreshAt(r) : i + 1 \in FreshAt(q) /\ i \in 1..Len(r)
  BY <1>1, <1>2 DEF FreshAt
<1>6. IsFresh(e) => 1 \in FreshAt(q)
  BY <1>1, <1>2 DEF FreshAt, IsFresh
<1>7. HasFresh(r) \/ IsFresh(e) => HasFresh(q)
  BY <1>5, <1>6 DEF HasFresh
<1>8. OneFresh(q) => OneFresh(r) /\ ~(IsFresh(e) /\ HasFresh(r))
  <2> SUFFICES ASSUME OneFresh(q) PROVE OneFresh(r) /\ ~(IsFresh(e) /\ HasFresh(r))
    OBVIOUS
  <2>1. ASSUME NEW i \in FreshAt(r), NEW j \in FreshAt(r) PROVE i = j
    <3>1. i + 1 \in FreshAt(q) /\ j + 1 \in FreshAt(q) /\ i \in Nat /\ j \in Nat
      BY <1>2, <1>5
    <3>2. i + 1 = j + 1
      BY <3>1 DEF OneFresh
    <3> QED
      BY <3>1, <3>2
  <2>2. ASSUME IsFresh(e), NEW i \in FreshAt(r) PROVE FALSE
    <3>1. i + 1 \in FreshAt(q) /\ 1 \in FreshAt(q) /\ i \in 1..Len(r)
      BY <1>5, <1>6, <2>2
    <3>2. i + 1 = 1
      BY <3>1 DEF OneFresh
    <3> QED
      BY <1>1, <1>2, <3>1, <3>2
  <2> QED
    BY <2>1, <2>2 DEF OneFresh, HasFresh
<1>9. NamesWhoJoined(q) => NamesWhoJoined(r) /\ (e.kind = "joined" => e.conn # NoConn)
  BY <1>1, <1>2 DEF NamesWhoJoined
<1> QED
  BY <1>2, <1>4, <1>7, <1>8, <1>9 DEF e, r

LEMMA Aged ==
    ASSUME NEW q \in Seq(EventType)
    PROVE  /\ StaleEvents(q) \in Seq(EventType) /\ Len(StaleEvents(q)) = Len(q)
           /\ \A c : Carries(q, c) => Carries(StaleEvents(q), c)
           /\ ~HasFresh(StaleEvents(q)) /\ OneFresh(StaleEvents(q))
           /\ NamesWhoJoined(q) => NamesWhoJoined(StaleEvents(q))
<1> DEFINE r == StaleEvents(q)
<1>1. Len(q) \in Nat /\ DOMAIN q = 1..Len(q) /\ \A i \in 1..Len(q) : q[i] \in EventType
  BY LenProperties, ElementOfSeq
<1>2. \A i \in 1..Len(q) : /\ [q[i] EXCEPT !.fresh = FALSE] \in EventType
                           /\ [q[i] EXCEPT !.fresh = FALSE].kind = q[i].kind
                           /\ [q[i] EXCEPT !.fresh = FALSE].conn = q[i].conn
                           /\ ~[q[i] EXCEPT !.fresh = FALSE].fresh
  BY <1>1 DEF EventType
<1>3. DOMAIN r = 1..Len(q) /\ r = [i \in 1..Len(q) |-> [q[i] EXCEPT !.fresh = FALSE]]
  BY <1>1 DEF StaleEvents
<1>4. \A i \in 1..Len(q) : /\ r[i] \in EventType /\ r[i].kind = q[i].kind
                           /\ r[i].conn = q[i].conn /\ ~r[i].fresh
  BY <1>2, <1>3
<1>5. r \in [1..Len(q) -> EventType]
  BY <1>2, <1>3
<1>6. r \in Seq(EventType) /\ Len(r) = Len(q)
  BY <1>1, <1>5, SeqDef, LenProperties
<1> HIDE DEF r
<1>7. \A c : Carries(q, c) => Carries(r, c)
  BY <1>1, <1>3, <1>4 DEF Carries
<1>8. FreshAt(r) = {}
  BY <1>3, <1>4 DEF FreshAt
<1>9. ~HasFresh(r) /\ OneFresh(r)
  BY <1>8 DEF HasFresh, OneFresh
<1>10. NamesWhoJoined(q) => NamesWhoJoined(r)
  BY <1>1, <1>3, <1>4 DEF NamesWhoJoined
<1> QED
  BY <1>6, <1>7, <1>9, <1>10 DEF r

\* enqueue, as the steps below use it.
LEMMA Enqueued ==
    ASSUME QueueTyped, NEW e \in EventType, Enqueue(e)
    PROVE  /\ QueueTyped'
           /\ \A c : Carries(queue, c) => Carries(queue', c)
           /\ e.kind = "connected" => Full \/ Carries(queue', e.conn)
           /\ HasFresh(queue') => HasFresh(queue) \/ IsFresh(e)
           /\ OneFresh(queue) /\ ~(HasFresh(queue) /\ IsFresh(e)) => OneFresh(queue')
           /\ NamesWhoJoined(queue) /\ (e.kind = "joined" => e.conn # NoConn)
                => NamesWhoJoined(queue')
<1>1. CASE Full
  <2>1. queue' = queue
    BY <1>1 DEF Enqueue
  <2> QED
    BY <1>1, <2>1 DEF QueueTyped
<1>2. CASE ~Full
  <2>1. queue' = Append(queue, e)
    BY <1>2 DEF Enqueue
  <2>2. Len(queue) \in Nat /\ Len(queue) # QueueCap /\ QueueCap \in Nat
    BY <1>2, LenProperties, QueueCapAssumption DEF QueueTyped, Full
  <2>3. queue \in Seq(EventType) /\ Len(queue) + 1 <= QueueCap
    BY <2>2 DEF QueueTyped
  <2> QED
    BY <2>1, <2>3, Appended DEF QueueTyped
<1> QED
  BY <1>1, <1>2

LEMMA QueueAged ==
    ASSUME QueueTyped, queue' = StaleEvents(queue)
    PROVE  /\ QueueTyped' /\ ~HasFresh(queue') /\ OneFresh(queue')
           /\ \A c : Carries(queue, c) => Carries(queue', c)
           /\ NamesWhoJoined(queue) => NamesWhoJoined(queue')
BY Aged DEF QueueTyped

-----------------------------------------------------------------------------
(* The worker's control, and the SDK. *)

LEMMA RestIs ==
    /\ Rest \in CtlType /\ Rest.event = NoEvent /\ Rest.at = "loop"
    /\ \A at \in Steps : /\ [Rest EXCEPT !.at = at] \in CtlType
                         /\ [Rest EXCEPT !.at = at].event = NoEvent
                         /\ [Rest EXCEPT !.at = at].at = at
BY NoEventIs DEF Rest, CtlType, Steps

LEMMA WithEvent ==
    ASSUME NEW e \in EventType
    PROVE  \A b \in BOOLEAN :
              /\ [Rest EXCEPT !.at = "event", !.event = e, !.bad = b] \in CtlType
              /\ [Rest EXCEPT !.at = "event", !.event = e, !.bad = b].at = "event"
              /\ [Rest EXCEPT !.at = "event", !.event = e, !.bad = b].event = e
BY DEF Rest, CtlType, Steps

LEMMA Continued ==
    ASSUME NEW bad, NEW sync, Continue(bad, sync)
    PROVE  /\ ctl' \in CtlType /\ ctl'.event = NoEvent
           /\ ctl'.at \in {"finish", "assignment", "loop"}
<1> DEFINE at == IF bad THEN "finish" ELSE IF sync THEN "assignment" ELSE "loop"
<1>1. ctl' = [Rest EXCEPT !.at = at]
  BY DEF Continue
<1>2. at \in Steps /\ at \in {"finish", "assignment", "loop"}
  BY DEF Steps
<1> HIDE DEF at
<1> QED
  BY <1>1, <1>2, RestIs

LEMMA Gone ==
    ASSUME ctl \in CtlType, NEW at \in Steps, Goto(at)
    PROVE  /\ ctl' \in CtlType /\ ctl'.at = at
           /\ (ctl.event = NoEvent => ctl'.event = NoEvent)
<1>1. CASE at = "loop"
  BY <1>1, RestIs DEF Goto
<1>2. CASE at # "loop"
  <2>1. ctl' = [ctl EXCEPT !.at = at]
    BY <1>2 DEF Goto
  <2> QED
    BY <2>1 DEF CtlType
<1> QED
  BY <1>1, <1>2

LEMMA Closed ==
    ASSUME link \in LinkType, NEW c, Disconnect(c)
    PROVE  /\ link' \in LinkType
           /\ \A x \in Conns : link'[x] = "open" => link[x] = "open" /\ x # c
BY DEF Disconnect, LinkType

-----------------------------------------------------------------------------
(* The steps. *)

LEMMA LoopStep ==
    ASSUME Inv, NEW bad \in BOOLEAN, NEW sync \in BOOLEAN, Loop(bad, sync)
    PROVE  Inv'
<1>1. UNCHANGED <<owner, transition, want, moved, active, joined, ptt, conn, leaving,
      link, dial, bound, stale, mic, media>>
  BY DEF Loop, At, arbiterVars, serverVars, roomVars, sdkVars, mediaVars
<1>2. ctl \in CtlType /\ ctl.event = NoEvent
  BY DEF Inv, CtlTyped, CtlInv, At, Loop
<1>3. /\ ctl' \in CtlType /\ QueueTyped'
      /\ \/ /\ UNCHANGED queue /\ ctl'.event = NoEvent
            /\ ctl'.at \in {"finish", "assignment", "loop"}
         \/ /\ ctl'.at = "event" /\ ctl'.event = Head(queue)
            /\ queue' = Tail(queue) /\ queue # <<>>
  <2>1. CASE queue = <<>>
    BY <2>1, Continued DEF Inv, QueueTyped, Loop
  <2>2. CASE queue # <<>>
    <3>1. Head(queue) \in EventType /\ Tail(queue) \in Seq(EventType)
          /\ Len(Tail(queue)) = Len(queue) - 1
      BY <2>2, Removed DEF Inv, QueueTyped
    <3>2. ctl' = [Rest EXCEPT !.at = "event", !.event = Head(queue), !.bad = bad]
          /\ queue' = Tail(queue)
      BY <2>2 DEF Loop
    <3>3. ctl' \in CtlType /\ ctl'.at = "event" /\ ctl'.event = Head(queue)
      BY <3>1, <3>2, WithEvent, Zenon
    <3>4. QueueTyped'
      BY <3>1, <3>2, LenProperties, QueueCapAssumption DEF Inv, QueueTyped
    <3> QED
      BY <2>2, <3>2, <3>3, <3>4
  <2> QED
    BY <2>1, <2>2
<1>4. queue # <<>> =>
         /\ \A c : Carries(queue, c) => \/ Carries(Tail(queue), c)
                                        \/ Head(queue).kind = "connected" /\ Head(queue).conn = c
         /\ HasFresh(Tail(queue)) \/ IsFresh(Head(queue)) => HasFresh(queue)
         /\ OneFresh(Tail(queue)) /\ ~(IsFresh(Head(queue)) /\ HasFresh(Tail(queue)))
         /\ NamesWhoJoined(Tail(queue))
         /\ Head(queue).kind = "joined" => Head(queue).conn # NoConn
  BY Removed DEF Inv, QueueTyped, DialInv, CtlInv
<1>5. QueueTyped'
  BY <1>3
<1>6. CtlTyped'
  BY <1>3 DEF CtlTyped
<1>7. DialInv'
  BY <1>1, <1>3, <1>4, NoEventIs DEF Inv, DialInv
<1>8. CtlInv'
  BY <1>3, <1>4, NoEventIs DEF Inv, CtlInv
<1>9. LinkInv'
  BY <1>1, <1>2, <1>3, <1>4, NoEventIs DEF Inv, LinkInv
<1>10. /\ FlagsTyped' /\ OwnerTyped' /\ ConnTyped' /\ SdkTyped' /\ OwnerInv'
  BY <1>1 DEF Inv, FlagsTyped, OwnerTyped, ConnTyped, SdkTyped, OwnerInv
<1> QED
  BY <1>5, <1>6, <1>7, <1>8, <1>9, <1>10 DEF Inv

LEMMA ProcessStaleStep ==
    ASSUME Inv, ProcessStale
    PROVE  Inv'
<1>1. UNCHANGED <<owner, transition, want, moved, active, joined, ptt, conn, leaving,
      dial, bound, stale, queue, mic, media>>
  BY DEF ProcessStale, At, Current, Process, processFrame, serverVars, roomVars,
         arbiterVars, mediaVars
<1>2. ctl' \in CtlType /\ ctl'.event = NoEvent /\ ctl'.at \in {"finish", "assignment", "loop"}
  BY Continued DEF ProcessStale, Process
<1>3. link' \in LinkType /\ \A x \in Conns : link'[x] = "open" =>
         link[x] = "open" /\ ~(ctl.event.kind = "connected" /\ ctl.event.conn = x)
  BY Closed DEF Inv, SdkTyped, ProcessStale
<1>4. SdkTyped'
  BY <1>1, <1>3 DEF Inv, SdkTyped
<1>5. CtlTyped'
  BY <1>2 DEF CtlTyped
<1>6. DialInv'
  BY <1>1, <1>2, NoEventIs DEF Inv, DialInv
<1>7. CtlInv'
  BY <1>1, <1>2, NoEventIs DEF Inv, CtlInv
<1>8. LinkInv'
  BY <1>1, <1>3 DEF Inv, LinkInv
<1>9. /\ FlagsTyped' /\ OwnerTyped' /\ ConnTyped' /\ QueueTyped' /\ OwnerInv'
  BY <1>1 DEF Inv, FlagsTyped, OwnerTyped, ConnTyped, QueueTyped, OwnerInv
<1> QED
  BY <1>4, <1>5, <1>6, <1>7, <1>8, <1>9 DEF Inv

LEMMA ProcessConnectedStep ==
    ASSUME Inv, ProcessConnected
    PROVE  Inv'
<1>1. UNCHANGED <<owner, transition, want, moved, active, joined, ptt, leaving, dial,
      stale, queue, mic, media>>
  BY DEF ProcessConnected, At, Current, Process, processFrame, serverVars, arbiterVars,
         mediaVars
<1>2. ctl' \in CtlType /\ ctl'.event = NoEvent /\ ctl'.at \in {"finish", "assignment", "loop"}
  BY Continued DEF ProcessConnected, Process
<1>3. /\ ctl.event \in EventType /\ IsFresh(ctl.event) /\ conn = NoConn /\ dial = NoConn
      /\ ctl.at = "event"
  <2>1. ctl.event \in EventType /\ IsFresh(ctl.event) /\ ctl.at = "event"
    BY DEF Inv, CtlTyped, CtlType, ProcessConnected, Current, At, IsFresh
  <2> QED
    BY <2>1 DEF Inv, DialInv
<1>4. \/ /\ active /\ ctl.event.conn \in Conns /\ conn' = ctl.event.conn
         /\ bound' = bound \cup {ctl.event.conn} /\ UNCHANGED link
      \/ /\ link' \in LinkType /\ UNCHANGED <<conn, bound>>
         /\ \A x \in Conns : link'[x] = "open" => link[x] = "open" /\ x # ctl.event.conn
  BY <1>3, Closed DEF Inv, SdkTyped, EventType, MaybeConn, ProcessConnected
<1>5. ConnTyped'
  BY <1>1, <1>4 DEF Inv, ConnTyped, MaybeConn
<1>6. SdkTyped'
  BY <1>1, <1>4 DEF Inv, SdkTyped
<1>7. CtlTyped'
  BY <1>2 DEF CtlTyped
<1>8. OwnerInv'
  BY <1>1, <1>3, <1>4 DEF Inv, OwnerInv
<1>9. DialInv'
  BY <1>1, <1>2, <1>3, <1>4, NoEventIs DEF Inv, DialInv
<1>10. CtlInv'
  BY <1>1, <1>2, NoEventIs DEF Inv, CtlInv
<1>11. LinkInv'
  BY <1>1, <1>2, <1>3, <1>4, NoEventIs, ConnsAssumption DEF Inv, LinkInv
<1>12. /\ FlagsTyped' /\ OwnerTyped' /\ QueueTyped'
  BY <1>1 DEF Inv, FlagsTyped, OwnerTyped, QueueTyped
<1> QED
  BY <1>5, <1>6, <1>7, <1>8, <1>9, <1>10, <1>11, <1>12 DEF Inv

LEMMA ProcessSignalStep ==
    ASSUME Inv, ProcessSignal
    PROVE  Inv'
<1>1. UNCHANGED <<owner, transition, want, moved, active, conn, leaving, link, dial,
      bound, stale, queue, mic, media>>
  BY DEF ProcessSignal, At, Current, Process, processFrame, serverVars, arbiterVars,
         mediaVars
<1>2. ctl' \in CtlType /\ ctl'.event = NoEvent /\ ctl'.at \in {"finish", "assignment", "loop"}
  BY Continued DEF ProcessSignal, Process
<1>3. /\ ctl.event.kind # "connected" /\ (ctl.event.kind = "joined" => conn # NoConn)
  BY DEF Inv, CtlInv, ProcessSignal, Current
<1>4. FlagsTyped'
  BY <1>1, <1>2, <1>3 DEF Inv, FlagsTyped, ProcessSignal, At, Current, Process
<1>5. CtlTyped'
  BY <1>2 DEF CtlTyped
<1>6. OwnerInv'
  BY <1>1, <1>3 DEF Inv, OwnerInv, FlagsTyped, ProcessSignal
<1>7. DialInv'
  BY <1>1, <1>2, NoEventIs DEF Inv, DialInv
<1>8. CtlInv'
  BY <1>1, <1>2, NoEventIs DEF Inv, CtlInv
<1>9. LinkInv'
  BY <1>1, <1>3 DEF Inv, LinkInv
<1>10. /\ OwnerTyped' /\ ConnTyped' /\ SdkTyped' /\ QueueTyped'
  BY <1>1 DEF Inv, OwnerTyped, ConnTyped, SdkTyped, QueueTyped
<1> QED
  BY <1>4, <1>5, <1>6, <1>7, <1>8, <1>9, <1>10 DEF Inv

LEMMA ProcessRequestStep ==
    ASSUME Inv, ProcessRequest
    PROVE  Inv'
<1>1. UNCHANGED <<owner, transition, active, joined, ptt, conn, leaving, link, dial,
      bound, stale, queue, mic, media>>
  BY DEF ProcessRequest, At, serverVars, Process, processFrame, roomVars, arbiterVars,
         mediaVars
<1>2. ctl' \in CtlType /\ ctl'.event = NoEvent /\ ctl'.at \in {"finish", "assignment", "loop"}
  BY Continued DEF ProcessRequest, Process
<1>3. FlagsTyped'
  BY <1>1, <1>2 DEF Inv, FlagsTyped, ProcessRequest, At, serverVars, Process
<1>4. CtlTyped'
  BY <1>2 DEF CtlTyped
<1>5. DialInv'
  BY <1>1, <1>2, NoEventIs DEF Inv, DialInv
<1>6. CtlInv'
  BY <1>1, <1>2, NoEventIs DEF Inv, CtlInv
<1>7. LinkInv'
  BY <1>1 DEF Inv, LinkInv, ProcessRequest
<1>8. /\ OwnerTyped' /\ ConnTyped' /\ SdkTyped' /\ QueueTyped' /\ OwnerInv'
  BY <1>1 DEF Inv, OwnerTyped, ConnTyped, SdkTyped, QueueTyped, OwnerInv
<1> QED
  BY <1>3, <1>4, <1>5, <1>6, <1>7, <1>8 DEF Inv

LEMMA GetAssignmentStep ==
    ASSUME Inv, GetAssignment
    PROVE  Inv'
<1>1. UNCHANGED <<owner, transition, want, active, joined, ptt, conn, leaving, link,
      dial, bound, stale, queue, mic, media>>
  BY DEF GetAssignment, At, requestFrame, arbiterVars, roomVars, sdkVars, mediaVars
<1>2. ctl \in CtlType /\ ctl.event = NoEvent
  BY DEF Inv, CtlTyped, CtlInv, At, GetAssignment
<1>3. ctl' \in CtlType /\ ctl'.event = NoEvent /\ ctl'.at \in {"finish", "current"}
  BY NoEventIs DEF Inv, FlagsTyped, CtlType, Rest, Steps, GetAssignment
<1>4. FlagsTyped'
  BY <1>1, <1>2, <1>3 DEF Inv, FlagsTyped, GetAssignment, At
<1>5. CtlTyped'
  BY <1>3 DEF CtlTyped
<1>6. DialInv'
  BY <1>1, <1>2, <1>3, NoEventIs DEF Inv, DialInv
<1>7. CtlInv'
  BY <1>1, <1>3, NoEventIs DEF Inv, CtlInv
<1>8. LinkInv'
  BY <1>1, <1>2, <1>3, NoEventIs DEF Inv, LinkInv
<1>9. /\ OwnerTyped' /\ ConnTyped' /\ SdkTyped' /\ QueueTyped' /\ OwnerInv'
  BY <1>1 DEF Inv, OwnerTyped, ConnTyped, SdkTyped, QueueTyped, OwnerInv
<1> QED
  BY <1>4, <1>5, <1>6, <1>7, <1>8, <1>9 DEF Inv

LEMMA ConnectTokenStep ==
    ASSUME Inv, ConnectToken
    PROVE  Inv'
<1>1. UNCHANGED <<owner, transition, want, moved, active, joined, ptt, conn, leaving,
      link, dial, bound, stale, queue, mic, media>>
  BY DEF ConnectToken, At, requestFrame, serverVars, arbiterVars, roomVars, sdkVars,
         mediaVars
<1>2. ctl \in CtlType /\ ctl.event = NoEvent
  BY DEF Inv, CtlTyped, CtlInv, At, ConnectToken
<1>3. ctl' \in CtlType /\ ctl'.event = NoEvent /\ ctl'.at \in {"begin", "loop"}
  BY <1>2, Gone DEF Steps, ConnectToken
<1>4. CtlTyped'
  BY <1>3 DEF CtlTyped
<1>5. DialInv'
  BY <1>1, <1>2, <1>3, NoEventIs DEF Inv, DialInv
<1>6. CtlInv'
  BY <1>1, <1>3, NoEventIs DEF Inv, CtlInv
<1>7. LinkInv'
  BY <1>1, <1>2, <1>3, NoEventIs DEF Inv, LinkInv
<1>8. /\ FlagsTyped' /\ OwnerTyped' /\ ConnTyped' /\ SdkTyped' /\ QueueTyped'
      /\ OwnerInv'
  BY <1>1 DEF Inv, FlagsTyped, OwnerTyped, ConnTyped, SdkTyped, QueueTyped, OwnerInv
<1> QED
  BY <1>4, <1>5, <1>6, <1>7, <1>8 DEF Inv

LEMMA RequestFailsStep ==
    ASSUME Inv, RequestFails
    PROVE  Inv'
<1>1. UNCHANGED <<owner, transition, want, moved, active, joined, ptt, conn, leaving,
      link, dial, bound, stale, queue, mic, media>>
  BY DEF RequestFails, At, requestFrame, serverVars, arbiterVars, roomVars, sdkVars,
         mediaVars
<1>2. ctl \in CtlType /\ ctl.event = NoEvent
  BY DEF Inv, CtlTyped, CtlInv, At, RequestFails
<1>3. ctl' \in CtlType /\ ctl'.event = NoEvent /\ ctl'.at \in {"finish"}
  BY RestIs DEF Steps, RequestFails
<1>4. CtlTyped'
  BY <1>3 DEF CtlTyped
<1>5. DialInv'
  BY <1>1, <1>2, <1>3, NoEventIs DEF Inv, DialInv
<1>6. CtlInv'
  BY <1>1, <1>3, NoEventIs DEF Inv, CtlInv
<1>7. LinkInv'
  BY <1>1, <1>2, <1>3, NoEventIs DEF Inv, LinkInv
<1>8. /\ FlagsTyped' /\ OwnerTyped' /\ ConnTyped' /\ SdkTyped' /\ QueueTyped'
      /\ OwnerInv'
  BY <1>1 DEF Inv, FlagsTyped, OwnerTyped, ConnTyped, SdkTyped, QueueTyped, OwnerInv
<1> QED
  BY <1>4, <1>5, <1>6, <1>7, <1>8 DEF Inv

LEMMA BeginStep ==
    ASSUME Inv, Begin
    PROVE  Inv'
<1>1. UNCHANGED <<transition, want, moved, joined, ptt, conn, leaving, link, dial,
      bound, stale, queue, mic, media>>
  BY DEF Begin, At, serverVars, sdkVars, mediaVars
<1>2. ctl \in CtlType /\ ctl.event = NoEvent
  BY DEF Inv, CtlTyped, CtlInv, At, Begin
<1>3. ctl' \in CtlType /\ ctl'.event = NoEvent /\ ctl'.at \in {"run"}
  BY <1>2, Gone DEF Steps, Begin
<1>4. FlagsTyped'
  BY <1>1, <1>2, <1>3 DEF Inv, FlagsTyped, Begin, At
<1>5. OwnerTyped'
  BY <1>1, <1>2, <1>3 DEF Inv, OwnerTyped, Begin, At
<1>6. CtlTyped'
  BY <1>3 DEF CtlTyped
<1>7. OwnerInv'
  BY <1>1, <1>2, <1>3 DEF Inv, OwnerInv, OwnerTyped, Begin, At
<1>8. DialInv'
  <2>1. ~active
    BY DEF Inv, OwnerInv, Begin
  <2> QED
    BY <1>1, <1>2, <1>3, <2>1, NoEventIs DEF Inv, DialInv
<1>9. CtlInv'
  BY <1>1, <1>3, NoEventIs DEF Inv, CtlInv
<1>10. LinkInv'
  BY <1>1, <1>2, <1>3, NoEventIs DEF Inv, LinkInv
<1>11. /\ ConnTyped' /\ SdkTyped' /\ QueueTyped'
  BY <1>1 DEF Inv, ConnTyped, SdkTyped, QueueTyped
<1> QED
  BY <1>4, <1>5, <1>6, <1>7, <1>8, <1>9, <1>10, <1>11 DEF Inv

LEMMA BeginFailsStep ==
    ASSUME Inv, BeginFails
    PROVE  Inv'
<1>1. UNCHANGED <<owner, transition, want, moved, active, joined, ptt, conn, leaving,
      link, dial, bound, stale, queue, mic, media>>
  BY DEF BeginFails, At, requestFrame, serverVars, arbiterVars, roomVars, sdkVars,
         mediaVars
<1>2. ctl \in CtlType /\ ctl.event = NoEvent
  BY DEF Inv, CtlTyped, CtlInv, At, BeginFails
<1>3. ctl' \in CtlType /\ ctl'.event = NoEvent /\ ctl'.at \in {"finish"}
  BY RestIs DEF Steps, BeginFails
<1>4. CtlTyped'
  BY <1>3 DEF CtlTyped
<1>5. DialInv'
  BY <1>1, <1>2, <1>3, NoEventIs DEF Inv, DialInv
<1>6. CtlInv'
  BY <1>1, <1>3, NoEventIs DEF Inv, CtlInv
<1>7. LinkInv'
  BY <1>1, <1>2, <1>3, NoEventIs DEF Inv, LinkInv
<1>8. /\ FlagsTyped' /\ OwnerTyped' /\ ConnTyped' /\ SdkTyped' /\ QueueTyped'
      /\ OwnerInv'
  BY <1>1 DEF Inv, FlagsTyped, OwnerTyped, ConnTyped, SdkTyped, QueueTyped, OwnerInv
<1> QED
  BY <1>4, <1>5, <1>6, <1>7, <1>8 DEF Inv

LEMMA RunActionStep ==
    ASSUME Inv, RunAction
    PROVE  Inv'
<1>1. UNCHANGED <<owner, transition, want, moved, active, joined, ptt, conn, leaving,
      bound, stale, mic>>
  BY DEF RunAction, At, StaleMedia, arbiterVars, serverVars, roomVars
<1>2. ctl \in CtlType /\ ctl.event = NoEvent
  BY DEF Inv, CtlTyped, CtlInv, At, RunAction
<1>3. ctl' \in CtlType /\ ctl'.event = NoEvent /\ ctl'.at \in {"loop"}
  BY <1>2, Gone DEF Steps, RunAction
<1>4. /\ QueueTyped' /\ ~HasFresh(queue') /\ OneFresh(queue')
      /\ \A c : Carries(queue, c) => Carries(queue', c)
      /\ NamesWhoJoined(queue')
  BY QueueAged DEF Inv, CtlInv, RunAction
<1>5. /\ conn = NoConn /\ ctl.at = "run" /\ dial' \in Conns
      /\ link' \in LinkType /\ \A x \in Conns : link'[x] = "open" => link[x] = "open"
  BY DEF Inv, DialInv, SdkTyped, LinkType, RunAction, At
<1>6. OwnerTyped'
  BY <1>1, <1>2, <1>3, <1>4, <1>5 DEF Inv, OwnerTyped, RunAction, At, StaleMedia
<1>7. ConnTyped'
  BY <1>1, <1>5 DEF Inv, ConnTyped, MaybeConn
<1>8. SdkTyped'
  BY <1>1, <1>5 DEF Inv, SdkTyped
<1>9. QueueTyped'
  BY <1>4
<1>10. CtlTyped'
  BY <1>3 DEF CtlTyped
<1>11. OwnerInv'
  BY <1>1, <1>2, <1>3, <1>4, <1>5 DEF Inv, OwnerInv, OwnerTyped, RunAction, At,
         StaleMedia
<1>12. DialInv'
  BY <1>1, <1>3, <1>4, <1>5, NoEventIs DEF Inv, DialInv, OwnerInv, RunAction
<1>13. CtlInv'
  BY <1>3, <1>4, NoEventIs DEF CtlInv
<1>14. LinkInv'
  BY <1>1, <1>2, <1>3, <1>4, <1>5, NoEventIs DEF Inv, LinkInv
<1>15. /\ FlagsTyped'
  BY <1>1 DEF Inv, FlagsTyped
<1> QED
  BY <1>6, <1>7, <1>8, <1>9, <1>10, <1>11, <1>12, <1>13, <1>14, <1>15 DEF Inv

LEMMA RunActionFailsStep ==
    ASSUME Inv, RunActionFails
    PROVE  Inv'
<1>1. UNCHANGED <<owner, transition, want, moved, active, joined, ptt, conn, leaving,
      link, bound, stale, mic>>
  BY DEF RunActionFails, At, StaleMedia, arbiterVars, serverVars, roomVars
<1>2. ctl \in CtlType /\ ctl.event = NoEvent
  BY DEF Inv, CtlTyped, CtlInv, At, RunActionFails
<1>3. ctl' \in CtlType /\ ctl'.event = NoEvent /\ ctl'.at \in {"finish"}
  BY RestIs DEF Steps, RunActionFails
<1>4. /\ QueueTyped' /\ NamesWhoJoined(queue') /\ OneFresh(queue')
      /\ (HasFresh(queue') => HasFresh(queue)) /\ dial' \in {dial, NoConn}
      /\ \A c : Carries(queue, c) => Carries(queue', c)
  <2>1. CASE queue' = StaleEvents(queue)
    BY <2>1, QueueAged DEF Inv, CtlInv, RunActionFails
  <2>2. CASE queue' = queue
    BY <2>2 DEF Inv, CtlInv, DialInv, QueueTyped, RunActionFails
  <2> QED
    BY <2>1, <2>2 DEF RunActionFails
<1>5. OwnerTyped'
  BY <1>1, <1>2, <1>3, <1>4 DEF Inv, OwnerTyped, RunActionFails, At, StaleMedia
<1>6. ConnTyped'
  BY <1>1, <1>4 DEF Inv, ConnTyped, MaybeConn
<1>7. QueueTyped'
  BY <1>4
<1>8. CtlTyped'
  BY <1>3 DEF CtlTyped
<1>9. OwnerInv'
  BY <1>1, <1>2, <1>3, <1>4 DEF Inv, OwnerInv, OwnerTyped, RunActionFails, At,
         StaleMedia
<1>10. DialInv'
  BY <1>1, <1>3, <1>4, NoEventIs DEF Inv, DialInv
<1>11. CtlInv'
  BY <1>3, <1>4, NoEventIs DEF CtlInv
<1>12. LinkInv'
  BY <1>1, <1>2, <1>3, <1>4, NoEventIs DEF Inv, LinkInv
<1>13. /\ FlagsTyped' /\ SdkTyped'
  BY <1>1 DEF Inv, FlagsTyped, SdkTyped
<1> QED
  BY <1>5, <1>6, <1>7, <1>8, <1>9, <1>10, <1>11, <1>12, <1>13 DEF Inv

LEMMA FinishStep ==
    ASSUME Inv, Finish
    PROVE  Inv'
<1>1. UNCHANGED <<want, moved, active, joined, ptt, conn, leaving, link, dial, bound,
      stale, queue, mic, media>>
  BY DEF Finish, At, arbiterVars, serverVars, roomVars, sdkVars, mediaVars
<1>2. ctl \in CtlType /\ ctl.event = NoEvent
  BY DEF Inv, CtlTyped, CtlInv, At, Finish
<1>3. ctl' \in CtlType /\ ctl'.event = NoEvent /\ ctl'.at \in {"finished"}
  BY <1>2, Gone DEF Steps, Finish
<1>4. OwnerTyped'
  BY <1>1, <1>2, <1>3 DEF Inv, OwnerTyped, Finish, At, arbiterVars
<1>5. CtlTyped'
  BY <1>3 DEF CtlTyped
<1>6. OwnerInv'
  BY <1>1, <1>2, <1>3 DEF Inv, OwnerInv, OwnerTyped, Finish, At, arbiterVars
<1>7. DialInv'
  BY <1>1, <1>2, <1>3, NoEventIs DEF Inv, DialInv
<1>8. CtlInv'
  BY <1>1, <1>3, NoEventIs DEF Inv, CtlInv
<1>9. LinkInv'
  BY <1>1, <1>2, <1>3, NoEventIs DEF Inv, LinkInv
<1>10. /\ FlagsTyped' /\ ConnTyped' /\ SdkTyped' /\ QueueTyped'
  BY <1>1 DEF Inv, FlagsTyped, ConnTyped, SdkTyped, QueueTyped
<1> QED
  BY <1>4, <1>5, <1>6, <1>7, <1>8, <1>9, <1>10 DEF Inv

LEMMA FinishedStep ==
    ASSUME Inv, Finished
    PROVE  Inv'
<1>1. UNCHANGED <<owner, transition, want, moved, active, joined, ptt, conn, leaving,
      link, dial, bound, stale, queue, mic, media>>
  BY DEF Finished, At, requestFrame, serverVars, arbiterVars, roomVars, sdkVars,
         mediaVars
<1>2. ctl \in CtlType /\ ctl.event = NoEvent
  BY DEF Inv, CtlTyped, CtlInv, At, Finished
<1>3. ctl' \in CtlType /\ ctl'.event = NoEvent /\ ctl'.at \in {"loop", "current"}
  <2>1. ctl.then \in {"loop", "current"} /\ {"loop", "current"} \subseteq Steps
    BY <1>2 DEF CtlType, Steps
  <2> QED
    BY <1>2, <2>1, Gone DEF Finished
<1>4. CtlTyped'
  BY <1>3 DEF CtlTyped
<1>5. DialInv'
  BY <1>1, <1>2, <1>3, NoEventIs DEF Inv, DialInv
<1>6. CtlInv'
  BY <1>1, <1>3, NoEventIs DEF Inv, CtlInv
<1>7. LinkInv'
  BY <1>1, <1>2, <1>3, NoEventIs DEF Inv, LinkInv
<1>8. /\ FlagsTyped' /\ OwnerTyped' /\ ConnTyped' /\ SdkTyped' /\ QueueTyped'
      /\ OwnerInv'
  BY <1>1 DEF Inv, FlagsTyped, OwnerTyped, ConnTyped, SdkTyped, QueueTyped, OwnerInv
<1> QED
  BY <1>4, <1>5, <1>6, <1>7, <1>8 DEF Inv

LEMMA OtherBeginsStep ==
    ASSUME Inv, OtherBegins
    PROVE  Inv'
<1>1. UNCHANGED <<want, moved, active, joined, ptt, conn, leaving, link, dial, bound,
      stale, queue, mic, media, ctl>>
  BY DEF OtherBegins, arbiterFrame, roomVars, sdkVars, mediaVars, serverVars
<1>2. OwnerTyped'
  BY <1>1 DEF Inv, OwnerTyped, OtherBegins
<1>3. OwnerInv'
  BY <1>1 DEF Inv, OwnerInv, OwnerTyped, OtherBegins
<1>4. /\ FlagsTyped' /\ ConnTyped' /\ SdkTyped' /\ QueueTyped' /\ CtlTyped' /\ DialInv'
      /\ CtlInv' /\ LinkInv'
  BY <1>1 DEF Inv, FlagsTyped, ConnTyped, SdkTyped, QueueTyped, CtlTyped, DialInv,
         CtlInv, LinkInv
<1> QED
  BY <1>2, <1>3, <1>4 DEF Inv

LEMMA OtherEndsStep ==
    ASSUME Inv, OtherEnds
    PROVE  Inv'
<1>1. UNCHANGED <<transition, want, moved, active, joined, ptt, conn, leaving, link,
      dial, bound, stale, queue, mic, media, ctl>>
  BY DEF OtherEnds, arbiterFrame, roomVars, sdkVars, mediaVars, serverVars
<1>2. OwnerTyped'
  BY <1>1 DEF Inv, OwnerTyped, OtherEnds
<1>3. OwnerInv'
  BY <1>1 DEF Inv, OwnerInv, OwnerTyped, OtherEnds
<1>4. /\ FlagsTyped' /\ ConnTyped' /\ SdkTyped' /\ QueueTyped' /\ CtlTyped' /\ DialInv'
      /\ CtlInv' /\ LinkInv'
  BY <1>1 DEF Inv, FlagsTyped, ConnTyped, SdkTyped, QueueTyped, CtlTyped, DialInv,
         CtlInv, LinkInv
<1> QED
  BY <1>2, <1>3, <1>4 DEF Inv

LEMMA StopServiceStep ==
    ASSUME Inv, StopService
    PROVE  Inv'
<1>1. UNCHANGED <<owner, want, moved, link, bound, stale, mic>>
  BY DEF StopService, StaleMedia, serverVars
<1>2. /\ QueueTyped' /\ ~HasFresh(queue') /\ OneFresh(queue')
      /\ \A c : Carries(queue, c) => Carries(queue', c)
      /\ NamesWhoJoined(queue')
  BY QueueAged DEF Inv, CtlInv, StopService
<1>3. /\ ctl' \in CtlType /\ ctl'.at = ctl.at /\ ~IsFresh(ctl'.event)
      /\ ctl'.event.kind = ctl.event.kind /\ ctl'.event.conn = ctl.event.conn
      /\ (ctl.event = NoEvent => ctl'.event = NoEvent)
  <2> DEFINE e == [ctl.event EXCEPT !.fresh = FALSE]
  <2>1. ctl \in CtlType /\ ctl.event \in EventType
    BY DEF Inv, CtlTyped, CtlType
  <2>2. /\ e \in EventType /\ ~IsFresh(e) /\ e.kind = ctl.event.kind
        /\ e.conn = ctl.event.conn
    BY <2>1 DEF EventType, IsFresh
  <2>3. ctl.event = NoEvent => e = NoEvent
    <3>1. \A b \in BOOLEAN : [Event("suspended", NoConn, b) EXCEPT !.fresh = b]
                              = Event("suspended", NoConn, b)
      BY DEF Event
    <3>2. [NoEvent EXCEPT !.fresh = FALSE] = NoEvent
      BY <3>1, Zenon DEF NoEvent
    <3> QED
      BY <3>2
  <2>4. ctl' = [ctl EXCEPT !.event = e]
    BY DEF StopService
  <2> HIDE DEF e
  <2>5. ctl' \in CtlType /\ ctl'.at = ctl.at /\ ctl'.event = e
    BY <2>1, <2>2, <2>4 DEF CtlType
  <2> QED
    BY <2>2, <2>3, <2>5
<1>4. FlagsTyped'
  BY <1>1, <1>2, <1>3 DEF Inv, FlagsTyped, StopService, StaleMedia
<1>5. OwnerTyped'
  BY <1>1, <1>2, <1>3 DEF Inv, OwnerTyped, StopService, StaleMedia
<1>6. ConnTyped'
  BY <1>1, <1>2, <1>3 DEF Inv, ConnTyped, StopService, StaleMedia, MaybeConn
<1>7. QueueTyped'
  BY <1>2
<1>8. CtlTyped'
  BY <1>3 DEF CtlTyped
<1>9. OwnerInv'
  BY <1>1, <1>2, <1>3 DEF Inv, OwnerInv, OwnerTyped, StopService, StaleMedia
<1>10. DialInv'
  BY <1>2, <1>3 DEF DialInv, StopService
<1>11. CtlInv'
  BY <1>2, <1>3 DEF Inv, CtlInv
<1>12. LinkInv'
  <2>1. leaving = NoConn /\ leaving' = conn /\ UNCHANGED <<link, stale>>
    BY <1>1 DEF Inv, OwnerInv, StopService
  <2> QED
    BY <2>1, <1>2, <1>3, ConnsAssumption DEF Inv, LinkInv
<1>13. /\ SdkTyped'
  BY <1>1 DEF Inv, SdkTyped
<1> QED
  BY <1>4, <1>5, <1>6, <1>7, <1>8, <1>9, <1>10, <1>11, <1>12, <1>13 DEF Inv

LEMMA LeaveRoomStep ==
    ASSUME Inv, LeaveRoom
    PROVE  Inv'
<1>1. UNCHANGED <<owner, want, moved, active, joined, ptt, conn, dial, stale, queue,
      mic, media, ctl>>
  BY DEF LeaveRoom, arbiterFrame, roomVars, mediaVars, serverVars
<1>2. /\ link' \in LinkType /\ leaving' = NoConn
      /\ \A x \in Conns : link'[x] = "open" => link[x] = "open" /\ x # leaving
  BY Closed DEF Inv, SdkTyped, LeaveRoom
<1>3. OwnerTyped'
  BY <1>1, <1>2 DEF Inv, OwnerTyped, LeaveRoom
<1>4. ConnTyped'
  BY <1>1, <1>2 DEF Inv, ConnTyped, LeaveRoom, MaybeConn
<1>5. SdkTyped'
  BY <1>1, <1>2 DEF Inv, SdkTyped, LeaveRoom
<1>6. OwnerInv'
  BY <1>1, <1>2 DEF Inv, OwnerInv, OwnerTyped, LeaveRoom
<1>7. LinkInv'
  BY <1>1, <1>2 DEF Inv, LinkInv
<1>8. /\ FlagsTyped' /\ QueueTyped' /\ CtlTyped' /\ DialInv' /\ CtlInv'
  BY <1>1 DEF Inv, FlagsTyped, QueueTyped, CtlTyped, DialInv, CtlInv
<1> QED
  BY <1>3, <1>4, <1>5, <1>6, <1>7, <1>8 DEF Inv

LEMMA CloseMicStep ==
    ASSUME Inv, CloseMic
    PROVE  Inv'
<1>1. UNCHANGED <<owner, want, moved, active, joined, ptt, conn, leaving, link, dial,
      bound, stale, media, ctl>>
  BY DEF CloseMic, arbiterFrame, roomVars, sdkVars, serverVars
<1>2. /\ QueueTyped' /\ OneFresh(queue') /\ NamesWhoJoined(queue')
      /\ (HasFresh(queue') => HasFresh(queue))
      /\ \A x : Carries(queue, x) => Carries(queue', x)
  <2> DEFINE e == Event("suspended", NoConn, FALSE)
  <2>1. e \in EventType /\ ~IsFresh(e) /\ e.kind # "joined"
    BY EventIs DEF Kinds, MaybeConn
  <2>2. Enqueue(e)
    BY Zenon DEF CloseMic
  <2> HIDE DEF e
  <2> QED
    BY <2>1, <2>2, Enqueued DEF Inv, DialInv, CtlInv
<1>3. FlagsTyped'
  BY <1>1, <1>2 DEF Inv, FlagsTyped, CloseMic
<1>4. OwnerTyped'
  BY <1>1, <1>2 DEF Inv, OwnerTyped, CloseMic
<1>5. QueueTyped'
  BY <1>2
<1>6. OwnerInv'
  BY <1>1, <1>2 DEF Inv, OwnerInv, OwnerTyped, CloseMic
<1>7. DialInv'
  BY <1>1, <1>2 DEF Inv, DialInv
<1>8. CtlInv'
  BY <1>1, <1>2 DEF Inv, CtlInv
<1>9. LinkInv'
  BY <1>1, <1>2 DEF Inv, LinkInv
<1>10. /\ ConnTyped' /\ SdkTyped' /\ CtlTyped'
  BY <1>1 DEF Inv, ConnTyped, SdkTyped, CtlTyped
<1> QED
  BY <1>3, <1>4, <1>5, <1>6, <1>7, <1>8, <1>9, <1>10 DEF Inv

LEMMA MediaLooksStep ==
    ASSUME Inv, MediaLooks
    PROVE  Inv'
<1>1. UNCHANGED <<owner, transition, want, moved, active, joined, ptt, conn, leaving,
      link, dial, bound, stale, queue, ctl>>
  BY DEF MediaLooks, mediaFrame, arbiterVars, serverVars, sdkVars
<1>2. FlagsTyped'
  BY <1>1 DEF Inv, FlagsTyped, MediaLooks
<1>3. OwnerTyped'
  BY <1>1 DEF Inv, OwnerTyped, MediaLooks
<1>4. OwnerInv'
  BY <1>1 DEF Inv, OwnerInv, OwnerTyped, MediaLooks
<1>5. /\ ConnTyped' /\ SdkTyped' /\ QueueTyped' /\ CtlTyped' /\ DialInv' /\ CtlInv'
      /\ LinkInv'
  BY <1>1 DEF Inv, ConnTyped, SdkTyped, QueueTyped, CtlTyped, DialInv, CtlInv, LinkInv
<1> QED
  BY <1>2, <1>3, <1>4, <1>5 DEF Inv

LEMMA MediaOpensStep ==
    ASSUME Inv, MediaOpens
    PROVE  Inv'
<1>1. UNCHANGED <<owner, transition, want, moved, active, joined, ptt, conn, leaving,
      link, dial, bound, stale, queue, ctl>>
  BY DEF MediaOpens, mediaFrame, arbiterVars, serverVars, sdkVars
<1>2. FlagsTyped'
  BY <1>1 DEF Inv, FlagsTyped, MediaOpens
<1>3. OwnerTyped'
  BY <1>1 DEF Inv, OwnerTyped, MediaOpens
<1>4. OwnerInv'
  BY <1>1 DEF Inv, OwnerInv, OwnerTyped, MediaOpens
<1>5. /\ ConnTyped' /\ SdkTyped' /\ QueueTyped' /\ CtlTyped' /\ DialInv' /\ CtlInv'
      /\ LinkInv'
  BY <1>1 DEF Inv, ConnTyped, SdkTyped, QueueTyped, CtlTyped, DialInv, CtlInv, LinkInv
<1> QED
  BY <1>2, <1>3, <1>4, <1>5 DEF Inv

LEMMA MediaSendsStep ==
    ASSUME Inv, MediaSends
    PROVE  Inv'
<1>1. UNCHANGED <<owner, transition, want, moved, active, joined, conn, leaving, link,
      dial, bound, stale, mic, ctl>>
  BY DEF MediaSends, mediaFrame, arbiterVars, serverVars, sdkVars
<1>2. /\ QueueTyped' /\ OneFresh(queue') /\ NamesWhoJoined(queue')
      /\ (HasFresh(queue') => HasFresh(queue))
      /\ \A x : Carries(queue, x) => Carries(queue', x)
  <2>1. CASE UNCHANGED queue
    BY <2>1 DEF Inv, QueueTyped, DialInv, CtlInv
  <2>2. CASE Enqueue(Event("lost", conn, TRUE))
    <3> DEFINE e == Event("lost", conn, TRUE)
    <3>1. e \in EventType /\ ~IsFresh(e) /\ e.kind # "joined"
      BY EventIs DEF Inv, ConnTyped, Kinds
    <3> HIDE DEF e
    <3> QED
      BY <2>2, <3>1, Enqueued DEF Inv, DialInv, CtlInv, e
  <2> QED
    BY <2>1, <2>2, Zenon DEF MediaSends
<1>3. FlagsTyped'
  BY <1>1, <1>2 DEF Inv, FlagsTyped, MediaSends
<1>4. OwnerTyped'
  BY <1>1, <1>2 DEF Inv, OwnerTyped, MediaSends
<1>5. QueueTyped'
  BY <1>2
<1>6. OwnerInv'
  <2>1. media' = "idle" /\ (media' = "idle" => media # "idle")
    BY DEF MediaSends
  <2>2. ptt' = ptt \/ ptt' = FALSE
    BY Zenon DEF MediaSends
  <2>3. ptt' => ptt
    BY <2>2, Zenon
  <2> QED
    BY <1>1, <2>1, <2>3 DEF Inv, OwnerInv
<1>7. DialInv'
  BY <1>1, <1>2 DEF Inv, DialInv
<1>8. CtlInv'
  BY <1>1, <1>2 DEF Inv, CtlInv
<1>9. LinkInv'
  BY <1>1, <1>2 DEF Inv, LinkInv
<1>10. /\ ConnTyped' /\ SdkTyped' /\ CtlTyped'
  BY <1>1 DEF Inv, ConnTyped, SdkTyped, CtlTyped
<1> QED
  BY <1>3, <1>4, <1>5, <1>6, <1>7, <1>8, <1>9, <1>10 DEF Inv

LEMMA RoomPttStep ==
    ASSUME Inv, NEW pressed \in BOOLEAN, RoomPtt(pressed)
    PROVE  Inv'
<1>1. UNCHANGED <<owner, transition, want, moved, active, joined, conn, leaving, link,
      dial, bound, stale, queue, mic, media, ctl>>
  BY DEF RoomPtt, arbiterVars, serverVars, sdkVars, mediaVars
<1>2. FlagsTyped'
  BY <1>1 DEF Inv, FlagsTyped, RoomPtt
<1>3. OwnerInv'
  <2>1. ptt' = (pressed /\ joined)
    BY DEF RoomPtt
  <2>2. ptt' => joined
    BY <2>1, Zenon
  <2> QED
    BY <1>1, <2>2 DEF Inv, OwnerInv
<1>4. /\ OwnerTyped' /\ ConnTyped' /\ SdkTyped' /\ QueueTyped' /\ CtlTyped' /\ DialInv'
      /\ CtlInv' /\ LinkInv'
  BY <1>1 DEF Inv, OwnerTyped, ConnTyped, SdkTyped, QueueTyped, CtlTyped, DialInv,
         CtlInv, LinkInv
<1> QED
  BY <1>2, <1>3, <1>4 DEF Inv

LEMMA RoomCommandStep ==
    ASSUME Inv, RoomCommand
    PROVE  Inv'
<1>1. UNCHANGED <<owner, transition, want, moved, active, joined, ptt, conn, leaving,
      link, dial, bound, stale, mic, media, ctl>>
  BY DEF RoomCommand, arbiterVars, serverVars, roomVars, sdkVars, mediaVars
<1>2. /\ QueueTyped' /\ OneFresh(queue') /\ NamesWhoJoined(queue')
      /\ (HasFresh(queue') => HasFresh(queue))
      /\ \A x : Carries(queue, x) => Carries(queue', x)
  <2> DEFINE e == Event("command", NoConn, FALSE)
  <2>1. e \in EventType /\ ~IsFresh(e) /\ e.kind # "joined"
    BY EventIs DEF Kinds, MaybeConn
  <2>2. Enqueue(e)
    BY Zenon DEF RoomCommand
  <2> HIDE DEF e
  <2> QED
    BY <2>1, <2>2, Enqueued DEF Inv, DialInv, CtlInv
<1>3. QueueTyped'
  BY <1>2
<1>4. DialInv'
  BY <1>1, <1>2 DEF Inv, DialInv
<1>5. CtlInv'
  BY <1>1, <1>2 DEF Inv, CtlInv
<1>6. LinkInv'
  BY <1>1, <1>2 DEF Inv, LinkInv
<1>7. /\ FlagsTyped' /\ OwnerTyped' /\ ConnTyped' /\ SdkTyped' /\ CtlTyped' /\ OwnerInv'
  BY <1>1 DEF Inv, FlagsTyped, OwnerTyped, ConnTyped, SdkTyped, CtlTyped, OwnerInv
<1> QED
  BY <1>3, <1>4, <1>5, <1>6, <1>7 DEF Inv

LEMMA AssignStep ==
    ASSUME Inv, Assign
    PROVE  Inv'
<1>1. UNCHANGED <<owner, transition, active, joined, ptt, conn, leaving, link, dial,
      bound, stale, queue, mic, media, ctl>>
  BY DEF Assign, arbiterVars, roomVars, sdkVars, mediaVars
<1>2. FlagsTyped'
  BY <1>1 DEF Inv, FlagsTyped, Assign
<1>3. /\ OwnerTyped' /\ ConnTyped' /\ SdkTyped' /\ QueueTyped' /\ CtlTyped' /\ OwnerInv'
      /\ DialInv' /\ CtlInv' /\ LinkInv'
  BY <1>1 DEF Inv, OwnerTyped, ConnTyped, SdkTyped, QueueTyped, CtlTyped, OwnerInv,
         DialInv, CtlInv, LinkInv
<1> QED
  BY <1>2, <1>3 DEF Inv

LEMMA ConnectedStep ==
    ASSUME Inv, NEW c \in Conns, Connected(c)
    PROVE  Inv'
<1>1. UNCHANGED <<owner, transition, want, moved, active, joined, ptt, conn, leaving,
      bound, mic, media, ctl>>
  BY DEF Connected, sdkFrame, arbiterVars, serverVars, roomVars, mediaVars
<1>2. /\ QueueTyped' /\ OneFresh(queue') /\ NamesWhoJoined(queue')
      /\ (HasFresh(queue') => HasFresh(queue) \/ dial = c)
      /\ \A x : Carries(queue, x) => Carries(queue', x)
      /\ link' \in LinkType /\ stale' \in {stale, stale \cup {c}}
      /\ \A x \in Conns : link'[x] = "open" =>
            link[x] = "open" \/ (x = c /\ (c \in stale' \/ Carries(queue', c)))
  <2>1. ASSUME NEW x \in MaybeConn, Enqueue(Event("connected", x, dial = c))
        PROVE  /\ QueueTyped' /\ OneFresh(queue') /\ NamesWhoJoined(queue')
               /\ (HasFresh(queue') => HasFresh(queue) \/ dial = c)
               /\ \A y : Carries(queue, y) => Carries(queue', y)
               /\ Full \/ Carries(queue', x)
    <3> DEFINE e == Event("connected", x, dial = c)
    <3>1. (dial = c) \in BOOLEAN /\ "connected" \in Kinds
      BY DEF Kinds
    <3>2. \A b \in BOOLEAN :
             /\ Event("connected", x, b) \in EventType
             /\ Event("connected", x, b).kind = "connected"
             /\ Event("connected", x, b).conn = x
             /\ (IsFresh(Event("connected", x, b)) => b)
      BY <3>1, EventIs
    <3>3. e \in EventType /\ e.kind = "connected" /\ e.conn = x /\ (IsFresh(e) => dial = c)
      BY <3>1, <3>2, Zenon
    <3>4. HasFresh(queue) => dial # c
      BY ConnsAssumption DEF Inv, DialInv
    <3> HIDE DEF e
    <3> QED
      BY <2>1, <3>3, <3>4, Enqueued DEF Inv, DialInv, CtlInv, e
  <2>2. CASE /\ link' = [link EXCEPT ![c] = "open"]
             /\ Enqueue(Event("connected", c, dial = c))
             /\ stale' = IF Full THEN stale \cup {c} ELSE stale
    BY <2>1, <2>2 DEF Inv, SdkTyped, LinkType, MaybeConn
  <2>3. CASE /\ link' = [link EXCEPT ![c] = "none"]
             /\ Enqueue(Event("connected", NoConn, dial = c))
             /\ UNCHANGED stale
    BY <2>1, <2>3 DEF Inv, SdkTyped, LinkType, MaybeConn
  <2> QED
    BY <2>2, <2>3 DEF Connected
<1>3. ConnTyped'
  BY <1>1, <1>2 DEF Inv, ConnTyped, Connected, MaybeConn
<1>4. SdkTyped'
  BY <1>1, <1>2 DEF Inv, SdkTyped
<1>5. QueueTyped'
  BY <1>2
<1>6. DialInv'
  <2>1. dial' = IF dial = c THEN NoConn ELSE dial
    BY DEF Connected
  <2>2. CASE dial = c
    BY <1>1, <1>2, <2>1, <2>2, ConnsAssumption DEF Inv, DialInv
  <2>3. CASE dial # c
    BY <1>1, <1>2, <2>1, <2>3 DEF Inv, DialInv
  <2> QED
    BY <2>2, <2>3
<1>7. CtlInv'
  BY <1>1, <1>2 DEF Inv, CtlInv
<1>8. LinkInv'
  BY <1>1, <1>2 DEF Inv, LinkInv
<1>9. /\ FlagsTyped' /\ OwnerTyped' /\ CtlTyped' /\ OwnerInv'
  BY <1>1 DEF Inv, FlagsTyped, OwnerTyped, CtlTyped, OwnerInv
<1> QED
  BY <1>3, <1>4, <1>5, <1>6, <1>7, <1>8, <1>9 DEF Inv

LEMMA StaleDisconnectStep ==
    ASSUME Inv, NEW c \in Conns, StaleDisconnect(c)
    PROVE  Inv'
<1>1. UNCHANGED <<owner, transition, want, moved, active, joined, ptt, conn, leaving,
      dial, bound, queue, mic, media, ctl>>
  BY DEF StaleDisconnect, sdkFrame, arbiterVars, serverVars, roomVars, mediaVars
<1>2. /\ link' \in LinkType /\ stale' = stale \ {c}
      /\ \A x \in Conns : link'[x] = "open" => link[x] = "open" /\ x # c
  BY Closed DEF Inv, SdkTyped, StaleDisconnect
<1>3. SdkTyped'
  BY <1>1, <1>2 DEF Inv, SdkTyped
<1>4. LinkInv'
  BY <1>1, <1>2 DEF Inv, LinkInv
<1>5. /\ FlagsTyped' /\ OwnerTyped' /\ ConnTyped' /\ QueueTyped' /\ CtlTyped'
      /\ OwnerInv' /\ DialInv' /\ CtlInv'
  BY <1>1 DEF Inv, FlagsTyped, OwnerTyped, ConnTyped, QueueTyped, CtlTyped, OwnerInv,
         DialInv, CtlInv
<1> QED
  BY <1>3, <1>4, <1>5 DEF Inv

LEMMA DisconnectedStep ==
    ASSUME Inv, NEW c \in Conns, Disconnected(c)
    PROVE  Inv'
<1>1. UNCHANGED <<owner, transition, want, moved, active, joined, ptt, conn, leaving,
      dial, stale, mic, media, ctl>>
  BY DEF Disconnected, sdkFrame, arbiterVars, serverVars, roomVars, mediaVars
<1>2. /\ QueueTyped' /\ OneFresh(queue') /\ NamesWhoJoined(queue')
      /\ (HasFresh(queue') => HasFresh(queue))
      /\ \A x : Carries(queue, x) => Carries(queue', x)
  <2>1. CASE UNCHANGED queue
    BY <2>1 DEF Inv, QueueTyped, DialInv, CtlInv
  <2>2. CASE Enqueue(Event("lost", c, TRUE))
    <3> DEFINE e == Event("lost", c, TRUE)
    <3>1. e \in EventType /\ ~IsFresh(e) /\ e.kind # "joined"
      BY EventIs DEF MaybeConn, Kinds
    <3> HIDE DEF e
    <3> QED
      BY <2>2, <3>1, Enqueued DEF Inv, DialInv, CtlInv, e
  <2> QED
    BY <2>1, <2>2 DEF Disconnected
<1>3. SdkTyped'
  BY <1>1, <1>2 DEF Inv, SdkTyped, Disconnected, LinkType
<1>4. QueueTyped'
  BY <1>2
<1>5. OwnerInv'
  BY <1>1, <1>2 DEF Inv, OwnerInv, OwnerTyped, Disconnected
<1>6. DialInv'
  BY <1>1, <1>2 DEF Inv, DialInv
<1>7. CtlInv'
  BY <1>1, <1>2 DEF Inv, CtlInv
<1>8. LinkInv'
  <2>1. UNCHANGED <<conn, leaving, stale, ctl>>
        /\ \A x \in Conns : link'[x] = "open" => link[x] = "open"
    BY <1>1 DEF Inv, SdkTyped, LinkType, Disconnected
  <2> QED
    BY <1>2, <2>1 DEF Inv, LinkInv
<1>9. /\ FlagsTyped' /\ OwnerTyped' /\ ConnTyped' /\ CtlTyped'
  BY <1>1 DEF Inv, FlagsTyped, OwnerTyped, ConnTyped, CtlTyped
<1> QED
  BY <1>3, <1>4, <1>5, <1>6, <1>7, <1>8, <1>9 DEF Inv

LEMMA PeerSignalsStep ==
    ASSUME Inv, NEW c \in Conns, PeerSignals(c)
    PROVE  Inv'
<1>1. UNCHANGED <<owner, transition, want, moved, active, joined, ptt, conn, leaving,
      link, dial, bound, stale, mic, media, ctl>>
  BY DEF PeerSignals, sdkFrame, sdkVars, arbiterVars, serverVars, roomVars, mediaVars
<1>2. /\ QueueTyped' /\ OneFresh(queue') /\ NamesWhoJoined(queue')
      /\ (HasFresh(queue') => HasFresh(queue))
      /\ \A x : Carries(queue, x) => Carries(queue', x)
  <2>1. PICK kind \in {"lost", "joined", "closed"} : Enqueue(Event(kind, c, TRUE))
    BY DEF PeerSignals
  <2> DEFINE e == Event(kind, c, TRUE)
  <2>2. kind \in Kinds /\ c \in MaybeConn /\ c # NoConn /\ kind # "connected"
    BY ConnsAssumption DEF MaybeConn, Kinds
  <2>3. e \in EventType /\ ~IsFresh(e) /\ e.conn # NoConn
    BY <2>2, EventIs
  <2> HIDE DEF e
  <2> QED
    BY <2>1, <2>3, Enqueued DEF Inv, DialInv, CtlInv, e
<1>3. QueueTyped'
  BY <1>2
<1>4. DialInv'
  BY <1>1, <1>2 DEF Inv, DialInv
<1>5. CtlInv'
  BY <1>1, <1>2 DEF Inv, CtlInv
<1>6. LinkInv'
  BY <1>1, <1>2 DEF Inv, LinkInv
<1>7. /\ FlagsTyped' /\ OwnerTyped' /\ ConnTyped' /\ SdkTyped' /\ CtlTyped' /\ OwnerInv'
  BY <1>1 DEF Inv, FlagsTyped, OwnerTyped, ConnTyped, SdkTyped, CtlTyped, OwnerInv
<1> QED
  BY <1>3, <1>4, <1>5, <1>6, <1>7 DEF Inv
LEMMA StutterStep ==
    ASSUME Inv, UNCHANGED vars
    PROVE  Inv'
<1>1. UNCHANGED <<owner, transition, want, moved, active, joined, ptt, conn, leaving,
      link, dial, bound, stale, queue, mic, media, ctl>>
  BY DEF vars, arbiterVars, serverVars, roomVars, sdkVars, mediaVars
<1> QED
  BY <1>1 DEF Inv, FlagsTyped, OwnerTyped, ConnTyped, SdkTyped, QueueTyped, CtlTyped,
         OwnerInv, DialInv, CtlInv, LinkInv

-----------------------------------------------------------------------------
(* The invariant is inductive. *)

LEMMA InitInv == Init => Inv
<1> SUFFICES ASSUME Init PROVE Inv
  OBVIOUS
<1>1. FlagsTyped /\ OwnerTyped /\ OwnerInv
  BY DEF Init, FlagsTyped, OwnerTyped, OwnerInv
<1>2. ConnTyped /\ SdkTyped
  BY DEF Init, ConnTyped, SdkTyped, MaybeConn, LinkType
<1>3. queue = <<>> /\ <<>> \in Seq(EventType) /\ Len(<<>>) = 0 /\ DOMAIN <<>> = {}
  BY EmptySeq DEF Init
<1>4. QueueTyped
  BY <1>3, QueueCapAssumption DEF QueueTyped
<1>5. ~HasFresh(queue) /\ OneFresh(queue) /\ NamesWhoJoined(queue)
  BY <1>3 DEF HasFresh, FreshAt, OneFresh, NamesWhoJoined
<1>6. ctl = Rest
  BY DEF Init
<1>7. CtlTyped /\ CtlInv
  BY <1>5, <1>6, RestIs, NoEventIs DEF CtlTyped, CtlInv
<1>8. DialInv
  BY <1>5, <1>6, RestIs, NoEventIs DEF Init, DialInv
<1>9. LinkInv
  BY DEF Init, LinkInv
<1> QED
  BY <1>1, <1>2, <1>4, <1>7, <1>8, <1>9 DEF Inv

LEMMA NextInv == Inv /\ [Next]_vars => Inv'
<1> SUFFICES ASSUME Inv, [Next]_vars PROVE Inv'
  OBVIOUS
<1>1. CASE Control
  BY <1>1, LoopStep, ProcessStaleStep, ProcessConnectedStep, ProcessSignalStep,
     ProcessRequestStep, GetAssignmentStep, ConnectTokenStep, RequestFailsStep, BeginStep,
     BeginFailsStep, RunActionStep, RunActionFailsStep, FinishStep, FinishedStep
  DEF Control
<1>2. CASE OtherBegins \/ OtherEnds
  BY <1>2, OtherBeginsStep, OtherEndsStep
<1>3. CASE Stopping
  BY <1>3, StopServiceStep, LeaveRoomStep, CloseMicStep DEF Stopping
<1>4. CASE Media
  BY <1>4, MediaLooksStep, MediaOpensStep, MediaSendsStep DEF Media
<1>5. CASE User \/ Assign
  BY <1>5, RoomPttStep, RoomCommandStep, AssignStep DEF User
<1>6. CASE Sdk
  BY <1>6, ConnectedStep, StaleDisconnectStep, DisconnectedStep, PeerSignalsStep DEF Sdk
<1>7. CASE UNCHANGED vars
  BY <1>7, StutterStep
<1> QED
  BY <1>1, <1>2, <1>3, <1>4, <1>5, <1>6, <1>7 DEF Next

-----------------------------------------------------------------------------
(* The theorems. *)

\* The invariant above holds in every reachable state: whatever the worker,
\* the media worker, the arbiter and the SDK do between each other's critical
\* sections of r->lock (tirtc_room.c), one connection is the room's.
THEOREM RoomInductive == Spec => []Inv
<1>1. Init => Inv
  BY InitInv
<1>2. Inv /\ [Next]_vars => Inv'
  BY NextInv
<1> QED
  BY <1>1, <1>2, PTL DEF Spec

\* Every variable of the room keeps its type, and the queue its length.
THEOREM RoomTyped == Spec => []TypeOK
<1>1. Inv => TypeOK
  <2> SUFFICES ASSUME Inv PROVE TypeOK
    OBVIOUS
  <2>1. queue \in Seq([kind : Kinds, conn : MaybeConn, fresh : BOOLEAN]) /\ Len(queue) <= QueueCap
    BY DEF Inv, QueueTyped, EventType
  <2> QED
    BY <2>1 DEF Inv, FlagsTyped, OwnerTyped, ConnTyped, SdkTyped, LinkType, TypeOK
<1> QED
  BY <1>1, RoomInductive, PTL

\* A connection that came too late, or found no place in the queue, is closed:
\* an open one is the room's, or somebody is about to close it or take it.
THEOREM NoConnectionLeftAlways == Spec => []NoConnectionLeft
<1>1. Inv => NoConnectionLeft
  BY DEF Inv, LinkInv, Carries, NoConnectionLeft
<1> QED
  BY <1>1, RoomInductive, PTL

\* A room that was released or preempted, and whose stop is through, neither
\* speaks nor is joined, and no connection is bound to it.
THEOREM ReleasedIsQuietAlways == Spec => []ReleasedIsQuiet
<1>1. Inv => ReleasedIsQuiet
  BY DEF Inv, OwnerTyped, OwnerInv, ReleasedIsQuiet
<1> QED
  BY <1>1, RoomInductive, PTL
=============================================================================
