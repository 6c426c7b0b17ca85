--------------------------- MODULE CallMediaProofs ---------------------------
(***************************************************************************)
(* Theorems of MCCallMedia for every set of connections, every bound and   *)
(* every selection of businesses: the ring of busy rejections is a queue   *)
(* that loses no call and no wake-up (RejectQueue), the product hears what *)
(* belongs to its session and nothing after it (Downlink), and a device    *)
(* call sends on a connection it has not closed and receives only what it  *)
(* subscribed (CallMedia).                                                 *)
(***************************************************************************)
EXTENDS MCCallMedia, FiniteSetTheorems, SequenceTheorems, TLAPS

-----------------------------------------------------------------------------
(* RejectQueue. *)

LEMMA RingSize == Capacity \in Nat \ {0} /\ Calls \in Nat
BY PartsAssumption DEF Ring!QueueAssumption

(* The ring.                                                               *)

\* Going round once at most.
LEMMA Wrap ==
    ASSUME NEW n \in Nat, n < Capacity + Capacity
    PROVE  n % Capacity = IF n < Capacity THEN n ELSE n - Capacity
BY RingSize

LEMMA AtOnce ==
    ASSUME Ring!TypeOK, NEW n \in 0..Capacity
    PROVE  /\ Ring!At(n) = IF head + n < Capacity THEN head + n ELSE head + n - Capacity
           /\ Ring!At(n) \in Ring!Slot
<1>1. head + n \in Nat /\ head + n < Capacity + Capacity /\ head \in 0..(Capacity - 1)
  BY RingSize DEF Ring!TypeOK, Ring!Slot
<1>2. (head + n) % Capacity = IF head + n < Capacity THEN head + n ELSE head + n - Capacity
  BY <1>1, Wrap, RingSize
<1> QED
  BY <1>1, <1>2, RingSize DEF Ring!At, Ring!Slot

\* The slots that wait, and the one after them, differ.
LEMMA SlotsDiffer ==
    ASSUME Ring!TypeOK, NEW m \in 0..(Capacity - 1), NEW n \in 0..(Capacity - 1), m # n
    PROVE  Ring!At(m) # Ring!At(n)
<1>1. m \in 0..Capacity /\ n \in 0..Capacity /\ head \in 0..(Capacity - 1)
  BY RingSize DEF Ring!TypeOK, Ring!Slot
<1> QED
  BY <1>1, AtOnce, RingSize

\* Moving the head moves every slot on by one.
LEMMA HeadMoves ==
    ASSUME Ring!TypeOK, head' = (head + 1) % Capacity, NEW n \in 0..(Capacity - 1)
    PROVE  /\ head' \in Ring!Slot
           /\ Ring!At(n)' = Ring!At(n + 1)
<1>1. head \in 0..(Capacity - 1) /\ n + 1 \in 0..Capacity /\ 1 \in 0..Capacity
  BY RingSize DEF Ring!TypeOK, Ring!Slot
<1>2. /\ head' = IF head + 1 < Capacity THEN head + 1 ELSE head + 1 - Capacity
      /\ head' \in Ring!Slot
  BY <1>1, AtOnce DEF Ring!At
<1>3. (head' + n) % Capacity =
         IF head' + n < Capacity THEN head' + n ELSE head' + n - Capacity
  <2>1. head' + n \in Nat /\ head' + n < Capacity + Capacity
    BY <1>1, <1>2, RingSize DEF Ring!Slot
  <2> QED
    BY <2>1, Wrap, RingSize
<1>4. Ring!At(n + 1) = IF head + (n + 1) < Capacity THEN head + (n + 1)
                                              ELSE head + (n + 1) - Capacity
  BY <1>1, AtOnce
<1> QED
  BY <1>1, <1>2, <1>3, <1>4, RingSize DEF Ring!At, Ring!Slot

LEMMA WaitingType ==
    ASSUME Ring!TypeOK
    PROVE  /\ Ring!Waiting \in Seq(Ring!Call \cup {0}) /\ Len(Ring!Waiting) = count
           /\ \A i \in 1..count : Ring!Waiting[i] = slots[Ring!At(i - 1)]
<1>1. count \in Nat /\ count <= Capacity
  BY RingSize DEF Ring!TypeOK
<1>2. \A i \in 1..count : slots[Ring!At(i - 1)] \in Ring!Call \cup {0}
  <2> TAKE i \in 1..count
  <2>1. i - 1 \in 0..Capacity
    BY <1>1, RingSize
  <2>2. Ring!At(i - 1) \in Ring!Slot
    BY <2>1, AtOnce
  <2> QED
    BY <2>2 DEF Ring!TypeOK
<1> QED
  BY <1>1, <1>2 DEF Ring!Waiting

\* Queue appends to what waits.
LEMMA QueueAppends ==
    ASSUME Ring!TypeOK, count < Capacity, UNCHANGED head, Ring!Queue, next \in Ring!Call
    PROVE  Ring!Waiting' = Append(Ring!Waiting, next)
<1>1. /\ slots' = [slots EXCEPT ![Ring!At(count)] = next] /\ count' = count + 1
      /\ slots \in [Ring!Slot -> Ring!Call \cup {0}] /\ count \in 0..(Capacity - 1)
  BY RingSize DEF Ring!Queue, Ring!TypeOK
<1>2. Ring!Waiting \in Seq(Ring!Call \cup {0}) /\ Len(Ring!Waiting) = count
      /\ \A i \in 1..count : Ring!Waiting[i] = slots[Ring!At(i - 1)]
  BY WaitingType
<1>3. \A n \in 0..Capacity : Ring!At(n)' = Ring!At(n) /\ Ring!At(n) \in Ring!Slot
  BY AtOnce DEF Ring!At
<1>4. \A i \in 1..count' : slots'[Ring!At(i - 1)'] = Append(Ring!Waiting, next)[i]
  <2> TAKE i \in 1..count'
  <2>0. i - 1 \in 0..(Capacity - 1) /\ i \in Nat
    BY <1>1, RingSize
  <2>1. Ring!At(i - 1)' = Ring!At(i - 1) /\ Ring!At(i - 1) \in Ring!Slot
    BY <1>3, <2>0, RingSize
  <2>2. CASE i <= count
    <3>1. Ring!At(i - 1) # Ring!At(count)
      BY <1>1, <2>0, <2>2, SlotsDiffer, RingSize
    <3> QED
      BY <1>1, <1>2, <2>1, <2>2, <3>1
  <2>3. CASE i = count + 1
    BY <1>1, <1>2, <2>1, <2>3
  <2>4. i <= count \/ i = count + 1
    BY <1>1, <2>0
  <2> QED
    BY <2>2, <2>3, <2>4
<1>5. /\ Append(Ring!Waiting, next) \in Seq(Ring!Call \cup {0})
      /\ Len(Append(Ring!Waiting, next)) = count + 1
  BY <1>2
<1>6. /\ Ring!Waiting' \in Seq(Ring!Call \cup {0}) /\ Len(Ring!Waiting') = count'
      /\ \A i \in 1..count' : Ring!Waiting'[i] = slots'[Ring!At(i - 1)']
  <2>1. Ring!Waiting' = [i \in 1..count' |-> slots'[Ring!At(i - 1)']]
    BY DEF Ring!Waiting
  <2>2. \A i \in 1..count' : Append(Ring!Waiting, next)[i] \in Ring!Call \cup {0}
    BY <1>1, <1>5
  <2>3. \A i \in 1..count' : slots'[Ring!At(i - 1)'] \in Ring!Call \cup {0}
    BY <1>4, <2>2
  <2> QED
    BY <1>1, <2>1, <2>3
<1> QED
  BY <1>1, <1>4, <1>5, <1>6, SeqEqual

\* Take takes the oldest call from what waits.
LEMMA TakeTakesHead ==
    ASSUME Ring!TypeOK, Ring!Take
    PROVE  /\ Ring!Waiting # <<>> /\ Ring!Waiting' = Tail(Ring!Waiting)
           /\ slots[head] = Head(Ring!Waiting)
<1>1. /\ count > 0 /\ count' = count - 1 /\ head' = (head + 1) % Capacity
      /\ UNCHANGED slots /\ count \in 1..Capacity
  BY RingSize DEF Ring!Take, Ring!TypeOK
<1>2. Ring!Waiting \in Seq(Ring!Call \cup {0}) /\ Len(Ring!Waiting) = count
      /\ \A i \in 1..count : Ring!Waiting[i] = slots[Ring!At(i - 1)]
  BY WaitingType
<1>3. Ring!At(0) = head
  BY AtOnce, RingSize DEF Ring!TypeOK, Ring!Slot
<1>4. \A i \in 1..count' : slots'[Ring!At(i - 1)'] = Ring!Waiting[i + 1]
  <2> TAKE i \in 1..count'
  <2>1. i - 1 \in 0..(Capacity - 1) /\ i + 1 \in 1..count
    BY <1>1, RingSize
  <2>2. Ring!At(i - 1)' = Ring!At(i)
    BY <1>1, <2>1, HeadMoves
  <2> QED
    BY <1>1, <1>2, <2>1, <2>2
<1>5. /\ Tail(Ring!Waiting) \in Seq(Ring!Call \cup {0}) /\ Len(Tail(Ring!Waiting)) = count'
      /\ \A i \in 1..count' : Tail(Ring!Waiting)[i] = Ring!Waiting[i + 1]
      /\ Head(Ring!Waiting) = Ring!Waiting[1] /\ Ring!Waiting # <<>>
  BY <1>1, <1>2, RingSize
<1>6. /\ Ring!Waiting' \in Seq(Ring!Call \cup {0}) /\ Len(Ring!Waiting') = count'
      /\ \A i \in 1..count' : Ring!Waiting'[i] = slots'[Ring!At(i - 1)']
  <2>1. Ring!Waiting' = [i \in 1..count' |-> slots'[Ring!At(i - 1)']]
    BY DEF Ring!Waiting
  <2>2. \A i \in 1..count' : Tail(Ring!Waiting)[i] \in Ring!Call \cup {0}
    BY <1>5
  <2>3. \A i \in 1..count' : slots'[Ring!At(i - 1)'] \in Ring!Call \cup {0}
    BY <1>4, <1>5, <2>2
  <2> QED
    BY <1>1, <2>1, <2>3
<1>8. Ring!Waiting' = Tail(Ring!Waiting)
  BY <1>1, <1>4, <1>5, <1>6, SeqEqual
<1>9. slots[head] = Head(Ring!Waiting)
  BY <1>1, <1>2, <1>3, <1>5, RingSize
<1> QED
  BY <1>5, <1>8, <1>9

-----------------------------------------------------------------------------
(* Sequences. *)

LEMMA AppendGoesIn ==
    ASSUME NEW s \in Seq(Ring!Call), NEW t \in Seq(Ring!Call), NEW e \in Ring!Call
    PROVE  Append(s \o t, e) = s \o Append(t, e)
<1>1. /\ s \o t \in Seq(Ring!Call) /\ Len(s \o t) = Len(s) + Len(t)
      /\ Append(s \o t, e) \in Seq(Ring!Call) /\ Append(t, e) \in Seq(Ring!Call)
      /\ s \o Append(t, e) \in Seq(Ring!Call)
      /\ Len(Append(s \o t, e)) = Len(s) + Len(t) + 1
      /\ Len(s \o Append(t, e)) = Len(s) + Len(t) + 1
  BY ConcatProperties
<1>2. \A i \in 1..Len(Append(s \o t, e)) : Append(s \o t, e)[i] = (s \o Append(t, e))[i]
  BY <1>1, ConcatProperties
<1> QED
  BY <1>1, <1>2, SeqEqual

LEMMA HeadGoesOver ==
    ASSUME NEW S, NEW s \in Seq(S), NEW t \in Seq(S), t # <<>>
    PROVE  Append(s, Head(t)) \o Tail(t) = s \o t
<1>1. /\ Head(t) \in S /\ Tail(t) \in Seq(S) /\ Len(Tail(t)) = Len(t) - 1
      /\ \A i \in 1..Len(Tail(t)) : Tail(t)[i] = t[i + 1]
      /\ Head(t) = t[1] /\ Len(t) \in Nat /\ Len(s) \in Nat
  BY HeadTailProperties, LenProperties
<1>2. /\ Append(s, Head(t)) \in Seq(S) /\ Len(Append(s, Head(t))) = Len(s) + 1
      /\ \A i \in 1..Len(s) : Append(s, Head(t))[i] = s[i]
      /\ Append(s, Head(t))[Len(s) + 1] = Head(t)
  BY <1>1
<1>3. /\ s \o t \in Seq(S) /\ Len(s \o t) = Len(s) + Len(t)
      /\ \A i \in 1..(Len(s) + Len(t)) :
            (s \o t)[i] = IF i <= Len(s) THEN s[i] ELSE t[i - Len(s)]
  BY ConcatProperties
<1> DEFINE a == Append(s, Head(t))
<1>4. /\ a \o Tail(t) \in Seq(S) /\ Len(a \o Tail(t)) = Len(s) + Len(t)
      /\ \A i \in 1..(Len(s) + Len(t)) :
            (a \o Tail(t))[i] = IF i <= Len(s) + 1 THEN a[i] ELSE Tail(t)[i - (Len(s) + 1)]
  <2> HIDE DEF a
  <2>1. a \in Seq(S) /\ Len(a) = Len(s) + 1
    BY <1>2 DEF a
  <2>2. /\ a \o Tail(t) \in Seq(S)
        /\ Len(a \o Tail(t)) = Len(a) + Len(Tail(t))
        /\ \A i \in 1..(Len(a) + Len(Tail(t))) :
              (a \o Tail(t))[i] = IF i <= Len(a) THEN a[i] ELSE Tail(t)[i - Len(a)]
    BY <1>1, <2>1, ConcatProperties
  <2> QED
    BY <1>1, <2>1, <2>2
<1>5. \A i \in 1..(Len(s) + Len(t)) : (a \o Tail(t))[i] = (s \o t)[i]
  <2> TAKE i \in 1..(Len(s) + Len(t))
  <2> HIDE DEF a
  <2>1. CASE i <= Len(s)
    BY <1>1, <1>2, <1>3, <1>4, <2>1 DEF a
  <2>2. CASE i = Len(s) + 1
    BY <1>1, <1>2, <1>3, <1>4, <2>2 DEF a
  <2>3. CASE i > Len(s) + 1
    <3>1. i - (Len(s) + 1) \in 1..Len(Tail(t)) /\ i - (Len(s) + 1) + 1 = i - Len(s)
      BY <1>1, <2>3
    <3> QED
      BY <1>1, <1>3, <1>4, <2>3, <3>1
  <2>4. i <= Len(s) \/ i = Len(s) + 1 \/ i > Len(s) + 1
    BY <1>1
  <2> QED
    BY <2>1, <2>2, <2>3, <2>4
<1> QED
  BY <1>3, <1>4, <1>5, SeqEqual

-----------------------------------------------------------------------------
(* The inductive invariant. *)

RingInv == Ring!TypeOK /\ Ring!QueuedCallsAreKept /\ Ring!ThreadInv /\ Ring!NoWakeUpIsLost

LEMMA RingInitInv == Ring!Init => RingInv
<1> SUFFICES ASSUME Ring!Init PROVE RingInv
  OBVIOUS
<1>1. Ring!TypeOK
  <2>1. 0 \in Ring!Slot /\ 0 \in 0..Capacity /\ 1 \in 1..(Calls + 1)
    BY RingSize DEF Ring!Slot
  <2>2. <<>> \in Seq(Ring!Call)
    BY EmptySeq
  <2> QED
    BY <2>1, <2>2 DEF Ring!Init, Ring!TypeOK
<1>2. Ring!Waiting = <<>>
  BY <1>1, WaitingType DEF Ring!Init
<1> QED
  BY <1>1, <1>2 DEF Ring!Init, RingInv, Ring!QueuedCallsAreKept, Ring!ThreadInv,
      Ring!NoWakeUpIsLost

\* What waits was accepted, so that only calls are handed out.
LEMMA WaitingCalls ==
    ASSUME RingInv
    PROVE  Ring!Waiting \in Seq(Ring!Call)
<1>1. Ring!Waiting \in Seq(Ring!Call \cup {0}) /\ accepted = taken \o Ring!Waiting
      /\ accepted \in Seq(Ring!Call) /\ taken \in Seq(Ring!Call)
  BY WaitingType DEF RingInv, Ring!QueuedCallsAreKept, Ring!TypeOK
<1>2. taken \in Seq(Ring!Call \cup {0})
  BY <1>1, SeqMonotonic
<1>3. /\ Len(accepted) = Len(taken) + Len(Ring!Waiting)
      /\ \A i \in 1..(Len(taken) + Len(Ring!Waiting)) :
            accepted[i] = IF i <= Len(taken) THEN taken[i] ELSE Ring!Waiting[i - Len(taken)]
  BY <1>1, <1>2, ConcatProperties
<1>4. \A i \in 1..Len(Ring!Waiting) : Ring!Waiting[i] \in Ring!Call
  <2> TAKE i \in 1..Len(Ring!Waiting)
  <2>1. /\ Len(taken) \in Nat /\ Len(Ring!Waiting) \in Nat /\ i \in Nat
        /\ Len(taken) + i \in 1..Len(accepted) /\ ~(Len(taken) + i <= Len(taken))
        /\ Len(taken) + i - Len(taken) = i
    BY <1>1, <1>3, LenProperties
  <2>2. accepted[Len(taken) + i] = Ring!Waiting[i]
    BY <1>3, <2>1
  <2> QED
    BY <1>1, <2>1, <2>2, ElementOfSeq
<1> QED
  BY <1>1, <1>4

LEMMA RingKept ==
    ASSUME UNCHANGED <<Ring!ring>>
    PROVE  Ring!Waiting' = Ring!Waiting
BY DEF Ring!ring, Ring!Waiting, Ring!At

LEMMA SubmitInv == ASSUME RingInv, Ring!Submit PROVE RingInv'
<1>1. next \in Ring!Call /\ next' = next + 1 /\ main = "run"
      /\ UNCHANGED <<head, active, stop, held, main, taken, posted>>
      /\ rejecter' \in {rejecter, "awake"}
            /\ (rejecter = "posting" <=> rejecter' = "posting")
      /\ (rejecter = "asleep" /\ rejecter' = "asleep" => UNCHANGED count)
  BY DEF Ring!Submit, Ring!Woken, Ring!Queue, Ring!Drop, RingInv, Ring!TypeOK
<1>2. CASE Ring!Drop
  <2>1. Ring!Waiting' = Ring!Waiting
    BY <1>1, <1>2, RingKept DEF Ring!Drop, Ring!ring
  <2>2. /\ UNCHANGED <<count, active, stop, main, taken, posted, held, accepted, slots,
              head>>
        /\ rejecter' = rejecter \/ (rejecter = "none" /\ rejecter' = "awake")
        /\ next' \in 1..(Calls + 1)
    <3>1. count \in Int /\ Calls \in Nat
      BY RingSize DEF RingInv, Ring!TypeOK
    <3>2. ~Ring!Queue
      BY <1>2, <3>1 DEF Ring!Queue, Ring!Drop
    <3>3. rejecter' = rejecter \/ (rejecter = "none" /\ rejecter' = "awake")
      BY <3>2 DEF Ring!Submit
    <3> QED
      BY <1>1, <1>2, <3>1, <3>3 DEF Ring!Drop, Ring!Call
  <2>3. Ring!TypeOK'
    BY <2>2 DEF RingInv, Ring!TypeOK
  <2>4. Ring!ThreadInv' /\ Ring!NoWakeUpIsLost'
    BY <1>1, <2>2 DEF RingInv, Ring!ThreadInv, Ring!NoWakeUpIsLost
  <2> QED
    BY <2>1, <2>2, <2>3, <2>4 DEF RingInv, Ring!QueuedCallsAreKept
<1>3. CASE count < Capacity /\ Ring!Queue
              /\ rejecter' = IF rejecter = "none" THEN "awake" ELSE Ring!Woken(rejecter)
  <2>1. Ring!Waiting' = Append(Ring!Waiting, next)
    BY <1>1, <1>3, QueueAppends DEF RingInv
  <2>2. accepted' = taken' \o Ring!Waiting'
    <3>1. /\ accepted' = Append(accepted, next) /\ taken' = taken
          /\ accepted = taken \o Ring!Waiting
          /\ taken \in Seq(Ring!Call) /\ Ring!Waiting \in Seq(Ring!Call)
                /\ next \in Ring!Call
      BY <1>1, <1>3, WaitingCalls DEF RingInv, Ring!QueuedCallsAreKept, Ring!TypeOK,
          Ring!Queue
    <3>2. Append(taken \o Ring!Waiting, next) = taken \o Append(Ring!Waiting, next)
      BY <3>1, AppendGoesIn, Zenon
    <3> QED
      BY <2>1, <3>1, <3>2
  <2>3. Ring!TypeOK'
    <3>1. Ring!At(count) \in Ring!Slot
      BY <1>3, AtOnce, RingSize DEF RingInv, Ring!TypeOK
    <3> QED
      BY <1>1, <1>3, <3>1, RingSize DEF Ring!Queue, RingInv, Ring!TypeOK, Ring!Call,
          Ring!Woken
  <2>4. Ring!ThreadInv' /\ Ring!NoWakeUpIsLost'
    BY <1>1, <1>3, RingSize DEF Ring!Queue, RingInv, Ring!ThreadInv,
        Ring!NoWakeUpIsLost, Ring!Woken, Ring!TypeOK
  <2> QED
    BY <1>1, <1>3, <2>2, <2>3, <2>4 DEF RingInv, Ring!QueuedCallsAreKept, Ring!Woken
<1> QED
  BY <1>1, <1>2, <1>3 DEF Ring!Submit

LEMMA TakeInv == ASSUME RingInv, Ring!Take PROVE RingInv'
<1>1. /\ rejecter = "awake" /\ count > 0 /\ held' = slots[head] /\ taken' = Append(taken,
            slots[head])
      /\ count' = count - 1 /\ head' = (head + 1) % Capacity
      /\ active' = TRUE /\ rejecter' = "posting"
      /\ UNCHANGED <<slots, stop, next, main, accepted, posted>>
  BY DEF Ring!Take
<1>2. Ring!Waiting # <<>> /\ Ring!Waiting' = Tail(Ring!Waiting)
         /\ slots[head] = Head(Ring!Waiting)
  BY TakeTakesHead DEF RingInv
<1>3. Ring!Waiting \in Seq(Ring!Call) /\ Head(Ring!Waiting) \in Ring!Call
  BY <1>2, WaitingCalls, HeadTailProperties
<1>4. accepted' = taken' \o Ring!Waiting'
  BY <1>1, <1>2, <1>3, HeadGoesOver DEF RingInv, Ring!QueuedCallsAreKept,
      Ring!TypeOK
<1>5. taken' = Append(posted', held')
  BY <1>1 DEF RingInv, Ring!QueuedCallsAreKept
<1>6. Ring!TypeOK'
  <2>1. head' \in Ring!Slot
    <3>1. 0 \in 0..(Capacity - 1)
      BY RingSize
    <3> QED
      BY <1>1, <3>1, HeadMoves DEF RingInv
  <2> QED
    BY <1>1, <1>2, <1>3, <2>1, RingSize DEF RingInv, Ring!TypeOK
<1>7. Ring!ThreadInv' /\ Ring!NoWakeUpIsLost'
  BY <1>1, RingSize DEF RingInv, Ring!ThreadInv, Ring!NoWakeUpIsLost, Ring!TypeOK
<1> QED
  BY <1>1, <1>4, <1>5, <1>6, <1>7 DEF RingInv, Ring!QueuedCallsAreKept

LEMMA PostInv == ASSUME RingInv, Ring!Post PROVE RingInv'
<1>1. /\ rejecter = "posting" /\ posted' = Append(posted, held) /\ rejecter' = "posted"
      /\ UNCHANGED <<Ring!ring, active, stop, held, next, main, accepted, taken>>
  BY DEF Ring!Post
<1>2. posted' = taken' /\ Ring!Waiting' = Ring!Waiting
  BY <1>1, RingKept DEF RingInv, Ring!QueuedCallsAreKept
<1> QED
  BY <1>1, <1>2 DEF RingInv, Ring!TypeOK, Ring!QueuedCallsAreKept, Ring!ThreadInv,
      Ring!NoWakeUpIsLost, Ring!ring

\* The other steps move the threads and leave the queue and the histories.
LEMMA ThreadStepInv ==
    ASSUME RingInv, Ring!Sleep \/ Ring!Posted \/ Ring!Exit \/ Ring!Quit
              \/ Ring!StopSdk \/ Ring!Destroy \/ Ring!Check \/ Ring!Join
    PROVE  RingInv'
<1>1. /\ UNCHANGED <<Ring!ring, held, next, accepted, taken, posted>>
      /\ (rejecter = "posting" <=> rejecter' = "posting")
  BY DEF Ring!Sleep, Ring!Posted, Ring!Exit, Ring!Quit, Ring!StopSdk, Ring!Destroy,
      Ring!Check, Ring!Join, Ring!Woken
<1>2. Ring!Waiting' = Ring!Waiting
  BY <1>1, RingKept
<1>3. Ring!TypeOK'
  BY <1>1 DEF RingInv, Ring!TypeOK, Ring!ring, Ring!Sleep, Ring!Posted, Ring!Exit,
      Ring!Quit, Ring!StopSdk, Ring!Destroy, Ring!Check, Ring!Join, Ring!Woken,
      Ring!MainWoken
<1>4. Ring!ThreadInv' /\ Ring!NoWakeUpIsLost'
  BY <1>1 DEF RingInv, Ring!TypeOK, Ring!ring, Ring!ThreadInv, Ring!NoWakeUpIsLost,
      Ring!Sleep, Ring!Posted, Ring!Exit, Ring!Quit, Ring!StopSdk, Ring!Destroy,
      Ring!Check, Ring!Join, Ring!Woken, Ring!MainWoken
<1> QED
  BY <1>1, <1>2, <1>3, <1>4 DEF RingInv, Ring!QueuedCallsAreKept

LEMMA RingStepInv == RingInv /\ [Ring!Next]_(Ring!vars) => RingInv'
<1> SUFFICES ASSUME RingInv, [Ring!Next]_(Ring!vars) PROVE RingInv'
  OBVIOUS
<1>1. CASE Ring!Next
  BY <1>1, SubmitInv, TakeInv, PostInv, ThreadStepInv DEF Ring!Next, Ring!Worker,
      Ring!Main
<1>2. CASE UNCHANGED Ring!vars
  <2>1. Ring!Waiting' = Ring!Waiting
    BY <1>2, RingKept DEF Ring!vars
  <2> QED
    BY <1>2, <2>1 DEF Ring!vars, Ring!ring, RingInv, Ring!TypeOK,
        Ring!QueuedCallsAreKept, Ring!ThreadInv, Ring!NoWakeUpIsLost
<1> QED
  BY <1>1, <1>2

\* The inductive invariant, for every number of slots and of calls.
THEOREM RejectQueueInductive == Ring!Spec => []RingInv
BY RingInitInv, RingStepInv, PTL DEF Ring!Spec

\* Every call queued waits, is being posted or was posted, in order and once.
THEOREM QueuedCallsAreKeptAlways == Ring!Spec => []Ring!QueuedCallsAreKept
<1>1. RingInv => Ring!QueuedCallsAreKept
  BY DEF RingInv
<1> QED
  BY <1>1, RejectQueueInductive, PTL

\* Neither thread sleeps while there is something to do for it.
THEOREM NoWakeUpIsLostAlways == Ring!Spec => []Ring!NoWakeUpIsLost
<1>1. RingInv => Ring!NoWakeUpIsLost
  BY DEF RingInv
<1> QED
  BY <1>1, RejectQueueInductive, PTL

\* When the destructor returns every queued call has been posted.
THEOREM NothingIsLeftBehind == Ring!Spec => []Ring!NothingLeftBehind
<1>1. RingInv => Ring!NothingLeftBehind
  <2> SUFFICES ASSUME RingInv, main = "gone" PROVE posted = accepted
                         /\ rejecter \in {"none", "exit"}
    BY DEF Ring!NothingLeftBehind
  <2>1. count = 0 /\ rejecter \in {"none", "exit"} /\ taken = posted
    BY DEF RingInv, Ring!ThreadInv, Ring!QueuedCallsAreKept
  <2>2. Ring!Waiting = <<>>
    BY <2>1, WaitingType DEF RingInv
  <2> QED
    BY <2>1, <2>2, ConcatEmptySeq DEF RingInv, Ring!QueuedCallsAreKept, Ring!TypeOK
<1> QED
  BY <1>1, RejectQueueInductive, PTL

-----------------------------------------------------------------------------
(* The ring implements the queue. *)

LEMMA StepImplementsFifo ==
    ASSUME RingInv, [Ring!Next]_(Ring!vars)
    PROVE  [Ring!Fifo!Next]_(Ring!Fifo!vars)
<1>1. CASE Ring!Submit
  <2>1. main = "run" /\ main' = "run" /\ taken' = taken /\ next \in Ring!Call
           /\ UNCHANGED head
    BY <1>1 DEF Ring!Submit
  <2>2. CASE Ring!Drop
    <3>1. Ring!Waiting' = Ring!Waiting
      BY <2>1, <2>2, RingKept DEF Ring!Drop, Ring!ring
    <3> QED
      BY <2>1, <3>1 DEF Ring!Fifo!vars
  <2>3. CASE count < Capacity /\ Ring!Queue
    <3>1. Ring!Waiting' = Append(Ring!Waiting, next)
      BY <2>1, <2>3, QueueAppends DEF RingInv
    <3>2. Len(Ring!Waiting) < Capacity
      BY <2>3, WaitingType DEF RingInv
    <3>3. Ring!Fifo!Put(next)
      BY <2>1, <3>1, <3>2 DEF Ring!Fifo!Put
    <3> QED
      BY <2>1, <3>3 DEF Ring!Fifo!Next
  <2> QED
    BY <1>1, <2>2, <2>3 DEF Ring!Submit
<1>2. CASE Ring!Take
  <2>1. Ring!Waiting # <<>> /\ Ring!Waiting' = Tail(Ring!Waiting)
           /\ slots[head] = Head(Ring!Waiting)
    BY <1>2, TakeTakesHead DEF RingInv
  <2>2. Ring!Fifo!Take
    BY <1>2, <2>1 DEF Ring!Take, Ring!Fifo!Take
  <2> QED
    BY <2>2 DEF Ring!Fifo!Next
<1>3. CASE Ring!Quit
  <2>1. Ring!Waiting' = Ring!Waiting
    BY <1>3, RingKept DEF Ring!Quit
  <2>2. Ring!Fifo!Close
    BY <1>3, <2>1 DEF Ring!Quit, Ring!Fifo!Close
  <2> QED
    BY <2>2 DEF Ring!Fifo!Next
<1>4. CASE Ring!Post \/ Ring!Sleep \/ Ring!Posted \/ Ring!Exit \/ Ring!StopSdk
              \/ Ring!Destroy \/ Ring!Check \/ Ring!Join
  <2>1. UNCHANGED Ring!ring /\ taken' = taken /\ (main = "run" <=> main' = "run")
    BY <1>4 DEF Ring!Post, Ring!Sleep, Ring!Posted, Ring!Exit, Ring!StopSdk,
        Ring!Destroy, Ring!Check, Ring!Join, Ring!MainWoken
  <2>2. Ring!Waiting' = Ring!Waiting
    BY <2>1, RingKept
  <2> QED
    BY <2>1, <2>2 DEF Ring!Fifo!vars
<1>5. CASE UNCHANGED Ring!vars
  <2>1. Ring!Waiting' = Ring!Waiting
    BY <1>5, RingKept DEF Ring!vars
  <2> QED
    BY <1>5, <2>1 DEF Ring!vars, Ring!Fifo!vars
<1> QED
  BY <1>1, <1>2, <1>3, <1>4, <1>5 DEF Ring!Next, Ring!Worker, Ring!Main

\* The ring of slots, its indices and its two threads hand out the calls that
\* were put in, first come first served, and refuse one only when full or closed.
THEOREM RingImplementsFifo == Ring!Spec => Ring!ImplementsFifo
<1>1. Ring!Init => Ring!Fifo!Init
  <2> SUFFICES ASSUME Ring!Init PROVE Ring!Fifo!Init
    OBVIOUS
  <2>1. Ring!Waiting = <<>>
    BY RingInitInv, WaitingType DEF Ring!Init, RingInv
  <2> QED
    BY <2>1 DEF Ring!Init, Ring!Fifo!Init
<1>2. RingInv /\ [Ring!Next]_(Ring!vars) => [Ring!Fifo!Next]_(Ring!Fifo!vars)
  BY StepImplementsFifo
<1> QED
  BY <1>1, <1>2, RejectQueueInductive, PTL DEF Ring!Spec, Ring!ImplementsFifo,
      Ring!Fifo!Spec

-----------------------------------------------------------------------------
(* Downlink: the inductive invariant. *)

Tasks == [do : {"accept", "finish"}, h : Handles] \cup [do : {"flush"}]
GuardType == [started : BOOLEAN, active : Nat, queue : Seq(Tasks),
              running : Tasks \cup {[do |-> "none"]}]
FrameType == [at : {"none", "in", "wanted", "marked"}, tag : Nat]
HeardType == [epoch : Nat, h : Handles, of : Nat]
WorkerType == [at : {"idle", "taken", "current", "marked"}, epoch : Nat,
               h : Handles \cup {"none"}, of : Nat, tag : Nat]

SessionTyped ==
    /\ business \in Businesses /\ session \in {"off", "on", "stopping"}
    /\ generation \in Nat /\ (session # "off" => generation # 0)
    /\ sink \subseteq [tag : Nat, of : Nat]
LinkTyped ==
    /\ links \in [Handles -> {"none", "open", "closing"}] /\ made \in [Handles -> Nat]
    /\ clients \in [Handles -> {"free", "pending", "known", "heard"}]
    /\ frames \in [Handles -> FrameType]
GuardTyped ==
    /\ guard \in GuardType
    /\ flushing \in BOOLEAN /\ refused \in BOOLEAN
RoomTyped ==
    /\ epoch \in Nat /\ heardQueue \in Seq(HeardType)
    /\ mediaWorker \in WorkerType /\ (mediaWorker.at # "idle" => mediaWorker.h \in Handles)

Items(q) == {q[i] : i \in 1..Len(q)}
Does(q) == {task.do : task \in Items(q)}
Passing(h) == frames[h].at \in {"wanted", "marked"}
Inside == {h \in Handles : frames[h].at # "none"}
Talking == \E h \in Handles : clients[h] = "heard"

\* The guard counts the callbacks inside; a closed connection has none.
GuardCounts ==
    /\ guard.active = Cardinality(Inside)
    /\ \A h \in Handles :
          /\ frames[h].at # "marked" => frames[h].tag = 0
          /\ links[h] = "none" => frames[h].at = "none"

\* A connection the service knows was made for this session, and a frame
\* that passes belongs to one.
OfThisSession ==
    /\ session # "on" => \A h \in Handles : clients[h] = "free"
    /\ \A h \in Handles :
          /\ clients[h] # "free" => made[h] = generation
          /\ Passing(h) => made[h] = generation
          /\ frames[h].at = "marked" => frames[h].tag = generation
    /\ session = "off" => \A h \in Handles : ~Passing(h)
    /\ session = "off" => sink = {}
    /\ \A f \in sink : f.tag = generation /\ f.of = generation

\* The room has no callbacks of its own; what waits for its worker belongs to
\* a connection that is not made again.
InRoom ==
    IF business = "room"
    THEN /\ \A h \in Handles : /\ frames[h].at = "none"
                               /\ links[h] # "none" => made[h] # 0
         /\ \A f \in Items(heardQueue) : f.of = made[f.h] /\ f.of # 0
         /\ mediaWorker.at # "idle" =>
               mediaWorker.of = made[mediaWorker.h] /\ mediaWorker.of # 0
         /\ mediaWorker.at \in {"current", "marked"} =>
               session # "off" /\ mediaWorker.of = generation
         /\ mediaWorker.at = "marked" => mediaWorker.tag = generation
    ELSE heardQueue = <<>> /\ mediaWorker.at = "idle"

\* What the guard's worker may have to do, by business; while it flushes nobody
\* talks and no frame passes.
GuardWork ==
    /\ business = "stream" =>
          /\ Does(guard.queue) \subseteq {"accept", "flush"}
          /\ guard.running.do # "finish"
    /\ business # "stream" =>
          /\ Does(guard.queue) \subseteq {"finish"}
          /\ guard.running.do \notin {"accept", "flush"}
    /\ flushing => /\ guard.running.do = "flush"
                   /\ \A h \in Handles : clients[h] # "heard" /\ ~Passing(h)

\* When nobody talks to the live stream any more, a flush is still to come.
FlushAhead ==
    business = "stream" /\ session = "on" /\ (sink # {} \/ \E h \in Handles : Passing(h))
        => flushing \/ "flush" \in Does(guard.queue) \/ refused \/ Talking

DownInv == /\ SessionTyped /\ LinkTyped /\ GuardTyped /\ RoomTyped
           /\ GuardCounts /\ OfThisSession /\ InRoom /\ GuardWork /\ FlushAhead

-----------------------------------------------------------------------------
(* Downlink: queues, and the operators of the guard. *)

LEMMA ItemsOfAppend ==
    ASSUME NEW S, NEW q \in Seq(S), NEW x \in S
    PROVE  /\ Append(q, x) \in Seq(S) /\ Len(Append(q, x)) = Len(q) + 1
           /\ Items(Append(q, x)) = Items(q) \cup {x}
<1> DEFINE a == Append(q, x)
<1>1. /\ a \in Seq(S) /\ Len(a) = Len(q) + 1 /\ Len(q) \in Nat
      /\ \A i \in 1..Len(a) : a[i] = IF i <= Len(q) THEN q[i] ELSE x
  BY AppendProperties
<1>2. ASSUME NEW y \in Items(a) PROVE y \in Items(q) \cup {x}
  BY <1>1, <1>2 DEF Items
<1>3. ASSUME NEW y \in Items(q) \cup {x} PROVE y \in Items(a)
  <2>1. CASE y \in Items(q)
    <3>1. PICK i \in 1..Len(q) : y = q[i]
      BY <2>1 DEF Items
    <3>2. i \in 1..Len(a) /\ a[i] = y
      BY <1>1, <3>1
    <3> QED
      BY <3>2 DEF Items
  <2>2. CASE y = x
    <3>1. Len(a) \in 1..Len(a) /\ a[Len(a)] = y
      BY <1>1, <2>2
    <3> QED
      BY <3>1 DEF Items
  <2> QED
    BY <1>3, <2>1, <2>2
<1> QED
  BY <1>1, <1>2, <1>3

LEMMA ItemsOfTail ==
    ASSUME NEW S, NEW q \in Seq(S), q # <<>>
    PROVE  /\ Tail(q) \in Seq(S) /\ Len(Tail(q)) = Len(q) - 1 /\ Head(q) \in S
           /\ Items(q) = {Head(q)} \cup Items(Tail(q))
<1> DEFINE t == Tail(q)
<1>1. /\ t \in Seq(S) /\ Len(t) = Len(q) - 1 /\ Len(q) \in Nat \ {0}
      /\ \A i \in 1..Len(t) : t[i] = q[i + 1]
      /\ Head(q) = q[1] /\ Head(q) \in S
  BY HeadTailProperties, EmptySeq
<1>2. ASSUME NEW y \in Items(q) PROVE y \in {Head(q)} \cup Items(t)
  <2>1. PICK i \in 1..Len(q) : y = q[i]
    BY DEF Items
  <2>2. CASE i = 1
    BY <1>1, <2>1, <2>2
  <2>3. CASE i # 1
    <3>1. i - 1 \in 1..Len(t) /\ t[i - 1] = y
      BY <1>1, <2>1, <2>3
    <3> QED
      BY <3>1 DEF Items
  <2> QED
    BY <2>2, <2>3
<1>3. ASSUME NEW y \in {Head(q)} \cup Items(t) PROVE y \in Items(q)
  <2>1. CASE y = Head(q)
    <3>1. 1 \in 1..Len(q) /\ q[1] = y
      BY <1>1, <2>1
    <3> QED
      BY <3>1 DEF Items
  <2>2. CASE y \in Items(t)
    <3>1. PICK i \in 1..Len(t) : y = t[i]
      BY <2>2 DEF Items
    <3>2. i + 1 \in 1..Len(q) /\ q[i + 1] = y
      BY <1>1, <3>1
    <3> QED
      BY <3>2 DEF Items
  <2> QED
    BY <1>3, <2>1, <2>2
<1> QED
  BY <1>1, <1>2, <1>3

LEMMA ItemsTyped == ASSUME NEW S, NEW q \in Seq(S) PROVE Items(q) \subseteq S
BY DEF Items

LEMMA TaskKinds ==
    /\ \A h \in Handles : \A do \in {"accept", "finish"} : [do |-> do, h |-> h] \in Tasks
    /\ [do |-> "flush"] \in Tasks
    /\ \A task \in Tasks : /\ task.do \in {"accept", "finish", "flush"}
                           /\ task.do # "flush" => task.h \in Handles
BY DEF Tasks

\* What a callback defers is added, or lost when the queue is full.
LEMMA DeferDoes ==
    ASSUME GuardTyped, NEW task \in Tasks, Down!Deferred(task)
    PROVE  /\ guard' \in GuardType /\ refused' \in BOOLEAN
           /\ guard'.active = guard.active /\ guard'.running = guard.running
           /\ Does(guard.queue) \subseteq Does(guard'.queue)
           /\ Does(guard'.queue) \subseteq Does(guard.queue) \cup {task.do}
           /\ task.do = "flush" => refused' \/ "flush" \in Does(guard'.queue)
           /\ refused => refused'
<1> DEFINE q == Append(guard.queue, task)
<1>1. /\ guard \in GuardType /\ guard.queue \in Seq(Tasks) /\ guard.started \in BOOLEAN
  BY DEF GuardTyped, GuardType
<1>2. q \in Seq(Tasks) /\ Items(q) = Items(guard.queue) \cup {task}
  BY <1>1, ItemsOfAppend
<1>3. Does(q) = Does(guard.queue) \cup {task.do}
  BY <1>2 DEF Does
<1>4. refused' \in BOOLEAN /\ (refused => refused')
      /\ (task.do = "flush" /\ ~Down!CanDefer(guard) => refused')
  BY DEF Down!Deferred, GuardTyped
<1>5. CASE Down!CanDefer(guard)
  <2>1. guard' = [guard EXCEPT !.queue = q]
    BY <1>5 DEF Down!Deferred, Down!Defer
  <2>2. /\ guard' \in GuardType /\ guard'.active = guard.active
        /\ guard'.running = guard.running /\ guard'.queue = q
    BY <1>1, <1>2, <2>1 DEF GuardType
  <2> QED
    BY <1>3, <1>4, <1>5, <2>2
<1>6. CASE ~Down!CanDefer(guard)
  <2>1. guard' = guard
    BY <1>6 DEF Down!Deferred, Down!Defer
  <2> QED
    BY <1>1, <1>4, <1>6, <2>1
<1> QED
  BY <1>5, <1>6

\* The worker takes the oldest task, with no callback inside.
LEMMA TakeDoes ==
    ASSUME GuardTyped, Down!CanTake(guard)
    PROVE  /\ Head(guard.queue) \in Tasks /\ guard.active = 0
           /\ Down!Take(guard) \in GuardType /\ Down!Finish(Down!Take(guard)) \in GuardType
           /\ Down!Take(guard).active = 0 /\ Down!Finish(Down!Take(guard)).active = 0
           /\ Down!Take(guard).running = Head(guard.queue)
           /\ Down!Finish(Down!Take(guard)).running = [do |-> "none"]
           /\ Down!Take(guard).queue = Tail(guard.queue)
           /\ Down!Finish(Down!Take(guard)).queue = Tail(guard.queue)
           /\ Does(guard.queue) = {Head(guard.queue).do} \cup Does(Tail(guard.queue))
<1>1. /\ guard.queue \in Seq(Tasks) /\ guard.started \in BOOLEAN /\ guard \in GuardType
      /\ guard.queue # <<>> /\ guard.active = 0
  BY DEF GuardTyped, GuardType, Down!CanTake
<1>2. /\ Tail(guard.queue) \in Seq(Tasks) /\ Head(guard.queue) \in Tasks
      /\ Items(guard.queue) = {Head(guard.queue)} \cup Items(Tail(guard.queue))
  BY <1>1, ItemsOfTail
<1>3. Does(guard.queue) = {Head(guard.queue).do} \cup Does(Tail(guard.queue))
  BY <1>2 DEF Does
<1>4. /\ Down!Take(guard) = [guard EXCEPT !.running = Head(guard.queue),
                                          !.queue = Tail(guard.queue)]
      /\ Down!Finish(Down!Take(guard)) =
            [guard EXCEPT !.running = [do |-> "none"], !.queue = Tail(guard.queue)]
  BY <1>1 DEF Down!Take, Down!Finish, Down!NoTask, GuardType
<1> QED
  BY <1>1, <1>2, <1>3, <1>4 DEF GuardType

LEMMA FinishDoes ==
    ASSUME GuardTyped, guard' = Down!Finish(guard)
    PROVE  /\ guard' \in GuardType /\ guard'.active = guard.active
           /\ guard'.queue = guard.queue /\ guard'.running = [do |-> "none"]
BY DEF GuardTyped, GuardType, Down!Finish, Down!NoTask

LEMMA HandlesFinite == IsFiniteSet(Handles)
BY PartsAssumption DEF Down!DownlinkAssumption, Down!IsFiniteSet, IsFiniteSet

\* The callbacks inside, counted.
LEMMA OneMoreInside ==
    ASSUME GuardTyped, GuardCounts, NEW h \in Handles, frames[h].at = "none",
           guard' = Down!Enter(guard), Inside' = Inside \cup {h}
    PROVE  /\ guard' \in GuardType /\ guard'.active = Cardinality(Inside')
           /\ guard'.queue = guard.queue /\ guard'.running = guard.running
<1>1. IsFiniteSet(Inside) /\ h \notin Inside
  BY HandlesFinite, FS_Subset DEF Inside
<1>2. Cardinality(Inside') = Cardinality(Inside) + 1
  BY <1>1, FS_AddElement
<1> QED
  BY <1>2 DEF GuardTyped, GuardType, GuardCounts, Down!Enter

LEMMA OneLessInside ==
    ASSUME GuardTyped, GuardCounts, NEW h \in Handles, frames[h].at # "none",
           guard' = Down!Leave(guard), Inside' = Inside \ {h}
    PROVE  /\ guard' \in GuardType /\ guard'.active = Cardinality(Inside')
           /\ guard'.queue = guard.queue /\ guard'.running = guard.running
<1>1. IsFiniteSet(Inside) /\ h \in Inside
  BY HandlesFinite, FS_Subset DEF Inside
<1>2. Cardinality(Inside') = Cardinality(Inside) - 1 /\ Cardinality(Inside) \in Nat
      /\ Cardinality(Inside') \in Nat
  BY <1>1, FS_RemoveElement, FS_CardinalityType
<1> QED
  BY <1>2 DEF GuardTyped, GuardType, GuardCounts, Down!Leave

LEMMA NobodyInside ==
    ASSUME GuardCounts, guard.active = 0
    PROVE  \A h \in Handles : frames[h].at = "none"
<1>1. IsFiniteSet(Inside)
  BY HandlesFinite, FS_Subset DEF Inside
<1>2. Inside = {}
  BY <1>1, FS_EmptySet DEF GuardCounts
<1> QED
  BY <1>2 DEF Inside

-----------------------------------------------------------------------------
(* Downlink: every step keeps the invariant. *)

\* A new session: what is left of the last one cannot be taken for it.
LEMMA StartSessionDown == ASSUME DownInv, Down!StartSession PROVE DownInv'
<1>1. /\ session = "off" /\ generation' = generation + 1 /\ generation \in Nat
      /\ session' \in {"on", "off"} /\ epoch' \in {epoch, epoch + 1}
      /\ sink' \subseteq sink /\ sink = {}
      /\ UNCHANGED <<business, links, made, clients, frames, guard, flushing, refused,
                     heardQueue, mediaWorker>>
  BY DEF Down!StartSession, Down!linkVars, Down!guardVars, Down!Flushed, DownInv,
         SessionTyped, OfThisSession
<1>2. SessionTyped' /\ LinkTyped' /\ GuardTyped' /\ RoomTyped'
  BY <1>1 DEF DownInv, SessionTyped, LinkTyped, GuardTyped, RoomTyped
<1>3. GuardCounts' /\ GuardWork'
  BY <1>1 DEF DownInv, GuardCounts, GuardWork, Inside, Passing
<1>4. \A h \in Handles : clients[h] = "free" /\ ~Passing(h)
  BY <1>1 DEF DownInv, OfThisSession
<1>5. OfThisSession' /\ FlushAhead'
  BY <1>1, <1>4 DEF OfThisSession, FlushAhead, Passing
<1>6. InRoom'
  BY <1>1 DEF DownInv, InRoom
<1> QED
  BY <1>2, <1>3, <1>5, <1>6 DEF DownInv

LEMMA StopSessionDown == ASSUME DownInv, Down!StopSession PROVE DownInv'
<1>1. /\ session = "on" /\ session' = "stopping" /\ clients' = [h \in Handles |-> "free"]
      /\ \A h \in Handles : links'[h] \in {links[h], "closing"}
            /\ (links[h] = "none" => links'[h] = "none")
      /\ links' \in [Handles -> {"none", "open", "closing"}] /\ epoch' \in {epoch,
            epoch + 1}
      /\ UNCHANGED <<business, generation, made, frames, guard, flushing, refused,
                     heardQueue, mediaWorker, sink>>
  BY DEF Down!StopSession, Down!guardVars, Down!Silent, DownInv, LinkTyped
<1>2. SessionTyped' /\ LinkTyped' /\ GuardTyped' /\ RoomTyped'
  BY <1>1 DEF DownInv, SessionTyped, LinkTyped, GuardTyped, RoomTyped
<1>3. GuardCounts'
  BY <1>1 DEF DownInv, GuardCounts, Inside, LinkTyped
<1>4. OfThisSession' /\ FlushAhead' /\ GuardWork'
  BY <1>1 DEF DownInv, OfThisSession, FlushAhead, GuardWork, Passing
<1>5. InRoom'
  BY <1>1 DEF DownInv, InRoom
<1> QED
  BY <1>2, <1>3, <1>4, <1>5 DEF DownInv

\* The stop has waited for every callback, so that its flush is the last.
LEMMA SessionStoppedDown == ASSUME DownInv, Down!SessionStopped PROVE DownInv'
<1>1. /\ session = "stopping" /\ session' = "off"
            /\ sink' = {f \in sink : f.tag # generation}
      /\ UNCHANGED <<business, generation, links, made, clients, frames, guard, flushing,
                     refused, epoch, heardQueue, mediaWorker>>
  BY DEF Down!SessionStopped, Down!linkVars, Down!guardVars, Down!roomVars, Down!Flushed
<1>2. sink' = {}
  BY <1>1 DEF DownInv, OfThisSession
<1>3. \A h \in Handles : ~Passing(h)
  <2>1. CASE business = "room"
    BY <2>1 DEF DownInv, InRoom, Passing
  <2>2. CASE business # "room"
    <3>1. guard.active = 0
      BY <2>2 DEF Down!SessionStopped, Down!Quiet, Down!Drained
    <3> QED
      BY <3>1, NobodyInside DEF DownInv, Passing
  <2> QED
    BY <2>1, <2>2
<1>4. SessionTyped' /\ LinkTyped' /\ GuardTyped' /\ RoomTyped'
  BY <1>1, <1>2 DEF DownInv, SessionTyped, LinkTyped, GuardTyped, RoomTyped
<1>5. GuardCounts' /\ GuardWork'
  BY <1>1 DEF DownInv, GuardCounts, GuardWork, Inside, Passing
<1>6. OfThisSession' /\ FlushAhead'
  BY <1>1, <1>2, <1>3 DEF DownInv, OfThisSession, FlushAhead, Passing
<1>7. business = "room" => mediaWorker.at \in {"idle", "taken"}
  BY DEF Down!SessionStopped, Down!Quiet
<1>8. InRoom'
  BY <1>1, <1>7 DEF DownInv, InRoom
<1> QED
  BY <1>4, <1>5, <1>6, <1>8 DEF DownInv

LEMMA AcceptClientDown ==
    ASSUME DownInv, NEW h \in Handles, Down!AcceptClient(h) PROVE DownInv'
<1> DEFINE task == [do |-> "accept", h |-> h]
<1>1. /\ business = "stream" /\ session = "on" /\ links[h] = "none" /\ clients[h] = "free"
      /\ links' = [links EXCEPT ![h] = "open"] /\ made' = [made EXCEPT ![h] = generation]
      /\ clients' = [clients EXCEPT ![h] = "pending"] /\ Down!Deferred(task)
      /\ UNCHANGED <<business, session, generation, frames, flushing, epoch, heardQueue,
                     mediaWorker, sink>>
  BY DEF Down!AcceptClient, Down!connFrame, Down!roomVars
<1>2. /\ guard' \in GuardType /\ refused' \in BOOLEAN
      /\ guard'.active = guard.active /\ guard'.running = guard.running
      /\ Does(guard.queue) \subseteq Does(guard'.queue)
      /\ Does(guard'.queue) \subseteq Does(guard.queue) \cup {"accept"}
      /\ refused => refused'
  BY <1>1, TaskKinds, DeferDoes DEF DownInv
<1>3. SessionTyped' /\ LinkTyped' /\ GuardTyped' /\ RoomTyped'
  BY <1>1, <1>2 DEF DownInv, SessionTyped, LinkTyped, GuardTyped, RoomTyped
<1>4. GuardCounts'
  BY <1>1, <1>2 DEF DownInv, GuardCounts, Inside, LinkTyped
<1>5. frames[h].at = "none"
  BY <1>1 DEF DownInv, GuardCounts
<1>6. OfThisSession'
  BY <1>1, <1>5 DEF DownInv, OfThisSession, LinkTyped, Passing
<1>7. InRoom'
  BY <1>1 DEF DownInv, InRoom
<1>8. GuardWork'
  BY <1>1, <1>2 DEF DownInv, GuardWork, LinkTyped, Passing
<1>9. FlushAhead'
  BY <1>1, <1>2 DEF DownInv, FlushAhead, LinkTyped, Passing, Talking
<1> QED
  BY <1>3, <1>4, <1>6, <1>7, <1>8, <1>9 DEF DownInv

LEMMA DialledDown ==
    ASSUME DownInv, NEW h \in Handles, Down!Dialled(h) PROVE DownInv'
<1>1. /\ business # "stream" /\ session = "on" /\ links[h] = "none"
      /\ clients = [k \in Handles |-> "free"]
      /\ business = "room" => made[h] = 0
      /\ links' = [links EXCEPT ![h] = "open"] /\ made' = [made EXCEPT ![h] = generation]
      /\ clients' = [clients EXCEPT ![h] = "known"]
      /\ UNCHANGED <<business, session, generation, frames, guard, flushing, refused, epoch,
                     heardQueue, mediaWorker, sink>>
  BY DEF Down!Dialled, Down!connFrame, Down!roomVars, Down!Silent
<1>2. SessionTyped' /\ LinkTyped' /\ GuardTyped' /\ RoomTyped'
  BY <1>1 DEF DownInv, SessionTyped, LinkTyped, GuardTyped, RoomTyped
<1>3. GuardCounts'
  BY <1>1 DEF DownInv, GuardCounts, Inside, LinkTyped
<1>4. frames[h].at = "none"
  BY <1>1 DEF DownInv, GuardCounts
<1>5. OfThisSession'
  BY <1>1, <1>4 DEF DownInv, OfThisSession, LinkTyped, Passing
<1>6. InRoom'
  <2>1. CASE business # "room"
    BY <1>1, <2>1 DEF DownInv, InRoom
  <2>2. CASE business = "room"
    <3>1. made[h] = 0 /\ made' = [made EXCEPT ![h] = generation] /\ generation # 0
          /\ made \in [Handles -> Nat] /\ links \in [Handles -> {"none", "open", "closing"}]
      BY <1>1, <2>2 DEF DownInv, LinkTyped, SessionTyped
    <3>2. \A f \in Items(heardQueue) : f.h # h => f.of = made'[f.h]
      BY <3>1, <2>2, ItemsTyped DEF DownInv, RoomTyped, InRoom
    <3>3. \A f \in Items(heardQueue) : f.h # h
      BY <3>1, <2>2 DEF DownInv, InRoom
    <3>4. mediaWorker.at # "idle" => mediaWorker.h # h
             /\ mediaWorker.of = made'[mediaWorker.h]
      BY <3>1, <2>2 DEF DownInv, InRoom, RoomTyped
    <3>5. \A k \in Handles : frames[k].at = "none" /\ (links'[k] # "none" => made'[k] # 0)
      BY <3>1, <2>2, <1>1 DEF DownInv, InRoom
    <3> QED
      BY <3>2, <3>3, <3>4, <3>5, <1>1, <2>2 DEF DownInv, InRoom
  <2> QED
    BY <2>1, <2>2
<1>7. GuardWork'
  BY <1>1 DEF DownInv, GuardWork, LinkTyped, Passing
<1>8. FlushAhead'
  BY <1>1 DEF FlushAhead
<1> QED
  BY <1>2, <1>3, <1>5, <1>6, <1>7, <1>8 DEF DownInv

LEMMA ListenDown ==
    ASSUME DownInv, NEW h \in Handles, Down!Listen(h) PROVE DownInv'
<1>1. /\ business \in {"call", "room"} /\ clients[h] = "known"
      /\ clients' = [clients EXCEPT ![h] = "heard"]
      /\ UNCHANGED <<business, session, generation, links, made, frames, guard, flushing,
                     refused, epoch, heardQueue, mediaWorker, sink>>
  BY DEF Down!Listen, Down!connFrame, Down!roomVars, Down!linkVars
<1>2. SessionTyped' /\ LinkTyped' /\ GuardTyped' /\ RoomTyped'
  BY <1>1 DEF DownInv, SessionTyped, LinkTyped, GuardTyped, RoomTyped
<1>3. GuardCounts' /\ InRoom'
  BY <1>1 DEF DownInv, GuardCounts, Inside, InRoom
<1>4. OfThisSession' /\ FlushAhead'
  BY <1>1 DEF DownInv, OfThisSession, LinkTyped, Passing, FlushAhead
<1>5. GuardWork'
  BY <1>1 DEF DownInv, GuardWork, Passing
<1> QED
  BY <1>2, <1>3, <1>4, <1>5 DEF DownInv

LEMMA SendFailsDown ==
    ASSUME DownInv, NEW h \in Handles, Down!SendFails(h) PROVE DownInv'
<1> DEFINE task == [do |-> "flush"]
<1>1. /\ business = "stream" /\ clients[h] \in {"known", "heard"}
      /\ clients' = [clients EXCEPT ![h] = "free"]
      /\ links' = [links EXCEPT ![h] = IF @ = "open" THEN "closing" ELSE @]
      /\ Down!Deferred(task)
      /\ UNCHANGED <<business, session, generation, made, frames, flushing, epoch,
            heardQueue,
                     mediaWorker, sink>>
  BY DEF Down!SendFails, Down!connFrame, Down!roomVars
<1>2. /\ guard' \in GuardType /\ refused' \in BOOLEAN
      /\ guard'.active = guard.active /\ guard'.running = guard.running
      /\ Does(guard'.queue) \subseteq Does(guard.queue) \cup {"flush"}
      /\ refused' \/ "flush" \in Does(guard'.queue)
  BY <1>1, TaskKinds, DeferDoes DEF DownInv
<1>3. SessionTyped' /\ LinkTyped' /\ GuardTyped' /\ RoomTyped'
  BY <1>1, <1>2 DEF DownInv, SessionTyped, LinkTyped, GuardTyped, RoomTyped
<1>4. GuardCounts'
  BY <1>1, <1>2 DEF DownInv, GuardCounts, Inside, LinkTyped
<1>5. OfThisSession'
  BY <1>1 DEF DownInv, OfThisSession, LinkTyped, Passing
<1>6. InRoom'
  BY <1>1 DEF DownInv, InRoom
<1>7. GuardWork'
  BY <1>1, <1>2 DEF DownInv, GuardWork, LinkTyped, Passing
<1>8. FlushAhead'
  BY <1>2 DEF FlushAhead
<1> QED
  BY <1>3, <1>4, <1>5, <1>6, <1>7, <1>8 DEF DownInv

LEMMA OnDisconnectedDown ==
    ASSUME DownInv, NEW h \in Handles, Down!OnDisconnected(h) PROVE DownInv'
<1>1. /\ links[h] # "none" /\ frames[h] = Down!NoFrame
      /\ links' = [links EXCEPT ![h] = "none"]
      /\ UNCHANGED <<business, session, generation, made, frames, flushing, epoch,
            heardQueue,
                     mediaWorker, sink>>
  BY DEF Down!OnDisconnected, Down!connFrame, Down!roomVars
<1>2. CASE business = "stream"
  <2>1. clients' = [clients EXCEPT ![h] = "free"] /\ Down!Deferred([do |-> "flush"])
    BY <1>2 DEF Down!OnDisconnected
  <2>2. /\ guard' \in GuardType /\ refused' \in BOOLEAN
        /\ guard'.active = guard.active /\ guard'.running = guard.running
        /\ Does(guard'.queue) \subseteq Does(guard.queue) \cup {"flush"}
        /\ refused' \/ "flush" \in Does(guard'.queue)
    BY <2>1, TaskKinds, DeferDoes DEF DownInv
  <2>3. SessionTyped' /\ LinkTyped' /\ GuardTyped' /\ RoomTyped'
    BY <1>1, <2>1, <2>2 DEF DownInv, SessionTyped, LinkTyped, GuardTyped, RoomTyped
  <2>4. OfThisSession'
    BY <1>1, <2>1 DEF DownInv, OfThisSession, LinkTyped, Passing
  <2>5. GuardCounts'
    BY <1>1, <2>2 DEF DownInv, GuardCounts, Inside, LinkTyped, Down!NoFrame
  <2>6. InRoom'
    BY <1>1, <1>2 DEF DownInv, InRoom
  <2>7. GuardWork'
    BY <1>1, <1>2, <2>1, <2>2 DEF DownInv, GuardWork, LinkTyped, Passing
  <2>8. FlushAhead'
    BY <2>2 DEF FlushAhead
  <2> QED
    BY <2>3, <2>4, <2>5, <2>6, <2>7, <2>8 DEF DownInv
<1>3. CASE business = "room"
  <2>1. UNCHANGED <<clients, guard, refused>>
    BY <1>3 DEF Down!OnDisconnected
  <2>2. SessionTyped' /\ LinkTyped' /\ GuardTyped' /\ RoomTyped'
    BY <1>1, <2>1 DEF DownInv, SessionTyped, LinkTyped, GuardTyped, RoomTyped
  <2>3. OfThisSession' /\ FlushAhead' /\ GuardWork'
    BY <1>1, <2>1, <1>3 DEF DownInv, OfThisSession, FlushAhead, GuardWork, Passing
  <2>4. GuardCounts'
    BY <1>1, <2>1 DEF DownInv, GuardCounts, Inside, LinkTyped, Down!NoFrame
  <2>5. InRoom'
    BY <1>1, <1>3 DEF DownInv, InRoom, LinkTyped
  <2> QED
    BY <2>2, <2>3, <2>4, <2>5 DEF DownInv
<1>4. CASE business \notin {"stream", "room"}
  <2>1. UNCHANGED clients /\ Down!Deferred([do |-> "finish", h |-> h])
    BY <1>4 DEF Down!OnDisconnected
  <2>2. /\ guard' \in GuardType /\ refused' \in BOOLEAN
        /\ guard'.active = guard.active /\ guard'.running = guard.running
        /\ Does(guard'.queue) \subseteq Does(guard.queue) \cup {"finish"}
    BY <2>1, TaskKinds, DeferDoes DEF DownInv
  <2>3. SessionTyped' /\ LinkTyped' /\ GuardTyped' /\ RoomTyped'
    BY <1>1, <2>1, <2>2 DEF DownInv, SessionTyped, LinkTyped, GuardTyped, RoomTyped
  <2>4. OfThisSession' /\ FlushAhead'
    BY <1>1, <1>4, <2>1 DEF DownInv, OfThisSession, Passing, FlushAhead
  <2>5. GuardCounts'
    BY <1>1, <2>2 DEF DownInv, GuardCounts, Inside, LinkTyped, Down!NoFrame
  <2>6. InRoom'
    BY <1>1, <1>4 DEF DownInv, InRoom
  <2>7. GuardWork'
    BY <1>1, <1>4, <2>1, <2>2 DEF DownInv, GuardWork, Passing
  <2> QED
    BY <2>3, <2>4, <2>5, <2>6, <2>7 DEF DownInv
<1> QED
  BY <1>2, <1>3, <1>4

\* The guard's worker takes a task: nobody is inside, and what is left of the
\* queue has lost no flush but the one it now looks at.
LEMMA TakeTaskDown == ASSUME DownInv, Down!TakeTask PROVE DownInv'
<1> DEFINE task == Head(guard.queue)
<1>1. /\ Down!CanTake(guard)
      /\ UNCHANGED <<business, session, generation, links, made, frames, refused, epoch,
                     heardQueue, mediaWorker, sink>>
  BY DEF Down!TakeTask, Down!workerFrame, Down!linkVars, Down!roomVars
<1>2. /\ task \in Tasks /\ guard.active = 0
      /\ Does(guard.queue) = {task.do} \cup Does(Tail(guard.queue))
  BY <1>1, TakeDoes DEF DownInv
<1>3. \/ guard' = Down!Take(guard) \/ guard' = Down!Finish(Down!Take(guard))
  BY DEF Down!TakeTask
<1>4. /\ guard' \in GuardType /\ guard'.active = 0 /\ guard'.queue = Tail(guard.queue)
      /\ guard'.running = task \/ guard'.running = [do |-> "none"]
  BY <1>1, <1>3, TakeDoes DEF DownInv
<1>5. \A h \in Handles : frames[h].at = "none"
  BY <1>2, NobodyInside DEF DownInv
<1>6. \/ /\ task.do = "accept" /\ UNCHANGED flushing
         /\ \/ UNCHANGED clients
            \/ clients[task.h] = "pending"
                  /\ clients' = [clients EXCEPT ![task.h] = "known"]
      \/ /\ task.do = "finish" /\ UNCHANGED flushing
         /\ clients' = [clients EXCEPT ![task.h] = "free"]
      \/ /\ task.do = "flush" /\ UNCHANGED clients /\ flushing' = ~Talking
         /\ ~Talking => guard'.running = task
  <2>1. CASE task.do = "flush"
    <3>1. flushing' = ~Talking /\ UNCHANGED clients
          /\ guard' = IF Talking THEN Down!Finish(Down!Take(guard)) ELSE Down!Take(guard)
      BY <2>1 DEF Down!TakeTask, Talking
    <3> QED
      BY <2>1, <3>1, <1>1, TakeDoes DEF DownInv
  <2>2. CASE task.do # "flush"
    BY <2>2 DEF Down!TakeTask
  <2> QED
    BY <2>1, <2>2
<1>7. flushing' \in BOOLEAN
  BY <1>6 DEF DownInv, GuardTyped
<1>8. SessionTyped' /\ RoomTyped' /\ GuardTyped'
  BY <1>1, <1>4, <1>7 DEF DownInv, SessionTyped, RoomTyped, GuardTyped
<1>9. /\ clients' \in [Handles -> {"free", "pending", "known", "heard"}]
      /\ \A h \in Handles : /\ clients'[h] # "free" => clients[h] # "free"
                            /\ clients'[h] = "heard" => clients[h] = "heard"
      /\ task.do # "finish" =>
            \A h \in Handles : clients[h] = "heard" => clients'[h] = "heard"
  BY <1>2, <1>6, TaskKinds DEF DownInv, LinkTyped
<1>10. LinkTyped'
  BY <1>1, <1>9 DEF DownInv, LinkTyped
<1>11. GuardCounts'
  BY <1>1, <1>2, <1>4 DEF DownInv, GuardCounts, Inside
<1>12. OfThisSession'
  BY <1>1, <1>9 DEF DownInv, OfThisSession, Passing
<1>13. InRoom'
  BY <1>1 DEF DownInv, InRoom
<1>14. flushing' => /\ guard'.running.do = "flush"
                    /\ \A h \in Handles : clients'[h] # "heard" /\ ~Passing(h)'
  <2>1. \A h \in Handles : ~Passing(h)' /\ ~Passing(h)
    BY <1>1, <1>5 DEF Passing
  <2>2. CASE task.do = "flush"
    BY <1>6, <2>1, <2>2 DEF Talking
  <2>3. CASE task.do # "flush"
    <3>1. ~flushing
      BY <1>1 DEF Down!CanTake, Down!NoTask, DownInv, GuardWork
    <3> QED
      BY <1>6, <2>3, <3>1
  <2> QED
    BY <2>2, <2>3
<1>15. GuardWork'
  BY <1>1, <1>2, <1>4, <1>14 DEF DownInv, GuardWork
<1>16. FlushAhead'
  <2> SUFFICES ASSUME business = "stream", session = "on",
                      sink # {}, ~(flushing' \/ "flush" \in Does(guard.queue)' \/ refused')
               PROVE  Talking'
    BY <1>1, <1>5 DEF FlushAhead, Passing
  <2>1. task.do = "accept" \/ task.do = "flush"
    BY <1>2 DEF DownInv, GuardWork
  <2>2. CASE task.do = "flush"
    <3>1. Talking /\ UNCHANGED clients
      BY <1>6, <2>2
    <3> QED
      BY <3>1 DEF Talking
  <2>3. CASE task.do = "accept"
    <3>1. ~flushing /\ "flush" \notin Does(guard.queue) /\ ~refused
      BY <1>1, <1>2, <1>4, <1>6, <2>3
    <3>2. Talking
      BY <3>1 DEF DownInv, FlushAhead
    <3> QED
      BY <3>2, <1>9, <2>3 DEF Talking
  <2> QED
    BY <2>1, <2>2, <2>3
<1> QED
  BY <1>8, <1>10, <1>11, <1>12, <1>13, <1>15, <1>16 DEF DownInv

LEMMA SubscribedDown == ASSUME DownInv, Down!Subscribed PROVE DownInv'
<1>1. /\ guard.running.do = "accept" /\ guard' = Down!Finish(guard)
      /\ \/ UNCHANGED clients
         \/ /\ clients[guard.running.h] = "known"
            /\ clients' = [clients EXCEPT ![guard.running.h] = "heard"]
      /\ UNCHANGED <<business, session, generation, links, made, frames, flushing, refused,
                     epoch, heardQueue, mediaWorker, sink>>
  BY DEF Down!Subscribed, Down!workerFrame, Down!linkVars, Down!roomVars
<1>2. /\ guard' \in GuardType /\ guard'.active = guard.active
      /\ guard'.queue = guard.queue /\ guard'.running.do = "none"
  BY <1>1, FinishDoes DEF DownInv
<1>3. guard.running.h \in Handles
  BY <1>1, TaskKinds DEF DownInv, GuardTyped, GuardType
<1>4. /\ clients' \in [Handles -> {"free", "pending", "known", "heard"}]
      /\ \A h \in Handles : /\ clients'[h] # "free" => clients[h] # "free"
                            /\ clients[h] = "heard" => clients'[h] = "heard"
  BY <1>1, <1>3 DEF DownInv, LinkTyped
<1>5. SessionTyped' /\ LinkTyped' /\ RoomTyped' /\ GuardTyped'
  BY <1>1, <1>2, <1>4 DEF DownInv, SessionTyped, LinkTyped, RoomTyped, GuardTyped
<1>6. GuardCounts' /\ InRoom'
  BY <1>1, <1>2 DEF DownInv, GuardCounts, Inside, InRoom
<1>7. OfThisSession'
  BY <1>1, <1>4 DEF DownInv, OfThisSession, Passing
<1>8. ~flushing
  BY <1>1 DEF DownInv, GuardWork
<1>9. GuardWork'
  BY <1>1, <1>2, <1>8 DEF DownInv, GuardWork
<1>10. FlushAhead'
  BY <1>1, <1>2, <1>4 DEF DownInv, FlushAhead, Passing, Talking
<1> QED
  BY <1>5, <1>6, <1>7, <1>9, <1>10 DEF DownInv

\* Nothing that passes is left when the flush comes, because nobody talks.
LEMMA FlushUnusedDown == ASSUME DownInv, Down!FlushUnused PROVE DownInv'
<1>1. /\ flushing /\ flushing' = FALSE /\ guard' = Down!Finish(guard)
      /\ sink' = {f \in sink : f.tag # generation}
      /\ UNCHANGED <<business, session, generation, links, made, clients, frames, refused,
                     epoch, heardQueue, mediaWorker>>
  BY DEF Down!FlushUnused, Down!workerFrame, Down!linkVars, Down!roomVars, Down!Flushed
<1>2. /\ guard' \in GuardType /\ guard'.active = guard.active
      /\ guard'.queue = guard.queue /\ guard'.running.do = "none"
  BY <1>1, FinishDoes DEF DownInv
<1>3. sink' = {}
  BY <1>1 DEF DownInv, OfThisSession
<1>4. SessionTyped' /\ LinkTyped' /\ RoomTyped' /\ GuardTyped'
  BY <1>1, <1>2, <1>3 DEF DownInv, SessionTyped, LinkTyped, RoomTyped, GuardTyped
<1>5. GuardCounts' /\ InRoom'
  BY <1>1, <1>2 DEF DownInv, GuardCounts, Inside, InRoom
<1>6. OfThisSession'
  BY <1>1, <1>3 DEF DownInv, OfThisSession, Passing
<1>7. GuardWork'
  BY <1>1, <1>2 DEF DownInv, GuardWork
<1>8. FlushAhead'
  BY <1>1, <1>3 DEF DownInv, GuardWork, FlushAhead, Passing
<1> QED
  BY <1>4, <1>5, <1>6, <1>7, <1>8 DEF DownInv

LEMMA FrameArrivesDown ==
    ASSUME DownInv, NEW h \in Handles, Down!FrameArrives(h) PROVE DownInv'
<1>1. /\ business # "room" /\ links[h] # "none" /\ frames[h] = Down!NoFrame
      /\ frames' = [frames EXCEPT ![h].at = "in"] /\ guard' = Down!Enter(guard)
      /\ UNCHANGED <<business, session, generation, links, made, clients, flushing, refused,
                     epoch, heardQueue, mediaWorker, sink>>
  BY DEF Down!FrameArrives, Down!frameFrame, Down!linkVars, Down!roomVars
<1>2. /\ frames' \in [Handles -> FrameType] /\ frames'[h].at = "in" /\ frames'[h].tag = 0
      /\ frames[h].at = "none"
      /\ \A k \in Handles \ {h} : frames'[k] = frames[k]
  BY <1>1 DEF DownInv, LinkTyped, FrameType, Down!NoFrame
<1>3. Inside' = Inside \cup {h}
  BY <1>2 DEF Inside
<1>4. /\ guard' \in GuardType /\ guard'.active = Cardinality(Inside')
      /\ guard'.queue = guard.queue /\ guard'.running = guard.running
  BY <1>1, <1>2, <1>3, OneMoreInside DEF DownInv
<1>5. \A k \in Handles : Passing(k)' => Passing(k)
  BY <1>2 DEF Passing
<1>6. SessionTyped' /\ LinkTyped' /\ RoomTyped' /\ GuardTyped'
  BY <1>1, <1>2, <1>4 DEF DownInv, SessionTyped, LinkTyped, RoomTyped, GuardTyped
<1>7. GuardCounts'
  BY <1>1, <1>2, <1>4 DEF DownInv, GuardCounts
<1>8. OfThisSession'
  BY <1>1, <1>2, <1>5 DEF DownInv, OfThisSession
<1>9. InRoom' /\ GuardWork'
  BY <1>1, <1>4, <1>5 DEF DownInv, InRoom, GuardWork
<1>10. FlushAhead'
  BY <1>1, <1>4, <1>5 DEF DownInv, FlushAhead, Talking
<1> QED
  BY <1>6, <1>7, <1>8, <1>9, <1>10 DEF DownInv

\* Whoever is listened to is known, and in a stream talks.
LEMMA WantedIsKnown ==
    ASSUME LinkTyped, SessionTyped, NEW h \in Handles, business # "room", Down!Wants(h)
    PROVE  clients[h] # "free" /\ (business = "stream" => clients[h] = "heard")
<1>1. business \in {"stream", "ai", "voip", "call"}
  BY PartsAssumption DEF SessionTyped, Down!DownlinkAssumption
<1> QED
  BY <1>1 DEF Down!Wants, Down!_on_audio, Down!_a_on_audio, Down!_von_audio,
              Down!_call_on_audio

\* A callback that goes away leaves the guard as it found it.
LEMMA FrameLeaves ==
    ASSUME DownInv, NEW h \in Handles, frames[h].at # "none",
           frames' = [frames EXCEPT ![h] = Down!NoFrame], guard' = Down!Leave(guard),
           UNCHANGED <<business, session, generation, links, made, clients, flushing,
              refused,
                       epoch, heardQueue, mediaWorker>>,
           sink' = sink
    PROVE  LinkTyped' /\ GuardTyped' /\ GuardCounts' /\ OfThisSession' /\ GuardWork'
              /\ FlushAhead'
<1>1. /\ frames' \in [Handles -> FrameType] /\ frames'[h].at = "none" /\ frames'[h].tag = 0
      /\ \A k \in Handles \ {h} : frames'[k] = frames[k]
  BY DEF DownInv, LinkTyped, FrameType, Down!NoFrame
<1>2. Inside' = Inside \ {h}
  BY <1>1 DEF Inside
<1>3. /\ guard' \in GuardType /\ guard'.active = Cardinality(Inside')
      /\ guard'.queue = guard.queue /\ guard'.running = guard.running
  BY <1>2, OneLessInside DEF DownInv
<1>4. \A k \in Handles : Passing(k)' => Passing(k)
  BY <1>1 DEF Passing
<1>5. LinkTyped' /\ GuardTyped'
  BY <1>1, <1>3 DEF DownInv, LinkTyped, GuardTyped
<1>6. GuardCounts'
  BY <1>1, <1>3 DEF DownInv, GuardCounts
<1>7. OfThisSession'
  BY <1>1, <1>4 DEF DownInv, OfThisSession
<1>8. GuardWork' /\ FlushAhead'
  BY <1>3, <1>4 DEF DownInv, GuardWork, FlushAhead, Talking
<1> QED
  BY <1>5, <1>6, <1>7, <1>8

LEMMA LookAtDown ==
    ASSUME DownInv, NEW h \in Handles, Down!LookAt(h) PROVE DownInv'
<1>1. /\ frames[h].at = "in"
      /\ UNCHANGED <<business, session, generation, links, made, clients, flushing, refused,
                     epoch, heardQueue, mediaWorker, sink>>
  BY DEF Down!LookAt, Down!frameFrame, Down!linkVars, Down!roomVars
<1>2. business # "room" /\ frames[h].tag = 0
  BY <1>1 DEF DownInv, InRoom, GuardCounts
<1>3. SessionTyped' /\ RoomTyped' /\ InRoom'
  BY <1>1, <1>2 DEF DownInv, SessionTyped, RoomTyped, InRoom
<1>4. CASE Down!Wants(h)
  <2>1. frames' = [frames EXCEPT ![h].at = "wanted"] /\ UNCHANGED guard
    BY <1>4 DEF Down!LookAt
  <2>2. /\ frames' \in [Handles -> FrameType] /\ frames'[h].at = "wanted"
              /\ frames'[h].tag = 0
        /\ \A k \in Handles \ {h} : frames'[k] = frames[k]
    BY <1>2, <2>1 DEF DownInv, LinkTyped, FrameType
  <2>3. /\ clients[h] # "free" /\ made[h] = generation /\ session = "on"
        /\ business = "stream" => clients[h] = "heard"
    BY <1>2, <1>4, WantedIsKnown DEF DownInv, OfThisSession
  <2>4. \A k \in Handles : Passing(k)' => Passing(k) \/ k = h
    BY <2>2 DEF Passing
  <2>5. LinkTyped' /\ GuardTyped'
    BY <1>1, <2>1, <2>2 DEF DownInv, LinkTyped, GuardTyped
  <2>6. Inside' = Inside
    BY <1>1, <2>2 DEF Inside
  <2>7. GuardCounts'
    BY <1>1, <2>1, <2>2, <2>6 DEF DownInv, GuardCounts
  <2>8. OfThisSession'
    BY <1>1, <2>2, <2>3, <2>4 DEF DownInv, OfThisSession
  <2>9. business = "stream" => Talking /\ Talking' /\ ~flushing
    BY <1>1, <2>3 DEF Talking, DownInv, GuardWork
  <2>10. flushing => business = "stream"
    BY DEF DownInv, GuardWork
  <2>11. GuardWork' /\ FlushAhead'
    BY <1>1, <2>1, <2>9, <2>10 DEF DownInv, GuardWork, FlushAhead
  <2> QED
    BY <1>3, <2>5, <2>7, <2>8, <2>11 DEF DownInv
<1>5. CASE ~Down!Wants(h)
  <2>1. frames' = [frames EXCEPT ![h] = Down!NoFrame] /\ guard' = Down!Leave(guard)
    BY <1>5 DEF Down!LookAt
  <2> QED
    BY <1>1, <1>3, <2>1, FrameLeaves DEF DownInv
<1> QED
  BY <1>4, <1>5

LEMMA MarkDown == ASSUME DownInv, NEW h \in Handles, Down!Mark(h) PROVE DownInv'
<1>1. /\ frames[h].at = "wanted"
      /\ frames' = [frames EXCEPT ![h] = [at |-> "marked", tag |-> generation]]
      /\ UNCHANGED <<business, session, generation, links, made, clients, guard, flushing,
                     refused, epoch, heardQueue, mediaWorker, sink>>
  BY DEF Down!Mark, Down!frameFrame, Down!linkVars, Down!roomVars
<1>2. /\ frames' \in [Handles -> FrameType] /\ frames'[h].at = "marked"
      /\ frames'[h].tag = generation /\ Passing(h)
      /\ \A k \in Handles \ {h} : frames'[k] = frames[k]
  BY <1>1 DEF DownInv, LinkTyped, FrameType, SessionTyped, Passing
<1>3. \A k \in Handles : Passing(k)' => Passing(k)
  BY <1>2 DEF Passing
<1>4. Inside' = Inside
  BY <1>1, <1>2 DEF Inside
<1>5. SessionTyped' /\ LinkTyped' /\ GuardTyped' /\ RoomTyped'
  BY <1>1, <1>2 DEF DownInv, SessionTyped, LinkTyped, GuardTyped, RoomTyped
<1>6. GuardCounts'
  BY <1>1, <1>2, <1>4 DEF DownInv, GuardCounts
<1>7. OfThisSession'
  BY <1>1, <1>2, <1>3 DEF DownInv, OfThisSession
<1>8. InRoom'
  BY <1>1 DEF DownInv, InRoom
<1>9. GuardWork' /\ FlushAhead'
  BY <1>1, <1>3 DEF DownInv, GuardWork, FlushAhead, Talking
<1> QED
  BY <1>5, <1>6, <1>7, <1>8, <1>9 DEF DownInv

\* A frame is marked with the session its connection was made for.
LEMMA SubmitDown == ASSUME DownInv, NEW h \in Handles, Down!Submit(h) PROVE DownInv'
<1> DEFINE heard == [tag |-> generation, of |-> generation]
<1>1. /\ frames[h].at = "marked" /\ guard' = Down!Leave(guard)
      /\ frames' = [frames EXCEPT ![h] = Down!NoFrame]
      /\ sink' = sink \cup {[tag |-> frames[h].tag, of |-> made[h]]}
      /\ UNCHANGED <<business, session, generation, links, made, clients, flushing,
                     refused, epoch, heardQueue, mediaWorker>>
  BY DEF Down!Submit, Down!frameFrame, Down!linkVars, Down!roomVars
<1>2. Passing(h) /\ sink' = sink \cup {heard} /\ session # "off"
  BY <1>1 DEF DownInv, OfThisSession, Passing
<1>3. /\ frames' \in [Handles -> FrameType] /\ frames'[h].at = "none" /\ frames'[h].tag = 0
      /\ \A k \in Handles \ {h} : frames'[k] = frames[k]
  BY <1>1 DEF DownInv, LinkTyped, FrameType, Down!NoFrame
<1>4. Inside' = Inside \ {h}
  BY <1>3 DEF Inside
<1>5. /\ guard' \in GuardType /\ guard'.active = Cardinality(Inside')
      /\ guard'.queue = guard.queue /\ guard'.running = guard.running
  BY <1>1, <1>4, OneLessInside DEF DownInv
<1>6. \A k \in Handles : Passing(k)' => Passing(k)
  BY <1>3 DEF Passing
<1>7. SessionTyped' /\ LinkTyped' /\ GuardTyped' /\ RoomTyped'
  BY <1>1, <1>2, <1>3, <1>5 DEF DownInv, SessionTyped, LinkTyped, GuardTyped, RoomTyped
<1>8. GuardCounts'
  BY <1>1, <1>3, <1>5 DEF DownInv, GuardCounts
<1>9. OfThisSession'
  BY <1>1, <1>2, <1>3, <1>6 DEF DownInv, OfThisSession
<1>10. InRoom'
  BY <1>1 DEF DownInv, InRoom
<1>11. GuardWork' /\ FlushAhead'
  BY <1>1, <1>2, <1>5, <1>6 DEF DownInv, GuardWork, FlushAhead, Talking
<1> QED
  BY <1>7, <1>8, <1>9, <1>10, <1>11 DEF DownInv

LEMMA AudioCbDown == ASSUME DownInv, NEW h \in Handles, Down!audio_cb(h) PROVE DownInv'
<1> DEFINE f == [epoch |-> epoch, h |-> h, of |-> made[h]]
<1>1. /\ business = "room" /\ links[h] # "none" /\ heardQueue' = Append(heardQueue, f)
      /\ UNCHANGED <<business, session, generation, links, made, clients, frames, guard,
                     flushing, refused, epoch, mediaWorker, sink>>
  BY DEF Down!audio_cb, Down!frameFrame, Down!linkVars
<1>2. f \in HeardType /\ heardQueue \in Seq(HeardType)
  BY DEF DownInv, RoomTyped, LinkTyped, HeardType
<1>3. heardQueue' \in Seq(HeardType) /\ Items(heardQueue') = Items(heardQueue) \cup {f}
  BY <1>1, <1>2, ItemsOfAppend
<1>4. f.of = made[f.h] /\ f.of # 0
  BY <1>1 DEF DownInv, InRoom
<1>5. SessionTyped' /\ LinkTyped' /\ GuardTyped' /\ RoomTyped'
  BY <1>1, <1>3 DEF DownInv, SessionTyped, LinkTyped, GuardTyped, RoomTyped
<1>6. GuardCounts' /\ OfThisSession' /\ GuardWork' /\ FlushAhead'
  BY <1>1 DEF DownInv, GuardCounts, Inside, OfThisSession, GuardWork, FlushAhead, Passing,
              Talking
<1>7. \A g \in Items(heardQueue') : g.of = made[g.h] /\ g.of # 0
  BY <1>1, <1>3, <1>4 DEF DownInv, InRoom
<1>8. InRoom'
  BY <1>1, <1>7 DEF DownInv, InRoom
<1> QED
  BY <1>5, <1>6, <1>8 DEF DownInv

\* What the room's worker does: nothing but its own place, the queue and the
\* sink changes.
LEMMA RoomStep ==
    ASSUME DownInv, SessionTyped', RoomTyped', InRoom', business = "room",
           sink' # {} => session # "off",
           \A f \in sink' : f.tag = generation /\ f.of = generation,
           UNCHANGED <<business, session, generation, links, made, clients, frames, guard,
                       flushing, refused>>
    PROVE  DownInv'
<1>1. LinkTyped' /\ GuardTyped' /\ GuardCounts' /\ GuardWork'
  BY DEF DownInv, LinkTyped, GuardTyped, GuardCounts, Inside, GuardWork, Passing
<1>2. OfThisSession'
  BY DEF DownInv, OfThisSession, Passing
<1>3. FlushAhead'
  BY DEF FlushAhead
<1> QED
  BY <1>1, <1>2, <1>3 DEF DownInv

LEMMA TakeHeardDown == ASSUME DownInv, Down!TakeHeard PROVE DownInv'
<1> DEFINE f == Head(heardQueue)
<1>1. /\ mediaWorker.at = "idle" /\ heardQueue # <<>> /\ heardQueue' = Tail(heardQueue)
      /\ mediaWorker' = [at |-> "taken", epoch |-> f.epoch, h |-> f.h, of |-> f.of,
            tag |-> 0]
      /\ UNCHANGED <<business, session, generation, links, made, clients, frames, guard,
                     flushing, refused, epoch, sink>>
  BY DEF Down!TakeHeard, Down!frameFrame, Down!linkVars
<1>2. business = "room" /\ heardQueue \in Seq(HeardType)
  BY <1>1 DEF DownInv, InRoom, RoomTyped
<1>3. /\ heardQueue' \in Seq(HeardType) /\ f \in HeardType
      /\ Items(heardQueue) = {f} \cup Items(heardQueue')
  BY <1>1, <1>2, ItemsOfTail
<1>4. f.of = made[f.h] /\ f.of # 0 /\ Items(heardQueue') \subseteq Items(heardQueue)
  BY <1>2, <1>3 DEF DownInv, InRoom
<1>5. SessionTyped' /\ RoomTyped'
  BY <1>1, <1>3 DEF DownInv, SessionTyped, RoomTyped, HeardType, WorkerType
<1>6. InRoom'
  BY <1>1, <1>2, <1>4 DEF DownInv, InRoom
<1> QED
  BY <1>1, <1>2, <1>5, <1>6, RoomStep DEF DownInv, OfThisSession

LEMMA LookAtHeardDown == ASSUME DownInv, Down!LookAtHeard PROVE DownInv'
<1>1. /\ mediaWorker.at = "taken"
      /\ \/ /\ clients[mediaWorker.h] = "heard"
            /\ mediaWorker' = [mediaWorker EXCEPT !.at = "current"]
         \/ mediaWorker' = Down!Idle
      /\ UNCHANGED <<business, session, generation, links, made, clients, frames, guard,
                     flushing, refused, epoch, heardQueue, sink>>
  BY DEF Down!LookAtHeard, Down!frameFrame, Down!linkVars
<1>2. business = "room"
  BY <1>1 DEF DownInv, InRoom
<1>3. mediaWorker.h \in Handles /\ mediaWorker \in WorkerType
  BY <1>1 DEF DownInv, RoomTyped
<1>4. clients[mediaWorker.h] = "heard" =>
          session = "on" /\ made[mediaWorker.h] = generation
  BY <1>3 DEF DownInv, OfThisSession
<1>5. SessionTyped' /\ RoomTyped'
  BY <1>1, <1>3 DEF DownInv, SessionTyped, RoomTyped, WorkerType, Down!Idle
<1>6. InRoom'
  <2>1. CASE mediaWorker' = Down!Idle
    BY <1>1, <1>2, <2>1 DEF DownInv, InRoom, Down!Idle
  <2>2. CASE mediaWorker' # Down!Idle
    <3>1. /\ mediaWorker'.at = "current" /\ mediaWorker'.of = mediaWorker.of
          /\ mediaWorker'.h = mediaWorker.h /\ clients[mediaWorker.h] = "heard"
      BY <1>1, <1>3, <2>2 DEF WorkerType
    <3> QED
      BY <1>1, <1>2, <1>4, <3>1 DEF DownInv, InRoom
  <2> QED
    BY <2>1, <2>2
<1> QED
  BY <1>1, <1>2, <1>5, <1>6, RoomStep DEF DownInv, OfThisSession

LEMMA MarkHeardDown == ASSUME DownInv, Down!MarkHeard PROVE DownInv'
<1>1. /\ mediaWorker.at = "current"
      /\ mediaWorker' = [mediaWorker EXCEPT !.at = "marked", !.tag = generation]
      /\ UNCHANGED <<business, session, generation, links, made, clients, frames, guard,
                     flushing, refused, epoch, heardQueue, sink>>
  BY DEF Down!MarkHeard, Down!frameFrame, Down!linkVars
<1>2. business = "room"
  BY <1>1 DEF DownInv, InRoom
<1>3. /\ mediaWorker' \in WorkerType /\ mediaWorker'.at = "marked"
      /\ mediaWorker'.tag = generation /\ mediaWorker'.of = mediaWorker.of
      /\ mediaWorker'.h = mediaWorker.h
  BY <1>1 DEF DownInv, RoomTyped, SessionTyped, WorkerType
<1>4. SessionTyped' /\ RoomTyped'
  BY <1>1, <1>3 DEF DownInv, SessionTyped, RoomTyped
<1>5. InRoom'
  BY <1>1, <1>2, <1>3 DEF DownInv, InRoom
<1> QED
  BY <1>1, <1>2, <1>4, <1>5, RoomStep DEF DownInv, OfThisSession

LEMMA SubmitHeardDown == ASSUME DownInv, Down!SubmitHeard PROVE DownInv'
<1>1. /\ mediaWorker.at = "marked" /\ mediaWorker' = Down!Idle
      /\ sink' = sink \cup {[tag |-> mediaWorker.tag, of |-> mediaWorker.of]}
      /\ UNCHANGED <<business, session, generation, links, made, clients, frames, guard,
                     flushing, refused, epoch, heardQueue>>
  BY DEF Down!SubmitHeard, Down!frameFrame, Down!linkVars
<1>2. /\ business = "room" /\ session # "off"
      /\ mediaWorker.tag = generation /\ mediaWorker.of = generation
  BY <1>1 DEF DownInv, InRoom
<1>3. SessionTyped' /\ RoomTyped'
  BY <1>1, <1>2 DEF DownInv, SessionTyped, RoomTyped, WorkerType, Down!Idle
<1>4. InRoom'
  BY <1>1, <1>2 DEF DownInv, InRoom, Down!Idle
<1>5. \A f \in sink' : f.tag = generation /\ f.of = generation
  BY <1>1, <1>2 DEF DownInv, OfThisSession
<1> QED
  BY <1>1, <1>2, <1>3, <1>4, <1>5, RoomStep

LEMMA DownInitInv == Down!DownInit => DownInv
<1> SUFFICES ASSUME Down!DownInit PROVE DownInv
  OBVIOUS
<1>1. /\ business \in Businesses /\ session = "off" /\ generation = 0
      /\ links = [h \in Handles |-> "none"] /\ made = [h \in Handles |-> 0]
      /\ clients = [h \in Handles |-> "free"]
      /\ frames = [h \in Handles |-> [at |-> "none", tag |-> 0]]
      /\ flushing = FALSE /\ refused = FALSE
      /\ epoch = 0 /\ heardQueue = <<>> /\ mediaWorker = Down!Idle /\ sink = {}
  BY DEF Down!DownInit, Down!Silent, Down!NoFrame
<1>2. guard = [started |-> TRUE, active |-> 0, queue |-> <<>>, running |-> [do |-> "none"]]
  BY DEF Down!DownInit, Down!GuardStart, Down!NewGuard, Down!NoTask
<1>3. <<>> \in Seq(Tasks) /\ <<>> \in Seq(HeardType)
  OBVIOUS
<1>4. guard \in GuardType
  BY <1>2, <1>3 DEF GuardType
<1>5. SessionTyped /\ LinkTyped /\ GuardTyped /\ RoomTyped
  BY <1>1, <1>3, <1>4 DEF SessionTyped, LinkTyped, FrameType, GuardTyped, RoomTyped,
     WorkerType, Down!Idle
<1>6. Items(guard.queue) = {} /\ Items(heardQueue) = {}
  BY <1>1, <1>2 DEF Items
<1>7. Inside = {}
  BY <1>1 DEF Inside
<1>8. GuardCounts
  BY <1>1, <1>2, <1>7, FS_EmptySet DEF GuardCounts
<1>9. OfThisSession /\ FlushAhead
  BY <1>1 DEF OfThisSession, FlushAhead, Passing
<1>10. InRoom
  BY <1>1, <1>6 DEF InRoom, Down!Idle
<1>11. GuardWork
  BY <1>1, <1>2, <1>6 DEF GuardWork, Does
<1> QED
  BY <1>5, <1>8, <1>9, <1>10, <1>11 DEF DownInv

LEMMA DownStepInv == DownInv /\ [Down!DownNext]_sinkVars => DownInv'
<1> SUFFICES ASSUME DownInv, [Down!DownNext]_sinkVars PROVE DownInv'
  OBVIOUS
<1>1. CASE Down!Coordinator
  BY <1>1, StartSessionDown, StopSessionDown, SessionStoppedDown DEF Down!Coordinator
<1>2. CASE Down!Connection
  BY <1>2, AcceptClientDown, DialledDown, ListenDown, SendFailsDown, OnDisconnectedDown
     DEF Down!Connection
<1>3. CASE Down!GuardWorker
  BY <1>3, TakeTaskDown, SubscribedDown, FlushUnusedDown DEF Down!GuardWorker
<1>4. CASE Down!Callbacks
  BY <1>4, FrameArrivesDown, LookAtDown, MarkDown, SubmitDown, AudioCbDown
     DEF Down!Callbacks
<1>5. CASE Down!RoomWorker
  BY <1>5, TakeHeardDown, LookAtHeardDown, MarkHeardDown, SubmitHeardDown
     DEF Down!RoomWorker
<1>6. CASE UNCHANGED sinkVars
  BY <1>6 DEF sinkVars, DownInv, SessionTyped, LinkTyped, GuardTyped, RoomTyped,
     GuardCounts,
              Inside, OfThisSession, InRoom, GuardWork, FlushAhead, Passing, Talking
<1> QED
  BY <1>1, <1>2, <1>3, <1>4, <1>5, <1>6 DEF Down!DownNext

LEMMA SoundSink == DownInv => Down!SinkIsSound
<1> SUFFICES ASSUME DownInv PROVE Down!SinkIsSound
  OBVIOUS
<1>1. Down!MarkedAsReceived /\ Down!NothingAfterTheEnd
  BY DEF DownInv, OfThisSession, Down!MarkedAsReceived, Down!NothingAfterTheEnd
<1>2. ASSUME "flush" \in Does(guard.queue)
      PROVE  \E i \in DOMAIN guard.queue : guard.queue[i].do = "flush"
  <2>1. guard.queue \in Seq(Tasks)
    BY DEF DownInv, GuardTyped, GuardType
  <2>2. DOMAIN guard.queue = 1..Len(guard.queue)
    BY <2>1
  <2> QED
    BY <1>2, <2>2 DEF Does, Items
<1>3. Down!UnusedIsFlushed
  BY <1>2 DEF DownInv, FlushAhead, Talking, Down!UnusedIsFlushed, Down!FlushDue
<1> QED
  BY <1>1, <1>3 DEF Down!SinkIsSound

-----------------------------------------------------------------------------
(* CallMedia: the inductive invariant. *)

CallTaskType == [do : {"accept", "command", "finish", "disconnect"}, h : Handles]
MaybeHandle == Handles \cup {None}
IsJob(job) == /\ job = [at |-> job.at, h |-> job.h, old |-> job.old, close |-> job.close]
              /\ job.h \in MaybeHandle /\ job.old \in MaybeHandle

IsThread(t) == t = [at |-> t.at, h |-> t.h, key |-> t.key, first |-> t.first,
                    was |-> t.was, fails |-> t.fails]

CallTyped ==
    /\ serving \in {"no", "caller", "callee"} /\ inCall \in BOOLEAN
    /\ link \in [Handles -> {"none", "open", "lost", "closed"}]
    /\ wanted \in [Handles -> SUBSET Kinds]
    /\ current \in MaybeHandle /\ waiting \in MaybeHandle
    /\ receive \subseteq Kinds
    /\ policy \in [ready : BOOLEAN, on : SUBSET Kinds] /\ subs \subseteq Kinds
JobsTyped ==
    /\ tasks \in Seq(CallTaskType)
    /\ IsJob(worker) /\ worker.at \in {"idle", "replace", "join"}
    /\ IsJob(user) /\ user.at \in {"idle", "join", "drain"} /\ user.close \in BOOLEAN
    /\ IsJob(cmd)
    /\ cmd.at \in {"idle", "request", "dialing", "won", "subscribe", "note", "start"}
    /\ control \in {"free", "worker", "user"}
ThreadTyped ==
    /\ IsThread(thread)
    /\ thread.at \in {"none", "top", "read", "frame", "send", "over"}
    /\ thread.h \in MaybeHandle
    /\ running \in BOOLEAN /\ created \in BOOLEAN

Sending == thread.at \in {"read", "frame", "send"}
Dialing == cmd.at \in {"dialing", "won"}
Connected == cmd.at \in {"won", "subscribe", "note", "start"}
Replacing == worker.at = "replace"
\* Connections the guard's worker has still to take in.
Accepts(q) == {task.h : task \in {t \in Items(q) : t.do = "accept"}}
OneAcceptEach(q) ==
    \A i, j \in 1..Len(q) :
        i # j /\ q[i].do = "accept" /\ q[j].do = "accept" => q[i].h # q[j].h

\* Whoever joins the media thread holds the control mutex, and has told the
\* thread to stop.
ControlInv ==
    /\ control = "worker" <=> worker.at # "idle"
    /\ control = "user" <=> user.at = "join"
    /\ created <=> thread.at # "none"
    /\ running <=> control = "free" /\ created

\* A service that is not active has nothing once its hang-up is done, and no
\* task either once it is drained.
StopInv ==
    /\ ~Serving => worker.at = "idle" /\ cmd.at \in {"idle", "request"}
    /\ ~Serving /\ user.at # "join" =>
          /\ current = None /\ waiting = None /\ ~created
          /\ receive = {} /\ subs = {} /\ policy.on = {}
    /\ ~Serving /\ user.at = "idle" => tasks = <<>>
    /\ user.at = "drain" => ~Serving
    /\ user.at = "join" => (user.close <=> ~Serving)

\* Who dials has no announced connection and no command of the peer, and no
\* media thread before its last step.
CalleeInv ==
    /\ serving = "callee" =>
          /\ waiting = None /\ ~Replacing
          /\ current # None => inCall
          /\ \A task \in Items(tasks) : task.do \in {"finish", "disconnect"}
    /\ Dialing \/ Connected => serving = "callee" /\ ~created
    /\ Dialing => current = None /\ receive = {} /\ policy.on = {} /\ worker.at = "idle"
    /\ Connected => cmd.h \in Handles /\ link[cmd.h] # "none"
    /\ cmd.at = "note" => wanted[cmd.h] = Kinds

\* A connection is announced once, and is then either taken in or closed.
AnnounceInv ==
    /\ OneAcceptEach(tasks)
    /\ \A h \in Accepts(tasks) : link[h] # "none"
    /\ current # None => link[current] # "none" /\ current \notin Accepts(tasks)
    /\ worker.at # "idle" => /\ current = None /\ worker.h \in Handles
                             /\ link[worker.h] # "none" /\ worker.h \notin Accepts(tasks)
    /\ Replacing => serving = "caller"
    /\ waiting # None => /\ link[waiting] \notin {"none", "closed"}
                         /\ waiting \in Accepts(tasks) \/ (Replacing /\ waiting = worker.h)

\* The thread sends on a connection that was taken in, which is the current one
\* unless the thread is being joined; a current connection that this device has
\* closed is one the thread has given up, or one nobody subscribed on.
SendInv ==
    /\ Sending => /\ thread.h \in Handles /\ link[thread.h] \notin {"none", "closed"}
                  /\ thread.h \notin Accepts(tasks)
                  /\ Replacing => thread.h # worker.h
                  /\ control = "free" => thread.h = current
    /\ current # None /\ link[current] = "closed" => policy.on = {} \/ thread.at = "over"

CallInv == /\ CallTyped /\ JobsTyped /\ ThreadTyped /\ ControlInv /\ StopInv
           /\ CalleeInv /\ AnnounceInv /\ SendInv /\ ReceivesWhatItAsked

-----------------------------------------------------------------------------
(* CallMedia: the queue of tasks, and the media thread. *)

\* What a callback defers comes last.
LEMMA DeferAdds ==
    ASSUME tasks \in Seq(CallTaskType), OneAcceptEach(tasks),
           NEW do \in {"accept", "command", "finish", "disconnect"}, NEW h \in Handles,
           Defer(do, h), do = "accept" => h \notin Accepts(tasks)
    PROVE  /\ tasks' \in Seq(CallTaskType) /\ OneAcceptEach(tasks')
           /\ Items(tasks') = Items(tasks) \cup {[do |-> do, h |-> h]}
           /\ Accepts(tasks') = IF do = "accept" THEN Accepts(tasks) \cup {h}
                 ELSE Accepts(tasks)
<1> DEFINE task == [do |-> do, h |-> h]
<1>1. tasks' = Append(tasks, task) /\ task \in CallTaskType
  BY DEF Defer, CallTaskType
<1>2. /\ tasks' \in Seq(CallTaskType) /\ Len(tasks') = Len(tasks) + 1
      /\ Items(tasks') = Items(tasks) \cup {task}
  BY <1>1, ItemsOfAppend
<1>3. /\ Len(tasks) \in Nat
      /\ \A i \in 1..Len(tasks') : tasks'[i] = IF i <= Len(tasks) THEN tasks[i] ELSE task
  BY <1>1, AppendProperties
<1>4. Accepts(tasks') = IF do = "accept" THEN Accepts(tasks) \cup {h} ELSE Accepts(tasks)
  <2>1. task.do = do /\ task.h = h
    OBVIOUS
  <2>2. CASE do = "accept"
    BY <1>2, <2>1, <2>2 DEF Accepts
  <2>3. CASE do # "accept"
    BY <1>2, <2>1, <2>3 DEF Accepts
  <2> QED
    BY <2>2, <2>3
<1>5. \A i \in 1..Len(tasks) : tasks[i].do = "accept" => tasks[i].h \in Accepts(tasks)
  BY DEF Accepts, Items
<1>6. OneAcceptEach(tasks')
  <2> SUFFICES ASSUME NEW i \in 1..Len(tasks'), NEW j \in 1..Len(tasks'), i # j,
                      tasks'[i].do = "accept", tasks'[j].do = "accept"
               PROVE  tasks'[i].h # tasks'[j].h
    BY DEF OneAcceptEach
  <2>1. CASE i <= Len(tasks) /\ j <= Len(tasks)
    BY <1>3, <2>1 DEF OneAcceptEach
  <2>2. CASE i <= Len(tasks) /\ j > Len(tasks)
    BY <1>3, <1>5, <2>2
  <2>3. CASE i > Len(tasks) /\ j <= Len(tasks)
    BY <1>3, <1>5, <2>3
  <2>4. CASE i > Len(tasks) /\ j > Len(tasks)
    BY <1>2, <1>3, <2>4
  <2> QED
    BY <1>3, <2>1, <2>2, <2>3, <2>4
<1> QED
  BY <1>2, <1>4, <1>6

\* The guard's worker takes the oldest task.
LEMMA TailTakes ==
    ASSUME tasks \in Seq(CallTaskType), OneAcceptEach(tasks), tasks # <<>>
    PROVE  /\ Head(tasks) \in CallTaskType /\ Head(tasks) \in Items(tasks)
           /\ Tail(tasks) \in Seq(CallTaskType) /\ OneAcceptEach(Tail(tasks))
           /\ Items(Tail(tasks)) \subseteq Items(tasks)
           /\ Accepts(Tail(tasks)) \subseteq Accepts(tasks)
           /\ Head(tasks).do # "accept" => Accepts(Tail(tasks)) = Accepts(tasks)
           /\ Head(tasks).do = "accept" =>
                 /\ Accepts(tasks) = Accepts(Tail(tasks)) \cup {Head(tasks).h}
                 /\ Head(tasks).h \notin Accepts(Tail(tasks))
<1> DEFINE t == Tail(tasks)
           first == Head(tasks)
<1>1. /\ t \in Seq(CallTaskType) /\ Len(t) = Len(tasks) - 1 /\ first \in CallTaskType
      /\ Items(tasks) = {first} \cup Items(t)
  BY ItemsOfTail
<1>2. /\ Len(tasks) \in Nat \ {0} /\ first = tasks[1]
      /\ \A i \in 1..Len(t) : t[i] = tasks[i + 1]
  BY HeadTailProperties, EmptySeq
<1>3. Accepts(tasks) = IF first.do = "accept" THEN Accepts(t) \cup {first.h} ELSE Accepts(t)
  BY <1>1 DEF Accepts
<1>4. OneAcceptEach(t)
  <2> SUFFICES ASSUME NEW i \in 1..Len(t), NEW j \in 1..Len(t), i # j,
                      t[i].do = "accept", t[j].do = "accept"
               PROVE  t[i].h # t[j].h
    BY DEF OneAcceptEach
  <2>1. /\ i + 1 \in 1..Len(tasks) /\ j + 1 \in 1..Len(tasks) /\ i + 1 # j + 1
        /\ t[i] = tasks[i + 1] /\ t[j] = tasks[j + 1]
    BY <1>1, <1>2
  <2> QED
    BY <2>1 DEF OneAcceptEach
<1>5. ASSUME first.do = "accept", first.h \in Accepts(t) PROVE FALSE
  <2>1. PICK i \in 1..Len(t) : t[i].do = "accept" /\ t[i].h = first.h
    BY <1>5 DEF Accepts, Items
  <2>2. i + 1 \in 1..Len(tasks) /\ 1 \in 1..Len(tasks) /\ i + 1 # 1
        /\ tasks[i + 1].do = "accept" /\ tasks[i + 1].h = tasks[1].h
              /\ tasks[1].do = "accept"
    BY <1>1, <1>2, <1>5, <2>1
  <2> QED
    BY <2>2 DEF OneAcceptEach
<1> QED
  BY <1>1, <1>3, <1>4, <1>5

LEMMA DisconnectCloses ==
    ASSUME NEW l \in [Handles -> {"none", "open", "lost", "closed"}], NEW h
    PROVE  /\ Disconnect(l, h) \in [Handles -> {"none", "open", "lost", "closed"}]
           /\ \A x \in Handles : /\ Disconnect(l, h)[x] = "none" <=> l[x] = "none"
                                 /\ x # h => Disconnect(l, h)[x] = l[x]
BY DEF Disconnect

LEMMA NoneApart == None \notin Handles /\ Sides \subseteq {"caller", "callee"}
BY CallMediaAssumption

\* An idle job, and a thread that does not exist.
LEMMA IdleJob == IsJob(Idle) /\ Idle.at = "idle" /\ Idle.close = FALSE
BY DEF IsJob, Idle, MaybeHandle

\* Whatever runs has been started with the control mutex free.
LEMMA StartMediaDoes ==
    ASSUME CallTyped, ThreadTyped, ControlInv, control = "free", StartMedia
    PROVE  /\ ThreadTyped' /\ running' \in BOOLEAN
           /\ (created' <=> thread'.at # "none") /\ (running' <=> created')
           /\ policy' \in [ready : BOOLEAN, on : SUBSET Kinds]
           /\ policy'.on \in {policy.on, {}}
           /\ \/ thread' = thread
              \/ ~created /\ thread'.at = "top"
           /\ created => created'
<1>1. Prepared \in [ready : BOOLEAN, on : SUBSET Kinds] /\ Prepared.on = {}
  BY DEF Prepared
<1>2. CASE running
  BY <1>2 DEF StartMedia, mediaVars, CallTyped, ThreadTyped, ControlInv
<1>3. CASE ~running
  <2>1. ~created /\ policy' \in {policy, Prepared}
    BY <1>3 DEF StartMedia, ControlInv, ThreadTyped
  <2>2. CASE UNCHANGED <<running, created, thread>>
    BY <1>1, <2>1, <2>2 DEF CallTyped, ThreadTyped, ControlInv
  <2>3. CASE running' = TRUE /\ created' = TRUE /\ thread' = [NoThread EXCEPT !.at = "top"]
    BY <1>1, <2>1, <2>3 DEF CallTyped, ThreadTyped, ControlInv, NoThread, MaybeHandle,
       IsThread
  <2> QED
    BY <1>3, <2>2, <2>3 DEF StartMedia
<1> QED
  BY <1>2, <1>3

LEMMA JoinMediaDoes ==
    ASSUME JoinMedia
    PROVE  /\ ~created' /\ created' \in BOOLEAN /\ UNCHANGED running
           /\ thread' = NoThread /\ NoThread.at = "none" /\ NoThread.h = None
           /\ policy' = Unprepared /\ Unprepared.on = {}
           /\ Unprepared \in [ready : BOOLEAN, on : SUBSET Kinds]
BY DEF JoinMedia, NoThread, Unprepared

LEMMA CurrentTakenIn ==
    ASSUME CallInv, current # None
    PROVE  /\ current \in Handles /\ link[current] # "none" /\ current \notin Accepts(tasks)
           /\ worker.at = "idle" /\ (policy.on # {}
                 /\ thread.at # "over" => link[current] # "closed")
BY DEF CallInv, CallTyped, MaybeHandle, AnnounceInv, SendInv

LEMMA AcceptsTyped == ASSUME tasks \in Seq(CallTaskType)
    PROVE Accepts(tasks) \subseteq Handles
<1>1. Items(tasks) \subseteq CallTaskType
  BY ItemsTyped
<1> QED
  BY <1>1 DEF Accepts, CallTaskType

LEMMA SnapshotDoes ==
    ASSUME IsThread(thread), Snapshot
    PROVE  /\ thread.at = "top" /\ UNCHANGED threadFrame
           /\ IsThread(thread')
           /\ \/ thread'.at = "over" /\ thread'.h = thread.h
              \/ /\ thread'.at \in {"read", "send"} /\ thread'.h = current
                 /\ current # None /\ policy.on # {}
<1>0. thread.at = "top" /\ UNCHANGED <<threadFrame, forceKey, owed>>
  BY Zenon DEF Snapshot
<1>1. CASE ~running \/ current = None
  <2>1. thread' = [thread EXCEPT !.at = "over"]
    BY <1>1, Zenon DEF Snapshot
  <2> QED
    BY <1>0, <2>1 DEF IsThread
<1>2. CASE ~(~running \/ current = None)
  <2>1. PICK k \in policy.on : thread' = [thread EXCEPT
            !.at = IF k = "audio" THEN "send" ELSE "read", !.h = current,
            !.key = (k = "audio"), !.first = @ \/ ("video" \in policy.on /\ ~thread.was),
            !.was = "video" \in policy.on]
    BY <1>2, Zenon DEF Snapshot
  <2>2. \A key, first, was : \A at \in {"send", "read"} :
            thread' = [thread EXCEPT !.at = at, !.h = current, !.key = key, !.first = first,
                                     !.was = was]
            => IsThread(thread') /\ thread'.at = at /\ thread'.h = current
    BY DEF IsThread
  <2>3. (IF k = "audio" THEN "send" ELSE "read") \in {"send", "read"}
    OBVIOUS
  <2>4. IsThread(thread') /\ thread'.at \in {"read", "send"} /\ thread'.h = current
    BY <2>1, <2>2, <2>3, Zenon
  <2> QED
    BY <1>0, <1>2, <2>4
<1> QED
  BY <1>1, <1>2

LEMMA ReadVideoDoes ==
    ASSUME IsThread(thread), ReadVideo
    PROVE  IsThread(thread') /\ thread'.h = thread.h /\ thread'.at \in {"frame", "over"}
<1>1. \/ thread' = [thread EXCEPT !.at = "over"]
      \/ \E key \in {TRUE, thread.first \/ forceKey} :
             thread' = [thread EXCEPT !.at = "frame", !.key = key]
  BY Zenon DEF ReadVideo
<1>2. CASE thread' = [thread EXCEPT !.at = "over"]
  BY <1>2 DEF IsThread
<1>3. ASSUME NEW key, thread' = [thread EXCEPT !.at = "frame", !.key = key]
      PROVE  IsThread(thread') /\ thread'.h = thread.h /\ thread'.at = "frame"
  BY <1>3 DEF IsThread
<1> QED
  BY <1>1, <1>2, <1>3, Zenon

LEMMA CmdGoDoes ==
    ASSUME IsJob(cmd), NEW at, CmdGo(at)
    PROVE  IsJob(cmd') /\ cmd'.at = at /\ (at # "idle" => cmd'.h = cmd.h)
<1>1. CASE at = "idle"
  BY <1>1, IdleJob DEF CmdGo
<1>2. CASE at # "idle"
  BY <1>2 DEF CmdGo, IsJob
<1> QED
  BY <1>1, <1>2

\* The task at hand while nobody joins the media thread.
LEMMA TaskAtHand ==
    ASSUME CallInv, NEW do, Task(do)
    PROVE  /\ tasks # <<>> /\ Head(tasks).do = do /\ Head(tasks).h \in Handles
           /\ Head(tasks) \in Items(tasks)
           /\ worker.at = "idle" /\ control = "free" /\ user.at # "join"
                 /\ (running <=> created)
           /\ Tail(tasks) \in Seq(CallTaskType) /\ OneAcceptEach(Tail(tasks))
           /\ Items(Tail(tasks)) \subseteq Items(tasks)
           /\ do # "accept" => Accepts(Tail(tasks)) = Accepts(tasks)
           /\ do = "accept" => /\ Accepts(tasks) = Accepts(Tail(tasks)) \cup {Head(tasks).h}
                               /\ Head(tasks).h \notin Accepts(Tail(tasks))
           /\ do \in {"accept", "command"} => serving # "callee" /\ ~Dialing /\ ~Connected
           /\ current # None \/ waiting # None => Serving
           /\ Serving \/ user.at # "idle"
<1>1. tasks # <<>> /\ Head(tasks).do = do /\ worker.at = "idle" /\ control = "free"
  BY DEF Task
<1>2. user.at # "join" /\ (running <=> created)
  BY <1>1 DEF CallInv, ControlInv
<1>3. /\ Head(tasks) \in CallTaskType /\ Head(tasks) \in Items(tasks)
      /\ Tail(tasks) \in Seq(CallTaskType) /\ OneAcceptEach(Tail(tasks))
      /\ Items(Tail(tasks)) \subseteq Items(tasks)
      /\ do # "accept" => Accepts(Tail(tasks)) = Accepts(tasks)
      /\ do = "accept" => /\ Accepts(tasks) = Accepts(Tail(tasks)) \cup {Head(tasks).h}
                          /\ Head(tasks).h \notin Accepts(Tail(tasks))
  BY <1>1, TailTakes DEF CallInv, JobsTyped, AnnounceInv
<1>4. Head(tasks).h \in Handles
  BY <1>3 DEF CallTaskType
<1>5. do \in {"accept", "command"} => serving # "callee"
  BY <1>1, <1>3 DEF CallInv, CalleeInv
<1>6. serving # "callee" => ~Dialing /\ ~Connected
  BY DEF CallInv, CalleeInv
<1>7. (current # None \/ waiting # None => Serving) /\ (Serving \/ user.at # "idle")
  BY <1>1, <1>2 DEF CallInv, StopInv
<1> QED
  BY <1>1, <1>2, <1>3, <1>4, <1>5, <1>6, <1>7

-----------------------------------------------------------------------------
(* CallMedia: every step keeps the invariant. *)

\* A new connection is announced; the one that waited before is forgotten.
LEMMA ConnAcceptedCall ==
    ASSUME CallInv, NEW h \in Handles, ConnAccepted(h)
    PROVE  CallInv'
<1>1. /\ serving = "caller" /\ link[h] = "none" /\ Defer("accept", h)
      /\ link' = [link EXCEPT ![h] = "open"] /\ waiting' = h /\ subs' = {}
      /\ UNCHANGED <<serving, wanted, current, inCall, receive, policy, running,
                     created, thread, worker, user, cmd, control>>
  BY DEF ConnAccepted, mediaVars
<1>2. h \notin Accepts(tasks)
  BY <1>1 DEF CallInv, AnnounceInv
<1>3. /\ tasks' \in Seq(CallTaskType) /\ OneAcceptEach(tasks')
      /\ Accepts(tasks') = Accepts(tasks) \cup {h}
  BY <1>1, <1>2, DeferAdds DEF CallInv, JobsTyped, AnnounceInv
<1>4. /\ link' \in [Handles -> {"none", "open", "lost", "closed"}]
      /\ link'[h] = "open" /\ h # None /\ (\A x \in Handles : x # h => link'[x] = link[x])
      /\ Accepts(tasks) \subseteq Handles
  BY <1>1, NoneApart, AcceptsTyped DEF CallInv, CallTyped, JobsTyped
<1>5. ThreadTyped' /\ ControlInv' /\ ReceivesWhatItAsked'
  BY <1>1 DEF CallInv, ThreadTyped, ControlInv, ReceivesWhatItAsked
<1>6. CallTyped'
  BY <1>1, <1>4 DEF CallInv, CallTyped, MaybeHandle
<1>7. JobsTyped'
  BY <1>1, <1>2, <1>3, <1>4 DEF CallInv, JobsTyped
<1>8. StopInv'
  BY <1>1 DEF CallInv, StopInv, Serving
<1>9. CalleeInv'
  BY <1>1, <1>4 DEF CallInv, CalleeInv, Dialing, Connected, Replacing
<1>10. AnnounceInv'
  BY <1>1, <1>3, <1>4 DEF CallInv, AnnounceInv, Replacing, CallTyped, MaybeHandle
<1>11. SendInv'
  BY <1>1, <1>3, <1>4 DEF CallInv, SendInv, AnnounceInv, Sending, Replacing, CallTyped,
     MaybeHandle
<1> QED
  BY <1>5, <1>6, <1>7, <1>8, <1>9, <1>10, <1>11 DEF CallInv

LEMMA CommandArrivesCall ==
    ASSUME CallInv, NEW h \in Handles, CommandArrives(h)
    PROVE  CallInv'
<1>1. /\ serving = "caller" /\ Defer("command", h)
      /\ UNCHANGED <<serving, link, wanted, current, waiting, inCall, subs, receive,
                     policy, running, created, thread, worker, user, cmd, control>>
  BY DEF CommandArrives, connVars, peerVars, mediaVars, jobVars, cmdFrame, threadFrame
<1>2. /\ tasks' \in Seq(CallTaskType) /\ OneAcceptEach(tasks')
      /\ Accepts(tasks') = Accepts(tasks)
  BY <1>1, DeferAdds DEF CallInv, JobsTyped, AnnounceInv
<1>3. CallTyped' /\ ThreadTyped' /\ ControlInv' /\ ReceivesWhatItAsked'
  BY <1>1 DEF CallInv, CallTyped, ThreadTyped, ControlInv, ReceivesWhatItAsked
<1>4. JobsTyped'
  BY <1>1, <1>2 DEF CallInv, JobsTyped
<1>5. StopInv'
  BY <1>1 DEF CallInv, StopInv, Serving
<1>6. CalleeInv'
  BY <1>1 DEF CallInv, CalleeInv, Dialing, Connected, Replacing
<1>7. AnnounceInv'
  BY <1>1, <1>2 DEF CallInv, AnnounceInv, Replacing
<1>8. SendInv'
  BY <1>1, <1>2 DEF CallInv, SendInv, Sending, Replacing
<1> QED
  BY <1>3, <1>4, <1>5, <1>6, <1>7, <1>8 DEF CallInv

LEMMA ConnLostCall ==
    ASSUME CallInv, NEW h \in Handles, ConnLost(h)
    PROVE  CallInv'
<1>1. /\ link[h] \in {"open", "closed"} /\ link' = [link EXCEPT ![h] = "lost"]
      /\ \/ Serving /\ (Defer("finish", h) \/ Defer("disconnect", h))
         \/ UNCHANGED tasks
      /\ UNCHANGED <<serving, wanted, current, waiting, inCall, subs, receive, policy,
                     running, created, thread, worker, user, cmd, control>>
  BY DEF ConnLost, connVars, peerVars, mediaVars, jobVars, cmdFrame, threadFrame
<1>2. /\ tasks' \in Seq(CallTaskType) /\ OneAcceptEach(tasks')
      /\ Accepts(tasks') = Accepts(tasks)
      /\ \A task \in Items(tasks') : task \in Items(tasks) \/ task.do \in {"finish",
            "disconnect"}
      /\ Serving \/ tasks' = tasks
  <2>1. CASE UNCHANGED tasks
    BY <2>1 DEF CallInv, JobsTyped, AnnounceInv
  <2>2. CASE Serving /\ Defer("finish", h)
    BY <2>2, DeferAdds DEF CallInv, JobsTyped, AnnounceInv
  <2>3. CASE Serving /\ Defer("disconnect", h)
    BY <2>3, DeferAdds DEF CallInv, JobsTyped, AnnounceInv
  <2> QED
    BY <1>1, <2>1, <2>2, <2>3
<1>3. /\ link' \in [Handles -> {"none", "open", "lost", "closed"}] /\ link'[h] = "lost"
      /\ \A x \in Handles : x # h => link'[x] = link[x]
      /\ Accepts(tasks) \subseteq Handles
  BY <1>1, AcceptsTyped DEF CallInv, CallTyped, JobsTyped
<1>4. ThreadTyped' /\ ControlInv' /\ ReceivesWhatItAsked'
  BY <1>1 DEF CallInv, ThreadTyped, ControlInv, ReceivesWhatItAsked
<1>5. CallTyped'
  BY <1>1, <1>3 DEF CallInv, CallTyped
<1>6. JobsTyped'
  BY <1>1, <1>2, <1>3 DEF CallInv, JobsTyped
<1>7. StopInv'
  BY <1>1, <1>2 DEF CallInv, StopInv, Serving
<1>8. CalleeInv'
  BY <1>1, <1>2, <1>3 DEF CallInv, CalleeInv, Dialing, Connected, Replacing
<1>9. AnnounceInv'
  BY <1>1, <1>2, <1>3 DEF CallInv, AnnounceInv, Replacing, CallTyped, MaybeHandle
<1>10. SendInv'
  BY <1>1, <1>2, <1>3 DEF CallInv, SendInv, Sending, Replacing, CallTyped, MaybeHandle
<1> QED
  BY <1>4, <1>5, <1>6, <1>7, <1>8, <1>9, <1>10 DEF CallInv

LEMMA SubscribeCall ==
    ASSUME CallInv, NEW h \in Handles, NEW k \in Kinds, Subscribe(h, k)
    PROVE  CallInv'
<1>1. /\ Serving /\ link[h] = "open" /\ h \in {current, waiting}
      /\ \/ h = current /\ policy' = [policy EXCEPT !.on = @ \cup {k}] /\ UNCHANGED subs
         \/ h # current /\ subs' = subs \cup {k} /\ UNCHANGED policy
      /\ UNCHANGED <<serving, link, wanted, current, waiting, inCall, receive, running,
                     created, thread, tasks, worker, user, cmd, control>>
  BY DEF Subscribe, connVars, peerVars, mediaVars, jobVars, cmdFrame, threadFrame
<1>2. /\ policy' \in [ready : BOOLEAN, on : SUBSET Kinds] /\ subs' \subseteq Kinds
      /\ h # current => policy'.on = policy.on
  BY <1>1 DEF CallInv, CallTyped
<1>3. /\ (current # None \/ waiting # None) /\ h # None
  BY <1>1, NoneApart
<1>4. JobsTyped' /\ ThreadTyped' /\ ControlInv' /\ AnnounceInv' /\ ReceivesWhatItAsked'
  BY <1>1 DEF CallInv, JobsTyped, ThreadTyped, ControlInv, AnnounceInv,
     ReceivesWhatItAsked, Replacing
<1>5. CallTyped'
  BY <1>1, <1>2 DEF CallInv, CallTyped
<1>6. StopInv'
  BY <1>1 DEF CallInv, StopInv, Serving
<1>7. CalleeInv'
  BY <1>1, <1>2, <1>3 DEF CallInv, CalleeInv, Dialing, Connected, Replacing, StopInv,
     Serving, CallTyped
<1>8. SendInv'
  BY <1>1, <1>2 DEF CallInv, SendInv, Sending, Replacing
<1> QED
  BY <1>4, <1>5, <1>6, <1>7, <1>8 DEF CallInv

LEMMA UnsubscribeCall ==
    ASSUME CallInv, NEW h \in Handles, NEW k \in Kinds, Unsubscribe(h, k)
    PROVE  CallInv'
<1>1. /\ Serving /\ (policy' = [policy EXCEPT !.on = @ \ {k}] \/ UNCHANGED policy)
      /\ subs' \in {subs, subs \ {k}}
      /\ UNCHANGED <<serving, link, wanted, current, waiting, inCall, receive, running,
                     created, thread, tasks, worker, user, cmd, control>>
  BY DEF Unsubscribe, connVars, peerVars, mediaVars, jobVars, cmdFrame, threadFrame
<1>2. /\ policy' \in [ready : BOOLEAN, on : SUBSET Kinds] /\ subs' \subseteq Kinds
      /\ policy'.on \subseteq policy.on
  BY <1>1 DEF CallInv, CallTyped
<1>3. JobsTyped' /\ ThreadTyped' /\ ControlInv' /\ AnnounceInv' /\ ReceivesWhatItAsked'
  BY <1>1 DEF CallInv, JobsTyped, ThreadTyped, ControlInv, AnnounceInv,
     ReceivesWhatItAsked, Replacing
<1>4. CallTyped'
  BY <1>1, <1>2 DEF CallInv, CallTyped
<1>5. StopInv'
  BY <1>1 DEF CallInv, StopInv, Serving
<1>6. CalleeInv'
  BY <1>1, <1>2 DEF CallInv, CalleeInv, Dialing, Connected, Replacing
<1>7. SendInv'
  BY <1>1, <1>2 DEF CallInv, SendInv, Sending, Replacing
<1> QED
  BY <1>3, <1>4, <1>5, <1>6, <1>7 DEF CallInv

\* The thread looks: a connection it may send on has been subscribed on, and is
\* not closed.
LEMMA SnapshotCall ==
    ASSUME CallInv, Snapshot
    PROVE  CallInv'
<1>1. /\ thread.at = "top"
      /\ UNCHANGED <<serving, link, wanted, current, waiting, inCall, subs, receive,
                     policy, running, created, tasks, worker, user, cmd, control>>
  BY SnapshotDoes DEF CallInv, ThreadTyped, connVars, peerVars, mediaVars, jobVars,
     cmdFrame, threadFrame
<1>2. /\ IsThread(thread')
      /\ \/ thread'.at = "over" /\ thread'.h = thread.h
         \/ /\ thread'.at \in {"read", "send"} /\ thread'.h = current
            /\ current # None /\ policy.on # {}
  BY SnapshotDoes DEF CallInv, ThreadTyped
<1>3. CallTyped' /\ JobsTyped' /\ StopInv' /\ CalleeInv' /\ AnnounceInv' /\
       ReceivesWhatItAsked'
  BY <1>1 DEF CallInv, CallTyped, JobsTyped, StopInv, CalleeInv, AnnounceInv,
     ReceivesWhatItAsked, Serving, Dialing, Connected, Replacing
<1>4. ThreadTyped'
  BY <1>1, <1>2 DEF CallInv, ThreadTyped, CallTyped
<1>5. ControlInv'
  BY <1>1, <1>2 DEF CallInv, ControlInv
<1>6. SendInv'
  BY <1>1, <1>2, CurrentTakenIn DEF CallInv, SendInv, Sending, Replacing, AnnounceInv
<1> QED
  BY <1>3, <1>4, <1>5, <1>6 DEF CallInv

LEMMA ReadVideoCall ==
    ASSUME CallInv, ReadVideo
    PROVE  CallInv'
<1>1. /\ thread.at = "read"
      /\ UNCHANGED <<serving, link, wanted, current, waiting, inCall, subs, receive,
                     policy, running, created, tasks, worker, user, cmd, control>>
  BY DEF ReadVideo, connVars, peerVars, mediaVars, jobVars, cmdFrame, threadFrame
<1>2. IsThread(thread') /\ thread'.h = thread.h /\ thread'.at \in {"frame", "over"}
  BY ReadVideoDoes DEF CallInv, ThreadTyped
<1>3. CallTyped' /\ JobsTyped' /\ StopInv' /\ CalleeInv' /\ AnnounceInv' /\
       ReceivesWhatItAsked'
  BY <1>1 DEF CallInv, CallTyped, JobsTyped, StopInv, CalleeInv, AnnounceInv,
     ReceivesWhatItAsked, Serving, Dialing, Connected, Replacing
<1>4. ThreadTyped'
  BY <1>1, <1>2 DEF CallInv, ThreadTyped
<1>5. ControlInv'
  BY <1>1, <1>2 DEF CallInv, ControlInv
<1>6. SendInv'
  BY <1>1, <1>2 DEF CallInv, SendInv, Sending, Replacing
<1> QED
  BY <1>3, <1>4, <1>5, <1>6 DEF CallInv

LEMMA SendOkCall ==
    ASSUME CallInv, SendOk
    PROVE  CallInv'
<1>1. /\ thread.at \in {"send", "frame"}
      /\ thread' = [thread EXCEPT !.at = "top", !.first = FALSE, !.fails = 0]
      /\ UNCHANGED <<serving, link, wanted, current, waiting, inCall, subs, receive,
                     policy, running, created, tasks, worker, user, cmd, control>>
  BY DEF SendOk, SendsAudio, SendsVideo, connVars, peerVars, mediaVars, jobVars,
     cmdFrame, threadFrame
<1>2. /\ IsThread(thread')
      /\ thread'.h = thread.h /\ thread'.at \in {"top", "frame", "over"}
      /\ thread'.at = "frame" => thread.at = "read"
  BY <1>1 DEF CallInv, ThreadTyped, IsThread
<1>3. CallTyped' /\ JobsTyped' /\ StopInv' /\ CalleeInv' /\ AnnounceInv' /\
       ReceivesWhatItAsked'
  BY <1>1 DEF CallInv, CallTyped, JobsTyped, StopInv, CalleeInv, AnnounceInv,
     ReceivesWhatItAsked, Serving, Dialing, Connected, Replacing
<1>4. ThreadTyped'
  BY <1>1, <1>2 DEF CallInv, ThreadTyped
<1>5. ControlInv'
  BY <1>1, <1>2 DEF CallInv, ControlInv
<1>6. SendInv'
  BY <1>1, <1>2 DEF CallInv, SendInv, Sending, Replacing
<1> QED
  BY <1>3, <1>4, <1>5, <1>6 DEF CallInv

LEMMA SendFailsCall ==
    ASSUME CallInv, NEW rc, SendFails(rc)
    PROVE  CallInv'
<1>1. /\ thread.at \in {"send", "frame"}
      /\ thread' = [thread EXCEPT !.at = "top", !.fails = @ + 1]
      /\ UNCHANGED <<serving, link, wanted, current, waiting, inCall, subs, receive,
                     policy, running, created, tasks, worker, user, cmd, control>>
  BY DEF SendFails, SendsAudio, SendsVideo, connVars, peerVars, mediaVars, jobVars,
     cmdFrame, threadFrame
<1>2. /\ IsThread(thread')
      /\ thread'.h = thread.h /\ thread'.at \in {"top", "frame", "over"}
      /\ thread'.at = "frame" => thread.at = "read"
  BY <1>1 DEF CallInv, ThreadTyped, IsThread
<1>3. CallTyped' /\ JobsTyped' /\ StopInv' /\ CalleeInv' /\ AnnounceInv' /\
       ReceivesWhatItAsked'
  BY <1>1 DEF CallInv, CallTyped, JobsTyped, StopInv, CalleeInv, AnnounceInv,
     ReceivesWhatItAsked, Serving, Dialing, Connected, Replacing
<1>4. ThreadTyped'
  BY <1>1, <1>2 DEF CallInv, ThreadTyped
<1>5. ControlInv'
  BY <1>1, <1>2 DEF CallInv, ControlInv
<1>6. SendInv'
  BY <1>1, <1>2 DEF CallInv, SendInv, Sending, Replacing
<1> QED
  BY <1>3, <1>4, <1>5, <1>6 DEF CallInv

\* The thread gives its connection up, and closes no other.
LEMMA SendEndsCall ==
    ASSUME CallInv, NEW rc, SendEnds(rc)
    PROVE  CallInv'
<1>1. /\ thread.at \in {"send", "frame"} /\ thread' = [thread EXCEPT !.at = "over"]
      /\ link' = link \/ link' = Disconnect(link, thread.h)
      /\ UNCHANGED <<serving, wanted, current, waiting, inCall, subs, receive, policy,
                     running, created, tasks, worker, user, cmd, control>>
  BY DEF SendEnds, SendsAudio, SendsVideo, connVars, peerVars, mediaVars, jobVars,
     cmdFrame, threadFrame
<1>2. /\ IsThread(thread')
      /\ thread'.h = thread.h /\ thread'.at = "over"
  BY <1>1 DEF CallInv, ThreadTyped, IsThread
<1>3. /\ link' \in [Handles -> {"none", "open", "lost", "closed"}]
      /\ \A x \in Handles : link'[x] = "none" <=> link[x] = "none"
      /\ \A x \in Handles : x # thread.h => link'[x] = link[x]
  BY <1>1, DisconnectCloses DEF CallInv, CallTyped
<1>4. waiting # None => waiting # thread.h
  BY <1>1 DEF CallInv, SendInv, Sending, AnnounceInv
<1>5. /\ Accepts(tasks) \subseteq Handles
      /\ \A x \in MaybeHandle : x # None => x \in Handles
  BY AcceptsTyped DEF CallInv, JobsTyped, MaybeHandle
<1>6. JobsTyped' /\ StopInv' /\ ReceivesWhatItAsked'
  BY <1>1 DEF CallInv, JobsTyped, StopInv, ReceivesWhatItAsked, Serving
<1>7. CallTyped'
  BY <1>1, <1>3 DEF CallInv, CallTyped
<1>8. ThreadTyped'
  BY <1>1, <1>2 DEF CallInv, ThreadTyped
<1>9. ControlInv'
  BY <1>1, <1>2 DEF CallInv, ControlInv
<1>10. CalleeInv'
  <2>1. Connected => link'[cmd.h] # "none"
    BY <1>3 DEF CallInv, CalleeInv
  <2> QED
    BY <1>1, <2>1 DEF CallInv, CalleeInv, Dialing, Connected, Replacing
<1>11. AnnounceInv'
  <2>1. \A h \in Accepts(tasks) : link'[h] # "none"
    BY <1>3, <1>5 DEF CallInv, AnnounceInv
  <2>2. current # None => link'[current] # "none"
    BY <1>3, <1>5 DEF CallInv, CallTyped, AnnounceInv
  <2>3. worker.at # "idle" => link'[worker.h] # "none"
    BY <1>3, <1>5 DEF CallInv, AnnounceInv
  <2>4. waiting # None => link'[waiting] \notin {"none", "closed"}
    BY <1>3, <1>4, <1>5 DEF CallInv, CallTyped, AnnounceInv
  <2> QED
    BY <1>1, <2>1, <2>2, <2>3, <2>4 DEF CallInv, AnnounceInv, Replacing
<1>12. SendInv'
  BY <1>1, <1>2 DEF CallInv, SendInv, Sending
<1> QED
  BY <1>6, <1>7, <1>8, <1>9, <1>10, <1>11, <1>12 DEF CallInv

LEMMA RequestKeyCall ==
    ASSUME CallInv, NEW h, RequestKey(h)
    PROVE  CallInv'
<1>1. /\ UNCHANGED <<serving, link, wanted, current, waiting, inCall, subs, receive, policy,
               running, created, thread, tasks, worker, user, cmd, control>>
  BY DEF RequestKey, connVars, peerVars, mediaVars, jobVars, cmdFrame, threadFrame
<1>2. CallTyped' /\ JobsTyped' /\ ThreadTyped' /\ ControlInv' /\ StopInv' /\ CalleeInv'
       /\ AnnounceInv' /\ SendInv' /\ ReceivesWhatItAsked'
  BY <1>1 DEF CallInv, CallTyped, JobsTyped, ThreadTyped, ControlInv, StopInv,
     CalleeInv, AnnounceInv, SendInv, ReceivesWhatItAsked, Serving, Dialing, Connected,
     Replacing, Sending
<1> QED
  BY <1>2 DEF CallInv

\* The connection announced last is taken in...
LEMMA AcceptTakesCall ==
    ASSUME CallInv, AcceptTask, Serving, waiting = Head(tasks).h, current \in {None,
              waiting}
    PROVE  CallInv'
<1>1. /\ current' = waiting /\ inCall' = FALSE /\ receive' = {} /\ waiting' = None
            /\ subs' = {}
      /\ policy' = [policy EXCEPT !.on = IF policy.ready THEN @ \cup subs ELSE @]
      /\ Task("accept") /\ worker' = Idle /\ control' = "free" /\ tasks' = Tail(tasks)
      /\ UNCHANGED <<serving, link, wanted, running, created, thread, user, cmd>>
  BY DEF AcceptTask, TakesOver, Done, connVars, peerVars, mediaVars, jobVars, cmdFrame,
     threadFrame
<1>2. /\ waiting \in Accepts(tasks) \ Accepts(Tail(tasks))
      /\ Accepts(Tail(tasks)) \subseteq Accepts(tasks)
      /\ waiting \in Handles /\ waiting # None
      /\ serving # "callee" /\ ~Dialing /\ ~Connected
      /\ Tail(tasks) \in Seq(CallTaskType) /\ OneAcceptEach(Tail(tasks))
      /\ worker.at = "idle" /\ control = "free" /\ user.at # "join" /\ (running <=> created)
  BY <1>1, TaskAtHand, NoneApart
<1>3. current = None
  BY <1>2 DEF CallInv, AnnounceInv
<1>4. ~Sending
  BY <1>2, <1>3, NoneApart DEF CallInv, SendInv
<1>5. policy' \in [ready : BOOLEAN, on : SUBSET Kinds]
  BY <1>1 DEF CallInv, CallTyped
<1>6. ThreadTyped'
  BY <1>1 DEF CallInv, ThreadTyped
<1>7. CallTyped'
  BY <1>1, <1>2, <1>5 DEF CallInv, CallTyped, MaybeHandle
<1>8. JobsTyped'
  BY <1>1, <1>2, IdleJob DEF CallInv, JobsTyped
<1>9. ControlInv'
  BY <1>1, <1>2, IdleJob DEF CallInv, ControlInv
<1>10. StopInv'
  BY <1>1, <1>2, IdleJob DEF CallInv, StopInv, Serving
<1>11. CalleeInv'
  BY <1>1, <1>2 DEF CallInv, CalleeInv, Dialing, Connected
<1>12. AnnounceInv'
  BY <1>1, <1>2, IdleJob DEF CallInv, AnnounceInv, Replacing
<1>13. SendInv'
  BY <1>1, <1>2, <1>3, <1>4 DEF CallInv, AnnounceInv, SendInv, Sending
<1>14. ReceivesWhatItAsked'
  BY <1>1 DEF ReceivesWhatItAsked
<1> QED
  BY <1>6, <1>7, <1>8, <1>9, <1>10, <1>11, <1>12, <1>13, <1>14 DEF CallInv

\* ... after the current one is let go; the thread may still send there...
LEMMA AcceptReplacesCall ==
    ASSUME CallInv, AcceptTask, Serving, waiting = Head(tasks).h, current \notin {None,
              waiting}
    PROVE  CallInv'
<1>1. /\ current' = None /\ running' = FALSE /\ Task("accept") /\ Hold("replace", waiting,
            current, TRUE)
      /\ UNCHANGED <<serving, link, wanted, waiting, inCall, subs, receive, policy,
                     created, thread, user, cmd>>
  BY DEF AcceptTask, TellMedia, connVars, peerVars, mediaVars, jobVars, cmdFrame,
     threadFrame
<1>2. /\ waiting \in Accepts(tasks) \ Accepts(Tail(tasks))
      /\ Accepts(Tail(tasks)) \subseteq Accepts(tasks)
      /\ waiting \in Handles /\ waiting # None
      /\ serving # "callee" /\ ~Dialing /\ ~Connected
      /\ Tail(tasks) \in Seq(CallTaskType) /\ OneAcceptEach(Tail(tasks))
      /\ worker.at = "idle" /\ control = "free" /\ user.at # "join" /\ (running <=> created)
  BY <1>1, TaskAtHand, NoneApart
<1>3. /\ tasks' = Tail(tasks) /\ control' = "worker"
      /\ worker'.at = "replace" /\ worker'.h = waiting /\ IsJob(worker')
  BY <1>1, <1>2 DEF Hold, IsJob, CallInv, CallTyped, MaybeHandle
<1>4. serving = "caller"
  BY <1>2 DEF CallInv, CallTyped, Serving
<1>5. Sending => thread.h # waiting
  BY <1>2 DEF CallInv, SendInv
<1>6. CallTyped'
  BY <1>1 DEF CallInv, CallTyped, MaybeHandle
<1>7. JobsTyped'
  BY <1>1, <1>2, <1>3 DEF CallInv, JobsTyped
<1>8. ThreadTyped'
  BY <1>1 DEF CallInv, ThreadTyped
<1>9. ControlInv'
  BY <1>1, <1>2, <1>3 DEF CallInv, ControlInv
<1>10. StopInv'
  BY <1>1, <1>2, <1>4 DEF CallInv, StopInv, Serving
<1>11. CalleeInv'
  BY <1>1, <1>2, <1>4 DEF CallInv, CalleeInv, Dialing, Connected
<1>12. AnnounceInv'
  BY <1>1, <1>2, <1>3, <1>4 DEF CallInv, AnnounceInv, Replacing
<1>13. SendInv'
  BY <1>1, <1>2, <1>3, <1>5 DEF CallInv, SendInv, Sending, Replacing
<1>14. ReceivesWhatItAsked'
  BY <1>3 DEF ReceivesWhatItAsked
<1> QED
  BY <1>6, <1>7, <1>8, <1>9, <1>10, <1>11, <1>12, <1>13, <1>14 DEF CallInv

\* ... or it is closed: another one was announced since, or the service stopped.
LEMMA AcceptClosesCall ==
    ASSUME CallInv, AcceptTask, ~(Serving /\ waiting = Head(tasks).h)
    PROVE  CallInv'
<1>1. /\ link' = Disconnect(link, Head(tasks).h)
      /\ Task("accept") /\ worker' = Idle /\ control' = "free" /\ tasks' = Tail(tasks)
      /\ UNCHANGED <<serving, wanted, current, waiting, inCall, subs, receive, policy,
                     running, created, thread, user, cmd>>
  BY DEF AcceptTask, Done, connVars, peerVars, mediaVars, jobVars, cmdFrame, threadFrame
<1>2. /\ Head(tasks).h \in Accepts(tasks) \ Accepts(Tail(tasks)) /\ tasks # <<>>
      /\ Accepts(tasks) = Accepts(Tail(tasks)) \cup {Head(tasks).h}
      /\ Head(tasks).h \in Handles
      /\ serving # "callee" /\ ~Dialing /\ ~Connected
      /\ Tail(tasks) \in Seq(CallTaskType) /\ OneAcceptEach(Tail(tasks))
      /\ worker.at = "idle" /\ control = "free" /\ user.at # "join" /\ (running <=> created)
  BY <1>1, TaskAtHand DEF Task
<1>3. /\ link' \in [Handles -> {"none", "open", "lost", "closed"}]
      /\ \A x \in Handles : link'[x] = "none" <=> link[x] = "none"
      /\ \A x \in Handles : x # Head(tasks).h => link'[x] = link[x]
  BY <1>1, DisconnectCloses DEF CallInv, CallTyped
<1>4. waiting # Head(tasks).h
  BY <1>2, NoneApart DEF CallInv, StopInv
<1>5. /\ Accepts(tasks) \subseteq Handles
      /\ \A x \in MaybeHandle : x # None => x \in Handles
  BY AcceptsTyped DEF CallInv, JobsTyped, MaybeHandle
<1>6. current # None => current # Head(tasks).h /\ link'[current] = link[current]
  BY <1>2, <1>3, <1>5 DEF CallInv, CallTyped, AnnounceInv
<1>7. Sending => link'[thread.h] = link[thread.h]
  BY <1>2, <1>3 DEF CallInv, SendInv
<1>8. ThreadTyped'
  BY <1>1 DEF CallInv, ThreadTyped
<1>9. CallTyped'
  BY <1>1, <1>3 DEF CallInv, CallTyped
<1>10. JobsTyped'
  BY <1>1, <1>2, IdleJob DEF CallInv, JobsTyped
<1>11. ControlInv'
  BY <1>1, <1>2, IdleJob DEF CallInv, ControlInv
<1>12. StopInv'
  BY <1>1, <1>2, IdleJob DEF CallInv, StopInv, Serving
<1>13. CalleeInv'
  BY <1>1, <1>2 DEF CallInv, CalleeInv, Dialing, Connected
<1>14. AnnounceInv'
  <2>1. \A h \in Accepts(Tail(tasks)) : link'[h] # "none"
    BY <1>2, <1>3, <1>5 DEF CallInv, AnnounceInv
  <2>2. waiting # None => /\ link'[waiting] \notin {"none", "closed"}
                          /\ waiting \in Accepts(Tail(tasks))
    BY <1>2, <1>3, <1>4, <1>5 DEF CallInv, CallTyped, AnnounceInv, Replacing
  <2>3. current # None => link'[current] # "none" /\ current \notin Accepts(Tail(tasks))
    BY <1>2, <1>6 DEF CallInv, AnnounceInv
  <2> QED
    BY <1>1, <1>2, <2>1, <2>2, <2>3, IdleJob DEF AnnounceInv, Replacing
<1>15. SendInv'
  BY <1>1, <1>2, <1>6, <1>7, IdleJob DEF CallInv, SendInv, Sending, Replacing
<1>16. ReceivesWhatItAsked'
  BY <1>1, <1>2 DEF CallInv, ReceivesWhatItAsked
<1> QED
  BY <1>8, <1>9, <1>10, <1>11, <1>12, <1>13, <1>14, <1>15, <1>16 DEF CallInv

\* The new connection is current once the old one's thread is joined.
LEMMA ReplacedCall ==
    ASSUME CallInv, Replaced
    PROVE  CallInv'
<1>1. /\ worker.at = "replace" /\ worker' = Idle /\ control' = "free"
      /\ created' = FALSE /\ thread' = NoThread /\ policy' = Unprepared
      /\ \E l : link' = Disconnect(IF Serving THEN link ELSE l, worker.old)
      /\ Serving => /\ current' = worker.h /\ inCall' = FALSE /\ receive' = {}
                    /\ waiting' = None /\ subs' = {}
      /\ UNCHANGED <<serving, wanted, running, tasks, user, cmd>>
  BY Zenon DEF Replaced, connVars, peerVars, mediaVars, jobVars, cmdFrame, threadFrame
<1>2. /\ serving = "caller" /\ worker.h \in Handles /\ link[worker.h] # "none"
      /\ worker.h \notin Accepts(tasks) /\ worker.h # None
      /\ control = "worker" /\ user.at # "join" /\ ~running
  BY <1>1, NoneApart DEF CallInv, AnnounceInv, ControlInv, ThreadTyped, Replacing
<1>3. /\ current' = worker.h /\ inCall' = FALSE /\ receive' = {} /\ waiting' = None
            /\ subs' = {}
      /\ link' = Disconnect(link, worker.old)
  BY <1>1, <1>2 DEF Serving
<1>4. /\ link' \in [Handles -> {"none", "open", "lost", "closed"}]
      /\ \A x \in Handles : link'[x] = "none" <=> link[x] = "none"
  BY <1>3, DisconnectCloses DEF CallInv, CallTyped
<1>5. /\ Unprepared \in [ready : BOOLEAN, on : SUBSET Kinds] /\ Unprepared.on = {}
      /\ IsThread(NoThread) /\ NoThread.at = "none" /\ NoThread.h = None
  BY DEF Unprepared, NoThread, IsThread
<1>6. Accepts(tasks) \subseteq Handles
  BY AcceptsTyped DEF CallInv, JobsTyped
<1>7. CallTyped'
  BY <1>1, <1>2, <1>3, <1>4, <1>5 DEF CallInv, CallTyped, MaybeHandle
<1>8. JobsTyped'
  BY <1>1, IdleJob DEF CallInv, JobsTyped
<1>9. ThreadTyped'
  BY <1>1, <1>5 DEF CallInv, ThreadTyped, MaybeHandle
<1>10. ControlInv'
  BY <1>1, <1>2, <1>5, IdleJob DEF CallInv, ControlInv
<1>11. StopInv'
  BY <1>1, <1>2, IdleJob DEF CallInv, StopInv, Serving
<1>12. CalleeInv'
  BY <1>1, <1>2 DEF CallInv, CalleeInv, Dialing, Connected
<1>13. AnnounceInv'
  BY <1>1, <1>2, <1>3, <1>4, <1>6, IdleJob DEF CallInv, AnnounceInv, Replacing
<1>14. SendInv'
  BY <1>1, <1>5 DEF SendInv, Sending
<1>15. ReceivesWhatItAsked'
  BY <1>3 DEF ReceivesWhatItAsked
<1> QED
  BY <1>7, <1>8, <1>9, <1>10, <1>11, <1>12, <1>13, <1>14, <1>15 DEF CallInv

\* The current connection is let go, and its media thread is told to stop.
LEMMA LetGoCall ==
    ASSUME CallInv, NEW do \in {"finish", "disconnect", "command"}, NEW close, Task(do),
           current = Head(tasks).h, LetGo, Hold("join", current, None, close),
              UNCHANGED <<user, cmd>>
    PROVE  CallInv'
<1>1. /\ current' = None /\ inCall' = FALSE /\ receive' = {} /\ running' = FALSE
      /\ tasks' = Tail(tasks) /\ control' = "worker"
      /\ worker' = [at |-> "join", h |-> current, old |-> None, close |-> close]
      /\ UNCHANGED <<serving, link, wanted, waiting, subs, policy, created, thread,
                     user, cmd>>
  BY DEF LetGo, TellMedia, Hold, connVars, peerVars, mediaVars, jobVars, cmdFrame,
     threadFrame
<1>2. /\ current \in Handles /\ current # None /\ link[current] # "none"
      /\ Serving /\ ~Dialing /\ current \notin Accepts(tasks)
      /\ Accepts(Tail(tasks)) = Accepts(tasks)
      /\ Items(Tail(tasks)) \subseteq Items(tasks)
      /\ Tail(tasks) \in Seq(CallTaskType) /\ OneAcceptEach(Tail(tasks))
      /\ worker.at = "idle" /\ control = "free" /\ user.at # "join" /\ (running <=> created)
  <2>1. current \in Handles /\ current # None
    BY TaskAtHand, NoneApart
  <2>2. link[current] # "none" /\ current \notin Accepts(tasks) /\ ~Dialing
    BY <2>1 DEF CallInv, AnnounceInv, CalleeInv
  <2> QED
    BY <2>1, <2>2, TaskAtHand
<1>3. worker'.at = "join" /\ worker'.h = current /\ IsJob(worker')
  BY <1>1, <1>2 DEF IsJob, MaybeHandle
<1>4. CallTyped'
  BY <1>1 DEF CallInv, CallTyped, MaybeHandle
<1>5. JobsTyped'
  BY <1>1, <1>2, <1>3 DEF CallInv, JobsTyped
<1>6. ThreadTyped'
  BY <1>1 DEF CallInv, ThreadTyped
<1>7. ControlInv'
  BY <1>1, <1>2, <1>3 DEF CallInv, ControlInv
<1>8. StopInv'
  BY <1>1, <1>2 DEF CallInv, StopInv, Serving
<1>9. CalleeInv'
  BY <1>1, <1>2, <1>3 DEF CallInv, CalleeInv, Dialing, Connected, Replacing
<1>10. AnnounceInv'
  BY <1>1, <1>2, <1>3 DEF CallInv, AnnounceInv, Replacing
<1>11. SendInv'
  BY <1>1, <1>2, <1>3 DEF CallInv, SendInv, Sending, Replacing
<1>12. ReceivesWhatItAsked'
  BY <1>1 DEF ReceivesWhatItAsked
<1> QED
  BY <1>4, <1>5, <1>6, <1>7, <1>8, <1>9, <1>10, <1>11, <1>12 DEF CallInv

LEMMA FinishElseCall ==
    ASSUME CallInv, NEW do \in {"finish", "disconnect"}, Task(do), FinishTask,
              current # Head(tasks).h
    PROVE  CallInv'
<1>1. /\ waiting' = IF waiting = Head(tasks).h THEN None ELSE waiting
      /\ subs' = IF waiting = Head(tasks).h THEN {} ELSE subs
      /\ link' = link \/ link' = Disconnect(link, Head(tasks).h)
      /\ worker' = Idle /\ control' = "free" /\ tasks' = Tail(tasks)
      /\ UNCHANGED <<serving, wanted, current, inCall, receive, policy, running,
                     created, thread, user, cmd>>
  BY DEF FinishTask, Done, connVars, peerVars, mediaVars, jobVars, cmdFrame, threadFrame
<1>2. /\ Head(tasks).h \in Handles /\ tasks # <<>>
      /\ (waiting # None => Serving) /\ Accepts(Tail(tasks)) = Accepts(tasks)
      /\ Items(Tail(tasks)) \subseteq Items(tasks)
      /\ Tail(tasks) \in Seq(CallTaskType) /\ OneAcceptEach(Tail(tasks))
      /\ worker.at = "idle" /\ control = "free" /\ user.at # "join" /\ (running <=> created)
  BY TaskAtHand
<1>3. /\ link' \in [Handles -> {"none", "open", "lost", "closed"}]
      /\ \A x \in Handles : link'[x] = "none" <=> link[x] = "none"
      /\ \A x \in Handles : x # Head(tasks).h => link'[x] = link[x]
  BY <1>1, DisconnectCloses DEF CallInv, CallTyped
<1>4. /\ Accepts(tasks) \subseteq Handles
      /\ \A x \in MaybeHandle : x # None => x \in Handles
  BY AcceptsTyped DEF CallInv, JobsTyped, MaybeHandle
<1>5. current # None => link'[current] = link[current]
  BY <1>3, <1>4 DEF CallInv, CallTyped
<1>6. waiting' # None => /\ waiting' = waiting /\ waiting # Head(tasks).h
                         /\ link'[waiting] = link[waiting]
  BY <1>1, <1>3, <1>4 DEF CallInv, CallTyped
<1>7. Sending => link'[thread.h] = link[thread.h]
  BY <1>2, <1>3 DEF CallInv, SendInv
<1>8. ThreadTyped'
  BY <1>1 DEF CallInv, ThreadTyped
<1>9. CallTyped'
  BY <1>1, <1>3 DEF CallInv, CallTyped, MaybeHandle
<1>10. JobsTyped'
  BY <1>1, <1>2, IdleJob DEF CallInv, JobsTyped
<1>11. ControlInv'
  BY <1>1, <1>2, IdleJob DEF CallInv, ControlInv
<1>12. StopInv'
  BY <1>1, <1>2, IdleJob DEF CallInv, StopInv, Serving
<1>13. CalleeInv'
  <2>1. Connected => link'[cmd.h] # "none"
    BY <1>3 DEF CallInv, CalleeInv
  <2> QED
    BY <1>1, <1>2, <2>1, IdleJob DEF CallInv, CalleeInv, Dialing, Connected, Replacing
<1>14. AnnounceInv'
  <2>1. \A h \in Accepts(Tail(tasks)) : link'[h] # "none"
    BY <1>2, <1>3, <1>4 DEF CallInv, AnnounceInv
  <2>2. waiting' # None => /\ link'[waiting'] \notin {"none", "closed"}
                           /\ waiting' \in Accepts(Tail(tasks))
    BY <1>2, <1>6 DEF CallInv, AnnounceInv, Replacing
  <2>3. current # None => link'[current] # "none" /\ current \notin Accepts(Tail(tasks))
    BY <1>2, <1>5 DEF CallInv, AnnounceInv
  <2> QED
    BY <1>1, <1>2, <2>1, <2>2, <2>3, IdleJob DEF AnnounceInv, Replacing
<1>15. SendInv'
  BY <1>1, <1>2, <1>5, <1>7, IdleJob DEF CallInv, SendInv, Sending, Replacing
<1>16. ReceivesWhatItAsked'
  BY <1>1, <1>2 DEF CallInv, ReceivesWhatItAsked
<1> QED
  BY <1>8, <1>9, <1>10, <1>11, <1>12, <1>13, <1>14, <1>15, <1>16 DEF CallInv

LEMMA FinishedCall ==
    ASSUME CallInv, Finished
    PROVE  CallInv'
<1>1. /\ worker.at = "join" /\ JoinMedia /\ worker' = Idle /\ control' = "free"
      /\ link' = link \/ link' = Disconnect(link, worker.h)
      /\ UNCHANGED <<serving, wanted, current, waiting, inCall, subs, receive, tasks,
                     user, cmd>>
  BY DEF Finished, connVars, peerVars, mediaVars, jobVars, cmdFrame, threadFrame
<1>2. /\ Serving /\ current = None /\ worker.h \in Handles /\ worker.h \notin Accepts(tasks)
      /\ control = "worker" /\ user.at # "join" /\ ~running /\ ~Dialing
  BY <1>1 DEF CallInv, AnnounceInv, ControlInv, StopInv, CalleeInv, ThreadTyped
<1>3. /\ link' \in [Handles -> {"none", "open", "lost", "closed"}]
      /\ \A x \in Handles : link'[x] = "none" <=> link[x] = "none"
      /\ \A x \in Handles : x # worker.h => link'[x] = link[x]
  BY <1>1, DisconnectCloses DEF CallInv, CallTyped
<1>4. /\ ~created' /\ created' \in BOOLEAN /\ running' = running
      /\ thread' = NoThread /\ NoThread.at = "none" /\ NoThread.h = None
            /\ IsThread(NoThread)
      /\ policy'.on = {} /\ policy' \in [ready : BOOLEAN, on : SUBSET Kinds]
  BY <1>1, JoinMediaDoes, Zenon DEF NoThread, IsThread
<1>5. /\ Accepts(tasks) \subseteq Handles
      /\ \A x \in MaybeHandle : x # None => x \in Handles
  BY AcceptsTyped DEF CallInv, JobsTyped, MaybeHandle
<1>6. waiting # None => waiting \in Accepts(tasks) /\ link'[waiting] = link[waiting]
  BY <1>1, <1>2, <1>3, <1>5 DEF CallInv, CallTyped, AnnounceInv, Replacing
<1>7. CallTyped'
  BY <1>1, <1>3, <1>4 DEF CallInv, CallTyped
<1>8. JobsTyped'
  BY <1>1, IdleJob DEF CallInv, JobsTyped
<1>9. ThreadTyped'
  BY <1>4 DEF CallInv, ThreadTyped, MaybeHandle
<1>10. ControlInv'
  BY <1>1, <1>2, <1>4, IdleJob DEF CallInv, ControlInv
<1>11. StopInv'
  BY <1>1, <1>2, IdleJob DEF CallInv, StopInv, Serving
<1>12. CalleeInv'
  <2>1. Connected => link'[cmd.h] # "none"
    BY <1>3 DEF CallInv, CalleeInv
  <2> QED
    BY <1>1, <1>2, <1>4, <2>1, IdleJob DEF CallInv, CalleeInv, Dialing, Connected, Replacing
<1>13. AnnounceInv'
  <2>1. \A h \in Accepts(tasks) : link'[h] # "none"
    BY <1>3, <1>5 DEF CallInv, AnnounceInv
  <2> QED
    BY <1>1, <1>2, <1>6, <2>1, IdleJob DEF CallInv, AnnounceInv, Replacing
<1>14. SendInv'
  BY <1>1, <1>2, <1>4 DEF SendInv, Sending
<1>15. ReceivesWhatItAsked'
  BY <1>1, <1>2 DEF CallInv, ReceivesWhatItAsked
<1> QED
  BY <1>7, <1>8, <1>9, <1>10, <1>11, <1>12, <1>13, <1>14, <1>15 DEF CallInv

LEMMA CommandElseCall ==
    ASSUME CallInv, CommandTask, current # Head(tasks).h
    PROVE  CallInv'
<1>1. /\ Task("command") /\ worker' = Idle /\ control' = "free" /\ tasks' = Tail(tasks)
      /\ UNCHANGED <<serving, link, wanted, current, waiting, inCall, subs, receive,
                     policy, running, created, thread, user, cmd>>
  BY DEF CommandTask, Done, LetGo, Hold, connVars, peerVars, mediaVars, jobVars,
     cmdFrame, threadFrame
<1>2. /\ tasks # <<>> /\ Accepts(Tail(tasks)) = Accepts(tasks)
      /\ Items(Tail(tasks)) \subseteq Items(tasks)
      /\ Tail(tasks) \in Seq(CallTaskType) /\ OneAcceptEach(Tail(tasks))
      /\ worker.at = "idle" /\ control = "free" /\ user.at # "join" /\ (running <=> created)
  BY <1>1, TaskAtHand
<1>3. CallTyped' /\ ThreadTyped'
  BY <1>1 DEF CallInv, CallTyped, ThreadTyped
<1>4. JobsTyped'
  BY <1>1, <1>2, IdleJob DEF CallInv, JobsTyped
<1>5. ControlInv'
  BY <1>1, <1>2, IdleJob DEF CallInv, ControlInv
<1>6. StopInv'
  BY <1>1, <1>2, IdleJob DEF CallInv, StopInv, Serving
<1>7. CalleeInv'
  BY <1>1, <1>2, IdleJob DEF CallInv, CalleeInv, Dialing, Connected, Replacing
<1>8. AnnounceInv'
  BY <1>1, <1>2, IdleJob DEF CallInv, AnnounceInv, Replacing
<1>9. SendInv'
  BY <1>1, <1>2, IdleJob DEF CallInv, SendInv, Sending, Replacing
<1>10. ReceivesWhatItAsked'
  BY <1>1, <1>2, IdleJob DEF CallInv, ReceivesWhatItAsked
<1> QED
  BY <1>3, <1>4, <1>5, <1>6, <1>7, <1>8, <1>9, <1>10 DEF CallInv

\* The peer has answered: the media of a caller start.
LEMMA CommandStartsCall ==
    ASSUME CallInv, Task("command"), current = Head(tasks).h, Done, StartMedia,
           inCall' = TRUE, receive' = Kinds, wanted' = [wanted EXCEPT ![current] = Kinds],
           UNCHANGED <<serving, link, waiting, current, granted, subs, owed, user, cmd>>
    PROVE  CallInv'
<1>1. /\ inCall' = TRUE /\ receive' = Kinds /\ wanted' = [wanted EXCEPT ![current] = Kinds]
      /\ StartMedia /\ Task("command") /\ worker' = Idle /\ control' = "free"
            /\ tasks' = Tail(tasks)
      /\ UNCHANGED <<serving, link, current, waiting, subs, user, cmd>>
  BY DEF Done
<1>2. /\ current \in Handles /\ current # None /\ Serving /\ serving # "callee"
      /\ ~Dialing /\ ~Connected
      /\ tasks # <<>> /\ Accepts(Tail(tasks)) = Accepts(tasks)
      /\ Items(Tail(tasks)) \subseteq Items(tasks)
      /\ Tail(tasks) \in Seq(CallTaskType) /\ OneAcceptEach(Tail(tasks))
      /\ worker.at = "idle" /\ control = "free" /\ user.at # "join" /\ (running <=> created)
  <2>1. current \in Handles /\ current # None
    BY <1>1, TaskAtHand, NoneApart
  <2> QED
    BY <1>1, <2>1, TaskAtHand
<1>3. /\ ThreadTyped' /\ running' \in BOOLEAN
      /\ (created' <=> thread'.at # "none") /\ (running' <=> created')
      /\ policy' \in [ready : BOOLEAN, on : SUBSET Kinds]
      /\ policy'.on \in {policy.on, {}}
      /\ thread' = thread \/ (~created /\ thread'.at = "top")
  BY <1>1, <1>2, StartMediaDoes, Zenon DEF CallInv
<1>4. wanted' \in [Handles -> SUBSET Kinds] /\ wanted'[current] = Kinds
  BY <1>1, <1>2 DEF CallInv, CallTyped
<1>5. ~created => thread.at = "none"
  BY DEF CallInv, ControlInv
<1>6. CallTyped'
  BY <1>1, <1>3, <1>4 DEF CallInv, CallTyped
<1>7. JobsTyped'
  BY <1>1, <1>2, IdleJob DEF CallInv, JobsTyped
<1>8. ThreadTyped'
  BY <1>3
<1>9. ControlInv'
  BY <1>1, <1>2, <1>3, IdleJob DEF CallInv, ControlInv
<1>10. StopInv'
  BY <1>1, <1>2, IdleJob DEF CallInv, StopInv, Serving
<1>11. CalleeInv'
  BY <1>1, <1>2 DEF CallInv, CalleeInv, Dialing, Connected
<1>12. AnnounceInv'
  BY <1>1, <1>2, IdleJob DEF CallInv, AnnounceInv, Replacing
<1>13. SendInv'
  BY <1>1, <1>2, <1>3, <1>5, IdleJob DEF CallInv, SendInv, Sending, Replacing
<1>14. ReceivesWhatItAsked'
  BY <1>1, <1>2, <1>4 DEF ReceivesWhatItAsked
<1> QED
  BY <1>6, <1>7, <1>8, <1>9, <1>10, <1>11, <1>12, <1>13, <1>14 DEF CallInv

\* A service that starts finds nothing of the one before.
LEMMA BeginCall ==
    ASSUME CallInv, Begin
    PROVE  CallInv'
<1>1. /\ cmd.at = "idle" /\ ~Serving /\ user.at = "idle" /\ serving' \in {"caller",
            "callee"}
      /\ serving' = "callee" => policy' = Prepared /\ CmdGo("dialing")
      /\ serving' # "callee" => UNCHANGED policy /\ CmdGo("request")
      /\ UNCHANGED <<link, wanted, current, waiting, inCall, subs, receive, running,
                     created, thread, tasks, worker, user, control>>
  BY NoneApart DEF Begin, Prepare, connVars, peerVars, mediaVars, jobVars, cmdFrame,
     threadFrame
<1>2. /\ worker.at = "idle" /\ current = None /\ waiting = None /\ ~created
      /\ receive = {} /\ policy.on = {} /\ tasks = <<>> /\ thread.at = "none"
  BY <1>1 DEF CallInv, StopInv, ControlInv
<1>3. /\ IsJob(cmd') /\ cmd'.at = IF serving' = "callee" THEN "dialing" ELSE "request"
  BY <1>1, CmdGoDoes DEF CallInv, JobsTyped
<1>4. policy' \in [ready : BOOLEAN, on : SUBSET Kinds] /\ policy'.on = {}
  <2>1. policy \in [ready : BOOLEAN, on : SUBSET Kinds]
    BY DEF CallInv, CallTyped
  <2>2. Prepared \in [ready : BOOLEAN, on : SUBSET Kinds] /\ Prepared.on = {}
    BY DEF Prepared
  <2>3. policy' \in {policy, Prepared}
    BY <1>1
  <2> QED
    BY <1>2, <2>1, <2>2, <2>3
<1>5. Items(tasks) = {}
  BY <1>2 DEF Items
<1>6. ThreadTyped' /\ ControlInv' /\ ReceivesWhatItAsked'
  BY <1>1 DEF CallInv, ThreadTyped, ControlInv, ReceivesWhatItAsked
<1>7. CallTyped'
  BY <1>1, <1>4 DEF CallInv, CallTyped
<1>8. JobsTyped'
  BY <1>1, <1>3 DEF CallInv, JobsTyped
<1>9. StopInv'
  BY <1>1 DEF StopInv, Serving
<1>10. CalleeInv'
  BY <1>1, <1>2, <1>3, <1>4, <1>5 DEF CalleeInv, Dialing, Connected, Replacing
<1>11. AnnounceInv'
  BY <1>1, <1>2 DEF CallInv, AnnounceInv, Replacing
<1>12. SendInv'
  BY <1>1, <1>2 DEF SendInv, Sending
<1> QED
  BY <1>6, <1>7, <1>8, <1>9, <1>10, <1>11, <1>12 DEF CallInv

LEMMA ExpectCall ==
    ASSUME CallInv, Expect
    PROVE  CallInv'
<1>1. /\ cmd.at = "request" /\ policy' = Prepared /\ CmdGo("idle")
      /\ UNCHANGED <<serving, link, wanted, current, waiting, inCall, subs, receive,
                     running, created, thread, tasks, worker, user, control>>
  BY DEF Expect, Prepare, connVars, peerVars, mediaVars, jobVars, cmdFrame, threadFrame
<1>2. IsJob(cmd') /\ cmd'.at = "idle"
  BY <1>1, CmdGoDoes DEF CallInv, JobsTyped
<1>3. policy' \in [ready : BOOLEAN, on : SUBSET Kinds] /\ policy'.on = {}
  BY <1>1 DEF Prepared
<1>4. ThreadTyped' /\ ControlInv' /\ AnnounceInv' /\ ReceivesWhatItAsked'
  BY <1>1 DEF CallInv, ThreadTyped, ControlInv, AnnounceInv, ReceivesWhatItAsked,
     Replacing
<1>5. CallTyped'
  BY <1>1, <1>3 DEF CallInv, CallTyped
<1>6. JobsTyped'
  BY <1>1, <1>2 DEF CallInv, JobsTyped
<1>7. StopInv'
  BY <1>1, <1>2, <1>3 DEF CallInv, StopInv, Serving
<1>8. CalleeInv'
  BY <1>1, <1>2, <1>3 DEF CallInv, CalleeInv, Dialing, Connected, Replacing
<1>9. SendInv'
  BY <1>1, <1>2, <1>3 DEF CallInv, SendInv, Sending, Replacing
<1> QED
  BY <1>4, <1>5, <1>6, <1>7, <1>8, <1>9 DEF CallInv

\* The connection that was dialled is new.
LEMMA DialWonCall ==
    ASSUME CallInv, NEW h \in Handles, DialWon(h)
    PROVE  CallInv'
<1>1. /\ cmd.at = "dialing" /\ link[h] = "none" /\ link' = [link EXCEPT ![h] = "open"]
      /\ cmd' = [cmd EXCEPT !.at = "won", !.h = h]
      /\ UNCHANGED <<serving, wanted, current, waiting, inCall, subs, receive, policy,
                     running, created, thread, tasks, worker, user, control>>
  BY DEF DialWon, connVars, peerVars, mediaVars, jobVars, cmdFrame, threadFrame
<1>2. IsJob(cmd') /\ cmd'.at = "won" /\ cmd'.h = h
  BY <1>1 DEF CallInv, JobsTyped, IsJob, MaybeHandle
<1>3. /\ link' \in [Handles -> {"none", "open", "lost", "closed"}] /\ link'[h] = "open"
      /\ \A x \in Handles : x # h => link'[x] = link[x]
  BY <1>1 DEF CallInv, CallTyped
<1>4. /\ serving = "callee" /\ waiting = None /\ current = None /\ ~created
            /\ thread.at = "none"
      /\ worker.at = "idle"
  BY <1>1 DEF CallInv, CalleeInv, Dialing, ControlInv
<1>5. Accepts(tasks) \subseteq Handles
  BY AcceptsTyped DEF CallInv, JobsTyped
<1>6. ThreadTyped' /\ ControlInv' /\ ReceivesWhatItAsked'
  BY <1>1 DEF CallInv, ThreadTyped, ControlInv, ReceivesWhatItAsked
<1>7. CallTyped'
  BY <1>1, <1>3 DEF CallInv, CallTyped
<1>8. JobsTyped'
  BY <1>1, <1>2 DEF CallInv, JobsTyped
<1>9. StopInv'
  BY <1>1, <1>4 DEF CallInv, StopInv, Serving
<1>10. CalleeInv'
  BY <1>1, <1>2, <1>3, <1>4 DEF CallInv, CalleeInv, Dialing, Connected, Replacing
<1>11. AnnounceInv'
  BY <1>1, <1>3, <1>4, <1>5 DEF CallInv, AnnounceInv, Replacing
<1>12. SendInv'
  BY <1>1, <1>4 DEF SendInv, Sending
<1> QED
  BY <1>6, <1>7, <1>8, <1>9, <1>10, <1>11, <1>12 DEF CallInv

LEMMA DialLostCall ==
    ASSUME CallInv, DialLost
    PROVE  CallInv'
<1>1. /\ cmd.at = "dialing" /\ current' = None /\ inCall' = FALSE /\ CmdGo("idle")
      /\ UNCHANGED <<serving, link, wanted, waiting, subs, receive, policy, running,
                     created, thread, tasks, worker, user, control>>
  BY DEF DialLost, connVars, peerVars, mediaVars, jobVars, cmdFrame, threadFrame
<1>2. IsJob(cmd') /\ cmd'.at = "idle"
  BY <1>1, CmdGoDoes DEF CallInv, JobsTyped
<1>3. current = None /\ serving = "callee" /\ worker.at = "idle" /\ ~created
  BY <1>1 DEF CallInv, CalleeInv, Dialing
<1>4. ThreadTyped' /\ ControlInv'
  BY <1>1 DEF CallInv, ThreadTyped, ControlInv
<1>5. CallTyped'
  BY <1>1 DEF CallInv, CallTyped, MaybeHandle
<1>6. JobsTyped'
  BY <1>1, <1>2 DEF CallInv, JobsTyped
<1>7. StopInv'
  BY <1>1, <1>2 DEF CallInv, StopInv, Serving
<1>8. CalleeInv'
  BY <1>1, <1>2, <1>3 DEF CallInv, CalleeInv, Dialing, Connected, Replacing
<1>9. AnnounceInv'
  BY <1>1, <1>2, <1>3 DEF CallInv, AnnounceInv, Replacing
<1>10. SendInv'
  BY <1>1, <1>2, <1>3 DEF CallInv, SendInv, Sending, Replacing
<1>11. ReceivesWhatItAsked'
  BY <1>1, <1>2, <1>3 DEF CallInv, ReceivesWhatItAsked
<1> QED
  BY <1>4, <1>5, <1>6, <1>7, <1>8, <1>9, <1>10, <1>11 DEF CallInv

\* It becomes current while nothing is sent and nothing is allowed.
LEMMA DialSucceedsCall ==
    ASSUME CallInv, DialSucceeds
    PROVE  CallInv'
<1>1. /\ cmd.at = "won" /\ current' = cmd.h /\ inCall' = TRUE /\ receive' = {}
      /\ CmdGo("subscribe")
      /\ UNCHANGED <<serving, link, wanted, waiting, subs, policy, running, created,
                     thread, tasks, worker, user, control>>
  BY DEF DialSucceeds, connVars, peerVars, mediaVars, jobVars, cmdFrame, threadFrame
<1>2. IsJob(cmd') /\ cmd'.at = "subscribe" /\ cmd'.h = cmd.h
  BY <1>1, CmdGoDoes DEF CallInv, JobsTyped
<1>3. /\ serving = "callee" /\ waiting = None /\ worker.at = "idle" /\ ~created
      /\ policy.on = {} /\ cmd.h \in Handles /\ link[cmd.h] # "none" /\ thread.at = "none"
  BY <1>1 DEF CallInv, CalleeInv, Dialing, Connected, ControlInv
<1>4. Accepts(tasks) = {}
  BY <1>3 DEF CallInv, CalleeInv, Accepts
<1>5. ThreadTyped' /\ ControlInv'
  BY <1>1 DEF CallInv, ThreadTyped, ControlInv
<1>6. CallTyped'
  BY <1>1, <1>3 DEF CallInv, CallTyped, MaybeHandle
<1>7. JobsTyped'
  BY <1>1, <1>2 DEF CallInv, JobsTyped
<1>8. StopInv'
  BY <1>1, <1>2, <1>3 DEF CallInv, StopInv, Serving
<1>9. CalleeInv'
  BY <1>1, <1>2, <1>3 DEF CallInv, CalleeInv, Dialing, Connected, Replacing
<1>10. AnnounceInv'
  BY <1>1, <1>3, <1>4 DEF CallInv, AnnounceInv, Replacing
<1>11. SendInv'
  BY <1>1, <1>3 DEF SendInv, Sending
<1>12. ReceivesWhatItAsked'
  BY <1>1 DEF ReceivesWhatItAsked
<1> QED
  BY <1>5, <1>6, <1>7, <1>8, <1>9, <1>10, <1>11, <1>12 DEF CallInv

LEMMA SubscribePeerCall ==
    ASSUME CallInv, SubscribePeer
    PROVE  CallInv'
<1>1. /\ cmd.at = "subscribe" /\ wanted' = [wanted EXCEPT ![cmd.h] = Kinds] /\ CmdGo("note")
      /\ UNCHANGED <<serving, link, current, waiting, inCall, subs, receive, policy,
                     running, created, thread, tasks, worker, user, control>>
  BY DEF SubscribePeer, connVars, peerVars, mediaVars, jobVars, cmdFrame, threadFrame
<1>2. IsJob(cmd') /\ cmd'.at = "note" /\ cmd'.h = cmd.h
  BY <1>1, CmdGoDoes DEF CallInv, JobsTyped
<1>3. /\ serving = "callee" /\ ~created /\ cmd.h \in Handles /\ link[cmd.h] # "none"
  BY <1>1 DEF CallInv, CalleeInv, Connected
<1>4. /\ wanted' \in [Handles -> SUBSET Kinds] /\ wanted'[cmd.h] = Kinds
      /\ \A x \in Handles : wanted[x] \subseteq wanted'[x]
  BY <1>1, <1>3 DEF CallInv, CallTyped
<1>5. ThreadTyped' /\ ControlInv' /\ AnnounceInv' /\ SendInv'
  BY <1>1 DEF CallInv, ThreadTyped, ControlInv, AnnounceInv, SendInv, Replacing, Sending
<1>6. CallTyped'
  BY <1>1, <1>4 DEF CallInv, CallTyped
<1>7. JobsTyped'
  BY <1>1, <1>2 DEF CallInv, JobsTyped
<1>8. StopInv'
  BY <1>1, <1>2, <1>3 DEF CallInv, StopInv, Serving
<1>9. CalleeInv'
  BY <1>1, <1>2, <1>3, <1>4 DEF CallInv, CalleeInv, Dialing, Connected, Replacing
<1>10. ReceivesWhatItAsked'
  BY <1>1, <1>4 DEF CallInv, CallTyped, MaybeHandle, ReceivesWhatItAsked
<1> QED
  BY <1>5, <1>6, <1>7, <1>8, <1>9, <1>10 DEF CallInv

\* The permission is noted for a connection that is still the call's...
LEMMA NoteKeepsCall ==
    ASSUME CallInv, NotePermission, current = cmd.h
    PROVE  CallInv'
<1>1. /\ cmd.at = "note" /\ receive' = Kinds /\ CmdGo("start")
      /\ UNCHANGED <<serving, link, wanted, current, waiting, inCall, subs, policy,
                     running, created, thread, tasks, worker, user, control>>
  BY DEF NotePermission, connVars, peerVars, mediaVars, jobVars, cmdFrame, threadFrame
<1>2. IsJob(cmd') /\ cmd'.at = "start" /\ cmd'.h = cmd.h
  BY <1>1, CmdGoDoes DEF CallInv, JobsTyped
<1>3. /\ serving = "callee" /\ ~created /\ cmd.h \in Handles /\ link[cmd.h] # "none"
      /\ wanted[cmd.h] = Kinds /\ cmd.h # None
  BY <1>1, NoneApart DEF CallInv, CalleeInv, Connected
<1>4. ThreadTyped' /\ ControlInv' /\ AnnounceInv' /\ SendInv'
  BY <1>1 DEF CallInv, ThreadTyped, ControlInv, AnnounceInv, SendInv, Replacing, Sending
<1>5. CallTyped'
  BY <1>1 DEF CallInv, CallTyped
<1>6. JobsTyped'
  BY <1>1, <1>2 DEF CallInv, JobsTyped
<1>7. StopInv'
  BY <1>1, <1>2, <1>3 DEF CallInv, StopInv, Serving
<1>8. CalleeInv'
  BY <1>1, <1>2, <1>3 DEF CallInv, CalleeInv, Dialing, Connected, Replacing
<1>9. ReceivesWhatItAsked'
  BY <1>1, <1>3 DEF ReceivesWhatItAsked
<1> QED
  BY <1>4, <1>5, <1>6, <1>7, <1>8, <1>9 DEF CallInv

\* ... or all is undone.
LEMMA NoteGivesUpCall ==
    ASSUME CallInv, NotePermission, current # cmd.h
    PROVE  CallInv'
<1>1. /\ cmd.at = "note" /\ link' = Disconnect(link, cmd.h) /\ CmdGo("idle")
      /\ wanted' = [wanted EXCEPT ![cmd.h] = {}]
      /\ UNCHANGED <<serving, current, waiting, inCall, subs, receive, policy, running,
                     created, thread, tasks, worker, user, control>>
  BY DEF NotePermission, connVars, peerVars, mediaVars, jobVars, cmdFrame, threadFrame
<1>2. IsJob(cmd') /\ cmd'.at = "idle"
  BY <1>1, CmdGoDoes DEF CallInv, JobsTyped
<1>3. /\ serving = "callee" /\ waiting = None /\ ~Replacing /\ ~created
            /\ thread.at = "none"
      /\ cmd.h \in Handles /\ current # cmd.h
  BY <1>1, NoneApart DEF CallInv, CalleeInv, Connected, Replacing, ControlInv,
     StartCall, NotePermission
<1>4. /\ link' \in [Handles -> {"none", "open", "lost", "closed"}]
      /\ \A x \in Handles : link'[x] = "none" <=> link[x] = "none"
      /\ \A x \in Handles : x # cmd.h => link'[x] = link[x]
  BY <1>1, DisconnectCloses DEF CallInv, CallTyped
<1>5. /\ Accepts(tasks) \subseteq Handles
      /\ \A x \in MaybeHandle : x # None => x \in Handles
  BY AcceptsTyped DEF CallInv, JobsTyped, MaybeHandle
<1>6. /\ wanted' \in [Handles -> SUBSET Kinds]
      /\ \A x \in Handles : x # cmd.h => wanted'[x] = wanted[x]
  BY <1>1, <1>3 DEF CallInv, CallTyped
<1>7. ThreadTyped' /\ ControlInv'
  BY <1>1 DEF CallInv, ThreadTyped, ControlInv
<1>8. CallTyped'
  BY <1>1, <1>4, <1>6 DEF CallInv, CallTyped
<1>9. JobsTyped'
  BY <1>1, <1>2 DEF CallInv, JobsTyped
<1>10. StopInv'
  BY <1>1, <1>2, <1>3 DEF CallInv, StopInv, Serving
<1>11. CalleeInv'
  BY <1>1, <1>2, <1>3 DEF CallInv, CalleeInv, Dialing, Connected, Replacing
<1>12. AnnounceInv'
  <2>1. \A h \in Accepts(tasks) : link'[h] # "none"
    BY <1>4, <1>5 DEF CallInv, AnnounceInv
  <2>2. current # None => link'[current] # "none"
    BY <1>3, <1>4, <1>5 DEF CallInv, CallTyped, AnnounceInv
  <2>3. worker.at # "idle" => link'[worker.h] # "none"
    BY <1>4 DEF CallInv, AnnounceInv
  <2> QED
    BY <1>1, <1>3, <2>1, <2>2, <2>3 DEF CallInv, AnnounceInv, Replacing
<1>13. SendInv'
  <2>1. current # None => link'[current] = link[current]
    BY <1>3, <1>4, <1>5 DEF CallInv, CallTyped
  <2> QED
    BY <1>1, <1>3, <2>1 DEF CallInv, SendInv, Sending
<1>14. ReceivesWhatItAsked'
  BY <1>1, <1>3, <1>5, <1>6 DEF CallInv, CallTyped, ReceivesWhatItAsked
<1> QED
  BY <1>7, <1>8, <1>9, <1>10, <1>11, <1>12, <1>13, <1>14 DEF CallInv

LEMMA StartGivesUpCall ==
    ASSUME CallInv, StartCall, ~(current = cmd.h /\ inCall)
    PROVE  CallInv'
<1>1. /\ cmd.at = "start" /\ link' = Disconnect(link, cmd.h) /\ CmdGo("idle")
      /\ UNCHANGED <<serving, wanted, current, waiting, inCall, subs, receive, policy,
                     running, created, thread, tasks, worker, user, control>>
  BY DEF StartCall, connVars, peerVars, mediaVars, jobVars, cmdFrame, threadFrame
<1>2. IsJob(cmd') /\ cmd'.at = "idle"
  BY <1>1, CmdGoDoes DEF CallInv, JobsTyped
<1>3. /\ serving = "callee" /\ waiting = None /\ ~Replacing /\ ~created
            /\ thread.at = "none"
      /\ cmd.h \in Handles /\ current # cmd.h
  BY <1>1, NoneApart DEF CallInv, CalleeInv, Connected, Replacing, ControlInv,
     StartCall, NotePermission
<1>4. /\ link' \in [Handles -> {"none", "open", "lost", "closed"}]
      /\ \A x \in Handles : link'[x] = "none" <=> link[x] = "none"
      /\ \A x \in Handles : x # cmd.h => link'[x] = link[x]
  BY <1>1, DisconnectCloses DEF CallInv, CallTyped
<1>5. /\ Accepts(tasks) \subseteq Handles
      /\ \A x \in MaybeHandle : x # None => x \in Handles
  BY AcceptsTyped DEF CallInv, JobsTyped, MaybeHandle
<1>6. ThreadTyped' /\ ControlInv' /\ ReceivesWhatItAsked'
  BY <1>1 DEF CallInv, ThreadTyped, ControlInv, ReceivesWhatItAsked
<1>7. CallTyped'
  BY <1>1, <1>4 DEF CallInv, CallTyped
<1>8. JobsTyped'
  BY <1>1, <1>2 DEF CallInv, JobsTyped
<1>9. StopInv'
  BY <1>1, <1>2, <1>3 DEF CallInv, StopInv, Serving
<1>10. CalleeInv'
  BY <1>1, <1>2, <1>3 DEF CallInv, CalleeInv, Dialing, Connected, Replacing
<1>11. AnnounceInv'
  <2>1. \A h \in Accepts(tasks) : link'[h] # "none"
    BY <1>4, <1>5 DEF CallInv, AnnounceInv
  <2>2. current # None => link'[current] # "none"
    BY <1>3, <1>4, <1>5 DEF CallInv, CallTyped, AnnounceInv
  <2>3. worker.at # "idle" => link'[worker.h] # "none"
    BY <1>4 DEF CallInv, AnnounceInv
  <2> QED
    BY <1>1, <1>3, <2>1, <2>2, <2>3 DEF CallInv, AnnounceInv, Replacing
<1>12. SendInv'
  <2>1. current # None => link'[current] = link[current]
    BY <1>3, <1>4, <1>5 DEF CallInv, CallTyped
  <2> QED
    BY <1>1, <1>3, <2>1 DEF CallInv, SendInv, Sending
<1> QED
  BY <1>6, <1>7, <1>8, <1>9, <1>10, <1>11, <1>12 DEF CallInv

LEMMA StartCallCall ==
    ASSUME CallInv, StartCall, current = cmd.h, inCall
    PROVE  CallInv'
<1>1. /\ cmd.at = "start" /\ control = "free" /\ StartMedia /\ CmdGo("idle")
      /\ UNCHANGED <<serving, link, wanted, current, waiting, inCall, subs, receive,
                     tasks, worker, user, control>>
  BY DEF StartCall, connVars, peerVars, mediaVars, jobVars, cmdFrame, threadFrame
<1>2. IsJob(cmd') /\ cmd'.at = "idle"
  BY <1>1, CmdGoDoes DEF CallInv, JobsTyped
<1>3. /\ serving = "callee" /\ ~created /\ cmd.h \in Handles /\ thread.at = "none"
      /\ user.at # "join" /\ worker.at = "idle"
  BY <1>1 DEF CallInv, CalleeInv, Connected, ControlInv
<1>4. /\ ThreadTyped' /\ running' \in BOOLEAN
      /\ (created' <=> thread'.at # "none") /\ (running' <=> created')
      /\ policy' \in [ready : BOOLEAN, on : SUBSET Kinds]
      /\ policy'.on \in {policy.on, {}}
      /\ thread' = thread \/ thread'.at = "top"
  BY <1>1, StartMediaDoes, Zenon DEF CallInv
<1>5. AnnounceInv' /\ ReceivesWhatItAsked'
  BY <1>1 DEF CallInv, AnnounceInv, ReceivesWhatItAsked, Replacing
<1>6. CallTyped'
  BY <1>1, <1>4 DEF CallInv, CallTyped
<1>7. JobsTyped'
  BY <1>1, <1>2 DEF CallInv, JobsTyped
<1>8. ThreadTyped'
  BY <1>4
<1>9. ControlInv'
  BY <1>1, <1>3, <1>4 DEF CallInv, ControlInv
<1>10. StopInv'
  BY <1>1, <1>2, <1>3 DEF CallInv, StopInv, Serving
<1>11. CalleeInv'
  BY <1>1, <1>2, <1>3, <1>4 DEF CallInv, CalleeInv, Dialing, Connected, Replacing
<1>12. SendInv'
  BY <1>1, <1>3, <1>4 DEF CallInv, SendInv, Sending
<1> QED
  BY <1>5, <1>6, <1>7, <1>8, <1>9, <1>10, <1>11, <1>12 DEF CallInv

\* A hang-up tells the media thread, and holds the control mutex until it is over.
LEMMA HangupTellCall ==
    ASSUME CallInv, NEW ends \in BOOLEAN, HangupTell(ends)
    PROVE  CallInv'
<1>1. /\ user.at = "idle" /\ Serving /\ control = "free" /\ running' = FALSE
            /\ control' = "user"
      /\ ends => cmd.at \in {"idle", "request"}
      /\ serving' = IF ends THEN "no" ELSE serving
      /\ user' = [Idle EXCEPT !.at = "join", !.close = ends]
      /\ UNCHANGED <<link, wanted, current, waiting, inCall, subs, receive, policy,
                     created, thread, tasks, worker, cmd>>
  BY Zenon DEF HangupTell, TellMedia, connVars, peerVars, mediaVars, jobVars, cmdFrame,
     threadFrame
<1>2. IsJob(user') /\ user'.at = "join" /\ user'.close = ends
  BY <1>1 DEF IsJob, Idle, MaybeHandle
<1>3. worker.at = "idle" /\ (running <=> created)
  BY <1>1 DEF CallInv, ControlInv
<1>4. ~ends <=> serving' # "no"
  BY <1>1 DEF Serving
<1>5. ReceivesWhatItAsked'
  BY <1>1 DEF CallInv, ReceivesWhatItAsked
<1>6. CallTyped'
  BY <1>1 DEF CallInv, CallTyped
<1>7. JobsTyped'
  BY <1>1, <1>2 DEF CallInv, JobsTyped
<1>8. ThreadTyped'
  BY <1>1 DEF CallInv, ThreadTyped
<1>9. ControlInv'
  BY <1>1, <1>2, <1>3 DEF CallInv, ControlInv
<1>10. StopInv'
  BY <1>1, <1>2, <1>3, <1>4 DEF StopInv, Serving
<1>11. CalleeInv'
  BY <1>1 DEF CallInv, CalleeInv, Dialing, Connected, Replacing
<1>12. AnnounceInv'
  BY <1>1, <1>3 DEF CallInv, AnnounceInv, Replacing
<1>13. SendInv'
  BY <1>1 DEF CallInv, SendInv, Sending, Replacing
<1> QED
  BY <1>5, <1>6, <1>7, <1>8, <1>9, <1>10, <1>11, <1>12, <1>13 DEF CallInv

\* ... and closes the call's connections when nothing sends on them.
LEMMA HangupDoneCall ==
    ASSUME CallInv, HangupDone
    PROVE  CallInv'
<1>1. /\ user.at = "join" /\ JoinMedia /\ link' = Disconnect(Disconnect(link, current),
            waiting)
      /\ current' = None /\ waiting' = None /\ inCall' = FALSE /\ receive' = {}
            /\ subs' = {}
      /\ cmd' = [cmd EXCEPT !.close = (cmd.at = "dialing")]
      /\ control' = "free"
      /\ user' = IF user.close THEN [user EXCEPT !.at = "drain"] ELSE Idle
      /\ UNCHANGED <<serving, wanted, tasks, worker>>
  BY Zenon DEF HangupDone, connVars, peerVars, mediaVars, jobVars, cmdFrame, threadFrame
<1>2. worker.at = "idle" /\ ~running /\ (user.close <=> ~Serving)
  BY <1>1 DEF CallInv, ControlInv, ThreadTyped, StopInv
<1>3. /\ link' \in [Handles -> {"none", "open", "lost", "closed"}]
      /\ \A x \in Handles : link'[x] = "none" <=> link[x] = "none"
  <2>1. Disconnect(link, current) \in [Handles -> {"none", "open", "lost", "closed"}]
    BY DisconnectCloses DEF CallInv, CallTyped
  <2> QED
    BY <1>1, <2>1, DisconnectCloses DEF CallInv, CallTyped
<1>4. /\ ~created' /\ created' \in BOOLEAN /\ running' = running
      /\ thread' = NoThread /\ NoThread.at = "none" /\ NoThread.h = None
            /\ IsThread(NoThread)
      /\ policy'.on = {} /\ policy' \in [ready : BOOLEAN, on : SUBSET Kinds]
  BY <1>1, JoinMediaDoes, Zenon DEF NoThread, IsThread
<1>5. IsJob(cmd') /\ cmd'.at = cmd.at /\ cmd'.h = cmd.h
  <2>1. \A b : cmd' = [cmd EXCEPT !.close = b]
               => IsJob(cmd') /\ cmd'.at = cmd.at /\ cmd'.h = cmd.h
    BY DEF CallInv, JobsTyped, IsJob
  <2> QED
    BY <1>1, <2>1, Zenon
<1>6. /\ IsJob(user') /\ user'.at = IF user.close THEN "drain" ELSE "idle"
      /\ user'.close \in BOOLEAN
  <2>1. CASE user.close
    BY <1>1, <2>1 DEF CallInv, JobsTyped, IsJob
  <2>2. CASE ~user.close
    BY <1>1, <2>2, IdleJob DEF CallInv, JobsTyped
  <2> QED
    BY <2>1, <2>2
<1>7. Accepts(tasks) \subseteq Handles
  BY AcceptsTyped DEF CallInv, JobsTyped
<1>8. CallTyped'
  BY <1>1, <1>3, <1>4 DEF CallInv, CallTyped, MaybeHandle
<1>9. JobsTyped'
  BY <1>1, <1>5, <1>6 DEF CallInv, JobsTyped
<1>10. ThreadTyped'
  BY <1>2, <1>4 DEF CallInv, ThreadTyped, MaybeHandle
<1>11. ControlInv'
  BY <1>1, <1>2, <1>4, <1>6 DEF CallInv, ControlInv
<1>12. StopInv'
  BY <1>1, <1>2, <1>4, <1>5, <1>6 DEF CallInv, StopInv, Serving
<1>13. CalleeInv'
  <2>1. Connected => link'[cmd.h] # "none"
    BY <1>3 DEF CallInv, CalleeInv
  <2> QED
    BY <1>1, <1>2, <1>4, <1>5, <2>1 DEF CallInv, CalleeInv, Dialing, Connected, Replacing
<1>14. AnnounceInv'
  <2>1. \A h \in Accepts(tasks) : link'[h] # "none"
    BY <1>3, <1>7 DEF CallInv, AnnounceInv
  <2> QED
    BY <1>1, <1>2, <2>1 DEF CallInv, AnnounceInv, Replacing
<1>15. SendInv'
  BY <1>1, <1>4 DEF SendInv, Sending
<1>16. ReceivesWhatItAsked'
  BY <1>1 DEF ReceivesWhatItAsked
<1> QED
  BY <1>8, <1>9, <1>10, <1>11, <1>12, <1>13, <1>14, <1>15, <1>16 DEF CallInv

LEMMA StopDrainedCall ==
    ASSUME CallInv, StopDrained
    PROVE  CallInv'
<1>1. /\ user.at = "drain" /\ tasks = <<>> /\ user' = Idle
      /\ UNCHANGED <<serving, link, wanted, current, waiting, inCall, subs, receive,
                     policy, running, created, thread, tasks, worker, cmd, control>>
  BY DEF StopDrained, connVars, peerVars, mediaVars, jobVars, cmdFrame, threadFrame
<1>2. CallTyped' /\ ThreadTyped' /\ CalleeInv' /\ AnnounceInv' /\ SendInv' /\
       ReceivesWhatItAsked'
  BY <1>1 DEF CallInv, CallTyped, ThreadTyped, CalleeInv, AnnounceInv, SendInv,
     ReceivesWhatItAsked, Dialing, Connected, Replacing, Sending
<1>3. JobsTyped'
  BY <1>1, IdleJob DEF CallInv, JobsTyped
<1>4. ControlInv'
  BY <1>1, IdleJob DEF CallInv, ControlInv
<1>5. StopInv'
  BY <1>1, IdleJob DEF CallInv, StopInv, Serving
<1> QED
  BY <1>2, <1>3, <1>4, <1>5 DEF CallInv

-----------------------------------------------------------------------------
(* CallMedia: the specification. *)

LEMMA CallInitInv == Init => CallInv
<1> SUFFICES ASSUME Init PROVE CallInv
  OBVIOUS
<1>1. /\ serving = "no" /\ inCall = FALSE /\ link = [h \in Handles |-> "none"]
      /\ wanted = [h \in Handles |-> {}] /\ current = None /\ waiting = None
      /\ subs = {} /\ receive = {} /\ policy = Unprepared /\ running = FALSE
      /\ created = FALSE /\ thread = NoThread /\ tasks = <<>> /\ worker = Idle
      /\ user = Idle /\ cmd = Idle /\ control = "free"
  BY Zenon DEF Init
<1>2. /\ Unprepared \in [ready : BOOLEAN, on : SUBSET Kinds] /\ Unprepared.on = {}
      /\ IsThread(NoThread) /\ NoThread.at = "none" /\ NoThread.h = None
  BY DEF Unprepared, NoThread, IsThread
<1>3. Items(tasks) = {} /\ tasks \in Seq(CallTaskType) /\ OneAcceptEach(tasks)
  BY <1>1 DEF Items, OneAcceptEach
<1>4. Accepts(tasks) = {}
  BY <1>3 DEF Accepts
<1>5. CallTyped /\ ReceivesWhatItAsked
  BY <1>1, <1>2 DEF CallTyped, MaybeHandle, ReceivesWhatItAsked
<1>6. JobsTyped /\ ThreadTyped /\ ControlInv
  BY <1>1, <1>2, <1>3, IdleJob DEF JobsTyped, ThreadTyped, ControlInv, MaybeHandle
<1>7. StopInv /\ CalleeInv /\ AnnounceInv /\ SendInv
  BY <1>1, <1>2, <1>3, <1>4, IdleJob DEF StopInv, Serving, CalleeInv, Dialing, Connected,
     Replacing, AnnounceInv, SendInv, Sending
<1> QED
  BY <1>5, <1>6, <1>7 DEF CallInv

LEMMA AcceptTaskCall == ASSUME CallInv, AcceptTask PROVE CallInv'
<1>1. CASE Serving /\ waiting = Head(tasks).h /\ current \in {None, waiting}
  BY <1>1, AcceptTakesCall
<1>2. CASE Serving /\ waiting = Head(tasks).h /\ current \notin {None, waiting}
  BY <1>2, AcceptReplacesCall
<1>3. CASE ~(Serving /\ waiting = Head(tasks).h)
  BY <1>3, AcceptClosesCall
<1> QED
  BY <1>1, <1>2, <1>3

LEMMA FinishTaskCall == ASSUME CallInv, FinishTask PROVE CallInv'
<1>1. PICK do \in {"finish", "disconnect"} : Task(do)
  BY DEF FinishTask
<1>2. CASE current = Head(tasks).h
  <2>1. PICK close : LetGo /\ Hold("join", current, None, close) /\ UNCHANGED <<user, cmd>>
    BY <1>2, Zenon DEF FinishTask
  <2> QED
    BY <1>1, <1>2, <2>1, LetGoCall
<1>3. CASE current # Head(tasks).h
  BY <1>1, <1>3, FinishElseCall
<1> QED
  BY <1>2, <1>3

LEMMA CommandTaskCall == ASSUME CallInv, CommandTask PROVE CallInv'
<1>1. CASE current # Head(tasks).h
  BY <1>1, CommandElseCall
<1>2. CASE current = Head(tasks).h
  <2>1. Task("command") /\ UNCHANGED <<user, cmd>>
    BY DEF CommandTask
  <2>2. CASE LetGo /\ Hold("join", current, None, TRUE)
    BY <1>2, <2>1, <2>2, LetGoCall
  <2>3. CASE /\ inCall' = TRUE /\ receive' = Kinds
             /\ wanted' = [wanted EXCEPT ![current] = Kinds] /\ StartMedia /\ Done
             /\ UNCHANGED <<serving, link, current, waiting, granted, subs, owed>>
    BY <1>2, <2>1, <2>3, CommandStartsCall
  <2> QED
    BY <1>2, <2>2, <2>3, Zenon DEF CommandTask
<1> QED
  BY <1>1, <1>2

LEMMA NotePermissionCall == ASSUME CallInv, NotePermission PROVE CallInv'
BY NoteKeepsCall, NoteGivesUpCall

LEMMA StartsOrGivesUpCall == ASSUME CallInv, StartCall PROVE CallInv'
BY StartCallCall, StartGivesUpCall

LEMMA CallStepInv == CallInv /\ [Next]_vars => CallInv'
<1> SUFFICES ASSUME CallInv, [Next]_vars PROVE CallInv'
  OBVIOUS
<1>1. CASE Callback
  BY <1>1, ConnAcceptedCall, CommandArrivesCall, ConnLostCall, RequestKeyCall,
     SubscribeCall,
     UnsubscribeCall DEF Callback
<1>2. CASE Media
  BY <1>2, SnapshotCall, ReadVideoCall, SendOkCall, SendFailsCall, SendEndsCall DEF Media
<1>3. CASE Worker
  BY <1>3, AcceptTaskCall, ReplacedCall, FinishTaskCall, FinishedCall, CommandTaskCall
     DEF Worker
<1>4. CASE Command
  BY <1>4, BeginCall, ExpectCall, DialWonCall, DialLostCall, DialSucceedsCall,
     SubscribePeerCall, NotePermissionCall, StartsOrGivesUpCall DEF Command
<1>5. CASE User
  BY <1>5, HangupTellCall, HangupDoneCall, StopDrainedCall DEF User
<1>6. CASE UNCHANGED vars
  BY <1>6 DEF vars, connVars, peerVars, mediaVars, jobVars, CallInv, CallTyped, JobsTyped,
     ThreadTyped, ControlInv, StopInv, Serving, CalleeInv, Dialing, Connected, Replacing,
     AnnounceInv, SendInv, Sending, ReceivesWhatItAsked
<1> QED
  BY <1>1, <1>2, <1>3, <1>4, <1>5, <1>6 DEF Next

LEMMA OpenHandle == CallInv => SendsOnOpenHandle
BY DEF CallInv, SendInv, Sending, SendsOnOpenHandle, SendsAudio, SendsVideo

LEMMA QuietWhenStopped == CallInv => StoppedIsQuiet
<1> SUFFICES ASSUME CallInv, ~Serving, user.at = "idle"
             PROVE  /\ current = None /\ waiting = None /\ tasks = <<>>
                          /\ worker.at = "idle"
                    /\ ~created /\ ~running /\ thread.at = "none"
                    /\ receive = {} /\ subs = {} /\ policy.on = {}
  BY DEF StoppedIsQuiet
<1> QED
  BY DEF CallInv, StopInv, ControlInv

-----------------------------------------------------------------------------
(* Theorems of the parts together. *)

LEMMA PartsStep ==
    ASSUME [MediaNext]_<<part, vars, sinkVars, rejectVars>>
    PROVE  /\ [Next]_vars /\ [Down!DownNext]_sinkVars /\ [Ring!Next]_(Ring!vars)
<1>1. UNCHANGED rejectVars => UNCHANGED Ring!vars
  BY DEF rejectVars, Ring!vars, Ring!ring
<1> QED
  BY <1>1 DEF MediaNext

\* What a part does in the run is what its own module specifies.
THEOREM PartsRunAlone ==
    MediaSpec => Spec /\ Down!DownInit /\ [][Down!DownNext]_sinkVars /\ Ring!Spec
<1>1. MediaInit => Init /\ Down!DownInit /\ Ring!Init
  BY DEF MediaInit
<1> QED
  BY <1>1, PartsStep, PTL DEF MediaSpec, Spec, Ring!Spec

\* The invariant of a call's media: who may send and on what, which connections
\* the worker has still to take in, and what a stopped service has left.
THEOREM CallMediaInductive == Spec => []CallInv
BY CallInitInv, CallStepInv, PTL DEF Spec

\* The media thread is out of the way before this device closes the connection
\* it sends on, when a call is hung up, replaced, lost or given up.
THEOREM SendsOnOpenHandleAlways == MediaSpec => []SendsOnOpenHandle
BY PartsRunAlone, CallMediaInductive, OpenHandle, PTL

\* A call's service that has stopped leaves nothing to the next business: no
\* connection, thread, task, subscription or permission.
THEOREM StoppedCallIsQuiet == MediaSpec => []StoppedIsQuiet
BY PartsRunAlone, CallMediaInductive, QuietWhenStopped, PTL

\* The invariant of the downlink: which session a connection, a callback under
\* way, a queued frame and the product's sink belong to.
THEOREM DownlinkInductive == Down!DownInit /\ [][Down!DownNext]_sinkVars => []DownInv
BY DownInitInv, DownStepInv, PTL

\* Of the peer's frames only those this device asked for pass, and the product
\* hears a frame under the session it was received in, and none after the end.
THEOREM HearsWhatItAskedAlways == MediaSpec => []HearsWhatItAsked
<1>1. CallInv /\ DownInv => HearsWhatItAsked
  BY SoundSink DEF CallInv, HearsWhatItAsked
<1> QED
  BY <1>1, PartsRunAlone, CallMediaInductive, DownlinkInductive, PTL

\* The ring of busy rejections implements a queue, in the run of the parts too.
THEOREM RejectionsImplementFifo == MediaSpec => ImplementsFifo
BY PartsRunAlone, RingImplementsFifo, PTL DEF ImplementsFifo
=============================================================================
