------------------------------ MODULE RejectQueue -----------------------------
(***************************************************************************)
(* The queue of busy rejections: the MQTT thread must not wait for the     *)
(* network, so that it leaves the calls to reject in a ring of slots for a *)
(* worker thread.  There are two such queues: of device calls              *)
(* (call_session.c), whose worker is started by the first rejection and    *)
(* whose rejections are HTTP requests, and of WeChat calls (tirtc_voip.c), *)
(* whose worker is started with the session, which is closed when the      *)
(* session is destroyed, and whose rejections go through the SDK.  The     *)
(* main thread destroys either after MQTT and the SDK have stopped.        *)
(***************************************************************************)
EXTENDS Integers, Sequences

CONSTANTS
    Capacity,  \* slots of the ring: 16
    Calls      \* bound: calls that come while the device is busy

QueueAssumption == Capacity \in Nat \ {0} /\ Calls \in Nat

VARIABLES
    slots, head, count,  \* reject_queue, reject_head, reject_count
    active,     \* reject_active
    stop,       \* reject_stop
    worker,     \* "none" before its creation, "asleep" on reject_ready,
                \* "awake" with the lock to come, "posting", "posted", "exit"
    held,       \* the call the worker has copied
    next,       \* the call that comes next
    main,       \* "run", "quit" once MQTT is gone, "off" once the SDK is, then
                \* in the destructor "check", "asleep" on reject_idle, "join",
                \* "gone"
    accepted,   \* history: the calls queued
    taken,      \* history: the calls the worker has taken
    posted      \* history: the calls rejected

ring == <<slots, head, count>>
vars == <<ring, active, stop, worker, held, next, main, accepted, taken, posted>>

Call == 1..Calls
Slot == 0..(Capacity - 1)

TypeOK ==
    /\ slots \in [Slot -> Call \cup {0}] /\ head \in Slot /\ count \in 0..Capacity
    /\ active \in BOOLEAN /\ stop \in BOOLEAN
    /\ worker \in {"none", "asleep", "awake", "posting", "posted", "exit"}
    /\ held \in Call \cup {0} /\ next \in 1..(Calls + 1)
    /\ main \in {"run", "quit", "off", "check", "asleep", "join", "gone"}
    /\ accepted \in Seq(Call) /\ taken \in Seq(Call) /\ posted \in Seq(Call)

\* The queue of WeChat calls has its worker, that of device calls has none yet.
Init ==
    /\ slots = [s \in Slot |-> 0] /\ head = 0 /\ count = 0
    /\ active = FALSE /\ stop = FALSE
    /\ worker \in {"awake", "none"}
    /\ held = 0 /\ next = 1 /\ main = "run"
    /\ accepted = <<>> /\ taken = <<>> /\ posted = <<>>

\* The slot `n' places on from the head.
At(n) == (head + n) % Capacity
\* pthread_cond_signal and pthread_cond_broadcast wake who is asleep, if any.
Woken(thread) == IF thread = "asleep" THEN "awake" ELSE thread
MainWoken == IF main = "asleep" THEN "check" ELSE main

-----------------------------------------------------------------------------
(* The MQTT thread: a call comes while the device is busy. *)

\* What becomes of the call: queued, or dropped because all slots are taken or
\* there is no worker and none can be made.  (The WeChat queue also refuses
\* once it is closed; MQTT, which brings the calls, has stopped before that.)
Queue ==
    /\ slots' = [slots EXCEPT ![At(count)] = next]
    /\ count' = count + 1
    /\ accepted' = Append(accepted, next)
Drop == UNCHANGED <<slots, count, accepted>>

\* The first rejection of a device call starts the worker.
Submit ==
    /\ main = "run" /\ next \in Call
    /\ next' = next + 1
    /\ \/ worker = "none" /\ Drop /\ UNCHANGED worker
       \/ /\ count = Capacity
          /\ Drop /\ worker' = IF worker = "none" THEN "awake" ELSE worker
       \/ /\ count < Capacity
          /\ Queue /\ worker' = IF worker = "none" THEN "awake" ELSE Woken(worker)
    /\ UNCHANGED <<head, active, stop, held, main, taken, posted>>

-----------------------------------------------------------------------------
(* The worker. *)

\* With nothing to do it sleeps until there is, or until it is told to stop.
Sleep ==
    /\ worker = "awake" /\ count = 0 /\ ~stop
    /\ worker' = "asleep"
    /\ UNCHANGED <<ring, active, stop, held, next, main, accepted, taken, posted>>

\* The bug: the head is moved on without going round.
TakeMutant ==
    /\ worker = "awake" /\ count > 0
    /\ held' = slots[head] /\ taken' = Append(taken, slots[head])
    /\ head' = IF head + 1 = Capacity THEN head ELSE head + 1
    /\ count' = count - 1
    /\ active' = TRUE /\ worker' = "posting"
    /\ UNCHANGED <<slots, stop, next, main, accepted, posted>>

\* It copies the oldest call and goes on without the lock.
Take ==
    /\ worker = "awake" /\ count > 0
    /\ held' = slots[head] /\ taken' = Append(taken, slots[head])
    /\ head' = (head + 1) % Capacity /\ count' = count - 1
    /\ active' = TRUE /\ worker' = "posting"
    /\ UNCHANGED <<slots, stop, next, main, accepted, posted>>

\* The rejection is posted; whether it arrives is not looked at.
Post ==
    /\ worker = "posting"
    /\ posted' = Append(posted, held)
    /\ worker' = "posted"
    /\ UNCHANGED <<ring, active, stop, held, next, main, accepted, taken>>

\* With the lock again; a destructor is woken when no call is left.
Posted ==
    /\ worker = "posted"
    /\ active' = FALSE
    /\ main' = IF count = 0 THEN MainWoken ELSE main
    /\ worker' = "awake"
    /\ UNCHANGED <<ring, stop, held, next, accepted, taken, posted>>

\* Told to stop, it first works off what waits.
Exit ==
    /\ worker = "awake" /\ stop /\ count = 0
    /\ main' = MainWoken
    /\ worker' = "exit"
    /\ UNCHANGED <<ring, active, stop, held, next, accepted, taken, posted>>

-----------------------------------------------------------------------------
(* The main thread. *)

\* connect_mqtt_blocking has returned: no more calls come ...
Quit ==
    /\ main = "run" /\ main' = "quit"
    /\ UNCHANGED <<ring, active, stop, worker, held, next, accepted, taken, posted>>

\* ... tirtc_runtime_stop has returned ...
StopSdk ==
    /\ main = "quit" /\ main' = "off"
    /\ UNCHANGED <<ring, active, stop, worker, held, next, accepted, taken, posted>>

\* ... and the destructor asks the worker to stop.
Destroy ==
    /\ main = "off"
    /\ stop' = TRUE /\ worker' = Woken(worker)
    /\ main' = "check"
    /\ UNCHANGED <<ring, active, held, next, accepted, taken, posted>>

\* It sleeps while calls wait or one is being posted, then joins the worker.
Check ==
    /\ main = "check"
    /\ main' = IF count # 0 \/ active THEN "asleep" ELSE "join"
    /\ UNCHANGED <<ring, active, stop, worker, held, next, accepted, taken, posted>>

\* The worker is joined if there is one, and the queue is freed.
Join ==
    /\ main = "join" /\ worker \in {"none", "exit"}
    /\ main' = "gone"
    /\ UNCHANGED <<ring, active, stop, worker, held, next, accepted, taken, posted>>

-----------------------------------------------------------------------------
Worker == Sleep \/ Take \/ Post \/ Posted \/ Exit
Main == Quit \/ StopSdk \/ Destroy \/ Check \/ Join
Next == Submit \/ Worker \/ Main

Spec == Init /\ [][Next]_vars

-----------------------------------------------------------------------------
(* Properties. *)

\* The calls that wait, the oldest first, as they lie in the ring.
Waiting == [i \in 1..count |-> slots[At(i - 1)]]

\* Every call that was queued waits, is being posted or was posted, in the
\* order of their coming and none twice: the ring hands out what was put in.
QueuedCallsAreKept ==
    /\ accepted = taken \o Waiting
    /\ taken = IF worker = "posting" THEN Append(posted, held) ELSE posted

\* Whatever was queued has been posted when the destructor returns, and no
\* thread is left that would use what it frees.
NothingLeftBehind ==
    main = "gone" => posted = accepted /\ worker \in {"none", "exit"}

\* No wake-up is lost: the worker sleeps only when there is nothing to do, and
\* the destructor only while the worker has something to do and will wake it.
NoWakeUpIsLost ==
    /\ worker = "asleep" => count = 0 /\ ~stop
    /\ main = "asleep" => (count # 0 \/ active) /\ worker \notin {"none", "asleep", "exit"}

\* Inductive, with the type invariant and QueuedCallsAreKept.
ThreadInv ==
    /\ stop <=> main \notin {"run", "quit", "off"}
    /\ active <=> worker \in {"posting", "posted"}
    /\ worker \in {"none", "exit"} => count = 0
    /\ worker = "exit" => stop
    /\ main \in {"join", "gone"} => count = 0 /\ ~active
    /\ main = "gone" => worker \in {"none", "exit"}

\* The ring with its indices is a queue.
Fifo == INSTANCE RejectFifo WITH waiting <- Waiting, open <- main = "run"
ImplementsFifo == Fifo!Spec
=============================================================================
