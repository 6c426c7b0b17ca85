-------------------------- MODULE SdkCallbackGuard --------------------------
(***************************************************************************)
(* The callback guard of the C device reference                            *)
(* (device-sim-c/src/sdk_callback_guard.c).  TiRTC calls back on its own   *)
(* threads, where the SDK may not be called; a guard counts the callbacks  *)
(* that are inside a component and carries the work they defer to one      *)
(* worker thread, which starts a task only when no callback is inside.     *)
(*                                                                         *)
(* Every function is one critical section of guard->lock, so the module is *)
(* an abstract data type: a guard is a value and a function of the code is *)
(* an operator on it.  The code counts the tasks queued or running in      *)
(* guard->pending; here the count is Pending(g).                           *)
(***************************************************************************)
EXTENDS Naturals, Sequences

CONSTANT GuardCap    \* SDK_CALLBACK_QUEUE_CAPACITY

ASSUME GuardCapAssumption == GuardCap \in Nat \ {0}

NoTask == [do |-> "none"]

Guard(Tasks, MaxActive) ==
    [started : BOOLEAN,
     active : 0..MaxActive,
     queue : UNION {[1..n -> Tasks] : n \in 0..GuardCap},
     running : Tasks \cup {NoTask}]

NewGuard == [started |-> FALSE, active |-> 0,
             queue |-> <<>>, running |-> NoTask]

GuardStart(g) ==
    IF g.started THEN g ELSE [NewGuard EXCEPT !.started = TRUE, !.active = g.active]

Enter(g) == [g EXCEPT !.active = @ + 1]

\* The decrement is guarded in the code, a wrapped count would never be idle.
Leave(g) == [g EXCEPT !.active = IF @ > 0 THEN @ - 1 ELSE @]

CanDefer(g) == g.started /\ Len(g.queue) < GuardCap

\* sdk_defer_action; a refusal leaves the guard as it was.
Defer(g, task) ==
    IF CanDefer(g) THEN [g EXCEPT !.queue = Append(@, task)] ELSE g

Pending(g) == Len(g.queue) + (IF g.running = NoTask THEN 0 ELSE 1)

\* What sdk_callback_wait_all waits for.
Drained(g) == g.active = 0 /\ Pending(g) = 0

\* The worker's wait: actions run after the callback stacks have unwound.
CanTake(g) == g.started /\ g.running = NoTask /\ g.queue # <<>> /\ g.active = 0

Take(g) == [g EXCEPT !.running = Head(g.queue), !.queue = Tail(@)]

Finish(g) == [g EXCEPT !.running = NoTask]

\* sdk_callback_guard_stop joins the worker, after waiting for Drained(g).
GuardStop(g) == [NewGuard EXCEPT !.active = g.active]
=============================================================================
