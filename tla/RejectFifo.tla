------------------------------- MODULE RejectFifo -----------------------------
(***************************************************************************)
(* What a queue of rejections promises: calls are taken in the order they  *)
(* were put in, none twice, and a call is refused only when the queue is   *)
(* full or no longer open.                                                 *)
(***************************************************************************)
EXTENDS Naturals, Sequences

CONSTANTS
    Call,      \* the calls to reject
    Capacity   \* how many wait at most

VARIABLES
    waiting,   \* the calls that wait, the oldest first
    taken,     \* the calls taken so far, the latest last
    open       \* whether calls are still put in

vars == <<waiting, taken, open>>

Init == waiting = <<>> /\ taken = <<>> /\ open = TRUE

Put(c) ==
    /\ open /\ Len(waiting) < Capacity
    /\ waiting' = Append(waiting, c)
    /\ UNCHANGED <<taken, open>>

Take ==
    /\ waiting # <<>>
    /\ taken' = Append(taken, Head(waiting))
    /\ waiting' = Tail(waiting)
    /\ UNCHANGED open

Close ==
    /\ open /\ open' = FALSE
    /\ UNCHANGED <<waiting, taken>>

Next == (\E c \in Call : Put(c)) \/ Take \/ Close

Spec == Init /\ [][Next]_vars
=============================================================================
