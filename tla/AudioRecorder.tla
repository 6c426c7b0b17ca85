---------------------------- MODULE AudioRecorder ----------------------------
(***************************************************************************)
(* The recorder of an AI session's audio (audio_recorder.c): the SDK's     *)
(* callback puts frames into a bounded queue, a worker writes them to the  *)
(* file, and several threads close the recorder, at once or again.         *)
(*                                                                         *)
(* One condition variable serves the worker and the threads that wait for  *)
(* another close; a signal wakes one of the waiters, whichever.  open      *)
(* works without the lock and sets its fields in one step, as nothing      *)
(* looks at them before accepting is set.  A frame stands for the file it  *)
(* was accepted for.  The raw file stands for the WAV file beside it, and  *)
(* an I/O error is a frame that counts as written.                         *)
(***************************************************************************)
EXTENDS Naturals, Sequences, FiniteSets

CONSTANTS
    Opener,    \* the command thread, which opens
    Closers,   \* threads that close: the deferred worker, the arbiter
    Capacity,  \* AUDIO_RECORDER_QUEUE_CAPACITY
    Overlap,   \* calls of one session last over the open of the next
    MaxOpens,  \* bound: opens
    MaxFrames  \* bound: frames accepted for a file

\* What an instance assumes of its constants.
RecorderAssumption ==
    /\ Opener \notin Closers /\ Overlap \in BOOLEAN
    /\ Capacity \in Nat \ {0} /\ MaxOpens \in Nat /\ MaxFrames \in Nat

Threads == Closers \cup {Opener}
Files == 1..MaxOpens   \* a file and its worker, in the order of opening

VARIABLES
    pc,        \* what each thread does in the recorder
    opening,   \* the opener is in audio_recorder_open
    target,    \* the worker a close joins, 0 if none was started
    work,      \* the workers, with the frame each has taken
    opens,     \* files opened so far
    joined,    \* workers joined so far
    accepted,  \* frames accepted for a file
    written,   \* frames written to a file
    queue,
    flags,     \* worker_started, accepting, stopping, closing
    worker,    \* the worker's handle
    raw        \* raw_file, 0 if NULL

history == <<opens, joined, accepted, written>>
fields == <<queue, flags, worker, raw>>
vars == <<pc, opening, target, work, history, fields>>

TypeOK ==
    /\ pc \in [Threads -> {"idle", "enter", "sleep", "join", "files", "finish",
                           "fopen", "reset", "create", "mark"}]
    /\ opening \in BOOLEAN /\ target \in [Threads -> 0..MaxOpens]
    /\ work \in [Files -> [pc : {"none", "run", "sleep", "write", "gone"},
                           frame : 0..MaxOpens]]
    /\ opens \in 0..MaxOpens /\ joined \subseteq Files
    /\ accepted \in [Files -> 0..MaxFrames] /\ written \in [Files -> 0..MaxFrames]
    /\ queue \in Seq(Files) /\ Len(queue) <= Capacity
    /\ flags \in [{"started", "accepting", "stopping", "closing"} -> BOOLEAN]
    /\ worker \in 0..MaxOpens /\ raw \in 0..MaxOpens

Init ==
    /\ pc = [t \in Threads |-> "idle"] /\ opening = FALSE
    /\ target = [t \in Threads |-> 0]
    /\ work = [f \in Files |-> [pc |-> "none", frame |-> 0]]
    /\ opens = 0 /\ joined = {}
    /\ accepted = [f \in Files |-> 0] /\ written = [f \in Files |-> 0]
    /\ queue = <<>> /\ worker = 0 /\ raw = 0
    /\ flags = [x \in {"started", "accepting", "stopping", "closing"} |-> FALSE]
-----------------------------------------------------------------------------
(* The condition variable wake: threads and workers that sleep on it.      *)

Broadcast(p, w) ==
    /\ pc' = [t \in Threads |-> IF p[t] = "sleep" THEN "enter" ELSE p[t]]
    /\ work' = [f \in Files |-> IF w[f].pc = "sleep" THEN [w[f] EXCEPT !.pc = "run"] ELSE w[f]]

Signal(p, w) ==
    \/ \E t \in Threads : p[t] = "sleep" /\ pc' = [p EXCEPT ![t] = "enter"] /\ work' = w
    \/ \E f \in Files : w[f].pc = "sleep" /\ work' = [w EXCEPT ![f].pc = "run"] /\ pc' = p
    \/ /\ \A t \in Threads : p[t] # "sleep"
       /\ \A f \in Files : w[f].pc # "sleep"
       /\ pc' = p /\ work' = w

Goto(t, l) == pc' = [pc EXCEPT ![t] = l]
Returned(t) == IF t = Opener /\ opening THEN "fopen" ELSE "idle"
-----------------------------------------------------------------------------
(* audio_recorder_close.                                                   *)

Close(t) ==
    /\ pc[t] = "idle" /\ (Overlap \/ ~opening)
    /\ Goto(t, "enter")
    /\ UNCHANGED <<opening, target, work, history, fields>>

Enter(t) ==
    /\ pc[t] = "enter"
    /\ IF flags["closing"]
       THEN /\ Goto(t, "sleep")
            /\ UNCHANGED <<work, target, flags>>
       ELSE IF ~flags["started"] /\ raw = 0
       THEN /\ Goto(t, Returned(t))
            /\ UNCHANGED <<work, target, flags>>
       ELSE /\ flags' = [flags EXCEPT !["closing"] = TRUE, !["accepting"] = FALSE,
                                      !["stopping"] = TRUE]
            /\ target' = [target EXCEPT ![t] = IF flags["started"] THEN worker ELSE 0]
            /\ Broadcast([pc EXCEPT ![t] = "join"], work)
    /\ UNCHANGED <<opening, history, queue, worker, raw>>

Join(t) ==
    /\ pc[t] = "join"
    /\ target[t] # 0 => work[target[t]].pc = "gone"
    /\ joined' = joined \cup ({target[t]} \ {0})
    /\ Goto(t, "files")
    /\ UNCHANGED <<opening, target, work, opens, accepted, written, fields>>

CloseFiles(t) ==
    /\ pc[t] = "files"
    /\ raw' = 0
    /\ Goto(t, "finish")
    /\ UNCHANGED <<opening, target, work, history, queue, flags, worker>>

Finish(t) ==
    /\ pc[t] = "finish"
    /\ flags' = [flags EXCEPT !["started"] = FALSE, !["closing"] = FALSE]
    /\ Broadcast([pc EXCEPT ![t] = Returned(t)], work)
    /\ UNCHANGED <<opening, target, history, queue, worker, raw>>
-----------------------------------------------------------------------------
(* audio_recorder_open: close what is open, then, without the lock, the    *)
(* file, the fields, the worker, worker_started.                           *)

Open ==
    /\ pc[Opener] = "idle" /\ opens < MaxOpens
    /\ Overlap \/ \A t \in Closers : pc[t] = "idle"
    /\ opening' = TRUE /\ Goto(Opener, "enter")
    /\ UNCHANGED <<target, work, history, fields>>

OpenFile ==
    /\ pc[Opener] = "fopen"
    /\ raw' = opens + 1 /\ opens' = opens + 1
    /\ Goto(Opener, "reset")
    /\ UNCHANGED <<opening, target, work, joined, accepted, written, queue, flags, worker>>

Reset ==
    /\ pc[Opener] = "reset"
    /\ queue' = <<>>
    /\ flags' = [flags EXCEPT !["stopping"] = FALSE, !["accepting"] = TRUE]
    /\ Goto(Opener, "create")
    /\ UNCHANGED <<opening, target, work, history, worker, raw>>

CreateWorker ==
    /\ pc[Opener] = "create"
    /\ work' = [work EXCEPT ![opens].pc = "run"]
    /\ worker' = opens
    /\ Goto(Opener, "mark")
    /\ UNCHANGED <<opening, target, history, queue, flags, raw>>

Mark ==
    /\ pc[Opener] = "mark"
    /\ flags' = [flags EXCEPT !["started"] = TRUE]
    /\ Goto(Opener, "idle") /\ opening' = FALSE
    /\ UNCHANGED <<target, work, history, queue, worker, raw>>

\* No directory, no file, or no thread for the worker.
OpenFails ==
    /\ \/ pc[Opener] = "fopen" /\ UNCHANGED <<raw, flags>>
       \/ /\ pc[Opener] = "create" /\ raw' = 0
          /\ flags' = [flags EXCEPT !["accepting"] = FALSE]
    /\ Goto(Opener, "idle") /\ opening' = FALSE
    /\ UNCHANGED <<target, work, history, queue, worker>>
-----------------------------------------------------------------------------
(* The audio callback and the worker.                                      *)

\* Refused frames are dropped and counted.
Submit ==
    /\ flags["accepting"] /\ raw # 0 /\ (Overlap \/ ~opening)
    /\ Len(queue) < Capacity /\ accepted[raw] < MaxFrames
    /\ queue' = Append(queue, raw)
    /\ accepted' = [accepted EXCEPT ![raw] = @ + 1]
    /\ Signal(pc, work)
    /\ UNCHANGED <<opening, target, opens, joined, written, flags, worker, raw>>

\* The worker ends as soon as it is told to.
TakeMutant(f) ==
    /\ work[f].pc = "run"
    /\ IF flags["stopping"] \/ queue = <<>>
       THEN /\ work' = [work EXCEPT ![f].pc = IF flags["stopping"] THEN "gone" ELSE "sleep"]
            /\ UNCHANGED queue
       ELSE /\ work' = [work EXCEPT ![f] = [pc |-> "write", frame |-> Head(queue)]]
            /\ queue' = Tail(queue)
    /\ UNCHANGED <<pc, opening, target, history, flags, worker, raw>>

Take(f) ==
    /\ work[f].pc = "run"
    /\ IF queue = <<>>
       THEN /\ work' = [work EXCEPT ![f].pc = IF flags["stopping"] THEN "gone" ELSE "sleep"]
            /\ UNCHANGED queue
       ELSE /\ work' = [work EXCEPT ![f] = [pc |-> "write", frame |-> Head(queue)]]
            /\ queue' = Tail(queue)
    /\ UNCHANGED <<pc, opening, target, history, flags, worker, raw>>

Write(f) ==
    /\ work[f].pc = "write"
    /\ written' = IF raw = work[f].frame THEN [written EXCEPT ![raw] = @ + 1] ELSE written
    /\ work' = [work EXCEPT ![f] = [pc |-> "run", frame |-> 0]]
    /\ UNCHANGED <<pc, opening, target, opens, joined, accepted, fields>>

Worker(f) == Take(f) \/ Write(f)
Closing(t) == Enter(t) \/ Join(t) \/ CloseFiles(t) \/ Finish(t)
Opening == OpenFile \/ Reset \/ CreateWorker \/ Mark \/ OpenFails

Next ==
    \/ \E t \in Threads : Close(t) \/ Closing(t)
    \/ Open \/ Opening \/ Submit
    \/ \E f \in Files : Worker(f)

Spec == Init /\ [][Next]_vars
-----------------------------------------------------------------------------
(* Properties.                                                             *)

\* What was accepted is in the file when it has been closed, although the
\* worker and several closing threads finish in any order (163-166, 323).
NothingLost ==
    \A f \in Files : f <= opens /\ f # raw => written[f] = accepted[f]

\* No two threads join one worker, and none joins it again: either is
\* undefined (308-324).
JoinedOnce ==
    \A t \in Threads : pc[t] = "join" /\ target[t] # 0 =>
        /\ target[t] \notin joined
        /\ \A u \in Threads \ {t} : pc[u] = "join" => target[u] # target[t]

=============================================================================
