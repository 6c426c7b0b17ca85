----------------------------- MODULE MediaTimeline ----------------------------
(***************************************************************************)
(* The clock of the live stream (stream_media_timeline.c, the push loop of *)
(* tirtc_stream.c) and the two reading positions of its media file         *)
(* (file_media_source.c): when the next frame is due, which it is, and     *)
(* what of the file it holds, through forced key frames, the end of the    *)
(* file, late threads and times without viewers.                           *)
(*                                                                         *)
(* A unit of time is 40/3 ms: an audio packet lasts three of them, a video *)
(* frame (1000/15 ms) five.  A time stamp is kept relative to now.         *)
(***************************************************************************)
EXTENDS Integers

CONSTANTS
    Loops,     \* the file is Loops * 15 units long, audio and video
    Keys,      \* indexes of its key frames, from 0
    Pauses,    \* viewers may all go away and come back
    MaxLag     \* bound: how late the thread is, in units

\* What an instance assumes of its constants.
TimelineAssumption ==
    /\ Loops \in Nat \ {0} /\ MaxLag \in Nat /\ Pauses \in BOOLEAN
    /\ Keys # {} /\ Keys \subseteq 0..3 * Loops - 1

AudioTime == 3
VideoTime == 5
audioCount == 5 * Loops
videoCount == 3 * Loops

VARIABLES
    audioPts, videoPts,      \* less the time now
    wasEnabled,              \* audio_was_enabled and video_was_enabled
    audioIndex, videoIndex,  \* of the file, count at its end
    forceKey                 \* s_force_key

vars == <<audioPts, videoPts, wasEnabled, audioIndex, videoIndex, forceKey>>

TypeOK ==
    /\ audioPts \in -MaxLag..AudioTime + 1 /\ videoPts \in -MaxLag..VideoTime
    /\ audioIndex \in 0..audioCount /\ videoIndex \in 0..videoCount
    /\ wasEnabled \in BOOLEAN /\ forceKey \in BOOLEAN

Least(S) == CHOOSE x \in S : \A y \in S : x <= y
-----------------------------------------------------------------------------
(* The file.                                                               *)

\* Back to the beginning.
AlignedAudioMutant(i) == 0

\* _align_audio_to_video_index: the packet that sounds when the frame starts.
AlignedAudio(i) == (i * VideoTime) \div AudioTime

Wrap(i, count) == IF i >= count THEN 0 ELSE i

\* file_media_source_next_video
NextFrame(force) ==
    LET i == Wrap(videoIndex, videoCount)
        later == {k \in Keys : k >= i}
    IN IF force THEN Least(IF later = {} THEN Keys ELSE later) ELSE i

Init ==
    /\ audioPts = 0 /\ videoPts = 0 /\ wasEnabled = FALSE /\ forceKey = TRUE
    /\ videoIndex = Least(Keys) /\ audioIndex = AlignedAudio(Least(Keys))
-----------------------------------------------------------------------------
Due == IF audioPts <= videoPts THEN audioPts ELSE videoPts

Later(pts) == IF pts < 0 THEN 0 ELSE pts

\* Time passes; while nobody watches a time stamp in the past is as good as now.
Tick ==
    /\ wasEnabled => Due > -MaxLag
    /\ audioPts' = IF wasEnabled THEN audioPts - 1 ELSE Later(audioPts - 1)
    /\ videoPts' = IF wasEnabled THEN videoPts - 1 ELSE Later(videoPts - 1)
    /\ UNCHANGED <<wasEnabled, audioIndex, videoIndex, forceKey>>

\* stream_media_timeline_observe, when viewers come and when all are gone.
Start ==
    /\ ~wasEnabled /\ wasEnabled' = TRUE /\ forceKey' = TRUE
    /\ audioPts' = Later(audioPts) /\ videoPts' = Later(videoPts)
    /\ UNCHANGED <<audioIndex, videoIndex>>

Pause ==
    /\ Pauses /\ wasEnabled /\ wasEnabled' = FALSE
    /\ audioPts' = Later(audioPts) /\ videoPts' = Later(videoPts)
    /\ UNCHANGED <<audioIndex, videoIndex, forceKey>>

\* A key frame request, or the recovery of a full buffer.
ForceKey ==
    /\ ~forceKey /\ forceKey' = TRUE
    /\ UNCHANGED <<audioPts, videoPts, wasEnabled, audioIndex, videoIndex>>

SendAudio ==
    /\ wasEnabled /\ Due <= 0 /\ audioPts <= videoPts
    /\ audioPts' = audioPts + AudioTime
    /\ audioIndex' = Wrap(audioIndex, audioCount) + 1
    /\ UNCHANGED <<videoPts, wasEnabled, videoIndex, forceKey>>

\* A jump of the video takes the audio along.
SendVideo ==
    /\ wasEnabled /\ Due <= 0 /\ audioPts > videoPts
    /\ videoPts' = videoPts + VideoTime
    /\ LET i == NextFrame(forceKey)
       IN /\ videoIndex' = i + 1
          /\ audioIndex' = IF forceKey /\ i # videoIndex THEN AlignedAudio(i) ELSE audioIndex
    /\ forceKey' = FALSE
    /\ UNCHANGED <<audioPts, wasEnabled>>

Next == Tick \/ Start \/ Pause \/ ForceKey \/ SendAudio \/ SendVideo

Spec == Init /\ [][Next]_vars
-----------------------------------------------------------------------------
(* Properties.                                                             *)

\* How far the audio read next is from the video read next, on the clock of
\* their time stamps and round the end of the file.
Offset == (videoIndex * VideoTime - videoPts) - (audioIndex * AudioTime - audioPts)
Distance ==
    LET length == 15 * Loops
        d == Offset % length
    IN IF d <= length - d THEN d ELSE length - d

Near == Distance <= VideoTime + AudioTime

\* A jump of the video takes the audio to the same time of the file
\* (device-h5-live.md:368), whatever pauses and delays there were before.
JumpTakesAudioAlong ==
    [][SendVideo /\ forceKey /\ videoIndex' # videoIndex + 1 => Near']_vars

=============================================================================
