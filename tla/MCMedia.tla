------------------------------- MODULE MCMedia -------------------------------
(***************************************************************************)
(* One run for the parts of the media path that share no state: the live   *)
(* stream's viewers (StreamMedia), its clock (MediaTimeline), the cutting  *)
(* of the media files (VideoFile, MediaContainers) and the recorder        *)
(* (AudioRecorder).                                                        *)
(* `part` is drawn at the start; the other parts stay as they were.  The   *)
(* recorder comes twice: sessions that keep apart, and calls of one        *)
(* session that last over the open of the next.                            *)
(***************************************************************************)
EXTENDS Naturals, Sequences, TLC

CONSTANTS
    Viewers, Kinds, Frames, Keys, MaxFails, Tracked,   \* StreamMedia
    Loops, KeyFrames, Pauses, MaxLag,                  \* MediaTimeline
    Opener, Closers,                                   \* AudioRecorder
    ApartSlots, ApartOpens, ApartFrames,               \* its bounds, when sessions keep
    OverlapSlots, OverlapOpens, OverlapFrames          \* apart and when calls last on

\* Every file of up to 5 units that ends with a slice.  A slice that goes on
\* with a picture follows a slice of the same kind.
Types == {"aud", "ps", "key", "slice", "other"}
Slices == {"key", "slice"}
Units == [type : Types \ Slices, more : {FALSE}] \cup [type : Slices, more : BOOLEAN]
Streams(n) == {f \in [1..n -> Units] : f[n].type \in Slices}
WellFormed(f) ==
    \A i \in DOMAIN f : f[i].more => i > 1 /\ f[i - 1].type = f[i].type
SmallFiles == {f \in UNION {Streams(n) : n \in 1..5} : WellFormed(f)}
AnyFile == CHOOSE f \in SmallFiles : TRUE

\* Audio files and files of pictures, as MediaContainers sees them: every one of
\* up to 5 bytes or 3 pages.
Words(S, n) == UNION {[1..k -> S] : k \in 0..n}
Samples == {[format |-> "alaw", cells |-> [i \in 1..n |-> 0]] : n \in 0..5}
AmrFile(w) == [format |-> "amr", cells |-> <<99>> \o w]
FramedFiles ==
    [format : {"amr", "aac"}, cells : Words(0..3, 5)] \cup {AmrFile(w) : w \in Words(0..3, 4)}
SmallSegments ==
    [length : 1..2, kind : {"head", "audio", "silent"}] \cup {[length |-> 0, kind |-> "audio"]}
Pages(n) == {[whole |-> FALSE, segments |-> <<>>]}
                \cup [whole : {TRUE}, segments : Words(SmallSegments, n)]
OggPages == [format : {"opus"}, cells : Words(Pages(2), 2) \cup Words(Pages(1), 3)]
Pictures == [format : {"mjpeg"}, cells : Words({"soi", "eoi", "data"}, 5)]

VARIABLES
    part,      \* "viewers", "clock", "file", "container", "recorder" or "overlap"
    \* StreamMedia
    client, forceKey, next, enabled, sending, asked, owed,
    \* MediaTimeline
    audioPts, videoPts, wasEnabled, audioIndex, videoIndex, keyForced,
    \* VideoFile
    file, at, first, hasVcl, key, frames, firstKey,
    \* MediaContainers
    container, status, pos, seg, packet, size, chunks,
    \* AudioRecorder
    pc, opening, target, work, opens, joined, accepted, written, queue, flags,
    worker, raw

Live == INSTANCE StreamMedia WITH Handles <- Viewers, push <- sending
Clock == INSTANCE MediaTimeline WITH Keys <- KeyFrames, forceKey <- keyForced
Cutting == INSTANCE VideoFile WITH Files <- SmallFiles
Containers == INSTANCE MediaContainers WITH
    SampleFiles <- Samples, FrameFiles <- FramedFiles, OggFiles <- OggPages,
    JpegFiles <- Pictures, PacketSize <- 2, Header <- 2, Full <- 2,
    media <- container
Apart == INSTANCE AudioRecorder WITH
    Overlap <- FALSE, Capacity <- ApartSlots, MaxOpens <- ApartOpens, MaxFrames <- ApartFrames
Overlapping == INSTANCE AudioRecorder WITH
    Overlap <- TRUE, Capacity <- OverlapSlots, MaxOpens <- OverlapOpens,
    MaxFrames <- OverlapFrames

ASSUME PartsAssumption ==
    /\ Live!MediaAssumption /\ Clock!TimelineAssumption /\ Cutting!FilesAssumption
    /\ Containers!ContainersAssumption
    /\ Apart!RecorderAssumption /\ Overlapping!RecorderAssumption

liveVars == <<client, forceKey, next, enabled, sending, asked, owed>>
clockVars == <<audioPts, videoPts, wasEnabled, audioIndex, videoIndex, keyForced>>
fileVars == <<file, at, first, hasVcl, key, frames, firstKey>>
containerVars == <<container, status, pos, seg, packet, size, chunks>>
recorderVars == <<pc, opening, target, work, opens, joined, accepted, written,
                  queue, flags, worker, raw>>

MediaInit ==
    /\ part \in {"viewers", "clock", "file", "container", "recorder", "overlap"}
    /\ Live!Init /\ Clock!Init
    /\ IF part = "overlap" THEN Overlapping!Init ELSE Apart!Init
    /\ Cutting!Init /\ (part # "file" => file = AnyFile)
    /\ IF part = "container" THEN Containers!Init
       ELSE container = AmrFile(<<>>) /\ Containers!Unopened

MediaNext ==
    \/ /\ part = "viewers" /\ Live!Next
       /\ UNCHANGED <<part, clockVars, fileVars, containerVars, recorderVars>>
    \/ /\ part = "clock" /\ Clock!Next
       /\ UNCHANGED <<part, liveVars, fileVars, containerVars, recorderVars>>
    \/ /\ part = "file" /\ Cutting!Next
       /\ UNCHANGED <<part, liveVars, clockVars, containerVars, recorderVars>>
    \/ /\ part = "container" /\ Containers!Next
       /\ UNCHANGED <<part, liveVars, clockVars, fileVars, recorderVars>>
    \/ /\ \/ part = "recorder" /\ Apart!Next
          \/ part = "overlap" /\ Overlapping!Next
       /\ UNCHANGED <<part, liveVars, clockVars, fileVars, containerVars>>

MediaSpec ==
    MediaInit
        /\ [][MediaNext]_<<part, liveVars, clockVars, fileVars, containerVars, recorderVars>>

\* Handles and closing threads are only compared for equality.
Alike == Permutations(Viewers) \cup Permutations(Closers)

-----------------------------------------------------------------------------
\* The properties of the parts, under names of their own.
(* A viewer that is owed a key frame gets no other video frame before it, on  *)
(* a new connection and after a frame that was refused (StreamMedia).         *)
KeyFrameWhenOwed == Live!KeyFrameWhenOwed

(* A jump of the video takes the audio along (MediaTimeline).                 *)
JumpTakesAudioAlong == Clock!JumpTakesAudioAlong

(* A media file is cut into its frames or packets without a gap or an overlap *)
(* (VideoFile, MediaContainers).                                              *)
FramesTileTheFile == Cutting!FramesTileTheFile /\ Containers!PacketsTileTheFile

(* The recorder writes what it accepted, and joins each of its workers once   *)
(* (AudioRecorder).                                                           *)
RecorderIsSound ==
    /\ part = "recorder" => Apart!NothingLost
    /\ part = "overlap" => Overlapping!JoinedOnce
=============================================================================
