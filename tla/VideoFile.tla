------------------------------- MODULE VideoFile ------------------------------
(***************************************************************************)
(* How the media file is cut into video frames (_parse_annexb and          *)
(* _align_to_first_key of file_media_source.c), one NAL unit at a time.    *)
(*                                                                         *)
(* Types are what the loop tells apart: an access unit delimiter (H.264 9, *)
(* H.265 35), a parameter set that can end a frame (7; 32 to 34), a slice  *)
(* of a key picture (5; 16 to 21), another slice (1 to 4; 0 to 31), and    *)
(* the rest: SEI, and in H.264 the picture parameter set.  The file is a   *)
(* sequence of units; bytes and start codes are left out.                  *)
(***************************************************************************)
EXTENDS Naturals, Sequences, FiniteSets

CONSTANT Files   \* the files to cut

Types == {"aud", "ps", "key", "slice", "other"}
Vcl == {"key", "slice"}

\* A unit, and for a slice whether its picture started in an earlier one.
Nal == [type : Types, more : BOOLEAN]

\* What an instance assumes of its files.
FilesAssumption ==
    \A f \in Files : f \in Seq(Nal) /\ f # <<>>

VARIABLES
    file,
    at,        \* i: units looked at
    first,     \* the first unit of the frame to be
    hasVcl, key,
    frames,    \* frames.items: first and last unit, key
    firstKey   \* first_key_index, 0 while the file is being cut

vars == <<file, at, first, hasVcl, key, frames, firstKey>>

Init ==
    /\ file \in Files
    /\ at = 0 /\ first = 1 /\ hasVcl = FALSE /\ key = FALSE
    /\ frames = <<>> /\ firstKey = 0

Boundary(i, vcl) ==
    \/ i = Len(file)
    \/ file[i + 1].type = "aud"
    \/ vcl /\ file[i + 1].type \in Vcl \cup {"ps"}

\* The flags stay from the frame before.
CutMutant ==
    /\ at < Len(file)
    /\ LET i == at + 1
           vcl == hasVcl \/ file[i].type \in Vcl
           isKey == key \/ file[i].type = "key"
           cut == Boundary(i, vcl)
       IN /\ at' = i
          /\ hasVcl' = (vcl /\ ~cut) /\ key' = isKey
          /\ first' = IF cut THEN i + 1 ELSE first
          /\ frames' = IF cut
                       THEN Append(frames, [from |-> first, to |-> i, key |-> isKey])
                       ELSE frames
    /\ UNCHANGED <<file, firstKey>>

Cut ==
    /\ at < Len(file)
    /\ LET i == at + 1
           vcl == hasVcl \/ file[i].type \in Vcl
           isKey == key \/ file[i].type = "key"
           cut == Boundary(i, vcl)
       IN /\ at' = i
          /\ hasVcl' = (vcl /\ ~cut) /\ key' = (isKey /\ ~cut)
          /\ first' = IF cut THEN i + 1 ELSE first
          /\ frames' = IF cut
                       THEN Append(frames, [from |-> first, to |-> i, key |-> isKey])
                       ELSE frames
    /\ UNCHANGED <<file, firstKey>>

\* The first key frame, or the first frame if there is none.
AlignToFirstKey ==
    /\ at = Len(file) /\ firstKey = 0
    /\ LET keys == {i \in DOMAIN frames : frames[i].key}
       IN firstKey' = IF keys = {} THEN 1
                      ELSE CHOOSE i \in keys : \A j \in keys : i <= j
    /\ UNCHANGED <<file, at, first, hasVcl, key, frames>>

Next == Cut \/ AlignToFirstKey

Spec == Init /\ [][Next]_vars

-----------------------------------------------------------------------------
(* Properties.                                                             *)

Done == firstKey # 0

TypeOK ==
    /\ at \in 0..Len(file) /\ first \in 1..at + 1
    /\ hasVcl \in BOOLEAN /\ key \in BOOLEAN /\ firstKey \in 0..Len(frames)
    /\ frames \in Seq([from : Nat \ {0}, to : Nat \ {0}, key : BOOLEAN])

\* The frames are the file, in its order and without a gap, so far and at the
\* end; and a frame is marked key exactly if a key picture is in it.
FramesTileTheFile ==
    /\ \A n \in DOMAIN frames :
          /\ frames[n].from <= frames[n].to
          /\ frames[n].from = IF n = 1 THEN 1 ELSE frames[n - 1].to + 1
          /\ frames[n].key <=> \E i \in frames[n].from..frames[n].to : file[i].type = "key"
    /\ first = IF frames = <<>> THEN 1 ELSE frames[Len(frames)].to + 1
    /\ Done => first = Len(file) + 1

=============================================================================
