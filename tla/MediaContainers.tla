---------------------------- MODULE MediaContainers ---------------------------
(***************************************************************************)
(* How an audio file is cut into the packets that are sent                 *)
(* (_parse_audio of file_media_source.c: samples, AMR, ADTS, Ogg Opus),    *)
(* and a file of JPEG pictures into frames (_parse_mjpeg).  A file is      *)
(* opened whole or refused.                                                *)
(*                                                                         *)
(* The cells of a file are its bytes as far as the loop tells them apart:  *)
(* for AMR and ADTS the length that a header at that byte would give, 0    *)
(* when it is none; for JPEG the two markers and the rest; for Ogg its     *)
(* pages with their segments.  Durations are left out, except that an Opus *)
(* packet may have none.                                                   *)
(***************************************************************************)
EXTENDS Naturals, Sequences, FiniteSets, SequencesExt

CONSTANTS
    SampleFiles, FrameFiles, OggFiles, JpegFiles,   \* the files to open
    PacketSize,   \* of samples: rate, width and packet_ms
    Header,       \* of an ADTS frame, 7 bytes
    Full          \* the segment that does not end its packet, 255 bytes

Magic == 99       \* "#!AMR\n": the first cell of an AMR file

ContainersAssumption ==
    /\ PacketSize \in Nat \ {0} /\ Header \in Nat \ {0} /\ Full \in Nat \ {0}
    /\ \A f \in SampleFiles : f.format = "alaw"
    /\ \A f \in FrameFiles : f.format \in {"amr", "aac"} /\ f.cells \in Seq(Nat)
    /\ \A f \in OggFiles : f.format = "opus"
    /\ \A f \in JpegFiles : f.format = "mjpeg"

VARIABLES
    media,     \* the file: format, cells
    status,    \* "closed", then "reading", then "open", "refused" or "unreadable"
    pos,       \* the next byte, or page
    seg,       \* segments of that page that are done; none is looked at at first
    packet,    \* of Ogg: the length and kind of what has come of it
    size,      \* audio_size or video_size: the bytes the chunks are in
    chunks     \* offset and length

vars == <<media, status, pos, seg, packet, size, chunks>>

Empty == [length |-> 0, kind |-> "none"]

Unopened ==
    /\ status = "closed" /\ pos = 1 /\ seg = 0 /\ packet = Empty /\ size = 0
    /\ chunks = <<>>

Init ==
    /\ \/ media \in SampleFiles
       \/ media \in FrameFiles
       \/ media \in OggFiles
       \/ media \in JpegFiles
    /\ Unopened

Bytes == Len(media.cells)
Reading(format) == status = "reading" /\ media.format = format

\* The file is closed again and its buffers are freed.
Refuse == status' = "refused" /\ UNCHANGED <<media, pos, seg, packet, size, chunks>>

\* Without a chunk the file is refused.
Finish ==
    IF chunks = <<>> THEN Refuse
    ELSE status' = "open" /\ UNCHANGED <<media, pos, seg, packet, size, chunks>>

\* An empty file is refused, one that is too large or fails cannot be read.  The
\* packets of an Ogg file are collected in a payload of their own.
_read_file ==
    /\ status = "closed"
    /\ \/ status' = "unreadable" /\ UNCHANGED size
       \/ status' = (IF Bytes = 0 THEN "refused" ELSE "reading") 
          /\ size' = IF media.format = "opus" THEN 0 ELSE Bytes
    /\ UNCHANGED <<media, pos, seg, packet, chunks>>

\* The last packet is filled with silence.
_parse_fixed_audio ==
    /\ Reading("alaw") /\ chunks = <<>>
    /\ LET count == (Bytes + PacketSize - 1) \div PacketSize
       IN /\ size' = count * PacketSize
          /\ chunks' = [n \in 1..count |->
                          [offset |-> (n - 1) * PacketSize + 1, length |-> PacketSize]]
    /\ status' = "open"
    /\ UNCHANGED <<media, pos, seg, packet>>

\* The frame at `pos`: its header says how long it is, and it must be there.
Frame(least) ==
    LET length == media.cells[pos]
    IN IF length < least \/ pos + length > Bytes + 1 THEN Refuse
       ELSE /\ chunks' = Append(chunks, [offset |-> pos, length |-> length])
            /\ pos' = pos + length
            /\ UNCHANGED <<media, status, seg, packet, size>>

_parse_amr ==
    /\ Reading("amr")
    /\ \/ /\ pos = 1
          /\ IF media.cells[1] # Magic THEN Refuse
             ELSE pos' = 2 /\ UNCHANGED <<media, status, seg, packet, size, chunks>>
       \/ pos \in 2..Bytes /\ Frame(1)
       \/ pos > Bytes /\ Finish

_parse_adts ==
    /\ Reading("aac")
    /\ \/ pos + Header <= Bytes + 1 /\ Frame(Header)
       \/ pos <= Bytes /\ pos + Header > Bytes + 1 /\ Refuse
       \/ pos > Bytes /\ Finish

\* Nothing to play, by the first byte of the packet or its count of frames.
NoDuration(p) == p.kind = "silent"

\* A packet has come to its end.  OpusHead and OpusTags are dropped.
_finish_ogg_packet(p) ==
    IF p.length = 0 \/ NoDuration(p) THEN Refuse
    ELSE /\ chunks' = IF p.kind = "head" THEN chunks
                      ELSE Append(chunks, [offset |-> size + 1, length |-> p.length])
         /\ size' = size + IF p.kind = "head" THEN 0 ELSE p.length
         /\ packet' = Empty /\ seg' = seg + 1
         /\ UNCHANGED <<media, status, pos>>

\* A segment goes to the packet, which may have begun on an earlier page.
Segment(s) ==
    LET p == [length |-> packet.length + s.length,
              kind |-> IF packet.length = 0 THEN s.kind ELSE packet.kind]
    IN IF s.length < Full THEN _finish_ogg_packet(p)
       ELSE packet' = p /\ seg' = seg + 1 /\ UNCHANGED <<media, status, pos, size, chunks>>

_parse_ogg ==
    /\ Reading("opus")
    /\ \/ /\ pos <= Bytes
          /\ LET page == media.cells[pos]
             IN IF ~page.whole THEN Refuse
                ELSE IF seg < Len(page.segments) THEN Segment(page.segments[seg + 1])
                ELSE pos' = pos + 1 /\ seg' = 0
                     /\ UNCHANGED <<media, status, packet, size, chunks>>
       \/ pos > Bytes /\ (IF packet.length # 0 THEN Refuse ELSE Finish)

First(marker, from) ==
    LET at == {i \in from..Bytes : media.cells[i] = marker}
    IN IF at = {} THEN 0 ELSE CHOOSE i \in at : \A j \in at : i <= j

\* From one start of image to the next end of one; what is between two pictures
\* is left out.
_parse_mjpeg ==
    /\ Reading("mjpeg")
    /\ LET start == First("soi", pos)
           end == First("eoi", start + 1)
       IN IF start = 0 THEN Finish
          ELSE IF end = 0 THEN Refuse
          ELSE /\ chunks' = Append(chunks, [offset |-> start, length |-> end + 1 - start])
               /\ pos' = end + 1
               /\ UNCHANGED <<media, status, seg, packet, size>>

Next ==
    \/ _read_file
    \/ _parse_fixed_audio \/ _parse_amr \/ _parse_adts \/ _parse_ogg \/ _parse_mjpeg

Spec == Init /\ [][Next]_vars

-----------------------------------------------------------------------------
(* Properties.                                                             *)

TypeOK ==
    /\ status \in {"closed", "reading", "open", "refused", "unreadable"}
    /\ pos \in Nat \ {0} /\ seg \in Nat /\ size \in Nat
    /\ packet \in [length : Nat, kind : {"none", "head", "audio", "silent"}]
    /\ chunks \in Seq([offset : Nat \ {0}, length : Nat \ {0}])

Origin == IF media.format = "amr" THEN 2 ELSE 1
After(n) == chunks[n].offset + chunks[n].length

\* The chunks follow one another from the first byte to the last.
Tiled ==
    /\ chunks[1].offset = Origin /\ After(Len(chunks)) = size + 1
    /\ \A n \in 2..Len(chunks) : chunks[n].offset = After(n - 1)

\* A file of frames is one if its headers lead from the first byte to the end.
WholeFrames ==
    LET cells == media.cells
        least == IF media.format = "amr" THEN 1 ELSE Header
    IN /\ media.format = "amr" => cells[1] = Magic
       /\ \E starts \in SUBSET (Origin..Bytes) :
             /\ Origin \in starts
             /\ \A p \in starts : cells[p] >= least /\ p + cells[p] \in starts \cup {Bytes + 1}

\* The packets of an Ogg file, wherever its pages are cut.
Segments == FlattenSeq([p \in 1..Bytes |-> media.cells[p].segments])
Ends == {i \in DOMAIN Segments : Segments[i].length < Full}
Start(e) == Cardinality({i \in 1..e - 1 : \A j \in i..e - 1 : j \notin Ends})
Length(e) == Start(e) * Full + Segments[e].length
Kind(e) == Segments[e - Start(e)].kind
Audio == {e \in Ends : Kind(e) = "audio"}

WholePackets ==
    /\ \A p \in 1..Bytes : media.cells[p].whole
    /\ Len(Segments) \in Ends /\ Audio # {}
    /\ \A e \in Ends : Length(e) > 0 /\ Kind(e) # "silent"

Pictures == {i \in 1..Bytes : media.cells[i] = "soi"}
Closed(i) == \E j \in i..Bytes : media.cells[j] = "eoi"

\* A file is opened exactly when it consists of whole packets or pictures, and
\* then every one of them is a chunk, in the file's order, without a byte of
\* another (file_media_source_open).
PacketsTileTheFile ==
    LET format == media.format
        opened == status = "open"
    IN (opened \/ status = "refused") /\ Bytes > 0 =>
        CASE format = "alaw" -> opened /\ Tiled /\ size - Bytes \in 0..PacketSize - 1
          [] format \in {"amr", "aac"} ->
                /\ opened <=> WholeFrames
                /\ opened => Tiled
          [] format = "opus" ->
                /\ opened <=> WholePackets
                /\ opened =>
                    /\ Tiled /\ Len(chunks) = Cardinality(Audio)
                    /\ \A e \in Audio :
                          chunks[Cardinality({a \in Audio : a <= e})].length = Length(e)
          [] OTHER ->
                /\ opened <=> Pictures # {} /\ \A i \in Pictures : Closed(i)
                /\ opened =>
                    /\ \A i \in Pictures :
                          \E n \in DOMAIN chunks : i \in chunks[n].offset..After(n) - 1
                    /\ \A n \in DOMAIN chunks :
                          /\ media.cells[chunks[n].offset] = "soi"
                          /\ media.cells[After(n) - 1] = "eoi"
                          /\ n > 1 => chunks[n].offset >= After(n - 1)
                          /\ \A i \in chunks[n].offset..After(n) - 2 : media.cells[i] # "eoi"

=============================================================================
