---------------------------- MODULE FrameDirfile ----------------------------
(***************************************************************************)
(* Frames on their way to disk: each is sorted in place (FrameSort), then  *)
(* written whole by mce_library/files.c, or split by dirfile.c into one    *)
(* channel per sample, buffered per channel and written to the channel's   *)
(* file.  The sequencing variants of both start a new file or directory    *)
(* every interval frames.  The file system is external: mkdir fails if the *)
(* directory exists, fopen when there are too many open files.  The        *)
(* header's and the checksum's channels count among the fields; only the   *)
(* channels of samples are followed.                                       *)
(***************************************************************************)
EXTENDS FrameSort, Sequences

CONSTANTS
  Header,     \* number of header_items
  Intervals,  \* frames per directory or file
  MaxFrames   \* bound on the frames

ASSUME DirfileAssumption ==
  /\ Header \in Nat /\ Intervals \subseteq Nat \ {0} /\ MaxFrames \in Nat

VARIABLES
  kind,      \* "dirfile", "dirfileseq", "flatfile" or "fileseq"
  interval,
  failing,    \* a subset of {"mkdir", "fopen"}
  phase,     \* of the acquisition: frame, sort, post, lost, closed
  idx, nextSwitch, seqCount,  \* dirfileseq_t, fileseq_t: active_idx, next_switch,
                              \* frame_count
  made,      \* the channels exist: dirfile_alloc and add_column_info were run
  opened,    \* how many files could be opened
  frameCount, \* dirfile_t.frame_count
  buf,       \* channel_t.data, up to count
  file,      \* what was written, per directory and channel
  posted,    \* number of frames handed over
  accepted   \* history: those for which the store returned 0

dirVars == <<kind, interval, failing, idx, nextSwitch, seqCount, made, opened,
             frameCount, buf, file>>
storeVars == <<sortVars, dirVars, phase, posted, accepted>>

Flat     == kind \in {"flatfile", "fileseq"}
Sequence == kind \in {"dirfileseq", "fileseq"}

Dirs   == 0..MaxFrames
Chan   == IF Flat THEN {0} ELSE 0..(Size - 1)
Fields == Header + Size + 1

(* dirfile_init: the buffers' size, and when they are written. *)
DataSize == 2 * Fields
Period == DataSize \div 2
Threshold_Above == DataSize \div 2 + 1
Threshold == DataSize \div 2

(* add_column_info: channels by card, column and row; where in the sorted  *)
(* frame the sample of a channel is, and which sample it should be.        *)
CardOf(j) == j \div (rows * cols)
ColOf(j)  == (j \div rows) % cols
RowOf(j)  == j % rows
Offset_ByCard(j) == (CardOf(j) * rows + RowOf(j)) * cols + ColOf(j)
Offset(j) == RowOf(j) * (CardsOut * cols) + ColOf(j) + CardOf(j) * cols
SampleOf(j) == <<NthCard(CardOf(j)), RowOf(j), ColOf(j)>>

Empty == [j \in Chan |-> <<>>]

(* dirfile_init: mkdir, the channels, then their files one by one up to    *)
(* the first that cannot be opened.                                        *)
InitDir ==
  \/ /\ made' = TRUE /\ opened' = Size
  \/ "mkdir" \in failing /\ made' = FALSE /\ opened' = 0
  \/ "fopen" \in failing /\ made' = TRUE /\ opened' \in 0..(Size - 1)
Failed == ~made' \/ opened' < Size

(* dirfile_write: channels that are half full, or all of them, if they     *)
(* have a file.                                                            *)
Writes(b, flush, j) == j < opened /\ (flush \/ Len(b[j]) >= Threshold)
Kept(b, flush) == [j \in Chan |-> IF Writes(b, flush, j) THEN <<>> ELSE b[j]]
Written(b, flush) ==
  [file EXCEPT ![idx] =
     [j \in Chan |-> IF Writes(b, flush, j) THEN @[j] \o b[j] ELSE @[j]]]

DirInit ==
  /\ SortInit
  /\ kind \in {"dirfile", "dirfileseq", "flatfile", "fileseq"}
  /\ interval \in IF Sequence THEN Intervals ELSE {MaxFrames + 1}
  /\ failing \in {{}, {"mkdir"}, {"fopen"}}
  /\ idx = 0 /\ nextSwitch = 0 /\ seqCount = 0
  /\ made = FALSE /\ opened = 0
  /\ frameCount = 0 /\ buf = Empty /\ file = [d \in Dirs |-> Empty]
  /\ phase = "create" /\ posted = 0 /\ accepted = {}

(* fopen of a whole file. *)
OpenFile ==
  /\ made' = TRUE
  /\ opened' \in {1} \cup (IF "fopen" \in failing THEN {0} ELSE {})

(* A file or directory that cannot be set up is an acquisition that is not *)
(* made; fileseq_init and dirfileseq_init drop the result of their cycle.  *)
CreateStore ==
  /\ phase = "create"
  /\ IF Flat THEN OpenFile ELSE InitDir
  /\ phase' = IF ~Sequence /\ (opened' = 0 \/ (~Flat /\ Failed)) THEN "closed"
              ELSE "frame"
  /\ UNCHANGED <<sortVars, kind, interval, failing, idx, nextSwitch, seqCount,
                 frameCount, buf, file, posted, accepted>>

NextFrame ==
  /\ phase = "frame" /\ posted < MaxFrames
  /\ data' = RawFrame /\ temp' = NoSamples
  /\ c' = 0 /\ cIn' = 0 /\ sorted' = FALSE
  /\ phase' = "sort"
  /\ UNCHANGED <<cards, rows, cols, dirVars, posted, accepted>>

Sort ==
  /\ phase = "sort"
  /\ SortNext
  /\ phase' = IF sorted' THEN "post" ELSE "sort"
  /\ UNCHANGED <<dirVars, posted, accepted>>

(* dirfile_post: a sample to each channel, and a write every so often. *)
With(b) ==
  [j \in Chan |-> IF made' THEN Append(b[j], <<posted, data[Offset(j)]>>)
                  ELSE b[j]]

(* dirfileseq_post, fileseq_post: the count is advanced in the comparison. *)
Counted == IF Sequence THEN seqCount + 1 ELSE 0
SwitchDue_Early == Sequence /\ Counted >= nextSwitch
SwitchDue == Sequence /\ seqCount >= nextSwitch
NewIdx == Counted \div interval

PostSame ==
  /\ phase = "post" /\ ~Flat
  /\ ~SwitchDue \/ NewIdx = idx
  /\ seqCount' = Counted
  /\ nextSwitch' = nextSwitch + IF SwitchDue THEN interval ELSE 0
  /\ UNCHANGED <<made, opened>>
  /\ IF frameCount >= Period
     THEN /\ frameCount' = 0
          /\ buf' = Kept(With(buf), FALSE)
          /\ file' = Written(With(buf), FALSE)
     ELSE /\ frameCount' = frameCount + 1
          /\ buf' = With(buf)
          /\ UNCHANGED file
  /\ posted' = posted + 1 /\ accepted' = accepted \cup {posted}
  /\ phase' = "frame"
  /\ UNCHANGED <<sortVars, kind, interval, failing, idx>>

(* dirfileseq_cycle: dirfile_cleanup of the directory, then the next one.  *)
(* If it cannot be set up this frame is refused, and those after it go to  *)
(* what there is of it.                                                    *)
ClosingWrite == Written(buf, TRUE)

PostSwitch ==
  /\ phase = "post" /\ ~Flat
  /\ SwitchDue /\ NewIdx # idx
  /\ seqCount' = Counted
  /\ nextSwitch' = nextSwitch + interval
  /\ file' = ClosingWrite
  /\ idx' = NewIdx
  /\ InitDir
  /\ IF Failed
     THEN buf' = Empty /\ frameCount' = 0 /\ UNCHANGED accepted
     ELSE buf' = With(Empty) /\ frameCount' = 1 /\ accepted' = accepted \cup {posted}
  /\ posted' = posted + 1
  /\ phase' = "frame"
  /\ UNCHANGED <<sortVars, kind, interval, failing>>

(* flatfile_post, fileseq_post: fileseq_cycle opens a file anew even if it *)
(* is the same, to append; without a file the frame is refused, and so are *)
(* those after it, up to the next switch.                                  *)
Appended ==
  [file EXCEPT ![idx'] = [j \in Chan |-> Append(@[j], <<posted, data>>)]]

PostFile ==
  /\ phase = "post" /\ Flat
  /\ seqCount' = Counted
  /\ IF SwitchDue
     THEN nextSwitch' = nextSwitch + interval /\ idx' = NewIdx /\ OpenFile
     ELSE UNCHANGED <<nextSwitch, idx, made, opened>>
  /\ IF opened' = 0
     THEN UNCHANGED <<file, accepted>>
     ELSE file' = Appended /\ accepted' = accepted \cup {posted}
  /\ posted' = posted + 1
  /\ phase' = "frame"
  /\ UNCHANGED <<sortVars, kind, interval, failing, frameCount, buf>>

(* The flush between acquisitions and the cleanup at their end, of         *)
(* dirfile.c; those of files.c have nothing of their own to write.         *)
FlushOrCleanup ==
  /\ phase = "frame"
  /\ buf' = Kept(buf, TRUE)
  /\ file' = Written(buf, TRUE)
  /\ phase' \in {"frame", "closed"}
  /\ UNCHANGED <<sortVars, kind, interval, failing, idx, nextSwitch, seqCount,
                 made, opened, frameCount, posted, accepted>>

DirNext == CreateStore \/ NextFrame \/ Sort \/ PostSame \/ PostSwitch \/ PostFile
          \/ FlushOrCleanup

DirSpec == DirInit /\ [][DirNext]_storeVars

-----------------------------------------------------------------------------
Gapless == CardsOut = 1 \/ cards = 0..(CardsOut - 1)

(* Wherever flushes fall, a channel whose file is open has room for the    *)
(* next sample in its share of the one block of memory, though it is       *)
(* written only when it is half full and looked at only once a period.     *)
RoomForSample ==
  phase = "post" => \A j \in Chan : j < opened => Len(buf[j]) < DataSize

(* The frames of the acquisition in directory d, in order: those that its  *)
(* channel j has, and the ones still in the buffer.                        *)
Has(d, j) == file[d][j] \o (IF d = idx THEN buf[j] ELSE <<>>)

(* A channel's file has the samples of the card, column and row that name  *)
(* it, one per frame, and a whole file has the sorted frames: sorting and  *)
(* splitting agree on the frame's layout.                                  *)
SortedFrame ==
  [i \in 0..(Size - 1) |->
     <<NthCard((i \div cols) % CardsOut), i \div (CardsOut * cols), i % cols>>]

OwnSamples ==
  Gapless => \A d \in 0..idx, j \in Chan : \A i \in DOMAIN file[d][j] :
               file[d][j][i][2] = IF Flat THEN SortedFrame ELSE SampleOf(j)

(* No frame that the store has accepted is lost or repeated, in all        *)
(* channels alike: a file or directory has the frames of one interval, all *)
(* of them and in order, that of the interval's number, and every frame is *)
(* accepted while files can be opened.  (A dirfile that could not be set   *)
(* up accepts frames and loses them.)  Files of one frame each are all     *)
(* there but numbered one too high.                                        *)
FramesCut ==
  /\ failing = {} => accepted = 0..(posted - 1)
  /\ failing = {} \/ Flat =>
       \A j \in Chan :
         LET frame(d, i) == Has(d, j)[i][1]
             In(d) == {frame(d, i) : i \in DOMAIN Has(d, j)}
         IN  /\ UNION {In(d) : d \in Dirs} = accepted
             /\ \A d, e \in Dirs : \A n \in In(d), m \in In(e) :
                  d = e <=> n \div interval = m \div interval
             /\ interval > 1 => \A d \in Dirs : \A n \in In(d) : n \div interval = d
             /\ \A d \in Dirs : \A i, k \in DOMAIN Has(d, j) :
                  i < k => frame(d, i) < frame(d, k)
=============================================================================
