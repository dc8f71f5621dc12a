----------------------------- MODULE Partition -----------------------------
(***************************************************************************)
(* One partition (src/src/commitlog/Partition.cc): a directory of segment  *)
(* files and the object that serves it.  The lock mutex_ makes every       *)
(* operation exclusive, so what interleaves with the steps of an operation *)
(* is the death of the process: each change of the directory is a step of  *)
(* its own, and the process may be killed between any two.  Files survive  *)
(* (the page cache belongs to the kernel), the object does not.            *)
(*                                                                         *)
(* Segment.tla refines the file of one segment down to its records; here a *)
(* record is appended to its file in one step.                             *)
(***************************************************************************)
EXTENDS Integers, SequencesExt, FiniteSetsExt

CONSTANTS
  Payload,            \* the messages a producer may send
  PayloadSize,        \* their sizes: payload.size()
  HeaderSize,         \* Segment::HEADER_SIZE
  MaxSegmentSize,     \* max_segment_size_
  MaxPartitionSize,   \* max_partition_size_, 0 for no limit
  SegmentTtl,         \* segment_ttl_, 0 for no limit
  MaxOffset,          \* bound: offsets ever given are below it
  MaxClock            \* bound: the wall clock stops there

ASSUME PayloadSizes == PayloadSize \in [Payload -> Nat]
ASSUME PayloadFinite == IsFiniteSet(Payload) /\ Payload # {}
ASSUME HeaderSizeNat == HeaderSize \in Nat \ {0}
ASSUME LimitsNat == /\ MaxSegmentSize \in Nat
                    /\ MaxPartitionSize \in Nat
                    /\ SegmentTtl \in Nat
ASSUME BoundsNat == MaxOffset \in Nat /\ MaxClock \in Nat

VARIABLES
  logs,         \* the .log files: base offset -> contents, st_size, st_mtime
  indexes,      \* the base offsets that have a .index file
  clock,        \* ::time(0)
  pc,           \* the point the running operation has reached
  segments,     \* segments_
  physicalSize, \* physical_size_
  pending,      \* the payload of the write in progress, if any
  doomed        \* history: a deletion has begun and not yet emptied the directory

disk == <<logs, indexes, clock, doomed>>
memory == <<pc, segments, physicalSize, pending>>
vars == <<disk, memory>>

File == [msgs : Seq(Payload), bytes : Nat, mtime : Nat]
SegmentObject == [base : Nat, next : Nat, size : Nat, mtime : Nat]

Points == {"down", "load", "index", "log", "clean", "unlink", "append", "idle",
           "removing"}

TypeOK ==
  /\ DOMAIN logs \subseteq Nat
  /\ logs \in [DOMAIN logs -> File]
  /\ indexes \subseteq Nat
  /\ clock \in Nat
  /\ pc \in Points
  /\ segments \in Seq(SegmentObject)
  /\ physicalSize \in Int
  /\ pending \in {<<>>} \cup {<<p>> : p \in Payload}
  /\ doomed \in BOOLEAN

-----------------------------------------------------------------------------
(* Files and segments                                                      *)

\* The offset that follows the last record of a file.
EndOf(b) == b + Len(logs[b].msgs)

WithoutLog(b) == [c \in DOMAIN logs \ {b} |-> logs[c]]

WithLog(b, file) == [c \in DOMAIN logs \cup {b} |-> IF c = b THEN file ELSE logs[c]]

\* active_segment_: the last one of the list.
Active == Last(segments)

IsFull == Active.size > MaxSegmentSize

\* Bug: forgets fstat, a reopened segment has size 0.
Bug_OpenedSegment(b) == [base  |-> b,
                         next  |-> EndOf(b),
                         size  |-> 0,
                         mtime |-> logs[b].mtime]

\* What Segment::open computes from an existing file.
OpenedSegment(b) == [base  |-> b,
                     next  |-> EndOf(b),
                     size  |-> logs[b].bytes,
                     mtime |-> logs[b].mtime]

NotLoaded == {b \in DOMAIN logs : \A i \in DOMAIN segments : segments[i].base # b}

\* Bug: skips an offset at every rollover.
Bug_NewBase == IF segments = <<>> THEN 0 ELSE Active.next + 1

\* The base of the segment an empty directory or a full segment calls for.
NewBase == IF segments = <<>> THEN 0 ELSE Active.next

\* The remove_if of cleanOldSegments.
TooOld(i) == SegmentTtl # 0 /\ clock - segments[i].mtime > SegmentTtl

\* Bug: compares the size of the active segment only.
Bug_PartitionTooLarge == MaxPartitionSize # 0 /\ Active.size > MaxPartitionSize

PartitionTooLarge == MaxPartitionSize # 0 /\ physicalSize > MaxPartitionSize

\* Bug: the segment spared is the first and not the active one.
Bug_Victim(i) == i # 1 /\ (TooOld(i) \/ PartitionTooLarge)

Victim(i) == i # Len(segments) /\ (TooOld(i) \/ PartitionTooLarge)

\* Bug: the pass takes any victim, not the oldest.
Bug_FirstVictim(i) == Victim(i)

\* The pass goes through the list once.  A segment it spares stays spared:
\* now is read once and physical_size_ only decreases.
FirstVictim(i) == Victim(i) /\ \A j \in 1 .. i - 1 : ~ Victim(j)

-----------------------------------------------------------------------------
(* Partition::open                                                         *)

Open ==
  /\ pc = "down"
  /\ pc' = "load"
  /\ UNCHANGED <<disk, segments, physicalSize, pending>>

\* Segments are opened in ascending base order; each gets its index file back.
LoadSegment ==
  /\ pc = "load"
  /\ \E b \in NotLoaded :
       /\ \A c \in NotLoaded : b <= c
       /\ segments' = Append(segments, OpenedSegment(b))
       /\ physicalSize' = physicalSize + logs[b].bytes
       /\ indexes' = indexes \cup {b}
  /\ UNCHANGED <<logs, clock, doomed, pc, pending>>

LoadDone ==
  /\ pc = "load"
  /\ NotLoaded = {}
  /\ pc' = IF segments = <<>> THEN "index" ELSE "clean"
  /\ UNCHANGED <<disk, segments, physicalSize, pending>>

-----------------------------------------------------------------------------
(* A new segment: Segment::open, which creates the files the base lacks    *)

\* The .log file at the base of the new segment: a new one, or the one that an open
\* that failed has left there.
NewFile ==
  IF NewBase \in DOMAIN logs THEN logs[NewBase]
  ELSE [msgs |-> <<>>, bytes |-> 0, mtime |-> clock]

MakeIndex ==
  /\ pc = "index"
  /\ indexes' = indexes \cup {NewBase}
  /\ pc' = "log"
  /\ UNCHANGED <<logs, clock, doomed, segments, physicalSize, pending>>

\* Bug: a new segment's time of modification is left at 0.
Bug_MakeLog ==
  /\ pc = "log"
  /\ logs' = WithLog(NewBase, NewFile)
  /\ segments' = Append(segments, [base |-> NewBase, next |-> NewBase + Len(NewFile.msgs),
                                   size |-> NewFile.bytes, mtime |-> 0])
  /\ pc' = IF pending # <<>> /\ SegmentTtl = 0 /\ MaxPartitionSize = 0
           THEN "append" ELSE "clean"
  /\ UNCHANGED <<indexes, clock, doomed, physicalSize, pending>>

MakeLog ==
  /\ pc = "log"
  /\ logs' = WithLog(NewBase, NewFile)
  /\ segments' = Append(segments, [base |-> NewBase, next |-> NewBase + Len(NewFile.msgs),
                                   size |-> NewFile.bytes, mtime |-> NewFile.mtime])
  /\ pc' = IF pending # <<>> /\ SegmentTtl = 0 /\ MaxPartitionSize = 0
           THEN "append" ELSE "clean"
  /\ UNCHANGED <<indexes, clock, doomed, physicalSize, pending>>

\* A file cannot be created, or the .log file has been and its read-only open is
\* refused: the write is refused, or the open fails and its caller drops the partition.
CreateFails ==
  /\ pc \in {"index", "log"}
  /\ \/ UNCHANGED logs
     \/ pc = "log" /\ logs' = WithLog(NewBase, NewFile)
  /\ pc' = IF pending = <<>> THEN "down" ELSE "idle"
  /\ pending' = <<>>
  /\ UNCHANGED <<indexes, clock, doomed, segments, physicalSize>>

-----------------------------------------------------------------------------
(* Partition::write                                                        *)

Write(p) ==
  /\ pc = "idle"
  /\ Active.next < MaxOffset
  /\ pending' = <<p>>
  /\ pc' = IF IsFull THEN "index" ELSE "append"
  /\ UNCHANGED <<disk, segments, physicalSize>>

\* Segment::write: the file's time of modification moves, the segment's copy
\* of it does not.
AppendMessage ==
  /\ pc = "append"
  /\ LET b == Active.base
         added == HeaderSize + PayloadSize[pending[1]]
         n == Len(segments)
     IN /\ logs' = [logs EXCEPT ![b] = [msgs  |-> Append(@.msgs, pending[1]),
                                        bytes |-> @.bytes + added,
                                        mtime |-> clock]]
        /\ segments' = [segments EXCEPT ![n] = [base  |-> @.base,
                                                next  |-> @.next + 1,
                                                size  |-> @.size + added,
                                                mtime |-> @.mtime]]
        /\ physicalSize' = physicalSize + added
  /\ pending' = <<>>
  /\ pc' = "idle"
  /\ UNCHANGED <<indexes, clock, doomed>>

-----------------------------------------------------------------------------
(* Partition::cleanOldSegments, Segment::deleteSegment                     *)

UnlinkLog ==
  /\ pc = "clean"
  /\ \E i \in DOMAIN segments :
       FirstVictim(i) /\ logs' = WithoutLog(segments[i].base)
  /\ pc' = "unlink"
  /\ UNCHANGED <<indexes, clock, doomed, segments, physicalSize, pending>>

\* Bug: the segment deleted stays in the list.
Bug_UnlinkIndex ==
  /\ pc = "unlink"
  /\ \E i \in DOMAIN segments :
       FirstVictim(i) /\ indexes' = indexes \ {segments[i].base}
  /\ pc' = "clean"
  /\ UNCHANGED <<logs, clock, doomed, segments, physicalSize, pending>>

UnlinkIndex ==
  /\ pc = "unlink"
  /\ \E i \in DOMAIN segments :
       /\ FirstVictim(i)
       /\ indexes' = indexes \ {segments[i].base}
       /\ segments' = RemoveAt(segments, i)
       /\ physicalSize' = physicalSize - segments[i].size
  /\ pc' = "clean"
  /\ UNCHANGED <<logs, clock, doomed, pending>>

CleanDone ==
  /\ pc = "clean"
  /\ \A i \in DOMAIN segments : ~ Victim(i)
  /\ pc' = IF pending = <<>> THEN "idle" ELSE "append"
  /\ UNCHANGED <<disk, segments, physicalSize, pending>>

-----------------------------------------------------------------------------
(* Partition::close, Partition::deletePartition, the death of the process  *)

\* Bug: physical_size_ is not reset.
Bug_LoseMemory ==
  /\ segments' = <<>>
  /\ physicalSize' = physicalSize
  /\ pending' = <<>>

LoseMemory ==
  /\ segments' = <<>>
  /\ physicalSize' = 0
  /\ pending' = <<>>

Close ==
  /\ pc = "idle"
  /\ pc' = "down"
  /\ LoseMemory
  /\ UNCHANGED disk

Crash ==
  /\ pc # "down"
  /\ pc' = "down"
  /\ LoseMemory
  /\ UNCHANGED disk

DeletePartition ==
  /\ pc = "idle"
  /\ pc' = "removing"
  /\ LoseMemory
  /\ doomed' = TRUE
  /\ UNCHANGED <<logs, indexes, clock>>

\* fs::remove_all lists the directory in no particular order.
RemoveLog ==
  /\ pc = "removing"
  /\ \E b \in DOMAIN logs : logs' = WithoutLog(b)
  /\ UNCHANGED <<indexes, clock, doomed, memory>>

RemoveIndex ==
  /\ pc = "removing"
  /\ \E b \in indexes : indexes' = indexes \ {b}
  /\ UNCHANGED <<logs, clock, doomed, memory>>

RemoveDone ==
  /\ pc = "removing"
  /\ DOMAIN logs = {} /\ indexes = {}
  /\ pc' = "down"
  /\ doomed' = FALSE
  /\ UNCHANGED <<logs, indexes, clock, segments, physicalSize, pending>>

\* Time passes.  cleanOldSegments reads the clock once, when it begins.
Tick ==
  /\ clock < MaxClock
  /\ pc \notin {"clean", "unlink"}
  /\ clock' = clock + 1
  /\ UNCHANGED <<logs, indexes, doomed, memory>>

-----------------------------------------------------------------------------
Init ==
  /\ logs = [b \in {} |-> <<>>]
  /\ indexes = {}
  /\ clock = 0
  /\ pc = "down"
  /\ segments = <<>>
  /\ physicalSize = 0
  /\ pending = <<>>
  /\ doomed = FALSE

\* The steps of an operation that has begun.
OperationStep ==
  \/ LoadSegment \/ LoadDone
  \/ MakeIndex \/ MakeLog \/ CreateFails
  \/ AppendMessage
  \/ UnlinkLog \/ UnlinkIndex \/ CleanDone
  \/ RemoveLog \/ RemoveIndex \/ RemoveDone

Next ==
  \/ OperationStep
  \/ Open \/ Close \/ DeletePartition \/ Crash \/ Tick
  \/ \E p \in Payload : Write(p)

Spec == Init /\ [][Next]_vars

\* The thread inside an operation keeps running until the process is killed.
FairSpec == Spec /\ WF_vars(OperationStep)

-----------------------------------------------------------------------------
(* Reading: Partition::findSegment, readAt, newestOffset, oldestOffset     *)

\* Bug: looks for the first segment that begins after the offset.
Bug_FindSegment(o) ==
  {i \in DOMAIN segments : /\ segments[i].base >= o
                           /\ \A j \in 1 .. i - 1 : segments[j].base < o}

\* The last segment that does not begin after o; OffsetSearch.tla shows that
\* this is what the binary search finds.
FindSegment(o) ==
  {i \in DOMAIN segments : /\ segments[i].base <= o
                           /\ \A j \in i + 1 .. Len(segments) : segments[j].base > o}

\* The message read at offset o, or no message when the read fails.
ReadAt(o) ==
  {logs[segments[i].base].msgs[o - segments[i].base + 1] :
     i \in {j \in FindSegment(o) : o < segments[j].next}}

NewestOffset == Active.next
OldestOffset == segments[1].base

-----------------------------------------------------------------------------
(* The files at every instant, a killed process's leftovers included       *)

\* The offset of the oldest message and the one the next message will have.
FirstOffset == Min(DOMAIN logs)
NextOffset == LET last == Max(DOMAIN logs) IN EndOf(last)

\* Each file ends exactly where the next one begins, and only the last may be
\* empty: wherever write, rollover, retention and reopening are interrupted
\* (Partition.cc:108-128, 229-253), the files left hold the offsets from the
\* oldest to the newest without hole or overlap.
DiskContiguous ==
  ~ doomed =>
    \A b \in DOMAIN logs :
      \/ \A c \in DOMAIN logs : c <= b
      \/ /\ logs[b].msgs # <<>>
         /\ EndOf(b) \in DOMAIN logs
         /\ \A c \in DOMAIN logs : b < c => EndOf(b) <= c

\* An index file whose log file is gone (Segment.cc:248-253) or not there yet
\* (Segment.cc:48-60) never stands among the offsets the partition holds: it is
\* a leftover below the oldest or the one the next rollover will take.
OrphanIndexes ==
  ~ doomed =>
    \A b \in indexes \ DOMAIN logs :
      IF DOMAIN logs = {} THEN b = 0 ELSE b < FirstOffset \/ b = NextOffset

FileSize == [b \in DOMAIN logs |-> logs[b].bytes]

DiskBytes == SumFunction(FileSize)

LargestRecord == HeaderSize + Max({PayloadSize[p] : p \in Payload})

\* With a limit on the partition, its files never exceed the limit by more than
\* one segment and the record that overflows it, however often the process dies
\* between a rollover and the cleaning that follows it (Partition.cc:108-121).
DiskBounded ==
  MaxPartitionSize # 0 =>
    DiskBytes <= MaxPartitionSize + MaxSegmentSize + LargestRecord

-----------------------------------------------------------------------------
(* The object against the files                                            *)

\* The file of a rollover whose open failed once the file was there: empty, it waits
\* for the next write, which finds the active segment as full as it was.
Leftover(b) ==
  /\ pc \in {"idle", "index", "log"} /\ segments # <<>>
  /\ b = NewBase /\ IsFull /\ logs[b].msgs = <<>>

\* When no operation is in progress the list of segments is the directory in
\* order, but for the empty file a refused rollover leaves at the next offset
\* (Segment.cc:60, 74-85, Partition.cc:112-117); each segment's next offset and size
\* are those of its file, and the running total physical_size_ (Partition.cc:72, 128,
\* 249) is the sum of all the files.
SegmentsMirrorDisk ==
  pc = "idle" =>
    /\ \A b \in DOMAIN logs : Leftover(b) \/ \E i \in DOMAIN segments : segments[i].base = b
    /\ \A i \in DOMAIN segments :
         LET s == segments[i]
         IN /\ s.base \in DOMAIN logs
            /\ s.next = EndOf(s.base)
            /\ s.size = logs[s.base].bytes
            /\ s.base \in indexes
            /\ i > 1 => segments[i - 1].base < s.base
    /\ physicalSize = DiskBytes

\* What the partition holds, nothing once its deletion has begun: each offset has
\* one file that holds it.
Held == IF doomed THEN {} ELSE UNION {b .. EndOf(b) - 1 : b \in DOMAIN logs}

HomeOf(o) == CHOOSE b \in DOMAIN logs : o \in b .. EndOf(b) - 1

Messages == [o \in Held |-> logs[HomeOf(o)].msgs[o - HomeOf(o) + 1]]

NextMessage == IF doomed \/ DOMAIN logs = {} THEN 0 ELSE NextOffset

\* Every offset from oldestOffset up to newestOffset reads the message it was
\* given to, and no other offset reads anything (Partition.cc:134-153,
\* 258-284, Segment.cc:177-212), after any rollovers, retention and restarts.
EveryOffsetReadable ==
  (pc = "idle" /\ ~ doomed) =>
    /\ Held = OldestOffset .. NewestOffset - 1
    /\ \A o \in 0 .. MaxOffset :
         ReadAt(o) = IF o \in Held THEN {Messages[o]} ELSE {}

-----------------------------------------------------------------------------
(* The inductive invariant behind DiskContiguous and RetentionTakesOldest  *)

FilesOrdered ==
  \A b, c \in DOMAIN logs :
    b < c => EndOf(b) <= c /\ logs[b].msgs # <<>> /\ logs[b].mtime <= logs[c].mtime

FilesAdjacent ==
  ~ doomed =>
    \A b \in DOMAIN logs : (\A c \in DOMAIN logs : c <= b) \/ EndOf(b) \in DOMAIN logs

FilesSound ==
  \A b \in DOMAIN logs :
    logs[b].mtime <= clock /\ (logs[b].msgs = <<>> => logs[b].bytes = 0)

\* What each point of the code knows of the operation in progress.
ControlSound ==
  /\ pc \in {"down", "removing"} => segments = <<>>
  /\ pc = "removing" => doomed
  /\ pc \in {"clean", "unlink", "append", "idle"} => segments # <<>>
  /\ pc \in {"down", "load", "idle", "removing"} => pending = <<>>
  /\ pc = "append" => pending # <<>>
  /\ pc \in {"index", "log"} =>
       IF pending = <<>> THEN segments = <<>>
       ELSE segments # <<>> /\ IsFull /\ logs[Active.base].msgs # <<>>
  /\ pc = "unlink" => FirstVictim(1) /\ segments[1].base \notin DOMAIN logs

SegmentsSorted ==
  \A i, j \in DOMAIN segments :
    i < j => /\ segments[i].base < segments[j].base
             /\ segments[i].mtime <= segments[j].mtime

SegmentsMatch ==
  \A i \in DOMAIN segments :
    ~ (pc = "unlink" /\ i = 1) =>
      LET s == segments[i]
      IN /\ s.base \in DOMAIN logs
         /\ s.next = EndOf(s.base)
         /\ s.size = logs[s.base].bytes
         /\ s.mtime <= logs[s.base].mtime

SegmentsCover ==
  pc \notin {"down", "removing"} =>
    \A b \in DOMAIN logs :
      \/ \E i \in DOMAIN segments : segments[i].base = b
      \/ pc = "load" /\ \A i \in DOMAIN segments : segments[i].base < b
      \/ Leftover(b)

\* Files in order, the list of segments in the same order and covering them but for
\* what a refused rollover left, and modification times that only grow along both:
\* what makes the first segment the only one retention can take, and a rollover's
\* base the end of the last file that has messages.
IndInv ==
  /\ TypeOK
  /\ FilesOrdered /\ FilesAdjacent /\ FilesSound
  /\ SegmentsSorted /\ SegmentsMatch /\ SegmentsCover
  /\ ControlSound

-----------------------------------------------------------------------------
(* What a step may do                                                      *)

\* Retention removes the oldest file and never the last (Partition.cc:232-240),
\* whatever mix of cached and reloaded modification times it decides on.
RetentionTakesOldest ==
  [][pc = "clean" =>
       \A b \in DOMAIN logs \ DOMAIN logs' :
         /\ \A c \in DOMAIN logs : b <= c
         /\ \E c \in DOMAIN logs : b < c]_vars

\* When only a size limit is set, no file is removed unless the files on disk
\* really exceed it (Partition.cc:238-239): the running total never drifts
\* above them.
SizeRetentionWhenDue ==
  [][(SegmentTtl = 0 /\ pc = "clean" /\ DOMAIN logs' # DOMAIN logs) =>
       MaxPartitionSize # 0 /\ DiskBytes > MaxPartitionSize]_vars

\* A file whose last modification is within the time to live is not removed by
\* it.  Segment.hh:169 says of mtime() "Get the last time the segment file has
\* been modified", and main-ctl.cc of the option "Segment older than ttl will be
\* destroy"; the segment remembers the time at which it was opened or created.
YoungDataKept ==
  [][(MaxPartitionSize = 0 /\ pc = "clean") =>
       \A b \in DOMAIN logs \ DOMAIN logs' : clock - logs[b].mtime > SegmentTtl]_vars

\* An operation that has begun ends, unless the process dies: the opening loop,
\* the retention pass and remove_all run out of files (Partition.cc:63, 229,
\* 217).
OperationsFinish == pc \notin {"idle", "down"} ~> pc \in {"idle", "down"}

\* The partition implements the abstract log: a message, once written, keeps its
\* offset until retention forgets it from the old end, and new messages take
\* the next offset whatever was removed or restarted in between.
CL == INSTANCE CommitLog WITH messages <- Messages, next <- NextMessage
ImplementsCommitLog == CL!Spec
=============================================================================
