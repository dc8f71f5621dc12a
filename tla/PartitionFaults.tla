-------------------------- MODULE PartitionFaults --------------------------
(***************************************************************************)
(* Partition when the system lets it down: a file that cannot be unlinked, *)
(* and a wall clock that steps back.                                       *)
(*                                                                         *)
(* Segment::deleteSegment closes the segment before it removes its files.  *)
(* When a removal fails cleanOldSegments keeps the segment in its list,    *)
(* closed, with a size and a time of modification of 0, goes on with the   *)
(* next one and tries again at every later pass.  Deleting the partition   *)
(* is left to Partition.tla.                                               *)
(***************************************************************************)
EXTENDS Partition

CONSTANTS
  Faults,       \* the failures considered, see Fault
  MaxFailures   \* bound: the removals that fail and the steps of the clock back

Fault == {"unlink",      \* ::unlink fails
          "clock_back"}  \* ::time(0) is less than it was

ASSUME FaultsKnown == Faults \subseteq Fault
ASSUME MaxFailuresNat == MaxFailures \in Nat

VARIABLES
  closed,    \* the bases of the segments of the list with fd_ = -1
  passed,    \* the bases the retention pass in progress has failed to remove
  failures   \* history, for the bound

extra == <<closed, passed, failures>>
allVars == <<vars, extra>>

Fail == failures < MaxFailures /\ failures' = failures + 1

-----------------------------------------------------------------------------
(* Partition::cleanOldSegments, Segment::deleteSegment                     *)

\* The segment the pass is at: those it failed on are behind it.
Current(i) ==
  /\ Victim(i) /\ segments[i].base \notin passed
  /\ \A j \in 1 .. i - 1 : Victim(j) => segments[j].base \in passed

RemoveLogOf(i) ==
  /\ pc = "clean" /\ Current(i)
  /\ segments[i].base \in DOMAIN logs
  /\ logs' = WithoutLog(segments[i].base)
  /\ pc' = "unlink"
  /\ UNCHANGED <<indexes, clock, doomed, segments, physicalSize, pending, extra>>

RemoveIndexOf(i) ==
  /\ pc = "unlink" /\ Current(i)
  /\ indexes' = indexes \ {segments[i].base}
  /\ segments' = RemoveAt(segments, i)
  /\ physicalSize' = physicalSize - segments[i].size
  /\ closed' = closed \ {segments[i].base}
  /\ pc' = "clean"
  /\ UNCHANGED <<logs, clock, doomed, pending, passed, failures>>

\* Bug: the segment leaves the list all the same.
Bug_StaysClosed(i) ==
  /\ segments' = RemoveAt(segments, i)
  /\ passed' = passed \cup {segments[i].base}
  /\ UNCHANGED <<closed, physicalSize>>

\* Bug: the size leaves the total before the files are gone.
Bug_SizeFirst(i) ==
  /\ segments' = [segments EXCEPT ![i] = [base |-> @.base, next  |-> @.next,
                                          size |-> 0,      mtime |-> 0]]
  /\ closed' = closed \cup {segments[i].base}
  /\ passed' = passed \cup {segments[i].base}
  /\ physicalSize' = physicalSize - segments[i].size

\* close() has forgotten the size and the time, and its bytes stay in the total.
StaysClosed(i) ==
  /\ segments' = [segments EXCEPT ![i] = [base |-> @.base, next  |-> @.next,
                                          size |-> 0,      mtime |-> 0]]
  /\ closed' = closed \cup {segments[i].base}
  /\ passed' = passed \cup {segments[i].base}
  /\ UNCHANGED physicalSize

\* ::unlink refuses the log or the index; the log that an earlier pass has removed
\* is refused by every later one.
UnlinkFails(i) ==
  /\ pc \in {"clean", "unlink"} /\ Current(i)
  /\ StaysClosed(i)
  /\ pc' = "clean"
  /\ IF pc = "clean" /\ segments[i].base \notin DOMAIN logs
     THEN UNCHANGED failures
     ELSE "unlink" \in Faults /\ Fail
  /\ UNCHANGED <<disk, pending>>

PassDone ==
  /\ pc = "clean"
  /\ \A i \in DOMAIN segments : Victim(i) => segments[i].base \in passed
  /\ pc' = IF pending = <<>> THEN "idle" ELSE "append"
  /\ passed' = {}
  /\ UNCHANGED <<disk, segments, physicalSize, pending, closed, failures>>

-----------------------------------------------------------------------------
ClockBack ==
  /\ "clock_back" \in Faults /\ Fail
  /\ pc \notin {"clean", "unlink"}
  /\ clock' \in 0 .. clock - 1
  /\ UNCHANGED <<logs, indexes, doomed, memory, closed, passed>>

\* The object is gone; closing a closed segment again does nothing.
Stop == (Close \/ Crash) /\ closed' = {} /\ passed' = {} /\ UNCHANGED failures

\* Index::read looks into a mapping that is gone: the process dies of it, unless
\* another file is mapped there by now, and then the read fails on fd_read_ = -1.
ReadClosed(o) ==
  /\ pc = "idle"
  /\ \E i \in FindSegment(o) : segments[i].base \in closed
  /\ pc' = "down" /\ LoseMemory /\ closed' = {}
  /\ UNCHANGED <<disk, passed, failures>>

InitFaults == Init /\ closed = {} /\ passed = {} /\ failures = 0

\* What Partition does without a failure.
Unharmed ==
  \/ Open \/ LoadSegment \/ LoadDone
  \/ MakeIndex \/ MakeLog \/ CreateFails
  \/ AppendMessage \/ Tick
  \/ \E p \in Payload : Write(p)

NextFaults ==
  \/ Unharmed /\ UNCHANGED extra
  \/ \E i \in DOMAIN segments : RemoveLogOf(i) \/ RemoveIndexOf(i) \/ UnlinkFails(i)
  \/ PassDone \/ ClockBack \/ Stop
  \/ \E o \in 0 .. MaxOffset : ReadClosed(o)

SpecFaults == InitFaults /\ [][NextFaults]_allVars

-----------------------------------------------------------------------------
\* What readAt answers, when it returns: nothing from a closed segment.
ReadFrom(o) ==
  IF \E i \in FindSegment(o) : segments[i].base \in closed THEN {} ELSE ReadAt(o)

\* A failed removal, or a clock that steps back and lets retention take a segment
\* from the middle, costs the readers the segments concerned and no other
\* (Partition.cc:241-246, 258-284): every other offset on disk reads its own
\* message, and no offset reads another one's.
ReadsRight ==
  pc = "idle" =>
    \A o \in 0 .. MaxOffset :
      ReadFrom(o) = IF o \in Held /\ HomeOf(o) \notin closed THEN {Messages[o]} ELSE {}

\* physical_size_ never understates the files, whatever failed and was retried
\* (Partition.cc:249 with the size read before the segment was closed): the
\* segments that can be removed stay within the limit.  It may overstate them,
\* and retention take more than it must, until the next start.
LimitEnforced ==
  pc = "idle" =>
    /\ physicalSize >= DiskBytes
    /\ MaxPartitionSize # 0 =>
         SumFunctionOnSet(FileSize, DOMAIN logs \ closed)
           <= MaxPartitionSize + MaxSegmentSize + LargestRecord

\* An offset given to a message is never given to another one and a message
\* removed does not come back, whatever is left of the segments.
OffsetsStable ==
  [][ /\ NextMessage' >= NextMessage
      /\ \A o \in DOMAIN Messages' :
           IF o \in DOMAIN Messages THEN Messages'[o] = Messages[o] ELSE o >= NextMessage
    ]_allVars
=============================================================================
