---------------------------- MODULE OffsetSearch ----------------------------
(***************************************************************************)
(* The binary search that Partition::findSegment runs over the bases of    *)
(* the segments and Segment::findEntry over the entries of an index.  The  *)
(* two loops are the same: they stop on an exact hit or an empty range,    *)
(* and keep the last position whose key was not above the target.          *)
(* findSegment answers that position, findEntry only an exact hit.         *)
(* Positions count from 0, as in the code.                                 *)
(***************************************************************************)
EXTENDS Integers, Sequences

CONSTANTS Tables,   \* the sequences searched
          Targets   \* the offsets searched for

Ascending(t) == \A i, j \in DOMAIN t : i < j => t[i] < t[j]

ASSUME TablesAscending == \A t \in Tables : t \in Seq(Nat) /\ Ascending(t)
ASSUME TargetsInt == Targets \subseteq Int

VARIABLES
  table, target,    \* the arguments
  begin, end, pos,  \* the range left and the position to probe
  probed,           \* the key last read, -1 at first: found_offset, rel_offset
  found             \* the position kept, -1 for none: found_segment

vars == <<table, target, begin, end, pos, probed, found>>

Key(i) == table[i + 1]

\* The division of C++ truncates toward zero.
Half(n) == IF n >= 0 THEN n \div 2 ELSE - ((- n) \div 2)

\* Bug: the range begins with one position more than the table has.
Bug_Init ==
  /\ table \in Tables
  /\ target \in Targets
  /\ begin = 0
  /\ end = Len(table)
  /\ pos = Half(begin + end)
  /\ probed = -1
  /\ found = -1

Init ==
  /\ table \in Tables
  /\ target \in Targets
  /\ begin = 0
  /\ end = Len(table) - 1
  /\ pos = Half(begin + end)
  /\ probed = -1
  /\ found = -1

\* Bug: the loop goes on while the range has two positions.
Bug_Searching == begin < end /\ probed # target

Searching == begin <= end /\ probed # target

\* Bug: the position that was too high stays in the range.
Bug_TooHigh ==
  /\ Key(pos) > target
  /\ end' = pos
  /\ UNCHANGED <<begin, found>>

TooHigh ==
  /\ Key(pos) > target
  /\ end' = pos - 1
  /\ UNCHANGED <<begin, found>>

\* Bug: the position kept stays in the range.
Bug_NotTooHigh ==
  /\ Key(pos) <= target
  /\ found' = pos
  /\ begin' = pos
  /\ UNCHANGED end

NotTooHigh ==
  /\ Key(pos) <= target
  /\ found' = pos
  /\ begin' = pos + 1
  /\ UNCHANGED end

Probe ==
  /\ Searching
  /\ TooHigh \/ NotTooHigh
  /\ probed' = Key(pos)
  /\ pos' = Half(begin' + end')
  /\ UNCHANGED <<table, target>>

Return == ~ Searching /\ UNCHANGED vars

Next == Probe \/ Return

Spec == Init /\ [][Next]_vars
FairSpec == Spec /\ WF_vars(Probe)

-----------------------------------------------------------------------------
\* What findEntry answers: the position of the target itself.
EntryFound == {i \in {found} : probed = target /\ target >= 0}

Below == {i \in 0 .. Len(table) - 1 : Key(i) <= target}

\* What both loops maintain: the range never excludes the answer.
SearchInv ==
  /\ table \in Seq(Nat) /\ Ascending(table) /\ target \in Int
  /\ begin \in 0 .. Len(table) /\ end \in -1 .. Len(table) - 1
  /\ begin <= end + 1
  /\ pos = Half(begin + end)
  /\ found = begin - 1
  /\ \A i \in 0 .. begin - 1 : Key(i) <= target
  /\ \A i \in end + 1 .. Len(table) - 1 : Key(i) > target
  /\ probed = -1 \/ (probed \in Nat /\ (probed <= target => found >= 0 /\ Key(found) = probed))
  /\ found >= 0 /\ Key(found) = target => probed = target

\* The index and the list of segments are read inside their bounds only: Index::read
\* checks no lower bound (Index.cc:114) and segments_[pos] none (Partition.cc:272).
ProbesInside == Searching => pos \in 0 .. Len(table) - 1

\* When the loop ends it has kept the last position whose key is not above the
\* target, none if all are, and findEntry answers exactly the targets present
\* (Partition.cc:270-281, Segment.cc:264-281).
FindsLast ==
  ~ Searching =>
    /\ Below = 0 .. found
    /\ EntryFound = {i \in 0 .. Len(table) - 1 : Key(i) = target}

\* The loop ends.
Terminates == <>(~ Searching)
=============================================================================
