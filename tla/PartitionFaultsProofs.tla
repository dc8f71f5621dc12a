----------------------- MODULE PartitionFaultsProofs -----------------------
(***************************************************************************)
(* Proofs about PartitionFaults for every payload and limit and any number *)
(* of failed removals, steps of the clock, restarts and messages.          *)
(***************************************************************************)
EXTENDS PartitionFaults, PartitionProofs

\* Files do not overlap, and one without a record is empty.
FilesInOrder ==
  /\ FilesApart
  /\ \A b \in DOMAIN logs : logs[b].msgs = <<>> => logs[b].bytes = 0

\* The list is in the order of the offsets, with the gaps removals leave.
Chained ==
  \A i, j \in DOMAIN segments :
    i < j => segments[i].base < segments[j].base /\ segments[i].next <= segments[j].base

\* The segment a removal is in the middle of.
HalfGone(i) == pc = "unlink" /\ Current(i)

\* A segment knows its file, or has been closed by a removal that failed.
SegmentsKnow ==
  \A i \in DOMAIN segments :
    LET s == segments[i]
    IN /\ s.base \in DOMAIN logs => s.next = EndOf(s.base)
       /\ s.base \in closed => s.size = 0
       /\ s.base \in DOMAIN logs \ closed => s.size = logs[s.base].bytes
       /\ s.base \in DOMAIN logs \cup closed \/ HalfGone(i)

ActiveOpen == segments # <<>> => Active.base \in DOMAIN logs \ closed

ClosedListed ==
  /\ \A b \in closed : \E i \in DOMAIN segments : segments[i].base = b
  /\ passed \subseteq closed
  /\ pc \in {"down", "load"} => closed = {}
  /\ pc \notin {"clean", "unlink"} => passed = {}

\* What each point of the code knows of the operation in progress.
FaultsControl ==
  /\ ~ doomed /\ pc # "removing"
  /\ pc = "down" => segments = <<>>
  /\ pc \in {"clean", "unlink", "append", "idle"} => segments # <<>>
  /\ pc \in {"down", "load", "idle"} => pending = <<>>
  /\ pc = "append" => pending # <<>>
  /\ pc \in {"index", "log"} =>
       IF pending = <<>> THEN segments = <<>>
       ELSE segments # <<>> /\ IsFull /\ logs[Active.base].msgs # <<>>
  /\ pc = "unlink" =>
       \E i \in DOMAIN segments : Current(i) /\ segments[i].base \notin DOMAIN logs

OrderInv ==
  /\ TypeOK /\ FilesInOrder
  /\ Chained /\ SegmentsKnow /\ SegmentsCover /\ ActiveOpen
  /\ ClosedListed /\ FaultsControl

-----------------------------------------------------------------------------
\* The total never understates the files; the bytes of a segment being removed
\* are still in it.
TotalCovers ==
  /\ segments = <<>> => physicalSize = 0
  /\ pc = "load" => physicalSize = SumFunctionOnSet(FileSize, Loaded)
  /\ pc \notin {"down", "load", "unlink"} => physicalSize >= DiskBytes
  /\ \A i \in DOMAIN segments :
       HalfGone(i) => physicalSize >= DiskBytes + segments[i].size

\* The files of the open segments, the active one aside.
Spared == (DOMAIN logs \ closed) \ {Active.base}

OpenBounded ==
  MaxPartitionSize # 0 /\ pc \in {"idle", "append", "index", "log"} /\ segments # <<>> =>
    SumFunctionOnSet(FileSize, Spared) <= MaxPartitionSize

BytesInv ==
  /\ OrderInv /\ IsFiniteSet(DOMAIN logs)
  /\ TotalCovers /\ FilesBounded /\ OpenBounded /\ RoomSound

-----------------------------------------------------------------------------
(* The list of segments                                                    *)

USE DEF Points

\* Taking any element away, as cleanOldSegments does when it goes on after a
\* removal that failed.
LEMMA RemovingAt ==
  ASSUME NEW S, NEW s \in Seq(S), NEW i \in 1 .. Len(s)
  PROVE  /\ RemoveAt(s, i) \in Seq(S)
         /\ Len(RemoveAt(s, i)) = Len(s) - 1
         /\ \A j \in 1 .. Len(s) - 1 :
              RemoveAt(s, i)[j] = IF j < i THEN s[j] ELSE s[j + 1]
<1>. DEFINE a == SubSeq(s, 1, i - 1)
            b == SubSeq(s, i + 1, Len(s))
            r == a \o b
<1>1. a \in Seq(S) /\ Len(a) = i - 1
  OBVIOUS
<1>2. \A j \in 1 .. i - 1 : a[j] = s[j]
  OBVIOUS
<1>3. b \in Seq(S) /\ Len(b) = Len(s) - i
  OBVIOUS
<1>4. \A j \in 1 .. Len(s) - i : b[j] = s[j + i]
  OBVIOUS
<1>. HIDE DEF a, b
<1>5. r \in Seq(S) /\ Len(r) = Len(a) + Len(b)
  BY <1>1, <1>3
<1>6. \A j \in 1 .. Len(a) : r[j] = a[j]
  BY <1>1, <1>3
<1>7. \A j \in Len(a) + 1 .. Len(a) + Len(b) : r[j] = b[j - Len(a)]
  BY <1>1, <1>3
<1>8. RemoveAt(s, i) = r
  BY DEF RemoveAt, a, b
<1>. HIDE DEF r
<1>9. Len(s) \in Nat /\ i \in Nat
  OBVIOUS
<1>10. Len(r) = Len(s) - 1
  BY <1>1, <1>3, <1>5, <1>9
<1>11. ASSUME NEW j \in 1 .. Len(s) - 1
      PROVE  r[j] = IF j < i THEN s[j] ELSE s[j + 1]
  <2>1. CASE j < i
    BY <1>1, <1>2, <1>6, <2>1
  <2>2. CASE j >= i
    <3>1. r[j] = b[j - Len(a)]
      BY <1>1, <1>3, <1>7, <1>9, <2>2
    <3>2. PICK k \in 1 .. Len(s) - i : k = j - Len(a) /\ k + i = j + 1
      BY <1>1, <1>9, <2>2
    <3>3. b[k] = s[k + i]
      BY <1>4
    <3>. QED BY <2>2, <3>1, <3>2, <3>3
  <2>. QED BY <2>1, <2>2
<1>. QED BY <1>5, <1>8, <1>10, <1>11

LEMMA ListOf ==
  ASSUME TypeOK
  PROVE  /\ Len(segments) \in Nat
         /\ DOMAIN segments = 1 .. Len(segments)
         /\ segments = <<>> <=> Len(segments) = 0
         /\ segments # <<>> => Active = segments[Len(segments)]
<1>1. segments \in Seq(SegmentObject)
  BY DEF TypeOK
<1>. QED BY <1>1 DEF Active, Last

\* The segment a pass is at is one, and not the active one.
LEMMA CurrentIsOne ==
  ASSUME TypeOK, NEW i \in DOMAIN segments, Current(i)
  PROVE  /\ i \in 1 .. Len(segments) - 1
         /\ \A j \in DOMAIN segments : Current(j) => j = i
<1>1. i \in 1 .. Len(segments) /\ i # Len(segments) /\ Len(segments) \in Nat
  BY ListOf DEF Current, Victim
<1>2. ASSUME NEW j \in DOMAIN segments, Current(j) PROVE j = i
  <2>1. j \in 1 .. Len(segments)
    BY ListOf
  <2>2. ~ (j < i)
    BY <1>1, <1>2, <2>1 DEF Current
  <2>3. ~ (i < j)
    BY <1>1, <1>2, <2>1 DEF Current
  <2>. QED BY <1>1, <2>1, <2>2, <2>3
<1>. QED BY <1>1, <1>2

-----------------------------------------------------------------------------
(* Steps that leave the log files and the list alone                       *)

LEMMA QuietOrder ==
  ASSUME OrderInv, UNCHANGED <<logs, segments, closed>>, pc # "unlink", pc' # "unlink"
  PROVE  FilesInOrder' /\ Chained' /\ SegmentsKnow' /\ ActiveOpen'
<1>1. FilesInOrder' /\ Chained'
  BY DEF OrderInv, FilesInOrder, FilesApart, EndOf, Chained
<1>2. SegmentsKnow'
  BY DEF OrderInv, SegmentsKnow, HalfGone, EndOf
<1>3. ActiveOpen'
  BY DEF OrderInv, ActiveOpen, Active
<1>. QED BY <1>1, <1>2, <1>3

\* Only from a write to a write that rolls over does the empty file of an open that
\* failed stay unlisted.
LEMMA QuietCover ==
  ASSUME OrderInv, UNCHANGED <<logs, segments>>, pc \notin {"down", "removing"},
         \/ pc' = pc
         \/ pc \in {"clean", "unlink", "append"}
         \/ {pc, pc'} \subseteq {"idle", "index", "log"}
         \/ pc' \in {"down", "removing"}
  PROVE  SegmentsCover'
<1>. SUFFICES ASSUME pc' \notin {"down", "removing"}, NEW b \in DOMAIN logs
              PROVE  \/ \E i \in DOMAIN segments : segments[i].base = b
                     \/ pc' = "load" /\ \A i \in DOMAIN segments : segments[i].base < b
                     \/ Leftover(b)'
  BY DEF SegmentsCover
<1>1. \/ \E i \in DOMAIN segments : segments[i].base = b
      \/ pc = "load" /\ \A i \in DOMAIN segments : segments[i].base < b
      \/ Leftover(b)
  BY DEF OrderInv, SegmentsCover
<1>2. CASE \E i \in DOMAIN segments : segments[i].base = b
  BY <1>2
<1>3. CASE pc = "load" /\ \A i \in DOMAIN segments : segments[i].base < b
  BY <1>3
<1>4. CASE Leftover(b)
  <2>1. pc \in {"idle", "index", "log"} /\ pc' \in {"idle", "index", "log"}
    BY <1>4 DEF Leftover
  <2>2. NewBase' = NewBase /\ IsFull' = IsFull
    BY DEF NewBase, IsFull, Active
  <2>. QED BY <1>4, <2>1, <2>2 DEF Leftover
<1>. QED BY <1>1, <1>2, <1>3, <1>4

LEMMA OrderInit == InitFaults => OrderInv
<1>. SUFFICES ASSUME InitFaults PROVE OrderInv
  OBVIOUS
<1>1. IndInv /\ closed = {} /\ passed = {} /\ segments = <<>> /\ pc = "down"
      /\ DOMAIN logs = {} /\ ~ doomed /\ pending = <<>>
  BY InitEstablishes DEF InitFaults, Init
<1>2. TypeOK /\ FilesInOrder /\ Chained
  BY <1>1 DEF IndInv, FilesInOrder, FilesApart, Chained
<1>3. SegmentsKnow /\ SegmentsCover /\ ActiveOpen /\ ClosedListed
  BY <1>1 DEF SegmentsKnow, SegmentsCover, ActiveOpen, ClosedListed
<1>4. FaultsControl
  BY <1>1 DEF FaultsControl
<1>. QED BY <1>2, <1>3, <1>4 DEF OrderInv

LEMMA OrderOpen == ASSUME OrderInv, Open, UNCHANGED extra PROVE OrderInv'
<1>1. /\ pc = "down" /\ pc' = "load"
      /\ UNCHANGED <<logs, indexes, clock, doomed, segments, physicalSize, pending,
                     closed, passed>>
  BY DEF Open, disk, extra
<1>2. TypeOK'
  BY <1>1 DEF OrderInv, TypeOK
<1>3. SegmentsCover' /\ ClosedListed'
  BY <1>1 DEF OrderInv, SegmentsCover, ClosedListed, FaultsControl
<1>4. FaultsControl'
  BY <1>1 DEF OrderInv, FaultsControl
<1>. QED BY <1>1, <1>2, <1>3, <1>4, QuietOrder DEF OrderInv

LEMMA OrderLoadDone == ASSUME OrderInv, LoadDone, UNCHANGED extra PROVE OrderInv'
<1>1. /\ pc = "load" /\ NotLoaded = {} /\ pc' = IF segments = <<>> THEN "index" ELSE "clean"
      /\ UNCHANGED <<logs, indexes, clock, doomed, segments, physicalSize, pending,
                     closed, passed>>
  BY DEF LoadDone, disk, extra
<1>2. TypeOK'
  BY <1>1 DEF OrderInv, TypeOK
<1>3. SegmentsCover'
  BY <1>1 DEF OrderInv, SegmentsCover, NotLoaded
<1>4. ClosedListed' /\ FaultsControl'
  BY <1>1 DEF OrderInv, ClosedListed, FaultsControl
<1>. QED BY <1>1, <1>2, <1>3, <1>4, QuietOrder DEF OrderInv

LEMMA OrderMakeIndex == ASSUME OrderInv, MakeIndex, UNCHANGED extra PROVE OrderInv'
<1>1. /\ pc = "index" /\ pc' = "log" /\ indexes' = indexes \cup {NewBase}
      /\ UNCHANGED <<logs, clock, doomed, segments, physicalSize, pending,
                     closed, passed>>
  BY DEF MakeIndex, extra
<1>2. NewBase \in Nat
  BY ListOf, SegmentTypes DEF OrderInv, NewBase
<1>3. TypeOK'
  BY <1>1, <1>2 DEF OrderInv, TypeOK
<1>4. SegmentsCover'
  BY <1>1, QuietCover
<1>5. ClosedListed' /\ FaultsControl'
  BY <1>1 DEF OrderInv, ClosedListed, FaultsControl, Active, IsFull
<1>. QED BY <1>1, <1>3, <1>4, <1>5, QuietOrder DEF OrderInv

LEMMA OrderTick == ASSUME OrderInv, Tick, UNCHANGED extra PROVE OrderInv'
<1>1. /\ pc \notin {"clean", "unlink"} /\ clock' = clock + 1
      /\ UNCHANGED <<logs, indexes, doomed, pc, segments, physicalSize, pending,
                     closed, passed>>
  BY DEF Tick, memory, extra
<1>2. TypeOK'
  BY <1>1 DEF OrderInv, TypeOK
<1>3. SegmentsCover'
  <2>1. pc \in {"down", "removing"} => SegmentsCover'
    BY <1>1 DEF SegmentsCover
  <2>. QED BY <1>1, <2>1, QuietCover
<1>4. ClosedListed' /\ FaultsControl'
  BY <1>1 DEF OrderInv, ClosedListed, FaultsControl, Active, IsFull
<1>. QED BY <1>1, <1>2, <1>3, <1>4, QuietOrder DEF OrderInv

LEMMA OrderClockBack == ASSUME OrderInv, ClockBack PROVE OrderInv'
<1>1. /\ pc \notin {"clean", "unlink"} /\ clock' \in 0 .. clock - 1
      /\ UNCHANGED <<logs, indexes, doomed, pc, segments, physicalSize, pending,
                     closed, passed>>
  BY DEF ClockBack, memory
<1>2. TypeOK'
  BY <1>1 DEF OrderInv, TypeOK
<1>3. SegmentsCover'
  <2>1. pc \in {"down", "removing"} => SegmentsCover'
    BY <1>1 DEF SegmentsCover
  <2>. QED BY <1>1, <2>1, QuietCover
<1>4. ClosedListed' /\ FaultsControl'
  BY <1>1 DEF OrderInv, ClosedListed, FaultsControl, Active, IsFull
<1>. QED BY <1>1, <1>2, <1>3, <1>4, QuietOrder DEF OrderInv

LEMMA OrderPassDone == ASSUME OrderInv, PassDone PROVE OrderInv'
<1>1. /\ pc = "clean" /\ pc' = IF pending = <<>> THEN "idle" ELSE "append"
      /\ passed' = {}
      /\ UNCHANGED <<logs, indexes, clock, doomed, segments, physicalSize, pending, closed>>
  BY DEF PassDone, disk
<1>2. TypeOK'
  BY <1>1 DEF OrderInv, TypeOK
<1>3. SegmentsCover'
  BY <1>1, QuietCover
<1>4. ClosedListed' /\ FaultsControl'
  BY <1>1 DEF OrderInv, ClosedListed, FaultsControl
<1>. QED BY <1>1, <1>2, <1>3, <1>4, QuietOrder DEF OrderInv

\* A write rolls over only a segment that has a record.
LEMMA OrderWrite ==
  ASSUME OrderInv, NEW p \in Payload, Write(p), UNCHANGED extra PROVE OrderInv'
<1>1. /\ pc = "idle" /\ pc' = (IF IsFull THEN "index" ELSE "append") /\ pending' = <<p>>
      /\ UNCHANGED <<logs, indexes, clock, doomed, segments, physicalSize, closed, passed>>
  BY DEF Write, disk, extra
<1>2. TypeOK'
  BY <1>1 DEF OrderInv, TypeOK
<1>3. SegmentsCover' /\ ClosedListed'
  <2>1. SegmentsCover'
    <3>1. CASE IsFull
      BY <1>1, <3>1, QuietCover
    <3>2. CASE ~ IsFull
      BY <1>1, <3>2 DEF OrderInv, SegmentsCover, Leftover
    <3>. QED BY <3>1, <3>2
  <2>. QED BY <1>1, <2>1 DEF OrderInv, ClosedListed
<1>4. segments # <<>> /\ Active.base \in DOMAIN logs \ closed
  BY <1>1 DEF OrderInv, FaultsControl, ActiveOpen
<1>5. Active.size = logs[Active.base].bytes
  BY <1>4, ListOf DEF OrderInv, SegmentsKnow
<1>6. IsFull => logs[Active.base].msgs # <<>>
  BY <1>4, <1>5, LimitsNat DEF OrderInv, FilesInOrder, IsFull
<1>7. FaultsControl'
  BY <1>1, <1>4, <1>6 DEF OrderInv, FaultsControl, Active, IsFull
<1>. QED BY <1>1, <1>2, <1>3, <1>7, QuietOrder DEF OrderInv

-----------------------------------------------------------------------------
(* The end of the object                                                   *)

LEMMA OrderLost ==
  ASSUME OrderInv, LoseMemory, pc' = "down", closed' = {}, passed' = {}, UNCHANGED disk
  PROVE  OrderInv'
<1>1. /\ segments' = <<>> /\ physicalSize' = 0 /\ pending' = <<>>
      /\ UNCHANGED <<logs, indexes, clock, doomed>>
  BY DEF LoseMemory, disk
<1>2. TypeOK'
  BY <1>1 DEF OrderInv, TypeOK
<1>3. DOMAIN segments' = {}
  BY <1>1
<1>4. FilesInOrder' /\ Chained' /\ SegmentsKnow'
  BY <1>1, <1>3 DEF OrderInv, FilesInOrder, FilesApart, EndOf, Chained, SegmentsKnow
<1>5. SegmentsCover' /\ ActiveOpen' /\ ClosedListed'
  BY <1>1 DEF OrderInv, SegmentsCover, ActiveOpen, ClosedListed
<1>6. FaultsControl'
  BY <1>1 DEF OrderInv, FaultsControl
<1>. QED BY <1>2, <1>4, <1>5, <1>6 DEF OrderInv

LEMMA OrderStop == ASSUME OrderInv, Stop PROVE OrderInv'
BY OrderLost DEF Stop, Close, Crash

LEMMA OrderReadClosed ==
  ASSUME OrderInv, NEW o \in 0 .. MaxOffset, ReadClosed(o) PROVE OrderInv'
<1>1. passed' = {}
  BY DEF ReadClosed, OrderInv, ClosedListed
<1>. QED BY <1>1, OrderLost DEF ReadClosed

-----------------------------------------------------------------------------
(* Segments opened and created                                             *)

\* What a segment put at the end of the list must be.
LEMMA OneMore ==
  ASSUME OrderInv, TypeOK', FilesInOrder',
         pc' # "unlink", pc # "unlink", closed' = closed,
         NEW e \in SegmentObject, segments' = Append(segments, e),
         e.base \in DOMAIN logs' \ closed,
         e.next = EndOf(e.base)', e.size = logs'[e.base].bytes,
         \A i \in DOMAIN segments :
           segments[i].base < e.base /\ segments[i].next <= e.base,
         \A b \in DOMAIN logs :
           b \in DOMAIN logs' /\ EndOf(b)' = EndOf(b) /\ logs'[b].bytes = logs[b].bytes,
         \A b \in DOMAIN logs' \ DOMAIN logs : b = e.base
  PROVE  Chained' /\ SegmentsKnow' /\ ActiveOpen'
<1>. DEFINE n == Len(segments)
<1>1. n \in Nat /\ DOMAIN segments = 1 .. n
  BY ListOf DEF OrderInv
<1>2. /\ DOMAIN segments' = 1 .. n + 1 /\ segments'[n + 1] = e /\ segments' # <<>>
      /\ \A i \in 1 .. n : segments'[i] = segments[i]
      /\ Last(segments') = e
  <2>1. segments \in Seq(SegmentObject)
    BY DEF OrderInv, TypeOK
  <2>. QED BY <2>1, Appending DEF Last
<1>3. Chained'
  <2>. SUFFICES ASSUME NEW i \in 1 .. n + 1, NEW j \in 1 .. n + 1, i < j
                PROVE  /\ segments'[i].base < segments'[j].base
                       /\ segments'[i].next <= segments'[j].base
    BY <1>2 DEF Chained
  <2>1. i \in 1 .. n
    BY <1>1
  <2>2. CASE j = n + 1
    BY <1>1, <1>2, <2>1, <2>2
  <2>3. CASE j \in 1 .. n
    BY <1>1, <1>2, <2>1, <2>3 DEF OrderInv, Chained
  <2>. QED BY <1>1, <2>2, <2>3
<1>4. SegmentsKnow'
  <2>. SUFFICES ASSUME NEW i \in 1 .. n + 1
                PROVE  LET s == segments'[i]
                       IN /\ s.base \in DOMAIN logs' =>
                               s.next = s.base + Len(logs'[s.base].msgs)
                          /\ s.base \in closed => s.size = 0
                          /\ s.base \in DOMAIN logs' \ closed =>
                               s.size = logs'[s.base].bytes
                          /\ s.base \in DOMAIN logs' \cup closed
    BY <1>2 DEF SegmentsKnow, EndOf
  <2>1. CASE i = n + 1
    <3>1. e.next = e.base + Len(logs'[e.base].msgs)
      BY DEF EndOf
    <3>. QED BY <1>2, <2>1, <3>1
  <2>2. CASE i \in 1 .. n
    <3>1. segments'[i] = segments[i]
      BY <1>2, <2>2
    <3>2. PICK b : b = segments[i].base
      OBVIOUS
    <3>3. b # e.base
      <4>1. b \in Nat /\ e.base \in Nat
        BY <2>2, <3>2, SegmentTypes DEF OrderInv, SegmentObject
      <4>. QED BY <1>1, <2>2, <3>2, <4>1
    <3>4. b \in DOMAIN logs' <=> b \in DOMAIN logs
      BY <3>3
    <3>5. /\ b \in DOMAIN logs => segments[i].next = EndOf(b)
          /\ b \in closed => segments[i].size = 0
          /\ b \in DOMAIN logs \ closed => segments[i].size = logs[b].bytes
          /\ b \in DOMAIN logs \cup closed
      BY <1>1, <2>2, <3>2 DEF OrderInv, SegmentsKnow, HalfGone
    <3>6. b \in DOMAIN logs => EndOf(b) = b + Len(logs'[b].msgs)
      BY DEF EndOf
    <3>. QED BY <3>1, <3>2, <3>4, <3>5, <3>6
  <2>. QED BY <1>1, <2>1, <2>2
<1>5. ActiveOpen'
  BY <1>2 DEF ActiveOpen, Active
<1>. QED BY <1>3, <1>4, <1>5

LEMMA OrderLoadSegment == ASSUME OrderInv, LoadSegment, UNCHANGED extra PROVE OrderInv'
<1>. PICK b \in NotLoaded :
       /\ \A c \in NotLoaded : b <= c
       /\ segments' = Append(segments, OpenedSegment(b))
       /\ physicalSize' = physicalSize + logs[b].bytes
       /\ indexes' = indexes \cup {b}
  BY DEF LoadSegment
<1>1. /\ pc = "load" /\ pc' = "load"
      /\ UNCHANGED <<logs, clock, doomed, pending, closed, passed>>
  BY DEF LoadSegment, extra
<1>2. TypeOK /\ b \in DOMAIN logs /\ \A i \in DOMAIN segments : segments[i].base # b
  BY DEF OrderInv, NotLoaded
<1>3. /\ b \in Nat /\ EndOf(b) \in Nat /\ logs[b].bytes \in Nat /\ logs[b].mtime \in Nat
      /\ segments \in Seq(SegmentObject)
  BY <1>2, FileTypes DEF TypeOK
<1>4. PICK e \in SegmentObject :
        /\ e = OpenedSegment(b) /\ e.base = b /\ e.next = EndOf(b)
        /\ e.size = logs[b].bytes
  BY <1>3 DEF OpenedSegment, SegmentObject
<1>5. TypeOK'
  <2>1. segments' \in Seq(SegmentObject)
    BY <1>3, <1>4
  <2>2. physicalSize' \in Int
    BY <1>2, <1>3 DEF TypeOK
  <2>. QED BY <1>1, <1>2, <1>3, <2>1, <2>2 DEF TypeOK
<1>6. FilesInOrder' /\ closed = {}
  BY <1>1 DEF OrderInv, FilesInOrder, FilesApart, EndOf, ClosedListed
<1>7. ASSUME NEW i \in DOMAIN segments
      PROVE  segments[i].base < b /\ segments[i].next <= b
  <2>1. segments[i].base < b
    BY <1>1, <1>2 DEF OrderInv, SegmentsCover, Leftover
  <2>2. segments[i].base \in DOMAIN logs /\ segments[i].next = EndOf(segments[i].base)
    BY <1>1, <1>6 DEF OrderInv, SegmentsKnow, HalfGone
  <2>. QED BY <1>2, <2>1, <2>2 DEF OrderInv, FilesInOrder, FilesApart
<1>8. Chained' /\ SegmentsKnow' /\ ActiveOpen'
  <2>1. \A c \in DOMAIN logs : EndOf(c)' = EndOf(c)
    BY <1>1 DEF EndOf
  <2>. QED BY <1>1, <1>2, <1>4, <1>5, <1>6, <1>7, <2>1, OneMore
<1>9. SegmentsCover'
  <2>. DEFINE n == Len(segments)
  <2>1. /\ n \in Nat /\ DOMAIN segments = 1 .. n /\ DOMAIN segments' = 1 .. n + 1
        /\ segments'[n + 1] = e /\ \A i \in 1 .. n : segments'[i] = segments[i]
    BY <1>2, <1>3, <1>4, ListOf
  <2>. SUFFICES ASSUME NEW c \in DOMAIN logs, \A i \in DOMAIN segments' : segments'[i].base # c
                PROVE  \A i \in DOMAIN segments' : segments'[i].base < c
    BY <1>1 DEF SegmentsCover
  <2>2. c # b /\ \A i \in DOMAIN segments : segments[i].base # c
    BY <1>4, <2>1
  <2>3. b < c
    <3>1. b <= c /\ c \in Nat
      BY <1>2, <2>2, FileTypes DEF NotLoaded
    <3>. QED BY <1>3, <2>2, <3>1
  <2>4. \A i \in DOMAIN segments : segments[i].base < c
    BY <1>1, <2>2 DEF OrderInv, SegmentsCover, Leftover
  <2>. QED BY <1>4, <2>1, <2>3, <2>4
<1>10. ClosedListed' /\ FaultsControl'
  BY <1>1, <1>6 DEF OrderInv, ClosedListed, FaultsControl
<1>. QED BY <1>5, <1>6, <1>8, <1>9, <1>10 DEF OrderInv

\* The file of a rollover begins after every other, if it is not there already, empty.
LEMMA NewBaseIsNew ==
  ASSUME OrderInv, pc \in {"index", "log"}
  PROVE  /\ NewBase \in Nat /\ NewBase \notin closed
         /\ \A b \in DOMAIN logs :
              IF b = NewBase THEN logs[b].msgs = <<>> ELSE b < NewBase /\ EndOf(b) <= NewBase
         /\ \A i \in DOMAIN segments :
              segments[i].base < NewBase /\ segments[i].next <= NewBase
<1>1. CASE segments = <<>>
  <2>1. DOMAIN segments = {}
    BY <1>1
  <2>2. DOMAIN logs = {} /\ closed = {}
    BY <1>1, <2>1 DEF OrderInv, SegmentsCover, ClosedListed, Leftover
  <2>. QED BY <1>1, <2>1, <2>2 DEF NewBase
<1>2. CASE segments # <<>>
  <2>. DEFINE n == Len(segments)
  <2>1. /\ TypeOK /\ n \in Nat \ {0} /\ DOMAIN segments = 1 .. n /\ n \in DOMAIN segments
        /\ Active = segments[n] /\ NewBase = segments[n].next
    BY <1>2, ListOf DEF OrderInv, NewBase
  <2>2. logs[Active.base].msgs # <<>> /\ Active.base \in DOMAIN logs
    BY <1>2 DEF OrderInv, FaultsControl, ActiveOpen
  <2>3. /\ NewBase = EndOf(Active.base) /\ Active.base < NewBase
        /\ NewBase \in Nat /\ Active.base \in Nat
    BY <2>1, <2>2, FileTypes DEF OrderInv, SegmentsKnow
  <2>4. ASSUME NEW i \in DOMAIN segments
        PROVE  segments[i].base < NewBase /\ segments[i].next <= NewBase
    <3>1. i = n \/ i < n
      BY <2>1
    <3>2. segments[i].base \in Nat /\ segments[i].next \in Nat
      BY <2>1, SegmentTypes
    <3>3. CASE i < n
      <4>1. segments[i].base < Active.base /\ segments[i].next <= Active.base
        BY <2>1, <3>3 DEF OrderInv, Chained
      <4>. QED BY <2>3, <3>2, <4>1
    <3>4. CASE i = n
      <4>1. segments[i] = Active /\ segments[i].next = NewBase
        BY <2>1, <3>4
      <4>. QED BY <2>3, <4>1
    <3>. QED BY <3>1, <3>3, <3>4
  <2>5. ASSUME NEW b \in DOMAIN logs
        PROVE  IF b = NewBase THEN logs[b].msgs = <<>> ELSE b < NewBase /\ EndOf(b) <= NewBase
    <3>1. CASE Leftover(b)
      BY <3>1 DEF Leftover
    <3>2. CASE ~ Leftover(b)
      <4>1. PICK i \in DOMAIN segments : segments[i].base = b
        BY <3>2 DEF OrderInv, SegmentsCover
      <4>2. segments[i].next = EndOf(b)
        BY <4>1 DEF OrderInv, SegmentsKnow
      <4>3. b < NewBase /\ EndOf(b) <= NewBase
        BY <2>4, <4>1, <4>2
      <4>4. b # NewBase
        BY <2>3, <4>3
      <4>. QED BY <4>3, <4>4
    <3>. QED BY <3>1, <3>2
  <2>6. NewBase \notin closed
    BY <2>3, <2>4 DEF OrderInv, ClosedListed
  <2>. QED BY <2>3, <2>4, <2>5, <2>6
<1>. QED BY <1>1, <1>2

\* The files once that of a rollover has been opened, created or found.
LEMMA NewFileOrder ==
  ASSUME OrderInv, pc = "log", logs' = WithLog(NewBase, NewFile),
         NEW b, b = NewBase, NEW f, f = NewFile
  PROVE  /\ b \in Nat /\ b \notin closed
         /\ f \in File /\ f.msgs = <<>> /\ f.bytes = 0 /\ f.mtime \in Nat
         /\ DOMAIN logs' = DOMAIN logs \cup {b} /\ logs'[b] = f
         /\ \A c \in DOMAIN logs : logs'[c] = logs[c] /\ EndOf(c)' = EndOf(c) /\ c <= b
         /\ EndOf(b)' = b
         /\ DOMAIN logs' \subseteq Nat /\ logs' \in [DOMAIN logs' -> File]
         /\ FilesInOrder'
<1>1. logs' = WithLog(b, f)
  OBVIOUS
<1>2. /\ b \in Nat /\ b \notin closed
      /\ \A c \in DOMAIN logs :
           IF c = b THEN logs[c].msgs = <<>> ELSE c < b /\ EndOf(c) <= b
  BY NewBaseIsNew
<1>3. TypeOK /\ clock \in Nat /\ <<>> \in Seq(Payload)
  BY DEF OrderInv, TypeOK
<1>4. f \in File /\ f.msgs = <<>> /\ f.bytes = 0 /\ f.mtime \in Nat
  <2>1. CASE b \in DOMAIN logs
    <3>1. f = logs[b]
      BY <2>1 DEF NewFile
    <3>. QED BY <1>2, <1>3, <2>1, <3>1, FileTypes DEF OrderInv, FilesInOrder
  <2>2. CASE b \notin DOMAIN logs
    <3>1. f = [msgs |-> <<>>, bytes |-> 0, mtime |-> clock]
      BY <2>2 DEF NewFile
    <3>. QED BY <1>3, <3>1 DEF File
  <2>. QED BY <2>1, <2>2
<1>5. \A c \in DOMAIN logs : c = b => logs[c] = f
  BY DEF NewFile
<1>6. /\ DOMAIN logs' = DOMAIN logs \cup {b} /\ logs'[b] = f
      /\ \A c \in DOMAIN logs : c \in Nat /\ c <= b /\ logs'[c] = logs[c]
  BY <1>1, <1>2, <1>3, <1>5, FileTypes DEF WithLog
<1>7. EndOf(b)' = b /\ \A c \in DOMAIN logs : EndOf(c)' = EndOf(c)
  BY <1>2, <1>4, <1>6 DEF EndOf
<1>8. DOMAIN logs' \subseteq Nat /\ logs' \in [DOMAIN logs' -> File]
  <2>1. \A c \in DOMAIN logs' : c \in Nat /\ logs'[c] \in File
    BY <1>2, <1>3, <1>4, <1>6 DEF TypeOK
  <2>2. logs' = [c \in DOMAIN logs' |-> logs'[c]]
    BY <1>1 DEF WithLog
  <2>. QED BY <2>1, <2>2
<1>9. FilesInOrder'
  <2>1. ASSUME NEW c \in DOMAIN logs', NEW d \in DOMAIN logs', c < d
        PROVE  EndOf(c)' <= d
    <3>1. CASE c = b
      BY <1>2, <1>6, <2>1, <3>1
    <3>2. CASE c # b /\ d = b
      BY <1>2, <1>6, <1>7, <3>2
    <3>3. CASE c # b /\ d # b
      BY <1>6, <1>7, <2>1, <3>3 DEF OrderInv, FilesInOrder, FilesApart
    <3>. QED BY <3>1, <3>2, <3>3
  <2>2. FilesApart'
    BY <2>1 DEF FilesApart
  <2>3. \A c \in DOMAIN logs' : logs'[c].msgs = <<>> => logs'[c].bytes = 0
    BY <1>4, <1>6 DEF OrderInv, FilesInOrder
  <2>. QED BY <2>2, <2>3 DEF FilesInOrder
<1>. QED BY <1>2, <1>4, <1>6, <1>7, <1>8, <1>9

LEMMA OrderMakeLog == ASSUME OrderInv, MakeLog, UNCHANGED extra PROVE OrderInv'
<1>. PICK b : b = NewBase
  OBVIOUS
<1>. PICK file : file = NewFile
  OBVIOUS
<1>. PICK e : e = [base |-> b, next |-> b + Len(file.msgs), size |-> file.bytes,
                   mtime |-> file.mtime]
  OBVIOUS
<1>0. pc = "log" /\ logs' = WithLog(NewBase, NewFile)
  BY DEF MakeLog
<1>1. /\ pc = "log" /\ pc' \in {"append", "clean"}
      /\ pc' = "append" => pending # <<>>
      /\ segments' = Append(segments, e)
      /\ UNCHANGED <<indexes, clock, doomed, physicalSize, pending, closed, passed>>
  BY DEF MakeLog, extra
<1>2. /\ b \in Nat /\ b \notin closed
      /\ \A i \in DOMAIN segments : segments[i].base < b /\ segments[i].next <= b
  BY <1>0, NewBaseIsNew
<1>3. TypeOK /\ clock \in Nat /\ segments \in Seq(SegmentObject)
  BY DEF OrderInv, TypeOK
<1>4. /\ file \in File /\ file.msgs = <<>> /\ file.bytes = 0 /\ file.mtime \in Nat
      /\ DOMAIN logs' \subseteq Nat /\ logs' \in [DOMAIN logs' -> File]
      /\ FilesInOrder'
  BY <1>0, NewFileOrder
<1>5. e \in SegmentObject /\ e.base = b /\ e.next = b /\ e.size = 0
  <2>1. Len(file.msgs) = 0 /\ b + 0 = b
    BY <1>2, <1>4
  <2>. QED BY <1>2, <1>4, <2>1 DEF SegmentObject
<1>6. /\ DOMAIN logs' = DOMAIN logs \cup {b} /\ logs'[b] = file
      /\ \A c \in DOMAIN logs : logs'[c] = logs[c]
  BY <1>0, NewFileOrder
<1>7. /\ EndOf(b)' = b
      /\ \A c \in DOMAIN logs : EndOf(c)' = EndOf(c)
  BY <1>0, NewFileOrder
<1>8. TypeOK'
  <2>2. segments' \in Seq(SegmentObject)
    BY <1>1, <1>3, <1>5
  <2>. QED BY <1>1, <1>3, <1>4, <2>2 DEF TypeOK
<1>9. FilesInOrder'
  BY <1>4
<1>10. Chained' /\ SegmentsKnow' /\ ActiveOpen'
  BY <1>1, <1>2, <1>4, <1>5, <1>6, <1>7, <1>8, <1>9, OneMore
<1>11. /\ Len(segments) \in Nat /\ DOMAIN segments = 1 .. Len(segments)
       /\ DOMAIN segments' = 1 .. Len(segments) + 1 /\ segments' # <<>>
       /\ segments'[Len(segments) + 1] = e
       /\ \A i \in 1 .. Len(segments) : segments'[i] = segments[i]
  BY <1>1, <1>3, <1>5, ListOf, Appending
<1>12. ASSUME NEW c, \E i \in DOMAIN segments : segments[i].base = c
       PROVE  \E i \in DOMAIN segments' : segments'[i].base = c
  BY <1>11, <1>12
<1>13. SegmentsCover'
  <2>1. ASSUME NEW c \in DOMAIN logs PROVE c = b \/ \E i \in DOMAIN segments : segments[i].base = c
    BY <1>1 DEF OrderInv, SegmentsCover, Leftover
  <2>. QED BY <1>5, <1>6, <1>11, <1>12, <2>1 DEF SegmentsCover
<1>14. ClosedListed'
  BY <1>1, <1>12 DEF OrderInv, ClosedListed
<1>15. FaultsControl'
  BY <1>1, <1>11 DEF OrderInv, FaultsControl
<1>. QED BY <1>8, <1>9, <1>10, <1>13, <1>14, <1>15 DEF OrderInv

\* An open that fails leaves the files as they were or one more, empty.
LEMMA OrderCreateFails == ASSUME OrderInv, CreateFails, UNCHANGED extra PROVE OrderInv'
<1>1. /\ pc \in {"index", "log"} /\ pc' = IF pending = <<>> THEN "down" ELSE "idle"
      /\ pending' = <<>>
      /\ UNCHANGED <<indexes, clock, doomed, segments, physicalSize, closed, passed>>
  BY DEF CreateFails, extra
<1>2. pending = <<>> => segments = <<>> /\ closed = {}
  <2>1. pending = <<>> => segments = <<>>
    BY <1>1 DEF OrderInv, FaultsControl
  <2>2. segments = <<>> => closed = {}
    BY DEF OrderInv, ClosedListed
  <2>. QED BY <2>1, <2>2
<1>3. ClosedListed'
  BY <1>1, <1>2 DEF OrderInv, ClosedListed
<1>4. FaultsControl'
  BY <1>1, <1>2 DEF OrderInv, FaultsControl
<1>5. CASE UNCHANGED logs
  <2>1. TypeOK'
    BY <1>1, <1>5 DEF OrderInv, TypeOK
  <2>2. SegmentsCover'
    BY <1>1, <1>5, QuietCover
  <2>. QED BY <1>1, <1>3, <1>4, <1>5, <2>1, <2>2, QuietOrder DEF OrderInv
<1>6. CASE pc = "log" /\ logs' = WithLog(NewBase, NewFile)
  <2>. PICK b : b = NewBase
    OBVIOUS
  <2>. PICK file : file = NewFile
    OBVIOUS
  <2>1. /\ b \in Nat /\ file.msgs = <<>>
        /\ DOMAIN logs' = DOMAIN logs \cup {b} /\ logs'[b] = file
        /\ \A c \in DOMAIN logs : logs'[c] = logs[c] /\ EndOf(c)' = EndOf(c)
        /\ EndOf(b)' = b
        /\ DOMAIN logs' \subseteq Nat /\ logs' \in [DOMAIN logs' -> File]
        /\ FilesInOrder'
    BY <1>6, NewFileOrder
  <2>2. TypeOK'
    BY <1>1, <2>1 DEF OrderInv, TypeOK
  <2>3. Chained'
    BY <1>1 DEF OrderInv, Chained
  <2>4. \A i \in DOMAIN segments : segments[i].base < b
    BY <1>6, NewBaseIsNew
  <2>5. SegmentsKnow'
    <3>. SUFFICES ASSUME NEW i \in DOMAIN segments, NEW c, c = segments[i].base
                  PROVE  /\ c \in DOMAIN logs' => segments[i].next = c + Len(logs'[c].msgs)
                         /\ c \in closed => segments[i].size = 0
                         /\ c \in DOMAIN logs' \ closed => segments[i].size = logs'[c].bytes
                         /\ c \in DOMAIN logs' \cup closed
      BY <1>1 DEF SegmentsKnow, EndOf
    <3>1. c # b
      BY <2>1, <2>4
    <3>2. /\ c \in DOMAIN logs => segments[i].next = c + Len(logs[c].msgs)
          /\ c \in closed => segments[i].size = 0
          /\ c \in DOMAIN logs \ closed => segments[i].size = logs[c].bytes
          /\ c \in DOMAIN logs \cup closed
      BY <1>1 DEF OrderInv, SegmentsKnow, HalfGone, EndOf
    <3>. QED BY <2>1, <3>1, <3>2
  <2>6. SegmentsCover'
    <3>. SUFFICES ASSUME pc' = "idle", NEW c \in DOMAIN logs'
                  PROVE  (\E i \in DOMAIN segments : segments[i].base = c) \/ Leftover(c)'
      BY <1>1 DEF SegmentsCover
    <3>1. segments # <<>> /\ IsFull
      BY <1>1 DEF OrderInv, FaultsControl
    <3>2. NewBase' = NewBase /\ IsFull'
      BY <1>1, <3>1 DEF NewBase, IsFull, Active
    <3>3. c = b => Leftover(c)'
      BY <1>1, <2>1, <3>1, <3>2 DEF Leftover
    <3>4. c # b => \E i \in DOMAIN segments : segments[i].base = c
      BY <1>1, <2>1 DEF OrderInv, SegmentsCover, Leftover
    <3>. QED BY <3>3, <3>4
  <2>7. ActiveOpen'
    BY <1>1, <2>1 DEF OrderInv, ActiveOpen, Active
  <2>. QED BY <1>3, <1>4, <2>1, <2>2, <2>3, <2>5, <2>6, <2>7 DEF OrderInv
<1>. QED BY <1>5, <1>6 DEF CreateFails

-----------------------------------------------------------------------------
(* The record written                                                      *)

\* The active segment is the last and its file the last with a record, neither closed.
LEMMA ActiveLast ==
  ASSUME OrderInv, pc \notin {"down", "load"}, segments # <<>>
  PROVE  /\ Len(segments) \in Nat \ {0} /\ DOMAIN segments = 1 .. Len(segments)
         /\ Len(segments) \in DOMAIN segments /\ Active = segments[Len(segments)]
         /\ Active.base \in DOMAIN logs \ closed /\ Active.base \in Nat
         /\ Active.next = EndOf(Active.base)
         /\ Active.size = logs[Active.base].bytes
         /\ \A c \in DOMAIN logs : c <= Active.base \/ Leftover(c)
         /\ \A i \in DOMAIN segments : i # Len(segments) => segments[i].base < Active.base
<1>1. TypeOK /\ pc # "removing"
  BY DEF OrderInv, FaultsControl
<1>. PICK n : n = Len(segments)
  OBVIOUS
<1>2. /\ n \in Nat \ {0} /\ DOMAIN segments = 1 .. n /\ n \in DOMAIN segments
      /\ Active = segments[n]
  BY <1>1, ListOf
<1>. PICK a : a = Active.base
  OBVIOUS
<1>3. a \in DOMAIN logs \ closed /\ a = segments[n].base
  BY <1>2 DEF OrderInv, ActiveOpen
<1>4. a \in Nat
  BY <1>1, <1>3, FileTypes
<1>5. segments[n].next = EndOf(a) /\ segments[n].size = logs[a].bytes
  BY <1>2, <1>3 DEF OrderInv, SegmentsKnow
<1>6. ASSUME NEW i \in DOMAIN segments, i # n PROVE segments[i].base < a
  <2>1. i < n
    BY <1>2, <1>6
  <2>. QED BY <1>2, <1>3, <2>1 DEF OrderInv, Chained
<1>7. ASSUME NEW c \in DOMAIN logs, ~ Leftover(c) PROVE c <= a
  <2>1. PICK i \in DOMAIN segments : segments[i].base = c
    BY <1>1, <1>7 DEF OrderInv, SegmentsCover
  <2>2. c \in Nat
    BY <1>1, FileTypes
  <2>. QED BY <1>3, <1>4, <1>6, <2>1, <2>2
<1>. QED BY <1>2, <1>3, <1>4, <1>5, <1>6, <1>7

\* Of all the files only the last grows, and with it the last segment.
LEMMA Written ==
  ASSUME OrderInv, AppendMessage, NEW a, a = Active.base, NEW n, n = Len(segments)
  PROVE  /\ DOMAIN logs' = DOMAIN logs
         /\ logs' \in [DOMAIN logs' -> File]
         /\ \A c \in DOMAIN logs : c # a => logs'[c] = logs[c] /\ EndOf(c)' = EndOf(c)
         /\ logs'[a].msgs = Append(logs[a].msgs, pending[1]) /\ logs'[a].msgs # <<>>
         /\ EndOf(a)' = EndOf(a) + 1
         /\ segments' \in Seq(SegmentObject) /\ segments' # <<>> /\ Len(segments') = n
         /\ \A i \in 1 .. n : i # n => segments'[i] = segments[i]
         /\ segments'[n].base = segments[n].base
         /\ segments'[n].next = segments[n].next + 1
         /\ \E added \in Nat :
              /\ added <= LargestRecord
              /\ logs'[a].bytes = logs[a].bytes + added
              /\ segments'[n].size = segments[n].size + added
              /\ physicalSize' = physicalSize + added
<1>. PICK added : added = HeaderSize + PayloadSize[pending[1]]
  OBVIOUS
<1>1. /\ pc = "append"
      /\ logs' = [logs EXCEPT ![a] = [msgs  |-> Append(@.msgs, pending[1]),
                                      bytes |-> @.bytes + added,
                                      mtime |-> clock]]
      /\ segments' = [segments EXCEPT ![n] = [base  |-> @.base,
                                              next  |-> @.next + 1,
                                              size  |-> @.size + added,
                                              mtime |-> @.mtime]]
      /\ physicalSize' = physicalSize + added
  BY DEF AppendMessage
<1>2. TypeOK /\ segments # <<>> /\ pending # <<>> /\ segments \in Seq(SegmentObject)
  BY <1>1 DEF OrderInv, FaultsControl, TypeOK
<1>3. n \in 1 .. n /\ n \in Nat /\ Active = segments[n] /\ a \in DOMAIN logs
  BY <1>1, <1>2, ActiveLast
<1>4. pending[1] \in Payload /\ added \in Nat /\ added <= LargestRecord
  <2>1. pending[1] \in Payload
    BY <1>2 DEF TypeOK
  <2>. QED BY <2>1, HeaderSizeNat, PayloadSizes, RecordBound
<1>5. /\ DOMAIN logs' = DOMAIN logs
      /\ \A c \in DOMAIN logs : c # a => logs'[c] = logs[c]
      /\ logs'[a] = [msgs  |-> Append(logs[a].msgs, pending[1]),
                     bytes |-> logs[a].bytes + added,
                     mtime |-> clock]
  BY <1>1, <1>2, <1>3 DEF TypeOK
<1>6. /\ logs'[a].msgs = Append(logs[a].msgs, pending[1])
      /\ logs'[a].bytes = logs[a].bytes + added
  BY <1>5
<1>7. /\ logs[a].msgs \in Seq(Payload) /\ logs[a].bytes \in Nat /\ clock \in Nat
      /\ a \in Nat
  BY <1>2, <1>3, FileTypes DEF TypeOK
<1>8. /\ Len(Append(logs[a].msgs, pending[1])) = Len(logs[a].msgs) + 1
      /\ Append(logs[a].msgs, pending[1]) # <<>>
      /\ Append(logs[a].msgs, pending[1]) \in Seq(Payload)
      /\ Len(logs[a].msgs) \in Nat
  <2>. PICK m \in Seq(Payload) : m = logs[a].msgs
    BY <1>7
  <2>. PICK q \in Payload : q = pending[1]
    BY <1>4
  <2>1. Len(Append(m, q)) = Len(m) + 1 /\ Append(m, q) # <<>> /\ Len(m) \in Nat
    BY Appending
  <2>2. Append(m, q) \in Seq(Payload)
    OBVIOUS
  <2>. QED BY <2>1, <2>2
<1>9. logs'[a] \in File
  <2>. PICK m \in Seq(Payload) : m = Append(logs[a].msgs, pending[1])
    BY <1>8
  <2>. PICK k \in Nat : k = logs[a].bytes + added
    BY <1>4, <1>7
  <2>1. logs'[a] = [msgs |-> m, bytes |-> k, mtime |-> clock]
    BY <1>5
  <2>. QED BY <1>7, <2>1 DEF File
<1>10. logs' \in [DOMAIN logs' -> File]
  BY <1>1, <1>2, <1>5, <1>9, FileTypes
<1>11. /\ logs'[a].msgs # <<>>
       /\ EndOf(a)' = EndOf(a) + 1
       /\ \A c \in DOMAIN logs : c # a => EndOf(c)' = EndOf(c)
  <2>1. EndOf(a)' = EndOf(a) + 1
    BY <1>6, <1>7, <1>8 DEF EndOf
  <2>2. \A c \in DOMAIN logs : c # a => EndOf(c)' = EndOf(c)
    BY <1>5 DEF EndOf
  <2>. QED BY <1>6, <1>8, <2>1, <2>2
<1>12. PICK wider : wider = [base  |-> segments[n].base,
                             next  |-> segments[n].next + 1,
                             size  |-> segments[n].size + added,
                             mtime |-> segments[n].mtime]
  OBVIOUS
<1>13. wider \in SegmentObject
  <2>1. /\ segments[n].base \in Nat /\ segments[n].next \in Nat
        /\ segments[n].size \in Nat /\ segments[n].mtime \in Nat
    BY <1>2, <1>3, SegmentTypes
  <2>2. segments[n].next + 1 \in Nat /\ segments[n].size + added \in Nat
    BY <1>4, <2>1
  <2>. QED BY <1>12, <2>1, <2>2 DEF SegmentObject
<1>14. segments' = [segments EXCEPT ![n] = wider]
  BY <1>1, <1>3, <1>12
<1>15. /\ Len(segments') = n
       /\ segments' \in Seq(SegmentObject) /\ segments' # <<>>
       /\ \A i \in 1 .. n : i # n => segments'[i] = segments[i]
       /\ segments'[n] = wider
  BY <1>2, <1>3, <1>13, <1>14
<1>16. /\ segments'[n].base = segments[n].base
       /\ segments'[n].next = segments[n].next + 1
       /\ segments'[n].size = segments[n].size + added
  BY <1>12, <1>15
<1>. QED BY <1>1, <1>4, <1>5, <1>6, <1>10, <1>11, <1>15, <1>16

LEMMA OrderAppendMessage ==
  ASSUME OrderInv, AppendMessage, UNCHANGED extra PROVE OrderInv'
<1>. PICK n : n = Len(segments)
  OBVIOUS
<1>. PICK a : a = Active.base
  OBVIOUS
<1>1. /\ pc = "append" /\ pc' = "idle" /\ pending' = <<>>
      /\ UNCHANGED <<indexes, clock, doomed, closed, passed>>
  BY DEF AppendMessage, extra
<1>2. TypeOK /\ segments # <<>>
  BY <1>1 DEF OrderInv, FaultsControl
<1>3. /\ n \in Nat \ {0} /\ DOMAIN segments = 1 .. n /\ Active = segments[n]
      /\ a \in DOMAIN logs \ closed /\ a \in Nat
      /\ segments[n].next = EndOf(a) /\ segments[n].size = logs[a].bytes
      /\ \A c \in DOMAIN logs : c <= a
      /\ \A i \in 1 .. n : i # n => segments[i].base < a
  BY <1>1, <1>2, ActiveLast DEF Leftover
<1>4. PICK added \in Nat :
        /\ DOMAIN logs' = DOMAIN logs
        /\ logs' \in [DOMAIN logs' -> File]
        /\ \A c \in DOMAIN logs : c # a => logs'[c] = logs[c] /\ EndOf(c)' = EndOf(c)
        /\ logs'[a].msgs # <<>> /\ EndOf(a)' = EndOf(a) + 1
        /\ segments' \in Seq(SegmentObject) /\ segments' # <<>> /\ Len(segments') = n
        /\ \A i \in 1 .. n : i # n => segments'[i] = segments[i]
        /\ segments'[n].base = a
        /\ segments'[n].next = segments[n].next + 1
        /\ logs'[a].bytes = logs[a].bytes + added
        /\ segments'[n].size = segments[n].size + added
        /\ physicalSize' = physicalSize + added
  BY <1>3, Written
<1>5. TypeOK'
  <2>1. physicalSize' \in Int
    BY <1>2, <1>4 DEF TypeOK
  <2>. QED BY <1>1, <1>2, <1>4, <2>1 DEF TypeOK
<1>6. DOMAIN segments' = 1 .. n
  BY <1>3, <1>4
<1>7. FilesInOrder'
  <2>1. ASSUME NEW c \in DOMAIN logs, NEW d \in DOMAIN logs, c < d PROVE EndOf(c)' <= d
    <3>1. c # a
      BY <1>3, <2>1, <1>2, FileTypes
    <3>. QED BY <1>4, <2>1, <3>1 DEF OrderInv, FilesInOrder, FilesApart
  <2>2. FilesApart'
    BY <1>4, <2>1 DEF FilesApart
  <2>3. \A c \in DOMAIN logs : logs'[c].msgs = <<>> => logs'[c].bytes = 0
    BY <1>4 DEF OrderInv, FilesInOrder
  <2>. QED BY <1>4, <2>2, <2>3 DEF FilesInOrder
<1>8. Chained'
  <2>. SUFFICES ASSUME NEW i \in 1 .. n, NEW j \in 1 .. n, i < j
                PROVE  /\ segments'[i].base < segments'[j].base
                       /\ segments'[i].next <= segments'[j].base
    BY <1>6 DEF Chained
  <2>1. segments[i].base < segments[j].base /\ segments[i].next <= segments[j].base
    BY <1>3 DEF OrderInv, Chained
  <2>2. segments'[i] = segments[i] /\ segments'[j].base = segments[j].base
    BY <1>3, <1>4
  <2>. QED BY <2>1, <2>2
<1>9. ASSUME NEW i \in 1 .. n
      PROVE  LET s == segments'[i]
             IN /\ s.base \in DOMAIN logs => s.next = s.base + Len(logs'[s.base].msgs)
                /\ s.base \in closed => s.size = 0
                /\ s.base \in DOMAIN logs \ closed => s.size = logs'[s.base].bytes
                /\ s.base \in DOMAIN logs \cup closed
  <2>1. CASE i = n
    <3>1. segments'[i].next = a + Len(logs'[a].msgs)
      BY <1>3, <1>4, <2>1 DEF EndOf
    <3>. QED BY <1>3, <1>4, <2>1, <3>1
  <2>2. CASE i # n
    <3>1. PICK b : b = segments[i].base
      OBVIOUS
    <3>2. b # a
      BY <1>2, <1>3, <2>2, <3>1, SegmentTypes
    <3>3. segments'[i] = segments[i] /\ (b \in DOMAIN logs => logs'[b] = logs[b])
      BY <1>4, <2>2, <3>2
    <3>4. /\ b \in DOMAIN logs => segments[i].next = b + Len(logs[b].msgs)
          /\ b \in closed => segments[i].size = 0
          /\ b \in DOMAIN logs \ closed => segments[i].size = logs[b].bytes
          /\ b \in DOMAIN logs \cup closed
      BY <1>1, <1>3, <3>1 DEF OrderInv, SegmentsKnow, HalfGone, EndOf
    <3>. QED BY <3>1, <3>3, <3>4
  <2>. QED BY <2>1, <2>2
<1>10. SegmentsKnow'
  BY <1>1, <1>4, <1>6, <1>9 DEF SegmentsKnow, EndOf
<1>11. \A i \in 1 .. n : segments'[i].base = segments[i].base
  BY <1>3, <1>4
<1>12. SegmentsCover'
  BY <1>1, <1>3, <1>4, <1>6, <1>11 DEF OrderInv, SegmentsCover, Leftover
<1>13. ActiveOpen'
  BY <1>1, <1>3, <1>4 DEF ActiveOpen, Active, Last
<1>14. ClosedListed'
  BY <1>1, <1>3, <1>6, <1>11 DEF OrderInv, ClosedListed
<1>15. FaultsControl'
  BY <1>1, <1>4 DEF OrderInv, FaultsControl
<1>. QED BY <1>5, <1>7, <1>8, <1>10, <1>12, <1>13, <1>14, <1>15 DEF OrderInv

-----------------------------------------------------------------------------
(* Retention                                                               *)

LEMMA OrderRemoveLog ==
  ASSUME OrderInv, NEW i \in DOMAIN segments, RemoveLogOf(i) PROVE OrderInv'
<1>. PICK b : b = segments[i].base
  OBVIOUS
<1>1. /\ pc = "clean" /\ pc' = "unlink" /\ Current(i) /\ b \in DOMAIN logs
      /\ logs' = WithoutLog(b)
      /\ UNCHANGED <<indexes, clock, doomed, segments, physicalSize, pending,
                     closed, passed>>
  BY DEF RemoveLogOf, extra
<1>2. TypeOK /\ segments # <<>>
  BY <1>1 DEF OrderInv, FaultsControl
<1>3. /\ DOMAIN logs' = DOMAIN logs \ {b}
      /\ \A c \in DOMAIN logs' : logs'[c] = logs[c] /\ EndOf(c)' = EndOf(c)
  BY <1>1 DEF WithoutLog, EndOf
<1>4. /\ Len(segments) \in Nat \ {0} /\ DOMAIN segments = 1 .. Len(segments)
      /\ i \in 1 .. Len(segments) - 1 /\ b < Active.base
      /\ Active.base \in DOMAIN logs \ closed /\ Active.base \in Nat
  BY <1>1, <1>2, ActiveLast, CurrentIsOne
<1>5. TypeOK'
  <2>1. logs' \in [DOMAIN logs' -> File] /\ DOMAIN logs' \subseteq Nat
    <3>1. \A c \in DOMAIN logs' : logs'[c] \in File
      BY <1>2, <1>3, FileTypes
    <3>2. logs' = [c \in DOMAIN logs' |-> logs'[c]]
      BY <1>1 DEF WithoutLog
    <3>. QED BY <1>2, <1>3, <3>1, <3>2 DEF TypeOK
  <2>. QED BY <1>1, <1>2, <2>1 DEF TypeOK
<1>6. FilesInOrder' /\ Chained'
  BY <1>1, <1>3 DEF OrderInv, FilesInOrder, FilesApart, Chained
<1>7. Current(i)'
  BY <1>1 DEF Current, Victim, TooOld, PartitionTooLarge
<1>8. ASSUME NEW j \in DOMAIN segments
      PROVE  LET s == segments[j]
             IN /\ s.base \in DOMAIN logs' => s.next = s.base + Len(logs'[s.base].msgs)
                /\ s.base \in closed => s.size = 0
                /\ s.base \in DOMAIN logs' \ closed => s.size = logs'[s.base].bytes
                /\ s.base \in DOMAIN logs' \cup closed \/ j = i
  <2>1. PICK c : c = segments[j].base
    OBVIOUS
  <2>2. /\ c \in DOMAIN logs => segments[j].next = c + Len(logs[c].msgs)
        /\ c \in closed => segments[j].size = 0
        /\ c \in DOMAIN logs \ closed => segments[j].size = logs[c].bytes
        /\ c \in DOMAIN logs \cup closed
    BY <1>1, <2>1 DEF OrderInv, SegmentsKnow, HalfGone, EndOf
  <2>3. c = b => j = i
    <3>1. ~ (i < j) \/ c # b
      BY <1>2, <2>1, SegmentTypes, <1>4 DEF OrderInv, Chained
    <3>2. ~ (j < i) \/ c # b
      BY <1>2, <2>1, SegmentTypes, <1>4 DEF OrderInv, Chained
    <3>. QED BY <1>4, <3>1, <3>2
  <2>. QED BY <1>3, <2>1, <2>2, <2>3
<1>9. SegmentsKnow'
  BY <1>1, <1>7, <1>8 DEF SegmentsKnow, HalfGone, EndOf
<1>10. SegmentsCover' /\ ClosedListed'
  BY <1>1, <1>3 DEF OrderInv, SegmentsCover, ClosedListed, Leftover
<1>11. ActiveOpen'
  BY <1>1, <1>2, <1>3, <1>4, FileTypes DEF ActiveOpen, Active
<1>12. FaultsControl'
  BY <1>1, <1>2, <1>3, <1>7 DEF OrderInv, FaultsControl
<1>. QED BY <1>5, <1>6, <1>9, <1>10, <1>11, <1>12 DEF OrderInv

\* The segment the pass is at when a log has gone is the one whose log it was.
LEMMA HalfGoneIsGone ==
  ASSUME OrderInv, pc = "unlink", NEW i \in DOMAIN segments, Current(i)
  PROVE  segments[i].base \notin DOMAIN logs
BY CurrentIsOne DEF OrderInv, FaultsControl

\* Two segments have two bases.
LEMMA BasesDiffer ==
  ASSUME OrderInv, NEW i \in DOMAIN segments, NEW j \in DOMAIN segments, i # j
  PROVE  segments[i].base # segments[j].base
<1>1. TypeOK
  BY DEF OrderInv
<1>2. i \in 1 .. Len(segments) /\ j \in 1 .. Len(segments) /\ Len(segments) \in Nat
  BY <1>1, ListOf
<1>3. segments[i].base \in Nat /\ segments[j].base \in Nat
  BY <1>1, <1>2, SegmentTypes
<1>4. CASE i < j
  BY <1>3, <1>4 DEF OrderInv, Chained
<1>5. CASE j < i
  BY <1>3, <1>5 DEF OrderInv, Chained
<1>. QED BY <1>2, <1>4, <1>5

\* The segments but one, in the order they had.
LEMMA OneLess ==
  ASSUME TypeOK, NEW i \in DOMAIN segments, i # Len(segments),
         segments' = RemoveAt(segments, i)
  PROVE  /\ segments' \in Seq(SegmentObject) /\ segments' # <<>>
         /\ Active' = Active
         /\ \A j \in DOMAIN segments' : \E k \in DOMAIN segments :
              k # i /\ segments'[j] = segments[k]
         /\ \A k \in DOMAIN segments : k # i =>
              \E j \in DOMAIN segments' : segments'[j] = segments[k]
         /\ \A j, h \in DOMAIN segments' : j < h =>
              \E k, l \in DOMAIN segments :
                k < l /\ segments'[j] = segments[k] /\ segments'[h] = segments[l]
<1>. PICK n : n = Len(segments)
  OBVIOUS
<1>1. /\ n \in Nat /\ DOMAIN segments = 1 .. n /\ i \in 1 .. n - 1
      /\ segments \in Seq(SegmentObject)
  BY ListOf DEF TypeOK
<1>2. /\ segments' \in Seq(SegmentObject) /\ Len(segments') = n - 1
      /\ \A j \in 1 .. n - 1 :
           segments'[j] = IF j < i THEN segments[j] ELSE segments[j + 1]
  BY <1>1, RemovingAt
<1>3. DOMAIN segments' = 1 .. n - 1 /\ segments' # <<>>
  BY <1>1, <1>2
<1>4. Active' = Active
  <2>1. segments # <<>> /\ Len(segments) = n
    BY <1>1
  <2>2. Active = segments[n] /\ Active' = segments'[n - 1]
    BY <1>2, <1>3 DEF Active, Last
  <2>3. segments'[n - 1] = segments[n]
    <3>1. n - 1 \in 1 .. n - 1 /\ ~ (n - 1 < i) /\ (n - 1) + 1 = n
      BY <1>1
    <3>. QED BY <1>2, <3>1
  <2>. QED BY <2>2, <2>3
<1>5. \A j \in 1 .. n - 1 : \E k \in 1 .. n :
        k # i /\ segments'[j] = segments[k] /\ (k = IF j < i THEN j ELSE j + 1)
  <2>. SUFFICES ASSUME NEW j \in 1 .. n - 1
                PROVE  \E k \in 1 .. n : /\ k # i /\ segments'[j] = segments[k]
                                         /\ (k = IF j < i THEN j ELSE j + 1)
    OBVIOUS
  <2>1. PICK k \in 1 .. n : k # i /\ (k = IF j < i THEN j ELSE j + 1)
    BY <1>1
  <2>. QED BY <1>2, <2>1
<1>6. ASSUME NEW k \in 1 .. n, k # i
      PROVE  \E j \in 1 .. n - 1 : segments'[j] = segments[k]
  <2>1. CASE k < i
    <3>1. k \in 1 .. n - 1
      BY <1>1, <2>1
    <3>. QED BY <1>2, <2>1, <3>1
  <2>2. CASE k > i
    <3>1. PICK j \in 1 .. n - 1 : j = k - 1
      BY <1>1, <2>2
    <3>2. j + 1 = k /\ ~ (j < i)
      BY <1>1, <2>2, <3>1
    <3>. QED BY <1>2, <3>2
  <2>. QED BY <1>1, <1>6, <2>1, <2>2
<1>7. ASSUME NEW j \in 1 .. n - 1, NEW h \in 1 .. n - 1, j < h
      PROVE  \E k, l \in 1 .. n :
               k < l /\ segments'[j] = segments[k] /\ segments'[h] = segments[l]
  <2>1. PICK k \in 1 .. n : segments'[j] = segments[k] /\ (k = IF j < i THEN j ELSE j + 1)
    BY <1>5
  <2>2. PICK l \in 1 .. n : segments'[h] = segments[l] /\ (l = IF h < i THEN h ELSE h + 1)
    BY <1>5
  <2>3. k < l
    BY <1>1, <1>7, <2>1, <2>2
  <2>. QED BY <2>1, <2>2, <2>3
<1>8. \A j \in DOMAIN segments' : \E k \in DOMAIN segments :
        k # i /\ segments'[j] = segments[k]
  BY <1>1, <1>3, <1>5
<1>9. \A k \in DOMAIN segments : k # i =>
        \E j \in DOMAIN segments' : segments'[j] = segments[k]
  BY <1>1, <1>3, <1>6
<1>10. ASSUME NEW j \in DOMAIN segments', NEW h \in DOMAIN segments', j < h
       PROVE  \E k, l \in DOMAIN segments :
                k < l /\ segments'[j] = segments[k] /\ segments'[h] = segments[l]
  <2>1. j \in 1 .. n - 1 /\ h \in 1 .. n - 1
    BY <1>3
  <2>2. PICK k \in 1 .. n, l \in 1 .. n :
          k < l /\ segments'[j] = segments[k] /\ segments'[h] = segments[l]
    BY <1>7, <1>10, <2>1
  <2>. QED BY <1>1, <2>2
<1>. QED BY <1>2, <1>3, <1>4, <1>8, <1>9, <1>10

LEMMA OrderRemoveIndex ==
  ASSUME OrderInv, NEW i \in DOMAIN segments, RemoveIndexOf(i) PROVE OrderInv'
<1>. PICK b : b = segments[i].base
  OBVIOUS
<1>1. /\ pc = "unlink" /\ pc' = "clean" /\ Current(i)
      /\ indexes' = indexes \ {b} /\ segments' = RemoveAt(segments, i)
      /\ physicalSize' = physicalSize - segments[i].size
      /\ closed' = closed \ {b}
      /\ UNCHANGED <<logs, clock, doomed, pending, passed>>
  BY DEF RemoveIndexOf
<1>2. TypeOK
  BY DEF OrderInv
<1>3. i \in 1 .. Len(segments) - 1 /\ segments[i].size \in Nat
  BY <1>1, <1>2, CurrentIsOne, SegmentTypes, ListOf
<1>4. /\ segments' \in Seq(SegmentObject) /\ segments' # <<>>
      /\ Active' = Active
      /\ \A j \in DOMAIN segments' : \E k \in DOMAIN segments :
           k # i /\ segments'[j] = segments[k]
      /\ \A k \in DOMAIN segments : k # i =>
           \E j \in DOMAIN segments' : segments'[j] = segments[k]
  BY <1>1, <1>2, <1>3, OneLess
<1>5. \A j, h \in DOMAIN segments' : j < h =>
        \E k, l \in DOMAIN segments :
          k < l /\ segments'[j] = segments[k] /\ segments'[h] = segments[l]
  BY <1>1, <1>2, <1>3, OneLess
<1>6. b \notin DOMAIN logs
  BY <1>1, HalfGoneIsGone
<1>7. TypeOK'
  BY <1>1, <1>2, <1>3, <1>4 DEF TypeOK
<1>8. FilesInOrder'
  BY <1>1 DEF OrderInv, FilesInOrder, FilesApart, EndOf
<1>9. Chained'
  BY <1>5 DEF OrderInv, Chained
<1>10. SegmentsKnow'
  <2>. SUFFICES ASSUME NEW j \in DOMAIN segments', NEW s, s = segments'[j]
                PROVE  /\ s.base \in DOMAIN logs => s.next = s.base + Len(logs[s.base].msgs)
                       /\ s.base \in closed \ {b} => s.size = 0
                       /\ s.base \in DOMAIN logs \ (closed \ {b}) => s.size = logs[s.base].bytes
                       /\ s.base \in DOMAIN logs \cup (closed \ {b})
    BY <1>1 DEF SegmentsKnow, EndOf
  <2>1. PICK k \in DOMAIN segments : k # i /\ s = segments[k]
    BY <1>4
  <2>2. ~ HalfGone(k) /\ s.base # b
    BY <1>1, <1>2, <2>1, CurrentIsOne, BasesDiffer DEF HalfGone
  <2>. QED BY <1>6, <2>1, <2>2 DEF OrderInv, SegmentsKnow, EndOf
<1>11. SegmentsCover'
  BY <1>1, <1>4, <1>6 DEF OrderInv, SegmentsCover, Leftover
<1>12. ActiveOpen'
  <2>1. segments # <<>>
    BY <1>1 DEF OrderInv, FaultsControl
  <2>. QED BY <1>1, <1>4, <2>1 DEF OrderInv, ActiveOpen
<1>13. ClosedListed'
  <2>1. ASSUME NEW c \in closed, c # b
        PROVE  \E j \in DOMAIN segments' : segments'[j].base = c
    BY <1>4, <2>1 DEF OrderInv, ClosedListed
  <2>2. b \notin passed
    BY <1>1 DEF Current
  <2>. QED BY <1>1, <2>1, <2>2 DEF OrderInv, ClosedListed
<1>14. FaultsControl'
  BY <1>1, <1>4 DEF OrderInv, FaultsControl
<1>. QED BY <1>7, <1>8, <1>9, <1>10, <1>11, <1>12, <1>13, <1>14 DEF OrderInv

\* A removal that fails leaves the list as it was, one segment emptied of its size.
LEMMA Emptied ==
  ASSUME OrderInv, NEW i \in DOMAIN segments, UnlinkFails(i)
  PROVE  /\ segments' \in Seq(SegmentObject) /\ segments' # <<>>
         /\ i \in 1 .. Len(segments) - 1
         /\ DOMAIN segments' = DOMAIN segments
         /\ Active' = Active /\ Active.base # segments[i].base
         /\ \A j \in DOMAIN segments : /\ segments'[j].base = segments[j].base
                                       /\ segments'[j].next = segments[j].next
         /\ \A j \in DOMAIN segments : j # i => segments'[j] = segments[j]
         /\ segments'[i].size = 0
<1>1. /\ pc \in {"clean", "unlink"} /\ Current(i)
      /\ segments' = [segments EXCEPT ![i] = [base |-> @.base, next  |-> @.next,
                                              size |-> 0,      mtime |-> 0]]
  BY DEF UnlinkFails, StaysClosed
<1>2. TypeOK /\ segments \in Seq(SegmentObject) /\ segments # <<>>
  BY <1>1 DEF OrderInv, FaultsControl, TypeOK
<1>. PICK n : n = Len(segments)
  OBVIOUS
<1>3. n \in Nat \ {0} /\ DOMAIN segments = 1 .. n /\ i \in 1 .. n - 1 /\ n # i
      /\ Active = segments[n]
  BY <1>1, <1>2, CurrentIsOne, ListOf
<1>. PICK e : e = [base |-> segments[i].base, next  |-> segments[i].next,
                   size |-> 0,                mtime |-> 0]
  OBVIOUS
<1>4. /\ e \in SegmentObject /\ e.base = segments[i].base /\ e.next = segments[i].next
      /\ e.size = 0
  BY <1>2, <1>3, SegmentTypes DEF SegmentObject
<1>5. segments' = [segments EXCEPT ![i] = e]
  BY <1>1, <1>3
<1>6. /\ segments' \in Seq(SegmentObject) /\ Len(segments') = n
      /\ DOMAIN segments' = 1 .. n /\ segments'[i] = e
      /\ \A j \in 1 .. n : j # i => segments'[j] = segments[j]
  BY <1>2, <1>3, <1>4, <1>5
<1>7. segments' # <<>> /\ Active' = segments'[n] /\ segments'[n] = segments[n]
  BY <1>3, <1>6 DEF Active, Last
<1>8. Active.base # segments[i].base
  BY <1>3, BasesDiffer
<1>. QED BY <1>3, <1>4, <1>6, <1>7, <1>8

LEMMA OrderUnlinkFails ==
  ASSUME OrderInv, NEW i \in DOMAIN segments, UnlinkFails(i) PROVE OrderInv'
<1>. PICK b : b = segments[i].base
  OBVIOUS
<1>1. /\ pc \in {"clean", "unlink"} /\ pc' = "clean" /\ Current(i)
      /\ closed' = closed \cup {b} /\ passed' = passed \cup {b}
      /\ UNCHANGED <<logs, indexes, clock, doomed, pending, physicalSize>>
  BY DEF UnlinkFails, StaysClosed, disk
<1>2. TypeOK /\ segments # <<>>
  BY <1>1 DEF OrderInv, FaultsControl
<1>3. /\ segments' \in Seq(SegmentObject) /\ segments' # <<>>
      /\ DOMAIN segments' = DOMAIN segments
      /\ Active' = Active /\ Active.base # b
      /\ \A j \in DOMAIN segments : /\ segments'[j].base = segments[j].base
                                    /\ segments'[j].next = segments[j].next
      /\ \A j \in DOMAIN segments : j # i => segments'[j] = segments[j]
      /\ segments'[i].size = 0
  BY Emptied
<1>4. TypeOK' /\ FilesInOrder' /\ Chained'
  BY <1>1, <1>3 DEF OrderInv, TypeOK, FilesInOrder, FilesApart, EndOf, Chained
<1>5. SegmentsKnow'
  <2>. SUFFICES ASSUME NEW j \in DOMAIN segments, NEW s, s = segments'[j]
                PROVE  /\ s.base \in DOMAIN logs => s.next = s.base + Len(logs[s.base].msgs)
                       /\ s.base \in closed \cup {b} => s.size = 0
                       /\ s.base \in DOMAIN logs \ (closed \cup {b}) => s.size = logs[s.base].bytes
                       /\ s.base \in DOMAIN logs \cup (closed \cup {b})
    BY <1>1, <1>3 DEF SegmentsKnow, EndOf
  <2>1. CASE j = i
    BY <1>3, <2>1 DEF OrderInv, SegmentsKnow, EndOf
  <2>2. CASE j # i
    <3>1. s = segments[j] /\ s.base # b /\ ~ HalfGone(j)
      BY <1>1, <1>2, <1>3, <2>2, CurrentIsOne, BasesDiffer DEF HalfGone
    <3>. QED BY <3>1 DEF OrderInv, SegmentsKnow, EndOf
  <2>. QED BY <2>1, <2>2
<1>6. SegmentsCover' /\ ActiveOpen' /\ ClosedListed' /\ FaultsControl'
  <2>1. SegmentsCover'
    BY <1>1, <1>3 DEF OrderInv, SegmentsCover, Leftover
  <2>2. ActiveOpen'
    BY <1>1, <1>2, <1>3 DEF OrderInv, ActiveOpen
  <2>3. ClosedListed'
    BY <1>1, <1>3 DEF OrderInv, ClosedListed
  <2>4. FaultsControl'
    BY <1>1, <1>3 DEF OrderInv, FaultsControl
  <2>. QED BY <2>1, <2>2, <2>3, <2>4
<1>. QED BY <1>4, <1>5, <1>6 DEF OrderInv

-----------------------------------------------------------------------------
(* Every step                                                              *)

LEMMA OrderNext == OrderInv /\ [NextFaults]_allVars => OrderInv'
<1>. SUFFICES ASSUME OrderInv, [NextFaults]_allVars PROVE OrderInv'
  OBVIOUS
<1>1. CASE Unharmed /\ UNCHANGED extra
  <2>1. CASE Open
    BY <1>1, <2>1, OrderOpen
  <2>2. CASE LoadSegment
    BY <1>1, <2>2, OrderLoadSegment
  <2>3. CASE LoadDone
    BY <1>1, <2>3, OrderLoadDone
  <2>4. CASE MakeIndex
    BY <1>1, <2>4, OrderMakeIndex
  <2>5. CASE MakeLog
    BY <1>1, <2>5, OrderMakeLog
  <2>6. CASE CreateFails
    BY <1>1, <2>6, OrderCreateFails
  <2>7. CASE AppendMessage
    BY <1>1, <2>7, OrderAppendMessage
  <2>8. CASE Tick
    BY <1>1, <2>8, OrderTick
  <2>9. CASE \E p \in Payload : Write(p)
    BY <1>1, <2>9, OrderWrite
  <2>. QED BY <1>1, <2>1, <2>2, <2>3, <2>4, <2>5, <2>6, <2>7, <2>8, <2>9 DEF Unharmed
<1>2. CASE \E i \in DOMAIN segments : RemoveLogOf(i)
  BY <1>2, OrderRemoveLog
<1>3. CASE \E i \in DOMAIN segments : RemoveIndexOf(i)
  BY <1>3, OrderRemoveIndex
<1>4. CASE \E i \in DOMAIN segments : UnlinkFails(i)
  BY <1>4, OrderUnlinkFails
<1>5. CASE PassDone
  BY <1>5, OrderPassDone
<1>6. CASE ClockBack
  BY <1>6, OrderClockBack
<1>7. CASE Stop
  BY <1>7, OrderStop
<1>8. CASE \E o \in 0 .. MaxOffset : ReadClosed(o)
  BY <1>8, OrderReadClosed
<1>9. CASE UNCHANGED allVars
  <2>1. UNCHANGED <<logs, indexes, clock, doomed, pc, segments, physicalSize, pending,
                    closed, passed>>
    BY <1>9 DEF allVars, vars, disk, memory, extra
  <2>2. TypeOK' /\ FilesInOrder' /\ Chained'
    BY <2>1 DEF OrderInv, TypeOK, FilesInOrder, FilesApart, EndOf, Chained
  <2>3. SegmentsKnow'
    BY <2>1 DEF OrderInv, SegmentsKnow, EndOf, HalfGone, Current, Victim, TooOld,
                PartitionTooLarge
  <2>4. SegmentsCover'
    <3>1. pc \in {"down", "removing"} => SegmentsCover'
      BY <2>1 DEF SegmentsCover
    <3>. QED BY <2>1, <3>1, QuietCover
  <2>6. ActiveOpen' /\ ClosedListed'
    BY <2>1 DEF OrderInv, ActiveOpen, Active, ClosedListed
  <2>5. FaultsControl'
    BY <2>1 DEF OrderInv, FaultsControl, Active, IsFull, Current, Victim, TooOld,
                PartitionTooLarge
  <2>. QED BY <2>2, <2>3, <2>4, <2>5, <2>6 DEF OrderInv
<1>. QED BY <1>1, <1>2, <1>3, <1>4, <1>5, <1>6, <1>7, <1>8, <1>9 DEF NextFaults

\* The inductive invariant of the order: with any removals that fail, any steps of
\* the clock and any restarts (Partition.cc:229-253), the files do not overlap and
\* the list follows them, each segment closed or knowing its file.
THEOREM OrderInvariance == SpecFaults => []OrderInv
<1>. QED BY OrderInit, OrderNext, PTL DEF SpecFaults

\* The type invariant of the partition holds whatever fails (Partition.cc:229-253):
\* among others a size and an offset are never negative.
THEOREM FaultsTypeCorrect == SpecFaults => []TypeOK
<1>1. OrderInv => TypeOK
  BY DEF OrderInv
<1>. QED BY <1>1, OrderInvariance, PTL

-----------------------------------------------------------------------------
(* What is read, and what offsets stay                                     *)

\* The messages, file by file.
HeldByFile ==
  /\ DOMAIN Messages = Held
  /\ \A b \in DOMAIN logs : \A o \in b .. EndOf(b) - 1 :
       o \in Held /\ HomeOf(o) = b /\ Messages[o] = logs[b].msgs[o - b + 1]
  /\ \A o \in Held : \E b \in DOMAIN logs : o \in b .. EndOf(b) - 1
  /\ DOMAIN logs = {} => NextMessage = 0
  /\ \A b \in DOMAIN logs : (\A c \in DOMAIN logs : c <= b) => NextMessage = EndOf(b)

LEMMA HeldHere == OrderInv => HeldByFile
<1>. SUFFICES ASSUME OrderInv PROVE HeldByFile
  OBVIOUS
<1>1. TypeOK /\ FilesApart /\ ~ doomed
  BY DEF OrderInv, FilesInOrder, FaultsControl
<1>2. OneHome /\ LastEnds
  BY <1>1, HomeIsUnique, LastIsUnique
<1>3. Held = UNION {b .. EndOf(b) - 1 : b \in DOMAIN logs}
  BY <1>1 DEF Held
<1>4. DOMAIN Messages = Held /\ \A o \in Held : Messages[o] = logs[HomeOf(o)].msgs[o - HomeOf(o) + 1]
  BY DEF Messages
<1>5. \A b \in DOMAIN logs : \A o \in b .. EndOf(b) - 1 : o \in Held /\ HomeOf(o) = b
  BY <1>2, <1>3 DEF OneHome
<1>6. \A o \in Held : \E b \in DOMAIN logs : o \in b .. EndOf(b) - 1
  BY <1>3
<1>7. /\ DOMAIN logs = {} => NextMessage = 0
      /\ \A b \in DOMAIN logs : (\A c \in DOMAIN logs : c <= b) => NextMessage = EndOf(b)
  BY <1>1, <1>2 DEF NextMessage, LastEnds
<1>. QED BY <1>4, <1>5, <1>6, <1>7 DEF HeldByFile

LEMMA HeldNext == OrderInv' => HeldByFile'
BY HeldHere, PTL

\* The binary search finds the segment of the file an offset is in.
LEMMA SegmentFound ==
  ASSUME OrderInv, pc = "idle", NEW b \in DOMAIN logs, NEW o \in b .. EndOf(b) - 1
  PROVE  \E i \in DOMAIN segments :
           /\ FindSegment(o) = {i} /\ segments[i].base = b /\ segments[i].next = EndOf(b)
<1>1. TypeOK /\ Len(segments) \in Nat /\ DOMAIN segments = 1 .. Len(segments)
  BY ListOf DEF OrderInv
<1>2. b \in Nat /\ EndOf(b) \in Nat /\ o \in Nat
  BY <1>1, FileTypes
<1>3. PICK i \in DOMAIN segments : segments[i].base = b
  <2>1. logs[b].msgs # <<>>
    BY <1>2 DEF EndOf
  <2>. QED BY <2>1 DEF OrderInv, SegmentsCover, Leftover
<1>4. segments[i].next = EndOf(b)
  BY <1>3 DEF OrderInv, SegmentsKnow
<1>5. ASSUME NEW j \in DOMAIN segments, i < j PROVE segments[j].base > o
  <2>1. EndOf(b) <= segments[j].base /\ segments[j].base \in Nat
    BY <1>1, <1>4, <1>5, SegmentTypes DEF OrderInv, Chained
  <2>. QED BY <1>2, <2>1
<1>6. i \in FindSegment(o)
  <2>1. \A j \in i + 1 .. Len(segments) : j \in DOMAIN segments /\ i < j
    BY <1>1
  <2>. QED BY <1>2, <1>3, <1>5, <2>1 DEF FindSegment
<1>7. ASSUME NEW k \in FindSegment(o) PROVE k = i
  <2>1. k \in DOMAIN segments /\ segments[k].base <= o
    BY DEF FindSegment
  <2>2. ~ (i < k)
    BY <1>2, <1>5, <2>1, <1>1, SegmentTypes
  <2>3. ~ (k < i)
    <3>. SUFFICES ASSUME k < i PROVE FALSE
      OBVIOUS
    <3>1. i \in k + 1 .. Len(segments)
      BY <1>1, <2>1
    <3>2. segments[i].base > o
      BY <3>1 DEF FindSegment
    <3>. QED BY <1>2, <1>3, <3>2
  <2>. QED BY <1>1, <2>1, <2>2, <2>3
<1>. QED BY <1>3, <1>4, <1>6, <1>7

LEMMA ReadsByFile == OrderInv => ReadsRight
<1>. SUFFICES ASSUME OrderInv, pc = "idle", NEW o \in 0 .. MaxOffset
              PROVE  ReadFrom(o) = IF o \in Held /\ HomeOf(o) \notin closed
                                   THEN {Messages[o]} ELSE {}
  BY DEF ReadsRight
<1>1. HeldByFile /\ TypeOK
  BY HeldHere DEF OrderInv
<1>2. CASE o \in Held
  <2>1. PICK b \in DOMAIN logs : o \in b .. EndOf(b) - 1
    BY <1>1, <1>2 DEF HeldByFile
  <2>2. HomeOf(o) = b /\ Messages[o] = logs[b].msgs[o - b + 1]
    BY <1>1, <2>1 DEF HeldByFile
  <2>3. PICK i \in DOMAIN segments :
          FindSegment(o) = {i} /\ segments[i].base = b /\ segments[i].next = EndOf(b)
    BY <2>1, SegmentFound
  <2>4. o < EndOf(b)
    BY <1>1, <2>1, FileTypes
  <2>5. ReadAt(o) = {logs[b].msgs[o - b + 1]}
    BY <2>3, <2>4 DEF ReadAt
  <2>. QED BY <1>2, <2>2, <2>3, <2>5 DEF ReadFrom
<1>3. CASE o \notin Held
  <2>. SUFFICES ASSUME \A i \in FindSegment(o) : segments[i].base \notin closed
                PROVE  ReadAt(o) = {}
    BY <1>3 DEF ReadFrom
  <2>1. ASSUME NEW i \in FindSegment(o), o < segments[i].next PROVE FALSE
    <3>1. i \in DOMAIN segments /\ segments[i].base <= o
      BY DEF FindSegment
    <3>2. PICK b : b = segments[i].base
      OBVIOUS
    <3>3. b \in DOMAIN logs /\ segments[i].next = EndOf(b)
      BY <3>1, <3>2 DEF OrderInv, SegmentsKnow, HalfGone
    <3>4. o \in b .. EndOf(b) - 1
      BY <1>1, <2>1, <3>1, <3>2, <3>3, FileTypes
    <3>. QED BY <1>1, <1>3, <3>3, <3>4 DEF HeldByFile
  <2>. QED BY <2>1 DEF ReadAt
<1>. QED BY <1>2, <1>3

\* What is read between operations, with any number of failures, restarts and
\* passes (Partition.cc:241-246, 258-284): each offset on disk reads its own message
\* unless its segment was closed, and no other offset reads anything.
THEOREM ReadingRight == SpecFaults => []ReadsRight
BY OrderInvariance, ReadsByFile, PTL

Stable ==
  /\ NextMessage' >= NextMessage
  /\ \A o \in DOMAIN Messages' :
       IF o \in DOMAIN Messages THEN Messages'[o] = Messages[o] ELSE o >= NextMessage

\* A step that leaves the log files alone leaves the messages alone.
LEMMA SameLogs ==
  ASSUME NextMessage \in Nat, UNCHANGED <<logs, doomed>> PROVE Stable
<1>1. UNCHANGED <<Messages, NextMessage>>
  BY SameFiles
<1>2. NextMessage >= NextMessage
  OBVIOUS
<1>. QED BY <1>1, <1>2 DEF Stable

\* The file of a rollover begins where the last one ends, with no message.
LEMMA NewFileStable ==
  ASSUME OrderInv, OrderInv', pc = "log", logs' = WithLog(NewBase, NewFile),
         NextMessage \in Nat
  PROVE  Stable
<1>. PICK b : b = NewBase
  OBVIOUS
<1>1. HeldByFile /\ HeldByFile'
  BY HeldHere, HeldNext
<1>. PICK file : file = NewFile
  OBVIOUS
<1>2. /\ b \in Nat /\ file.msgs = <<>>
      /\ DOMAIN logs' = DOMAIN logs \cup {b} /\ logs'[b] = file
      /\ \A c \in DOMAIN logs : logs'[c] = logs[c] /\ EndOf(c)' = EndOf(c) /\ c <= b
      /\ EndOf(b)' = b
  BY NewFileOrder
<1>3. \A c \in DOMAIN logs : IF c = b THEN EndOf(c) = b ELSE c < b /\ EndOf(c) <= b
  BY <1>2, NewBaseIsNew DEF EndOf
<1>4. /\ DOMAIN logs' = DOMAIN logs \cup {b} /\ logs'[b].msgs = <<>>
      /\ \A c \in DOMAIN logs : logs'[c] = logs[c]
  BY <1>2
<1>5. EndOf(b)' = b /\ \A c \in DOMAIN logs : EndOf(c)' = EndOf(c)
  BY <1>2
<1>6. NextMessage' = b
  <2>1. \A c \in DOMAIN logs' : c <= b
    BY <1>2
  <2>. QED BY <1>1, <1>4, <1>5, <2>1 DEF HeldByFile
<1>7. NextMessage <= b
  <2>1. CASE DOMAIN logs = {}
    BY <1>1, <1>2, <2>1 DEF HeldByFile
  <2>2. CASE b \in DOMAIN logs
    <3>1. NextMessage = EndOf(b) /\ EndOf(b) = b
      BY <1>1, <1>2, <1>3, <2>2 DEF HeldByFile
    <3>. QED BY <1>2, <3>1
  <2>3. CASE DOMAIN logs # {} /\ b \notin DOMAIN logs
    <3>1. segments # <<>>
      BY <2>3 DEF OrderInv, SegmentsCover, Leftover
    <3>2. Active.base \in DOMAIN logs /\ \A c \in DOMAIN logs : c <= Active.base
      <4>1. \A c \in DOMAIN logs : ~ Leftover(c)
        BY <2>3 DEF Leftover
      <4>. QED BY <3>1, <4>1, ActiveLast
    <3>3. NextMessage = EndOf(Active.base)
      BY <1>1, <3>2 DEF HeldByFile
    <3>4. Active.base # b
      BY <2>3, <3>2
    <3>. QED BY <1>3, <3>2, <3>3, <3>4
  <2>. QED BY <2>1, <2>2, <2>3
<1>8. ASSUME NEW o \in DOMAIN Messages'
      PROVE  o \in DOMAIN Messages /\ Messages'[o] = Messages[o]
  <2>1. PICK c \in DOMAIN logs' : o \in c .. EndOf(c)' - 1
    BY <1>1 DEF HeldByFile
  <2>2. c # b
    BY <1>2, <2>1
  <2>3. c \in DOMAIN logs /\ o \in c .. EndOf(c) - 1
    BY <1>4, <1>5, <2>1, <2>2
  <2>4. Messages'[o] = logs'[c].msgs[o - c + 1]
    BY <1>1, <2>1 DEF HeldByFile
  <2>5. o \in DOMAIN Messages /\ Messages[o] = logs[c].msgs[o - c + 1]
    BY <1>1, <2>3 DEF HeldByFile
  <2>. QED BY <1>4, <2>3, <2>4, <2>5
<1>. QED BY <1>2, <1>6, <1>7, <1>8 DEF Stable

LEMMA AppendStable ==
  ASSUME OrderInv, OrderInv', AppendMessage PROVE Stable
<1>. PICK a : a = Active.base
  OBVIOUS
<1>1. HeldByFile /\ HeldByFile'
  BY HeldHere, HeldNext
<1>2. pc = "append" /\ segments # <<>> /\ pending # <<>> /\ TypeOK
  BY DEF AppendMessage, OrderInv, FaultsControl
<1>3. a \in DOMAIN logs /\ a \in Nat /\ EndOf(a) \in Nat /\ \A c \in DOMAIN logs : c <= a
  BY <1>2, ActiveLast, FileTypes DEF Leftover
<1>4. /\ DOMAIN logs' = DOMAIN logs
      /\ \A c \in DOMAIN logs : c # a => logs'[c] = logs[c] /\ EndOf(c)' = EndOf(c)
      /\ logs'[a].msgs = Append(logs[a].msgs, pending[1])
      /\ EndOf(a)' = EndOf(a) + 1
  BY Written
<1>5. NextMessage = EndOf(a) /\ NextMessage' = EndOf(a) + 1
  BY <1>1, <1>3, <1>4 DEF HeldByFile
<1>6. ASSUME NEW o \in DOMAIN Messages', o < EndOf(a)
      PROVE  o \in DOMAIN Messages /\ Messages'[o] = Messages[o]
  <2>1. PICK c \in DOMAIN logs : o \in c .. EndOf(c)' - 1
    BY <1>1, <1>4 DEF HeldByFile
  <2>2. c \in Nat /\ EndOf(c) \in Nat
    BY <1>2, FileTypes
  <2>3. o \in c .. EndOf(c) - 1
    BY <1>3, <1>4, <1>6, <2>1, <2>2
  <2>4. Messages'[o] = logs'[c].msgs[o - c + 1]
    BY <1>1, <1>4, <2>1 DEF HeldByFile
  <2>5. o \in DOMAIN Messages /\ Messages[o] = logs[c].msgs[o - c + 1]
    BY <1>1, <2>3 DEF HeldByFile
  <2>6. logs'[c].msgs[o - c + 1] = logs[c].msgs[o - c + 1]
    <3>1. CASE c # a
      BY <1>4, <3>1
    <3>2. CASE c = a
      <4>1. logs[a].msgs \in Seq(Payload) /\ pending[1] \in Payload
        BY <1>2, <1>3, FileTypes DEF TypeOK
      <4>2. PICK k : k = o - c + 1
        OBVIOUS
      <4>3. k \in 1 .. Len(logs[a].msgs)
        BY SMTT(40), <1>3, <2>3, <3>2, <4>1, <4>2 DEF EndOf
      <4>4. Append(logs[a].msgs, pending[1])[k] = logs[a].msgs[k]
        BY <4>1, <4>3
      <4>. QED BY <1>4, <3>2, <4>2, <4>4
    <3>. QED BY <3>1, <3>2
  <2>. QED BY <2>4, <2>5, <2>6
<1>7. ASSUME NEW o \in DOMAIN Messages', ~ (o < EndOf(a))
      PROVE  o \notin DOMAIN Messages /\ o >= EndOf(a)
  <2>1. PICK c \in DOMAIN logs : o \in c .. EndOf(c)' - 1
    BY <1>1, <1>4 DEF HeldByFile
  <2>2. c \in Nat /\ EndOf(c) \in Nat
    BY <1>2, FileTypes
  <2>3. o \in Int
    BY <2>2, <2>1
  <2>4. ASSUME NEW d \in DOMAIN logs, o \in d .. EndOf(d) - 1 PROVE FALSE
    <3>1. d \in Nat /\ EndOf(d) \in Nat
      BY <1>2, FileTypes
    <3>2. d # a
      BY <1>3, <1>7, <2>3, <2>4
    <3>3. EndOf(d) <= a
      BY <1>3, <3>1, <3>2 DEF OrderInv, FilesInOrder, FilesApart
    <3>4. a <= EndOf(a)
      BY <1>2, <1>3, FileTypes
    <3>. QED BY <1>3, <1>7, <2>3, <2>4, <3>1, <3>3, <3>4
  <2>. QED BY <1>1, <1>3, <1>7, <2>3, <2>4 DEF HeldByFile
<1>. QED BY <1>3, <1>5, <1>6, <1>7 DEF Stable

LEMMA RemoveLogStable ==
  ASSUME OrderInv, OrderInv', NEW i \in DOMAIN segments, RemoveLogOf(i) PROVE Stable
<1>. PICK b : b = segments[i].base
  OBVIOUS
<1>. PICK a : a = Active.base
  OBVIOUS
<1>1. HeldByFile /\ HeldByFile'
  BY HeldHere, HeldNext
<1>2. pc = "clean" /\ Current(i) /\ logs' = WithoutLog(b)
  BY DEF RemoveLogOf
<1>3. TypeOK /\ segments # <<>>
  BY <1>2 DEF OrderInv, FaultsControl
<1>4. /\ a \in DOMAIN logs /\ a # b /\ EndOf(a) \in Nat
      /\ \A c \in DOMAIN logs : c <= a
  <2>1. i # Len(segments)
    BY <1>2 DEF Current, Victim
  <2>2. a \in DOMAIN logs /\ b < a /\ a \in Nat /\ \A c \in DOMAIN logs : c <= a
    BY <1>2, <1>3, <2>1, ActiveLast DEF Leftover
  <2>. QED BY <1>3, <2>2, FileTypes
<1>5. /\ DOMAIN logs' = DOMAIN logs \ {b}
      /\ \A c \in DOMAIN logs' : logs'[c] = logs[c] /\ EndOf(c)' = EndOf(c)
  BY <1>2 DEF WithoutLog, EndOf
<1>6. NextMessage = EndOf(a) /\ NextMessage' = EndOf(a)
  BY <1>1, <1>4, <1>5 DEF HeldByFile
<1>7. ASSUME NEW o \in DOMAIN Messages'
      PROVE  o \in DOMAIN Messages /\ Messages'[o] = Messages[o]
  <2>1. PICK c \in DOMAIN logs' : o \in c .. EndOf(c)' - 1
    BY <1>1 DEF HeldByFile
  <2>2. c \in DOMAIN logs /\ o \in c .. EndOf(c) - 1
    BY <1>5, <2>1
  <2>3. Messages'[o] = logs'[c].msgs[o - c + 1]
    BY <1>1, <2>1 DEF HeldByFile
  <2>4. o \in DOMAIN Messages /\ Messages[o] = logs[c].msgs[o - c + 1]
    BY <1>1, <2>2 DEF HeldByFile
  <2>. QED BY <1>5, <2>1, <2>3, <2>4
<1>. QED BY <1>4, <1>6, <1>7 DEF Stable

LEMMA StepStable ==
  ASSUME OrderInv, OrderInv', NextMessage \in Nat, [NextFaults]_allVars PROVE Stable
<1>1. CASE MakeLog \/ CreateFails
  <2>1. CASE pc = "log" /\ logs' = WithLog(NewBase, NewFile)
    BY <2>1, NewFileStable
  <2>2. CASE UNCHANGED logs
    <3>1. UNCHANGED doomed
      BY <1>1 DEF MakeLog, CreateFails
    <3>. QED BY <2>2, <3>1, SameLogs
  <2>. QED BY <1>1, <2>1, <2>2 DEF MakeLog, CreateFails
<1>2. CASE AppendMessage
  BY <1>2, AppendStable
<1>3. CASE \E i \in DOMAIN segments : RemoveLogOf(i)
  BY <1>3, RemoveLogStable
<1>4. CASE Open \/ LoadSegment \/ LoadDone \/ MakeIndex \/ Tick
  BY <1>4, SameLogs DEF Open, LoadSegment, LoadDone, MakeIndex, Tick, disk
<1>5. CASE \E p \in Payload : Write(p)
  BY <1>5, SameLogs DEF Write, disk
<1>6. CASE \E i \in DOMAIN segments : RemoveIndexOf(i) \/ UnlinkFails(i)
  BY <1>6, SameLogs DEF RemoveIndexOf, UnlinkFails, disk
<1>7. CASE PassDone \/ ClockBack \/ Stop
  BY <1>7, SameLogs DEF PassDone, ClockBack, Stop, Close, Crash, disk
<1>8. CASE \E o \in 0 .. MaxOffset : ReadClosed(o)
  BY <1>8, SameLogs DEF ReadClosed, disk
<1>9. CASE UNCHANGED allVars
  BY <1>9, SameLogs DEF allVars, vars, disk
<1>. QED BY <1>1, <1>2, <1>3, <1>4, <1>5, <1>6, <1>7, <1>8, <1>9 DEF NextFaults, Unharmed

-----------------------------------------------------------------------------
(* The bytes                                                               *)

\* What the sums are over, while the log files and the list stay.
LEMMA QuietBytes ==
  ASSUME BytesInv, UNCHANGED <<logs, segments, physicalSize, closed>>,
         pc # "unlink", pc' # "unlink",
         pc' = "load" => pc = "load" \/ segments = <<>>,
         pc' \notin {"down", "load"} => pc \notin {"down", "load"} \/ NotLoaded = {}
  PROVE  /\ IsFiniteSet(DOMAIN logs)' /\ TotalCovers' /\ FilesBounded'
         /\ SumFunctionOnSet(FileSize, Spared)' = SumFunctionOnSet(FileSize, Spared)
         /\ Active' = Active
<1>1. /\ FileSize' = FileSize /\ Loaded' = Loaded /\ DiskBytes' = DiskBytes
      /\ Active' = Active /\ Spared' = Spared
  BY DEF FileSize, Loaded, DiskBytes, Active, Spared
<1>2. IsFiniteSet(DOMAIN logs)' /\ FilesBounded'
  BY DEF BytesInv, FilesBounded, LargestRecord
<1>3. pc' = "load" => physicalSize = SumFunctionOnSet(FileSize, Loaded)
  <2>1. CASE pc = "load"
    BY <2>1 DEF BytesInv, TotalCovers
  <2>2. CASE segments = <<>>
    <3>1. DOMAIN segments = {}
      BY <2>2
    <3>2. Loaded = {}
      BY <3>1 DEF Loaded
    <3>. QED BY <2>2, <3>2, SumEmpty DEF BytesInv, TotalCovers
  <2>. QED BY <2>1, <2>2
<1>4. pc' \notin {"down", "load", "unlink"} => physicalSize >= DiskBytes
  <2>. SUFFICES ASSUME pc' \notin {"down", "load", "unlink"}
                PROVE  physicalSize >= DiskBytes
    OBVIOUS
  <2>1. TypeOK /\ physicalSize \in Int /\ DiskBytes = SumFunctionOnSet(FileSize, DOMAIN logs)
    BY DiskBytesSum DEF BytesInv, OrderInv, TypeOK
  <2>2. CASE pc \notin {"down", "load"}
    BY <2>2 DEF BytesInv, TotalCovers
  <2>3. CASE pc \in {"down", "load"} /\ NotLoaded = {}
    <3>1. Loaded = DOMAIN logs
      BY <2>3 DEF NotLoaded, Loaded
    <3>2. CASE pc = "load"
      BY <2>1, <3>1, <3>2 DEF BytesInv, TotalCovers
    <3>3. CASE pc = "down"
      <4>1. segments = <<>> /\ physicalSize = 0
        BY <3>3 DEF BytesInv, TotalCovers, OrderInv, FaultsControl
      <4>2. DOMAIN segments = {}
        BY <4>1
      <4>3. Loaded = {}
        BY <4>2 DEF Loaded
      <4>. QED BY <2>1, <3>1, <4>1, <4>3, SumEmpty
    <3>. QED BY <2>3, <3>2, <3>3
  <2>. QED BY <2>2, <2>3
<1>5. TotalCovers'
  BY <1>1, <1>3, <1>4 DEF BytesInv, TotalCovers, HalfGone
<1>. QED BY <1>1, <1>2, <1>5

LEMMA BytesInit == InitFaults => BytesInv
<1>. SUFFICES ASSUME InitFaults PROVE BytesInv
  OBVIOUS
<1>1. OrderInv
  BY OrderInit
<1>2. DOMAIN logs = {} /\ segments = <<>> /\ physicalSize = 0 /\ pc = "down" /\ pending = <<>>
  BY DEF InitFaults, Init
<1>3. IsFiniteSet(DOMAIN logs)
  BY <1>2, FS_EmptySet
<1>4. TotalCovers /\ FilesBounded /\ OpenBounded /\ RoomSound
  BY <1>2 DEF TotalCovers, FilesBounded, OpenBounded, RoomSound, HalfGone
<1>. QED BY <1>1, <1>3, <1>4 DEF BytesInv

LEMMA BytesOpen ==
  ASSUME BytesInv, Open \/ Tick, UNCHANGED extra PROVE BytesInv'
<1>1. /\ UNCHANGED <<logs, segments, physicalSize, pending, closed>>
      /\ pc # "unlink" /\ pc' # "unlink"
      /\ pc' = pc \/ (pc = "down" /\ pc' = "load")
  <2>1. CASE Open
    BY <2>1 DEF Open, disk, extra
  <2>2. CASE Tick
    BY <2>2 DEF Tick, memory, extra
  <2>. QED BY <2>1, <2>2
<1>2. OrderInv /\ OrderInv'
  BY OrderOpen, OrderTick DEF BytesInv
<1>3. pc = "down" => segments = <<>> /\ pending = <<>>
  BY <1>2 DEF OrderInv, FaultsControl
<1>4. /\ IsFiniteSet(DOMAIN logs)' /\ TotalCovers' /\ FilesBounded'
      /\ SumFunctionOnSet(FileSize, Spared)' = SumFunctionOnSet(FileSize, Spared)
      /\ Active' = Active
  BY <1>1, <1>3, QuietBytes
<1>5. OpenBounded' /\ RoomSound'
  BY <1>1, <1>3, <1>4 DEF BytesInv, OpenBounded, RoomSound
<1>. QED BY <1>2, <1>4, <1>5 DEF BytesInv

LEMMA BytesClockBack == ASSUME BytesInv, ClockBack PROVE BytesInv'
<1>1. /\ UNCHANGED <<logs, segments, physicalSize, pending, closed, pc>>
      /\ pc # "unlink" /\ pc' # "unlink"
  BY DEF ClockBack, memory
<1>2. OrderInv /\ OrderInv'
  BY OrderClockBack DEF BytesInv
<1>3. /\ IsFiniteSet(DOMAIN logs)' /\ TotalCovers' /\ FilesBounded'
      /\ SumFunctionOnSet(FileSize, Spared)' = SumFunctionOnSet(FileSize, Spared)
      /\ Active' = Active
  BY <1>1, QuietBytes
<1>4. OpenBounded' /\ RoomSound'
  BY <1>1, <1>3 DEF BytesInv, OpenBounded, RoomSound
<1>. QED BY <1>2, <1>3, <1>4 DEF BytesInv

LEMMA BytesLoadDone == ASSUME BytesInv, LoadDone, UNCHANGED extra PROVE BytesInv'
<1>1. /\ UNCHANGED <<logs, segments, physicalSize, pending, closed>>
      /\ pc = "load" /\ NotLoaded = {} /\ pc' = IF segments = <<>> THEN "index" ELSE "clean"
  BY DEF LoadDone, disk, extra
<1>2. OrderInv /\ OrderInv' /\ pending = <<>>
  BY <1>1, OrderLoadDone DEF BytesInv, OrderInv, FaultsControl
<1>3. /\ IsFiniteSet(DOMAIN logs)' /\ TotalCovers' /\ FilesBounded'
  BY <1>1, QuietBytes
<1>4. OpenBounded' /\ RoomSound'
  BY <1>1, <1>2 DEF OpenBounded, RoomSound
<1>. QED BY <1>2, <1>3, <1>4 DEF BytesInv

LEMMA BytesMakeIndex ==
  ASSUME BytesInv, MakeIndex \/ CreateFails, UNCHANGED <<logs, extra>> PROVE BytesInv'
<1>1. /\ UNCHANGED <<logs, segments, physicalSize, closed>>
      /\ pc \in {"index", "log"} /\ pc' \in {"log", "idle", "down"}
      /\ pc' = "idle" => pending' = <<>>
      /\ pc' = "down" => pending' = <<>>
  BY DEF MakeIndex, CreateFails, extra
<1>2. OrderInv /\ OrderInv'
  BY OrderMakeIndex, OrderCreateFails DEF BytesInv
<1>3. /\ IsFiniteSet(DOMAIN logs)' /\ TotalCovers' /\ FilesBounded'
      /\ SumFunctionOnSet(FileSize, Spared)' = SumFunctionOnSet(FileSize, Spared)
  BY <1>1, QuietBytes
<1>4. OpenBounded' /\ RoomSound'
  BY <1>1, <1>3 DEF BytesInv, OpenBounded, RoomSound
<1>. QED BY <1>2, <1>3, <1>4 DEF BytesInv

LEMMA BytesWrite ==
  ASSUME BytesInv, NEW p \in Payload, Write(p), UNCHANGED extra PROVE BytesInv'
<1>1. /\ UNCHANGED <<logs, segments, physicalSize, closed>>
      /\ pc = "idle" /\ pc' = IF Active.size > MaxSegmentSize THEN "index" ELSE "append"
  BY DEF Write, IsFull, disk, extra
<1>2. OrderInv /\ OrderInv'
  BY OrderWrite DEF BytesInv
<1>3. /\ IsFiniteSet(DOMAIN logs)' /\ TotalCovers' /\ FilesBounded'
      /\ SumFunctionOnSet(FileSize, Spared)' = SumFunctionOnSet(FileSize, Spared)
      /\ Active' = Active
  BY <1>1, QuietBytes
<1>4. Active.size \in Nat
  <2>1. segments # <<>> /\ TypeOK
    BY <1>1, <1>2 DEF OrderInv, FaultsControl
  <2>. QED BY <2>1, ListOf, SegmentTypes
<1>5. OpenBounded' /\ RoomSound'
  BY <1>1, <1>3, <1>4, LimitsNat DEF BytesInv, OpenBounded, RoomSound
<1>. QED BY <1>2, <1>3, <1>5 DEF BytesInv

\* A pass ends with every file that may go gone or closed, if the total is over
\* the limit; otherwise the files, being no more than the total, are within it.
LEMMA BytesPassDone == ASSUME BytesInv, PassDone PROVE BytesInv'
<1>1. /\ UNCHANGED <<logs, segments, physicalSize, pending, closed>>
      /\ pc = "clean" /\ pc' \in {"idle", "append"}
      /\ \A i \in DOMAIN segments : Victim(i) => segments[i].base \in passed
  BY DEF PassDone, disk
<1>2. OrderInv /\ OrderInv'
  BY OrderPassDone DEF BytesInv
<1>3. /\ IsFiniteSet(DOMAIN logs)' /\ TotalCovers' /\ FilesBounded'
      /\ SumFunctionOnSet(FileSize, Spared)' = SumFunctionOnSet(FileSize, Spared)
      /\ Active' = Active
  BY <1>1, QuietBytes
<1>4. ASSUME MaxPartitionSize # 0
      PROVE  SumFunctionOnSet(FileSize, Spared) <= MaxPartitionSize
  <2>1. TypeOK /\ IsFiniteSet(DOMAIN logs) /\ segments # <<>>
    BY <1>1, <1>2 DEF BytesInv, OrderInv, FaultsControl
  <2>2. CASE physicalSize > MaxPartitionSize
    <3>1. \A i \in DOMAIN segments : i # Len(segments) => segments[i].base \in closed
      BY <1>1, <1>2, <1>4, <2>2 DEF Victim, PartitionTooLarge, OrderInv, ClosedListed
    <3>2. Active = segments[Len(segments)]
      BY <2>1, ListOf
    <3>3. ASSUME NEW b \in DOMAIN logs \ closed PROVE b = Active.base
      <4>1. PICK i \in DOMAIN segments : segments[i].base = b
        BY <1>1, <1>2 DEF OrderInv, SegmentsCover, Leftover
      <4>. QED BY <3>1, <3>2, <4>1
    <3>4. Spared = {}
      BY <3>3 DEF Spared
    <3>. QED BY <3>4, SumEmpty, LimitsNat
  <2>3. CASE ~ (physicalSize > MaxPartitionSize)
    <3>1. /\ physicalSize >= SumFunctionOnSet(FileSize, DOMAIN logs)
          /\ physicalSize \in Int
      BY <1>1, <2>1, DiskBytesSum DEF BytesInv, TotalCovers, TypeOK
    <3>. PICK S : S = Spared
      OBVIOUS
    <3>2. S \in SUBSET DOMAIN logs
      BY DEF Spared
    <3>3. /\ SumFunctionOnSet(FileSize, DOMAIN logs) \in Nat
          /\ SumFunctionOnSet(FileSize, S) \in Nat
          /\ SumFunctionOnSet(FileSize, S) <= SumFunctionOnSet(FileSize, DOMAIN logs)
      BY <2>1, <3>2, PartBytes
    <3>. QED BY <2>3, <3>1, <3>3, LimitsNat
  <2>. QED BY <2>2, <2>3
<1>5. OpenBounded' /\ RoomSound'
  BY <1>1, <1>3, <1>4 DEF BytesInv, OpenBounded, RoomSound
<1>. QED BY <1>2, <1>3, <1>5 DEF BytesInv

LEMMA BytesLost ==
  ASSUME BytesInv, OrderInv', LoseMemory, pc' = "down", UNCHANGED logs PROVE BytesInv'
<1>1. segments' = <<>> /\ physicalSize' = 0 /\ pending' = <<>>
  BY DEF LoseMemory
<1>2. FilesBounded' /\ IsFiniteSet(DOMAIN logs)'
  BY DEF BytesInv, FilesBounded, LargestRecord
<1>3. TotalCovers' /\ OpenBounded' /\ RoomSound'
  BY <1>1 DEF TotalCovers, HalfGone, OpenBounded, RoomSound
<1>. QED BY <1>2, <1>3 DEF BytesInv

LEMMA BytesStop == ASSUME BytesInv, Stop PROVE BytesInv'
BY BytesLost, OrderStop DEF BytesInv, Stop, Close, Crash, disk

LEMMA BytesReadClosed ==
  ASSUME BytesInv, NEW o \in 0 .. MaxOffset, ReadClosed(o) PROVE BytesInv'
BY BytesLost, OrderReadClosed DEF BytesInv, ReadClosed, disk

LEMMA BytesLoadSegment == ASSUME BytesInv, LoadSegment, UNCHANGED extra PROVE BytesInv'
<1>. PICK b \in NotLoaded : /\ segments' = Append(segments, OpenedSegment(b))
                            /\ physicalSize' = physicalSize + logs[b].bytes
  BY DEF LoadSegment
<1>1. /\ pc = "load" /\ pc' = "load" /\ UNCHANGED <<logs, pending>>
  BY DEF LoadSegment
<1>2. OrderInv /\ OrderInv' /\ TypeOK /\ pending = <<>> /\ IsFiniteSet(DOMAIN logs)
  BY <1>1, OrderLoadSegment DEF BytesInv, OrderInv, FaultsControl
<1>. PICK n : n = Len(segments)
  OBVIOUS
<1>3. /\ n \in Nat /\ DOMAIN segments = 1 .. n /\ DOMAIN segments' = 1 .. n + 1
      /\ \A i \in 1 .. n : segments'[i] = segments[i]
      /\ segments'[n + 1].base = b /\ segments' # <<>>
  BY <1>2 DEF TypeOK, OpenedSegment
<1>4. b \in DOMAIN logs /\ b \notin Loaded
  BY DEF NotLoaded, Loaded
<1>. PICK T : T = Loaded \cup {b}
  OBVIOUS
<1>5. Loaded' = T
  <2>1. \A i \in 1 .. n : i \in 1 .. n + 1
    BY <1>3
  <2>2. n + 1 \in 1 .. n + 1 /\ \A i \in 1 .. n + 1 : i # n + 1 => i \in 1 .. n
    BY <1>3
  <2>3. {segments'[i].base : i \in 1 .. n + 1} = {segments[i].base : i \in 1 .. n} \cup {b}
    BY <1>3, <2>1, <2>2
  <2>. QED BY <1>1, <1>3, <1>4, <2>3 DEF Loaded
<1>6. IsFiniteSet(Loaded) /\ Loaded \subseteq DOMAIN logs
  BY <1>2, FS_Subset DEF Loaded
<1>7. IsFiniteSet(T) /\ b \in T /\ T \ {b} = Loaded
  BY <1>4, <1>6, FS_AddElement
<1>8. /\ \A x \in Loaded : FileSize[x] \in Int
      /\ FileSize[b] = logs[b].bytes /\ FileSize[b] \in Int
  BY <1>2, <1>4, <1>6, Sizes
<1>9. SumFunctionOnSet(FileSize, T) = SumFunctionOnSet(FileSize, T \ {b}) + FileSize[b]
  BY <1>7, <1>8, SumAdd
<1>10. physicalSize = SumFunctionOnSet(FileSize, Loaded)
  BY <1>1 DEF BytesInv, TotalCovers
<1>11. physicalSize' = SumFunctionOnSet(FileSize, T)
  BY <1>7, <1>8, <1>9, <1>10
<1>12. FileSize' = FileSize
  BY <1>1 DEF FileSize
<1>13. TotalCovers'
  BY <1>1, <1>3, <1>5, <1>11, <1>12 DEF TotalCovers, HalfGone
<1>14. IsFiniteSet(DOMAIN logs)' /\ FilesBounded'
  BY <1>1 DEF BytesInv, FilesBounded, LargestRecord
<1>15. OpenBounded' /\ RoomSound'
  BY <1>1, <1>2 DEF OpenBounded, RoomSound
<1>. QED BY <1>2, <1>13, <1>14, <1>15 DEF BytesInv

\* The file of a rollover adds no byte, whether it was there already or not.
LEMMA NewFileBytes ==
  ASSUME OrderInv, pc = "log", logs' = WithLog(NewBase, NewFile), TypeOK',
         IsFiniteSet(DOMAIN logs), FilesBounded, NEW b, b = NewBase
  PROVE  /\ b \notin closed /\ DOMAIN logs' = DOMAIN logs \cup {b} /\ IsFiniteSet(DOMAIN logs')
         /\ \A S \in SUBSET DOMAIN logs :
              SumFunctionOnSet(FileSize', S \cup {b}) = SumFunctionOnSet(FileSize, S)
         /\ DiskBytes' = DiskBytes /\ FilesBounded'
<1>. PICK f : f = NewFile
  OBVIOUS
<1>1. /\ f.bytes = 0 /\ b \notin closed
      /\ DOMAIN logs' = DOMAIN logs \cup {b} /\ logs'[b] = f
      /\ \A c \in DOMAIN logs : logs'[c] = logs[c]
  BY NewFileOrder
<1>. PICK h : h = FileSize'
  OBVIOUS
<1>2. TypeOK /\ IsFiniteSet(DOMAIN logs')
  BY <1>1, FS_AddElement DEF OrderInv
<1>3. /\ h[b] = 0
      /\ \A c \in DOMAIN logs : h[c] = FileSize[c] /\ FileSize[c] \in Int
  <2>1. \A c \in DOMAIN logs : FileSize[c] = logs[c].bytes /\ FileSize[c] \in Int
    BY <1>2, Sizes
  <2>2. \A c \in DOMAIN logs' : h[c] = logs'[c].bytes
    BY DEF FileSize
  <2>. QED BY <1>1, <2>1, <2>2
<1>4. ASSUME NEW S \in SUBSET DOMAIN logs
      PROVE  SumFunctionOnSet(h, S \cup {b}) = SumFunctionOnSet(FileSize, S)
  <2>1. IsFiniteSet(S) /\ \A c \in S : h[c] = FileSize[c] /\ h[c] \in Int
    BY <1>3, FS_Subset
  <2>2. SumFunctionOnSet(h, S) = SumFunctionOnSet(FileSize, S)
    BY <2>1, SumAgree
  <2>3. CASE b \in S
    <3>1. S \cup {b} = S
      BY <2>3
    <3>. QED BY <2>2, <3>1
  <2>4. CASE b \notin S
    <3>. PICK T : T = S \cup {b}
      OBVIOUS
    <3>1. b \in T /\ T \ {b} = S /\ IsFiniteSet(T)
      BY <2>1, <2>4, FS_AddElement
    <3>2. \A c \in T : h[c] \in Int
      BY <1>3, <2>1
    <3>3. SumFunctionOnSet(h, T) = h[b] + SumFunctionOnSet(h, S)
      BY <3>1, <3>2, SumRemove
    <3>4. SumFunctionOnSet(h, S) \in Int
      BY <2>1, SumInt
    <3>. QED BY <1>3, <2>2, <3>3, <3>4
  <2>. QED BY <2>3, <2>4
<1>5. DiskBytes' = DiskBytes
  <2>1. (TypeOK => DiskBytes = SumFunctionOnSet(FileSize, DOMAIN logs))'
    BY DiskBytesSum, PTL
  <2>2. DiskBytes = SumFunctionOnSet(FileSize, DOMAIN logs)
    BY <1>2, DiskBytesSum
  <2>3. SumFunctionOnSet(h, DOMAIN logs') = SumFunctionOnSet(FileSize, DOMAIN logs)
    BY <1>1, <1>4
  <2>. QED BY <2>1, <2>2, <2>3
<1>6. FilesBounded'
  <2>1. 0 <= MaxSegmentSize + LargestRecord
    BY LimitsNat, RecordBound
  <2>. QED BY <1>1, <2>1 DEF FilesBounded, LargestRecord
<1>. QED BY <1>1, <1>2, <1>4, <1>5, <1>6

LEMMA BytesMakeLog == ASSUME BytesInv, MakeLog, UNCHANGED extra PROVE BytesInv'
<1>. PICK b : b = NewBase
  OBVIOUS
<1>. PICK file : file = NewFile
  OBVIOUS
<1>. PICK e : e = [base |-> b, next |-> b + Len(file.msgs), size |-> file.bytes,
                   mtime |-> file.mtime]
  OBVIOUS
<1>0. pc = "log" /\ logs' = WithLog(NewBase, NewFile)
  BY DEF MakeLog
<1>1. /\ segments' = Append(segments, e)
      /\ pc' \in {"append", "clean"}
      /\ pc' = "append" => MaxPartitionSize = 0
      /\ UNCHANGED <<physicalSize, pending, closed>>
  BY DEF MakeLog, extra
<1>2. OrderInv /\ OrderInv' /\ TypeOK /\ TypeOK' /\ IsFiniteSet(DOMAIN logs)
  BY OrderMakeLog DEF BytesInv, OrderInv
<1>4. file.bytes = 0
  BY <1>0, <1>2, NewFileOrder
<1>10. DiskBytes' = DiskBytes /\ FilesBounded' /\ IsFiniteSet(DOMAIN logs')
  BY <1>0, <1>2, NewFileBytes DEF BytesInv
<1>11. segments' # <<>> /\ Active'.size = 0
  <2>1. /\ Len(segments) \in Nat /\ segments' # <<>>
        /\ Len(segments') = Len(segments) + 1 /\ segments'[Len(segments) + 1] = e
    <3>1. segments \in Seq(SegmentObject)
      BY <1>2 DEF TypeOK
    <3>. QED BY <1>1, <3>1
  <2>. QED BY <1>4, <2>1 DEF Active, Last
<1>12. TotalCovers'
  <2>1. physicalSize >= DiskBytes
    BY <1>0 DEF BytesInv, TotalCovers
  <2>. QED BY <1>1, <1>10, <1>11, <2>1 DEF TotalCovers, HalfGone
<1>13. OpenBounded' /\ RoomSound'
  BY <1>1, <1>11, LimitsNat DEF OpenBounded, RoomSound
<1>. QED BY <1>2, <1>10, <1>12, <1>13 DEF BytesInv

LEMMA BytesCreateFails == ASSUME BytesInv, CreateFails, UNCHANGED extra PROVE BytesInv'
<1>1. CASE UNCHANGED logs
  BY <1>1, BytesMakeIndex
<1>2. CASE pc = "log" /\ logs' = WithLog(NewBase, NewFile)
  <2>. PICK b : b = NewBase
    OBVIOUS
  <2>1. /\ pc' = (IF pending = <<>> THEN "down" ELSE "idle") /\ pending' = <<>>
        /\ UNCHANGED <<segments, physicalSize, closed>>
    BY DEF CreateFails, extra
  <2>2. OrderInv /\ OrderInv' /\ TypeOK /\ TypeOK' /\ IsFiniteSet(DOMAIN logs)
    BY OrderCreateFails DEF BytesInv, OrderInv
  <2>3. /\ b \notin closed /\ DOMAIN logs' = DOMAIN logs \cup {b} /\ IsFiniteSet(DOMAIN logs')
        /\ \A S \in SUBSET DOMAIN logs :
             SumFunctionOnSet(FileSize', S \cup {b}) = SumFunctionOnSet(FileSize, S)
        /\ DiskBytes' = DiskBytes /\ FilesBounded'
    BY <1>2, <2>2, NewFileBytes DEF BytesInv
  <2>4. TotalCovers'
    <3>1. pc = "log" /\ pc' \in {"down", "idle"}
      BY <1>2, <2>1
    <3>. QED BY <2>1, <2>3, <3>1 DEF BytesInv, TotalCovers, HalfGone
  <2>5. OpenBounded'
    <3>. SUFFICES ASSUME MaxPartitionSize # 0, segments # <<>>
                  PROVE  SumFunctionOnSet(FileSize, Spared)' <= MaxPartitionSize
      BY <2>1 DEF OpenBounded
    <3>1. Active.base # b /\ Active' = Active
      <4>1. Len(segments) \in DOMAIN segments /\ Active = segments[Len(segments)]
        BY <1>2, <2>2, ActiveLast
      <4>2. Active.base < b /\ b \in Nat
        BY <1>2, <2>2, <4>1, NewBaseIsNew
      <4>. QED BY <2>1, <4>2 DEF Active
    <3>2. Spared' = Spared \cup {b} /\ Spared \in SUBSET DOMAIN logs
      BY <2>1, <2>3, <3>1 DEF Spared
    <3>3. SumFunctionOnSet(FileSize, Spared) <= MaxPartitionSize
      BY <1>2 DEF BytesInv, OpenBounded
    <3>. QED BY <2>3, <3>2, <3>3
  <2>6. RoomSound'
    BY <2>1 DEF RoomSound
  <2>. QED BY <2>2, <2>3, <2>4, <2>5, <2>6 DEF BytesInv
<1>. QED BY <1>1, <1>2 DEF CreateFails

\* Only the last file grows, and it was not full.
LEMMA BytesAppendMessage ==
  ASSUME BytesInv, AppendMessage, UNCHANGED extra PROVE BytesInv'
<1>. PICK n : n = Len(segments)
  OBVIOUS
<1>. PICK a : a = Active.base
  OBVIOUS
<1>. PICK h : h = FileSize'
  OBVIOUS
<1>. PICK T : T = DOMAIN logs
  OBVIOUS
<1>1. pc = "append" /\ pc' = "idle" /\ pending' = <<>> /\ closed' = closed
  BY DEF AppendMessage, extra
<1>2. OrderInv /\ OrderInv' /\ TypeOK /\ TypeOK' /\ segments # <<>> /\ pending # <<>>
      /\ IsFiniteSet(T)
  BY <1>1, OrderAppendMessage DEF BytesInv, OrderInv, FaultsControl
<1>3. /\ n \in Nat \ {0} /\ Active = segments[n]
      /\ a \in T \ closed /\ Active.size = logs[a].bytes
  BY <1>1, <1>2, ActiveLast
<1>4. PICK added \in Nat :
        /\ DOMAIN logs' = T
        /\ \A c \in T : c # a => logs'[c] = logs[c]
        /\ segments' # <<>> /\ Len(segments') = n
        /\ segments'[n].base = a
        /\ added <= LargestRecord
        /\ logs'[a].bytes = logs[a].bytes + added
        /\ physicalSize' = physicalSize + added
  BY <1>2, <1>3, Written
<1>5. /\ \A c \in T : FileSize[c] = logs[c].bytes /\ FileSize[c] \in Int
      /\ \A c \in T \ {a} : h[c] = FileSize[c]
      /\ h[a] = FileSize[a] + added /\ h[a] \in Int
  <2>1. \A c \in T : FileSize[c] = logs[c].bytes /\ FileSize[c] \in Int
    BY <1>2, Sizes
  <2>2. \A c \in T : h[c] = logs'[c].bytes
    BY <1>4 DEF FileSize
  <2>. QED BY <1>3, <1>4, <2>1, <2>2
<1>6. SumFunctionOnSet(h, T) = SumFunctionOnSet(FileSize, T) - FileSize[a] + h[a]
  BY <1>2, <1>3, <1>5, SumChange
<1>7. DiskBytes = SumFunctionOnSet(FileSize, T) /\ DiskBytes \in Int
  BY <1>2, <1>5, DiskBytesSum, SumInt
<1>8. DiskBytes' = SumFunctionOnSet(h, T)
  <2>1. (TypeOK => DiskBytes = SumFunctionOnSet(FileSize, DOMAIN logs))'
    BY DiskBytesSum, PTL
  <2>. QED BY <1>2, <1>4, <2>1
<1>9. DiskBytes' = DiskBytes + added
  BY <1>3, <1>5, <1>6, <1>7, <1>8
<1>10. TotalCovers'
  <2>1. physicalSize >= DiskBytes /\ physicalSize \in Int
    BY <1>1, <1>2 DEF BytesInv, TotalCovers, TypeOK
  <2>2. physicalSize' >= DiskBytes'
    BY <1>4, <1>7, <1>9, <2>1
  <2>. QED BY <1>1, <1>4, <2>2 DEF TotalCovers, HalfGone
<1>11. FilesBounded'
  <2>1. logs[a].bytes <= MaxSegmentSize /\ logs[a].bytes \in Nat
    BY <1>1, <1>2, <1>3, FileTypes DEF BytesInv, RoomSound
  <2>2. logs'[a].bytes <= MaxSegmentSize + LargestRecord
    BY <1>4, <2>1, LimitsNat, RecordBound
  <2>. QED BY <1>4, <2>2 DEF BytesInv, FilesBounded, LargestRecord
<1>12. RoomSound'
  BY <1>1 DEF RoomSound
<1>13. OpenBounded'
  <2>1. Active' = segments'[n]
    BY <1>3, <1>4 DEF Active, Last
  <2>. PICK S : S = Spared
    OBVIOUS
  <2>2. Spared' = S /\ S \subseteq T \ {a}
    BY <1>1, <1>4, <2>1 DEF Spared
  <2>3. SumFunctionOnSet(h, S) = SumFunctionOnSet(FileSize, S)
    <3>1. IsFiniteSet(S) /\ \A c \in S : h[c] = FileSize[c]
      BY <1>2, <1>5, <2>2, FS_Subset
    <3>. QED BY <3>1, SumAgree
  <2>4. MaxPartitionSize # 0 => SumFunctionOnSet(FileSize, Spared) <= MaxPartitionSize
    BY <1>1, <1>2 DEF BytesInv, OpenBounded
  <2>. QED BY <2>2, <2>3, <2>4 DEF OpenBounded
<1>. QED BY <1>2, <1>4, <1>10, <1>11, <1>12, <1>13 DEF BytesInv

LEMMA BytesRemoveLog ==
  ASSUME BytesInv, NEW i \in DOMAIN segments, RemoveLogOf(i) PROVE BytesInv'
<1>. PICK b : b = segments[i].base
  OBVIOUS
<1>. PICK h : h = FileSize'
  OBVIOUS
<1>. PICK T : T = DOMAIN logs
  OBVIOUS
<1>1. /\ pc = "clean" /\ pc' = "unlink" /\ Current(i) /\ b \in T
      /\ logs' = WithoutLog(b)
      /\ UNCHANGED <<clock, segments, physicalSize, pending, closed, passed>>
  BY DEF RemoveLogOf, extra
<1>2. OrderInv /\ OrderInv' /\ TypeOK /\ TypeOK' /\ IsFiniteSet(T) /\ segments # <<>>
  BY <1>1, OrderRemoveLog DEF BytesInv, OrderInv, FaultsControl
<1>3. /\ DOMAIN logs' = T \ {b} /\ IsFiniteSet(T \ {b}) /\ FilesBounded'
      /\ SumFunctionOnSet(h, T \ {b}) = SumFunctionOnSet(FileSize, T \ {b})
  <2>1. FilesBounded
    BY DEF BytesInv
  <2>. QED BY <1>1, <1>2, <2>1, FewerFiles
<1>4. \A c \in T : FileSize[c] = logs[c].bytes /\ FileSize[c] \in Int
  BY <1>2, Sizes
<1>5. SumFunctionOnSet(FileSize, T) = FileSize[b] + SumFunctionOnSet(FileSize, T \ {b})
  BY <1>1, <1>2, <1>4, SumRemove
<1>6. DiskBytes = SumFunctionOnSet(FileSize, T) /\ DiskBytes \in Int
  BY <1>2, <1>4, DiskBytesSum, SumInt
<1>7. DiskBytes' = SumFunctionOnSet(FileSize, T \ {b}) /\ DiskBytes' \in Int
  <2>1. (TypeOK => DiskBytes = SumFunctionOnSet(FileSize, DOMAIN logs))'
    BY DiskBytesSum, PTL
  <2>2. SumFunctionOnSet(FileSize, T \ {b}) \in Int
    BY <1>3, <1>4, SumInt
  <2>. QED BY <1>2, <1>3, <2>1, <2>2
<1>8. segments[i].size <= logs[b].bytes /\ segments[i].size \in Nat
  <2>1. logs[b].bytes \in Nat /\ segments[i].size \in Nat
    BY <1>1, <1>2, FileTypes, SegmentTypes, ListOf
  <2>2. segments[i].size = 0 \/ segments[i].size = logs[b].bytes
    BY <1>1, <1>2 DEF OrderInv, SegmentsKnow
  <2>. QED BY <2>1, <2>2
<1>9. physicalSize >= DiskBytes' + segments[i].size
  <2>1. physicalSize >= DiskBytes /\ physicalSize \in Int
    BY <1>1, <1>2 DEF BytesInv, TotalCovers, TypeOK
  <2>2. DiskBytes = logs[b].bytes + DiskBytes'
    BY <1>1, <1>4, <1>5, <1>6, <1>7
  <2>3. logs[b].bytes \in Int
    BY <1>1, <1>4
  <2>. QED BY <1>7, <1>8, <2>1, <2>2, <2>3
<1>10. ASSUME NEW j \in DOMAIN segments, Current(j)' PROVE j = i
  <2>1. Current(j)
    BY <1>1, <1>10 DEF Current, Victim, TooOld, PartitionTooLarge
  <2>. QED BY <1>1, <1>2, <2>1, CurrentIsOne
<1>11. TotalCovers'
  BY <1>1, <1>2, <1>9, <1>10 DEF TotalCovers, HalfGone
<1>12. OpenBounded' /\ RoomSound'
  BY <1>1 DEF BytesInv, OpenBounded, RoomSound, Active
<1>. QED BY <1>2, <1>3, <1>11, <1>12 DEF BytesInv

LEMMA BytesRemoveIndex ==
  ASSUME BytesInv, NEW i \in DOMAIN segments, RemoveIndexOf(i) PROVE BytesInv'
<1>1. /\ pc = "unlink" /\ pc' = "clean" /\ Current(i)
      /\ segments' = RemoveAt(segments, i)
      /\ physicalSize' = physicalSize - segments[i].size
      /\ UNCHANGED <<logs, pending>>
  BY DEF RemoveIndexOf
<1>2. OrderInv /\ OrderInv' /\ TypeOK
  BY OrderRemoveIndex DEF BytesInv, OrderInv
<1>3. i # Len(segments) /\ segments[i].size \in Nat
  BY <1>1, <1>2, ListOf, SegmentTypes DEF Current, Victim
<1>4. segments' # <<>> /\ Active' = Active
  BY <1>1, <1>2, <1>3, OneLess
<1>5. FileSize' = FileSize /\ DiskBytes' = DiskBytes
  BY <1>1 DEF FileSize, DiskBytes
<1>6. physicalSize >= DiskBytes + segments[i].size /\ physicalSize \in Int
  BY <1>1, <1>2 DEF BytesInv, TotalCovers, HalfGone, TypeOK
<1>7. DiskBytes \in Int
  BY <1>2, DiskBytesSum, PartBytes DEF BytesInv
<1>8. TotalCovers'
  <2>1. physicalSize' >= DiskBytes
    BY <1>1, <1>3, <1>6, <1>7
  <2>. QED BY <1>1, <1>4, <1>5, <2>1 DEF TotalCovers, HalfGone
<1>9. FilesBounded' /\ IsFiniteSet(DOMAIN logs)'
  BY <1>1 DEF BytesInv, FilesBounded, LargestRecord
<1>10. OpenBounded' /\ RoomSound'
  BY <1>1, <1>4 DEF BytesInv, OpenBounded, RoomSound
<1>. QED BY <1>2, <1>8, <1>9, <1>10 DEF BytesInv

LEMMA BytesUnlinkFails ==
  ASSUME BytesInv, NEW i \in DOMAIN segments, UnlinkFails(i) PROVE BytesInv'
<1>1. /\ pc \in {"clean", "unlink"} /\ pc' = "clean" /\ Current(i)
      /\ UNCHANGED <<logs, pending, physicalSize>>
  BY DEF UnlinkFails, StaysClosed, disk
<1>2. OrderInv /\ OrderInv' /\ TypeOK
  BY OrderUnlinkFails DEF BytesInv, OrderInv
<1>3. segments' # <<>> /\ Active' = Active /\ segments[i].size \in Nat
  BY <1>2, Emptied, ListOf, SegmentTypes
<1>4. FileSize' = FileSize /\ DiskBytes' = DiskBytes
  BY <1>1 DEF FileSize, DiskBytes
<1>5. DiskBytes \in Int
  BY <1>2, DiskBytesSum, PartBytes DEF BytesInv
<1>6. physicalSize >= DiskBytes
  <2>1. CASE pc = "clean"
    BY <2>1 DEF BytesInv, TotalCovers
  <2>2. CASE pc = "unlink"
    <3>1. physicalSize >= DiskBytes + segments[i].size /\ physicalSize \in Int
      BY <1>1, <1>2, <2>2 DEF BytesInv, TotalCovers, HalfGone, TypeOK
    <3>. QED BY <1>3, <1>5, <3>1
  <2>. QED BY <1>1, <2>1, <2>2
<1>7. TotalCovers'
  BY <1>1, <1>3, <1>4, <1>6 DEF TotalCovers, HalfGone
<1>8. FilesBounded' /\ IsFiniteSet(DOMAIN logs)'
  BY <1>1 DEF BytesInv, FilesBounded, LargestRecord
<1>9. OpenBounded' /\ RoomSound'
  BY <1>1, <1>3 DEF BytesInv, OpenBounded, RoomSound
<1>. QED BY <1>2, <1>7, <1>8, <1>9 DEF BytesInv

LEMMA BytesNext == BytesInv /\ [NextFaults]_allVars => BytesInv'
<1>. SUFFICES ASSUME BytesInv, [NextFaults]_allVars PROVE BytesInv'
  OBVIOUS
<1>1. CASE Unharmed /\ UNCHANGED extra
  <2>1. CASE Open \/ Tick
    BY <1>1, <2>1, BytesOpen
  <2>2. CASE LoadSegment
    BY <1>1, <2>2, BytesLoadSegment
  <2>3. CASE LoadDone
    BY <1>1, <2>3, BytesLoadDone
  <2>4. CASE MakeIndex
    <3>1. UNCHANGED logs
      BY <2>4 DEF MakeIndex
    <3>. QED BY <1>1, <2>4, <3>1, BytesMakeIndex
  <2>8. CASE CreateFails
    BY <1>1, <2>8, BytesCreateFails
  <2>5. CASE MakeLog
    BY <1>1, <2>5, BytesMakeLog
  <2>6. CASE AppendMessage
    BY <1>1, <2>6, BytesAppendMessage
  <2>7. CASE \E p \in Payload : Write(p)
    BY <1>1, <2>7, BytesWrite
  <2>. QED BY <1>1, <2>1, <2>2, <2>3, <2>4, <2>5, <2>6, <2>7, <2>8 DEF Unharmed
<1>2. CASE \E i \in DOMAIN segments : RemoveLogOf(i)
  BY <1>2, BytesRemoveLog
<1>3. CASE \E i \in DOMAIN segments : RemoveIndexOf(i)
  BY <1>3, BytesRemoveIndex
<1>4. CASE \E i \in DOMAIN segments : UnlinkFails(i)
  BY <1>4, BytesUnlinkFails
<1>5. CASE PassDone
  BY <1>5, BytesPassDone
<1>6. CASE ClockBack
  BY <1>6, BytesClockBack
<1>7. CASE Stop
  BY <1>7, BytesStop
<1>8. CASE \E o \in 0 .. MaxOffset : ReadClosed(o)
  BY <1>8, BytesReadClosed
<1>9. CASE UNCHANGED allVars
  <2>1. UNCHANGED <<logs, clock, pc, segments, physicalSize, pending, closed, passed>>
    BY <1>9 DEF allVars, vars, disk, memory, extra
  <2>2. OrderInv'
    BY <1>9, OrderNext DEF BytesInv
  <2>3. /\ FileSize' = FileSize /\ Loaded' = Loaded /\ DiskBytes' = DiskBytes
        /\ Spared' = Spared /\ Active' = Active
    BY <2>1 DEF FileSize, Loaded, DiskBytes, Spared, Active
  <2>4. TotalCovers'
    BY <2>1, <2>3 DEF BytesInv, TotalCovers, HalfGone, Current, Victim, TooOld,
                      PartitionTooLarge
  <2>5. FilesBounded' /\ OpenBounded' /\ RoomSound' /\ IsFiniteSet(DOMAIN logs)'
    BY <2>1, <2>3 DEF BytesInv, FilesBounded, OpenBounded, RoomSound, LargestRecord
  <2>. QED BY <2>2, <2>4, <2>5 DEF BytesInv
<1>. QED BY <1>1, <1>2, <1>3, <1>4, <1>5, <1>6, <1>7, <1>8, <1>9 DEF NextFaults

\* The inductive invariant of the bytes (Partition.cc:72, 128, 238-249): the running
\* total covers the files at every point of a pass, whatever it failed to remove.
THEOREM BytesInvariance == SpecFaults => []BytesInv
BY BytesInit, BytesNext, PTL DEF SpecFaults

LEMMA LimitHolds == BytesInv => LimitEnforced
<1>. SUFFICES ASSUME BytesInv, pc = "idle"
              PROVE  /\ physicalSize >= DiskBytes
                     /\ MaxPartitionSize # 0 =>
                          SumFunctionOnSet(FileSize, DOMAIN logs \ closed)
                            <= MaxPartitionSize + MaxSegmentSize + LargestRecord
  BY DEF LimitEnforced
<1>1. /\ OrderInv /\ TypeOK /\ segments # <<>> /\ IsFiniteSet(DOMAIN logs)
      /\ physicalSize >= DiskBytes
  BY DEF BytesInv, OrderInv, FaultsControl, TotalCovers
<1>. PICK a : a = Active.base
  OBVIOUS
<1>. PICK S : S = DOMAIN logs \ closed
  OBVIOUS
<1>2. a \in S /\ S \subseteq DOMAIN logs /\ IsFiniteSet(S)
  BY <1>1, ActiveLast, FS_Subset
<1>3. \A c \in S : FileSize[c] = logs[c].bytes /\ FileSize[c] \in Int
  BY <1>1, <1>2, Sizes
<1>4. SumFunctionOnSet(FileSize, S) = FileSize[a] + SumFunctionOnSet(FileSize, S \ {a})
  BY <1>2, <1>3, SumRemove
<1>5. SumFunctionOnSet(FileSize, S \ {a}) \in Int
  <2>1. IsFiniteSet(S \ {a}) /\ \A c \in S \ {a} : FileSize[c] \in Int
    BY <1>2, <1>3, FS_RemoveElement
  <2>. QED BY <2>1, SumInt
<1>6. ASSUME MaxPartitionSize # 0
      PROVE  SumFunctionOnSet(FileSize, S) <= MaxPartitionSize + MaxSegmentSize + LargestRecord
  <2>1. SumFunctionOnSet(FileSize, S \ {a}) <= MaxPartitionSize
    BY <1>1, <1>6 DEF BytesInv, OpenBounded, Spared
  <2>2. FileSize[a] <= MaxSegmentSize + LargestRecord /\ FileSize[a] \in Int
    BY <1>2, <1>3 DEF BytesInv, FilesBounded
  <2>. QED BY <1>4, <1>5, <2>1, <2>2, LimitsNat, RecordBound
<1>. QED BY <1>1, <1>6

\* The limit, with any number of removals refused and retried, steps of the clock
\* and restarts (Partition.cc:238-249): the total in memory is never below the
\* files, so that what can still be removed stays within the limit by one segment
\* and one record.
THEOREM LimitAlways == SpecFaults => []LimitEnforced
BY BytesInvariance, LimitHolds, PTL

\* There is a last file, so there is a next offset.
LEMMA NextMessageNat == BytesInv => NextMessage \in Nat
<1>. SUFFICES ASSUME BytesInv PROVE NextMessage \in Nat
  OBVIOUS
<1>1. OrderInv /\ TypeOK /\ HeldByFile /\ IsFiniteSet(DOMAIN logs)
  BY HeldHere DEF BytesInv, OrderInv
<1>2. CASE DOMAIN logs = {}
  BY <1>1, <1>2 DEF HeldByFile
<1>3. CASE DOMAIN logs # {}
  <2>. PICK f : f = [b \in DOMAIN logs |-> b]
    OBVIOUS
  <2>1. \A b \in DOMAIN logs : f[b] = b /\ f[b] \in Nat
    BY <1>1, FileTypes
  <2>2. PICK b \in DOMAIN logs : \A c \in DOMAIN logs : f[c] <= f[b]
    BY <1>1, <1>3, <2>1, GreatestValue
  <2>3. \A c \in DOMAIN logs : c <= b
    BY <2>1, <2>2
  <2>4. NextMessage = EndOf(b)
    BY <1>1, <2>3 DEF HeldByFile
  <2>. QED BY <1>1, <2>4, FileTypes
<1>. QED BY <1>2, <1>3

\* An offset given stays given (Partition.cc:104-128, 229-253): no step, failed
\* removals, steps of the clock and restarts included, changes the message of an
\* offset, gives an offset again or brings a message back.
THEOREM OffsetsStay == SpecFaults => OffsetsStable
<1>1. OrderInv /\ OrderInv' /\ NextMessage \in Nat /\ [NextFaults]_allVars
        => [Stable]_allVars
  BY StepStable
<1>2. BytesInv => OrderInv /\ NextMessage \in Nat
  BY NextMessageNat DEF BytesInv
<1>3. Stable <=> /\ NextMessage' >= NextMessage
                 /\ \A o \in DOMAIN Messages' :
                      IF o \in DOMAIN Messages THEN Messages'[o] = Messages[o]
                      ELSE o >= NextMessage
  BY DEF Stable
<1>. QED BY <1>1, <1>2, <1>3, BytesInvariance, PTL DEF SpecFaults, OffsetsStable

-----------------------------------------------------------------------------
(* The retention pass ends, whatever removals fail                         *)

InPass == pc \in {"clean", "unlink"}

\* The segments of the list the pass has not failed on.
Ahead == {segments[i].base : i \in DOMAIN segments} \ passed

\* The most steps the pass can still make before it is done.
PassLeft == 2 * Cardinality(Ahead) + (IF pc = "unlink" THEN 0 ELSE 1)

PassShrinks ==
  [][InPass => IF InPass' THEN PassLeft' \in 0 .. PassLeft - 1
               ELSE PassDone \/ pc' = "down"]_allVars

\* A segment to remove, or to finish removing, or none left to try.
PassGoesOn ==
  /\ pc = "clean" =>
       \/ \E i \in DOMAIN segments : Current(i)
       \/ \A i \in DOMAIN segments : Victim(i) => segments[i].base \in passed
  /\ pc = "unlink" => \E i \in DOMAIN segments : Current(i)

LEMMA AheadFinite == ASSUME TypeOK PROVE IsFiniteSet(Ahead) /\ Cardinality(Ahead) \in Nat
<1>. DEFINE B == {segments[i].base : i \in 1 .. Len(segments)}
<1>1. DOMAIN segments = 1 .. Len(segments) /\ Len(segments) \in Nat
  BY ListOf
<1>2. IsFiniteSet(1 .. Len(segments))
  BY <1>1, FS_Interval
<1>. PICK f : f = [i \in 1 .. Len(segments) |-> segments[i].base]
  OBVIOUS
<1>3. IsFiniteSet(B)
  <2>1. f \in Surjection(1 .. Len(segments), B)
    BY DEF Surjection
  <2>. QED BY <1>2, <2>1, FS_Surjection
<1>4. Ahead \subseteq B
  BY <1>1 DEF Ahead
<1>. QED BY <1>3, <1>4, FS_Subset, FS_CardinalityType

\* A removal, made or failed, leaves one segment fewer ahead.
LEMMA OneFewerAhead ==
  ASSUME OrderInv, NEW i \in DOMAIN segments, RemoveIndexOf(i) \/ UnlinkFails(i)
  PROVE  \E k \in Nat : Cardinality(Ahead) = k + 1 /\ Cardinality(Ahead') = k
<1>. PICK b : b = segments[i].base
  OBVIOUS
<1>1. TypeOK /\ Current(i)
  BY DEF OrderInv, RemoveIndexOf, UnlinkFails
<1>2. b \in Ahead
  BY <1>1 DEF Ahead, Current
<1>3. Ahead' = Ahead \ {b}
  <2>1. CASE RemoveIndexOf(i)
    <3>1. segments' = RemoveAt(segments, i) /\ passed' = passed /\ i # Len(segments)
      BY <1>1, <2>1, CurrentIsOne DEF RemoveIndexOf, Current, Victim
    <3>2. /\ \A j \in DOMAIN segments' : \E k \in DOMAIN segments :
               k # i /\ segments'[j] = segments[k]
          /\ \A k \in DOMAIN segments : k # i =>
               \E j \in DOMAIN segments' : segments'[j] = segments[k]
      BY <1>1, <3>1, OneLess
    <3>3. \A k \in DOMAIN segments : k # i => segments[k].base # b
      BY BasesDiffer
    <3>4. ASSUME NEW c \in Ahead' PROVE c \in Ahead \ {b}
      BY <3>1, <3>2, <3>3 DEF Ahead
    <3>5. ASSUME NEW c \in Ahead \ {b} PROVE c \in Ahead'
      <4>1. PICK k \in DOMAIN segments : segments[k].base = c /\ k # i /\ c \notin passed
        BY DEF Ahead
      <4>2. PICK j \in DOMAIN segments' : segments'[j] = segments[k]
        BY <3>2, <4>1
      <4>. QED BY <3>1, <4>1, <4>2 DEF Ahead
    <3>. QED BY <3>4, <3>5
  <2>2. CASE UnlinkFails(i)
    <3>1. passed' = passed \cup {b}
      BY <2>2 DEF UnlinkFails, StaysClosed
    <3>2. /\ DOMAIN segments' = DOMAIN segments
          /\ \A j \in DOMAIN segments : segments'[j].base = segments[j].base
      BY <2>2, Emptied
    <3>. QED BY <3>1, <3>2 DEF Ahead
  <2>. QED BY <2>1, <2>2
<1>4. IsFiniteSet(Ahead) /\ Cardinality(Ahead) \in Nat
  BY <1>1, AheadFinite
<1>5. Cardinality(Ahead \ {b}) = Cardinality(Ahead) - 1
  BY <1>2, <1>4, FS_RemoveElement
<1>6. Cardinality(Ahead) # 0
  BY <1>2, <1>4, FS_EmptySet
<1>7. PICK k \in Nat : Cardinality(Ahead) = k + 1
  BY <1>4, <1>6
<1>. QED BY <1>3, <1>5, <1>7

LEMMA PassSteps ==
  ASSUME OrderInv, NEW i \in DOMAIN segments, RemoveLogOf(i) \/ RemoveIndexOf(i) \/ UnlinkFails(i)
  PROVE  InPass' /\ PassLeft' \in 0 .. PassLeft - 1
<1>1. CASE RemoveLogOf(i)
  <2>1. pc = "clean" /\ pc' = "unlink" /\ UNCHANGED <<segments, passed>>
    BY <1>1 DEF RemoveLogOf, extra
  <2>2. PICK k \in Nat : k = Cardinality(Ahead)
    BY AheadFinite DEF OrderInv
  <2>3. Cardinality(Ahead') = k
    BY <2>1, <2>2 DEF Ahead
  <2>4. PassLeft = 2 * k + 1 /\ PassLeft' = 2 * k
    BY <2>1, <2>2, <2>3 DEF PassLeft
  <2>. QED BY <2>1, <2>4 DEF InPass
<1>2. CASE RemoveIndexOf(i) \/ UnlinkFails(i)
  <2>1. pc \in {"clean", "unlink"} /\ pc' = "clean"
    BY <1>2 DEF RemoveIndexOf, UnlinkFails
  <2>2. PICK k \in Nat : Cardinality(Ahead) = k + 1 /\ Cardinality(Ahead') = k
    BY <1>2, OneFewerAhead
  <2>3. PassLeft >= 2 * (k + 1) /\ PassLeft \in Nat /\ PassLeft' = 2 * k + 1
    BY <2>1, <2>2 DEF PassLeft
  <2>. QED BY <2>1, <2>3 DEF InPass
<1>. QED BY <1>1, <1>2

\* Nothing but the pass itself, or the death of the process, moves while it runs.
LEMMA OnlyThePass ==
  ASSUME OrderInv, NextFaults, InPass
  PROVE  \/ \E i \in DOMAIN segments : RemoveLogOf(i) \/ RemoveIndexOf(i) \/ UnlinkFails(i)
         \/ PassDone /\ ~ InPass'
         \/ pc' = "down"
<1>1. pc \in {"clean", "unlink"}
  BY DEF InPass
<1>2. ~ Unharmed
  BY <1>1 DEF Unharmed, Open, LoadSegment, LoadDone, MakeIndex, MakeLog, CreateFails,
              AppendMessage, Tick, Write
<1>3. ~ ClockBack /\ \A o \in 0 .. MaxOffset : ~ ReadClosed(o)
  BY <1>1 DEF ClockBack, ReadClosed
<1>4. PassDone => ~ InPass'
  BY DEF PassDone, InPass
<1>5. Stop => pc' = "down"
  BY DEF Stop, Close, Crash
<1>. QED BY <1>2, <1>3, <1>4, <1>5 DEF NextFaults

\* A pass is over after at most two steps for each segment of the list and one more,
\* though removals fail in it: it goes on with the next segment and comes back to none
\* (Partition.cc:229-253).
THEOREM PassAdvances == SpecFaults => PassShrinks
<1>1. OrderInv /\ [NextFaults]_allVars =>
        [InPass => IF InPass' THEN PassLeft' \in 0 .. PassLeft - 1
                   ELSE PassDone \/ pc' = "down"]_allVars
  <2>. SUFFICES ASSUME OrderInv, NextFaults, InPass
                PROVE  IF InPass' THEN PassLeft' \in 0 .. PassLeft - 1
                       ELSE PassDone \/ pc' = "down"
    OBVIOUS
  <2>1. CASE \E i \in DOMAIN segments :
               RemoveLogOf(i) \/ RemoveIndexOf(i) \/ UnlinkFails(i)
    BY <2>1, PassSteps
  <2>2. CASE PassDone /\ ~ InPass'
    BY <2>2
  <2>3. CASE pc' = "down"
    BY <2>3 DEF InPass
  <2>. QED BY <2>1, <2>2, <2>3, OnlyThePass
<1>. QED BY <1>1, OrderInvariance, PTL DEF SpecFaults, PassShrinks

\* And it never hangs on a segment: between two removals there is a first segment to
\* try or none left, in the middle of one the same segment still (Partition.cc:229-253).
THEOREM PassFindsWork == SpecFaults => []PassGoesOn
<1>1. OrderInv => PassGoesOn
  <2>. SUFFICES ASSUME OrderInv PROVE PassGoesOn
    OBVIOUS
  <2>1. DOMAIN segments = 1 .. Len(segments) /\ Len(segments) \in Nat
    BY ListOf DEF OrderInv
  <2>2. ASSUME NEW k \in DOMAIN segments, Victim(k), segments[k].base \notin passed
        PROVE  \E i \in DOMAIN segments : Current(i)
    <3>. DEFINE V == {i \in DOMAIN segments : Victim(i) /\ segments[i].base \notin passed}
    <3>1. V \subseteq Nat /\ V # {}
      BY <2>1, <2>2
    <3>2. PICK i \in V : \A j \in V : i <= j
      BY <3>1, LeastNatural
    <3>3. \A j \in 1 .. i - 1 : j \in DOMAIN segments /\ j \notin V
      BY <2>1, <3>2
    <3>. QED BY <3>2, <3>3 DEF Current
  <2>3. pc = "unlink" => \E i \in DOMAIN segments : Current(i)
    BY DEF OrderInv, FaultsControl
  <2>. QED BY <2>2, <2>3 DEF PassGoesOn
<1>. QED BY <1>1, OrderInvariance, PTL

=============================================================================
