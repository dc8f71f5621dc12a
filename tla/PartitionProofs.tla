-------------------------- MODULE PartitionProofs --------------------------
(***************************************************************************)
(* Proofs about Partition for every set of payloads, every limit and any   *)
(* number of messages, segments, crashes and deletions: what the files and *)
(* the list of segments hold, what they weigh, and that the partition      *)
(* implements CommitLog.                                                   *)
(***************************************************************************)
EXTENDS Partition, Sums

USE DEF Points

\* Taking the first element away, as cleanOldSegments does.
LEMMA RemovingFirst ==
  ASSUME NEW S, NEW s \in Seq(S), Len(s) >= 1
  PROVE  /\ RemoveAt(s, 1) \in Seq(S)
         /\ Len(RemoveAt(s, 1)) = Len(s) - 1
         /\ \A i \in 1 .. Len(s) - 1 : RemoveAt(s, 1)[i] = s[i + 1]
<1>1. SubSeq(s, 1, 1 - 1) = <<>>
  OBVIOUS
<1>2. RemoveAt(s, 1) = <<>> \o SubSeq(s, 1 + 1, Len(s))
  BY <1>1 DEF RemoveAt
<1>3. /\ SubSeq(s, 2, Len(s)) \in Seq(S)
      /\ Len(SubSeq(s, 2, Len(s))) = Len(s) - 1
  OBVIOUS
<1>4. ASSUME NEW i \in 1 .. Len(s) - 1 PROVE SubSeq(s, 2, Len(s))[i] = s[i + 1]
  OBVIOUS
<1>5. RemoveAt(s, 1) = SubSeq(s, 2, Len(s))
  BY <1>2, <1>3
<1>. QED BY <1>3, <1>4, <1>5

LEMMA Appending ==
  ASSUME NEW S, NEW s \in Seq(S), NEW e \in S
  PROVE  /\ Len(s) \in Nat
         /\ Len(Append(s, e)) = Len(s) + 1
         /\ Append(s, e) # <<>>
<1>1. Len(s) \in Nat /\ Len(Append(s, e)) = Len(s) + 1
  OBVIOUS
<1>2. Len(<<>>) = 0
  OBVIOUS
<1>. QED BY <1>1, <1>2

\* What TypeOK says of one segment and of one file.
LEMMA SegmentTypes ==
  ASSUME TypeOK, NEW i \in 1 .. Len(segments)
  PROVE  /\ segments[i].base \in Nat /\ segments[i].next \in Nat
         /\ segments[i].size \in Nat /\ segments[i].mtime \in Nat
<1>1. segments[i] \in SegmentObject
  BY DEF TypeOK
<1>. QED BY <1>1 DEF SegmentObject

LEMMA FileTypes ==
  ASSUME TypeOK, NEW b \in DOMAIN logs
  PROVE  /\ b \in Nat /\ logs[b] \in File
         /\ logs[b].msgs \in Seq(Payload) /\ logs[b].bytes \in Nat
         /\ logs[b].mtime \in Nat
         /\ EndOf(b) \in Nat /\ b <= EndOf(b)
         /\ logs[b].msgs # <<>> => b < EndOf(b)
<1>1. b \in Nat /\ logs[b] \in File
  BY DEF TypeOK
<1>2. /\ logs[b].msgs \in Seq(Payload) /\ logs[b].bytes \in Nat
      /\ logs[b].mtime \in Nat
  BY <1>1 DEF File
<1>. QED BY <1>1, <1>2 DEF EndOf

\* Modification times grow along the list, so a segment too old has only
\* segments too old before it: a pass takes the first segment or none.
LEMMA VictimIsFirst ==
  ASSUME TypeOK, SegmentsSorted, NEW i \in DOMAIN segments, FirstVictim(i)
  PROVE  i = 1 /\ Len(segments) > 1
<1>1. i \in 1 .. Len(segments) /\ i # Len(segments) /\ Len(segments) \in Nat
  BY DEF TypeOK, FirstVictim, Victim
<1>2. ASSUME i > 1 PROVE FALSE
  <2>1. ~ Victim(1) /\ Victim(i) /\ 1 # Len(segments)
    BY <1>1, <1>2 DEF FirstVictim
  <2>2. TooOld(i) /\ ~ TooOld(1)
    BY <2>1 DEF Victim
  <2>3. segments[1].mtime <= segments[i].mtime
    BY <1>1, <1>2 DEF SegmentsSorted
  <2>4. segments[1].mtime \in Nat /\ segments[i].mtime \in Nat /\ clock \in Nat
    BY <1>1, <1>2, SegmentTypes DEF TypeOK
  <2>. QED BY <2>2, <2>3, <2>4, LimitsNat DEF TooOld
<1>. QED BY <1>1, <1>2

LEMMA InitEstablishes == Init => IndInv
<1>. SUFFICES ASSUME Init PROVE IndInv
  OBVIOUS
<1>1. DOMAIN logs = {} /\ logs \in [DOMAIN logs -> File]
  BY DEF Init
<1>2. segments \in Seq(SegmentObject)
  BY DEF Init
<1>3. TypeOK
  <2>1. /\ indexes = {} /\ clock = 0 /\ pc = "down" /\ physicalSize = 0
        /\ pending = <<>> /\ doomed = FALSE
    BY DEF Init
  <2>2. /\ DOMAIN logs \subseteq Nat /\ indexes \subseteq Nat
        /\ pending \in {<<>>} \cup {<<p>> : p \in Payload}
    BY <1>1, <2>1
  <2>3. clock \in Nat /\ physicalSize \in Int
    BY <2>1
  <2>4. pc \in Points /\ doomed \in BOOLEAN
    BY <2>1, Zenon
  <2>. QED BY <1>1, <1>2, <2>2, <2>3, <2>4, Zenon DEF TypeOK
<1>4. FilesOrdered /\ FilesAdjacent /\ FilesSound
  BY <1>1 DEF FilesOrdered, FilesAdjacent, FilesSound
<1>5. SegmentsSorted /\ SegmentsMatch /\ SegmentsCover /\ ControlSound
  BY DEF Init, SegmentsSorted, SegmentsMatch, SegmentsCover, ControlSound
<1>. QED BY <1>3, <1>4, <1>5 DEF IndInv

-----------------------------------------------------------------------------
(* Opening                                                                 *)

LEMMA OpenPreserves == IndInv /\ Open => IndInv'
<1>. SUFFICES ASSUME IndInv, Open PROVE IndInv'
  OBVIOUS
<1>. USE DEF IndInv, Open, disk
<1>1. TypeOK'
  BY DEF TypeOK
<1>2. FilesOrdered' /\ FilesAdjacent' /\ FilesSound'
  BY DEF FilesOrdered, FilesAdjacent, FilesSound, EndOf
<1>3. segments = <<>>
  BY DEF ControlSound
<1>4. SegmentsSorted' /\ SegmentsMatch' /\ SegmentsCover' /\ ControlSound'
  BY <1>3 DEF SegmentsSorted, SegmentsMatch, SegmentsCover, ControlSound
<1>. QED BY <1>1, <1>2, <1>4

LEMMA LoadSegmentPreserves == IndInv /\ LoadSegment => IndInv'
<1>. SUFFICES ASSUME IndInv, LoadSegment PROVE IndInv'
  OBVIOUS
<1>. USE DEF IndInv
<1>. PICK b \in NotLoaded :
       /\ \A c \in NotLoaded : b <= c
       /\ segments' = Append(segments, OpenedSegment(b))
       /\ physicalSize' = physicalSize + logs[b].bytes
       /\ indexes' = indexes \cup {b}
  BY DEF LoadSegment
<1>. /\ pc = "load" /\ pc' = pc /\ logs' = logs /\ clock' = clock
     /\ doomed' = doomed /\ pending' = pending
  BY DEF LoadSegment
<1>. DEFINE n == Len(segments)
<1>1. b \in DOMAIN logs /\ b \in Nat /\ logs[b] \in File
  BY DEF NotLoaded, TypeOK
<1>2. EndOf(b) \in Nat
  BY <1>1 DEF EndOf, File
<1>3. OpenedSegment(b) \in SegmentObject
  BY <1>1, <1>2 DEF OpenedSegment, SegmentObject, File
<1>4. /\ n \in Nat /\ Len(segments') = n + 1
      /\ \A i \in 1 .. n : segments'[i] = segments[i]
      /\ segments'[n + 1] = OpenedSegment(b)
      /\ segments \in Seq(SegmentObject) /\ segments' \in Seq(SegmentObject)
  BY <1>3 DEF TypeOK
<1>5. TypeOK'
  BY <1>1, <1>4 DEF TypeOK, File
<1>6. FilesOrdered' /\ FilesAdjacent' /\ FilesSound'
  BY DEF FilesOrdered, FilesAdjacent, FilesSound, EndOf
<1>7. \A i \in 1 .. n : segments[i].base < b
  BY <1>1, <1>4 DEF SegmentsCover, NotLoaded, Leftover
<1>8. \A i \in 1 .. n : segments[i].mtime <= OpenedSegment(b).mtime
  <2>. SUFFICES ASSUME NEW i \in 1 .. n
                PROVE  segments[i].mtime <= logs[b].mtime
    BY DEF OpenedSegment
  <2>1. /\ segments[i].base \in DOMAIN logs
        /\ segments[i].mtime <= logs[segments[i].base].mtime
    BY <1>4 DEF SegmentsMatch
  <2>2. logs[segments[i].base].mtime <= logs[b].mtime
    BY <1>1, <1>7, <2>1 DEF FilesOrdered
  <2>3. /\ segments[i].mtime \in Nat /\ logs[b].mtime \in Nat
        /\ logs[segments[i].base].mtime \in Nat
    BY <1>1, <1>4, <2>1, SegmentTypes, FileTypes
  <2>. QED BY <2>1, <2>2, <2>3
<1>9. SegmentsSorted'
  <2>. SUFFICES ASSUME NEW i \in 1 .. n + 1, NEW j \in 1 .. n + 1, i < j
                PROVE  /\ segments'[i].base < segments'[j].base
                       /\ segments'[i].mtime <= segments'[j].mtime
    BY <1>4 DEF SegmentsSorted
  <2>1. CASE j = n + 1
    BY <1>4, <1>7, <1>8, <2>1 DEF OpenedSegment
  <2>2. CASE j # n + 1
    BY <1>4, <2>2 DEF SegmentsSorted
  <2>. QED BY <2>1, <2>2
<1>10. SegmentsMatch'
  <2>. SUFFICES ASSUME NEW i \in 1 .. n + 1
                PROVE  /\ segments'[i].base \in DOMAIN logs
                       /\ segments'[i].next = EndOf(segments'[i].base)
                       /\ segments'[i].size = logs[segments'[i].base].bytes
                       /\ segments'[i].mtime <= logs[segments'[i].base].mtime
    BY <1>4 DEF SegmentsMatch, EndOf
  <2>1. CASE i = n + 1
    BY <1>1, <1>4, <2>1 DEF OpenedSegment, File
  <2>2. CASE i # n + 1
    BY <1>4, <2>2 DEF SegmentsMatch
  <2>. QED BY <2>1, <2>2
<1>11. SegmentsCover'
  <2>. SUFFICES ASSUME NEW c \in DOMAIN logs,
                       \A i \in 1 .. n + 1 : segments'[i].base # c
                PROVE  \A i \in 1 .. n + 1 : segments'[i].base < c
    BY <1>4 DEF SegmentsCover
  <2>1. c \in NotLoaded /\ c # b /\ c \in Nat
    BY SMTT(40), <1>4 DEF NotLoaded, OpenedSegment, TypeOK
  <2>2. b < c
    BY <1>1, <2>1
  <2>. TAKE i \in 1 .. n + 1
  <2>3. CASE i = n + 1
    BY <1>4, <2>2, <2>3 DEF OpenedSegment
  <2>4. CASE i # n + 1
    <3>1. segments[i].base \in Nat
      BY <1>4, <2>4, SegmentTypes
    <3>. QED BY <1>1, <1>4, <1>7, <2>1, <2>2, <2>4, <3>1
  <2>. QED BY <2>3, <2>4
<1>12. ControlSound'
  BY DEF ControlSound
<1>. QED BY <1>5, <1>6, <1>9, <1>10, <1>11, <1>12

LEMMA LoadDonePreserves == IndInv /\ LoadDone => IndInv'
<1>. SUFFICES ASSUME IndInv, LoadDone PROVE IndInv'
  OBVIOUS
<1>. USE DEF IndInv, LoadDone, disk
<1>1. TypeOK'
  BY DEF TypeOK
<1>2. FilesOrdered' /\ FilesAdjacent' /\ FilesSound'
  BY DEF FilesOrdered, FilesAdjacent, FilesSound, EndOf
<1>3. SegmentsSorted' /\ SegmentsMatch'
  BY DEF SegmentsSorted, SegmentsMatch, EndOf
<1>4. SegmentsCover'
  BY DEF SegmentsCover, NotLoaded
<1>5. ControlSound'
  BY DEF ControlSound
<1>. QED BY <1>1, <1>2, <1>3, <1>4, <1>5

-----------------------------------------------------------------------------
(* A new segment                                                           *)

\* The base the code computes for a new segment: the end of the last file that has
\* messages, and above every other one but the empty file an earlier try has left
\* there.
LEMMA NewBaseFacts ==
  ASSUME IndInv, pc \in {"index", "log"}
  PROVE  /\ NewBase \in Nat
         /\ segments = <<>> => DOMAIN logs = {}
         /\ segments # <<>> =>
              /\ Active.base \in DOMAIN logs
              /\ NewBase = EndOf(Active.base)
              /\ logs[Active.base].msgs # <<>>
              /\ \A c \in DOMAIN logs : c <= Active.base \/ c = NewBase
         /\ \A i \in 1 .. Len(segments) : segments[i].base < NewBase
         /\ \A c \in DOMAIN logs :
              IF c = NewBase THEN logs[c].msgs = <<>>
              ELSE c < NewBase /\ EndOf(c) <= NewBase /\ logs[c].msgs # <<>>
<1>. USE DEF IndInv
<1>1. CASE segments = <<>>
  <2>1. NewBase = 0
    BY <1>1 DEF NewBase
  <2>2. DOMAIN segments = {} /\ Len(segments) = 0
    BY <1>1
  <2>3. DOMAIN logs = {}
    BY <1>1, <2>2 DEF SegmentsCover, Leftover
  <2>. QED BY <1>1, <2>1, <2>2, <2>3
<1>2. CASE segments # <<>>
  <2>. DEFINE n == Len(segments)
  <2>1. n \in Nat /\ n \in 1 .. n /\ Active = segments[n]
    <3>1. segments \in Seq(SegmentObject)
      BY DEF TypeOK
    <3>. QED BY <1>2, <3>1 DEF Active, Last
  <2>2. /\ Active.base \in DOMAIN logs /\ Active.next = EndOf(Active.base)
        /\ NewBase = EndOf(Active.base)
    BY <1>2, <2>1 DEF SegmentsMatch, NewBase
  <2>3. logs[Active.base].msgs # <<>>
    BY <1>2 DEF ControlSound
  <2>4. Active.base < NewBase /\ NewBase \in Nat
    BY <2>2, <2>3, FileTypes
  <2>5. ASSUME NEW i \in 1 .. n PROVE segments[i].base <= Active.base
    <3>0. segments[i].base \in DOMAIN logs /\ segments[i].base \in Nat
      BY <2>1, <2>5, FileTypes DEF SegmentsMatch
    <3>1. CASE i = n
      BY <2>1, <3>0, <3>1
    <3>2. CASE i # n
      <4>1. i < n
        BY <2>1, <3>2
      <4>2. segments[i].base < segments[n].base
        BY <2>1, <4>1 DEF SegmentsSorted
      <4>. QED BY <2>1, <2>2, <3>0, <4>2, FileTypes
    <3>. QED BY <3>1, <3>2
  <2>6. \A i \in 1 .. n : segments[i].base < NewBase
    <3>1. ASSUME NEW i \in 1 .. n PROVE segments[i].base < NewBase
      <4>1. segments[i].base \in Nat /\ Active.base \in Nat
        BY <2>1, <2>2, FileTypes DEF SegmentsMatch
      <4>. QED BY <2>4, <2>5, <4>1
    <3>. QED BY <3>1
  <2>7. ASSUME NEW c \in DOMAIN logs
        PROVE  c <= Active.base \/ (c = NewBase /\ logs[c].msgs = <<>>)
    <3>1. (\E i \in 1 .. n : segments[i].base = c) \/ Leftover(c)
      BY <2>1 DEF SegmentsCover
    <3>. QED BY <2>5, <3>1 DEF Leftover
  <2>8. ASSUME NEW c \in DOMAIN logs
        PROVE  IF c = NewBase THEN logs[c].msgs = <<>>
               ELSE c < NewBase /\ EndOf(c) <= NewBase /\ logs[c].msgs # <<>>
    <3>1. CASE c = Active.base
      BY <2>2, <2>3, <2>4, <3>1, FileTypes
    <3>2. CASE c = NewBase
      BY <2>2, <2>4, <2>7, <3>2, FileTypes
    <3>3. CASE c # Active.base /\ c # NewBase
      <4>1. c < Active.base
        BY <2>2, <2>7, <3>3, FileTypes
      <4>2. EndOf(c) <= Active.base /\ logs[c].msgs # <<>>
        BY <2>2, <4>1 DEF FilesOrdered
      <4>. QED BY <2>2, <2>4, <3>3, <4>1, <4>2, FileTypes
    <3>. QED BY <3>1, <3>2, <3>3
  <2>. QED BY <1>2, <2>2, <2>3, <2>4, <2>6, <2>7, <2>8
<1>. QED BY <1>1, <1>2

\* What opening a new segment does to the files, whether its .log file is new or was
\* left by an earlier try, and whether the open succeeds.
LEMMA NewFileFacts ==
  ASSUME IndInv, pc = "log", logs' = WithLog(NewBase, NewFile),
         clock' = clock, doomed' = doomed,
         NEW nb, nb = NewBase, NEW f, f = NewFile
  PROVE  /\ f \in File /\ f.msgs = <<>> /\ f.bytes = 0 /\ f.mtime \in Nat /\ f.mtime <= clock
         /\ DOMAIN logs' = DOMAIN logs \cup {nb} /\ logs'[nb] = f
         /\ \A c \in DOMAIN logs :
              c \in Nat /\ c <= nb /\ logs'[c] = logs[c] /\ logs[c].mtime <= f.mtime
         /\ DOMAIN logs' \subseteq Nat /\ logs' \in [DOMAIN logs' -> File]
         /\ \A c \in DOMAIN logs : EndOf(c)' = EndOf(c)
         /\ EndOf(nb)' = nb
         /\ FilesOrdered' /\ FilesAdjacent' /\ FilesSound'
<1>. USE DEF IndInv
<1>1. logs' = WithLog(nb, f)
  OBVIOUS
<1>2. /\ nb \in Nat
      /\ segments = <<>> => DOMAIN logs = {}
      /\ segments # <<>> =>
              /\ Active.base \in DOMAIN logs
              /\ nb = EndOf(Active.base)
              /\ \A c \in DOMAIN logs : c <= Active.base \/ c = nb
      /\ \A c \in DOMAIN logs :
              IF c = nb THEN logs[c].msgs = <<>>
              ELSE c < nb /\ EndOf(c) <= nb /\ logs[c].msgs # <<>>
  BY NewBaseFacts
<1>3. clock \in Nat /\ <<>> \in Seq(Payload)
  BY DEF TypeOK
<1>4. f \in File /\ f.msgs = <<>> /\ f.bytes = 0 /\ f.mtime \in Nat /\ f.mtime <= clock
  <2>1. CASE nb \in DOMAIN logs
    <3>1. f = logs[nb]
      BY <2>1 DEF NewFile
    <3>. QED BY <1>2, <2>1, <3>1, FileTypes DEF FilesSound
  <2>2. CASE nb \notin DOMAIN logs
    <3>1. f = [msgs |-> <<>>, bytes |-> 0, mtime |-> clock]
      BY <2>2 DEF NewFile
    <3>. QED BY <1>3, <3>1 DEF File
  <2>. QED BY <2>1, <2>2
<1>5. \A c \in DOMAIN logs : c = nb => logs[c] = f
  BY DEF NewFile
<1>6. /\ DOMAIN logs' = DOMAIN logs \cup {nb}
      /\ logs'[nb] = f
      /\ \A c \in DOMAIN logs : c \in Nat /\ c <= nb /\ logs'[c] = logs[c]
  BY <1>1, <1>2, <1>5, FileTypes DEF WithLog
<1>7. ASSUME NEW c \in DOMAIN logs PROVE logs[c].mtime <= f.mtime
  <2>0. logs[c].mtime \in Nat
    BY FileTypes
  <2>1. CASE nb \in DOMAIN logs /\ c # nb
    <3>1. c < nb /\ f = logs[nb]
      BY <1>2, <1>5, <2>1
    <3>. QED BY <2>1, <3>1 DEF FilesOrdered
  <2>2. CASE nb \notin DOMAIN logs
    <3>1. f.mtime = clock
      BY <2>2 DEF NewFile
    <3>. QED BY <3>1 DEF FilesSound
  <2>3. CASE c = nb
    BY <1>5, <2>0, <2>3
  <2>. QED BY <2>1, <2>2, <2>3
<1>8. DOMAIN logs' \subseteq Nat /\ logs' \in [DOMAIN logs' -> File]
  BY <1>1, <1>2, <1>4, <1>6, FileTypes DEF WithLog
<1>9. (\A c \in DOMAIN logs : EndOf(c)' = EndOf(c)) /\ EndOf(nb)' = nb
  BY <1>2, <1>4, <1>6 DEF EndOf
<1>10. FilesOrdered'
  <2>. SUFFICES ASSUME NEW b \in DOMAIN logs', NEW c \in DOMAIN logs', b < c
                PROVE  /\ EndOf(b)' <= c /\ logs'[b].msgs # <<>>
                       /\ logs'[b].mtime <= logs'[c].mtime
    BY DEF FilesOrdered
  <2>1. b \in DOMAIN logs /\ b # nb
    BY <1>2, <1>6
  <2>2. CASE c = nb
    BY <1>2, <1>6, <1>7, <1>9, <2>1, <2>2
  <2>3. CASE c # nb
    BY <1>6, <1>9, <2>1, <2>3 DEF FilesOrdered
  <2>. QED BY <2>2, <2>3
<1>11. FilesAdjacent'
  <2>. SUFFICES ASSUME ~ doomed, NEW b \in DOMAIN logs'
                PROVE  \/ \A c \in DOMAIN logs' : c <= b
                       \/ EndOf(b)' \in DOMAIN logs'
    BY DEF FilesAdjacent
  <2>1. CASE b = nb
    BY <1>2, <1>6, <2>1
  <2>2. CASE b # nb
    <3>1. b \in DOMAIN logs /\ segments # <<>>
      BY <1>2, <1>6, <2>2
    <3>2. CASE \A c \in DOMAIN logs : c <= b
      <4>1. b = Active.base
        <5>1. b <= Active.base /\ Active.base <= b
          BY <1>2, <2>2, <3>1, <3>2
        <5>. QED BY <1>2, <1>6, <3>1, <5>1
      <4>. QED BY <1>2, <1>6, <1>9, <3>1, <4>1
    <3>3. CASE EndOf(b) \in DOMAIN logs
      BY <1>6, <1>9, <3>1, <3>3
    <3>. QED BY <3>1, <3>2, <3>3 DEF FilesAdjacent
  <2>. QED BY <2>1, <2>2
<1>12. FilesSound'
  BY <1>4, <1>6 DEF FilesSound
<1>. QED BY <1>4, <1>6, <1>7, <1>8, <1>9, <1>10, <1>11, <1>12

LEMMA MakeIndexPreserves == IndInv /\ MakeIndex => IndInv'
<1>. SUFFICES ASSUME IndInv, MakeIndex PROVE IndInv'
  OBVIOUS
<1>1. NewBase \in Nat
  BY NewBaseFacts DEF MakeIndex
<1>. USE DEF IndInv, MakeIndex
<1>2. TypeOK'
  BY <1>1 DEF TypeOK
<1>3. FilesOrdered' /\ FilesAdjacent' /\ FilesSound'
  BY DEF FilesOrdered, FilesAdjacent, FilesSound, EndOf
<1>4. SegmentsSorted' /\ SegmentsMatch' /\ SegmentsCover'
  BY DEF SegmentsSorted, SegmentsMatch, SegmentsCover, EndOf, Leftover, NewBase, IsFull, Active
<1>5. ControlSound'
  BY DEF ControlSound, Active, IsFull
<1>. QED BY <1>2, <1>3, <1>4, <1>5

LEMMA MakeLogPreserves == IndInv /\ MakeLog => IndInv'
<1>. SUFFICES ASSUME IndInv, MakeLog PROVE IndInv'
  OBVIOUS
<1>. PICK nb : nb = NewBase
  OBVIOUS
<1>. DEFINE n == Len(segments)
<1>. PICK f : f = NewFile
  OBVIOUS
<1>. PICK new : new = [base |-> nb, next |-> nb + Len(f.msgs), size |-> f.bytes, mtime |-> f.mtime]
  OBVIOUS
<1>1. /\ pc = "log" /\ pc' \in {"append", "clean"}
      /\ logs' = WithLog(NewBase, NewFile)
      /\ segments' = Append(segments, new)
      /\ indexes' = indexes /\ clock' = clock /\ doomed' = doomed
      /\ physicalSize' = physicalSize /\ pending' = pending
      /\ pc' = "append" => pending # <<>>
  BY DEF MakeLog
<1>. USE DEF IndInv
<1>2. /\ nb \in Nat
      /\ \A i \in 1 .. n : segments[i].base < nb
  BY <1>1, NewBaseFacts
<1>3. /\ f \in File /\ f.msgs = <<>> /\ f.bytes = 0 /\ f.mtime \in Nat
      /\ DOMAIN logs' = DOMAIN logs \cup {nb} /\ logs'[nb] = f
      /\ \A c \in DOMAIN logs : c \in Nat /\ logs'[c] = logs[c] /\ logs[c].mtime <= f.mtime
      /\ DOMAIN logs' \subseteq Nat /\ logs' \in [DOMAIN logs' -> File]
      /\ (\A c \in DOMAIN logs : EndOf(c)' = EndOf(c)) /\ EndOf(nb)' = nb
  BY <1>1, NewFileFacts
<1>4. FilesOrdered' /\ FilesAdjacent' /\ FilesSound'
  BY <1>1, NewFileFacts
<1>5. new = [base |-> nb, next |-> nb, size |-> 0, mtime |-> f.mtime] /\ new \in SegmentObject
  <2>1. Len(f.msgs) = 0 /\ nb + 0 = nb
    BY <1>2, <1>3
  <2>. QED BY <1>2, <1>3, <2>1 DEF SegmentObject
<1>6. /\ n \in Nat /\ Len(segments') = n + 1
      /\ \A i \in 1 .. n : segments'[i] = segments[i]
      /\ segments'[n + 1] = new
      /\ segments \in Seq(SegmentObject)
      /\ segments' \in Seq(SegmentObject) /\ segments' # <<>>
  BY SMTT(40), <1>1, <1>5 DEF TypeOK
<1>7. TypeOK'
  BY <1>1, <1>3, <1>6 DEF TypeOK
<1>12. \A i \in 1 .. n : /\ segments[i].base \in DOMAIN logs
                         /\ segments[i].next = EndOf(segments[i].base)
                         /\ segments[i].size = logs[segments[i].base].bytes
                         /\ segments[i].mtime <= logs[segments[i].base].mtime
  BY <1>1, <1>6 DEF SegmentsMatch
<1>13. SegmentsSorted'
  <2>. SUFFICES ASSUME NEW i \in 1 .. n + 1, NEW j \in 1 .. n + 1, i < j
                PROVE  /\ segments'[i].base < segments'[j].base
                       /\ segments'[i].mtime <= segments'[j].mtime
    BY <1>6 DEF SegmentsSorted
  <2>1. i \in 1 .. n
    BY <1>6
  <2>2. CASE j = n + 1
    <3>1. segments[i].base < nb
      BY <1>2, <2>1
    <3>2. logs[segments[i].base].mtime <= f.mtime
      BY <1>3, <1>12, <2>1
    <3>3. /\ segments[i].mtime \in Nat
          /\ logs[segments[i].base].mtime \in Nat
      BY <1>12, <2>1, SegmentTypes, FileTypes
    <3>4. segments[i].mtime <= f.mtime
      BY <1>3, <1>12, <2>1, <3>2, <3>3
    <3>5. segments'[i] = segments[i]
      BY <1>6, <2>1
    <3>6. segments'[j] = new
      BY <1>6, <2>2
    <3>7. segments'[j].base = nb /\ segments'[j].mtime = f.mtime
      BY <1>5, <3>6
    <3>8. segments'[i].base < segments'[j].base
      BY <3>1, <3>5, <3>7
    <3>9. segments'[i].mtime <= segments'[j].mtime
      BY <3>4, <3>5, <3>7
    <3>. QED BY <3>8, <3>9
  <2>3. CASE j # n + 1
    <3>1. n \in Nat /\ DOMAIN segments = 1 .. n
      BY DEF TypeOK
    <3>2. j \in 1 .. n
      BY <2>3, <3>1
    <3>3. segments'[i] = segments[i] /\ segments'[j] = segments[j]
      BY <1>6, <2>1, <3>2
    <3>. QED BY <2>1, <3>1, <3>2, <3>3 DEF SegmentsSorted
  <2>. QED BY <2>2, <2>3
<1>14. SegmentsMatch'
  <2>. SUFFICES ASSUME NEW i \in 1 .. n + 1, NEW b, b = segments'[i].base
                PROVE  /\ b \in DOMAIN logs'
                       /\ segments'[i].next = EndOf(b)'
                       /\ segments'[i].size = logs'[b].bytes
                       /\ segments'[i].mtime <= logs'[b].mtime
    BY <1>6 DEF SegmentsMatch, EndOf
  <2>1. CASE i = n + 1
    BY <1>3, <1>5, <1>6, <2>1
  <2>2. CASE i # n + 1
    BY <1>3, <1>6, <1>12, <2>2
  <2>. QED BY <2>1, <2>2
<1>15. SegmentsCover'
  <2>. SUFFICES ASSUME NEW b \in DOMAIN logs'
                PROVE  \E i \in 1 .. n + 1 : segments'[i].base = b
    BY <1>6 DEF SegmentsCover
  <2>1. CASE b = nb
    BY <1>5, <1>6, <2>1
  <2>2. CASE b # nb
    BY <1>1, <1>3, <1>6, <2>2 DEF SegmentsCover, Leftover
  <2>. QED BY <2>1, <2>2
<1>16. ControlSound'
  BY <1>1, <1>6 DEF ControlSound
<1>. QED BY <1>4, <1>7, <1>13, <1>14, <1>15, <1>16

LEMMA CreateFailsPreserves == IndInv /\ CreateFails => IndInv'
<1>. SUFFICES ASSUME IndInv, CreateFails PROVE IndInv'
  OBVIOUS
<1>1. /\ pc \in {"index", "log"} /\ pending' = <<>>
      /\ pc' = IF pending = <<>> THEN "down" ELSE "idle"
      /\ UNCHANGED <<indexes, clock, doomed, segments, physicalSize>>
  BY DEF CreateFails
<1>. USE DEF IndInv
<1>2. /\ pending = <<>> => segments = <<>>
      /\ pending # <<>> => segments # <<>> /\ IsFull
  BY <1>1 DEF ControlSound
<1>3. ControlSound'
  BY <1>1, <1>2 DEF ControlSound
<1>4. NewBase' = NewBase /\ IsFull' = IsFull
  BY <1>1 DEF NewBase, IsFull, Active
<1>5. CASE UNCHANGED logs
  <2>1. TypeOK'
    BY <1>1, <1>5 DEF TypeOK
  <2>2. FilesOrdered' /\ FilesAdjacent' /\ FilesSound'
    BY <1>1, <1>5 DEF FilesOrdered, FilesAdjacent, FilesSound, EndOf
  <2>3. SegmentsSorted' /\ SegmentsMatch'
    BY <1>1, <1>5 DEF SegmentsSorted, SegmentsMatch, EndOf
  <2>4. SegmentsCover'
    BY <1>1, <1>2, <1>4, <1>5 DEF SegmentsCover, Leftover
  <2>. QED BY <1>3, <2>1, <2>2, <2>3, <2>4
<1>6. CASE pc = "log" /\ logs' = WithLog(NewBase, NewFile)
  <2>. PICK nb : nb = NewBase
    OBVIOUS
  <2>. PICK f : f = NewFile
    OBVIOUS
  <2>1. /\ f \in File /\ f.msgs = <<>>
        /\ DOMAIN logs' = DOMAIN logs \cup {nb} /\ logs'[nb] = f
        /\ \A c \in DOMAIN logs : c \in Nat /\ logs'[c] = logs[c]
        /\ DOMAIN logs' \subseteq Nat /\ logs' \in [DOMAIN logs' -> File]
        /\ \A c \in DOMAIN logs : EndOf(c)' = EndOf(c)
    BY <1>1, <1>6, NewFileFacts
  <2>2. FilesOrdered' /\ FilesAdjacent' /\ FilesSound'
    BY <1>1, <1>6, NewFileFacts
  <2>3. TypeOK'
    BY <1>1, <2>1 DEF TypeOK
  <2>4. SegmentsSorted'
    BY <1>1 DEF SegmentsSorted
  <2>5. SegmentsMatch'
    <3>. SUFFICES ASSUME NEW i \in DOMAIN segments, NEW b, b = segments[i].base
                  PROVE  /\ b \in DOMAIN logs'
                         /\ segments[i].next = EndOf(b)'
                         /\ segments[i].size = logs'[b].bytes
                         /\ segments[i].mtime <= logs'[b].mtime
      BY <1>1 DEF SegmentsMatch, EndOf
    <3>. QED BY <1>6, <2>1 DEF SegmentsMatch
  <2>6. SegmentsCover'
    <3>. SUFFICES ASSUME pc' = "idle", NEW b \in DOMAIN logs'
                  PROVE  (\E i \in DOMAIN segments : segments[i].base = b) \/ Leftover(b)'
      BY <1>1 DEF SegmentsCover
    <3>1. segments # <<>> /\ IsFull
      BY <1>1, <1>2
    <3>2. CASE b = nb
      BY <1>1, <1>4, <2>1, <3>1, <3>2 DEF Leftover
    <3>3. CASE b # nb
      BY <1>6, <2>1, <3>3 DEF SegmentsCover, Leftover
    <3>. QED BY <3>2, <3>3
  <2>. QED BY <1>3, <2>2, <2>3, <2>4, <2>5, <2>6
<1>. QED BY <1>5, <1>6 DEF CreateFails

-----------------------------------------------------------------------------
(* Writing                                                                 *)

LEMMA WritePreserves == ASSUME NEW p \in Payload PROVE IndInv /\ Write(p) => IndInv'
<1>. SUFFICES ASSUME IndInv, Write(p) PROVE IndInv'
  OBVIOUS
<1>. USE DEF IndInv, Write, disk
<1>1. TypeOK'
  BY DEF TypeOK
<1>2. FilesOrdered' /\ FilesAdjacent' /\ FilesSound'
  BY DEF FilesOrdered, FilesAdjacent, FilesSound, EndOf
<1>3. SegmentsSorted' /\ SegmentsMatch' /\ SegmentsCover'
  BY DEF SegmentsSorted, SegmentsMatch, SegmentsCover, EndOf, Leftover, NewBase, IsFull, Active
<1>4. segments # <<>>
  BY DEF ControlSound
<1>5. IsFull => logs[Active.base].msgs # <<>>
  <2>. DEFINE n == Len(segments)
  <2>1. n \in 1 .. n /\ Active = segments[n]
    <3>1. segments \in Seq(SegmentObject)
      BY DEF TypeOK
    <3>. QED BY <1>4, <3>1 DEF Active, Last
  <2>2. Active.base \in DOMAIN logs /\ Active.size = logs[Active.base].bytes
    BY <2>1 DEF SegmentsMatch
  <2>3. Active.size \in Nat
    BY <2>1, SegmentTypes
  <2>. QED BY <2>2, <2>3, LimitsNat DEF IsFull, FilesSound
<1>6. ControlSound'
  BY <1>4, <1>5 DEF ControlSound, Active, IsFull
<1>. QED BY <1>1, <1>2, <1>3, <1>6

\* The active segment's file is the last.
LEMMA ActiveIsLast ==
  ASSUME IndInv, pc = "append"
  PROVE  Active.base \in DOMAIN logs /\ \A c \in DOMAIN logs : c <= Active.base
<1>. USE DEF IndInv
<1>. PICK n : n = Len(segments)
  OBVIOUS
<1>1. n \in Nat /\ n \in 1 .. n /\ Active = segments[n] /\ DOMAIN segments = 1 .. n
  <2>1. segments \in Seq(SegmentObject) /\ segments # <<>>
    BY DEF TypeOK, ControlSound
  <2>. QED BY <2>1 DEF Active, Last
<1>2. Active.base \in DOMAIN logs
  BY <1>1 DEF SegmentsMatch
<1>3. ASSUME NEW c \in DOMAIN logs PROVE c <= Active.base
  <2>1. PICK i \in 1 .. n : segments[i].base = c
    BY <1>1 DEF SegmentsCover, Leftover
  <2>2. CASE i = n
    BY <1>1, <1>2, <2>1, <2>2, FileTypes
  <2>3. CASE i # n
    <3>1. i < n
      BY <1>1, <2>3
    <3>2. segments[i].base < segments[n].base
      BY <1>1, <3>1 DEF SegmentsSorted
    <3>. QED BY <1>1, <1>2, <2>1, <3>2, FileTypes
  <2>. QED BY <2>2, <2>3
<1>. QED BY <1>2, <1>3

LEMMA AppendMessagePreserves == IndInv /\ AppendMessage => IndInv'
<1>. SUFFICES ASSUME IndInv, AppendMessage PROVE IndInv'
  OBVIOUS
<1>. USE DEF IndInv
<1>. PICK n : n = Len(segments)
  OBVIOUS
<1>. PICK a : a = Active.base
  OBVIOUS
<1>. PICK added : added = HeaderSize + PayloadSize[pending[1]]
  OBVIOUS
<1>1. /\ pc = "append" /\ pc' = "idle" /\ pending' = <<>>
      /\ logs' = [logs EXCEPT ![a] = [msgs  |-> Append(@.msgs, pending[1]),
                                      bytes |-> @.bytes + added,
                                      mtime |-> clock]]
      /\ segments' = [segments EXCEPT ![n] = [base  |-> @.base,
                                              next  |-> @.next + 1,
                                              size  |-> @.size + added,
                                              mtime |-> @.mtime]]
      /\ physicalSize' = physicalSize + added
      /\ indexes' = indexes /\ clock' = clock /\ doomed' = doomed
  BY DEF AppendMessage
<1>2. /\ n \in Nat /\ n \in 1 .. n /\ Active = segments[n]
      /\ segments \in Seq(SegmentObject)
  <2>1. segments \in Seq(SegmentObject) /\ segments # <<>>
    BY <1>1 DEF TypeOK, ControlSound
  <2>. QED BY <2>1 DEF Active, Last
<1>3. pending[1] \in Payload /\ added \in Nat
  <2>1. pending[1] \in Payload
    BY <1>1 DEF TypeOK, ControlSound
  <2>. QED BY <2>1, HeaderSizeNat, PayloadSizes
<1>4. \A i \in 1 .. n : /\ segments[i].base \in DOMAIN logs
                        /\ segments[i].next = EndOf(segments[i].base)
                        /\ segments[i].size = logs[segments[i].base].bytes
                        /\ segments[i].mtime <= logs[segments[i].base].mtime
  BY <1>1, <1>2 DEF SegmentsMatch
<1>5. a \in DOMAIN logs /\ a = segments[n].base
  BY <1>2, <1>4
<1>6. \A c \in DOMAIN logs : c <= a
  BY <1>1, ActiveIsLast
<1>7. /\ DOMAIN logs' = DOMAIN logs
      /\ \A c \in DOMAIN logs : c # a => logs'[c] = logs[c]
      /\ logs'[a].msgs = Append(logs[a].msgs, pending[1])
      /\ logs'[a].bytes = logs[a].bytes + added
      /\ logs'[a].mtime = clock
  BY <1>1, <1>5 DEF TypeOK
<1>8. clock \in Nat /\ logs'[a] \in File
  <2>1. /\ logs[a].msgs \in Seq(Payload) /\ logs[a].bytes \in Nat /\ clock \in Nat
    BY <1>5, FileTypes DEF TypeOK
  <2>2. logs'[a] = [msgs  |-> Append(logs[a].msgs, pending[1]),
                    bytes |-> logs[a].bytes + added,
                    mtime |-> clock]
    BY <1>1, <1>5 DEF TypeOK
  <2>3. Append(logs[a].msgs, pending[1]) \in Seq(Payload)
    BY <1>3, <2>1
  <2>. QED BY <1>3, <2>1, <2>2, <2>3 DEF File
<1>9. logs' \in [DOMAIN logs' -> File]
  BY <1>1, <1>7, <1>8, FileTypes
<1>10. /\ logs'[a].msgs # <<>>
       /\ EndOf(a)' = EndOf(a) + 1
       /\ \A c \in DOMAIN logs : c # a => EndOf(c)' = EndOf(c)
  <2>1. logs[a].msgs \in Seq(Payload) /\ a \in Nat
    BY <1>5, FileTypes
  <2>2. /\ Len(Append(logs[a].msgs, pending[1])) = Len(logs[a].msgs) + 1
        /\ Append(logs[a].msgs, pending[1]) # <<>>
        /\ Len(logs[a].msgs) \in Nat
    BY <1>3, <2>1, Appending
  <2>3. logs'[a].msgs # <<>> /\ Len(logs'[a].msgs) = Len(logs[a].msgs) + 1
    BY <1>7, <2>2
  <2>4. EndOf(a)' = a + Len(logs'[a].msgs) /\ EndOf(a) = a + Len(logs[a].msgs)
    BY DEF EndOf
  <2>5. EndOf(a)' = EndOf(a) + 1
    BY <2>1, <2>2, <2>3, <2>4
  <2>6. ASSUME NEW c \in DOMAIN logs, c # a PROVE EndOf(c)' = EndOf(c)
    BY <1>7, <2>6 DEF EndOf
  <2>. QED BY <2>3, <2>5, <2>6
<1>11. PICK wider : wider = [base  |-> segments[n].base,
                             next  |-> segments[n].next + 1,
                             size  |-> segments[n].size + added,
                             mtime |-> segments[n].mtime]
  OBVIOUS
<1>12. /\ Len(segments') = n
       /\ segments' \in Seq(SegmentObject) /\ segments' # <<>>
       /\ \A i \in 1 .. n : i # n => segments'[i] = segments[i]
       /\ segments'[n].base = segments[n].base
       /\ segments'[n].mtime = segments[n].mtime
       /\ segments'[n].next = segments[n].next + 1
       /\ segments'[n].size = segments[n].size + added
  <2>1. wider \in SegmentObject
    <3>1. /\ segments[n].base \in Nat /\ segments[n].next \in Nat
          /\ segments[n].size \in Nat /\ segments[n].mtime \in Nat
      BY <1>2, SegmentTypes
    <3>2. segments[n].next + 1 \in Nat /\ segments[n].size + added \in Nat
      BY SMTT(40), <1>3, <3>1
    <3>. QED BY <1>11, <3>1, <3>2 DEF SegmentObject
  <2>2. segments' = [segments EXCEPT ![n] = wider]
    BY <1>1, <1>2, <1>11
  <2>3. /\ Len(segments') = n
        /\ segments' \in Seq(SegmentObject) /\ segments' # <<>>
        /\ \A i \in 1 .. n : i # n => segments'[i] = segments[i]
        /\ segments'[n] = wider
    BY <1>2, <2>1, <2>2
  <2>. QED BY <1>11, <2>3
<1>13. TypeOK'
  BY <1>1, <1>3, <1>7, <1>9, <1>12 DEF TypeOK
<1>14. FilesOrdered'
  <2>. SUFFICES ASSUME NEW b \in DOMAIN logs, NEW c \in DOMAIN logs, b < c
                PROVE  /\ EndOf(b)' <= c /\ logs'[b].msgs # <<>>
                       /\ logs'[b].mtime <= logs'[c].mtime
    BY <1>7 DEF FilesOrdered
  <2>1. b # a
    BY <1>5, <1>6, FileTypes
  <2>2. EndOf(b) <= c /\ logs[b].msgs # <<>> /\ logs[b].mtime <= logs[c].mtime
    BY DEF FilesOrdered
  <2>3. logs[b].mtime <= clock
    BY DEF FilesSound
  <2>. QED BY <1>7, <1>10, <2>1, <2>2, <2>3
<1>15. FilesAdjacent'
  BY <1>1, <1>6, <1>7, <1>10 DEF FilesAdjacent
<1>16. FilesSound'
  <2>1. clock <= clock
    BY <1>8
  <2>. QED BY <1>1, <1>7, <1>10, <2>1 DEF FilesSound
<1>17. SegmentsSorted'
  <2>1. \A i \in 1 .. n : /\ segments'[i].base = segments[i].base
                          /\ segments'[i].mtime = segments[i].mtime
    BY <1>12
  <2>2. DOMAIN segments' = 1 .. n /\ DOMAIN segments = 1 .. n
    BY <1>2, <1>12
  <2>. QED BY <2>1, <2>2 DEF SegmentsSorted
<1>18. SegmentsMatch'
  <2>. SUFFICES ASSUME NEW i \in 1 .. n, NEW b, b = segments'[i].base
                PROVE  /\ b \in DOMAIN logs'
                       /\ segments'[i].next = EndOf(b)'
                       /\ segments'[i].size = logs'[b].bytes
                       /\ segments'[i].mtime <= logs'[b].mtime
    BY <1>12 DEF SegmentsMatch, EndOf
  <2>1. CASE i = n
    <3>1. logs[a].mtime <= clock /\ segments[n].mtime <= logs[a].mtime
      BY <1>2, <1>4, <1>5 DEF FilesSound
    <3>2. segments[n].mtime \in Nat /\ logs[a].mtime \in Nat
      BY <1>2, <1>5, SegmentTypes, FileTypes
    <3>3. b = a /\ b \in DOMAIN logs'
      BY <1>5, <1>7, <1>12, <2>1
    <3>4. segments'[n].next = EndOf(a)'
      BY <1>2, <1>4, <1>5, <1>10, <1>12
    <3>5. segments'[n].size = logs'[a].bytes
      BY <1>2, <1>4, <1>5, <1>7, <1>12
    <3>6. segments'[n].mtime <= logs'[a].mtime
      BY <1>7, <1>8, <1>12, <3>1, <3>2
    <3>. QED BY <2>1, <3>3, <3>4, <3>5, <3>6
  <2>2. CASE i # n
    <3>1. segments[i].base # a
      <4>1. i < n
        BY <1>2, <2>2
      <4>2. segments[i].base < segments[n].base
        BY <1>2, <4>1 DEF SegmentsSorted
      <4>. QED BY <1>2, <1>5, <4>2, SegmentTypes
    <3>. QED BY <1>4, <1>7, <1>10, <1>12, <2>2, <3>1
  <2>. QED BY <2>1, <2>2
<1>19. SegmentsCover'
  <2>1. \A i \in 1 .. n : segments'[i].base = segments[i].base
    BY <1>12
  <2>2. DOMAIN segments' = 1 .. n /\ DOMAIN segments = 1 .. n
    BY <1>2, <1>12
  <2>. QED BY <1>1, <1>7, <2>1, <2>2 DEF SegmentsCover, Leftover
<1>20. ControlSound'
  BY <1>1, <1>12 DEF ControlSound
<1>. QED BY <1>13, <1>14, <1>15, <1>16, <1>17, <1>18, <1>19, <1>20

-----------------------------------------------------------------------------
(* Retention                                                               *)

\* Taking a file away leaves the others in order.
LEMMA WithoutLogFacts ==
  ASSUME TypeOK, FilesOrdered, FilesSound, NEW b, logs' = WithoutLog(b), clock' = clock
  PROVE  /\ DOMAIN logs' = DOMAIN logs \ {b}
         /\ DOMAIN logs' \subseteq Nat /\ logs' \in [DOMAIN logs' -> File]
         /\ \A c \in DOMAIN logs' : logs'[c] = logs[c] /\ EndOf(c)' = EndOf(c)
         /\ FilesOrdered' /\ FilesSound'
<1>1. /\ DOMAIN logs' = DOMAIN logs \ {b}
      /\ \A c \in DOMAIN logs' : logs'[c] = logs[c]
  BY DEF WithoutLog
<1>2. DOMAIN logs' \subseteq Nat /\ logs' \in [DOMAIN logs' -> File]
  BY <1>1, FileTypes DEF WithoutLog
<1>3. \A c \in DOMAIN logs' : EndOf(c)' = EndOf(c)
  BY <1>1 DEF EndOf
<1>4. FilesOrdered'
  BY <1>1, <1>3 DEF FilesOrdered
<1>5. FilesSound'
  BY <1>1 DEF FilesSound
<1>. QED BY <1>1, <1>2, <1>3, <1>4, <1>5

\* What retention removes: the file of the first segment, the oldest of all.
LEMMA UnlinkLogFacts ==
  ASSUME IndInv, UnlinkLog
  PROVE  /\ Len(segments) > 1 /\ FirstVictim(1)
         /\ segments[1].base \in DOMAIN logs
         /\ logs' = WithoutLog(segments[1].base)
         /\ \A c \in DOMAIN logs : segments[1].base <= c
<1>. USE DEF IndInv
<1>1. /\ pc = "clean"
      /\ \E i \in DOMAIN segments :
           FirstVictim(i) /\ logs' = WithoutLog(segments[i].base)
  BY DEF UnlinkLog
<1>2. /\ Len(segments) > 1 /\ FirstVictim(1)
      /\ logs' = WithoutLog(segments[1].base)
  BY <1>1, VictimIsFirst
<1>3. DOMAIN segments = 1 .. Len(segments) /\ Len(segments) \in Nat
  BY DEF TypeOK
<1>4. segments[1].base \in DOMAIN logs
  BY <1>1, <1>2, <1>3 DEF SegmentsMatch
<1>5. ASSUME NEW c \in DOMAIN logs PROVE segments[1].base <= c
  <2>1. PICK i \in 1 .. Len(segments) : segments[i].base = c
    BY <1>1, <1>3 DEF SegmentsCover, Leftover
  <2>2. CASE i = 1
    BY <1>4, <2>1, <2>2, FileTypes
  <2>3. CASE i # 1
    <3>1. segments[1].base < segments[i].base
      BY <1>2, <1>3, <2>3 DEF SegmentsSorted
    <3>. QED BY <1>4, <2>1, <3>1, FileTypes
  <2>. QED BY <2>2, <2>3
<1>. QED BY <1>2, <1>4, <1>5

LEMMA UnlinkLogPreserves == IndInv /\ UnlinkLog => IndInv'
<1>. SUFFICES ASSUME IndInv, UnlinkLog PROVE IndInv'
  OBVIOUS
<1>. PICK b : b = segments[1].base
  OBVIOUS
<1>1. /\ Len(segments) > 1 /\ FirstVictim(1) /\ b \in DOMAIN logs
      /\ logs' = WithoutLog(b)
      /\ \A c \in DOMAIN logs : b <= c
  BY UnlinkLogFacts
<1>. USE DEF IndInv
<1>2. /\ pc = "clean" /\ pc' = "unlink"
      /\ indexes' = indexes /\ clock' = clock /\ doomed' = doomed
      /\ segments' = segments /\ physicalSize' = physicalSize /\ pending' = pending
  BY DEF UnlinkLog
<1>3. /\ DOMAIN logs' = DOMAIN logs \ {b}
      /\ DOMAIN logs' \subseteq Nat /\ logs' \in [DOMAIN logs' -> File]
      /\ \A c \in DOMAIN logs' : logs'[c] = logs[c] /\ EndOf(c)' = EndOf(c)
      /\ FilesOrdered' /\ FilesSound'
  BY <1>1, <1>2, WithoutLogFacts
<1>4. TypeOK'
  BY <1>2, <1>3 DEF TypeOK
<1>5. FilesAdjacent'
  <2>. SUFFICES ASSUME ~ doomed, NEW c \in DOMAIN logs', EndOf(c) \in DOMAIN logs
                PROVE  EndOf(c) \in DOMAIN logs'
    BY <1>2, <1>3 DEF FilesAdjacent
  <2>1. b <= c /\ c # b /\ c <= EndOf(c) /\ b \in Nat /\ c \in Nat /\ EndOf(c) \in Nat
    BY <1>1, <1>3, FileTypes
  <2>. QED BY <1>3, <2>1
<1>6. SegmentsSorted'
  BY <1>2 DEF SegmentsSorted
<1>7. SegmentsMatch'
  <2>. SUFFICES ASSUME NEW i \in 1 .. Len(segments), i # 1,
                       NEW c, c = segments[i].base
                PROVE  /\ c \in DOMAIN logs'
                       /\ segments[i].next = EndOf(c)'
                       /\ segments[i].size = logs'[c].bytes
                       /\ segments[i].mtime <= logs'[c].mtime
    <3>1. DOMAIN segments = 1 .. Len(segments)
      BY DEF TypeOK
    <3>. QED BY <1>2, <3>1 DEF SegmentsMatch, EndOf
  <2>1. segments[1].base < segments[i].base
    BY DEF SegmentsSorted, TypeOK
  <2>2. c # b
    BY <1>1, <2>1, FileTypes
  <2>3. /\ c \in DOMAIN logs /\ segments[i].next = EndOf(c)
        /\ segments[i].size = logs[c].bytes /\ segments[i].mtime <= logs[c].mtime
    BY <1>2 DEF SegmentsMatch
  <2>. QED BY <1>3, <2>2, <2>3
<1>8. SegmentsCover'
  BY <1>2, <1>3 DEF SegmentsCover, Leftover
<1>9. FirstVictim(1)'
  BY <1>1, <1>2 DEF FirstVictim, Victim, TooOld, PartitionTooLarge
<1>10. ControlSound'
  BY <1>2, <1>3, <1>9 DEF ControlSound
<1>. QED BY <1>3, <1>4, <1>5, <1>6, <1>7, <1>8, <1>10

LEMMA UnlinkIndexPreserves == IndInv /\ UnlinkIndex => IndInv'
<1>. SUFFICES ASSUME IndInv, UnlinkIndex PROVE IndInv'
  OBVIOUS
<1>. USE DEF IndInv
<1>. PICK n : n = Len(segments)
  OBVIOUS
<1>1. /\ pc = "unlink" /\ pc' = "clean"
      /\ logs' = logs /\ clock' = clock /\ doomed' = doomed /\ pending' = pending
      /\ \E i \in DOMAIN segments :
           /\ FirstVictim(i)
           /\ indexes' = indexes \ {segments[i].base}
           /\ segments' = RemoveAt(segments, i)
           /\ physicalSize' = physicalSize - segments[i].size
  BY DEF UnlinkIndex
<1>2. /\ n > 1 /\ n \in Nat /\ DOMAIN segments = 1 .. n
      /\ indexes' = indexes \ {segments[1].base}
      /\ segments' = RemoveAt(segments, 1)
      /\ physicalSize' = physicalSize - segments[1].size
  BY <1>1, VictimIsFirst DEF TypeOK
<1>3. /\ segments' \in Seq(SegmentObject)
      /\ Len(segments') = n - 1 /\ DOMAIN segments' = 1 .. n - 1
      /\ \A i \in 1 .. n - 1 : segments'[i] = segments[i + 1]
  <2>1. segments \in Seq(SegmentObject) /\ Len(segments) >= 1
    BY <1>2 DEF TypeOK
  <2>2. /\ RemoveAt(segments, 1) \in Seq(SegmentObject)
        /\ Len(RemoveAt(segments, 1)) = n - 1
        /\ \A i \in 1 .. n - 1 : RemoveAt(segments, 1)[i] = segments[i + 1]
    BY <2>1, RemovingFirst
  <2>. QED BY <1>2, <2>2
<1>4. TypeOK'
  <2>1. physicalSize' \in Int
    <3>1. segments[1].size \in Nat /\ physicalSize \in Int
      BY <1>2, SegmentTypes DEF TypeOK
    <3>. QED BY <1>2, <3>1
  <2>. QED BY <1>1, <1>2, <1>3, <2>1 DEF TypeOK
<1>5. FilesOrdered' /\ FilesAdjacent' /\ FilesSound'
  BY <1>1 DEF FilesOrdered, FilesAdjacent, FilesSound, EndOf
<1>6. SegmentsSorted'
  <2>. SUFFICES ASSUME NEW i \in 1 .. n - 1, NEW j \in 1 .. n - 1, i < j
                PROVE  /\ segments'[i].base < segments'[j].base
                       /\ segments'[i].mtime <= segments'[j].mtime
    BY <1>3 DEF SegmentsSorted
  <2>1. i + 1 \in 1 .. n /\ j + 1 \in 1 .. n /\ i + 1 < j + 1
    BY <1>2
  <2>. QED BY <1>2, <1>3, <2>1 DEF SegmentsSorted
<1>7. SegmentsMatch'
  <2>. SUFFICES ASSUME NEW i \in 1 .. n - 1
                PROVE  /\ segments'[i].base \in DOMAIN logs
                       /\ segments'[i].next = EndOf(segments'[i].base)
                       /\ segments'[i].size = logs[segments'[i].base].bytes
                       /\ segments'[i].mtime <= logs[segments'[i].base].mtime
    BY <1>1, <1>3 DEF SegmentsMatch, EndOf
  <2>1. i + 1 \in 1 .. n /\ i + 1 # 1
    BY <1>2
  <2>. QED BY <1>2, <1>3, <2>1 DEF SegmentsMatch
<1>8. SegmentsCover'
  <2>. SUFFICES ASSUME NEW b \in DOMAIN logs
                PROVE  \E i \in 1 .. n - 1 : segments'[i].base = b
    BY <1>1, <1>3 DEF SegmentsCover
  <2>1. PICK i \in 1 .. n : segments[i].base = b
    BY <1>1, <1>2 DEF SegmentsCover, Leftover
  <2>2. i # 1
    BY <1>1, <2>1 DEF ControlSound
  <2>3. i - 1 \in 1 .. n - 1 /\ (i - 1) + 1 = i
    BY <1>2, <2>2
  <2>4. segments'[i - 1] = segments[i]
    BY <1>3, <2>3
  <2>. QED BY <2>1, <2>3, <2>4
<1>9. ControlSound'
  <2>1. segments' # <<>>
    BY <1>2, <1>3
  <2>. QED BY <1>1, <2>1 DEF ControlSound
<1>. QED BY <1>4, <1>5, <1>6, <1>7, <1>8, <1>9

LEMMA CleanDonePreserves == IndInv /\ CleanDone => IndInv'
<1>. SUFFICES ASSUME IndInv, CleanDone PROVE IndInv'
  OBVIOUS
<1>. USE DEF IndInv, CleanDone, disk
<1>1. TypeOK'
  BY DEF TypeOK
<1>2. FilesOrdered' /\ FilesAdjacent' /\ FilesSound'
  BY DEF FilesOrdered, FilesAdjacent, FilesSound, EndOf
<1>3. SegmentsSorted' /\ SegmentsMatch' /\ SegmentsCover'
  BY DEF SegmentsSorted, SegmentsMatch, SegmentsCover, EndOf, Leftover
<1>4. ControlSound'
  BY DEF ControlSound
<1>. QED BY <1>1, <1>2, <1>3, <1>4

-----------------------------------------------------------------------------
(* Closing, dying, deleting                                                *)

\* The files as they are, and no object: the invariant needs no more.
LEMMA NoObject ==
  ASSUME IndInv, UNCHANGED <<logs, clock>>, indexes' \subseteq Nat,
         LoseMemory, pc' \in {"down", "removing"}, doomed' \in BOOLEAN,
         doomed => doomed', pc' = "removing" => doomed'
  PROVE  IndInv'
<1>. USE DEF IndInv, LoseMemory
<1>1. segments' \in Seq(SegmentObject) /\ DOMAIN segments' = {}
  OBVIOUS
<1>2. TypeOK'
  <2>1. pc' \in Points /\ physicalSize' \in Int /\ pending' \in {<<>>}
    OBVIOUS
  <2>. QED BY <1>1, <2>1 DEF TypeOK
<1>3. FilesOrdered' /\ FilesSound'
  BY DEF FilesOrdered, FilesSound, EndOf
<1>4. FilesAdjacent'
  BY DEF FilesAdjacent, EndOf
<1>5. SegmentsSorted' /\ SegmentsMatch' /\ SegmentsCover'
  BY <1>1 DEF SegmentsSorted, SegmentsMatch, SegmentsCover
<1>6. ControlSound'
  BY DEF ControlSound
<1>. QED BY <1>2, <1>3, <1>4, <1>5, <1>6

LEMMA ClosePreserves == IndInv /\ (Close \/ Crash) => IndInv'
<1>. SUFFICES ASSUME IndInv, Close \/ Crash PROVE IndInv'
  OBVIOUS
<1>1. /\ UNCHANGED <<logs, clock>> /\ indexes' = indexes /\ doomed' = doomed
      /\ LoseMemory /\ pc' = "down"
  BY DEF Close, Crash, disk
<1>2. indexes \subseteq Nat /\ doomed \in BOOLEAN
  BY DEF IndInv, TypeOK
<1>. QED BY <1>1, <1>2, NoObject

LEMMA DeletePreserves == IndInv /\ DeletePartition => IndInv'
<1>. SUFFICES ASSUME IndInv, DeletePartition PROVE IndInv'
  OBVIOUS
<1>1. /\ UNCHANGED <<logs, clock>> /\ indexes' = indexes /\ doomed' = TRUE
      /\ LoseMemory /\ pc' = "removing"
  BY DEF DeletePartition
<1>2. indexes \subseteq Nat
  BY DEF IndInv, TypeOK
<1>. QED BY <1>1, <1>2, NoObject

LEMMA RemoveLogPreserves == IndInv /\ RemoveLog => IndInv'
<1>. SUFFICES ASSUME IndInv, RemoveLog PROVE IndInv'
  OBVIOUS
<1>. PICK b : logs' = WithoutLog(b)
  BY DEF RemoveLog
<1>1. /\ pc = "removing" /\ UNCHANGED <<indexes, clock, doomed, memory>>
  BY DEF RemoveLog
<1>. USE DEF IndInv, memory
<1>2. /\ DOMAIN logs' \subseteq Nat /\ logs' \in [DOMAIN logs' -> File]
      /\ FilesOrdered' /\ FilesSound'
  BY <1>1, WithoutLogFacts
<1>3. TypeOK'
  BY <1>1, <1>2 DEF TypeOK
<1>4. segments = <<>> /\ segments' = <<>> /\ doomed'
  BY <1>1 DEF ControlSound
<1>5. FilesAdjacent' /\ SegmentsSorted' /\ SegmentsMatch' /\ SegmentsCover'
  BY <1>1, <1>4 DEF FilesAdjacent, SegmentsSorted, SegmentsMatch, SegmentsCover
<1>6. ControlSound'
  BY <1>1, <1>4 DEF ControlSound
<1>. QED BY <1>2, <1>3, <1>5, <1>6

LEMMA RemoveIndexPreserves == IndInv /\ RemoveIndex => IndInv'
<1>. SUFFICES ASSUME IndInv, RemoveIndex PROVE IndInv'
  OBVIOUS
<1>. USE DEF IndInv, RemoveIndex, memory
<1>1. TypeOK'
  BY DEF TypeOK
<1>2. FilesOrdered' /\ FilesAdjacent' /\ FilesSound'
  BY DEF FilesOrdered, FilesAdjacent, FilesSound, EndOf
<1>3. SegmentsSorted' /\ SegmentsMatch' /\ SegmentsCover'
  BY DEF SegmentsSorted, SegmentsMatch, SegmentsCover, EndOf
<1>4. ControlSound'
  BY DEF ControlSound
<1>. QED BY <1>1, <1>2, <1>3, <1>4

LEMMA RemoveDonePreserves == IndInv /\ RemoveDone => IndInv'
<1>. SUFFICES ASSUME IndInv, RemoveDone PROVE IndInv'
  OBVIOUS
<1>. USE DEF IndInv, RemoveDone
<1>1. TypeOK'
  BY DEF TypeOK
<1>2. FilesOrdered' /\ FilesAdjacent' /\ FilesSound'
  BY DEF FilesOrdered, FilesAdjacent, FilesSound
<1>3. segments = <<>>
  BY DEF ControlSound
<1>4. SegmentsSorted' /\ SegmentsMatch' /\ SegmentsCover' /\ ControlSound'
  BY <1>3 DEF SegmentsSorted, SegmentsMatch, SegmentsCover, ControlSound
<1>. QED BY <1>1, <1>2, <1>4

LEMMA TickPreserves == IndInv /\ Tick => IndInv'
<1>. SUFFICES ASSUME IndInv, Tick PROVE IndInv'
  OBVIOUS
<1>. USE DEF IndInv, Tick, memory
<1>1. TypeOK'
  BY DEF TypeOK
<1>2. FilesOrdered' /\ FilesAdjacent'
  BY DEF FilesOrdered, FilesAdjacent, EndOf
<1>3. FilesSound'
  <2>. SUFFICES ASSUME NEW b \in DOMAIN logs PROVE logs[b].mtime <= clock + 1
    BY DEF FilesSound
  <2>1. logs[b].mtime <= clock /\ logs[b].mtime \in Nat /\ clock \in Nat
    BY FileTypes DEF FilesSound, TypeOK
  <2>. QED BY <2>1
<1>4. SegmentsSorted' /\ SegmentsMatch' /\ SegmentsCover'
  BY DEF SegmentsSorted, SegmentsMatch, SegmentsCover, EndOf, Leftover, NewBase, IsFull, Active
<1>5. ControlSound'
  BY DEF ControlSound, IsFull, Active
<1>. QED BY <1>1, <1>2, <1>3, <1>4, <1>5

-----------------------------------------------------------------------------
(* The theorems                                                            *)

LEMMA NextPreserves == IndInv /\ [Next]_vars => IndInv'
<1>. SUFFICES ASSUME IndInv, [Next]_vars PROVE IndInv'
  OBVIOUS
<1>1. CASE OperationStep
  BY <1>1, LoadSegmentPreserves, LoadDonePreserves, MakeIndexPreserves,
     MakeLogPreserves, CreateFailsPreserves, AppendMessagePreserves,
     UnlinkLogPreserves, UnlinkIndexPreserves, CleanDonePreserves,
     RemoveLogPreserves, RemoveIndexPreserves, RemoveDonePreserves
     DEF OperationStep
<1>2. CASE Open \/ Close \/ DeletePartition \/ Crash \/ Tick
  BY <1>2, OpenPreserves, ClosePreserves, DeletePreserves, TickPreserves
<1>3. CASE \E p \in Payload : Write(p)
  BY <1>3, WritePreserves
<1>4. CASE UNCHANGED vars
  <2>. USE <1>4 DEF vars, disk, memory, IndInv
  <2>1. TypeOK' /\ FilesOrdered' /\ FilesAdjacent' /\ FilesSound'
    BY DEF TypeOK, FilesOrdered, FilesAdjacent, FilesSound, EndOf
  <2>2. SegmentsSorted' /\ SegmentsMatch' /\ SegmentsCover'
    BY DEF SegmentsSorted, SegmentsMatch, SegmentsCover, EndOf, Leftover, NewBase, IsFull, Active
  <2>3. ControlSound'
    BY DEF ControlSound, IsFull, Active, FirstVictim, Victim, TooOld, PartitionTooLarge
  <2>. QED BY <2>1, <2>2, <2>3
<1>. QED BY <1>1, <1>2, <1>3, <1>4 DEF Next

\* The inductive invariant holds of every execution: files, list of segments and
\* point of the code agree whatever is interrupted (Partition.cc:50-131, 222-256).
THEOREM Invariance == Spec => []IndInv
<1>. QED BY InitEstablishes, NextPreserves, PTL DEF Spec

\* The state has the types its declarations give it.
THEOREM TypeCorrect == Spec => []TypeOK
<1>1. IndInv => TypeOK
  BY DEF IndInv
<1>. QED BY <1>1, Invariance, PTL

\* The files of a partition hold its offsets without hole or overlap at every
\* instant, for every limit, any number of segments and any interruption.
THEOREM Contiguity == Spec => []DiskContiguous
<1>1. IndInv => DiskContiguous
  <2>. SUFFICES ASSUME IndInv, ~ doomed, NEW b \in DOMAIN logs,
                       NEW d \in DOMAIN logs, ~ (d <= b)
                PROVE  /\ logs[b].msgs # <<>> /\ EndOf(b) \in DOMAIN logs
                       /\ \A c \in DOMAIN logs : b < c => EndOf(b) <= c
    BY DEF DiskContiguous
  <2>1. b < d
    BY FileTypes DEF IndInv
  <2>. QED BY <2>1 DEF IndInv, FilesAdjacent, FilesOrdered
<1>. QED BY <1>1, Invariance, PTL

\* Retention removes the oldest file and never the last one.
THEOREM RetentionOrder == Spec => RetentionTakesOldest
<1>1. IndInv /\ [Next]_vars =>
        [pc = "clean" =>
           \A b \in DOMAIN logs \ DOMAIN logs' :
             /\ \A c \in DOMAIN logs : b <= c
             /\ \E c \in DOMAIN logs : b < c]_vars
  <2>. SUFFICES ASSUME IndInv, Next, pc = "clean", NEW b \in DOMAIN logs \ DOMAIN logs'
                PROVE  /\ \A c \in DOMAIN logs : b <= c
                       /\ \E c \in DOMAIN logs : b < c
    OBVIOUS
  <2>1. UnlinkLog
    BY DEF Next, OperationStep, LoadSegment, LoadDone, MakeIndex, MakeLog,
           CreateFails, AppendMessage, UnlinkIndex, CleanDone, RemoveLog,
           RemoveIndex, RemoveDone, Open, Close, DeletePartition, Crash, Tick,
           Write, disk
  <2>2. /\ Len(segments) > 1 /\ logs' = WithoutLog(segments[1].base)
        /\ \A c \in DOMAIN logs : segments[1].base <= c
    BY <2>1, UnlinkLogFacts
  <2>3. b = segments[1].base
    BY <2>2 DEF WithoutLog
  <2>4. segments[2].base \in DOMAIN logs /\ segments[1].base < segments[2].base
    <3>1. /\ DOMAIN segments = 1 .. Len(segments)
          /\ 1 \in DOMAIN segments /\ 2 \in DOMAIN segments
      BY <2>2 DEF IndInv, TypeOK
    <3>. QED BY <3>1 DEF IndInv, SegmentsMatch, SegmentsSorted
  <2>. QED BY <2>2, <2>3, <2>4
<1>. QED BY <1>1, Invariance, PTL DEF Spec, RetentionTakesOldest

-----------------------------------------------------------------------------
(* The sizes, the index files and the bound on the directory               *)

Loaded == {segments[i].base : i \in DOMAIN segments} \cap DOMAIN logs

\* physical_size_ counts the files whose segments are in the list, and the one
\* just removed until its segment is.
TotalRight ==
  physicalSize = SumFunctionOnSet(FileSize, Loaded)
                 + (IF pc = "unlink" THEN segments[1].size ELSE 0)

SegmentsIndexed ==
  /\ \A i \in DOMAIN segments : segments[i].base \in indexes
  /\ pc = "log" => NewBase \in indexes

\* The orphan of a rollover that did not end waits beside a last file that is
\* full, so that nothing is appended before it is taken.
OrphansSound ==
  ~ doomed =>
    \A b \in indexes \ DOMAIN logs :
      IF DOMAIN logs = {} THEN b = 0
      ELSE \/ \A c \in DOMAIN logs : b < c
           \/ \E c \in DOMAIN logs : /\ \A d \in DOMAIN logs : d <= c
                                   /\ b = EndOf(c) /\ logs[c].bytes > MaxSegmentSize

\* A file is full when it gets the record that overflows it.
FilesBounded ==
  \A b \in DOMAIN logs : logs[b].bytes <= MaxSegmentSize + LargestRecord

\* The files but the last are within the limit, or a rollover has put an empty file
\* after the one that made them pass it.
Older(b) == SumFunctionOnSet(FileSize, DOMAIN logs \ {b})

IsLast(b) == b \in DOMAIN logs /\ \A c \in DOMAIN logs : c <= b

AllBut(a, b) == SumFunctionOnSet(FileSize, (DOMAIN logs \ {b}) \ {a})

IsBefore(a, b) == a \in DOMAIN logs \ {b} /\ \A c \in DOMAIN logs \ {b} : c <= a

OlderBounded ==
  MaxPartitionSize # 0 =>
    \A b \in DOMAIN logs : IsLast(b) =>
      \/ Older(b) <= MaxPartitionSize
      \/ /\ logs[b].bytes = 0
         /\ \E a \in DOMAIN logs : IsBefore(a, b) /\ AllBut(a, b) <= MaxPartitionSize
         /\ pc \in {"idle", "append", "index", "log"} => Leftover(b)

\* What is appended to is not full.
RoomSound ==
  pending # <<>> /\ pc \notin {"index", "log"} =>
    Active.size <= MaxSegmentSize
RollsOver ==
  pc \in {"index", "log"} /\ segments # <<>> => Active.size > MaxSegmentSize

DiskInv ==
  /\ IndInv /\ IsFiniteSet(DOMAIN logs)
  /\ TotalRight /\ SegmentsIndexed /\ OrphansSound
  /\ FilesBounded /\ OlderBounded /\ RoomSound /\ RollsOver

-----------------------------------------------------------------------------
(* Sizes                                                                   *)

LEMMA Sizes ==
  ASSUME TypeOK
  PROVE  /\ DOMAIN FileSize = DOMAIN logs
         /\ \A b \in DOMAIN logs : FileSize[b] = logs[b].bytes /\ FileSize[b] \in Nat
<1>1. \A b \in DOMAIN logs : logs[b].bytes \in Nat
  BY FileTypes
<1>. QED BY <1>1 DEF FileSize

\* The bytes of some of the files, and those of fewer.
LEMMA PartBytes ==
  ASSUME TypeOK, IsFiniteSet(DOMAIN logs), NEW S \in SUBSET DOMAIN logs
  PROVE  /\ IsFiniteSet(S)
         /\ SumFunctionOnSet(FileSize, S) \in Nat
         /\ \A T \in SUBSET S : SumFunctionOnSet(FileSize, T) \in Nat
         /\ \A T \in SUBSET S :
              SumFunctionOnSet(FileSize, T) <= SumFunctionOnSet(FileSize, S)
<1>1. IsFiniteSet(S) /\ \A x \in S : FileSize[x] \in Nat
  BY Sizes, FS_Subset
<1>2. \A T \in SUBSET S :
        SumFunctionOnSet(FileSize, T) \in 0 .. SumFunctionOnSet(FileSize, S)
  BY <1>1, SumFewer
<1>3. SumFunctionOnSet(FileSize, S) \in Int
  BY <1>1, SumInt
<1>4. S \in SUBSET S
  OBVIOUS
<1>. QED BY <1>1, <1>2, <1>3, <1>4

LEMMA DiskBytesSum ==
  ASSUME TypeOK
  PROVE  DiskBytes = SumFunctionOnSet(FileSize, DOMAIN logs)
BY Sizes DEF DiskBytes, SumFunction

\* No record is larger than the largest payload with its header.
LEMMA RecordBound ==
  /\ LargestRecord \in Nat
  /\ \A p \in Payload : HeaderSize + PayloadSize[p] <= LargestRecord
<1>. DEFINE sizes == {PayloadSize[p] : p \in Payload}
<1>1. \A p \in Payload : PayloadSize[p] \in Nat
  BY PayloadSizes
<1>2. PICK p \in Payload : \A q \in Payload : PayloadSize[q] <= PayloadSize[p]
  BY <1>1, PayloadFinite, GreatestValue
<1>3. \A x \in sizes : x \in Nat
  BY <1>1
<1>4. \E x \in sizes : \A y \in sizes : x >= y
  <2>1. PayloadSize[p] \in sizes
    OBVIOUS
  <2>2. ASSUME NEW y \in sizes PROVE PayloadSize[p] >= y
    BY <1>1, <1>2
  <2>. QED BY <2>1, <2>2
<1>5. Max(sizes) \in sizes /\ \A y \in sizes : Max(sizes) >= y
  BY <1>4 DEF Max
<1>6. ASSUME NEW q \in Payload PROVE PayloadSize[q] \in sizes
  OBVIOUS
<1>7. LargestRecord = HeaderSize + Max(sizes)
  BY DEF LargestRecord
<1>8. HeaderSize \in Nat
  BY HeaderSizeNat
<1>. HIDE DEF sizes
<1>9. \A q \in Payload : PayloadSize[q] <= Max(sizes)
  BY <1>1, <1>3, <1>5, <1>6
<1>. QED BY <1>1, <1>3, <1>5, <1>7, <1>8, <1>9

\* Where nothing of a refused rollover is left, the segments' files are the files.
LEMMA AllLoaded ==
  ASSUME IndInv, pc \in {"clean", "unlink", "append"}
  PROVE  Loaded = DOMAIN logs
BY DEF IndInv, SegmentsCover, Leftover, Loaded

\* What a refused rollover left counts for nothing.
LEMMA LoadedBytes ==
  ASSUME IndInv, IsFiniteSet(DOMAIN logs),
         pc \in {"index", "log", "clean", "unlink", "append", "idle"}
  PROVE  /\ SumFunctionOnSet(FileSize, Loaded) = SumFunctionOnSet(FileSize, DOMAIN logs)
         /\ SumFunctionOnSet(FileSize, Loaded) \in Nat
<1>1. TypeOK /\ Loaded \subseteq DOMAIN logs
  BY DEF IndInv, Loaded
<1>2. SumFunctionOnSet(FileSize, Loaded) \in Nat
  BY <1>1, PartBytes
<1>3. CASE Loaded # DOMAIN logs
  <2>1. PICK b \in DOMAIN logs : b \notin Loaded
    BY <1>1, <1>3
  <2>2. \A c \in DOMAIN logs : c \in Loaded \/ Leftover(c)
    BY DEF IndInv, SegmentsCover, Loaded
  <2>3. Leftover(b) /\ \A c \in DOMAIN logs : c \in Loaded \/ c = b
    BY <2>1, <2>2 DEF Leftover
  <2>4. DOMAIN logs \ {b} = Loaded
    BY <1>1, <2>1, <2>3
  <2>5. FileSize[b] = 0 /\ \A c \in DOMAIN logs : FileSize[c] \in Int
    BY <1>1, <2>3, Sizes DEF Leftover, IndInv, FilesSound
  <2>6. SumFunctionOnSet(FileSize, DOMAIN logs)
          = FileSize[b] + SumFunctionOnSet(FileSize, DOMAIN logs \ {b})
    BY <2>5, SumRemove
  <2>. QED BY <1>2, <2>4, <2>5, <2>6
<1>. QED BY <1>2, <1>3

LEMMA ListDomain ==
  ASSUME TypeOK PROVE DOMAIN segments = 1 .. Len(segments) /\ Len(segments) \in Nat
<1>1. segments \in Seq(SegmentObject)
  BY DEF TypeOK
<1>. QED BY <1>1

LEMMA LastSegment ==
  ASSUME TypeOK, segments # <<>>
  PROVE  /\ Len(segments) \in Nat \ {0} /\ Len(segments) \in DOMAIN segments
         /\ Active = segments[Len(segments)]
         /\ DOMAIN segments = 1 .. Len(segments)
<1>1. segments \in Seq(SegmentObject)
  BY DEF TypeOK
<1>. QED BY <1>1 DEF Active, Last

LEMMA DiskInit == Init => DiskInv
<1>. SUFFICES ASSUME Init PROVE DiskInv
  OBVIOUS
<1>1. IndInv
  BY InitEstablishes
<1>2. /\ DOMAIN logs = {} /\ indexes = {} /\ segments = <<>> /\ physicalSize = 0
      /\ pc = "down" /\ pending = <<>>
  BY DEF Init
<1>3. Loaded = {} /\ IsFiniteSet(DOMAIN logs)
  BY <1>2, FS_EmptySet DEF Loaded
<1>4. TotalRight
  BY <1>2, <1>3, SumEmpty DEF TotalRight
<1>5. SegmentsIndexed /\ OrphansSound /\ FilesBounded /\ OlderBounded
  BY <1>2 DEF SegmentsIndexed, OrphansSound, FilesBounded, OlderBounded
<1>6. RoomSound /\ RollsOver
  BY <1>2 DEF RoomSound, RollsOver
<1>. QED BY <1>1, <1>3, <1>4, <1>5, <1>6 DEF DiskInv

-----------------------------------------------------------------------------
(* Steps that leave the log files and the list of segments alone           *)

LEMMA QuietSizes ==
  ASSUME DiskInv, UNCHANGED <<logs, segments, physicalSize>>,
         pc # "unlink", pc' # "unlink"
  PROVE  /\ IsFiniteSet(DOMAIN logs)' /\ TotalRight' /\ FilesBounded'
         /\ \A b \in DOMAIN logs : IsLast(b)' = IsLast(b) /\ Older(b)' = Older(b)
         /\ \A b \in DOMAIN logs : EndOf(b)' = EndOf(b)
         /\ NewBase' = NewBase /\ Active' = Active
<1>1. FileSize' = FileSize /\ Loaded' = Loaded
  BY DEF FileSize, Loaded
<1>2. TotalRight'
  BY <1>1 DEF DiskInv, TotalRight
<1>3. IsFiniteSet(DOMAIN logs)' /\ FilesBounded'
  BY DEF DiskInv, FilesBounded, LargestRecord
<1>4. \A b \in DOMAIN logs : IsLast(b)' = IsLast(b) /\ Older(b)' = Older(b)
  BY <1>1 DEF IsLast, Older
<1>5. \A b \in DOMAIN logs : EndOf(b)' = EndOf(b)
  BY DEF EndOf
<1>6. NewBase' = NewBase /\ Active' = Active
  BY DEF NewBase, Active
<1>. QED BY <1>2, <1>3, <1>4, <1>5, <1>6

LEMMA QuietOlder ==
  ASSUME DiskInv, UNCHANGED <<logs, segments, physicalSize>>,
         pc # "unlink", pc' # "unlink",
         \/ pc' \notin {"idle", "append", "index", "log"}
         \/ /\ pc \in {"idle", "append", "index", "log"}
            /\ IsFull /\ pc # "append" => pc' \in {"idle", "index", "log"}
  PROVE  OlderBounded'
<1>1. \A b \in DOMAIN logs : IsLast(b)' = IsLast(b) /\ Older(b)' = Older(b)
  BY QuietSizes
<1>2. FileSize' = FileSize
  BY DEF FileSize
<1>3. \A a, b \in DOMAIN logs : IsBefore(a, b)' = IsBefore(a, b) /\ AllBut(a, b)' = AllBut(a, b)
  BY <1>2 DEF IsBefore, AllBut
<1>4. NewBase' = NewBase /\ IsFull' = IsFull
  BY DEF NewBase, IsFull, Active
<1>5. ASSUME NEW b, Leftover(b), pc' \in {"idle", "append", "index", "log"}
      PROVE  Leftover(b)'
  BY <1>4, <1>5 DEF Leftover
<1>. QED BY <1>1, <1>3, <1>5 DEF DiskInv, OlderBounded

LEMMA DiskOpen == DiskInv /\ (Open \/ Tick) => DiskInv'
<1>. SUFFICES ASSUME DiskInv, Open \/ Tick PROVE DiskInv'
  OBVIOUS
<1>1. /\ UNCHANGED <<logs, indexes, doomed, segments, physicalSize, pending>>
      /\ \/ pc = "down" /\ pc' = "load"
         \/ pc' = pc
      /\ pc # "unlink" /\ pc' # "unlink"
  BY DEF Open, Tick, disk, memory
<1>2. IndInv'
  BY OpenPreserves, TickPreserves DEF DiskInv
<1>3. /\ IsFiniteSet(DOMAIN logs)' /\ TotalRight' /\ FilesBounded'
      /\ \A b \in DOMAIN logs : EndOf(b)' = EndOf(b)
      /\ NewBase' = NewBase /\ Active' = Active
  BY <1>1, QuietSizes
<1>4. OlderBounded'
  BY <1>1, QuietOlder
<1>5. SegmentsIndexed'
  BY <1>1, <1>3 DEF DiskInv, SegmentsIndexed
<1>6. OrphansSound'
  BY <1>1, <1>3 DEF DiskInv, OrphansSound
<1>7. pc = "down" => pending = <<>>
  BY DEF DiskInv, IndInv, ControlSound
<1>8. RoomSound' /\ RollsOver'
  BY <1>1, <1>3, <1>7 DEF DiskInv, RoomSound, RollsOver
<1>. QED BY <1>2, <1>3, <1>4, <1>5, <1>6, <1>8 DEF DiskInv

LEMMA DiskLoadDone == DiskInv /\ LoadDone => DiskInv'
<1>. SUFFICES ASSUME DiskInv, LoadDone PROVE DiskInv'
  OBVIOUS
<1>1. /\ UNCHANGED <<logs, indexes, doomed, segments, physicalSize, pending>>
      /\ pc = "load" /\ pc' = IF segments = <<>> THEN "index" ELSE "clean"
      /\ pc # "unlink" /\ pc' # "unlink" /\ NotLoaded = {}
  BY DEF LoadDone, disk
<1>2. IndInv'
  BY LoadDonePreserves DEF DiskInv
<1>3. /\ IsFiniteSet(DOMAIN logs)' /\ TotalRight' /\ FilesBounded'
      /\ \A b \in DOMAIN logs : EndOf(b)' = EndOf(b)
      /\ NewBase' = NewBase /\ Active' = Active
  BY <1>1, QuietSizes
<1>4. OlderBounded'
  <2>1. CASE segments = <<>>
    <3>1. DOMAIN segments = {}
      BY <2>1
    <3>2. DOMAIN logs = {}
      BY <1>1, <3>1 DEF NotLoaded
    <3>. QED BY <1>1, <3>2 DEF OlderBounded
  <2>2. CASE segments # <<>>
    BY <1>1, <2>2, QuietOlder
  <2>. QED BY <2>1, <2>2
<1>5. SegmentsIndexed'
  BY <1>1, <1>3 DEF DiskInv, SegmentsIndexed
<1>6. OrphansSound'
  BY <1>1, <1>3 DEF DiskInv, OrphansSound
<1>7. pending = <<>>
  BY <1>1 DEF DiskInv, IndInv, ControlSound
<1>8. RoomSound' /\ RollsOver'
  BY <1>1, <1>3, <1>7 DEF RoomSound, RollsOver
<1>. QED BY <1>2, <1>3, <1>4, <1>5, <1>6, <1>8 DEF DiskInv

\* The index file of a new segment is an orphan beside a full last file until
\* its log file is made.
LEMMA DiskMakeIndex == DiskInv /\ MakeIndex => DiskInv'
<1>. SUFFICES ASSUME DiskInv, MakeIndex PROVE DiskInv'
  OBVIOUS
<1>1. /\ UNCHANGED <<logs, doomed, segments, physicalSize, pending>>
      /\ indexes' = indexes \cup {NewBase}
      /\ pc = "index" /\ pc' = "log"
  BY DEF MakeIndex
<1>2. IndInv' /\ IndInv
  BY MakeIndexPreserves DEF DiskInv
<1>3. /\ IsFiniteSet(DOMAIN logs)' /\ TotalRight' /\ FilesBounded'
      /\ \A b \in DOMAIN logs : EndOf(b)' = EndOf(b)
      /\ NewBase' = NewBase /\ Active' = Active
  BY <1>1, QuietSizes
<1>4. OlderBounded'
  BY <1>1, QuietOlder
<1>5. SegmentsIndexed'
  BY <1>1, <1>3 DEF DiskInv, SegmentsIndexed
<1>6. OrphansSound'
  <2>. SUFFICES ASSUME ~ doomed, NEW b \in (indexes \cup {NewBase}) \ DOMAIN logs
                PROVE IF DOMAIN logs = {} THEN b = 0
                      ELSE \/ \A c \in DOMAIN logs : b < c
                           \/ \E c \in DOMAIN logs :
                                /\ \A d \in DOMAIN logs : d <= c
                                /\ b = EndOf(c) /\ logs[c].bytes > MaxSegmentSize
    BY <1>1, <1>3 DEF OrphansSound
  <2>1. CASE b # NewBase
    BY <2>1 DEF DiskInv, OrphansSound
  <2>2. CASE b = NewBase
    <3>1. CASE segments = <<>>
      BY <1>1, <1>2, <2>2, <3>1, NewBaseFacts DEF NewBase
    <3>2. CASE segments # <<>>
      <4>1. /\ Active.base \in DOMAIN logs
            /\ NewBase = EndOf(Active.base)
            /\ \A c \in DOMAIN logs : c <= Active.base
        BY <1>1, <1>2, <2>2, <3>2, NewBaseFacts
      <4>2. Active.size > MaxSegmentSize
        BY <1>1, <3>2 DEF DiskInv, RollsOver
      <4>3. Active.size = logs[Active.base].bytes
        BY <1>1, <1>2, <3>2, LastSegment DEF IndInv, SegmentsMatch
      <4>. QED BY <2>2, <4>1, <4>2, <4>3
    <3>. QED BY <3>1, <3>2
  <2>. QED BY <2>1, <2>2
<1>8. RoomSound' /\ RollsOver'
  BY <1>1, <1>3 DEF DiskInv, RoomSound, RollsOver
<1>. QED BY <1>2, <1>3, <1>4, <1>5, <1>6, <1>8 DEF DiskInv

LEMMA DiskWrite == ASSUME NEW p \in Payload PROVE DiskInv /\ Write(p) => DiskInv'
<1>. SUFFICES ASSUME DiskInv, Write(p) PROVE DiskInv'
  OBVIOUS
<1>1. /\ UNCHANGED <<logs, indexes, doomed, segments, physicalSize>>
      /\ pc = "idle" /\ pc' = IF IsFull THEN "index" ELSE "append"
  BY DEF Write, disk
<1>2. IndInv /\ IndInv'
  BY WritePreserves DEF DiskInv
<1>3. /\ IsFiniteSet(DOMAIN logs)' /\ TotalRight' /\ FilesBounded'
      /\ \A b \in DOMAIN logs : EndOf(b)' = EndOf(b)
      /\ NewBase' = NewBase /\ Active' = Active
  BY <1>1, QuietSizes
<1>4. OlderBounded'
  BY <1>1, QuietOlder
<1>5. SegmentsIndexed'
  BY <1>1, <1>3 DEF DiskInv, SegmentsIndexed
<1>6. OrphansSound'
  BY <1>1, <1>3 DEF DiskInv, OrphansSound
<1>7. Active.size \in Nat
  <2>1. segments # <<>>
    BY <1>1, <1>2 DEF IndInv, ControlSound
  <2>. QED BY <1>2, <2>1, LastSegment, SegmentTypes DEF IndInv
<1>8. RoomSound' /\ RollsOver'
  BY <1>1, <1>3, <1>7, LimitsNat DEF RoomSound, RollsOver, IsFull
<1>. QED BY <1>2, <1>3, <1>4, <1>5, <1>6, <1>8 DEF DiskInv

\* The pass ends when no segment is left to take: the list has one segment, or
\* its total is within the limit.
LEMMA DiskCleanDone == DiskInv /\ CleanDone => DiskInv'
<1>. SUFFICES ASSUME DiskInv, CleanDone PROVE DiskInv'
  OBVIOUS
<1>1. /\ UNCHANGED <<logs, indexes, doomed, segments, physicalSize, pending>>
      /\ pc = "clean" /\ pc' \in {"idle", "append"}
      /\ \A i \in DOMAIN segments : ~ Victim(i)
  BY DEF CleanDone, disk
<1>2. IndInv /\ IndInv' /\ TypeOK
  BY CleanDonePreserves DEF DiskInv, IndInv
<1>3. /\ IsFiniteSet(DOMAIN logs)' /\ TotalRight' /\ FilesBounded'
      /\ \A b \in DOMAIN logs : EndOf(b)' = EndOf(b)
      /\ NewBase' = NewBase /\ Active' = Active
      /\ \A b \in DOMAIN logs : IsLast(b)' = IsLast(b) /\ Older(b)' = Older(b)
  BY <1>1, QuietSizes
<1>4. OlderBounded'
  <2>. SUFFICES ASSUME MaxPartitionSize # 0, NEW b \in DOMAIN logs
                PROVE  Older(b) <= MaxPartitionSize
    BY <1>1, <1>3 DEF OlderBounded
  <2>1. Loaded = DOMAIN logs
    BY <1>1, <1>2, AllLoaded
  <2>2. segments # <<>>
    BY <1>1, <1>2 DEF IndInv, ControlSound
  <2>3. /\ Len(segments) \in Nat \ {0} /\ DOMAIN segments = 1 .. Len(segments)
    BY <1>2, <2>2, LastSegment
  <2>4. CASE Len(segments) = 1
    <3>1. DOMAIN logs \subseteq {segments[1].base}
      BY <2>1, <2>3, <2>4 DEF Loaded
    <3>2. DOMAIN logs \ {b} = {}
      BY <3>1
    <3>. QED BY <3>2, SumEmpty, LimitsNat DEF Older
  <2>5. CASE Len(segments) # 1
    <3>1. ~ PartitionTooLarge
      BY <1>1, <2>3, <2>5 DEF Victim
    <3>2. physicalSize = SumFunctionOnSet(FileSize, DOMAIN logs)
      <4>1. SumFunctionOnSet(FileSize, DOMAIN logs) \in Nat
        BY <1>2, PartBytes DEF DiskInv
      <4>. QED BY <1>1, <2>1, <4>1 DEF DiskInv, TotalRight
    <3>3. /\ SumFunctionOnSet(FileSize, DOMAIN logs) \in Nat
          /\ SumFunctionOnSet(FileSize, DOMAIN logs \ {b}) \in Nat
          /\ SumFunctionOnSet(FileSize, DOMAIN logs \ {b})
                <= SumFunctionOnSet(FileSize, DOMAIN logs)
      BY <1>2, PartBytes DEF DiskInv
    <3>. QED BY <3>1, <3>2, <3>3, LimitsNat DEF PartitionTooLarge, Older
  <2>. QED BY <2>4, <2>5
<1>5. SegmentsIndexed'
  BY <1>1, <1>3 DEF DiskInv, SegmentsIndexed
<1>6. OrphansSound'
  BY <1>1, <1>3 DEF DiskInv, OrphansSound
<1>8. RoomSound' /\ RollsOver'
  BY <1>1, <1>3 DEF DiskInv, RoomSound, RollsOver
<1>. QED BY <1>2, <1>3, <1>4, <1>5, <1>6, <1>8 DEF DiskInv

LEMMA DiskRemoveIndex == DiskInv /\ (RemoveIndex \/ RemoveDone) => DiskInv'
<1>. SUFFICES ASSUME DiskInv, RemoveIndex \/ RemoveDone PROVE DiskInv'
  OBVIOUS
<1>1. /\ UNCHANGED <<logs, segments, physicalSize, pending>>
      /\ pc = "removing" /\ pc' \in {"removing", "down"}
      /\ indexes' \subseteq indexes
      /\ doomed' \/ indexes' = {}
  BY DEF RemoveIndex, RemoveDone, memory, DiskInv, IndInv, ControlSound
<1>2. IndInv /\ IndInv'
  BY RemoveIndexPreserves, RemoveDonePreserves DEF DiskInv
<1>3. /\ IsFiniteSet(DOMAIN logs)' /\ TotalRight' /\ FilesBounded'
      /\ NewBase' = NewBase /\ Active' = Active
  BY <1>1, QuietSizes
<1>4. OlderBounded'
  BY <1>1, QuietOlder
<1>5. segments = <<>>
  BY <1>1, <1>2 DEF IndInv, ControlSound
<1>6. SegmentsIndexed' /\ OrphansSound'
  BY <1>1, <1>5 DEF SegmentsIndexed, OrphansSound
<1>7. pending = <<>>
  BY <1>1, <1>2 DEF IndInv, ControlSound
<1>8. RoomSound' /\ RollsOver'
  BY <1>1, <1>5, <1>7 DEF RoomSound, RollsOver
<1>. QED BY <1>2, <1>3, <1>4, <1>6, <1>8 DEF DiskInv

\* The object gone, its list and its total are empty.
LEMMA DiskNoObject == DiskInv /\ (Close \/ Crash \/ DeletePartition) => DiskInv'
<1>. SUFFICES ASSUME DiskInv, Close \/ Crash \/ DeletePartition PROVE DiskInv'
  OBVIOUS
<1>1. /\ UNCHANGED <<logs, indexes>> /\ pc' \in {"down", "removing"}
      /\ segments' = <<>> /\ physicalSize' = 0 /\ pending' = <<>>
      /\ doomed' \in {TRUE, doomed}
      /\ pc' = "removing" => pc = "idle"
  BY DEF Close, Crash, DeletePartition, LoseMemory, disk
<1>2. IndInv'
  BY ClosePreserves, DeletePreserves DEF DiskInv
<1>3. FileSize' = FileSize /\ Loaded' = {}
  BY <1>1 DEF FileSize, Loaded
<1>4. TotalRight'
  BY <1>1, <1>3, SumEmpty DEF TotalRight
<1>5. IsFiniteSet(DOMAIN logs)' /\ FilesBounded'
  BY <1>1 DEF DiskInv, FilesBounded, LargestRecord
<1>6. \A b \in DOMAIN logs : /\ IsLast(b)' = IsLast(b) /\ Older(b)' = Older(b)
                             /\ EndOf(b)' = EndOf(b)
  BY <1>1, <1>3 DEF IsLast, Older, EndOf
<1>11. \A a, b \in DOMAIN logs : IsBefore(a, b)' = IsBefore(a, b) /\ AllBut(a, b)' = AllBut(a, b)
  BY <1>1, <1>3 DEF IsBefore, AllBut
<1>7. OlderBounded'
  BY <1>1, <1>6, <1>11 DEF DiskInv, OlderBounded
<1>8. SegmentsIndexed' /\ RoomSound' /\ RollsOver'
  BY <1>1 DEF SegmentsIndexed, RoomSound, RollsOver
<1>9. ~ doomed' => ~ doomed
  BY <1>1, Zenon
<1>10. OrphansSound'
  <2>. SUFFICES ASSUME ~ doomed' PROVE OrphansSound'
    BY DEF OrphansSound
  <2>1. OrphansSound /\ ~ doomed
    BY <1>9 DEF DiskInv
  <2>. QED BY <1>1, <1>6, <2>1 DEF OrphansSound
<1>. QED BY <1>2, <1>4, <1>5, <1>7, <1>8, <1>10 DEF DiskInv

-----------------------------------------------------------------------------
(* Loading and making a segment                                            *)

LEMMA DiskLoadSegment == DiskInv /\ LoadSegment => DiskInv'
<1>. SUFFICES ASSUME DiskInv, LoadSegment PROVE DiskInv'
  OBVIOUS
<1>1. PICK b \in NotLoaded : /\ segments' = Append(segments, OpenedSegment(b))
                             /\ physicalSize' = physicalSize + logs[b].bytes
                             /\ indexes' = indexes \cup {b}
  BY DEF LoadSegment
<1>2. /\ pc = "load" /\ pc' = "load"
      /\ UNCHANGED <<logs, doomed, pending>>
  BY DEF LoadSegment
<1>3. IndInv /\ IndInv' /\ TypeOK /\ pending = <<>>
  BY <1>2, LoadSegmentPreserves DEF DiskInv, IndInv, ControlSound
<1>. PICK n : n = Len(segments)
  OBVIOUS
<1>4. /\ n \in Nat /\ DOMAIN segments = 1 .. n /\ DOMAIN segments' = 1 .. n + 1
      /\ \A i \in 1 .. n : segments'[i] = segments[i]
      /\ segments'[n + 1].base = b
  BY <1>1, <1>3 DEF TypeOK, OpenedSegment
<1>5. b \in DOMAIN logs /\ b \notin Loaded
  BY DEF NotLoaded, Loaded
<1>6. Loaded' = Loaded \cup {b}
  <2>1. \A i \in 1 .. n : i \in 1 .. n + 1
    BY <1>4
  <2>2. n + 1 \in 1 .. n + 1 /\ \A i \in 1 .. n + 1 : i # n + 1 => i \in 1 .. n
    BY <1>4
  <2>3. {segments'[i].base : i \in 1 .. n + 1} = {segments[i].base : i \in 1 .. n} \cup {b}
    BY <1>4, <2>1, <2>2
  <2>. QED BY <1>2, <1>4, <1>5, <2>3 DEF Loaded
<1>7. FileSize' = FileSize
  BY <1>2 DEF FileSize
<1>8. TotalRight'
  <2>1. Loaded \subseteq DOMAIN logs /\ IsFiniteSet(Loaded)
    BY FS_Subset DEF Loaded, DiskInv
  <2>2. /\ \A x \in Loaded : FileSize[x] \in Int
        /\ \A x \in Loaded : FileSize[x] = FileSize[x]
        /\ FileSize[b] = logs[b].bytes /\ FileSize[b] \in Int
    BY <1>3, <1>5, <2>1, Sizes
  <2>3. SumFunctionOnSet(FileSize, Loaded \cup {b})
          = SumFunctionOnSet(FileSize, Loaded) + FileSize[b]
    <3>. PICK T : T = Loaded \cup {b}
      OBVIOUS
    <3>1. IsFiniteSet(T) /\ b \in T /\ T \ {b} = Loaded
      BY <1>5, <2>1, FS_AddElement
    <3>2. SumFunctionOnSet(FileSize, T) = SumFunctionOnSet(FileSize, T \ {b}) + FileSize[b]
      BY <2>2, <3>1, SumAdd
    <3>. QED BY <3>1, <3>2
  <2>4. SumFunctionOnSet(FileSize, Loaded) \in Int
    BY <2>1, <2>2, SumInt
  <2>5. physicalSize = SumFunctionOnSet(FileSize, Loaded)
    BY <1>2, <2>4 DEF DiskInv, TotalRight
  <2>6. physicalSize' = SumFunctionOnSet(FileSize, Loaded \cup {b})
    BY <1>1, <2>2, <2>3, <2>4, <2>5
  <2>7. SumFunctionOnSet(FileSize, Loaded \cup {b}) \in Int
    BY <2>2, <2>3, <2>4
  <2>. QED BY <1>2, <1>6, <1>7, <2>6, <2>7 DEF TotalRight
<1>9. IsFiniteSet(DOMAIN logs)' /\ FilesBounded'
  BY <1>2 DEF DiskInv, FilesBounded, LargestRecord
<1>10. \A c \in DOMAIN logs : /\ IsLast(c)' = IsLast(c) /\ Older(c)' = Older(c)
                              /\ EndOf(c)' = EndOf(c)
  BY <1>2, <1>7 DEF IsLast, Older, EndOf
<1>15. \A a, c \in DOMAIN logs : IsBefore(a, c)' = IsBefore(a, c) /\ AllBut(a, c)' = AllBut(a, c)
  BY <1>2, <1>7 DEF IsBefore, AllBut
<1>11. OlderBounded'
  BY <1>2, <1>10, <1>15 DEF DiskInv, OlderBounded
<1>12. SegmentsIndexed'
  <2>1. ASSUME NEW i \in 1 .. n + 1 PROVE segments'[i].base \in indexes'
    <3>1. CASE i = n + 1
      BY <1>1, <1>4, <3>1
    <3>2. CASE i # n + 1
      BY <1>1, <1>4, <3>2 DEF DiskInv, SegmentsIndexed
    <3>. QED BY <3>1, <3>2
  <2>. QED BY <1>2, <1>4, <2>1 DEF SegmentsIndexed
<1>13. OrphansSound'
  BY <1>1, <1>2, <1>5, <1>10 DEF DiskInv, OrphansSound
<1>14. RoomSound' /\ RollsOver'
  BY <1>2, <1>3 DEF RoomSound, RollsOver
<1>. QED BY <1>3, <1>8, <1>9, <1>11, <1>12, <1>13, <1>14 DEF DiskInv

\* The .log file of a rollover, new or left by one that was refused: the file that was
\* last is now an older one, and what is full in it passes the limit by one segment and
\* one record.
LEMMA NewFileSizes ==
  ASSUME DiskInv, pc = "log", logs' = WithLog(NewBase, NewFile),
         UNCHANGED <<indexes, clock, doomed>>, NEW nb, nb = NewBase
  PROVE  /\ nb \in Nat /\ IsFiniteSet(DOMAIN logs')
         /\ DOMAIN logs' = DOMAIN logs \cup {nb} /\ logs'[nb].bytes = 0
         /\ \A c \in DOMAIN logs : c \in Nat /\ c <= nb /\ logs'[c] = logs[c]
         /\ SumFunctionOnSet(FileSize', DOMAIN logs') = SumFunctionOnSet(FileSize, DOMAIN logs)
         /\ \A S \in SUBSET (DOMAIN logs \ {nb}) :
              SumFunctionOnSet(FileSize', S) = SumFunctionOnSet(FileSize, S)
         /\ FilesBounded' /\ OrphansSound'
         /\ MaxPartitionSize # 0 =>
              \/ Older(nb)' <= MaxPartitionSize
              \/ \E a \in DOMAIN logs' : IsBefore(a, nb)' /\ AllBut(a, nb)' <= MaxPartitionSize
<1>1. IndInv /\ TypeOK
  BY DEF DiskInv, IndInv
<1>. PICK f : f = NewFile
  OBVIOUS
<1>2. /\ f.bytes = 0
      /\ DOMAIN logs' = DOMAIN logs \cup {nb} /\ logs'[nb] = f
      /\ \A c \in DOMAIN logs : c \in Nat /\ c <= nb /\ logs'[c] = logs[c]
  BY <1>1, NewFileFacts
<1>3. /\ nb \in Nat
      /\ segments = <<>> => DOMAIN logs = {}
      /\ segments # <<>> =>
              /\ Active.base \in DOMAIN logs
              /\ nb = EndOf(Active.base)
              /\ \A c \in DOMAIN logs : c <= Active.base \/ c = nb
              /\ Active.base # nb
  <2>1. /\ nb \in Nat
        /\ segments = <<>> => DOMAIN logs = {}
        /\ segments # <<>> =>
                /\ Active.base \in DOMAIN logs
                /\ nb = EndOf(Active.base)
                /\ logs[Active.base].msgs # <<>>
                /\ \A c \in DOMAIN logs : c <= Active.base \/ c = nb
        /\ \A c \in DOMAIN logs : c = nb => logs[c].msgs = <<>>
    BY <1>1, NewBaseFacts
  <2>. QED BY <2>1
<1>4. nb \in DOMAIN logs => logs[nb].bytes = 0
  BY <1>2
<1>5. /\ IsFiniteSet(DOMAIN logs) /\ IsFiniteSet(DOMAIN logs')
      /\ \A c \in DOMAIN logs : FileSize[c] = logs[c].bytes /\ FileSize[c] \in Nat
      /\ \A c \in DOMAIN logs : FileSize'[c] = FileSize[c]
      /\ FileSize'[nb] = 0
  <2>1. IsFiniteSet(DOMAIN logs) /\ IsFiniteSet(DOMAIN logs')
    BY <1>2, FS_AddElement DEF DiskInv
  <2>2. \A c \in DOMAIN logs : FileSize[c] = logs[c].bytes /\ FileSize[c] \in Nat
    BY <1>1, Sizes
  <2>3. \A c \in DOMAIN logs' : FileSize'[c] = logs'[c].bytes
    BY DEF FileSize
  <2>. QED BY <1>2, <2>1, <2>2, <2>3
<1>. PICK h : h = FileSize'
  OBVIOUS
<1>6. ASSUME NEW S \in SUBSET (DOMAIN logs \ {nb})
      PROVE  SumFunctionOnSet(h, S) = SumFunctionOnSet(FileSize, S)
  <2>1. IsFiniteSet(S) /\ \A c \in S : h[c] = FileSize[c]
    BY <1>5, FS_Subset
  <2>. QED BY <2>1, SumAgree
<1>7. SumFunctionOnSet(h, DOMAIN logs') = SumFunctionOnSet(FileSize, DOMAIN logs)
  <2>. PICK T : T = DOMAIN logs'
    OBVIOUS
  <2>1. nb \in T /\ IsFiniteSet(T) /\ T \ {nb} \in SUBSET (DOMAIN logs \ {nb})
        /\ T \ {nb} = DOMAIN logs \ {nb} /\ h[nb] = 0 /\ \A c \in T : h[c] \in Int
    BY <1>2, <1>5
  <2>2. SumFunctionOnSet(h, T) = h[nb] + SumFunctionOnSet(h, T \ {nb})
    BY <2>1, SumRemove
  <2>3. SumFunctionOnSet(h, T \ {nb}) = SumFunctionOnSet(FileSize, DOMAIN logs \ {nb})
    BY <1>6, <2>1
  <2>4. /\ SumFunctionOnSet(FileSize, DOMAIN logs \ {nb}) \in Nat
        /\ SumFunctionOnSet(FileSize, DOMAIN logs) \in Nat
    BY <1>1, <1>5, PartBytes
  <2>5. SumFunctionOnSet(FileSize, DOMAIN logs) = SumFunctionOnSet(FileSize, DOMAIN logs \ {nb})
    <3>1. CASE nb \in DOMAIN logs
      <4>1. /\ FileSize[nb] = 0 /\ \A c \in DOMAIN logs : FileSize[c] \in Int
        BY <1>4, <1>5, <3>1
      <4>2. SumFunctionOnSet(FileSize, DOMAIN logs)
              = FileSize[nb] + SumFunctionOnSet(FileSize, DOMAIN logs \ {nb})
        BY <1>5, <3>1, <4>1, SumRemove
      <4>. QED BY <2>4, <4>1, <4>2
    <3>2. CASE nb \notin DOMAIN logs
      <4>1. DOMAIN logs \ {nb} = DOMAIN logs
        BY <3>2
      <4>. QED BY <4>1
    <3>. QED BY <3>1, <3>2
  <2>. QED BY <2>1, <2>2, <2>3, <2>4, <2>5
<1>8. FilesBounded'
  <2>1. ASSUME NEW c \in DOMAIN logs' PROVE logs'[c].bytes <= MaxSegmentSize + LargestRecord
    <3>1. CASE c = nb
      BY <1>2, <3>1, RecordBound, LimitsNat
    <3>2. CASE c # nb
      BY <1>2, <3>2 DEF DiskInv, FilesBounded
    <3>. QED BY <3>1, <3>2
  <2>. QED BY <2>1 DEF FilesBounded, LargestRecord
<1>9. OrphansSound'
  <2>. SUFFICES ASSUME ~ doomed, NEW b \in indexes, b \notin DOMAIN logs, b # nb
                PROVE  \A c \in DOMAIN logs' : b < c
    BY <1>2 DEF OrphansSound
  <2>1. segments # <<>> /\ DOMAIN logs # {}
    <3>1. CASE segments = <<>>
      <4>1. nb = 0 /\ DOMAIN logs = {}
        BY <1>3, <3>1 DEF NewBase
      <4>. QED BY <4>1 DEF DiskInv, OrphansSound
    <3>. QED BY <1>3, <3>1
  <2>2. CASE \A c \in DOMAIN logs : b < c
    <3>1. b < Active.base /\ Active.base <= nb /\ Active.base \in Nat /\ b \in Nat
      BY <1>1, <1>2, <1>3, <2>1, <2>2 DEF TypeOK
    <3>2. b < nb
      BY <1>3, <3>1
    <3>. QED BY <1>2, <2>2, <3>2
  <2>3. CASE \E c \in DOMAIN logs : (\A d \in DOMAIN logs : d <= c) /\ b = EndOf(c)
    <3>1. PICK c \in DOMAIN logs : (\A d \in DOMAIN logs : d <= c) /\ b = EndOf(c)
      BY <2>3
    <3>2. c = Active.base \/ c = nb
      <4>1. Active.base <= c /\ (c <= Active.base \/ c = nb) /\ Active.base \in Nat /\ c \in Nat
        BY <1>2, <1>3, <2>1, <3>1
      <4>. QED BY <4>1
    <3>3. EndOf(nb)' = nb /\ (nb \in DOMAIN logs => EndOf(nb)' = EndOf(nb))
      <4>1. \A d \in DOMAIN logs : EndOf(d)' = EndOf(d)
        BY <1>1, NewFileFacts
      <4>2. EndOf(nb)' = nb
        BY <1>1, NewFileFacts
      <4>. QED BY <4>1, <4>2
    <3>. QED BY <1>3, <2>1, <3>1, <3>2, <3>3
  <2>. QED BY <2>1, <2>2, <2>3 DEF DiskInv, OrphansSound
<1>10. ASSUME MaxPartitionSize # 0
       PROVE  \/ Older(nb)' <= MaxPartitionSize
              \/ \E a \in DOMAIN logs' : IsBefore(a, nb)' /\ AllBut(a, nb)' <= MaxPartitionSize
  <2>1. Older(nb)' = SumFunctionOnSet(FileSize, DOMAIN logs \ {nb})
    <3>1. DOMAIN logs' \ {nb} = DOMAIN logs \ {nb}
      BY <1>2
    <3>2. SumFunctionOnSet(h, DOMAIN logs \ {nb}) = SumFunctionOnSet(FileSize, DOMAIN logs \ {nb})
      BY <1>6
    <3>. QED BY <3>1, <3>2 DEF Older
  <2>2. ASSUME NEW a
        PROVE  AllBut(a, nb)' = SumFunctionOnSet(FileSize, (DOMAIN logs \ {nb}) \ {a})
    <3>1. (DOMAIN logs' \ {nb}) \ {a} = (DOMAIN logs \ {nb}) \ {a}
      BY <1>2
    <3>2. (DOMAIN logs \ {nb}) \ {a} \in SUBSET (DOMAIN logs \ {nb})
      OBVIOUS
    <3>3. SumFunctionOnSet(h, (DOMAIN logs \ {nb}) \ {a})
            = SumFunctionOnSet(FileSize, (DOMAIN logs \ {nb}) \ {a})
      BY <1>6, <3>2
    <3>. QED BY <3>1, <3>3 DEF AllBut
  <2>3. CASE segments = <<>>
    <3>1. DOMAIN logs \ {nb} = {}
      BY <1>3, <2>3
    <3>. QED BY <2>1, <3>1, SumEmpty, LimitsNat
  <2>4. CASE segments # <<>> /\ nb \notin DOMAIN logs
    <3>. PICK a : a = Active.base
      OBVIOUS
    <3>1. a \in DOMAIN logs /\ IsLast(a) /\ a # nb
      BY <1>3, <2>4 DEF IsLast
    <3>2. Older(a) <= MaxPartitionSize
      BY <1>10, <3>1 DEF DiskInv, OlderBounded, Leftover
    <3>3. (DOMAIN logs \ {nb}) \ {a} = DOMAIN logs \ {a}
      BY <2>4
    <3>4. IsBefore(a, nb)'
      BY <1>2, <1>3, <2>4, <3>1 DEF IsBefore
    <3>. QED BY <1>2, <2>2, <3>1, <3>2, <3>3, <3>4 DEF Older
  <2>5. CASE nb \in DOMAIN logs
    <3>1. IsLast(nb)
      BY <1>2, <2>5 DEF IsLast
    <3>2. \/ Older(nb) <= MaxPartitionSize
          \/ \E a \in DOMAIN logs : IsBefore(a, nb) /\ AllBut(a, nb) <= MaxPartitionSize
      BY <1>10, <2>5, <3>1 DEF DiskInv, OlderBounded
    <3>3. ASSUME NEW a \in DOMAIN logs, IsBefore(a, nb) PROVE IsBefore(a, nb)'
      BY <1>2, <3>3 DEF IsBefore
    <3>. QED BY <1>2, <2>1, <2>2, <3>2, <3>3 DEF Older, AllBut
  <2>. QED BY <2>3, <2>4, <2>5
<1>. QED BY <1>2, <1>3, <1>5, <1>6, <1>7, <1>8, <1>9, <1>10

LEMMA DiskMakeLog == DiskInv /\ MakeLog => DiskInv'
<1>. SUFFICES ASSUME DiskInv, MakeLog PROVE DiskInv'
  OBVIOUS
<1>. PICK nb : nb = NewBase
  OBVIOUS
<1>. PICK new : new = [base |-> nb, next |-> nb + Len(NewFile.msgs), size |-> NewFile.bytes,
                       mtime |-> NewFile.mtime]
  OBVIOUS
<1>. PICK n : n = Len(segments)
  OBVIOUS
<1>1. /\ pc = "log" /\ pc' \in {"append", "clean"}
      /\ logs' = WithLog(NewBase, NewFile)
      /\ segments' = Append(segments, new)
      /\ UNCHANGED <<indexes, clock, doomed, physicalSize, pending>>
      /\ pc' = "append" => MaxPartitionSize = 0
  BY DEF MakeLog
<1>2. IndInv /\ IndInv' /\ TypeOK
  BY MakeLogPreserves DEF DiskInv, IndInv
<1>3. /\ IsFiniteSet(DOMAIN logs')
      /\ DOMAIN logs' = DOMAIN logs \cup {nb} /\ logs'[nb].bytes = 0
      /\ \A c \in DOMAIN logs : c \in Nat /\ c <= nb /\ logs'[c] = logs[c]
      /\ SumFunctionOnSet(FileSize', DOMAIN logs') = SumFunctionOnSet(FileSize, DOMAIN logs)
      /\ FilesBounded' /\ OrphansSound' /\ nb \in Nat
      /\ MaxPartitionSize # 0 =>
           \/ Older(nb)' <= MaxPartitionSize
           \/ \E a \in DOMAIN logs' : IsBefore(a, nb)' /\ AllBut(a, nb)' <= MaxPartitionSize
  BY <1>1, NewFileSizes
<1>4. new.base = nb /\ new.size = 0
  <2>1. NewFile.bytes = 0
    BY <1>1, <1>2, NewFileFacts
  <2>. QED BY <2>1
<1>5. /\ n \in Nat /\ DOMAIN segments = 1 .. n /\ DOMAIN segments' = 1 .. n + 1
      /\ \A i \in 1 .. n : segments'[i] = segments[i]
      /\ segments'[n + 1] = new
      /\ segments' # <<>> /\ Len(segments') = n + 1
  BY <1>1, <1>2 DEF TypeOK
<1>8. Loaded' = DOMAIN logs'
  <2>2. IndInv' /\ pc' \in {"clean", "unlink", "append"}
    BY <1>1, <1>2
  <2>3. (IndInv /\ pc \in {"clean", "unlink", "append"} => Loaded = DOMAIN logs)'
    BY AllLoaded, PTL
  <2>. QED BY <2>2, <2>3
<1>9. TotalRight'
  <2>1. /\ SumFunctionOnSet(FileSize, DOMAIN logs) \in Nat
        /\ SumFunctionOnSet(FileSize, Loaded) = SumFunctionOnSet(FileSize, DOMAIN logs)
    BY <1>1, <1>2, LoadedBytes DEF DiskInv
  <2>2. physicalSize = SumFunctionOnSet(FileSize, DOMAIN logs)
    BY <1>1, <2>1 DEF DiskInv, TotalRight
  <2>. QED BY <1>1, <1>3, <1>8, <2>1, <2>2 DEF TotalRight
<1>11. OlderBounded'
  <2>. SUFFICES ASSUME MaxPartitionSize # 0, NEW b \in DOMAIN logs', IsLast(b)'
                PROVE  b = nb
    BY <1>1, <1>3 DEF OlderBounded
  <2>1. nb \in DOMAIN logs' /\ nb <= b
    BY <1>3 DEF IsLast
  <2>. QED BY <1>3, <2>1
<1>12. SegmentsIndexed'
  <2>1. ASSUME NEW i \in 1 .. n + 1 PROVE segments'[i].base \in indexes'
    <3>1. CASE i = n + 1
      BY <1>1, <1>4, <1>5, <3>1 DEF DiskInv, SegmentsIndexed
    <3>2. CASE i # n + 1
      BY <1>1, <1>5, <3>2 DEF DiskInv, SegmentsIndexed
    <3>. QED BY <3>1, <3>2
  <2>. QED BY <1>1, <1>5, <2>1 DEF SegmentsIndexed
<1>14. RoomSound' /\ RollsOver'
  <2>1. Active' = new
    BY <1>5 DEF Active, Last
  <2>. QED BY <1>1, <1>4, <1>5, <2>1, LimitsNat DEF RoomSound, RollsOver
<1>. QED BY <1>2, <1>3, <1>9, <1>11, <1>12, <1>14 DEF DiskInv

LEMMA DiskCreateFails == DiskInv /\ CreateFails => DiskInv'
<1>. SUFFICES ASSUME DiskInv, CreateFails PROVE DiskInv'
  OBVIOUS
<1>1. /\ UNCHANGED <<indexes, clock, doomed, segments, physicalSize>>
      /\ pc \in {"index", "log"} /\ pc' = (IF pending = <<>> THEN "down" ELSE "idle")
      /\ pending' = <<>>
  BY DEF CreateFails
<1>2. IndInv /\ IndInv'
  BY CreateFailsPreserves DEF DiskInv
<1>3. NewBase' = NewBase /\ Active' = Active
  BY <1>1 DEF NewBase, Active
<1>4. SegmentsIndexed'
  BY <1>1, <1>3 DEF DiskInv, SegmentsIndexed
<1>5. RoomSound' /\ RollsOver'
  BY <1>1 DEF RoomSound, RollsOver
<1>6. CASE UNCHANGED logs
  <2>1. /\ IsFiniteSet(DOMAIN logs)' /\ TotalRight' /\ FilesBounded'
        /\ \A b \in DOMAIN logs : EndOf(b)' = EndOf(b)
    BY <1>1, <1>6, QuietSizes
  <2>2. OlderBounded'
    BY <1>1, <1>6, QuietOlder
  <2>3. OrphansSound'
    BY <1>1, <1>6, <2>1 DEF DiskInv, OrphansSound
  <2>. QED BY <1>2, <1>4, <1>5, <2>1, <2>2, <2>3 DEF DiskInv
<1>7. CASE pc = "log" /\ logs' = WithLog(NewBase, NewFile)
  <2>. PICK nb : nb = NewBase
    OBVIOUS
  <2>1. /\ IsFiniteSet(DOMAIN logs')
        /\ DOMAIN logs' = DOMAIN logs \cup {nb} /\ logs'[nb].bytes = 0
        /\ \A c \in DOMAIN logs : c \in Nat /\ c <= nb /\ logs'[c] = logs[c]
        /\ \A S \in SUBSET (DOMAIN logs \ {nb}) :
             SumFunctionOnSet(FileSize', S) = SumFunctionOnSet(FileSize, S)
        /\ FilesBounded' /\ OrphansSound' /\ nb \in Nat
        /\ MaxPartitionSize # 0 =>
             \/ Older(nb)' <= MaxPartitionSize
             \/ \E a \in DOMAIN logs' : IsBefore(a, nb)' /\ AllBut(a, nb)' <= MaxPartitionSize
    BY <1>1, <1>7, NewFileSizes
  <2>2. Loaded \in SUBSET (DOMAIN logs \ {nb}) /\ Loaded' = Loaded
    <3>1. \A i \in 1 .. Len(segments) : segments[i].base < nb
      BY <1>2, <1>7, NewBaseFacts
    <3>2. DOMAIN segments = 1 .. Len(segments)
      BY <1>2, ListDomain DEF IndInv
    <3>3. \A i \in DOMAIN segments : segments[i].base \in DOMAIN logs /\ segments[i].base # nb
      BY <1>2, <1>7, <2>1, <3>1, <3>2 DEF IndInv, SegmentsMatch
    <3>. QED BY <1>1, <2>1, <3>3 DEF Loaded
  <2>3. TotalRight'
    <3>1. SumFunctionOnSet(FileSize', Loaded) = SumFunctionOnSet(FileSize, Loaded)
      BY <2>1, <2>2
    <3>2. SumFunctionOnSet(FileSize, Loaded) \in Nat
      BY <1>2, <1>7, LoadedBytes DEF DiskInv
    <3>3. physicalSize = SumFunctionOnSet(FileSize, Loaded)
      BY <1>7, <3>2 DEF DiskInv, TotalRight
    <3>. QED BY <1>1, <2>2, <3>1, <3>2, <3>3 DEF TotalRight
  <2>4. OlderBounded'
    <3>. SUFFICES ASSUME MaxPartitionSize # 0, NEW b \in DOMAIN logs', IsLast(b)'
                  PROVE  b = nb /\ (pc' = "idle" => Leftover(nb)')
      BY <1>1, <2>1 DEF OlderBounded
    <3>1. b = nb
      <4>1. nb \in DOMAIN logs' /\ nb <= b
        BY <2>1 DEF IsLast
      <4>. QED BY <2>1, <4>1
    <3>2. ASSUME pc' = "idle" PROVE Leftover(nb)'
      <4>1. segments # <<>> /\ IsFull
        BY <1>1, <1>2, <3>2 DEF IndInv, ControlSound
      <4>2. IsFull'
        BY <1>3, <4>1 DEF IsFull
      <4>3. logs'[nb].msgs = <<>>
        <5>1. logs'[nb] = NewFile /\ NewFile.msgs = <<>>
          BY <1>1, <1>2, <1>7, NewFileFacts
        <5>. QED BY <5>1
      <4>. QED BY <1>1, <1>3, <3>2, <4>1, <4>2, <4>3 DEF Leftover
    <3>. QED BY <3>1, <3>2
  <2>. QED BY <1>2, <1>4, <1>5, <2>1, <2>3, <2>4 DEF DiskInv
<1>. QED BY <1>6, <1>7 DEF CreateFails

-----------------------------------------------------------------------------
(* Appending, retention, deletion                                          *)

\* The record goes to the last file, which is not full: what is older does not
\* change, and the file passes the limit by that record at most.
LEMMA DiskAppendMessage == DiskInv /\ AppendMessage => DiskInv'
<1>. SUFFICES ASSUME DiskInv, AppendMessage PROVE DiskInv'
  OBVIOUS
<1>. PICK n : n = Len(segments)
  OBVIOUS
<1>. PICK a : a = Active.base
  OBVIOUS
<1>. PICK added : added = HeaderSize + PayloadSize[pending[1]]
  OBVIOUS
<1>1. /\ pc = "append" /\ pc' = "idle" /\ pending' = <<>>
      /\ logs' = [logs EXCEPT ![a] = [msgs  |-> Append(@.msgs, pending[1]),
                                      bytes |-> @.bytes + added,
                                      mtime |-> clock]]
      /\ segments' = [segments EXCEPT ![n] = [base  |-> @.base,
                                              next  |-> @.next + 1,
                                              size  |-> @.size + added,
                                              mtime |-> @.mtime]]
      /\ physicalSize' = physicalSize + added
      /\ indexes' = indexes /\ doomed' = doomed
  BY DEF AppendMessage
<1>2. IndInv /\ IndInv' /\ TypeOK
  BY AppendMessagePreserves DEF DiskInv, IndInv
<1>3. segments # <<>> /\ pending # <<>>
  BY <1>1, <1>2 DEF IndInv, ControlSound
<1>4. /\ n \in Nat \ {0} /\ DOMAIN segments = 1 .. n /\ Active = segments[n]
  BY <1>2, <1>3, LastSegment
<1>5. added \in Nat /\ added <= LargestRecord
  <2>1. pending[1] \in Payload
    BY <1>2, <1>3 DEF TypeOK
  <2>. QED BY <2>1, HeaderSizeNat, PayloadSizes, RecordBound
<1>6. a \in DOMAIN logs /\ \A c \in DOMAIN logs : c <= a
  BY <1>1, <1>2, ActiveIsLast
<1>7. logs[a].bytes = Active.size /\ Active.size <= MaxSegmentSize
  <2>1. Active.size <= MaxSegmentSize
    BY <1>1, <1>3 DEF DiskInv, RoomSound
  <2>2. SegmentsMatch /\ n \in DOMAIN segments
    BY <1>2, <1>4 DEF IndInv
  <2>3. segments[n].size = logs[segments[n].base].bytes
    BY <1>1, <2>2 DEF SegmentsMatch
  <2>. QED BY <1>4, <2>1, <2>3
<1>8. /\ DOMAIN logs' = DOMAIN logs
      /\ \A c \in DOMAIN logs : c # a => logs'[c] = logs[c]
      /\ logs'[a].bytes = logs[a].bytes + added
  BY <1>1, <1>6
<1>9. /\ DOMAIN segments' = DOMAIN segments
      /\ \A i \in DOMAIN segments : segments'[i].base = segments[i].base
  BY <1>1, <1>4
<1>10. /\ \A c \in DOMAIN logs : FileSize[c] = logs[c].bytes /\ FileSize[c] \in Nat
       /\ \A c \in DOMAIN logs \ {a} : FileSize'[c] = FileSize[c]
       /\ FileSize'[a] = FileSize[a] + added
  <2>1. \A c \in DOMAIN logs : FileSize[c] = logs[c].bytes /\ FileSize[c] \in Nat
    BY <1>2, Sizes
  <2>2. \A c \in DOMAIN logs : FileSize'[c] = logs'[c].bytes
    BY <1>8 DEF FileSize
  <2>. QED BY <1>6, <1>8, <2>1, <2>2
<1>11. IsFiniteSet(DOMAIN logs) /\ IsFiniteSet(DOMAIN logs')
  BY <1>8 DEF DiskInv
<1>12. Loaded = DOMAIN logs /\ Loaded' = DOMAIN logs
  <2>1. Loaded = DOMAIN logs
    BY <1>1, <1>2, AllLoaded
  <2>2. Loaded' = Loaded
    BY <1>8, <1>9 DEF Loaded
  <2>. QED BY <2>1, <2>2
<1>13. TotalRight'
  <2>. PICK h : h = FileSize'
    OBVIOUS
  <2>1. /\ \A c \in DOMAIN logs : FileSize[c] \in Int
        /\ h[a] \in Int /\ \A c \in DOMAIN logs \ {a} : h[c] = FileSize[c]
    BY <1>5, <1>6, <1>10
  <2>2. SumFunctionOnSet(h, DOMAIN logs)
          = SumFunctionOnSet(FileSize, DOMAIN logs) - FileSize[a] + h[a]
    BY <1>6, <1>11, <2>1, SumChange
  <2>3. SumFunctionOnSet(FileSize, DOMAIN logs) \in Nat /\ FileSize[a] \in Nat
    BY <1>2, <1>6, <1>10, <1>11, PartBytes
  <2>4. physicalSize = SumFunctionOnSet(FileSize, DOMAIN logs)
    BY <1>1, <1>12, <2>3 DEF DiskInv, TotalRight
  <2>5. /\ physicalSize' = SumFunctionOnSet(h, DOMAIN logs)
        /\ SumFunctionOnSet(h, DOMAIN logs) \in Nat
    BY <1>1, <1>5, <1>10, <2>2, <2>3, <2>4
  <2>. QED BY <1>1, <1>12, <2>5 DEF TotalRight
<1>14. FilesBounded'
  <2>1. ASSUME NEW c \in DOMAIN logs PROVE logs'[c].bytes <= MaxSegmentSize + LargestRecord
    <3>1. CASE c = a
      <4>1. logs[a].bytes \in Nat
        BY <1>2, <1>6, FileTypes
      <4>. QED BY <1>5, <1>7, <1>8, <3>1, <4>1, LimitsNat, RecordBound
    <3>2. CASE c # a
      BY <1>8, <3>2 DEF DiskInv, FilesBounded
    <3>. QED BY <3>1, <3>2
  <2>. QED BY <1>8, <2>1 DEF FilesBounded, LargestRecord
<1>15. OlderBounded'
  <2>. SUFFICES ASSUME MaxPartitionSize # 0, NEW b \in DOMAIN logs, IsLast(b)'
                PROVE  Older(b)' <= MaxPartitionSize
    BY <1>8 DEF OlderBounded
  <2>1. b = a
    <3>1. a <= b /\ b <= a /\ a \in Nat /\ b \in Nat
      BY <1>2, <1>6, <1>8, FileTypes DEF IsLast
    <3>. QED BY <3>1
  <2>2. Older(a) <= MaxPartitionSize
    BY <1>1, <1>6 DEF DiskInv, OlderBounded, IsLast, Leftover
  <2>3. Older(a)' = Older(a)
    <3>. PICK h : h = FileSize'
      OBVIOUS
    <3>1. SumFunctionOnSet(h, DOMAIN logs \ {a}) = SumFunctionOnSet(FileSize, DOMAIN logs \ {a})
      <4>1. IsFiniteSet(DOMAIN logs \ {a}) /\ \A c \in DOMAIN logs \ {a} : h[c] = FileSize[c]
        BY <1>10, <1>11, FS_RemoveElement
      <4>. QED BY <4>1, SumAgree
    <3>. QED BY <1>8, <3>1 DEF Older
  <2>. QED BY <2>1, <2>2, <2>3
<1>16. SegmentsIndexed'
  BY <1>1, <1>9 DEF DiskInv, SegmentsIndexed
<1>17. OrphansSound'
  <2>. SUFFICES ASSUME ~ doomed, NEW b \in indexes \ DOMAIN logs
                PROVE  \A c \in DOMAIN logs : b < c
    BY <1>1, <1>6, <1>8 DEF OrphansSound
  <2>1. ASSUME NEW c \in DOMAIN logs, \A d \in DOMAIN logs : d <= c
        PROVE  ~ (logs[c].bytes > MaxSegmentSize)
    <3>1. c = a
      <4>1. a <= c /\ c <= a /\ a \in Nat /\ c \in Nat
        BY <1>2, <1>6, <2>1, FileTypes
      <4>. QED BY <4>1
    <3>2. logs[a].bytes \in Nat
      BY <1>2, <1>6, FileTypes
    <3>. QED BY <1>7, <3>1, <3>2, LimitsNat
  <2>2. OrphansSound
    BY DEF DiskInv
  <2>. QED BY <1>6, <2>1, <2>2 DEF OrphansSound
<1>18. RoomSound' /\ RollsOver'
  BY <1>1 DEF RoomSound, RollsOver
<1>. QED BY <1>2, <1>8, <1>11, <1>13, <1>14, <1>15, <1>16, <1>17, <1>18 DEF DiskInv

\* What a directory without one of its files still satisfies.
LEMMA FewerFiles ==
  ASSUME IsFiniteSet(DOMAIN logs), FilesBounded,
         NEW b \in DOMAIN logs, logs' = WithoutLog(b)
  PROVE  /\ DOMAIN logs' = DOMAIN logs \ {b}
         /\ \A c \in DOMAIN logs' : logs'[c] = logs[c] /\ EndOf(c)' = EndOf(c)
         /\ IsFiniteSet(DOMAIN logs') /\ FilesBounded'
         /\ \A S \in SUBSET DOMAIN logs' :
              SumFunctionOnSet(FileSize', S) = SumFunctionOnSet(FileSize, S)
<1>1. /\ DOMAIN logs' = DOMAIN logs \ {b}
      /\ \A c \in DOMAIN logs' : logs'[c] = logs[c]
  BY DEF WithoutLog
<1>2. IsFiniteSet(DOMAIN logs) /\ IsFiniteSet(DOMAIN logs')
  BY <1>1, FS_RemoveElement
<1>3. FilesBounded'
  BY <1>1 DEF FilesBounded, LargestRecord
<1>4. \A c \in DOMAIN logs' : EndOf(c)' = EndOf(c)
  BY <1>1 DEF EndOf
<1>5. \A c \in DOMAIN logs' : FileSize'[c] = FileSize[c]
  BY <1>1 DEF FileSize
<1>6. ASSUME NEW S \in SUBSET DOMAIN logs'
      PROVE  SumFunctionOnSet(FileSize', S) = SumFunctionOnSet(FileSize, S)
  <2>. PICK h : h = FileSize'
    OBVIOUS
  <2>1. IsFiniteSet(S) /\ \A c \in S : h[c] = FileSize[c]
    BY <1>2, <1>5, FS_Subset
  <2>2. SumFunctionOnSet(h, S) = SumFunctionOnSet(FileSize, S)
    BY <2>1, SumAgree
  <2>. QED BY <2>2
<1>. QED BY <1>1, <1>2, <1>3, <1>4, <1>6

\* Without a file the directory has another last, or the same with fewer before.
LEMMA FewerOlder ==
  ASSUME DiskInv, NEW b \in DOMAIN logs, logs' = WithoutLog(b),
         NEW c \in DOMAIN logs', IsLast(c)'
  PROVE  \E last \in DOMAIN logs :
           /\ IsLast(last) /\ (last # b => last = c)
           /\ Older(last) \in Nat /\ Older(c)' \in Nat
           /\ Older(c)' <= Older(last)
<1>1. /\ DOMAIN logs' = DOMAIN logs \ {b} /\ IsFiniteSet(DOMAIN logs) /\ TypeOK
      /\ \A S \in SUBSET DOMAIN logs' :
              SumFunctionOnSet(FileSize', S) = SumFunctionOnSet(FileSize, S)
  BY FewerFiles DEF DiskInv, IndInv
<1>2. Older(c)' = SumFunctionOnSet(FileSize, (DOMAIN logs \ {b}) \ {c})
  BY <1>1 DEF Older
<1>3. \A d \in DOMAIN logs \ {b} : d <= c
  BY <1>1 DEF IsLast
<1>4. b \in Nat /\ c \in Nat /\ \A d \in DOMAIN logs : d \in Nat
  BY <1>1, FileTypes
<1>5. PICK last \in DOMAIN logs : /\ IsLast(last)
                                  /\ (DOMAIN logs \ {b}) \ {c} \subseteq DOMAIN logs \ {last}
  <2>1. CASE b > c
    <3>1. \A d \in DOMAIN logs : d <= b
      BY <1>3, <1>4, <2>1
    <3>. QED BY <3>1 DEF IsLast
  <2>2. CASE ~ (b > c)
    <3>1. c \in DOMAIN logs /\ \A d \in DOMAIN logs : d <= c
      BY <1>1, <1>3, <1>4, <2>2
    <3>. QED BY <3>1 DEF IsLast
  <2>. QED BY <2>1, <2>2
<1>6. last # b => last = c
  <2>. SUFFICES ASSUME last # b PROVE last = c
    OBVIOUS
  <2>1. last <= c /\ c <= last /\ last \in Nat /\ c \in Nat
    BY <1>1, <1>3, <1>4, <1>5 DEF IsLast
  <2>. QED BY <2>1
<1>. PICK S : S = DOMAIN logs \ {last}
  OBVIOUS
<1>. PICK T : T = (DOMAIN logs \ {b}) \ {c}
  OBVIOUS
<1>7. S \in SUBSET DOMAIN logs /\ T \in SUBSET S
  BY <1>5
<1>8. /\ SumFunctionOnSet(FileSize, S) \in Nat /\ SumFunctionOnSet(FileSize, T) \in Nat
      /\ SumFunctionOnSet(FileSize, T) <= SumFunctionOnSet(FileSize, S)
  BY <1>1, <1>7, PartBytes
<1>. QED BY <1>2, <1>5, <1>6, <1>8 DEF Older

\* A file removed, whichever, the bound still holds.
LEMMA FewerBounded ==
  ASSUME DiskInv, NEW b \in DOMAIN logs, logs' = WithoutLog(b),
         pc' \notin {"idle", "append", "index", "log"}
  PROVE  OlderBounded'
<1>. SUFFICES ASSUME MaxPartitionSize # 0, NEW c \in DOMAIN logs', IsLast(c)'
              PROVE  \/ Older(c)' <= MaxPartitionSize
                     \/ /\ logs'[c].bytes = 0
                        /\ \E a \in DOMAIN logs' :
                             IsBefore(a, c)' /\ AllBut(a, c)' <= MaxPartitionSize
  BY DEF OlderBounded
<1>1. /\ DOMAIN logs' = DOMAIN logs \ {b} /\ IsFiniteSet(DOMAIN logs) /\ TypeOK
      /\ \A d \in DOMAIN logs' : logs'[d] = logs[d]
      /\ \A S \in SUBSET DOMAIN logs' :
              SumFunctionOnSet(FileSize', S) = SumFunctionOnSet(FileSize, S)
  BY FewerFiles DEF DiskInv, IndInv
<1>2. PICK last \in DOMAIN logs :
        /\ IsLast(last) /\ (last # b => last = c)
        /\ Older(last) \in Nat /\ Older(c)' \in Nat
        /\ Older(c)' <= Older(last)
  BY FewerOlder
<1>3. CASE Older(last) <= MaxPartitionSize
  BY <1>2, <1>3, LimitsNat
<1>4. ASSUME logs[last].bytes = 0,
             NEW a \in DOMAIN logs, IsBefore(a, last), AllBut(a, last) <= MaxPartitionSize
      PROVE  \/ Older(c)' <= MaxPartitionSize
             \/ /\ logs'[c].bytes = 0
                /\ IsBefore(a, c)' /\ AllBut(a, c)' <= MaxPartitionSize
  <2>1. \A d \in DOMAIN logs : d \in Nat
    BY <1>1, FileTypes
  <2>2. CASE b = last
    <3>1. c = a
      <4>1. a \in DOMAIN logs \ {b} /\ (\A d \in DOMAIN logs \ {b} : d <= a)
        BY <1>4, <2>2 DEF IsBefore
      <4>2. c \in DOMAIN logs \ {b} /\ (\A d \in DOMAIN logs \ {b} : d <= c)
        BY <1>1 DEF IsLast
      <4>3. a <= c /\ c <= a /\ a \in Nat /\ c \in Nat
        BY <2>1, <4>1, <4>2
      <4>. QED BY <4>3
    <3>2. Older(c)' = SumFunctionOnSet(FileSize, (DOMAIN logs \ {b}) \ {c})
      BY <1>1 DEF Older
    <3>. QED BY <1>4, <2>2, <3>1, <3>2 DEF AllBut
  <2>3. CASE b # last /\ b = a
    <3>1. Older(c)' = SumFunctionOnSet(FileSize, (DOMAIN logs \ {b}) \ {c})
      BY <1>1 DEF Older
    <3>2. (DOMAIN logs \ {b}) \ {c} = (DOMAIN logs \ {last}) \ {a}
      BY <1>2, <2>3
    <3>. QED BY <1>4, <3>1, <3>2 DEF AllBut
  <2>4. CASE b # last /\ b # a
    <3>1. last = c
      BY <1>2, <2>4
    <3>2. a \in DOMAIN logs' \ {c} /\ \A d \in DOMAIN logs' \ {c} : d <= a
      BY <1>1, <1>4, <2>4, <3>1 DEF IsBefore
    <3>. PICK S : S = (DOMAIN logs \ {last}) \ {a}
      OBVIOUS
    <3>. PICK T : T = (DOMAIN logs' \ {c}) \ {a}
      OBVIOUS
    <3>3. S \in SUBSET DOMAIN logs /\ T \in SUBSET S /\ T \in SUBSET DOMAIN logs'
      BY <1>1, <3>1
    <3>4. /\ SumFunctionOnSet(FileSize, S) \in Nat /\ SumFunctionOnSet(FileSize, T) \in Nat
          /\ SumFunctionOnSet(FileSize, T) <= SumFunctionOnSet(FileSize, S)
      BY <1>1, <3>3, PartBytes
    <3>5. AllBut(a, c)' = SumFunctionOnSet(FileSize, T)
      BY <1>1, <3>3 DEF AllBut
    <3>6. SumFunctionOnSet(FileSize, S) <= MaxPartitionSize
      BY <1>4 DEF AllBut
    <3>7. AllBut(a, c)' <= MaxPartitionSize
      BY <3>4, <3>5, <3>6, LimitsNat
    <3>8. logs'[c].bytes = 0
      BY <1>1, <1>4, <3>1
    <3>. QED BY <3>2, <3>7, <3>8 DEF IsBefore
  <2>. QED BY <2>2, <2>3, <2>4
<1>. QED BY <1>2, <1>3, <1>4 DEF DiskInv, OlderBounded, IsBefore

LEMMA DiskUnlinkLog == DiskInv /\ UnlinkLog => DiskInv'
<1>. SUFFICES ASSUME DiskInv, UnlinkLog PROVE DiskInv'
  OBVIOUS
<1>. PICK b : b = segments[1].base
  OBVIOUS
<1>1. IndInv /\ IndInv' /\ TypeOK
  BY UnlinkLogPreserves DEF DiskInv, IndInv
<1>2. /\ Len(segments) > 1 /\ b \in DOMAIN logs
      /\ logs' = WithoutLog(b)
      /\ \A c \in DOMAIN logs : b <= c
  BY <1>1, UnlinkLogFacts
<1>3. /\ pc = "clean" /\ pc' = "unlink"
      /\ UNCHANGED <<indexes, doomed, segments, physicalSize, pending>>
  BY DEF UnlinkLog
<1>4. /\ DOMAIN logs' = DOMAIN logs \ {b}
      /\ \A c \in DOMAIN logs' : logs'[c] = logs[c] /\ EndOf(c)' = EndOf(c)
      /\ IsFiniteSet(DOMAIN logs') /\ FilesBounded'
      /\ \A S \in SUBSET DOMAIN logs' :
           SumFunctionOnSet(FileSize', S) = SumFunctionOnSet(FileSize, S)
  BY <1>2, FewerFiles DEF DiskInv
<1>5. segments # <<>> /\ DOMAIN segments = 1 .. Len(segments) /\ Len(segments) \in Nat
  BY <1>1, <1>2 DEF TypeOK
<1>6. segments[2].base \in DOMAIN logs /\ b < segments[2].base
  <2>1. 1 \in DOMAIN segments /\ 2 \in DOMAIN segments
    BY <1>2, <1>5
  <2>. QED BY <1>1, <1>3, <2>1 DEF IndInv, SegmentsMatch, SegmentsSorted
<1>7. \A c \in DOMAIN logs : c \in Nat
  BY <1>1, FileTypes
<1>8. Loaded = DOMAIN logs /\ Loaded' = DOMAIN logs'
  <2>1. Loaded = DOMAIN logs
    BY <1>1, <1>3, AllLoaded
  <2>. QED BY <1>3, <1>4, <2>1 DEF Loaded
<1>9. TotalRight'
  <2>. PICK S : S = DOMAIN logs'
    OBVIOUS
  <2>1. SumFunctionOnSet(FileSize', S) = SumFunctionOnSet(FileSize, DOMAIN logs \ {b})
    BY <1>4
  <2>2. \A c \in DOMAIN logs : FileSize[c] = logs[c].bytes /\ FileSize[c] \in Nat
    BY <1>1, Sizes
  <2>3. SumFunctionOnSet(FileSize, DOMAIN logs)
          = FileSize[b] + SumFunctionOnSet(FileSize, DOMAIN logs \ {b})
    <3>1. IsFiniteSet(DOMAIN logs) /\ \A c \in DOMAIN logs : FileSize[c] \in Int
      BY <2>2 DEF DiskInv
    <3>. QED BY <1>2, <3>1, SumRemove
  <2>4. /\ SumFunctionOnSet(FileSize, DOMAIN logs) \in Nat
        /\ SumFunctionOnSet(FileSize, DOMAIN logs \ {b}) \in Nat
    BY <1>1, PartBytes DEF DiskInv
  <2>5. segments[1].size = logs[b].bytes
    BY <1>1, <1>2, <1>3, <1>5 DEF IndInv, SegmentsMatch
  <2>6. physicalSize = SumFunctionOnSet(FileSize, DOMAIN logs)
    BY <1>3, <1>8, <2>4 DEF DiskInv, TotalRight
  <2>7. physicalSize = SumFunctionOnSet(FileSize', S) + segments[1].size
    BY <1>2, <2>1, <2>2, <2>3, <2>4, <2>5, <2>6
  <2>. QED BY <1>3, <1>8, <2>7 DEF TotalRight
<1>10. OlderBounded'
  BY <1>2, <1>3, FewerBounded
<1>11. SegmentsIndexed'
  BY <1>3 DEF DiskInv, SegmentsIndexed
<1>12. OrphansSound'
  <2>. SUFFICES ASSUME ~ doomed, NEW o \in indexes, o \notin DOMAIN logs'
                PROVE  \/ \A c \in DOMAIN logs' : o < c
                       \/ \E c \in DOMAIN logs' :
                            /\ \A d \in DOMAIN logs' : d <= c
                            /\ o = EndOf(c) /\ logs[c].bytes > MaxSegmentSize
    <3>1. DOMAIN logs' # {}
      BY <1>4, <1>6, <1>7
    <3>. QED BY <1>3, <1>4, <3>1 DEF OrphansSound
  <2>1. CASE o \in DOMAIN logs
    <3>1. o = b
      BY <1>4, <2>1
    <3>. QED BY <1>2, <1>4, <1>7, <3>1
  <2>2. CASE o \notin DOMAIN logs
    <3>1. \/ \A c \in DOMAIN logs : o < c
          \/ \E c \in DOMAIN logs : /\ \A d \in DOMAIN logs : d <= c
                                    /\ o = EndOf(c) /\ logs[c].bytes > MaxSegmentSize
      BY <1>2, <2>2 DEF DiskInv, OrphansSound
    <3>2. CASE \A c \in DOMAIN logs : o < c
      BY <1>4, <3>2
    <3>3. ASSUME NEW c \in DOMAIN logs, \A d \in DOMAIN logs : d <= c
          PROVE  c \in DOMAIN logs' /\ \A d \in DOMAIN logs' : d <= c
      BY <1>4, <1>6, <1>7, <3>3
    <3>. QED BY <3>1, <3>2, <3>3
  <2>. QED BY <2>1, <2>2
<1>13. RoomSound' /\ RollsOver'
  BY <1>3 DEF DiskInv, RoomSound, RollsOver, Active
<1>. QED BY <1>1, <1>4, <1>9, <1>10, <1>11, <1>12, <1>13 DEF DiskInv

LEMMA DiskUnlinkIndex == DiskInv /\ UnlinkIndex => DiskInv'
<1>. SUFFICES ASSUME DiskInv, UnlinkIndex PROVE DiskInv'
  OBVIOUS
<1>. PICK n : n = Len(segments)
  OBVIOUS
<1>. PICK b : b = segments[1].base
  OBVIOUS
<1>1. IndInv /\ IndInv' /\ TypeOK
  BY UnlinkIndexPreserves DEF DiskInv, IndInv
<1>2. /\ pc = "unlink" /\ pc' = "clean" /\ UNCHANGED <<logs, doomed, pending>>
      /\ \E i \in DOMAIN segments :
           /\ FirstVictim(i)
           /\ indexes' = indexes \ {segments[i].base}
           /\ segments' = RemoveAt(segments, i)
           /\ physicalSize' = physicalSize - segments[i].size
  BY DEF UnlinkIndex
<1>3. /\ n > 1 /\ n \in Nat /\ DOMAIN segments = 1 .. n
      /\ indexes' = indexes \ {b}
      /\ segments' = RemoveAt(segments, 1)
      /\ physicalSize' = physicalSize - segments[1].size
  BY <1>1, <1>2, VictimIsFirst DEF IndInv, TypeOK
<1>4. /\ Len(segments') = n - 1 /\ DOMAIN segments' = 1 .. n - 1
      /\ \A i \in 1 .. n - 1 : segments'[i] = segments[i + 1]
  <2>1. segments \in Seq(SegmentObject) /\ Len(segments) >= 1
    BY <1>1, <1>3 DEF TypeOK
  <2>2. /\ RemoveAt(segments, 1) \in Seq(SegmentObject)
        /\ Len(RemoveAt(segments, 1)) = n - 1
        /\ \A i \in 1 .. n - 1 : RemoveAt(segments, 1)[i] = segments[i + 1]
    BY <2>1, RemovingFirst
  <2>. QED BY <1>3, <2>2
<1>5. /\ b \notin DOMAIN logs
      /\ \A i \in 2 .. n : segments[i].base # b /\ segments[i].base \in DOMAIN logs
  <2>1. b \notin DOMAIN logs
    BY <1>1, <1>2 DEF IndInv, ControlSound
  <2>2. ASSUME NEW i \in 2 .. n PROVE segments[i].base \in DOMAIN logs
    <3>1. i \in DOMAIN segments /\ i # 1
      BY <1>3
    <3>. QED BY <1>1, <3>1 DEF IndInv, SegmentsMatch
  <2>. QED BY <2>1, <2>2
<1>6. FileSize' = FileSize
  BY <1>2 DEF FileSize
<1>7. Loaded = DOMAIN logs /\ Loaded' = DOMAIN logs
  <2>1. Loaded = DOMAIN logs
    BY <1>1, <1>2, AllLoaded
  <2>2. (IndInv /\ pc \in {"clean", "unlink", "append"} => Loaded = DOMAIN logs)'
    BY AllLoaded, PTL
  <2>. QED BY <1>1, <1>2, <2>1, <2>2
<1>8. TotalRight'
  <2>1. SumFunctionOnSet(FileSize, DOMAIN logs) \in Nat
    BY <1>1, PartBytes DEF DiskInv
  <2>2. segments[1].size \in Nat
    BY <1>1, <1>3, SegmentTypes
  <2>3. physicalSize = SumFunctionOnSet(FileSize, DOMAIN logs) + segments[1].size
    BY <1>2, <1>7 DEF DiskInv, TotalRight
  <2>. QED BY <1>2, <1>3, <1>6, <1>7, <2>1, <2>2, <2>3 DEF TotalRight
<1>9. IsFiniteSet(DOMAIN logs)' /\ FilesBounded'
  BY <1>2 DEF DiskInv, FilesBounded, LargestRecord
<1>10. \A c \in DOMAIN logs : /\ IsLast(c)' = IsLast(c) /\ Older(c)' = Older(c)
                              /\ EndOf(c)' = EndOf(c)
  BY <1>2, <1>6 DEF IsLast, Older, EndOf
<1>15. \A a, c \in DOMAIN logs : IsBefore(a, c)' = IsBefore(a, c) /\ AllBut(a, c)' = AllBut(a, c)
  BY <1>2, <1>6 DEF IsBefore, AllBut
<1>11. OlderBounded'
  BY <1>2, <1>10, <1>15 DEF DiskInv, OlderBounded
<1>12. SegmentsIndexed'
  <2>1. ASSUME NEW i \in 1 .. n - 1 PROVE segments'[i].base \in indexes'
    <3>1. i + 1 \in 2 .. n /\ i + 1 \in DOMAIN segments
      BY <1>3
    <3>2. segments[i + 1].base \in indexes
      BY <3>1 DEF DiskInv, SegmentsIndexed
    <3>3. segments[i + 1].base # b
      BY <1>5, <3>1
    <3>. QED BY <1>3, <1>4, <3>2, <3>3
  <2>. QED BY <1>2, <1>4, <2>1 DEF SegmentsIndexed
<1>13. OrphansSound'
  <2>1. indexes' \subseteq indexes
    BY <1>3
  <2>. QED BY <1>2, <1>10, <2>1 DEF DiskInv, OrphansSound
<1>14. RoomSound' /\ RollsOver'
  <2>1. Active' = Active
    <3>1. segments'[n - 1] = segments[(n - 1) + 1]
      BY <1>3, <1>4
    <3>2. segments'[n - 1] = segments[n]
      BY <1>3, <3>1
    <3>. QED BY <1>4, <3>2 DEF Active, Last
  <2>. QED BY <1>2, <2>1 DEF DiskInv, RoomSound, RollsOver
<1>. QED BY <1>1, <1>8, <1>9, <1>11, <1>12, <1>13, <1>14 DEF DiskInv

LEMMA DiskRemoveLog == DiskInv /\ RemoveLog => DiskInv'
<1>. SUFFICES ASSUME DiskInv, RemoveLog PROVE DiskInv'
  OBVIOUS
<1>1. PICK b \in DOMAIN logs : logs' = WithoutLog(b)
  BY DEF RemoveLog
<1>2. /\ pc = "removing" /\ pc' = "removing"
      /\ UNCHANGED <<indexes, doomed, segments, physicalSize, pending>>
  BY DEF RemoveLog, memory
<1>3. IndInv /\ IndInv' /\ segments = <<>> /\ doomed /\ pending = <<>>
  BY <1>2, RemoveLogPreserves DEF DiskInv, IndInv, ControlSound
<1>4. IsFiniteSet(DOMAIN logs') /\ FilesBounded'
  BY <1>1, FewerFiles DEF DiskInv
<1>5. TotalRight'
  <2>1. DOMAIN segments = {}
    BY <1>3
  <2>2. Loaded = {} /\ Loaded' = {}
    BY <1>2, <2>1 DEF Loaded
  <2>3. SumFunctionOnSet(FileSize, {}) = 0 /\ SumFunctionOnSet(FileSize', {}) = 0
    BY SumEmpty
  <2>. QED BY <1>2, <2>2, <2>3 DEF DiskInv, TotalRight
<1>6. OlderBounded'
  BY <1>1, <1>2, FewerBounded
<1>7. SegmentsIndexed' /\ OrphansSound' /\ RoomSound' /\ RollsOver'
  BY <1>2, <1>3 DEF SegmentsIndexed, OrphansSound, RoomSound, RollsOver
<1>. QED BY <1>3, <1>4, <1>5, <1>6, <1>7 DEF DiskInv

LEMMA DiskNext == DiskInv /\ [Next]_vars => DiskInv'
<1>. SUFFICES ASSUME DiskInv, [Next]_vars PROVE DiskInv'
  OBVIOUS
<1>1. CASE OperationStep
  BY <1>1, DiskLoadSegment, DiskLoadDone, DiskMakeIndex, DiskMakeLog,
     DiskCreateFails, DiskAppendMessage, DiskUnlinkLog, DiskUnlinkIndex,
     DiskCleanDone, DiskRemoveLog, DiskRemoveIndex DEF OperationStep
<1>2. CASE Open \/ Close \/ DeletePartition \/ Crash \/ Tick
  BY <1>2, DiskOpen, DiskNoObject
<1>3. CASE \E p \in Payload : Write(p)
  BY <1>3, DiskWrite
<1>4. CASE UNCHANGED vars
  <2>1. IndInv'
    BY <1>4, NextPreserves DEF DiskInv
  <2>. USE <1>4 DEF vars, disk, memory
  <2>2. FileSize' = FileSize /\ Loaded' = Loaded /\ NewBase' = NewBase /\ Active' = Active
    BY DEF FileSize, Loaded, NewBase, Active
  <2>3. \A b \in DOMAIN logs : /\ IsLast(b)' = IsLast(b) /\ Older(b)' = Older(b)
                               /\ EndOf(b)' = EndOf(b)
    BY <2>2 DEF IsLast, Older, EndOf
  <2>4. TotalRight'
    BY <2>2 DEF DiskInv, TotalRight
  <2>7. /\ \A a, b \in DOMAIN logs : IsBefore(a, b)' = IsBefore(a, b) /\ AllBut(a, b)' = AllBut(a, b)
        /\ \A b : Leftover(b)' = Leftover(b)
    BY <2>2 DEF IsBefore, AllBut, Leftover, IsFull
  <2>5. IsFiniteSet(DOMAIN logs)' /\ FilesBounded' /\ OlderBounded'
    BY <2>3, <2>7 DEF DiskInv, FilesBounded, OlderBounded, LargestRecord
  <2>6. SegmentsIndexed' /\ OrphansSound' /\ RoomSound' /\ RollsOver'
    BY <2>2, <2>3 DEF DiskInv, SegmentsIndexed, OrphansSound, RoomSound, RollsOver
  <2>. QED BY <2>1, <2>4, <2>5, <2>6 DEF DiskInv
<1>. QED BY <1>1, <1>2, <1>3, <1>4 DEF Next

\* The inductive invariant of the sizes and of the index files.
THEOREM DiskInvariance == Spec => []DiskInv
<1>. QED BY DiskInit, DiskNext, PTL DEF Spec

\* Whatever is interrupted, and however often, an index file without its log
\* file stands below the offsets held or where the next rollover begins.
THEOREM Orphans == Spec => []OrphanIndexes
<1>1. DiskInv => OrphanIndexes
  <2>. SUFFICES ASSUME DiskInv, ~ doomed, NEW b \in indexes \ DOMAIN logs
                PROVE  IF DOMAIN logs = {} THEN b = 0 ELSE b < FirstOffset \/ b = NextOffset
    BY DEF OrphanIndexes
  <2>1. OrphansSound /\ TypeOK
    BY DEF DiskInv, IndInv
  <2>2. CASE DOMAIN logs = {}
    BY <2>1, <2>2 DEF OrphansSound
  <2>3. ASSUME DOMAIN logs # {}, \A c \in DOMAIN logs : b < c
        PROVE  b < FirstOffset
    <3>1. \A c \in DOMAIN logs : c \in Nat
      BY <2>1, FileTypes
    <3>2. \E m \in DOMAIN logs : \A c \in DOMAIN logs : m =< c
      BY <2>3, <3>1, LeastNatural
    <3>3. FirstOffset \in DOMAIN logs
      BY <3>2 DEF FirstOffset, Min
    <3>. QED BY <2>3, <3>3
  <2>4. ASSUME NEW c \in DOMAIN logs, \A d \in DOMAIN logs : d <= c, b = EndOf(c)
        PROVE  b = NextOffset
    <3>1. \A d \in DOMAIN logs : d \in Nat
      BY <2>1, FileTypes
    <3>2. \A d \in DOMAIN logs : c >= d
      BY <2>4, <3>1
    <3>3. Max(DOMAIN logs) \in DOMAIN logs /\ \A d \in DOMAIN logs : Max(DOMAIN logs) >= d
      BY <3>2 DEF Max
    <3>4. Max(DOMAIN logs) = c
      BY <2>4, <3>1, <3>3
    <3>. QED BY <2>4, <3>4 DEF NextOffset
  <2>. QED BY <2>1, <2>2, <2>3, <2>4 DEF OrphansSound
<1>. QED BY <1>1, DiskInvariance, PTL

\* The files never take more than the limit, one segment and the record that
\* overflows it.
THEOREM DiskLimit == Spec => []DiskBounded
<1>1. DiskInv => DiskBounded
  <2>. SUFFICES ASSUME DiskInv, MaxPartitionSize # 0
                PROVE  DiskBytes <= MaxPartitionSize + MaxSegmentSize + LargestRecord
    BY DEF DiskBounded
  <2>1. /\ TypeOK /\ IsFiniteSet(DOMAIN logs) /\ FilesBounded /\ OlderBounded
        /\ DiskBytes = SumFunctionOnSet(FileSize, DOMAIN logs)
    BY DiskBytesSum DEF DiskInv, IndInv
  <2>2. CASE DOMAIN logs = {}
    BY <2>1, <2>2, SumEmpty, LimitsNat, RecordBound
  <2>3. CASE DOMAIN logs # {}
    <3>1. \A c \in DOMAIN logs : c \in Nat
      BY <2>1, FileTypes
    <3>2. PICK last \in DOMAIN logs : \A c \in DOMAIN logs : c <= last
      <4>. PICK self : self = [c \in DOMAIN logs |-> c]
        OBVIOUS
      <4>1. \A c \in DOMAIN logs : self[c] = c /\ self[c] \in Nat
        BY <3>1
      <4>2. \E c \in DOMAIN logs : \A d \in DOMAIN logs : self[d] <= self[c]
        BY <2>1, <2>3, <4>1, GreatestValue
      <4>. QED BY <4>1, <4>2
    <3>3. \A c \in DOMAIN logs : FileSize[c] = logs[c].bytes /\ FileSize[c] \in Nat
      BY <2>1, Sizes
    <3>4. DiskBytes = FileSize[last] + Older(last)
      <4>1. \A c \in DOMAIN logs : FileSize[c] \in Int
        BY <3>3
      <4>. QED BY <2>1, <4>1, SumRemove DEF Older
    <3>5. Older(last) \in Nat /\ FileSize[last] \in Nat
      BY <2>1, <3>3, PartBytes DEF Older
    <3>6. logs[last].bytes <= MaxSegmentSize + LargestRecord
      BY <2>1 DEF FilesBounded
    <3>7. \/ Older(last) <= MaxPartitionSize
          \/ /\ logs[last].bytes = 0
             /\ \E a \in DOMAIN logs : IsBefore(a, last) /\ AllBut(a, last) <= MaxPartitionSize
      BY <2>1, <3>2 DEF OlderBounded, IsLast
    <3>8. ASSUME NEW a \in DOMAIN logs, IsBefore(a, last), AllBut(a, last) <= MaxPartitionSize
          PROVE  Older(last) <= MaxPartitionSize + MaxSegmentSize + LargestRecord
      <4>. PICK S : S = DOMAIN logs \ {last}
        OBVIOUS
      <4>1. /\ a \in S /\ S \in SUBSET DOMAIN logs /\ S \ {a} \in SUBSET S
        BY <3>8 DEF IsBefore
      <4>2. /\ IsFiniteSet(S) /\ SumFunctionOnSet(FileSize, S \ {a}) \in Nat
            /\ \A c \in S : FileSize[c] \in Int
        BY <2>1, <3>3, <4>1, PartBytes
      <4>3. SumFunctionOnSet(FileSize, S) = FileSize[a] + SumFunctionOnSet(FileSize, S \ {a})
        BY <4>1, <4>2, SumRemove
      <4>4. FileSize[a] <= MaxSegmentSize + LargestRecord /\ FileSize[a] \in Nat
        BY <2>1, <3>3 DEF FilesBounded
      <4>5. /\ SumFunctionOnSet(FileSize, S \ {a}) <= MaxPartitionSize
            /\ Older(last) = SumFunctionOnSet(FileSize, S)
        BY <3>8 DEF AllBut, Older
      <4>. QED BY <4>2, <4>3, <4>4, <4>5, LimitsNat, RecordBound
    <3>. QED BY <3>3, <3>4, <3>5, <3>6, <3>7, <3>8, LimitsNat, RecordBound
  <2>. QED BY <2>2, <2>3
<1>. QED BY <1>1, DiskInvariance, PTL

\* Between two operations the list of segments is the directory, segment for file, but
\* for the empty file of a refused rollover, and physical_size_ the bytes in it.
THEOREM Mirror == Spec => []SegmentsMirrorDisk
<1>1. DiskInv => SegmentsMirrorDisk
  <2>. SUFFICES ASSUME DiskInv, pc = "idle" PROVE SegmentsMirrorDisk
    BY DEF SegmentsMirrorDisk
  <2>. PICK n : n = Len(segments)
    OBVIOUS
  <2>1. IndInv /\ TypeOK /\ SegmentsSorted /\ SegmentsMatch /\ SegmentsIndexed /\ TotalRight
    BY DEF DiskInv, IndInv
  <2>2. n \in Nat /\ DOMAIN segments = 1 .. n
    BY <2>1 DEF TypeOK
  <2>3. \A i \in 1 .. n : segments[i].base \in DOMAIN logs
    BY <2>1, <2>2 DEF SegmentsMatch
  <2>4. \A b \in DOMAIN logs : Leftover(b) \/ \E i \in DOMAIN segments : segments[i].base = b
    BY <2>1 DEF IndInv, SegmentsCover
  <2>5. ASSUME NEW i \in 1 .. n
        PROVE  /\ segments[i].base \in DOMAIN logs
               /\ segments[i].next = EndOf(segments[i].base)
               /\ segments[i].size = logs[segments[i].base].bytes
               /\ segments[i].base \in indexes
               /\ i > 1 => segments[i - 1].base < segments[i].base
    <3>1. i > 1 => i - 1 \in 1 .. n /\ i - 1 < i
      BY <2>2
    <3>. QED BY <2>1, <2>2, <3>1 DEF SegmentsMatch, SegmentsIndexed, SegmentsSorted
  <2>6. physicalSize = DiskBytes
    <3>1. /\ DiskBytes = SumFunctionOnSet(FileSize, DOMAIN logs)
          /\ SumFunctionOnSet(FileSize, Loaded) = SumFunctionOnSet(FileSize, DOMAIN logs)
          /\ SumFunctionOnSet(FileSize, Loaded) \in Nat
      BY <2>1, LoadedBytes, DiskBytesSum DEF DiskInv
    <3>. QED BY <2>1, <3>1 DEF TotalRight
  <2>. QED BY <2>2, <2>4, <2>5, <2>6 DEF SegmentsMirrorDisk
<1>. QED BY <1>1, DiskInvariance, PTL

\* With a size limit only, retention takes a file only from a directory over it.
THEOREM RetentionWhenDue == Spec => SizeRetentionWhenDue
<1>1. DiskInv /\ [Next]_vars =>
        [(SegmentTtl = 0 /\ pc = "clean" /\ DOMAIN logs' # DOMAIN logs) =>
           MaxPartitionSize # 0 /\ DiskBytes > MaxPartitionSize]_vars
  <2>. SUFFICES ASSUME DiskInv, Next, SegmentTtl = 0, pc = "clean",
                       DOMAIN logs' # DOMAIN logs
                PROVE  MaxPartitionSize # 0 /\ DiskBytes > MaxPartitionSize
    OBVIOUS
  <2>1. UnlinkLog
    BY DEF Next, OperationStep, LoadSegment, LoadDone, MakeIndex, MakeLog,
           CreateFails, AppendMessage, UnlinkIndex, CleanDone, RemoveLog,
           RemoveIndex, RemoveDone, Open, Close, DeletePartition, Crash, Tick,
           Write, disk
  <2>2. FirstVictim(1) /\ IndInv /\ TypeOK
    BY <2>1, UnlinkLogFacts DEF DiskInv, IndInv
  <2>3. MaxPartitionSize # 0 /\ physicalSize > MaxPartitionSize
    BY <2>2 DEF FirstVictim, Victim, TooOld, PartitionTooLarge
  <2>4. /\ Loaded = DOMAIN logs
        /\ DiskBytes = SumFunctionOnSet(FileSize, DOMAIN logs)
        /\ SumFunctionOnSet(FileSize, DOMAIN logs) \in Nat
    BY <2>2, AllLoaded, DiskBytesSum, PartBytes DEF DiskInv
  <2>. QED BY <2>3, <2>4 DEF DiskInv, TotalRight
<1>. QED BY <1>1, DiskInvariance, PTL DEF Spec, SizeRetentionWhenDue

-----------------------------------------------------------------------------
(* The partition implements CommitLog: every step, interrupted anywhere,   *)
(* is a step of the abstract log or leaves it alone.                       *)

\* Unless the partition is being deleted there is a last file.
LastExists ==
  ~ doomed /\ DOMAIN logs # {} => \E b \in DOMAIN logs : \A c \in DOMAIN logs : c <= b

-----------------------------------------------------------------------------
(* The abstract log, read off the files                                    *)

\* Files do not overlap, so an offset has one home.
OneHome == \A b \in DOMAIN logs : \A o \in b .. EndOf(b) - 1 : HomeOf(o) = b

\* No file reaches into the next.
FilesApart == \A b, c \in DOMAIN logs : b < c => EndOf(b) <= c

LEMMA HomeIsUnique == TypeOK /\ FilesApart => OneHome
<1>. SUFFICES ASSUME TypeOK, FilesApart,
                     NEW b \in DOMAIN logs, NEW o \in b .. EndOf(b) - 1
              PROVE  HomeOf(o) = b
  BY DEF OneHome
<1>1. ASSUME NEW c \in DOMAIN logs, o \in c .. EndOf(c) - 1 PROVE c = b
  <2>1. /\ b \in Nat /\ c \in Nat /\ o \in Int
        /\ EndOf(b) \in Nat /\ EndOf(c) \in Nat
    BY FileTypes
  <2>2. CASE c < b
    BY <1>1, <2>1, <2>2 DEF FilesApart
  <2>3. CASE b < c
    BY <1>1, <2>1, <2>3 DEF FilesApart
  <2>. QED BY <2>1, <2>2, <2>3
<1>. QED BY <1>1 DEF HomeOf

LastEnds ==
  \A b \in DOMAIN logs : (\A c \in DOMAIN logs : c <= b) => NextOffset = EndOf(b)

LEMMA LastIsUnique == TypeOK => LastEnds
<1>. SUFFICES ASSUME TypeOK, NEW b \in DOMAIN logs, \A c \in DOMAIN logs : c <= b
              PROVE  NextOffset = EndOf(b)
  BY DEF LastEnds
<1>1. ASSUME NEW d \in DOMAIN logs, \A c \in DOMAIN logs : d >= c PROVE d = b
  BY <1>1, FileTypes
<1>2. \A c \in DOMAIN logs : b >= c
  BY FileTypes
<1>3. Max(DOMAIN logs) = b
  BY <1>1, <1>2 DEF Max
<1>. QED BY <1>3 DEF NextOffset

\* The same of the state a step leads to.
LEMMA UniqueNext == IndInv /\ IndInv' => OneHome /\ LastEnds /\ OneHome' /\ LastEnds'
<1>1. IndInv => OneHome /\ LastEnds
  BY HomeIsUnique, LastIsUnique DEF IndInv, FilesOrdered, FilesApart
<1>2. (IndInv => OneHome /\ LastEnds)'
  BY <1>1, PTL
<1>. QED BY <1>1, <1>2

LEMMA NothingHeld ==
  doomed \/ DOMAIN logs = {} => /\ Messages = CL!NoMessages
                                /\ NextMessage = 0
<1>. SUFFICES ASSUME doomed \/ DOMAIN logs = {}
              PROVE  Messages = CL!NoMessages /\ NextMessage = 0
  OBVIOUS
<1>1. Held = {}
  BY DEF Held
<1>. QED BY <1>1 DEF Messages, CL!NoMessages, NextMessage

\* A step that leaves the files alone leaves the abstract log alone.
LEMMA SameFiles ==
  ASSUME UNCHANGED <<logs, doomed>>
  PROVE  UNCHANGED <<Messages, NextMessage>>
BY DEF Messages, NextMessage, Held, HomeOf, EndOf, NextOffset

\* A step that leaves an empty file at the next offset, whether its segment is opened or
\* the open is refused.
AddsFile == pc = "log" /\ logs' = WithLog(NewBase, NewFile) /\ UNCHANGED <<clock, doomed>>

\* The steps that touch the files.
LEMMA StepsOnFiles ==
  ASSUME IndInv, [Next]_vars
  PROVE  \/ UNCHANGED <<logs, doomed>>
         \/ AddsFile \/ AppendMessage \/ UnlinkLog \/ DeletePartition
         \/ doomed /\ doomed'
         \/ doomed /\ DOMAIN logs' = {}
<1>1. CASE OperationStep
  <2>1. CASE LoadSegment \/ LoadDone \/ MakeIndex \/ UnlinkIndex \/ CleanDone \/ RemoveIndex
    BY <2>1 DEF LoadSegment, LoadDone, MakeIndex, UnlinkIndex, CleanDone, RemoveIndex, disk
  <2>4. CASE MakeLog \/ CreateFails
    BY <2>4 DEF MakeLog, CreateFails, AddsFile
  <2>2. CASE RemoveLog
    BY <2>2 DEF RemoveLog, IndInv, ControlSound
  <2>3. CASE RemoveDone
    BY <2>3 DEF RemoveDone, IndInv, ControlSound
  <2>. QED BY <1>1, <2>1, <2>2, <2>3, <2>4 DEF OperationStep
<1>2. CASE Open \/ Close \/ Crash \/ Tick
  BY <1>2 DEF Open, Close, Crash, Tick, disk
<1>3. CASE \E p \in Payload : Write(p)
  BY <1>3 DEF Write, disk
<1>4. CASE UNCHANGED vars
  BY <1>4 DEF vars, disk
<1>. QED BY <1>1, <1>2, <1>3, <1>4 DEF Next

-----------------------------------------------------------------------------
(* The steps that change the abstract log                                  *)

LEMMA NewFileMaps ==
  ASSUME IndInv, IndInv', AddsFile, ~ doomed
  PROVE  UNCHANGED <<Messages, NextMessage>>
<1>. USE DEF IndInv
<1>. PICK nb : nb = NewBase
  OBVIOUS
<1>. PICK f : f = NewFile
  OBVIOUS
<1>1. /\ pc = "log" /\ logs' = WithLog(NewBase, NewFile) /\ doomed' = doomed /\ clock' = clock
  BY DEF AddsFile
<1>2. /\ nb \in Nat
      /\ segments = <<>> => DOMAIN logs = {} /\ nb = 0
      /\ segments # <<>> => /\ Active.base \in DOMAIN logs
                            /\ nb = EndOf(Active.base)
                            /\ \A c \in DOMAIN logs : c <= Active.base \/ c = nb
      /\ \A c \in DOMAIN logs : c <= nb
  <2>1. /\ nb \in Nat
        /\ segments = <<>> => DOMAIN logs = {}
        /\ segments # <<>> => /\ Active.base \in DOMAIN logs
                              /\ nb = EndOf(Active.base)
                              /\ \A c \in DOMAIN logs : c <= Active.base \/ c = nb
        /\ \A c \in DOMAIN logs : c # nb => c < nb
    BY <1>1, NewBaseFacts
  <2>. QED BY <2>1, FileTypes DEF NewBase
<1>3. /\ DOMAIN logs' = DOMAIN logs \cup {nb}
      /\ logs'[nb] = f /\ f.msgs = <<>>
      /\ \A c \in DOMAIN logs : logs'[c] = logs[c]
      /\ \A c \in DOMAIN logs : EndOf(c)' = EndOf(c)
      /\ EndOf(nb)' = nb
  BY <1>1, NewFileFacts
<1>5. nb .. nb - 1 = {}
  BY <1>2
<1>6. Held' = Held
  BY <1>1, <1>3, <1>5 DEF Held
<1>7. OneHome /\ LastEnds /\ OneHome' /\ LastEnds'
  BY UniqueNext
<1>8. ASSUME NEW o \in Held
      PROVE  HomeOf(o)' = HomeOf(o) /\ HomeOf(o) \in DOMAIN logs
  <2>1. PICK b \in DOMAIN logs : o \in b .. EndOf(b) - 1
    BY DEF Held
  <2>2. HomeOf(o) = b
    BY <1>7, <2>1 DEF OneHome
  <2>3. b \in DOMAIN logs' /\ o \in b .. EndOf(b)' - 1
    BY <1>3, <2>1
  <2>4. HomeOf(o)' = b
    BY <1>7, <2>3 DEF OneHome
  <2>. QED BY <2>2, <2>4
<1>9. Messages' = Messages
  BY <1>3, <1>6, <1>8 DEF Messages
<1>10. NextMessage = nb
  <2>1. CASE segments = <<>>
    BY <1>2, <2>1 DEF NextMessage
  <2>2. CASE segments # <<>> /\ nb \in DOMAIN logs
    <3>1. EndOf(nb) = nb
      BY <1>3, <2>2
    <3>. QED BY <1>2, <1>7, <2>2, <3>1 DEF NextMessage, LastEnds
  <2>3. CASE segments # <<>> /\ nb \notin DOMAIN logs
    BY <1>2, <1>7, <2>3 DEF NextMessage, LastEnds
  <2>. QED BY <2>1, <2>2, <2>3
<1>11. NextMessage' = nb
  <2>1. nb \in DOMAIN logs' /\ \A c \in DOMAIN logs' : c <= nb
    BY <1>2, <1>3, FileTypes
  <2>2. NextOffset' = EndOf(nb)'
    BY <1>7, <2>1 DEF LastEnds
  <2>. QED BY <1>1, <1>3, <2>1, <2>2 DEF NextMessage
<1>. QED BY <1>9, <1>10, <1>11

LEMMA AppendMessageMaps ==
  ASSUME IndInv, IndInv', AppendMessage, ~ doomed
  PROVE  \E p \in Payload : CL!AppendMessage(p)
<1>. USE DEF IndInv
<1>. PICK a : a = Active.base
  OBVIOUS
<1>. PICK p : p = pending[1]
  OBVIOUS
<1>1. /\ pc = "append" /\ doomed' = doomed
      /\ DOMAIN logs' = DOMAIN logs
      /\ \A c \in DOMAIN logs : c # a => logs'[c] = logs[c]
      /\ a \in DOMAIN logs => logs'[a].msgs = Append(logs[a].msgs, p)
  BY DEF AppendMessage, TypeOK
<1>2. p \in Payload
  BY <1>1 DEF TypeOK, ControlSound
<1>3. a \in DOMAIN logs /\ \A c \in DOMAIN logs : c <= a
  BY <1>1, ActiveIsLast
<1>4. /\ a \in Nat /\ EndOf(a) \in Nat /\ a <= EndOf(a)
      /\ logs[a].msgs \in Seq(Payload) /\ EndOf(a) = a + Len(logs[a].msgs)
  BY <1>3, FileTypes DEF EndOf
<1>5. /\ Len(logs'[a].msgs) = Len(logs[a].msgs) + 1
      /\ Len(logs[a].msgs) \in Nat
      /\ \A i \in 1 .. Len(logs[a].msgs) : logs'[a].msgs[i] = logs[a].msgs[i]
      /\ logs'[a].msgs[Len(logs[a].msgs) + 1] = p
  BY SMTT(40), <1>1, <1>2, <1>3, <1>4
<1>6. /\ EndOf(a)' = EndOf(a) + 1
      /\ \A c \in DOMAIN logs : c # a => EndOf(c)' = EndOf(c)
  BY <1>1, <1>3, <1>4, <1>5 DEF EndOf
<1>7. OneHome /\ LastEnds /\ OneHome' /\ LastEnds'
  BY UniqueNext
<1>8. NextMessage = EndOf(a) /\ NextMessage' = EndOf(a) + 1
  BY <1>1, <1>3, <1>6, <1>7 DEF NextMessage, LastEnds
<1>9. ASSUME NEW o \in Held
      PROVE  /\ o \in Held' /\ o # EndOf(a)
             /\ HomeOf(o)' = HomeOf(o)
             /\ logs'[HomeOf(o)].msgs[o - HomeOf(o) + 1]
                  = logs[HomeOf(o)].msgs[o - HomeOf(o) + 1]
  <2>1. PICK b \in DOMAIN logs : o \in b .. EndOf(b) - 1
    BY DEF Held
  <2>2. b \in Nat /\ EndOf(b) \in Nat /\ o \in Nat /\ EndOf(b) = b + Len(logs[b].msgs)
    BY <2>1, FileTypes DEF EndOf
  <2>3. o \in b .. EndOf(b)' - 1
    BY SMTT(40), <1>4, <1>6, <2>1, <2>2
  <2>4. HomeOf(o) = b /\ HomeOf(o)' = b
    BY <1>1, <1>7, <2>1, <2>3 DEF OneHome
  <2>5. o < EndOf(a)
    <3>1. CASE b = a
      BY <2>1, <2>2, <3>1
    <3>2. CASE b # a
      <4>1. b < a
        BY <1>3, <1>4, <2>2, <3>2
      <4>2. EndOf(b) <= a
        BY <1>3, <4>1 DEF FilesOrdered
      <4>. QED BY <1>4, <2>1, <2>2, <4>2
    <3>. QED BY <3>1, <3>2
  <2>6. o \in Held'
    BY <1>1, <2>1, <2>3 DEF Held
  <2>7. logs'[b].msgs[o - b + 1] = logs[b].msgs[o - b + 1]
    <3>1. CASE b = a
      <4>1. o - b + 1 \in 1 .. Len(logs[a].msgs)
        BY SMTT(40), <1>4, <1>5, <2>1, <2>2, <3>1
      <4>. QED BY <1>5, <3>1, <4>1
    <3>2. CASE b # a
      BY <1>1, <3>2
    <3>. QED BY <3>1, <3>2
  <2>. QED BY <1>4, <2>2, <2>4, <2>5, <2>6, <2>7
<1>10. PICK e : e = EndOf(a)
  OBVIOUS
<1>11. e \in Held' /\ HomeOf(e)' = a /\ logs'[a].msgs[e - a + 1] = p
  <2>1. e \in a .. EndOf(a)' - 1
    BY <1>4, <1>6, <1>10
  <2>2. e \in Held' /\ HomeOf(e)' = a
    BY <1>1, <1>3, <1>7, <2>1 DEF Held, OneHome
  <2>3. e - a + 1 = Len(logs[a].msgs) + 1
    BY <1>4, <1>5, <1>10
  <2>. QED BY <1>5, <2>2, <2>3
<1>12. ASSUME NEW o \in Held', o # e PROVE o \in Held
  <2>1. PICK b \in DOMAIN logs : o \in b .. EndOf(b)' - 1
    BY <1>1 DEF Held
  <2>2. o \in b .. EndOf(b) - 1
    BY <1>4, <1>6, <1>10, <1>12, <2>1
  <2>. QED BY <2>2 DEF Held
<1>13. Held' = Held \cup {e}
  BY <1>9, <1>11, <1>12
<1>14. Messages' = [o \in Held \cup {e} |-> IF o = e THEN p ELSE Messages[o]]
  <2>1. ASSUME NEW o \in Held \cup {e}
        PROVE  logs'[HomeOf(o)'].msgs[o - HomeOf(o)' + 1]
                 = IF o = e THEN p ELSE Messages[o]
    <3>1. CASE o = e
      BY <1>11, <3>1
    <3>2. CASE o # e
      BY <1>9, <2>1, <3>2 DEF Messages
    <3>. QED BY <3>1, <3>2
  <2>. QED BY <1>13, <2>1 DEF Messages
<1>15. DOMAIN Messages = Held
  BY DEF Messages
<1>. QED BY <1>2, <1>8, <1>10, <1>14, <1>15 DEF CL!AppendMessage

LEMMA UnlinkLogMaps ==
  ASSUME IndInv, IndInv', LastExists, UnlinkLog, ~ doomed
  PROVE  \E f \in 1 .. NextMessage : CL!Trim(f)
<1>. USE DEF IndInv
<1>. PICK b : b = segments[1].base
  OBVIOUS
<1>1. /\ pc = "clean" /\ doomed' = doomed /\ clock' = clock
      /\ Len(segments) > 1
      /\ b \in DOMAIN logs /\ logs' = WithoutLog(b)
      /\ \A c \in DOMAIN logs : b <= c
  BY UnlinkLogFacts DEF UnlinkLog
<1>2. PICK d \in DOMAIN logs : b < d
  <2>1. /\ DOMAIN segments = 1 .. Len(segments)
        /\ 1 \in DOMAIN segments /\ 2 \in DOMAIN segments
    BY <1>1 DEF TypeOK
  <2>. QED BY <1>1, <2>1 DEF SegmentsMatch, SegmentsSorted
<1>3. /\ DOMAIN logs' = DOMAIN logs \ {b}
      /\ \A c \in DOMAIN logs' : logs'[c] = logs[c] /\ EndOf(c)' = EndOf(c)
  BY <1>1, WithoutLogFacts
<1>4. PICK last \in DOMAIN logs : \A c \in DOMAIN logs : c <= last
  BY <1>1 DEF LastExists
<1>5. last # b
  BY <1>2, <1>4, FileTypes
<1>6. OneHome /\ LastEnds /\ OneHome' /\ LastEnds'
  BY UniqueNext
<1>7. NextMessage = EndOf(last) /\ NextMessage' = EndOf(last)
  <2>1. last \in DOMAIN logs' /\ \A c \in DOMAIN logs' : c <= last
    BY <1>3, <1>4, <1>5
  <2>. QED BY <1>1, <1>3, <1>4, <1>6, <2>1 DEF NextMessage, LastEnds
<1>8. PICK f : f = EndOf(b)
  OBVIOUS
<1>9. /\ f \in Nat /\ b \in Nat /\ b < f
      /\ \A c \in DOMAIN logs : c # b => f <= c
  <2>1. ASSUME NEW c \in DOMAIN logs, c # b PROVE b < c
    BY <1>1, <2>1, FileTypes
  <2>. QED BY <1>1, <1>2, <1>8, <2>1, FileTypes DEF FilesOrdered
<1>10. f \in 1 .. NextMessage
  BY <1>4, <1>5, <1>7, <1>9, FileTypes
<1>11. ASSUME NEW o \in Held, o >= f
       PROVE  /\ o \in Held' /\ HomeOf(o)' = HomeOf(o)
              /\ logs'[HomeOf(o)] = logs[HomeOf(o)]
  <2>1. PICK c \in DOMAIN logs : o \in c .. EndOf(c) - 1
    BY DEF Held
  <2>2. c # b
    BY <1>8, <1>9, <1>11, <2>1, FileTypes
  <2>3. c \in DOMAIN logs' /\ o \in c .. EndOf(c)' - 1
    BY <1>3, <2>1, <2>2
  <2>4. HomeOf(o) = c /\ HomeOf(o)' = c
    BY <1>6, <2>1, <2>3 DEF OneHome
  <2>. QED BY <1>1, <1>3, <2>3, <2>4 DEF Held
<1>12. ASSUME NEW o \in Held' PROVE o \in Held /\ o >= f
  <2>1. PICK c \in DOMAIN logs' : o \in c .. EndOf(c)' - 1
    BY <1>1 DEF Held
  <2>2. c \in DOMAIN logs /\ c # b /\ o \in c .. EndOf(c) - 1
    BY <1>3, <2>1
  <2>3. f <= c /\ c \in Nat
    BY <1>9, <2>2, FileTypes
  <2>. QED BY <1>9, <2>2, <2>3 DEF Held
<1>13. Held' = {o \in Held : o >= f}
  BY <1>11, <1>12
<1>14. Messages' = [o \in {q \in DOMAIN Messages : q >= f} |-> Messages[o]]
  BY <1>11, <1>13 DEF Messages
<1>. QED BY <1>7, <1>10, <1>14 DEF CL!Trim

-----------------------------------------------------------------------------
(* The theorem                                                             *)

LEMMA LastExistsPreserved ==
  ASSUME IndInv, IndInv', LastExists, [Next]_vars
  PROVE  LastExists'
<1>1. CASE UNCHANGED <<logs, doomed>>
  BY <1>1 DEF LastExists
<1>2. CASE doomed' \/ DOMAIN logs' = {}
  BY <1>2 DEF LastExists
<1>3. CASE AddsFile
  <2>. PICK nb : nb = NewBase
    OBVIOUS
  <2>1. nb \in Nat /\ \A c \in DOMAIN logs : c # nb => c < nb
    BY <1>3, NewBaseFacts DEF AddsFile
  <2>2. DOMAIN logs' = DOMAIN logs \cup {nb}
    BY <1>3 DEF AddsFile, WithLog
  <2>3. nb \in DOMAIN logs' /\ \A c \in DOMAIN logs' : c <= nb
    BY <2>1, <2>2, FileTypes DEF IndInv
  <2>. QED BY <2>3 DEF LastExists
<1>4. CASE AppendMessage
  <2>1. DOMAIN logs' = DOMAIN logs /\ doomed' = doomed
    BY <1>4 DEF AppendMessage, IndInv, TypeOK
  <2>. QED BY <2>1 DEF LastExists
<1>5. CASE UnlinkLog
  <2>. PICK b : b = segments[1].base
    OBVIOUS
  <2>1. /\ b \in DOMAIN logs /\ logs' = WithoutLog(b) /\ doomed' = doomed
        /\ \A c \in DOMAIN logs : b <= c
    BY <1>5, UnlinkLogFacts DEF UnlinkLog
  <2>2. DOMAIN logs' = DOMAIN logs \ {b}
    BY <2>1 DEF WithoutLog
  <2>3. SUFFICES ASSUME ~ doomed, DOMAIN logs' # {}
                 PROVE  \E d \in DOMAIN logs' : \A c \in DOMAIN logs' : c <= d
    BY <2>1 DEF LastExists
  <2>4. PICK d \in DOMAIN logs : \A c \in DOMAIN logs : c <= d
    BY <2>1, <2>3 DEF LastExists
  <2>5. d # b
    BY <2>1, <2>2, <2>3, <2>4, FileTypes DEF IndInv
  <2>. QED BY <2>2, <2>4, <2>5
<1>6. CASE DeletePartition
  BY <1>2, <1>6 DEF DeletePartition
<1>. QED BY <1>1, <1>2, <1>3, <1>4, <1>5, <1>6, StepsOnFiles

\* Each step of the partition is a step of the abstract log, or none.
LEMMA StepMaps ==
  ASSUME IndInv, IndInv', LastExists, [Next]_vars
  PROVE  [CL!Next]_(CL!vars)
<1>1. CASE UNCHANGED <<logs, doomed>>
  BY <1>1, SameFiles DEF CL!vars
<1>2. CASE AddsFile /\ ~ doomed
  BY <1>2, NewFileMaps DEF CL!vars
<1>3. CASE AppendMessage /\ ~ doomed
  BY <1>3, AppendMessageMaps DEF CL!Next
<1>4. CASE UnlinkLog /\ ~ doomed
  BY <1>4, UnlinkLogMaps DEF CL!Next
<1>5. (doomed \/ DOMAIN logs = {} => /\ Messages = CL!NoMessages
                                     /\ NextMessage = 0)'
  BY NothingHeld, PTL
<1>6. CASE DeletePartition
  BY <1>5, <1>6 DEF DeletePartition, CL!Next, CL!Destroy
<1>7. CASE doomed /\ (doomed' \/ DOMAIN logs' = {})
  BY <1>5, <1>7, NothingHeld DEF CL!vars
<1>8. CASE doomed /\ (AddsFile \/ AppendMessage \/ UnlinkLog)
  <2>1. doomed' = doomed
    BY <1>8 DEF AddsFile, AppendMessage, UnlinkLog
  <2>. QED BY <1>7, <1>8, <2>1
<1>. QED BY <1>1, <1>2, <1>3, <1>4, <1>6, <1>7, <1>8, StepsOnFiles

LEMMA LastAlwaysExists == Spec => []LastExists
<1>1. Init => LastExists
  BY DEF Init, LastExists
<1>2. IndInv /\ IndInv' /\ LastExists /\ [Next]_vars => LastExists'
  BY LastExistsPreserved
<1>. QED BY <1>1, <1>2, Invariance, PTL DEF Spec

\* A partition, killed and restarted between any two steps, behaves as an
\* append-only log trimmed at its old end (Partition.cc, all operations).
THEOREM Refinement == Spec => ImplementsCommitLog
<1>1. Init => CL!Init
  BY NothingHeld DEF Init, CL!Init
<1>2. IndInv /\ IndInv' /\ LastExists /\ [Next]_vars => [CL!Next]_(CL!vars)
  BY StepMaps
<1>. QED BY <1>1, <1>2, Invariance, LastAlwaysExists, PTL
         DEF Spec, CL!Spec, ImplementsCommitLog

-----------------------------------------------------------------------------
(* Reading                                                                 *)

\* The abstract log never has a hole, so the offsets a partition holds are
\* consecutive and end below the next one.
LEMMA AbstractContiguous == Spec => [](CL!Contiguous /\ NextMessage \in Nat)
<1>. DEFINE Inv == CL!Contiguous /\ NextMessage \in Nat
<1>1. Init => Inv
  <2>. SUFFICES ASSUME Init PROVE Inv
    OBVIOUS
  <2>1. Messages = CL!NoMessages /\ NextMessage = 0
    BY NothingHeld DEF Init
  <2>2. DOMAIN Messages = {} /\ 0 .. 0 - 1 = {}
    BY <2>1 DEF CL!NoMessages
  <2>. QED BY <2>1, <2>2 DEF CL!Contiguous
<1>2. Inv /\ [CL!Next]_(CL!vars) => Inv'
  <2>. SUFFICES ASSUME Inv, [CL!Next]_(CL!vars) PROVE Inv'
    OBVIOUS
  <2>1. PICK f \in 0 .. NextMessage : DOMAIN Messages = f .. NextMessage - 1
    BY DEF CL!Contiguous
  <2>2. CASE UNCHANGED CL!vars
    BY <2>1, <2>2 DEF CL!vars, CL!Contiguous
  <2>3. ASSUME NEW p \in Payload, CL!AppendMessage(p) PROVE Inv'
    <3>1. DOMAIN Messages' = (f .. NextMessage - 1) \cup {NextMessage}
          /\ NextMessage' = NextMessage + 1
      BY <2>1, <2>3 DEF CL!AppendMessage
    <3>2. DOMAIN Messages' = f .. NextMessage' - 1 /\ f \in 0 .. NextMessage'
      BY <3>1
    <3>. QED BY <3>1, <3>2 DEF CL!Contiguous
  <2>4. ASSUME NEW g \in 1 .. NextMessage, CL!Trim(g) PROVE Inv'
    <3>1. /\ DOMAIN Messages' = {q \in f .. NextMessage - 1 : q >= g}
          /\ NextMessage' = NextMessage
      BY <2>1, <2>4 DEF CL!Trim
    <3>2. CASE f <= g
      <4>1. DOMAIN Messages' = g .. NextMessage' - 1 /\ g \in 0 .. NextMessage'
        BY <2>1, <3>1, <3>2
      <4>. QED BY <3>1, <4>1 DEF CL!Contiguous
    <3>3. CASE ~ (f <= g)
      <4>1. DOMAIN Messages' = f .. NextMessage' - 1 /\ f \in 0 .. NextMessage'
        BY <2>1, <3>1, <3>3
      <4>. QED BY <3>1, <4>1 DEF CL!Contiguous
    <3>. QED BY <3>2, <3>3
  <2>5. CASE CL!Destroy
    <3>1. NextMessage' = 0 /\ DOMAIN Messages' = {} /\ 0 .. 0 - 1 = {}
      BY <2>5 DEF CL!Destroy, CL!NoMessages
    <3>. QED BY <3>1 DEF CL!Contiguous
  <2>. QED BY <2>2, <2>3, <2>4, <2>5 DEF CL!Next
<1>3. IndInv /\ IndInv' /\ LastExists /\ [Next]_vars => [CL!Next]_(CL!vars)
  BY StepMaps
<1>. QED BY <1>1, <1>2, <1>3, Invariance, LastAlwaysExists, PTL DEF Spec

LEMMA ReadingHeld ==
  ASSUME IndInv, pc = "idle", ~ doomed, NEW o \in Nat
  PROVE  ReadAt(o) = IF o \in Held THEN {Messages[o]} ELSE {}
<1>. USE DEF IndInv
<1>. PICK n : n = Len(segments)
  OBVIOUS
<1>1. n \in Nat /\ DOMAIN segments = 1 .. n
  BY DEF TypeOK
<1>2. \A i \in 1 .. n : /\ segments[i].base \in DOMAIN logs
                        /\ segments[i].base \in Nat
                        /\ segments[i].next = EndOf(segments[i].base)
                        /\ EndOf(segments[i].base) \in Nat
  BY <1>1, FileTypes DEF SegmentsMatch
<1>3. ASSUME NEW i \in FindSegment(o), o < segments[i].next
      PROVE  o \in segments[i].base .. EndOf(segments[i].base) - 1
  BY <1>1, <1>2, <1>3 DEF FindSegment
<1>4. CASE o \notin Held
  BY <1>1, <1>2, <1>3, <1>4 DEF ReadAt, Held, FindSegment
<1>5. CASE o \in Held
  <2>1. PICK b \in DOMAIN logs : o \in b .. EndOf(b) - 1
    BY <1>5 DEF Held
  <2>2. PICK i \in 1 .. n : segments[i].base = b
    <3>1. logs[b].msgs # <<>>
      BY <2>1, FileTypes DEF EndOf
    <3>. QED BY <1>1, <3>1 DEF SegmentsCover, Leftover
  <2>3. i \in FindSegment(o) /\ o < segments[i].next
    <3>1. ASSUME NEW j \in i + 1 .. n PROVE segments[j].base > o
      <4>1. b < segments[j].base
        BY <1>1, <2>2 DEF SegmentsSorted
      <4>2. EndOf(b) <= segments[j].base
        BY <1>1, <1>2, <4>1 DEF FilesOrdered
      <4>. QED BY <1>1, <1>2, <2>1, <2>2, <4>2
    <3>. QED BY <1>1, <1>2, <2>1, <2>2, <3>1 DEF FindSegment
  <2>4. OneHome
    BY HomeIsUnique DEF FilesOrdered, FilesApart
  <2>5. ASSUME NEW k \in FindSegment(o), o < segments[k].next
        PROVE  segments[k].base = b
    <3>1. k \in 1 .. n /\ o \in segments[k].base .. EndOf(segments[k].base) - 1
      BY <1>1, <1>3, <2>5 DEF FindSegment
    <3>. QED BY <1>2, <2>1, <2>4, <3>1 DEF OneHome
  <2>6. ReadAt(o) = {logs[b].msgs[o - b + 1]}
    BY <2>2, <2>3, <2>5 DEF ReadAt
  <2>7. Messages[o] = logs[b].msgs[o - b + 1]
    BY <1>5, <2>1, <2>4 DEF Messages, OneHome
  <2>. QED BY <1>5, <2>6, <2>7
<1>. QED BY <1>4, <1>5

\* Every offset between the oldest and the newest reads the message written at
\* it, and no other offset reads anything (Partition.cc:134-174).
THEOREM Readability == Spec => []EveryOffsetReadable
<1>1. IndInv /\ CL!Contiguous => EveryOffsetReadable
  <2>. SUFFICES ASSUME IndInv, CL!Contiguous, pc = "idle", ~ doomed
                PROVE  /\ Held = OldestOffset .. NewestOffset - 1
                       /\ \A o \in 0 .. MaxOffset :
                            ReadAt(o) = IF o \in Held THEN {Messages[o]} ELSE {}
    BY DEF EveryOffsetReadable
  <2>1. \A o \in 0 .. MaxOffset :
          ReadAt(o) = IF o \in Held THEN {Messages[o]} ELSE {}
    BY ReadingHeld, BoundsNat
  <2>. PICK n : n = Len(segments)
    OBVIOUS
  <2>. USE DEF IndInv
  <2>2. /\ n \in Nat /\ 1 \in 1 .. n /\ n \in 1 .. n /\ DOMAIN segments = 1 .. n
        /\ Active = segments[n]
    <3>1. segments \in Seq(SegmentObject) /\ segments # <<>>
      BY DEF TypeOK, ControlSound
    <3>. QED BY <3>1 DEF Active, Last
  <2>. PICK a : a = segments[n].base
    OBVIOUS
  <2>. PICK b : b = segments[1].base
    OBVIOUS
  <2>3. /\ a \in DOMAIN logs /\ b \in DOMAIN logs /\ NewestOffset = EndOf(a)
        /\ OldestOffset = b
    BY <2>2 DEF SegmentsMatch, NewestOffset, OldestOffset
  <2>4. ASSUME NEW c \in DOMAIN logs, ~ Leftover(c) PROVE b <= c /\ c <= a
    <3>1. PICK i \in 1 .. n : segments[i].base = c
      BY <2>2, <2>4 DEF SegmentsCover
    <3>2. i = 1 \/ b < c
      BY <2>2, <3>1 DEF SegmentsSorted
    <3>3. i = n \/ c < a
      BY <2>2, <3>1 DEF SegmentsSorted
    <3>. QED BY <2>3, <3>1, <3>2, <3>3, FileTypes
  <2>10. \A c \in DOMAIN logs : Leftover(c) => /\ c = EndOf(a) /\ logs[c].msgs = <<>>
                                               /\ EndOf(c) = c
    BY <2>2, <2>3, FileTypes DEF Leftover, NewBase, NewestOffset, EndOf
  <2>5. NextMessage = EndOf(a)
    <3>1. LastEnds
      BY LastIsUnique
    <3>2. CASE \E c \in DOMAIN logs : Leftover(c)
      <4>1. PICK c \in DOMAIN logs : Leftover(c)
        BY <3>2
      <4>2. c = EndOf(a) /\ EndOf(c) = EndOf(a) /\ \A d \in DOMAIN logs : d <= c
        BY <2>3, <2>4, <2>10, <4>1, FileTypes
      <4>. QED BY <3>1, <4>2 DEF LastEnds, NextMessage
    <3>3. CASE ~ \E c \in DOMAIN logs : Leftover(c)
      BY <2>3, <2>4, <3>1, <3>3 DEF LastEnds, NextMessage
    <3>. QED BY <3>2, <3>3
  <2>6. PICK f \in 0 .. EndOf(a) : Held = f .. EndOf(a) - 1
    BY <2>5 DEF CL!Contiguous, Messages
  <2>7. ASSUME NEW o \in Held PROVE b <= o /\ o < EndOf(a)
    <3>1. PICK c \in DOMAIN logs : o \in c .. EndOf(c) - 1
      BY DEF Held
    <3>2. ~ Leftover(c)
      BY <2>10, <3>1, FileTypes
    <3>. QED BY <2>3, <2>4, <2>6, <3>1, <3>2, FileTypes
  <2>8. CASE logs[b].msgs # <<>>
    <3>1. b \in Held
      <4>1. b \in b .. EndOf(b) - 1
        BY <2>3, <2>8, FileTypes
      <4>. QED BY <2>3, <4>1 DEF Held
    <3>2. b \in Nat /\ EndOf(a) \in Nat
      BY <2>3, FileTypes
    <3>3. f = b
      <4>1. f <= b /\ f \in Held
        BY <2>6, <2>7, <3>1, <3>2
      <4>2. b <= f
        BY <2>7, <4>1
      <4>. QED BY <3>2, <4>1, <4>2
    <3>4. Held = OldestOffset .. NewestOffset - 1
      BY <2>3, <2>6, <3>3
    <3>. QED BY <2>1, <3>4
  <2>9. CASE logs[b].msgs = <<>>
    <3>1. b = a
      <4>1. n = 1 \/ b < a
        BY <2>2 DEF SegmentsSorted
      <4>. QED BY <2>3, <2>9, <4>1 DEF FilesOrdered
    <3>2. EndOf(b) = b
      BY <2>3, <2>9, FileTypes DEF EndOf
    <3>3. Held = {}
      BY <2>3, <2>6, <2>7, <3>1, <3>2, FileTypes
    <3>. QED BY <2>1, <2>3, <3>1, <3>2, <3>3, FileTypes
  <2>. QED BY <2>8, <2>9
<1>. QED BY <1>1, Invariance, AbstractContiguous, PTL

-----------------------------------------------------------------------------
(* Operations advance: the safety half of OperationsFinish                 *)

FinitelyMany == IsFiniteSet(DOMAIN logs) /\ IsFiniteSet(indexes)

\* How many steps the operation in progress has left, at most.
Steps ==
  LET n == Len(segments)
      u == Cardinality(NotLoaded)
  IN CASE pc = "load"     -> 2 * (n + u) + u + 7
       [] pc = "index"    -> 2 * n + 6
       [] pc = "log"      -> 2 * n + 5
       [] pc = "clean"    -> 2 * n + 2
       [] pc = "unlink"   -> 2 * n + 1
       [] pc = "append"   -> 1
       [] pc = "removing" -> Cardinality(DOMAIN logs) + Cardinality(indexes) + 1
       [] OTHER           -> 0

\* An operation in progress has a step to take.
Unblocked ==
  /\ pc = "load" =>
       NotLoaded = {} \/ \E b \in NotLoaded : \A c \in NotLoaded : b <= c
  /\ pc = "clean" =>
       \/ \E i \in DOMAIN segments : FirstVictim(i)
       \/ \A i \in DOMAIN segments : ~ Victim(i)
  /\ pc = "unlink" => \E i \in DOMAIN segments : FirstVictim(i)

OperationsAdvance ==
  [][pc \notin {"idle", "down"} =>
       IF OperationStep THEN Steps' \in 0 .. Steps - 1
       ELSE pc' = "down" \/ (pc' = pc /\ Steps' = Steps)]_vars

\* The directory only ever has as many files as steps were taken.
LEMMA FinitelyManyPreserved == IndInv /\ FinitelyMany /\ [Next]_vars => FinitelyMany'
<1>. SUFFICES ASSUME IndInv, FinitelyMany, [Next]_vars PROVE FinitelyMany'
  OBVIOUS
<1>1. DOMAIN logs' \subseteq DOMAIN logs \cup {NewBase}
      => IsFiniteSet(DOMAIN logs')
  <2>1. IsFiniteSet(DOMAIN logs \cup {NewBase})
    BY FS_AddElement DEF FinitelyMany
  <2>. QED BY <2>1, FS_Subset
<1>2. ASSUME NEW b, indexes' \subseteq indexes \cup {b} PROVE IsFiniteSet(indexes')
  <2>1. IsFiniteSet(indexes \cup {b})
    BY FS_AddElement DEF FinitelyMany
  <2>. QED BY <1>2, <2>1, FS_Subset
<1>3. \A b : DOMAIN WithoutLog(b) \subseteq DOMAIN logs
  BY DEF WithoutLog
<1>4. \A b, f : DOMAIN WithLog(b, f) = DOMAIN logs \cup {b}
  BY DEF WithLog
<1>5. CASE UNCHANGED <<logs, indexes>>
  BY <1>5 DEF FinitelyMany
<1>6. CASE LoadSegment
  BY <1>2, <1>6 DEF LoadSegment, FinitelyMany
<1>7. CASE MakeIndex
  BY <1>2, <1>7 DEF MakeIndex, FinitelyMany
<1>8. CASE MakeLog
  BY <1>1, <1>4, <1>8 DEF MakeLog, FinitelyMany
<1>12. CASE CreateFails
  BY <1>1, <1>4, <1>12 DEF CreateFails, FinitelyMany
<1>9. CASE AppendMessage
  <2>1. DOMAIN logs' = DOMAIN logs /\ indexes' = indexes
    BY <1>9 DEF AppendMessage
  <2>. QED BY <2>1 DEF FinitelyMany
<1>10. CASE UnlinkLog \/ RemoveLog
  BY <1>1, <1>3, <1>10 DEF UnlinkLog, RemoveLog, FinitelyMany
<1>11. CASE UnlinkIndex \/ RemoveIndex
  BY <1>2, <1>11 DEF UnlinkIndex, RemoveIndex, FinitelyMany
<1>. QED BY <1>5, <1>6, <1>7, <1>8, <1>9, <1>10, <1>11, <1>12
         DEF Next, OperationStep, vars, disk, memory, Open, Close, DeletePartition, Crash,
             Tick, Write, LoadDone, CleanDone, RemoveDone

LEMMA FilesAlwaysFinite == Spec => []FinitelyMany
<1>1. Init => FinitelyMany
  <2>1. ASSUME Init PROVE DOMAIN logs = {} /\ indexes = {}
    BY <2>1 DEF Init
  <2>. QED BY <2>1, FS_EmptySet DEF FinitelyMany
<1>. QED BY <1>1, FinitelyManyPreserved, Invariance, PTL DEF Spec

LEMMA Counts ==
  ASSUME IndInv, FinitelyMany
  PROVE  /\ Len(segments) \in Nat /\ DOMAIN segments = 1 .. Len(segments)
         /\ IsFiniteSet(NotLoaded) /\ Cardinality(NotLoaded) \in Nat
         /\ Cardinality(DOMAIN logs) \in Nat /\ Cardinality(indexes) \in Nat
<1>1. segments \in Seq(SegmentObject)
  BY DEF IndInv, TypeOK
<1>2. NotLoaded \in SUBSET DOMAIN logs
  BY DEF NotLoaded
<1>. QED BY <1>1, <1>2, FS_Subset, FS_CardinalityType DEF FinitelyMany

\* The steps left at each point.
LEMMA StepsAt ==
  /\ pc = "load" => Steps = 2 * (Len(segments) + Cardinality(NotLoaded))
                            + Cardinality(NotLoaded) + 7
  /\ pc = "index" => Steps = 2 * Len(segments) + 6
  /\ pc = "log" => Steps = 2 * Len(segments) + 5
  /\ pc = "clean" => Steps = 2 * Len(segments) + 2
  /\ pc = "unlink" => Steps = 2 * Len(segments) + 1
  /\ pc = "append" => Steps = 1
  /\ pc = "removing" => Steps = Cardinality(DOMAIN logs) + Cardinality(indexes) + 1
  /\ pc \in {"idle", "down"} => Steps = 0
BY DEF Steps

LEMMA StepsAtNext ==
  /\ pc' = "load" => Steps' = 2 * (Len(segments') + Cardinality(NotLoaded'))
                            + Cardinality(NotLoaded') + 7
  /\ pc' = "index" => Steps' = 2 * Len(segments') + 6
  /\ pc' = "log" => Steps' = 2 * Len(segments') + 5
  /\ pc' = "clean" => Steps' = 2 * Len(segments') + 2
  /\ pc' = "unlink" => Steps' = 2 * Len(segments') + 1
  /\ pc' = "append" => Steps' = 1
  /\ pc' = "removing" => Steps' = Cardinality(DOMAIN logs') + Cardinality(indexes') + 1
  /\ pc' \in {"idle", "down"} => Steps' = 0
BY DEF Steps

\* Each segment is opened once (Partition.cc:63-73).
LEMMA LoadSegmentAdvances ==
  ASSUME IndInv, IndInv', FinitelyMany, FinitelyMany', LoadSegment
  PROVE  Steps' \in 0 .. Steps - 1
<1>1. PICK b \in NotLoaded : segments' = Append(segments, OpenedSegment(b))
  BY DEF LoadSegment
<1>2. /\ pc = "load" /\ pc' = "load" /\ logs' = logs
      /\ segments \in Seq(SegmentObject)
  BY DEF LoadSegment, IndInv, TypeOK
<1>3. /\ Len(segments') = Len(segments) + 1 /\ segments'[Len(segments) + 1] = OpenedSegment(b)
      /\ \A i \in 1 .. Len(segments) : segments'[i] = segments[i]
      /\ DOMAIN segments' = 1 .. Len(segments) + 1
  <2>1. OpenedSegment(b) \in SegmentObject
    BY FileTypes DEF IndInv, NotLoaded, OpenedSegment, SegmentObject
  <2>. QED BY <1>1, <1>2, <2>1
<1>4. OpenedSegment(b).base = b
  BY DEF OpenedSegment
<1>5. NotLoaded' = NotLoaded \ {b}
  BY <1>2, <1>3, <1>4, Counts DEF NotLoaded
<1>6. PICK n \in Nat : n = Len(segments)
  BY Counts
<1>7. PICK u \in Nat : u = Cardinality(NotLoaded)
  BY Counts
<1>8. u - 1 \in Nat /\ Cardinality(NotLoaded') = u - 1
  <2>1. /\ IsFiniteSet(NotLoaded \ {b})
        /\ Cardinality(NotLoaded \ {b}) = Cardinality(NotLoaded) - 1
    BY Counts, FS_RemoveElement
  <2>2. Cardinality(NotLoaded \ {b}) \in Nat
    BY <2>1, FS_CardinalityType
  <2>. QED BY <1>5, <1>7, <2>1, <2>2
<1>9. Len(segments') = n + 1
  BY <1>3, <1>6
<1>10. Steps = 2 * (n + u) + u + 7
  BY <1>2, <1>6, <1>7, StepsAt
<1>11. Steps' = 2 * (n + 1 + (u - 1)) + (u - 1) + 7
  BY <1>2, <1>8, <1>9, StepsAtNext
<1>. QED BY <1>8, <1>10, <1>11

\* A file removed from the list or the directory leaves one fewer to look at
\* (Partition.cc:229-253, 217).
LEMMA UnlinkIndexAdvances ==
  ASSUME IndInv, FinitelyMany, UnlinkIndex
  PROVE  Steps' \in 0 .. Steps - 1
<1>1. /\ pc = "unlink" /\ pc' = "clean" /\ segments' = RemoveAt(segments, 1)
      /\ Len(segments) > 1
  BY VictimIsFirst DEF UnlinkIndex, IndInv
<1>2. Len(segments') = Len(segments) - 1
  BY <1>1, RemovingFirst DEF IndInv, TypeOK
<1>. QED BY <1>1, <1>2, Counts, StepsAt, StepsAtNext

LEMMA RemoveAdvances ==
  ASSUME IndInv, FinitelyMany, RemoveLog \/ RemoveIndex
  PROVE  Steps' \in 0 .. Steps - 1
<1>1. pc = "removing" /\ pc' = "removing"
  BY DEF RemoveLog, RemoveIndex, memory
<1>2. CASE RemoveLog
  <2>1. PICK b \in DOMAIN logs : logs' = WithoutLog(b) /\ indexes' = indexes
    BY <1>2 DEF RemoveLog
  <2>2. DOMAIN logs' = DOMAIN logs \ {b}
    BY <2>1 DEF WithoutLog
  <2>3. Cardinality(DOMAIN logs') = Cardinality(DOMAIN logs) - 1
        /\ Cardinality(DOMAIN logs') \in Nat
    BY <2>2, FS_RemoveElement, FS_CardinalityType DEF FinitelyMany
  <2>. QED BY <1>1, <2>1, <2>3, Counts, StepsAt, StepsAtNext
<1>3. CASE RemoveIndex
  <2>1. PICK b \in indexes : indexes' = indexes \ {b} /\ logs' = logs
    BY <1>3 DEF RemoveIndex
  <2>3. Cardinality(indexes') = Cardinality(indexes) - 1
        /\ Cardinality(indexes') \in Nat
    BY <2>1, FS_RemoveElement, FS_CardinalityType DEF FinitelyMany
  <2>. QED BY <1>1, <2>1, <2>3, Counts, StepsAt, StepsAtNext
<1>. QED BY <1>2, <1>3

LEMMA OthersAdvance ==
  ASSUME IndInv, FinitelyMany,
         LoadDone \/ MakeIndex \/ MakeLog \/ CreateFails \/ AppendMessage
         \/ UnlinkLog \/ CleanDone \/ RemoveDone
  PROVE  Steps' \in 0 .. Steps - 1
<1>1. CASE LoadDone
  <2>1. /\ pc = "load" /\ segments' = segments
        /\ (pc' = "index" /\ segments = <<>>) \/ pc' = "clean"
    BY <1>1 DEF LoadDone
  <2>2. segments = <<>> => Len(segments) = 0
    OBVIOUS
  <2>. QED BY SMTT(40), <2>1, <2>2, Counts, StepsAt, StepsAtNext
<1>2. CASE MakeIndex
  BY <1>2, Counts, StepsAt, StepsAtNext DEF MakeIndex
<1>3. CASE MakeLog
  <2>1. Len(segments') = Len(segments) + 1 /\ pc = "log" /\ pc' \in {"append", "clean"}
    <3>1. pc = "log" /\ pc' \in {"append", "clean"}
      BY <1>3 DEF MakeLog
    <3>2. \E s : segments' = Append(segments, s)
      BY <1>3 DEF MakeLog
    <3>3. segments \in Seq(SegmentObject)
      BY DEF IndInv, TypeOK
    <3>. QED BY <3>1, <3>2, <3>3
  <2>. QED BY <2>1, Counts, StepsAt, StepsAtNext
<1>4. CASE CreateFails
  BY <1>4, Counts, StepsAt, StepsAtNext DEF CreateFails
<1>5. CASE AppendMessage
  BY <1>5, StepsAt, StepsAtNext DEF AppendMessage
<1>6. CASE UnlinkLog
  BY <1>6, Counts, StepsAt, StepsAtNext DEF UnlinkLog
<1>7. CASE CleanDone
  BY <1>7, Counts, StepsAt, StepsAtNext DEF CleanDone
<1>8. CASE RemoveDone
  BY <1>8, Counts, StepsAt, StepsAtNext DEF RemoveDone
<1>. QED BY <1>1, <1>2, <1>3, <1>4, <1>5, <1>6, <1>7, <1>8

\* Every step of an operation leaves fewer steps to its end, whatever the files it
\* finds, and nothing but the death of the process moves an operation otherwise: the
\* opening loop, the retention pass and remove_all cannot go on for ever
\* (Partition.cc:63, 229, 217).
THEOREM Advance == Spec => OperationsAdvance
<1>1. IndInv /\ IndInv' /\ FinitelyMany /\ FinitelyMany' /\ [Next]_vars
        => [pc \notin {"idle", "down"} =>
              IF OperationStep THEN Steps' \in 0 .. Steps - 1
              ELSE pc' = "down" \/ (pc' = pc /\ Steps' = Steps)]_vars
  <2>. SUFFICES ASSUME IndInv, IndInv', FinitelyMany, FinitelyMany', Next,
                       pc \notin {"idle", "down"}
                PROVE  IF OperationStep THEN Steps' \in 0 .. Steps - 1
                       ELSE pc' = "down" \/ (pc' = pc /\ Steps' = Steps)
    OBVIOUS
  <2>1. CASE OperationStep
    <3>1. Steps' \in 0 .. Steps - 1
      BY <2>1, LoadSegmentAdvances, UnlinkIndexAdvances, RemoveAdvances, OthersAdvance
         DEF OperationStep
    <3>. QED BY <2>1, <3>1
  <2>2. CASE ~ OperationStep
    <3>1. pc' = "down" \/ Tick
      BY <2>2 DEF Next, Open, Close, DeletePartition, Crash, Write
    <3>2. ASSUME Tick PROVE pc' = pc /\ Steps' = Steps
      BY <3>2 DEF Tick, memory, Steps, NotLoaded
    <3>. QED BY <2>2, <3>1, <3>2
  <2>. QED BY <2>1, <2>2
<1>. QED BY <1>1, Invariance, FilesAlwaysFinite, PTL DEF Spec, OperationsAdvance

\* And there always is a step: the loop that opens the segments has a least base left
\* or none, and the retention pass a first victim or none (Partition.cc:63, 229).
THEOREM NeverBlocked == Spec => []Unblocked
<1>1. IndInv => Unblocked
  <2>. SUFFICES ASSUME IndInv PROVE Unblocked
    OBVIOUS
  <2>1. ASSUME NotLoaded # {} PROVE \E b \in NotLoaded : \A c \in NotLoaded : b <= c
    <3>1. NotLoaded \subseteq Nat
      BY DEF NotLoaded, IndInv, TypeOK
    <3>. QED BY <2>1, <3>1, LeastNatural
  <2>2. DOMAIN segments \subseteq Nat /\ DOMAIN segments = 1 .. Len(segments)
        /\ Len(segments) \in Nat
    BY DEF IndInv, TypeOK
  <2>3. ASSUME NEW k \in DOMAIN segments, Victim(k)
        PROVE  \E i \in DOMAIN segments : FirstVictim(i)
    <3>. DEFINE V == {i \in DOMAIN segments : Victim(i)}
    <3>1. V \subseteq Nat /\ V # {}
      BY <2>2, <2>3
    <3>2. PICK i \in V : \A j \in V : i <= j
      BY <3>1, LeastNatural
    <3>3. \A j \in 1 .. i - 1 : j \in DOMAIN segments /\ ~ (i <= j)
      BY <2>2, <3>2
    <3>. QED BY <3>2, <3>3 DEF FirstVictim
  <2>4. pc = "unlink" => \E i \in DOMAIN segments : FirstVictim(i)
    <3>1. pc = "unlink" => FirstVictim(1) /\ segments # <<>>
      BY DEF IndInv, ControlSound
    <3>2. segments # <<>> => 1 \in DOMAIN segments
      BY DEF IndInv, TypeOK
    <3>. QED BY <3>1, <3>2
  <2>. QED BY <2>1, <2>3, <2>4 DEF Unblocked
<1>. QED BY <1>1, Invariance, PTL

-----------------------------------------------------------------------------
(* findSegment: the binary search of OffsetSearch.tla over this list       *)

\* The table of findSegment: the bases of the segments, in the order of the list.
Bases == [i \in DOMAIN segments |-> segments[i].base]

\* The loop of OffsetSearch over it, with values for its variables.
Search(o, b, e, p, r, k) ==
  INSTANCE OffsetSearch WITH Tables <- {}, Targets <- {}, table <- Bases, target <- o,
                             begin <- b, end <- e, pos <- p, probed <- r, found <- k

\* The table is one that OffsetSearch searches, and its answer, when the loop ends and
\* FindsLast holds (SearchCorrect in OffsetSearchProofs), is the segment that
\* FindSegment names.
SearchServes ==
  \A o, b, e, p, r, k \in Int :
    /\ Bases \in Seq(Nat) /\ Search(o, b, e, p, r, k)!Ascending(Bases)
    /\ (Search(o, b, e, p, r, k)!FindsLast /\ ~ Search(o, b, e, p, r, k)!Searching)
         => FindSegment(o) = {i \in DOMAIN segments : i = k + 1}

\* The list findSegment searches is in ascending order of bases whenever it is read,
\* loading, rollover and retention included, and what the loop over it answers is the
\* segment of the offset: ReadAt stands for Partition.cc:134-153 and 258-284.
THEOREM LookupServes == Spec => []SearchServes
<1>1. IndInv => SearchServes
  <2>. SUFFICES ASSUME IndInv, NEW o \in Int, NEW b \in Int, NEW e \in Int, NEW p \in Int,
                       NEW r \in Int, NEW k \in Int
                PROVE  /\ Bases \in Seq(Nat) /\ Search(o, b, e, p, r, k)!Ascending(Bases)
                       /\ (/\ Search(o, b, e, p, r, k)!FindsLast
                           /\ ~ Search(o, b, e, p, r, k)!Searching)
                            => FindSegment(o) = {i \in DOMAIN segments : i = k + 1}
    BY DEF SearchServes
  <2>0. TypeOK
    BY DEF IndInv
  <2>1. segments \in Seq(SegmentObject)
    BY <2>0 DEF TypeOK
  <2>2. DOMAIN segments = 1 .. Len(segments) /\ Len(segments) \in Nat
    BY <2>0, ListDomain
  <2>3. \A i \in DOMAIN segments : segments[i].base \in Nat
    BY <2>0, <2>2, SegmentTypes
  <2>4. Bases \in Seq(Nat) /\ Len(Bases) = Len(segments)
        /\ \A i \in DOMAIN segments : Bases[i] = segments[i].base
    BY <2>2, <2>3 DEF Bases
  <2>5. Search(o, b, e, p, r, k)!Ascending(Bases)
    BY SMTT(40), <2>2, <2>4 DEF Search!Ascending, IndInv, SegmentsSorted
  <2>6. ASSUME Search(o, b, e, p, r, k)!FindsLast, ~ Search(o, b, e, p, r, k)!Searching
        PROVE  FindSegment(o) = {i \in DOMAIN segments : i = k + 1}
    <3>1. Search(o, b, e, p, r, k)!Below = 0 .. k
      BY <2>6 DEF Search!FindsLast
    <3>2. {i \in 0 .. Len(segments) - 1 : segments[i + 1].base <= o} = 0 .. k
      <4>1. \A i \in 0 .. Len(segments) - 1 : Bases[i + 1] = segments[i + 1].base
        BY <2>2, <2>4
      <4>. QED BY <2>4, <3>1, <4>1 DEF Search!Below, Search!Key
    <3>3. \A i \in DOMAIN segments : segments[i].base <= o <=> i - 1 \in 0 .. k
      BY <2>2, <3>2
    <3>4. \A i \in DOMAIN segments : segments[i].base > o <=> ~ (segments[i].base <= o)
      BY <2>3
    <3>5. k < Len(segments)
      <4>1. CASE k >= 0
        BY <2>2, <3>2, <4>1
      <4>2. CASE k < 0
        BY <2>2, <4>2
      <4>. QED BY <4>1, <4>2
    <3>6. PICK n \in Nat : n = Len(segments) /\ DOMAIN segments = 1 .. n
      BY <2>2
    <3>7. ASSUME NEW i \in 1 .. n PROVE i \in FindSegment(o) <=> i = k + 1
      <4>1. \A j \in i + 1 .. n : j \in DOMAIN segments
        BY <3>6
      <4>2. i \in FindSegment(o)
              <=> i - 1 \in 0 .. k /\ \A j \in i + 1 .. n : ~ (j - 1 \in 0 .. k)
        BY <3>3, <3>4, <3>6, <4>1 DEF FindSegment
      <4>3. CASE k >= i
        <5>1. i + 1 \in i + 1 .. n /\ (i + 1) - 1 \in 0 .. k
          BY <3>5, <3>6, <4>3
        <5>. QED BY <4>2, <4>3, <5>1
      <4>4. CASE k < i
        BY <4>2, <4>4
      <4>. QED BY <4>3, <4>4
    <3>8. FindSegment(o) \subseteq DOMAIN segments
      BY DEF FindSegment
    <3>9. \A i : i \in FindSegment(o) <=> i \in DOMAIN segments /\ i = k + 1
      BY <3>6, <3>7, <3>8
    <3>. QED BY <3>9
  <2>. QED BY <2>4, <2>5, <2>6
<1>. QED BY <1>1, Invariance, PTL

=============================================================================
