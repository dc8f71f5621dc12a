--------------------------- MODULE SegmentProofs ---------------------------
(***************************************************************************)
(* Proofs about Segment.tla, for any payloads, any sizes and any number of *)
(* records, kills and faults.                                              *)
(***************************************************************************)
EXTENDS Segment, Sums

USE DEF Points, Header

-----------------------------------------------------------------------------
(* Types                                                                   *)

\* A write in progress has a payload, and its header ends the log.  A scan is never
\* before the start of the file.
TypeInv ==
  /\ TypeOK
  /\ pc \in {"payload", "index"} => payload \in Payload
  /\ pc = "payload" => Len(log) >= Header /\ log[Len(log)] = Len(payload)
  /\ pc \in {"down", "failed", "scan"} => position >= 0

LEMMA NarrowInt == ASSUME NEW p \in Int PROVE Narrow(p) \in Int
<1>1. HalfWord \in Nat /\ HalfWord > 0
  BY SizesNat
<1>2. (p + HalfWord) % (2 * HalfWord) \in Int
  BY <1>1
<1>. QED BY <1>1, <1>2 DEF Narrow

\* A position of the index that fits is kept as it is.
LEMMA NarrowFits == ASSUME NEW p \in Nat, p < HalfWord PROVE Narrow(p) = p
<1>1. HalfWord \in Nat /\ HalfWord > 0
  BY SizesNat
<1>2. (p + HalfWord) % (2 * HalfWord) = p + HalfWord
  <2>. DEFINE a == p + HalfWord
              b == 2 * HalfWord
  <2>1. a \in Nat /\ b \in Nat /\ b > 0 /\ a < b
    BY <1>1
  <2>. HIDE DEF a, b
  <2>2. a % b = a
    BY <2>1
  <2>. QED BY <2>2 DEF a, b
<1>. QED BY <1>1, <1>2 DEF Narrow

\* What Index::write does to the entries.
LEMMA EntryWritten ==
  ASSUME cells \in [0 .. IndexCap - 1 -> Entry], NEW n \in 0 .. IndexCap - 1,
         NEW o \in Int, NEW p \in Int
  PROVE  /\ WithEntry(n, o, p) \in [0 .. IndexCap - 1 -> Entry]
         /\ WithEntry(n, o, p)[n] = [off |-> Narrow(o - BaseOffset), pos |-> Narrow(p)]
         /\ \A i \in 0 .. IndexCap - 1 : i # n => WithEntry(n, o, p)[i] = cells[i]
<1>1. [off |-> Narrow(o - BaseOffset), pos |-> Narrow(p)] \in Entry
  <2>1. o - BaseOffset \in Int
    BY SizesNat
  <2>. QED BY <2>1, NarrowInt DEF Entry
<1>. QED BY <1>1 DEF WithEntry

LEMMA PayloadIsWords ==
  ASSUME NEW p \in Payload \cup {<<>>}
  PROVE  p \in Seq(Int) /\ Len(p) \in Nat
<1>1. CASE p \in Payload
  BY <1>1, PayloadWords
<1>2. CASE p = <<>>
  BY <1>2
<1>. QED BY <1>1, <1>2

LEMMA TypeInit == Init => TypeInv
<1>. SUFFICES ASSUME Init PROVE TypeInv
  OBVIOUS
<1>1. cells \in [0 .. IndexCap - 1 -> Entry]
  BY DEF Init, NoEntry, Entry
<1>2. /\ log \in Seq(Int) /\ records \in Seq([pos : Nat, payload : Payload])
      /\ length \in 0 .. IndexCap /\ count \in 0 .. IndexCap
      /\ position \in Int /\ nextOffset \in Int /\ size \in Nat
  BY SizesNat DEF Init
<1>3. /\ pc \in Points /\ payload \in Payload \cup {<<>>} /\ acked = {} /\ pc = "down"
      /\ position = 0
  BY DEF Init
<1>. QED BY <1>1, <1>2, <1>3 DEF TypeInv, TypeOK

\* The object forgotten, its members have their types again.
LEMMA MemoryTypes ==
  ASSUME LoseMemory
  PROVE  /\ count' \in 0 .. IndexCap /\ position' = 0 /\ nextOffset' \in Int
         /\ size' \in Nat /\ payload' \in Payload \cup {<<>>}
BY SizesNat DEF LoseMemory

LEMMA CutTypes ==
  ASSUME TypeOK, CutIndex
  PROVE  cells' \in [0 .. IndexCap - 1 -> Entry] /\ length' \in 0 .. IndexCap
<1>1. NoEntry \in Entry
  BY DEF NoEntry, Entry
<1>. QED BY <1>1 DEF TypeOK, CutIndex

LEMMA TypeOpen == TypeInv /\ (Open \/ OpenRefused) => TypeInv'
<1>. SUFFICES ASSUME TypeInv, Open \/ OpenRefused PROVE TypeInv'
  OBVIOUS
<1>1. CASE Open
  <2>1. /\ UNCHANGED <<log, cells, position, nextOffset, payload, records, acked>>
        /\ pc' = "scan" /\ count' = 0 /\ length' = IndexCap /\ size' = Len(log)
        /\ pc \in {"down", "failed"}
    BY <1>1 DEF Open, OpenIndex, history
  <2>2. count' \in 0 .. IndexCap /\ length' \in 0 .. IndexCap /\ size' \in Nat
    BY <2>1, SizesNat DEF TypeInv, TypeOK
  <2>. QED BY <2>1, <2>2 DEF TypeInv, TypeOK
<1>2. CASE OpenRefused
  BY <1>2 DEF OpenRefused, disk, index, object, history, TypeInv, TypeOK
<1>. QED BY <1>1, <1>2

LEMMA TypeScan == TypeInv /\ Scan => TypeInv'
<1>. SUFFICES ASSUME TypeInv, Scan PROVE TypeInv'
  OBVIOUS
<1>1. CASE ScanRecord
  <2>1. /\ UNCHANGED <<log, length, size, payload, records, acked>>
        /\ pc = "scan" /\ count < IndexCap /\ position + 1 < Len(log)
        /\ pc' = IF position' < 0 THEN "idle" ELSE "scan"
        /\ cells' = WithEntry(count, log[position + 1], position)
        /\ count' = count + 1
        /\ nextOffset' = log[position + 1] + 1
        /\ position' = position + Header + log[position + 2]
    BY <1>1 DEF ScanRecord, NextPosition, AfterSeek, history
  <2>2. /\ position \in Nat /\ log \in Seq(Int) /\ count \in 0 .. IndexCap
        /\ cells \in [0 .. IndexCap - 1 -> Entry]
    BY <2>1 DEF TypeInv, TypeOK
  <2>3. log[position + 1] \in Int /\ log[position + 2] \in Int
    <3>. SUFFICES ASSUME NEW i \in {position + 1, position + 2} PROVE log[i] \in Int
      OBVIOUS
    <3>. PICK n \in Nat : n = Len(log) /\ DOMAIN log = 1 .. n
      BY <2>2
    <3>1. position + 1 < n
      BY <2>1
    <3>2. i \in 1 .. n
      BY <2>2, <3>1
    <3>3. log \in [1 .. n -> Int]
      BY <2>2
    <3>. QED BY <3>2, <3>3
  <2>4. count \in 0 .. IndexCap - 1 /\ count' \in 0 .. IndexCap
    BY <2>1, <2>2, SizesNat
  <2>5. nextOffset' \in Int /\ position' \in Int
    <3>1. PICK o \in Int : nextOffset' = o + 1
      BY <2>1, <2>3
    <3>2. PICK l \in Int : position' = position + 2 + l
      BY <2>1, <2>3
    <3>3. position \in Nat
      BY <2>2
    <3>. QED BY <3>1, <3>2, <3>3
  <2>6. cells' \in [0 .. IndexCap - 1 -> Entry]
    <3>1. PICK o \in Int : o = log[position + 1]
      BY <2>3
    <3>2. cells' = WithEntry(count, o, position) /\ position \in Int
      BY <2>1, <2>2, <3>1
    <3>. QED BY <2>2, <2>4, <3>2, EntryWritten
  <2>7. pc' \in {"scan", "idle"} /\ (pc' = "scan" => position' >= 0)
    BY <2>1, <2>5
  <2>. QED BY <2>1, <2>4, <2>5, <2>6, <2>7 DEF TypeInv, TypeOK
<1>2. CASE ScanDone
  BY <1>2 DEF ScanDone, disk, index, object, history, TypeInv, TypeOK
<1>3. CASE ScanFails
  <2>1. /\ pc' = "failed" /\ CutIndex /\ LoseMemory /\ UNCHANGED <<log, records, acked>>
    BY <1>3 DEF ScanFails, history
  <2>. QED BY <2>1, CutTypes, MemoryTypes DEF TypeInv, TypeOK
<1>. QED BY <1>1, <1>2, <1>3 DEF Scan

LEMMA TypeWrite == ASSUME NEW p \in Payload PROVE TypeInv /\ Write(p) => TypeInv'
<1>. SUFFICES ASSUME TypeInv, Write(p) PROVE TypeInv'
  OBVIOUS
<1>1. /\ UNCHANGED <<cells, length, count, position, nextOffset, size, records, acked>>
      /\ log' = log \o <<nextOffset, Len(p)>> /\ payload' = p /\ pc' = "payload"
  BY DEF Write, index, history
<1>2. log \in Seq(Int) /\ nextOffset \in Int /\ Len(p) \in Nat
  BY PayloadIsWords DEF TypeInv, TypeOK
<1>3. log' \in Seq(Int) /\ Len(log') >= 2 /\ log'[Len(log')] = Len(payload')
  BY <1>1, <1>2
<1>. QED BY <1>1, <1>3 DEF TypeInv, TypeOK

LEMMA TypeWritePayload == TypeInv /\ WritePayload => TypeInv'
<1>. SUFFICES ASSUME TypeInv, WritePayload PROVE TypeInv'
  OBVIOUS
<1>1. /\ UNCHANGED <<cells, length, count, position, nextOffset, size, payload, acked>>
      /\ pc = "payload" /\ pc' = "index" /\ log' = log \o payload
      /\ records' = Append(records, [pos |-> Len(log) - Header, payload |-> payload])
  BY DEF WritePayload, index, object
<1>2. log \in Seq(Int) /\ payload \in Payload /\ Len(log) >= 2 /\ payload \in Seq(Int)
  BY <1>1, PayloadIsWords DEF TypeInv, TypeOK
<1>3. log' \in Seq(Int)
  BY <1>1, <1>2
<1>4. [pos |-> Len(log) - Header, payload |-> payload] \in [pos : Nat, payload : Payload]
  BY <1>2
<1>5. records' \in Seq([pos : Nat, payload : Payload])
  BY <1>1, <1>4 DEF TypeInv, TypeOK
<1>. QED BY <1>1, <1>2, <1>3, <1>5 DEF TypeInv, TypeOK

LEMMA TypeWriteIndex == TypeInv /\ (WriteIndex \/ WriteOverflow) => TypeInv'
<1>. SUFFICES ASSUME TypeInv, WriteIndex \/ WriteOverflow PROVE TypeInv'
  OBVIOUS
<1>1. CASE WriteIndex
  <2>1. /\ pc = "index" /\ count < IndexCap
        /\ cells' = WithEntry(count, nextOffset, position)
        /\ count' = count + 1
        /\ acked' = acked \cup {[offset |-> nextOffset, payload |-> payload]}
        /\ nextOffset' = nextOffset + 1
        /\ position' = position + Header + Len(payload)
        /\ size' = size + Header + Len(payload)
        /\ payload' = <<>> /\ pc' = "idle"
        /\ UNCHANGED <<log, length, records>>
    BY <1>1 DEF WriteIndex
  <2>2. /\ position \in Int /\ nextOffset \in Int /\ size \in Nat /\ count \in 0 .. IndexCap
        /\ cells \in [0 .. IndexCap - 1 -> Entry]
        /\ payload \in Payload /\ Len(payload) \in Nat
    BY <2>1, PayloadIsWords DEF TypeInv, TypeOK
  <2>3. count \in 0 .. IndexCap - 1 /\ count' \in 0 .. IndexCap
    BY <2>1, <2>2, SizesNat
  <2>4. nextOffset' \in Int /\ position' \in Int /\ size' \in Nat
    BY <2>1, <2>2
  <2>5. cells' \in [0 .. IndexCap - 1 -> Entry]
    BY <2>1, <2>2, <2>3, EntryWritten
  <2>6. acked' \subseteq [offset : Int, payload : Payload]
    BY <2>1, <2>2 DEF TypeInv, TypeOK
  <2>. QED BY <2>1, <2>3, <2>4, <2>5, <2>6 DEF TypeInv, TypeOK
<1>2. CASE WriteOverflow
  BY <1>2 DEF WriteOverflow, disk, index, history, TypeInv, TypeOK
<1>. QED BY <1>1, <1>2

LEMMA TypeShort == TypeInv /\ (ShortHeader \/ ShortPayload) => TypeInv'
<1>. SUFFICES ASSUME TypeInv, ShortHeader \/ ShortPayload PROVE TypeInv'
  OBVIOUS
<1>1. CASE ShortHeader
  <2>1. /\ log' = Append(log, nextOffset) /\ pc = "idle" /\ pc' = pc
        /\ UNCHANGED <<cells, length, count, position, nextOffset, size, payload, records, acked>>
    BY <1>1 DEF ShortHeader, index, object, history
  <2>2. log' \in Seq(Int)
    BY <2>1 DEF TypeInv, TypeOK
  <2>. QED BY <2>1, <2>2 DEF TypeInv, TypeOK
<1>2. CASE ShortPayload
  <2>1. PICK n \in 0 .. Len(payload) - 1 : log' = log \o SubSeq(payload, 1, n)
    BY <1>2 DEF ShortPayload
  <2>2. /\ pc' = "idle" /\ payload' = <<>>
        /\ UNCHANGED <<cells, length, count, position, nextOffset, size, records, acked>>
    BY <1>2 DEF ShortPayload, index, history
  <2>3. payload \in Seq(Int) /\ log \in Seq(Int)
    BY PayloadIsWords DEF TypeInv, TypeOK
  <2>4. SubSeq(payload, 1, n) \in Seq(Int)
    BY <2>3
  <2>5. log' \in Seq(Int)
    BY <2>1, <2>3, <2>4
  <2>. QED BY <2>2, <2>5 DEF TypeInv, TypeOK
<1>. QED BY <1>1, <1>2

LEMMA TypeEnd == TypeInv /\ (Close \/ DeleteSegment \/ Crash) => TypeInv'
<1>. SUFFICES ASSUME TypeInv, Close \/ DeleteSegment \/ Crash PROVE TypeInv'
  OBVIOUS
<1>1. LoseMemory /\ pc' = "down"
  BY DEF Close, DeleteSegment, Crash
<1>2. CASE Close
  BY <1>1, <1>2, CutTypes, MemoryTypes DEF Close, history, TypeInv, TypeOK
<1>3. CASE DeleteSegment
  <2>1. /\ log' = <<>> /\ records' = <<>> /\ acked' = {} /\ length' = 0
        /\ cells' = [i \in DOMAIN cells |-> NoEntry]
    BY <1>3 DEF DeleteSegment
  <2>2. cells' \in [0 .. IndexCap - 1 -> Entry]
    BY <2>1 DEF TypeInv, TypeOK, NoEntry, Entry
  <2>3. /\ log' \in Seq(Int) /\ records' \in Seq([pos : Nat, payload : Payload])
        /\ length' \in 0 .. IndexCap
    BY <2>1, SizesNat
  <2>. QED BY <1>1, <2>1, <2>2, <2>3, MemoryTypes DEF TypeInv, TypeOK
<1>4. CASE Crash
  BY <1>1, <1>4, MemoryTypes DEF Crash, disk, index, history, TypeInv, TypeOK
<1>. QED BY <1>2, <1>3, <1>4

LEMMA TypeNext == TypeInv /\ [Next]_vars => TypeInv'
<1>. SUFFICES ASSUME TypeInv, [Next]_vars PROVE TypeInv'
  OBVIOUS
<1>1. CASE Next
  BY <1>1, TypeOpen, TypeScan, TypeWrite, TypeWritePayload, TypeWriteIndex,
     TypeShort, TypeEnd DEF Next
<1>2. CASE UNCHANGED vars
  BY <1>2 DEF vars, disk, index, object, history, TypeInv, TypeOK
<1>. QED BY <1>1, <1>2

\* Every member of a segment has its type, whatever faults a log is left with and
\* whatever bytes a scan takes for offsets and sizes, negative ones included; the
\* index is never filled past its end, nor is a scan before the start of the file.
THEOREM TypeCorrect == Spec => []TypeOK
<1>1. Spec => []TypeInv
  BY TypeInit, TypeNext, PTL DEF Spec
<1>2. TypeInv => TypeOK
  BY DEF TypeInv
<1>. QED BY <1>1, <1>2, PTL

-----------------------------------------------------------------------------
(* What survives an unfinished write                                       *)

Whole == Len(records)

\* The records the index has room for.
Indexed == IF Whole < IndexCap THEN Whole ELSE IndexCap

\* The records are in the log as they were written, those the index has room for
\* under their own offsets; so is the beginning of one that is not whole.
LogSound ==
  /\ \A i \in 0 .. Whole : EndAt(i) <= Len(log) /\ 2 * i <= EndAt(i)
  /\ \A i \in 1 .. Whole :
       LET r == records[i]
       IN /\ log[r.pos + Header] = Len(r.payload)
          /\ \A j \in 1 .. Len(r.payload) : log[r.pos + Header + j] = r.payload[j]
          /\ i <= IndexCap => log[r.pos + 1] = BaseOffset + i - 1 /\ r.pos <= MaxSize
  /\ Len(log) > EndAt(Whole) /\ Whole < IndexCap =>
       log[EndAt(Whole) + 1] = BaseOffset + Whole

AckedSound ==
  \A a \in acked :
    \E i \in 1 .. Whole : /\ i <= IndexCap
                          /\ a.offset = BaseOffset + i - 1
                          /\ a.payload = records[i].payload

\* The entries made since the segment was opened.
EntriesSound ==
  pc \in {"scan", "idle", "payload", "index"} =>
    /\ nextOffset = BaseOffset + count
    /\ \A k \in 0 .. count - 1 :
         cells[k].off = k /\ (k < Whole => cells[k].pos = records[k + 1].pos)

\* The scan is at the end of a record, or past the log after its remains.
ScanSound ==
  pc = "scan" =>
    \/ count <= Whole /\ position = EndAt(count)
    \/ count = Whole + 1 /\ position >= Len(log) /\ Len(log) > EndAt(Whole)

\* A log without remains is indexed to its end.
CleanSound ==
  \/ pc = "idle" /\ Len(log) = EndAt(Whole)
  \/ pc = "payload" /\ Len(log) = EndAt(Whole) + Header
  => count = Indexed /\ (count = Whole => position = EndAt(Whole))

WriteSound ==
  /\ pc \in {"idle", "payload"} => count >= Indexed
  /\ pc = "payload" => /\ position <= MaxSize
                       /\ Len(log) >= EndAt(Whole) + Header
                       /\ log[Len(log)] = Len(payload)
  /\ pc = "index" => /\ Whole >= 1 /\ Len(log) = EndAt(Whole)
                     /\ records[Whole].payload = payload
                     /\ IF Whole - 1 < IndexCap
                        THEN count = Whole - 1 /\ position = records[Whole].pos
                        ELSE count = IndexCap
                     /\ position <= MaxSize

Forgotten ==
  pc \in {"down", "failed"} => count = 0 /\ position = 0 /\ nextOffset = BaseOffset

Sound == /\ LogSound /\ AckedSound /\ EntriesSound /\ ScanSound
         /\ CleanSound /\ WriteSound

\* Nothing is known of a log once something was appended to remains.
RemainsInv == TypeInv /\ Forgotten /\ (Unburied => Sound)

LEMMA RecordTypes ==
  ASSUME TypeInv
  PROVE  /\ Whole \in Nat /\ DOMAIN records = 1 .. Whole
         /\ Len(log) \in Nat /\ DOMAIN log = 1 .. Len(log)
         /\ \A j \in 1 .. Len(log) : log[j] \in Int
         /\ \A i \in 1 .. Whole :
              /\ records[i].pos \in Nat /\ records[i].payload \in Payload
              /\ records[i].payload \in Seq(Int) /\ Len(records[i].payload) \in Nat
              /\ EndAt(i) = records[i].pos + 2 + Len(records[i].payload)
         /\ EndAt(0) = 0
         /\ \A i \in 0 .. Whole : EndAt(i) \in Nat
<1>1. /\ records \in Seq([pos : Nat, payload : Payload]) /\ log \in Seq(Int)
  BY DEF TypeInv, TypeOK
<1>2. /\ Whole \in Nat /\ DOMAIN records = 1 .. Whole
      /\ Len(log) \in Nat /\ DOMAIN log = 1 .. Len(log)
      /\ \A j \in 1 .. Len(log) : log[j] \in Int
  BY <1>1 DEF Whole
<1>3. ASSUME NEW i \in 1 .. Whole
      PROVE  /\ records[i].pos \in Nat /\ records[i].payload \in Payload
             /\ records[i].payload \in Seq(Int) /\ Len(records[i].payload) \in Nat
             /\ EndAt(i) = records[i].pos + 2 + Len(records[i].payload)
             /\ EndAt(i) \in Nat
  <2>1. records[i] \in [pos : Nat, payload : Payload]
    <3>. DEFINE R == [pos : Nat, payload : Payload]
    <3>1. records \in Seq(R) /\ i \in 1 .. Len(records)
      BY <1>1 DEF Whole
    <3>. HIDE DEF R
    <3>2. records[i] \in R
      BY <3>1
    <3>. QED BY <3>2 DEF R
  <2>2. records[i].pos \in Nat /\ records[i].payload \in Payload
    BY <2>1
  <2>3. records[i].payload \in Seq(Int) /\ Len(records[i].payload) \in Nat
    BY <2>2, PayloadIsWords
  <2>4. EndAt(i) = records[i].pos + 2 + Len(records[i].payload)
    BY <1>2 DEF EndAt, EndOfRecord
  <2>. QED BY <2>2, <2>3, <2>4
<1>4. EndAt(0) = 0
  BY DEF EndAt
<1>. QED BY <1>2, <1>3, <1>4

LEMMA UnburiedMeans ==
  Unburied <=>
    /\ \A i \in 1 .. Whole : records[i].pos = EndAt(i - 1)
    /\ \/ Len(log) <= EndAt(Whole) + 1
       \/ Len(log) <= EndAt(Whole) + 2 + log[EndAt(Whole) + 2]
BY DEF Unburied, Whole

LEMMA RemainsInit == Init => RemainsInv
<1>. SUFFICES ASSUME Init PROVE RemainsInv
  OBVIOUS
<1>1. TypeInv
  BY TypeInit
<1>2. /\ log = <<>> /\ records = <<>> /\ acked = {} /\ pc = "down"
      /\ count = 0 /\ position = 0 /\ nextOffset = BaseOffset
  BY DEF Init
<1>3. Whole = 0 /\ EndAt(0) = 0 /\ Len(log) = 0
  BY <1>2 DEF Whole, EndAt
<1>4. LogSound /\ AckedSound
  BY <1>2, <1>3 DEF LogSound, AckedSound
<1>5. EntriesSound /\ ScanSound /\ CleanSound /\ WriteSound /\ Forgotten
  BY <1>2 DEF EntriesSound, ScanSound, CleanSound, WriteSound, Forgotten
<1>. QED BY <1>1, <1>4, <1>5 DEF RemainsInv, Sound

\* Nothing known of the log changes when it and the records do not.
LEMMA LogKept ==
  ASSUME UNCHANGED <<log, records>>
  PROVE  /\ Unburied' = Unburied /\ LogSound' = LogSound /\ Whole' = Whole
         /\ Indexed' = Indexed /\ \A i : EndAt(i)' = EndAt(i)
BY DEF Unburied, LogSound, Whole, Indexed, EndAt, EndOfRecord

LEMMA AckedKept ==
  ASSUME UNCHANGED <<records, acked>> PROVE AckedSound' = AckedSound
BY DEF AckedSound, Whole

LEMMA RemainsOpen == RemainsInv /\ (Open \/ OpenRefused) => RemainsInv'
<1>. SUFFICES ASSUME RemainsInv, Open \/ OpenRefused PROVE RemainsInv'
  OBVIOUS
<1>1. /\ UNCHANGED <<log, records, acked, position, nextOffset>>
      /\ pc \in {"down", "failed"}
      /\ pc' \in {"scan", "failed"} /\ count' \in {0, count}
  BY DEF Open, OpenRefused, OpenIndex, disk, index, object, history
<1>2. TypeInv' /\ count = 0 /\ count' = 0 /\ position = 0 /\ nextOffset = BaseOffset
  BY <1>1, TypeOpen DEF RemainsInv, Forgotten
<1>3. Forgotten'
  BY <1>1, <1>2 DEF Forgotten
<1>4. ASSUME Unburied' PROVE Sound'
  <2>1. Unburied /\ LogSound' /\ AckedSound' /\ Whole' = Whole /\ EndAt(0)' = 0
    <3>1. Unburied
      BY <1>1, <1>4, LogKept
    <3>2. LogSound /\ AckedSound
      BY <3>1 DEF RemainsInv, Sound
    <3>3. EndAt(0)' = 0
      BY DEF EndAt
    <3>. QED BY <1>1, <3>1, <3>2, <3>3, LogKept, AckedKept
  <2>2. Whole \in Nat /\ BaseOffset \in Nat
    BY RecordTypes, SizesNat DEF RemainsInv
  <2>3. EntriesSound' /\ ScanSound' /\ CleanSound' /\ WriteSound'
    BY <1>1, <1>2, <2>1, <2>2 DEF EntriesSound, ScanSound, CleanSound, WriteSound
  <2>. QED BY <2>1, <2>3 DEF Sound
<1>. QED BY <1>2, <1>3, <1>4 DEF RemainsInv

LEMMA RemainsEnd == RemainsInv /\ (Close \/ Crash \/ ScanFails \/ DeleteSegment) => RemainsInv'
<1>. SUFFICES ASSUME RemainsInv, Close \/ Crash \/ ScanFails \/ DeleteSegment PROVE RemainsInv'
  OBVIOUS
<1>1. /\ pc' \in {"down", "failed"}
      /\ count' = 0 /\ position' = 0 /\ nextOffset' = BaseOffset
  BY DEF Close, Crash, ScanFails, DeleteSegment, LoseMemory
<1>2. TypeInv' /\ Forgotten'
  BY <1>1, TypeEnd, TypeScan DEF RemainsInv, Forgotten, Scan
<1>3. EntriesSound' /\ ScanSound' /\ CleanSound' /\ WriteSound'
  BY <1>1 DEF EntriesSound, ScanSound, CleanSound, WriteSound
<1>4. ASSUME Unburied' PROVE LogSound' /\ AckedSound'
  <2>1. CASE Close \/ Crash \/ ScanFails
    <3>1. UNCHANGED <<log, records, acked>>
      BY <2>1 DEF Close, Crash, ScanFails, disk, history
    <3>2. Unburied
      BY <1>4, <3>1, LogKept
    <3>3. LogSound /\ AckedSound
      BY <3>2 DEF RemainsInv, Sound
    <3>. QED BY <3>1, <3>3, LogKept, AckedKept
  <2>2. CASE DeleteSegment
    <3>1. log' = <<>> /\ records' = <<>> /\ acked' = {}
      BY <2>2 DEF DeleteSegment
    <3>2. Whole' = 0 /\ EndAt(0)' = 0 /\ Len(log') = 0
      BY <3>1 DEF Whole, EndAt
    <3>. QED BY <3>1, <3>2 DEF LogSound, AckedSound
  <2>. QED BY <2>1, <2>2
<1>. QED BY <1>2, <1>3, <1>4 DEF RemainsInv, Sound

\* What a call of ::write adds to the log leaves the records as they are; a log
\* without remains that grows begins a record, at the offset that comes next.
LEMMA LogGrows ==
  ASSUME TypeInv, NEW w \in Seq(Int), log' = log \o w, records' = records
  PROVE  /\ Whole' = Whole /\ Indexed' = Indexed /\ \A i : EndAt(i)' = EndAt(i)
         /\ Len(log') = Len(log) + Len(w)
         /\ \A j \in 1 .. Len(log) : log'[j] = log[j]
         /\ \A j \in 1 .. Len(w) : log'[Len(log) + j] = w[j]
         /\ Unburied' => Unburied
         /\ /\ LogSound
            /\ Len(log) = EndAt(Whole) /\ Whole < IndexCap /\ Len(w) > 0 =>
                 w[1] = BaseOffset + Whole
            => LogSound'
<1>1. Whole' = Whole /\ Indexed' = Indexed /\ \A i : EndAt(i)' = EndAt(i)
  BY DEF Whole, Indexed, EndAt, EndOfRecord
<1>2. /\ Len(log') = Len(log) + Len(w) /\ Len(w) \in Nat
      /\ \A j \in 1 .. Len(log) : log'[j] = log[j]
      /\ \A j \in 1 .. Len(w) : log'[Len(log) + j] = w[j]
  <2>1. log \in Seq(Int)
    BY DEF TypeInv, TypeOK
  <2>. QED BY <2>1
<1>3. /\ Whole \in Nat /\ EndAt(Whole) \in Nat /\ Len(log) \in Nat
      /\ \A j \in 1 .. Len(log) : log[j] \in Int
  BY RecordTypes
<1>4. ASSUME Unburied' PROVE Unburied
  <2>1. /\ \A i \in 1 .. Whole : records[i].pos = EndAt(i - 1)
        /\ \/ Len(log') <= EndAt(Whole) + 1
           \/ Len(log') <= EndAt(Whole) + 2 + log'[EndAt(Whole) + 2]
    <3>1. \/ Len(log') <= EndAt(Whole)' + 1
          \/ Len(log') <= EndAt(Whole)' + 2 + log'[EndAt(Whole)' + 2]
      BY <1>4 DEF Unburied, Whole
    <3>2. \A i \in 1 .. Whole : records'[i].pos = EndAt(i - 1)'
      BY <1>4, <1>1 DEF Unburied, Whole
    <3>3. EndAt(Whole)' = EndAt(Whole)
      BY DEF Whole, EndAt, EndOfRecord
    <3>4. ASSUME NEW i \in 1 .. Whole PROVE records[i].pos = EndAt(i - 1)
      <4>1. records'[i].pos = EndAt(i - 1)'
        BY <3>2
      <4>2. EndAt(i - 1)' = EndAt(i - 1)
        BY DEF EndAt, EndOfRecord
      <4>. QED BY <4>1, <4>2
    <3>. QED BY <3>1, <3>3, <3>4
  <2>2. CASE Len(log) <= EndAt(Whole) + 1
    BY <2>1, <2>2, UnburiedMeans
  <2>3. CASE Len(log) > EndAt(Whole) + 1
    <3>1. log'[EndAt(Whole) + 2] = log[EndAt(Whole) + 2]
      BY <1>2, <1>3, <2>3
    <3>2. PICK s \in Int : s = log[EndAt(Whole) + 2]
      BY <1>3, <2>3
    <3>3. Len(log) <= EndAt(Whole) + 2 + s
      <4>1. Len(log) + Len(w) <= EndAt(Whole) + 1 \/ Len(log) + Len(w) <= EndAt(Whole) + 2 + s
        BY <1>2, <2>1, <3>1, <3>2
      <4>. QED BY <1>2, <1>3, <2>3, <3>2, <4>1
    <3>. QED BY <2>1, <3>2, <3>3, UnburiedMeans
  <2>. QED BY <1>3, <2>2, <2>3
<1>5. ASSUME LogSound,
             Len(log) = EndAt(Whole) /\ Whole < IndexCap /\ Len(w) > 0 =>
               w[1] = BaseOffset + Whole
      PROVE  LogSound'
  <2>1. \A i \in 0 .. Whole : EndAt(i) <= Len(log) /\ 2 * i <= EndAt(i) /\ EndAt(i) \in Nat
    BY <1>5, RecordTypes DEF LogSound
  <2>2. ASSUME NEW i \in 0 .. Whole PROVE EndAt(i)' <= Len(log') /\ 2 * i <= EndAt(i)'
    <3>1. EndAt(i)' = EndAt(i)
      BY DEF EndAt, EndOfRecord
    <3>. QED BY <1>2, <1>3, <2>1, <3>1
  <2>3. ASSUME NEW i \in 1 .. Whole
        PROVE  LET r == records[i]
               IN /\ log'[r.pos + Header] = Len(r.payload)
                  /\ \A j \in 1 .. Len(r.payload) : log'[r.pos + Header + j] = r.payload[j]
                  /\ i <= IndexCap => log'[r.pos + 1] = BaseOffset + i - 1 /\ r.pos <= MaxSize
    <3>. DEFINE r == records[i]
    <3>1. /\ log[r.pos + Header] = Len(r.payload)
          /\ \A j \in 1 .. Len(r.payload) : log[r.pos + Header + j] = r.payload[j]
          /\ i <= IndexCap => log[r.pos + 1] = BaseOffset + i - 1 /\ r.pos <= MaxSize
      BY <1>5 DEF LogSound
    <3>2. /\ r.pos \in Nat /\ Len(r.payload) \in Nat
          /\ r.pos + 2 + Len(r.payload) <= Len(log)
      BY <2>1, RecordTypes
    <3>. HIDE DEF r
    <3>. DEFINE b == r.pos
                l == Len(r.payload)
    <3>. HIDE DEF b, l
    <3>5. b \in Nat /\ l \in Nat /\ b + 2 + l <= Len(log)
      BY <3>2 DEF b, l
    <3>6. log'[b + 2] = log[b + 2] /\ log'[b + 1] = log[b + 1]
      BY <1>2, <1>3, <3>5
    <3>7. ASSUME NEW j \in 1 .. l PROVE log'[b + 2 + j] = log[b + 2 + j]
      <4>1. b + 2 + j \in 1 .. Len(log)
        BY <1>3, <3>5
      <4>. QED BY <1>2, <4>1
    <3>3. /\ log'[r.pos + 2] = log[r.pos + 2] /\ log'[r.pos + 1] = log[r.pos + 1]
          /\ \A j \in 1 .. Len(r.payload) : log'[r.pos + 2 + j] = log[r.pos + 2 + j]
      BY <3>6, <3>7 DEF b, l
    <3>4. /\ log'[r.pos + Header] = Len(r.payload)
          /\ \A j \in 1 .. Len(r.payload) : log'[r.pos + Header + j] = r.payload[j]
          /\ i <= IndexCap => log'[r.pos + 1] = BaseOffset + i - 1 /\ r.pos <= MaxSize
      BY <3>1, <3>3
    <3>. QED BY <3>4 DEF r
  <2>4. Len(log') > EndAt(Whole) /\ Whole < IndexCap => log'[EndAt(Whole) + 1] = BaseOffset + Whole
    <3>1. CASE Len(log) > EndAt(Whole)
      <4>1. log'[EndAt(Whole) + 1] = log[EndAt(Whole) + 1]
        BY <1>2, <1>3, <3>1
      <4>. QED BY <1>5, <3>1, <4>1 DEF LogSound
    <3>2. CASE Len(log) = EndAt(Whole)
      <4>1. ASSUME Len(w) > 0 PROVE log'[EndAt(Whole) + 1] = w[1]
        BY <1>2, <1>3, <3>2, <4>1
      <4>. QED BY <1>2, <1>3, <1>5, <3>2, <4>1
    <3>. QED BY SMTT(40), <1>3, <2>1, <3>1, <3>2
  <2>5. EndAt(Whole)' = EndAt(Whole)
    BY DEF Whole, EndAt, EndOfRecord
  <2>. QED BY <1>1, <2>2, <2>3, <2>4, <2>5 DEF LogSound
<1>. QED BY <1>1, <1>2, <1>4, <1>5

\* Where a record is, in a log whose remains are not buried: after the one before,
\* with its own offset and size in its header.
LEMMA RecordAt ==
  ASSUME TypeInv, Unburied, LogSound, NEW i \in 1 .. Whole
  PROVE  /\ records[i].pos = EndAt(i - 1)
         /\ EndAt(i) = EndAt(i - 1) + 2 + Len(records[i].payload)
         /\ EndAt(i) <= Len(log)
         /\ log[EndAt(i - 1) + 2] = Len(records[i].payload)
         /\ i <= IndexCap => /\ log[EndAt(i - 1) + 1] = BaseOffset + i - 1
                             /\ EndAt(i - 1) <= MaxSize
<1>1. records[i].pos = EndAt(i - 1)
  BY UnburiedMeans
<1>2. /\ log[records[i].pos + 2] = Len(records[i].payload)
      /\ i <= IndexCap => /\ log[records[i].pos + 1] = BaseOffset + i - 1
                          /\ records[i].pos <= MaxSize
  BY DEF LogSound
<1>3. EndAt(i) = records[i].pos + 2 + Len(records[i].payload)
  BY RecordTypes
<1>4. EndAt(i) <= Len(log)
  <2>1. i \in 0 .. Whole
    BY RecordTypes
  <2>. QED BY <2>1 DEF LogSound
<1>. QED BY <1>1, <1>2, <1>3, <1>4

\* An entry made under its offset, at a place the index can hold.
LEMMA EntryMade ==
  ASSUME TypeInv, EntriesSound, pc \in {"scan", "index"}, count < IndexCap,
         NEW o \in Int, o = BaseOffset + count,
         cells' = WithEntry(count, o, position),
         count' = count + 1, nextOffset' = o + 1, records' = records,
         count < Whole => position = records[count + 1].pos /\ position < HalfWord
  PROVE  EntriesSound'
<1>1. /\ count \in 0 .. IndexCap /\ cells \in [0 .. IndexCap - 1 -> Entry]
      /\ position \in Int /\ Whole \in Nat
      /\ count < Whole => position \in Nat
  <2>1. ASSUME count < Whole PROVE position \in Nat
    <3>1. count + 1 \in 1 .. Whole
      BY <2>1, RecordTypes DEF TypeInv, TypeOK
    <3>. QED BY <2>1, <3>1, RecordTypes
  <2>. QED BY <2>1, RecordTypes DEF TypeInv, TypeOK
<1>2. BaseOffset \in Nat /\ IndexCap \in Nat /\ HalfWord \in Nat /\ IndexCap <= HalfWord
  BY SizesNat
<1>3. count \in 0 .. IndexCap - 1 /\ count \in Nat
  BY <1>1, <1>2
<1>4. /\ cells'[count] = [off |-> Narrow(o - BaseOffset), pos |-> Narrow(position)]
      /\ \A i \in 0 .. IndexCap - 1 : i # count => cells'[i] = cells[i]
  BY <1>1, <1>3, EntryWritten
<1>5. cells'[count].off = count /\ cells'[count].pos = Narrow(position)
  <2>1. o - BaseOffset = count /\ count < HalfWord
    BY <1>2, <1>3
  <2>. QED BY <1>3, <1>4, <2>1, NarrowFits
<1>6. \A k \in 0 .. count - 1 :
        cells[k].off = k /\ (k < Whole => cells[k].pos = records[k + 1].pos)
  BY DEF EntriesSound
<1>7. nextOffset' = BaseOffset + count'
  BY <1>2, <1>3
<1>8. ASSUME NEW k \in 0 .. count
      PROVE  cells'[k].off = k /\ (k < Whole => cells'[k].pos = records[k + 1].pos)
  <2>1. CASE k = count
    BY <1>1, <1>5, <2>1, NarrowFits
  <2>2. CASE k # count
    <3>1. k \in 0 .. count - 1 /\ k \in 0 .. IndexCap - 1
      BY <1>2, <1>3, <2>2
    <3>. QED BY <1>4, <1>6, <2>2, <3>1
  <2>. QED BY <2>1, <2>2
<1>9. count' - 1 = count /\ Whole' = Whole
  BY <1>3 DEF Whole
<1>. QED BY <1>7, <1>8, <1>9 DEF EntriesSound

LEMMA RemainsScanRecord ==
  ASSUME MaxSize < HalfWord, RemainsInv, ScanRecord PROVE RemainsInv'
<1>1. /\ UNCHANGED <<log, records, acked>> /\ pc = "scan"
      /\ pc' = IF position' < 0 THEN "idle" ELSE "scan"
      /\ count < IndexCap /\ position + 1 < Len(log)
      /\ cells' = WithEntry(count, log[position + 1], position)
      /\ count' = count + 1
      /\ nextOffset' = log[position + 1] + 1
      /\ position' = position + 2 + log[position + 2]
  BY DEF ScanRecord, NextPosition, AfterSeek, history
<1>2. TypeInv' /\ Forgotten' /\ TypeInv
  BY <1>1, TypeScan DEF RemainsInv, Forgotten, Scan
<1>3. ASSUME Unburied' PROVE Sound'
  <2>1. Unburied /\ Sound
    BY <1>1, <1>3, LogKept DEF RemainsInv
  <2>2. LogSound' /\ AckedSound' /\ Whole' = Whole /\ \A i : EndAt(i)' = EndAt(i)
    <3>1. LogSound /\ AckedSound
      BY <2>1 DEF Sound
    <3>. QED BY <1>1, <3>1, LogKept, AckedKept
  <2>3. /\ Whole \in Nat /\ Len(log) \in Nat /\ count \in Nat /\ position \in Nat
        /\ IndexCap \in Nat /\ BaseOffset \in Nat /\ MaxSize \in Nat /\ HalfWord \in Nat
        /\ \A i \in 0 .. Whole : EndAt(i) \in Nat
        /\ \A j \in 1 .. Len(log) : log[j] \in Int
    BY SMTT(40), <1>1, <1>2, RecordTypes, SizesNat DEF TypeInv, TypeOK
  <2>4. count <= Whole /\ position = EndAt(count)
    BY <1>1, <2>1, <2>3 DEF Sound, ScanSound
  <2>5. PICK o \in Int, l \in Int : o = log[position + 1] /\ l = log[position + 2]
    BY SMTT(40), <1>1, <2>3
  <2>6. cells' = WithEntry(count, o, position) /\ nextOffset' = o + 1 /\ position' = position + 2 + l
    BY <1>1, <2>5
  <2>7. CASE count < Whole
    <3>1. count + 1 \in 1 .. Whole /\ (count + 1) - 1 = count
      BY <2>3, <2>7
    <3>2. LogSound
      BY <2>1 DEF Sound
    <3>3. /\ records[count + 1].pos = EndAt(count)
          /\ EndAt(count + 1) = EndAt(count) + 2 + Len(records[count + 1].payload)
          /\ log[EndAt(count) + 2] = Len(records[count + 1].payload)
          /\ count + 1 <= IndexCap => /\ log[EndAt(count) + 1] = BaseOffset + (count + 1) - 1
                                      /\ EndAt(count) <= MaxSize
      <4>. DEFINE i == count + 1
      <4>1. i \in 1 .. Whole /\ i - 1 = count
        BY <3>1
      <4>. HIDE DEF i
      <4>2. /\ records[i].pos = EndAt(i - 1)
            /\ EndAt(i) = EndAt(i - 1) + 2 + Len(records[i].payload)
            /\ log[EndAt(i - 1) + 2] = Len(records[i].payload)
            /\ i <= IndexCap => /\ log[EndAt(i - 1) + 1] = BaseOffset + i - 1
                                /\ EndAt(i - 1) <= MaxSize
        BY <1>2, <2>1, <3>2, <4>1, RecordAt
      <4>. QED BY <4>1, <4>2 DEF i
    <3>4. o = BaseOffset + count /\ EndAt(count) <= MaxSize /\ l = Len(records[count + 1].payload)
      BY <1>1, <2>3, <2>4, <2>5, <3>3
    <3>5. EntriesSound'
      <4>1. position = records[count + 1].pos /\ position < HalfWord
        BY <2>3, <2>4, <3>3, <3>4
      <4>2. EntriesSound
        BY <2>1 DEF Sound
      <4>. QED BY <1>1, <1>2, <2>6, <3>4, <4>1, <4>2, EntryMade
    <3>6. position' = EndAt(count + 1)
      BY <2>4, <2>6, <3>3, <3>4
    <3>7. ScanSound'
      <4>1. count' <= Whole' /\ position' = EndAt(count)'
        <5>1. EndAt(count)' = EndAt(count + 1)
          BY <1>1 DEF EndAt, EndOfRecord
        <5>. QED BY <1>1, <2>2, <2>3, <2>7, <3>6, <5>1
      <4>. QED BY <4>1 DEF ScanSound
    <3>8. pc' = "scan"
      <4>1. EndAt(count + 1) \in Nat
        BY <2>3, <3>1
      <4>. QED BY <1>1, <3>6, <4>1
    <3>. QED BY <2>2, <3>5, <3>7, <3>8 DEF Sound, CleanSound, WriteSound
  <2>8. CASE count = Whole
    <3>1. o = BaseOffset + Whole
      <4>1. Len(log) > EndAt(Whole) /\ Whole < IndexCap
        BY <1>1, <2>3, <2>4, <2>8
      <4>. QED BY <2>1, <2>4, <2>5, <2>8, <4>1 DEF Sound, LogSound
    <3>2. EntriesSound'
      <4>1. EntriesSound /\ ~ (count < Whole) /\ o = BaseOffset + count
        BY <2>1, <2>3, <2>8, <3>1 DEF Sound
      <4>. QED BY <1>1, <1>2, <2>6, <4>1, EntryMade
    <3>3. Len(log) <= EndAt(Whole) + 2 + l /\ Len(log) > EndAt(Whole)
      <4>1. \/ Len(log) <= EndAt(Whole) + 1
            \/ Len(log) <= EndAt(Whole) + 2 + log[EndAt(Whole) + 2]
        BY <2>1, UnburiedMeans
      <4>. QED BY <1>1, <2>3, <2>4, <2>5, <2>8, <4>1
    <3>4. ScanSound'
      <4>1. EndAt(Whole)' = EndAt(Whole)
        BY <1>1 DEF Whole, EndAt, EndOfRecord
      <4>2. count' = Whole' + 1 /\ position' >= Len(log')
        BY <1>1, <2>2, <2>3, <2>4, <2>6, <2>8, <3>3
      <4>. QED BY <1>1, <3>3, <4>1, <4>2 DEF ScanSound
    <3>5. pc' = "scan"
      BY <1>1, <2>3, <2>4, <2>6, <2>8, <3>3
    <3>. QED BY <2>2, <3>2, <3>4, <3>5 DEF Sound, CleanSound, WriteSound
  <2>. QED BY <2>3, <2>4, <2>7, <2>8
<1>. QED BY <1>2, <1>3 DEF RemainsInv

LEMMA RemainsScanDone == RemainsInv /\ ScanDone => RemainsInv'
<1>. SUFFICES ASSUME RemainsInv, ScanDone PROVE RemainsInv'
  OBVIOUS
<1>1. /\ UNCHANGED <<log, records, acked, cells, count, position, nextOffset>>
      /\ pc = "scan" /\ pc' = "idle" /\ position >= Len(log)
  BY DEF ScanDone, disk, index, object, history
<1>2. TypeInv' /\ Forgotten' /\ TypeInv
  BY <1>1, TypeScan DEF RemainsInv, Forgotten, Scan
<1>3. ASSUME Unburied' PROVE Sound'
  <2>1. Unburied /\ Sound
    BY <1>1, <1>3, LogKept DEF RemainsInv
  <2>2. /\ LogSound' /\ AckedSound' /\ Whole' = Whole /\ Indexed' = Indexed
        /\ EndAt(Whole)' = EndAt(Whole)
    <3>1. LogSound /\ AckedSound
      BY <2>1 DEF Sound
    <3>2. EndAt(Whole)' = EndAt(Whole)
      BY <1>1 DEF Whole, EndAt, EndOfRecord
    <3>. QED BY <1>1, <3>1, <3>2, LogKept, AckedKept
  <2>3. /\ Whole \in Nat /\ Len(log) \in Nat /\ count \in Nat /\ position \in Nat
        /\ IndexCap \in Nat /\ count <= IndexCap
        /\ \A i \in 0 .. Whole : EndAt(i) \in Nat
    BY <1>1, <1>2, RecordTypes, SizesNat DEF TypeInv, TypeOK
  <2>4. ASSUME count < Whole PROVE FALSE
    <3>1. position = EndAt(count)
      BY <1>1, <2>1, <2>3, <2>4 DEF Sound, ScanSound
    <3>2. PICK i \in 1 .. Whole : i = count + 1
      BY <2>3, <2>4
    <3>3. /\ EndAt(i) = EndAt(i - 1) + 2 + Len(records[i].payload)
          /\ EndAt(i) <= Len(log) /\ Len(records[i].payload) \in Nat
      BY <1>2, <2>1, RecordAt, RecordTypes DEF Sound
    <3>4. i - 1 = count
      BY <2>3, <3>2
    <3>. QED BY SMTT(40), <1>1, <2>3, <2>4, <3>1, <3>3, <3>4
  <2>5. EntriesSound' /\ ScanSound'
    BY <1>1, <2>1, <2>2 DEF Sound, EntriesSound, ScanSound
  <2>6. CleanSound'
    <3>1. ASSUME Len(log) = EndAt(Whole)
          PROVE  count = Whole /\ position = EndAt(Whole)
      BY <1>1, <2>1, <2>3, <2>4, <3>1 DEF Sound, ScanSound
    <3>2. ASSUME Len(log) = EndAt(Whole) PROVE count = Indexed
      BY <2>3, <3>1, <3>2 DEF Indexed
    <3>. QED BY <1>1, <2>2, <3>1, <3>2 DEF CleanSound
  <2>7. WriteSound'
    <3>1. count >= Indexed
      BY <2>3, <2>4 DEF Indexed
    <3>. QED BY <1>1, <2>2, <3>1 DEF WriteSound
  <2>. QED BY <2>2, <2>5, <2>6, <2>7 DEF Sound
<1>. QED BY <1>2, <1>3 DEF RemainsInv

LEMMA RemainsWrite ==
  ASSUME NEW p \in Payload, RemainsInv, Write(p) PROVE RemainsInv'
<1>1. /\ pc = "idle" /\ pc' = "payload" /\ position <= MaxSize
      /\ log' = log \o <<nextOffset, Len(p)>> /\ payload' = p
      /\ UNCHANGED <<cells, count, position, nextOffset, records, acked>>
  BY SizesNat DEF Write, IsFull, index, history, RemainsInv, TypeInv, TypeOK
<1>2. TypeInv' /\ Forgotten' /\ TypeInv
  BY <1>1, TypeWrite DEF RemainsInv, Forgotten
<1>3. nextOffset \in Int /\ Len(p) \in Nat
  BY <1>2, PayloadIsWords DEF TypeInv, TypeOK
<1>. DEFINE w == <<nextOffset, Len(p)>>
<1>4. w \in Seq(Int) /\ Len(w) = 2 /\ w[1] = nextOffset /\ w[2] = Len(p) /\ log' = log \o w
  BY <1>1, <1>3
<1>. HIDE DEF w
<1>5. ASSUME Unburied' PROVE Sound'
  <2>1. /\ Whole' = Whole /\ Indexed' = Indexed
        /\ Len(log') = Len(log) + 2
        /\ \A j \in 1 .. Len(w) : log'[Len(log) + j] = w[j]
        /\ Unburied
    BY <1>1, <1>2, <1>4, <1>5, LogGrows
  <2>2. Sound
    BY <2>1 DEF RemainsInv
  <2>3. /\ Whole \in Nat /\ Len(log) \in Nat /\ EndAt(Whole) \in Nat /\ EndAt(Whole) <= Len(log)
        /\ BaseOffset \in Nat /\ IndexCap \in Nat /\ count \in Nat
    BY SMTT(40), <1>2, <2>2, RecordTypes, SizesNat DEF Sound, LogSound, TypeInv, TypeOK
  <2>4. ASSUME Len(log) = EndAt(Whole)
        PROVE  count = Indexed /\ (count = Whole => position = EndAt(Whole))
    BY <1>1, <2>2, <2>4 DEF Sound, CleanSound
  <2>5. LogSound'
    <3>1. Len(log) = EndAt(Whole) /\ Whole < IndexCap => w[1] = BaseOffset + Whole
      BY <1>1, <1>4, <2>2, <2>4 DEF Sound, EntriesSound, Indexed
    <3>2. LogSound
      BY <2>2 DEF Sound
    <3>. QED BY <1>1, <1>2, <1>4, <3>1, <3>2, LogGrows
  <2>6. AckedSound'
    BY <1>1, <2>2, AckedKept DEF Sound
  <2>7. EntriesSound' /\ ScanSound'
    BY <1>1, <2>1, <2>2 DEF Sound, EntriesSound, ScanSound
  <2>8. EndAt(Whole)' = EndAt(Whole)
    BY <1>1 DEF Whole, EndAt, EndOfRecord
  <2>9. CleanSound'
    <3>1. Len(log') = EndAt(Whole) + 2 => Len(log) = EndAt(Whole)
      BY <2>1, <2>3
    <3>. QED BY <1>1, <2>1, <2>4, <2>8, <3>1 DEF CleanSound
  <2>10. WriteSound'
    <3>1. log'[Len(log')] = Len(p)
      BY <1>4, <2>1, <2>3
    <3>2. count >= Indexed
      BY <1>1, <2>2 DEF Sound, WriteSound
    <3>3. Len(log') >= EndAt(Whole) + 2
      BY <2>1, <2>3
    <3>. QED BY <1>1, <2>1, <2>8, <3>1, <3>2, <3>3 DEF WriteSound
  <2>. QED BY <2>5, <2>6, <2>7, <2>9, <2>10 DEF Sound
<1>. QED BY <1>2, <1>5 DEF RemainsInv

LEMMA RemainsShort == RemainsInv /\ (ShortHeader \/ ShortPayload) => RemainsInv'
<1>. SUFFICES ASSUME RemainsInv, ShortHeader \/ ShortPayload PROVE RemainsInv'
  OBVIOUS
<1>1. /\ pc \in {"idle", "payload"} /\ pc' = "idle"
      /\ UNCHANGED <<cells, count, position, nextOffset, records, acked>>
  BY DEF ShortHeader, ShortPayload, index, object, history
<1>2. TypeInv' /\ Forgotten' /\ TypeInv
  BY <1>1, TypeShort DEF RemainsInv, Forgotten
<1>3. PICK w \in Seq(Int) :
        /\ log' = log \o w
        /\ \/ pc = "idle" /\ Len(w) = 1 /\ w[1] = nextOffset
           \/ pc = "payload"
  <2>1. CASE ShortHeader
    <3>. DEFINE w == <<nextOffset>>
    <3>1. log' = Append(log, nextOffset) /\ pc = "idle"
      BY <2>1 DEF ShortHeader
    <3>2. log \in Seq(Int) /\ nextOffset \in Int
      BY <1>2 DEF TypeInv, TypeOK
    <3>3. Append(log, nextOffset) = log \o w
      BY <3>2
    <3>4. w \in Seq(Int) /\ Len(w) = 1 /\ w[1] = nextOffset
      BY <3>2
    <3>. QED BY <3>1, <3>3, <3>4
  <2>2. CASE ShortPayload
    <3>1. PICK n \in 0 .. Len(payload) - 1 : log' = log \o SubSeq(payload, 1, n)
      BY <2>2 DEF ShortPayload
    <3>2. payload \in Seq(Int)
      BY <1>2, PayloadIsWords DEF TypeInv, TypeOK
    <3>3. SubSeq(payload, 1, n) \in Seq(Int)
      BY <3>2
    <3>. QED BY <2>2, <3>1, <3>3 DEF ShortPayload
  <2>. QED BY <2>1, <2>2
<1>4. ASSUME Unburied' PROVE Sound'
  <2>1. /\ Whole' = Whole /\ Indexed' = Indexed
        /\ Len(log') = Len(log) + Len(w) /\ Len(w) \in Nat
        /\ Unburied
    BY SMTT(40), <1>1, <1>2, <1>3, <1>4, LogGrows
  <2>2. Sound
    BY <2>1 DEF RemainsInv
  <2>3. /\ Whole \in Nat /\ Len(log) \in Nat /\ EndAt(Whole) \in Nat /\ EndAt(Whole) <= Len(log)
        /\ BaseOffset \in Nat /\ IndexCap \in Nat /\ count \in Nat
    BY SMTT(40), <1>2, <2>2, RecordTypes, SizesNat DEF Sound, LogSound, TypeInv, TypeOK
  <2>4. pc = "payload" => Len(log) >= EndAt(Whole) + 2
    BY <2>2 DEF Sound, WriteSound
  <2>5. LogSound'
    <3>1. Len(log) = EndAt(Whole) /\ Whole < IndexCap => w[1] = BaseOffset + Whole
      <4>1. ASSUME Len(log) = EndAt(Whole), Whole < IndexCap PROVE w[1] = BaseOffset + Whole
        <5>1. pc = "idle" /\ w[1] = nextOffset
          BY <1>3, <2>3, <2>4, <4>1
        <5>2. count = Whole
          BY <2>2, <4>1, <5>1 DEF Sound, CleanSound, Indexed
        <5>. QED BY <2>2, <5>1, <5>2 DEF Sound, EntriesSound
      <4>. QED BY <4>1
    <3>2. LogSound
      BY <2>2 DEF Sound
    <3>. QED BY <1>1, <1>2, <1>3, <3>1, <3>2, LogGrows
  <2>6. AckedSound'
    BY <1>1, <2>2, AckedKept DEF Sound
  <2>7. EntriesSound' /\ ScanSound'
    BY <1>1, <2>1, <2>2 DEF Sound, EntriesSound, ScanSound
  <2>8. EndAt(Whole)' = EndAt(Whole)
    BY <1>1 DEF Whole, EndAt, EndOfRecord
  <2>9. Len(log') > EndAt(Whole)
    BY <1>3, <2>1, <2>3, <2>4
  <2>10. CleanSound'
    BY <1>1, <2>1, <2>3, <2>8, <2>9 DEF CleanSound
  <2>11. WriteSound'
    BY <1>1, <2>1, <2>2 DEF Sound, WriteSound
  <2>. QED BY <2>5, <2>6, <2>7, <2>10, <2>11 DEF Sound
<1>. QED BY <1>2, <1>4 DEF RemainsInv

\* The payload is written where the scan will look for it only if nothing came
\* before its header: the record follows the last.
LEMMA RemainsWritePayload == RemainsInv /\ WritePayload => RemainsInv'
<1>. SUFFICES ASSUME RemainsInv, WritePayload PROVE RemainsInv'
  OBVIOUS
<1>. DEFINE r == [pos |-> Len(log) - 2, payload |-> payload]
<1>1. /\ pc = "payload" /\ pc' = "index" /\ log' = log \o payload
      /\ records' = Append(records, r)
      /\ UNCHANGED <<cells, count, position, nextOffset, payload, acked>>
  BY DEF WritePayload, index, object
<1>2. TypeInv' /\ Forgotten' /\ TypeInv
  BY <1>1, TypeWritePayload DEF RemainsInv, Forgotten
<1>3. payload \in Seq(Int) /\ Len(payload) \in Nat /\ Len(log) >= 2 /\ Len(log) \in Nat
  BY <1>1, <1>2, PayloadIsWords DEF TypeInv, TypeOK
<1>4. /\ Whole \in Nat /\ EndAt(Whole) \in Nat
      /\ \A j \in 1 .. Len(log) : log[j] \in Int
      /\ BaseOffset \in Nat /\ IndexCap \in Nat /\ count \in Nat /\ MaxSize \in Nat
  BY SMTT(40), <1>2, RecordTypes, SizesNat DEF TypeInv, TypeOK
<1>5. r.pos = Len(log) - 2 /\ r.payload = payload
  OBVIOUS
<1>. HIDE DEF r
<1>6. /\ Len(log') = Len(log) + Len(payload)
      /\ \A j \in 1 .. Len(log) : log'[j] = log[j]
      /\ \A j \in 1 .. Len(payload) : log'[Len(log) + j] = payload[j]
  BY <1>1, <1>3 DEF TypeInv, TypeOK
<1>7. /\ Whole' = Whole + 1
      /\ \A i \in 1 .. Whole : records'[i] = records[i]
      /\ records'[Whole + 1] = r
  <2>1. records \in Seq([pos : Nat, payload : Payload])
    BY <1>2 DEF TypeInv, TypeOK
  <2>. QED BY <1>1, <2>1 DEF Whole
<1>8. ASSUME NEW i \in 0 .. Whole PROVE EndAt(i)' = EndAt(i)
  BY <1>4, <1>7 DEF EndAt, EndOfRecord
<1>9. PICK n \in Nat : n = Whole + 1
  BY <1>4
<1>10. Whole' = n /\ records'[n] = r
  BY <1>7, <1>9
<1>11. EndAt(n)' = Len(log') /\ EndAt(n - 1)' = EndAt(Whole)
  <2>1. EndAt(n)' = r.pos + 2 + Len(r.payload)
    BY <1>4, <1>9, <1>10 DEF EndAt, EndOfRecord
  <2>2. EndAt(n - 1)' = EndAt(Whole)
    BY <1>4, <1>8, <1>9
  <2>. QED BY <1>3, <1>5, <1>6, <2>1, <2>2
<1>12. ASSUME Unburied' PROVE Sound'
  <2>1. \A i \in 1 .. n : records'[i].pos = EndAt(i - 1)'
    BY <1>10, <1>12 DEF Unburied, Whole
  <2>2. Len(log) = EndAt(Whole) + 2
    <3>1. r.pos = EndAt(Whole)
      BY <1>4, <1>9, <1>10, <1>11, <2>1
    <3>. QED BY <1>3, <1>4, <1>5, <3>1
  <2>3. Unburied
    <3>1. ASSUME NEW i \in 1 .. Whole PROVE records[i].pos = EndAt(i - 1)
      <4>1. i \in 1 .. n /\ i - 1 \in 0 .. Whole
        BY <1>4, <1>9
      <4>2. EndAt(i - 1)' = EndAt(i - 1)
        BY <1>8, <4>1
      <4>. QED BY <1>7, <2>1, <4>1, <4>2
    <3>2. Len(log) <= EndAt(Whole) + 2 + log[EndAt(Whole) + 2]
      <4>1. PICK s \in Int : s = log[EndAt(Whole) + 2]
        BY <1>3, <1>4, <2>2
      <4>2. s = Len(payload)
        BY <1>1, <1>2, <1>3, <1>4, <2>2, <4>1 DEF TypeInv
      <4>. QED BY <1>3, <1>4, <2>2, <4>1, <4>2
    <3>. QED BY <3>1, <3>2, UnburiedMeans
  <2>4. Sound
    BY <2>3 DEF RemainsInv
  <2>5. count = Indexed /\ (count = Whole => position = EndAt(Whole))
    BY <1>1, <2>2, <2>4 DEF Sound, CleanSound
  <2>6. /\ position <= MaxSize
        /\ log[Len(log)] = Len(payload)
    BY <1>1, <2>4 DEF Sound, WriteSound
  <2>7. LogSound'
    <3>1. LogSound
      BY <2>4 DEF Sound
    <3>2. ASSUME NEW i \in 0 .. n PROVE EndAt(i)' <= Len(log') /\ 2 * i <= EndAt(i)'
      <4>1. CASE i = n
        <5>1. Whole \in 0 .. Whole
          BY <1>4
        <5>2. 2 * Whole <= EndAt(Whole)
          BY <3>1, <5>1 DEF LogSound
        <5>. QED BY <1>3, <1>4, <1>6, <1>9, <1>11, <2>2, <4>1, <5>2
      <4>2. CASE i # n
        <5>1. i \in 0 .. Whole
          BY <1>4, <1>9, <4>2
        <5>2. EndAt(i) <= Len(log) /\ 2 * i <= EndAt(i) /\ EndAt(i) \in Nat
          BY <1>2, <3>1, <5>1, RecordTypes DEF LogSound
        <5>3. EndAt(i)' = EndAt(i)
          BY <1>8, <5>1
        <5>. QED BY <1>3, <1>6, <5>2, <5>3
      <4>. QED BY <4>1, <4>2
    <3>3. ASSUME NEW i \in 1 .. n
          PROVE  LET q == records'[i]
                 IN /\ log'[q.pos + Header] = Len(q.payload)
                    /\ \A j \in 1 .. Len(q.payload) : log'[q.pos + Header + j] = q.payload[j]
                    /\ i <= IndexCap => log'[q.pos + 1] = BaseOffset + i - 1 /\ q.pos <= MaxSize
      <4>1. CASE i = n
        <5>1. log'[r.pos + 2] = Len(payload)
          BY <1>3, <1>5, <1>6, <2>6
        <5>2. \A j \in 1 .. Len(payload) : log'[r.pos + 2 + j] = payload[j]
          <6>1. r.pos + 2 = Len(log)
            BY <1>3, <1>5
          <6>. QED BY <1>6, <6>1
        <5>3. ASSUME n <= IndexCap
              PROVE  log'[r.pos + 1] = BaseOffset + n - 1 /\ r.pos <= MaxSize
          <6>1. r.pos = EndAt(Whole)
            BY <1>4, <1>5, <2>2
          <6>2. count = Whole /\ Whole < IndexCap
            BY <1>4, <1>9, <2>5, <5>3 DEF Indexed
          <6>3. r.pos <= MaxSize
            BY <2>5, <2>6, <6>1, <6>2
          <6>4. log[EndAt(Whole) + 1] = BaseOffset + Whole
            BY <1>4, <2>2, <3>1, <6>2 DEF LogSound
          <6>5. log'[EndAt(Whole) + 1] = log[EndAt(Whole) + 1]
            BY <1>4, <1>6, <2>2
          <6>6. BaseOffset + n - 1 = BaseOffset + Whole
            BY <1>4, <1>9
          <6>. QED BY <6>1, <6>3, <6>4, <6>5, <6>6
        <5>. QED BY <1>5, <1>10, <4>1, <5>1, <5>2, <5>3
      <4>2. CASE i # n
        <5>1. i \in 1 .. Whole /\ i \in 0 .. Whole
          BY <1>4, <1>9, <4>2
        <5>. DEFINE q == records[i]
        <5>2. /\ log[q.pos + Header] = Len(q.payload)
              /\ \A j \in 1 .. Len(q.payload) : log[q.pos + Header + j] = q.payload[j]
              /\ i <= IndexCap => log[q.pos + 1] = BaseOffset + i - 1 /\ q.pos <= MaxSize
          BY <3>1, <5>1 DEF LogSound
        <5>3. /\ q.pos \in Nat /\ Len(q.payload) \in Nat
              /\ q.pos + 2 + Len(q.payload) <= Len(log)
          BY <1>2, <3>1, <5>1, RecordTypes DEF LogSound
        <5>4. q = records'[i]
          BY <1>7, <5>1
        <5>. HIDE DEF q
        <5>. DEFINE b == q.pos
                    l == Len(q.payload)
        <5>. HIDE DEF b, l
        <5>5. b \in Nat /\ l \in Nat /\ b + 2 + l <= Len(log)
          BY <5>3 DEF b, l
        <5>6. log'[b + 2] = log[b + 2] /\ log'[b + 1] = log[b + 1]
          <6>1. b + 2 \in 1 .. Len(log) /\ b + 1 \in 1 .. Len(log)
            BY <1>3, <5>5
          <6>. QED BY <1>6, <6>1
        <5>7. ASSUME NEW j \in 1 .. l PROVE log'[b + 2 + j] = log[b + 2 + j]
          <6>1. b + 2 + j \in 1 .. Len(log)
            BY <1>3, <5>5
          <6>. QED BY <1>6, <6>1
        <5>8. /\ log'[q.pos + 2] = log[q.pos + 2] /\ log'[q.pos + 1] = log[q.pos + 1]
              /\ \A j \in 1 .. Len(q.payload) : log'[q.pos + 2 + j] = log[q.pos + 2 + j]
          BY <5>6, <5>7 DEF b, l
        <5>9. /\ log'[q.pos + Header] = Len(q.payload)
              /\ \A j \in 1 .. Len(q.payload) : log'[q.pos + Header + j] = q.payload[j]
              /\ i <= IndexCap => log'[q.pos + 1] = BaseOffset + i - 1 /\ q.pos <= MaxSize
          BY <5>2, <5>8
        <5>. QED BY <5>4, <5>9
      <4>. QED BY <4>1, <4>2
    <3>4. ~ (Len(log') > EndAt(n)')
      BY <1>3, <1>6, <1>11
    <3>. QED BY <1>10, <3>2, <3>3, <3>4 DEF LogSound
  <2>8. AckedSound'
    <3>1. ASSUME NEW a \in acked
          PROVE  \E i \in 1 .. n : /\ i <= IndexCap
                                   /\ a.offset = BaseOffset + i - 1
                                   /\ a.payload = records'[i].payload
      <4>1. PICK i \in 1 .. Whole : /\ i <= IndexCap
                                    /\ a.offset = BaseOffset + i - 1
                                    /\ a.payload = records[i].payload
        BY <2>4 DEF Sound, AckedSound
      <4>2. i \in 1 .. n
        BY <1>4, <1>9
      <4>. QED BY <1>7, <4>1, <4>2
    <3>. QED BY <1>1, <1>10, <3>1 DEF AckedSound
  <2>9. EntriesSound'
    <3>1. /\ nextOffset = BaseOffset + count
          /\ \A k \in 0 .. count - 1 :
               cells[k].off = k /\ (k < Whole => cells[k].pos = records[k + 1].pos)
      BY <1>1, <2>4 DEF Sound, EntriesSound
    <3>2. ASSUME NEW k \in 0 .. count - 1 PROVE cells[k].pos = records'[k + 1].pos
      <4>1. k < Whole /\ k + 1 \in 1 .. Whole
        BY <1>4, <2>5 DEF Indexed
      <4>. QED BY <1>7, <3>1, <4>1
    <3>. QED BY <1>1, <3>1, <3>2 DEF EntriesSound
  <2>10. ScanSound' /\ CleanSound'
    BY <1>1 DEF ScanSound, CleanSound
  <2>11. WriteSound'
    <3>1. n >= 1 /\ n - 1 = Whole
      BY <1>4, <1>9
    <3>2. IF n - 1 < IndexCap THEN count = n - 1 /\ position = records'[n].pos
                              ELSE count = IndexCap
      <4>1. r.pos = EndAt(Whole)
        BY <1>4, <1>5, <2>2
      <4>. QED BY <1>4, <1>10, <2>5, <3>1, <4>1 DEF Indexed
    <3>. QED BY <1>1, <1>5, <1>10, <1>11, <2>6, <3>1, <3>2 DEF WriteSound
  <2>. QED BY <2>7, <2>8, <2>9, <2>10, <2>11 DEF Sound
<1>. QED BY <1>2, <1>12 DEF RemainsInv

LEMMA RemainsWriteIndex ==
  ASSUME MaxSize < HalfWord, RemainsInv, WriteIndex \/ WriteOverflow PROVE RemainsInv'
<1>1. /\ pc = "index" /\ pc' = "idle" /\ UNCHANGED <<log, records>>
      /\ \/ /\ count < IndexCap
            /\ cells' = WithEntry(count, nextOffset, position)
            /\ count' = count + 1 /\ nextOffset' = nextOffset + 1
            /\ position' = position + 2 + Len(payload)
            /\ acked' = acked \cup {[offset |-> nextOffset, payload |-> payload]}
         \/ /\ count = IndexCap
            /\ UNCHANGED <<cells, count, nextOffset, position, acked>>
  BY DEF WriteIndex, WriteOverflow, disk, index, history
<1>2. TypeInv' /\ Forgotten' /\ TypeInv
  BY <1>1, TypeWriteIndex DEF RemainsInv, Forgotten
<1>3. /\ Whole \in Nat /\ Len(log) \in Nat /\ count \in Nat /\ position \in Int
      /\ nextOffset \in Int
      /\ IndexCap \in Nat /\ BaseOffset \in Nat /\ MaxSize \in Nat /\ HalfWord \in Nat
  BY <1>2, RecordTypes, SizesNat DEF TypeInv, TypeOK
<1>4. ASSUME Unburied' PROVE Sound'
  <2>1. Unburied /\ Sound
    BY <1>1, <1>4, LogKept DEF RemainsInv
  <2>2. LogSound' /\ Whole' = Whole /\ Indexed' = Indexed /\ EndAt(Whole)' = EndAt(Whole)
    <3>1. EndAt(Whole)' = EndAt(Whole)
      BY <1>1 DEF Whole, EndAt, EndOfRecord
    <3>. QED BY <1>1, <2>1, <3>1, LogKept DEF Sound
  <2>3. /\ Whole >= 1 /\ Len(log) = EndAt(Whole)
        /\ records[Whole].payload = payload /\ position <= MaxSize
        /\ IF Whole - 1 < IndexCap THEN count = Whole - 1 /\ position = records[Whole].pos
                                   ELSE count = IndexCap
    BY <1>1, <2>1 DEF Sound, WriteSound
  <2>4. EntriesSound /\ nextOffset = BaseOffset + count
    BY <1>1, <2>1 DEF Sound, EntriesSound
  <2>5. ScanSound'
    BY <1>1 DEF ScanSound
  <2>6. CASE count < IndexCap
    <3>1. /\ cells' = WithEntry(count, nextOffset, position)
          /\ count' = count + 1 /\ nextOffset' = nextOffset + 1
          /\ position' = position + 2 + Len(payload)
          /\ acked' = acked \cup {[offset |-> nextOffset, payload |-> payload]}
      BY <1>1, <1>3, <2>6
    <3>2. Whole <= IndexCap /\ count = Whole - 1 /\ position = records[Whole].pos
      BY <1>3, <2>3, <2>6
    <3>3. count + 1 = Whole
      BY <1>3, <3>2
    <3>4. EntriesSound'
      <4>1. position = records[count + 1].pos /\ position < HalfWord
        BY <1>3, <2>3, <3>2, <3>3
      <4>. QED BY <1>1, <1>2, <1>3, <2>4, <2>6, <3>1, <4>1, EntryMade
    <3>5. AckedSound'
      <4>1. ASSUME NEW a \in acked'
            PROVE  \E i \in 1 .. Whole : /\ i <= IndexCap
                                         /\ a.offset = BaseOffset + i - 1
                                         /\ a.payload = records[i].payload
        <5>1. CASE a \in acked
          BY <2>1, <5>1 DEF Sound, AckedSound
        <5>2. CASE a = [offset |-> nextOffset, payload |-> payload]
          <6>1. a.offset = nextOffset /\ a.payload = payload
            BY <5>2
          <6>2. Whole \in 1 .. Whole /\ nextOffset = BaseOffset + Whole - 1
            BY <1>3, <2>3, <2>4, <3>2
          <6>. QED BY <2>3, <3>2, <6>1, <6>2
        <5>. QED BY <3>1, <5>1, <5>2
      <4>. QED BY <1>1, <2>2, <4>1 DEF AckedSound
    <3>6. count' = Whole /\ count' = Indexed
      BY <1>3, <3>1, <3>2, <3>3 DEF Indexed
    <3>7. position' = EndAt(Whole)
      <4>1. Whole \in 1 .. Whole
        BY <1>3, <2>3
      <4>2. EndAt(Whole) = records[Whole].pos + 2 + Len(records[Whole].payload)
        BY <1>2, <4>1, RecordTypes
      <4>. QED BY <2>3, <3>1, <3>2, <4>2
    <3>8. CleanSound'
      BY <1>1, <2>2, <3>6, <3>7 DEF CleanSound
    <3>9. WriteSound'
      <4>1. count' >= Indexed
        BY <1>3, <3>1, <3>6
      <4>. QED BY <1>1, <2>2, <4>1 DEF WriteSound
    <3>. QED BY <2>2, <2>5, <3>4, <3>5, <3>8, <3>9 DEF Sound
  <2>7. CASE count = IndexCap
    <3>1. UNCHANGED <<cells, count, nextOffset, position, acked>>
      BY <1>1, <1>3, <2>7
    <3>2. Whole > IndexCap
      BY <1>3, <2>3, <2>7
    <3>3. count = Indexed /\ count # Whole
      BY <1>3, <2>7, <3>2 DEF Indexed
    <3>4. AckedSound'
      BY <1>1, <2>1, <3>1, AckedKept DEF Sound
    <3>5. EntriesSound'
      BY <1>1, <2>2, <2>4, <3>1 DEF EntriesSound
    <3>6. CleanSound' /\ WriteSound'
      BY <1>1, <1>3, <2>2, <3>1, <3>3 DEF CleanSound, WriteSound
    <3>. QED BY <2>2, <2>5, <3>4, <3>5, <3>6 DEF Sound
  <2>. QED BY <1>1, <2>6, <2>7
<1>. QED BY <1>2, <1>4 DEF RemainsInv

LEMMA RemainsNext == ASSUME MaxSize < HalfWord, RemainsInv, [Next]_vars PROVE RemainsInv'
<1>1. CASE Next
  BY <1>1, RemainsOpen, RemainsScanRecord, RemainsScanDone, RemainsEnd, RemainsWrite,
     RemainsWritePayload, RemainsWriteIndex, RemainsShort DEF Next, Scan
<1>2. CASE UNCHANGED vars
  <2>1. UNCHANGED <<log, cells, pc, count, position, nextOffset, payload, records, acked>>
    BY <1>2 DEF vars, disk, index, object, history
  <2>2. TypeInv' /\ Forgotten'
    BY <1>2, <2>1, TypeNext DEF RemainsInv, Forgotten
  <2>3. ASSUME Unburied' PROVE Sound'
    <3>1. Unburied /\ Sound
      BY <2>1, <2>3, LogKept DEF RemainsInv
    <3>2. LogSound' /\ AckedSound' /\ EntriesSound'
      BY <2>1, <3>1, LogKept, AckedKept DEF Sound, EntriesSound
    <3>3. /\ Whole' = Whole /\ Indexed' = Indexed /\ EndAt(Whole)' = EndAt(Whole)
          /\ EndAt(count)' = EndAt(count)
      BY <2>1 DEF Whole, Indexed, EndAt, EndOfRecord
    <3>4. ScanSound' /\ CleanSound' /\ WriteSound'
      BY <2>1, <3>1, <3>3 DEF Sound, ScanSound, CleanSound, WriteSound
    <3>. QED BY <3>2, <3>4 DEF Sound
  <2>. QED BY <2>2, <2>3 DEF RemainsInv
<1>. QED BY <1>1, <1>2

\* Whatever faults, kills and reopenings came between, an object that serves a log
\* whose remains are not buried knows every record the index has room for.
THEOREM RemainsInvariance == ASSUME MaxSize < HalfWord PROVE Spec => []RemainsInv
BY RemainsInit, RemainsNext, PTL DEF Spec

-----------------------------------------------------------------------------
(* The recursive function inside FindEntry                                 *)

Ranges == (0 .. SearchEnd + 1) \X (-1 .. SearchEnd)

Mid(r) == (r[1] + r[2]) \div 2

Probe(o, g, r) ==
  IF r[1] > r[2] \/ IndexRead(Mid(r)) = {} THEN {}
  ELSE IF cells[Mid(r)].off = o THEN IndexRead(Mid(r))
  ELSE IF cells[Mid(r)].off > o THEN g[<<r[1], Mid(r) - 1>>]
  ELSE g[<<Mid(r) + 1, r[2]>>]

IsSearch(o, g) == g = [r \in Ranges |-> Probe(o, g, r)]

\* A range that is not empty is cut at its middle into shorter ones.
LEMMA RangesCut ==
  ASSUME SearchEnd \in Nat, NEW r \in Ranges, r[1] <= r[2]
  PROVE  /\ Mid(r) \in 0 .. SearchEnd /\ r[1] <= Mid(r) /\ Mid(r) <= r[2]
         /\ <<r[1], Mid(r) - 1>> \in Ranges
         /\ <<Mid(r) + 1, r[2]>> \in Ranges
<1>1. r[1] \in 0 .. SearchEnd + 1 /\ r[2] \in -1 .. SearchEnd
  BY DEF Ranges
<1>2. PICK b \in Nat, e \in Nat : b = r[1] /\ e = r[2] /\ b <= e /\ e <= SearchEnd
  BY <1>1
<1>3. (b + e) \div 2 \in b .. e
  BY <1>2
<1>4. PICK m \in Nat : m = Mid(r) /\ b <= m /\ m <= e
  BY <1>2, <1>3 DEF Mid
<1>5. b \in 0 .. SearchEnd + 1 /\ m - 1 \in -1 .. SearchEnd
  BY <1>2, <1>4
<1>6. m + 1 \in 0 .. SearchEnd + 1 /\ e \in -1 .. SearchEnd
  BY <1>2, <1>4
<1>. QED BY <1>2, <1>4, <1>5, <1>6 DEF Ranges

LEMMA SearchExists ==
  ASSUME SearchEnd \in Nat, NEW o
  PROVE  \E g : IsSearch(o, g)
<1>. DEFINE UpTo(g, n) == \A r \in Ranges : r[2] + 1 - r[1] <= n => g[r] = Probe(o, g, r)
            Q(n) == \E g : g = [r \in Ranges |-> g[r]] /\ UpTo(g, n)
            Bad == {n \in Nat : ~ Q(n)}
<1>1. \A r \in Ranges : r[1] \in Nat /\ r[2] \in Int /\ r[2] + 1 - r[1] <= SearchEnd + 1
  BY DEF Ranges
<1>2. Q(0)
  <2>. DEFINE g == [r \in Ranges |-> {}]
  <2>1. \A r \in Ranges : r[2] + 1 - r[1] <= 0 => r[1] > r[2]
    BY <1>1
  <2>2. UpTo(g, 0)
    BY <2>1 DEF Probe
  <2>3. g = [r \in Ranges |-> g[r]]
    OBVIOUS
  <2>. QED BY <2>2, <2>3
<1>3. ASSUME NEW n \in Nat, Q(n) PROVE Q(n + 1)
  <2>1. PICK g : UpTo(g, n)
    BY <1>3
  <2>. DEFINE h == [r \in Ranges |-> Probe(o, g, r)]
  <2>2. \A r \in Ranges : r[2] + 1 - r[1] <= n => h[r] = g[r]
    BY <2>1
  <2>3. ASSUME NEW r \in Ranges, r[2] + 1 - r[1] <= n + 1 PROVE h[r] = Probe(o, h, r)
    <3>1. h[r] = Probe(o, g, r)
      OBVIOUS
    <3>. HIDE DEF h
    <3>2. CASE r[1] > r[2]
      BY <3>1, <3>2 DEF Probe
    <3>3. CASE r[1] <= r[2]
      <4>1. PICK m \in 0 .. SearchEnd : m = Mid(r) /\ r[1] <= m /\ m <= r[2]
        BY <3>3, RangesCut
      <4>2. <<r[1], m - 1>> \in Ranges /\ <<m + 1, r[2]>> \in Ranges
        BY <3>3, <4>1, RangesCut
      <4>3. (m - 1) + 1 - r[1] <= n /\ r[2] + 1 - (m + 1) <= n
        BY <1>1, <2>3, <4>1
      <4>4. h[<<r[1], m - 1>>] = g[<<r[1], m - 1>>]
        BY <2>2, <4>2, <4>3
      <4>5. h[<<m + 1, r[2]>>] = g[<<m + 1, r[2]>>]
        BY <2>2, <4>2, <4>3
      <4>. QED BY <3>1, <4>1, <4>4, <4>5 DEF Probe
    <3>. QED BY <1>1, <3>2, <3>3
  <2>4. h = [r \in Ranges |-> h[r]]
    OBVIOUS
  <2>. HIDE DEF h
  <2>. QED BY <2>3, <2>4
<1>. HIDE DEF Q
<1>4. Bad = {}
  <2>. SUFFICES ASSUME Bad # {} PROVE FALSE
    OBVIOUS
  <2>1. PICK n \in Bad : \A m \in Bad : n <= m
    BY LeastNatural
  <2>2. n # 0 /\ n \in Nat
    BY <1>2
  <2>3. n - 1 \in Nat /\ n - 1 \notin Bad /\ (n - 1) + 1 = n
    BY <2>1, <2>2
  <2>. QED BY <2>3, <1>3
<1>5. Q(SearchEnd + 1)
  BY <1>4
<1>6. PICK g : g = [r \in Ranges |-> g[r]] /\ UpTo(g, SearchEnd + 1)
  BY <1>5 DEF Q
<1>7. \A r \in Ranges : g[r] = Probe(o, g, r)
  BY <1>1, <1>6
<1>8. g = [r \in Ranges |-> Probe(o, g, r)]
  BY <1>6, <1>7
<1>. QED BY <1>8 DEF IsSearch

\* An index that holds at every place the offset of that place is searched right.
LEMMA FindsEntry ==
  ASSUME SearchEnd \in Nat, 0 .. SearchEnd \subseteq DOMAIN cells,
         \A k \in 0 .. SearchEnd : cells[k].off = k,
         NEW o \in 0 .. SearchEnd
  PROVE  FindEntry(o) = {cells[o]}
<1>. DEFINE g == CHOOSE g : IsSearch(o, g)
<1>1. IsSearch(o, g)
  BY SearchExists
<1>2. FindEntry(o) = g[<<0, SearchEnd>>]
  <2>1. FindEntry(o) = IF SearchEnd < 0 THEN {} ELSE g[<<0, SearchEnd>>]
    BY DEF FindEntry, IsSearch, Probe, Mid, Ranges
  <2>. QED BY <2>1
<1>. HIDE DEF g
<1>3. \A r \in Ranges : g[r] = Probe(o, g, r)
  BY <1>1 DEF IsSearch
<1>. DEFINE Around == {r \in Ranges : r[1] <= o /\ o <= r[2]}
            Bad == {r \in Around : g[r] # {cells[o]}}
            Sizes == {r[2] - r[1] : r \in Bad}
<1>4. \A r \in Around : r[1] \in Nat /\ r[2] \in Nat /\ r[1] <= r[2]
  BY DEF Ranges
<1>5. Bad = {}
  <2>. SUFFICES ASSUME Bad # {} PROVE FALSE
    OBVIOUS
  <2>1. Sizes \subseteq Nat /\ Sizes # {}
    BY <1>4
  <2>2. PICK n \in Sizes : \A m \in Sizes : n <= m
    BY <2>1, LeastNatural
  <2>3. PICK r \in Bad : n = r[2] - r[1]
    BY <2>2
  <2>4. r \in Ranges /\ r[1] \in Nat /\ r[2] \in Nat /\ r[1] <= o /\ o <= r[2] /\ r[1] <= r[2]
    BY <1>4, <2>3
  <2>5. PICK m \in 0 .. SearchEnd : m = Mid(r) /\ r[1] <= m /\ m <= r[2]
    BY <2>4, RangesCut
  <2>6. <<r[1], m - 1>> \in Ranges /\ <<m + 1, r[2]>> \in Ranges
    BY <2>4, <2>5, RangesCut
  <2>7. IndexRead(m) = {cells[m]} /\ IndexRead(m) # {} /\ cells[m].off = m
    BY <2>5 DEF IndexRead
  <2>8. g[r] = IF m = o THEN {cells[m]}
               ELSE IF m > o THEN g[<<r[1], m - 1>>] ELSE g[<<m + 1, r[2]>>]
    <3>1. g[r] = Probe(o, g, r) /\ ~ (r[1] > r[2])
      BY <1>3, <2>4
    <3>. QED BY <2>5, <2>7, <3>1 DEF Probe
  <2>9. g[r] # {cells[o]}
    BY <2>3
  <2>10. m # o
    BY <2>8, <2>9
  <2>11. CASE m > o
    <3>1. <<r[1], m - 1>> \in Bad
      BY <2>4, <2>5, <2>6, <2>8, <2>9, <2>11
    <3>2. (m - 1) - r[1] \in Sizes
      BY <3>1
    <3>3. n <= (m - 1) - r[1] /\ n = r[2] - r[1]
      BY <2>2, <2>3, <3>2
    <3>. QED BY <2>4, <2>5, <3>3
  <2>12. CASE m < o
    <3>1. <<m + 1, r[2]>> \in Bad
      BY <2>4, <2>5, <2>6, <2>8, <2>9, <2>12
    <3>2. r[2] - (m + 1) \in Sizes
      BY <3>1
    <3>3. n <= r[2] - (m + 1) /\ n = r[2] - r[1]
      BY <2>2, <2>3, <3>2
    <3>. QED BY <2>4, <2>5, <3>3
  <2>. QED BY <2>5, <2>10, <2>11, <2>12
<1>6. <<0, SearchEnd>> \in Around
  BY DEF Ranges
<1>. QED BY <1>2, <1>5, <1>6

LEMMA PayloadInLog ==
  ASSUME TypeInv, LogSound, NEW i \in 1 .. Whole
  PROVE  LET r == records[i]
         IN SubSeq(log, r.pos + 2 + 1, r.pos + 2 + Len(r.payload)) = r.payload
<1>. DEFINE p == records[i].pos
            w == records[i].payload
<1>1. /\ p \in Nat /\ w \in Seq(Int) /\ Len(w) \in Nat /\ Len(log) \in Nat
      /\ EndAt(i) = p + 2 + Len(w) /\ log \in Seq(Int)
  BY RecordTypes DEF TypeInv, TypeOK
<1>2. log[p + 2] = Len(w) /\ \A j \in 1 .. Len(w) : log[p + 2 + j] = w[j]
  BY DEF LogSound
<1>3. EndAt(i) <= Len(log)
  <2>1. i \in 0 .. Whole
    BY RecordTypes
  <2>. QED BY <2>1 DEF LogSound
<1>. HIDE DEF p, w
<1>4. SubSeq(log, p + 2 + 1, p + 2 + Len(w)) = w
  <2>. DEFINE s == SubSeq(log, p + 2 + 1, p + 2 + Len(w))
  <2>1. s \in Seq(Int) /\ Len(s) = Len(w) /\ \A j \in 1 .. Len(w) : s[j] = log[p + 2 + j]
    <3>. DEFINE b == p + 2
                l == Len(w)
    <3>1. b \in Nat /\ l \in Nat /\ b + l <= Len(log)
      BY <1>1, <1>3
    <3>. HIDE DEF b, l
    <3>2. SubSeq(log, b + 1, b + l) = [j \in 1 .. l |-> log[b + j]]
      BY <1>1, <3>1
    <3>3. \A j \in 1 .. l : log[b + j] \in Int
      BY <1>1, <3>1
    <3>4. [j \in 1 .. l |-> log[b + j]] \in Seq(Int)
      BY <3>1, <3>3
    <3>5. /\ Len([j \in 1 .. l |-> log[b + j]]) = l
          /\ \A j \in 1 .. l : [k \in 1 .. l |-> log[b + k]][j] = log[b + j]
      BY <3>1
    <3>6. /\ SubSeq(log, b + 1, b + l) \in Seq(Int)
          /\ Len(SubSeq(log, b + 1, b + l)) = l
          /\ \A j \in 1 .. l : SubSeq(log, b + 1, b + l)[j] = log[b + j]
      BY <3>2, <3>4, <3>5
    <3>. QED BY <3>6 DEF b, l
  <2>. HIDE DEF s
  <2>2. \A j \in 1 .. Len(w) : s[j] = w[j]
    BY <1>2, <2>1
  <2>3. s = w
    <3>1. PICK l \in Nat : l = Len(w)
      BY <1>1
    <3>2. s = [j \in 1 .. l |-> s[j]] /\ w = [j \in 1 .. l |-> w[j]]
      BY <1>1, <2>1, <3>1
    <3>. QED BY <2>2, <3>1, <3>2
  <2>. QED BY <2>3 DEF s
<1>. QED BY <1>4 DEF p, w

\* A record the log holds is read back through an entry with its position.
LEMMA ReadsBack ==
  ASSUME TypeInv, LogSound, NEW i \in 1 .. Whole, NEW o, i <= IndexCap,
         FindEntry(o) = {cells[o]}, cells[o].pos = records[i].pos
  PROVE  ReadAt(o) = {records[i].payload}
<1>. DEFINE c == cells[o]
            p == records[i].pos
            w == records[i].payload
<1>1. /\ p \in Nat /\ w \in Seq(Int) /\ Len(w) \in Nat /\ Len(log) \in Nat
      /\ EndAt(i) = p + 2 + Len(w) /\ log \in Seq(Int)
  BY RecordTypes DEF TypeInv, TypeOK
<1>2. log[p + 2] = Len(w) /\ \A j \in 1 .. Len(w) : log[p + 2 + j] = w[j]
  BY DEF LogSound
<1>3. EndAt(i) <= Len(log)
  <2>1. i \in 0 .. Whole
    BY RecordTypes
  <2>. QED BY <2>1 DEF LogSound
<1>4. c.pos = p /\ FindEntry(o) = {c}
  OBVIOUS
<1>0. log[p + 1] = BaseOffset + i - 1 /\ BaseOffset \in Nat /\ i \in Nat /\ i >= 1
  BY RecordTypes, SizesNat DEF LogSound
<1>. HIDE DEF c, p, w
<1>5. {f \in FindEntry(o) : /\ f.pos >= 0 /\ f.pos + Header <= Len(log)
                            /\ log[f.pos + 1] >= 0 /\ log[f.pos + Header] >= 0
                            /\ f.pos + Header + log[f.pos + Header] <= Len(log)} = {c}
  <2>1. c.pos >= 0 /\ c.pos + 2 <= Len(log) /\ c.pos + 2 + log[c.pos + 2] <= Len(log)
    BY <1>1, <1>2, <1>3, <1>4
  <2>2. log[c.pos + 1] >= 0 /\ log[c.pos + 2] >= 0
    BY <1>0, <1>1, <1>2, <1>4
  <2>. QED BY <1>4, <2>1, <2>2
<1>6. ReadAt(o) = {SubSeq(log, c.pos + Header + 1, c.pos + Header + log[c.pos + Header])}
  BY <1>5 DEF ReadAt
<1>7. ReadAt(o) = {SubSeq(log, p + 2 + 1, p + 2 + Len(w))}
  BY <1>2, <1>4, <1>6
<1>8. SubSeq(log, p + 2 + 1, p + 2 + Len(w)) = w
  BY PayloadInLog DEF p, w
<1>. QED BY <1>7, <1>8 DEF w

LEMMA RemainsRead == RemainsInv => RemainsHarmless
<1>. SUFFICES ASSUME RemainsInv, Unburied, pc = "idle", NEW a \in acked
              PROVE  ReadAt(a.offset - BaseOffset) = {a.payload}
  BY DEF RemainsHarmless, AckedReadable
<1>1. TypeInv /\ Sound
  BY DEF RemainsInv
<1>2. PICK i \in 1 .. Whole : /\ i <= IndexCap
                              /\ a.offset = BaseOffset + i - 1
                              /\ a.payload = records[i].payload
  BY <1>1 DEF Sound, AckedSound
<1>3. /\ Whole \in Nat /\ IndexCap \in Nat /\ BaseOffset \in Nat
      /\ count \in Nat /\ count <= IndexCap /\ DOMAIN cells = 0 .. IndexCap - 1
      /\ nextOffset \in Int
  BY <1>1, RecordTypes, SizesNat DEF TypeInv, TypeOK
<1>4. /\ count >= Indexed /\ nextOffset = BaseOffset + count
      /\ \A k \in 0 .. count - 1 :
           cells[k].off = k /\ (k < Whole => cells[k].pos = records[k + 1].pos)
  BY <1>1 DEF Sound, WriteSound, EntriesSound
<1>5. SearchEnd = count - 1 /\ i <= count
  BY <1>2, <1>3, <1>4 DEF SearchEnd, Indexed
<1>6. PICK o \in 0 .. SearchEnd : o = i - 1
  BY <1>2, <1>3, <1>5
<1>7. FindEntry(o) = {cells[o]}
  <2>1. SearchEnd \in Nat /\ 0 .. SearchEnd \subseteq DOMAIN cells
    BY <1>3, <1>5, <1>6
  <2>2. \A k \in 0 .. SearchEnd : cells[k].off = k
    BY <1>4, <1>5
  <2>. QED BY <2>1, <2>2, FindsEntry
<1>8. cells[o].pos = records[i].pos
  <2>1. o \in 0 .. count - 1 /\ o < Whole /\ o + 1 = i
    BY <1>3, <1>5, <1>6
  <2>. QED BY <1>4, <2>1
<1>9. ReadAt(o) = {records[i].payload}
  BY <1>1, <1>2, <1>7, <1>8, ReadsBack DEF Sound
<1>10. a.offset - BaseOffset = o
  BY <1>2, <1>3, <1>6
<1>. QED BY <1>2, <1>9, <1>10

\* What a write that did not finish leaves costs none of the messages acknowledged
\* before it, as long as nothing is appended to it: they are all read back.  The
\* positions of a segment that is not full fit a 32-bit integer.
THEOREM Remains == ASSUME MaxSize < HalfWord PROVE Spec => []RemainsHarmless
BY RemainsRead, RemainsInvariance, PTL

-----------------------------------------------------------------------------
(* A segment without faults, its index large enough                        *)

\* The records follow one another to the end of the log, but for the header of a
\* write in progress; none of the entries an index ever held is below the base.
Chained == \A i \in 1 .. Whole : records[i].pos = EndAt(i - 1)

EndsWhole == Len(log) = EndAt(Whole) + (IF pc = "payload" THEN Header ELSE 0)

EntriesAbove == \A i \in 0 .. IndexCap - 1 : cells[i].off >= 0

SizeSound ==
  /\ pc \in {"scan", "idle"} => size = Len(log)
  /\ pc = "payload" => size + Header = Len(log)
  /\ pc = "index" => size + Header + Len(payload) = Len(log)

HasRoom == Whole <= IndexCap /\ (pc = "payload" => Whole < IndexCap)

Served == /\ Chained /\ EndsWhole /\ EntriesAbove /\ SizeSound /\ HasRoom
          /\ pc # "failed"

FaultFreeInv == RemainsInv /\ Served

\* The index has an entry for each of the records a segment has when it is full:
\* a record is two words at least.
RoomForAll == MaxSize < 2 * IndexCap

\* What the object knows of such a segment.
LEMMA ServedFacts ==
  ASSUME FaultFreeInv
  PROVE  /\ TypeInv /\ Unburied /\ Sound
         /\ Whole \in Nat /\ EndAt(Whole) \in Nat /\ Len(log) \in Nat
         /\ count \in Nat /\ position \in Int
         /\ pc = "scan" => position \in Nat
         /\ pc = "idle" => /\ count = Whole /\ position = EndAt(Whole)
                           /\ nextOffset = BaseOffset + Whole
         /\ pc = "scan" => count <= Whole /\ position = EndAt(count)
         /\ pc = "payload" => /\ count = Whole /\ position = EndAt(Whole)
                              /\ nextOffset = BaseOffset + Whole
         /\ pc = "index" => Whole >= 1 /\ count = Whole - 1 /\ count < IndexCap
<1>1. TypeInv /\ Chained /\ EndsWhole /\ HasRoom
  BY DEF FaultFreeInv, Served, RemainsInv
<1>2. /\ Whole \in Nat /\ EndAt(Whole) \in Nat /\ Len(log) \in Nat
      /\ count \in Nat /\ position \in Int /\ IndexCap \in Nat
      /\ pc = "scan" => position \in Nat
      /\ \A j \in 1 .. Len(log) : log[j] \in Int
  BY <1>1, RecordTypes, SizesNat DEF TypeInv, TypeOK
<1>3. Unburied
  <2>1. CASE pc = "payload"
    <3>1. Len(log) = EndAt(Whole) + 2
      BY <1>1, <2>1 DEF EndsWhole
    <3>2. PICK s \in Int : s = log[EndAt(Whole) + 2]
      BY <1>2, <3>1
    <3>3. Len(log) <= EndAt(Whole) + 2 + s
      <4>1. s = Len(payload) /\ Len(payload) \in Nat
        BY <1>1, <1>2, <2>1, <3>1, <3>2, PayloadIsWords DEF TypeInv, TypeOK
      <4>. QED BY <1>2, <3>1, <4>1
    <3>. QED BY <1>1, <3>2, <3>3, UnburiedMeans DEF Chained
  <2>2. CASE pc # "payload"
    <3>1. Len(log) = EndAt(Whole)
      BY <1>1, <1>2, <2>2 DEF EndsWhole
    <3>2. Len(log) <= EndAt(Whole) + 1
      BY <1>2, <3>1
    <3>. QED BY <1>1, <3>2, UnburiedMeans DEF Chained
  <2>. QED BY <2>1, <2>2
<1>4. Sound
  BY <1>3 DEF FaultFreeInv, RemainsInv
<1>5. Indexed = Whole
  BY <1>1, <1>2 DEF HasRoom, Indexed
<1>6. ASSUME pc \in {"idle", "payload"}
      PROVE  count = Whole /\ position = EndAt(Whole) /\ nextOffset = BaseOffset + Whole
  <2>1. pc = "idle" => Len(log) = EndAt(Whole)
    BY <1>1, <1>2 DEF EndsWhole
  <2>2. pc = "payload" => Len(log) = EndAt(Whole) + 2
    BY <1>1 DEF EndsWhole
  <2>3. count = Whole /\ position = EndAt(Whole)
    BY <1>4, <1>5, <1>6, <2>1, <2>2 DEF Sound, CleanSound
  <2>. QED BY <1>4, <1>6, <2>3 DEF Sound, EntriesSound
<1>7. ASSUME pc = "scan" PROVE count <= Whole /\ position = EndAt(count)
  <2>1. Len(log) = EndAt(Whole)
    BY <1>1, <1>2, <1>7 DEF EndsWhole
  <2>. QED BY <1>2, <1>4, <1>7, <2>1 DEF Sound, ScanSound
<1>8. ASSUME pc = "index" PROVE Whole >= 1 /\ count = Whole - 1 /\ count < IndexCap
  BY <1>1, <1>2, <1>4, <1>8 DEF Sound, WriteSound, HasRoom
<1>. QED BY <1>1, <1>2, <1>3, <1>4, <1>6, <1>7, <1>8

LEMMA FaultFreeInit == Init => FaultFreeInv
<1>. SUFFICES ASSUME Init PROVE FaultFreeInv
  OBVIOUS
<1>1. RemainsInv
  BY RemainsInit
<1>2. /\ log = <<>> /\ records = <<>> /\ pc = "down"
      /\ cells = [i \in 0 .. IndexCap - 1 |-> NoEntry]
  BY DEF Init
<1>3. Whole = 0 /\ EndAt(0) = 0 /\ Len(log) = 0
  BY <1>2 DEF Whole, EndAt
<1>4. EntriesAbove
  BY <1>2 DEF EntriesAbove, NoEntry
<1>. QED BY <1>1, <1>2, <1>3, <1>4, SizesNat
     DEF FaultFreeInv, Served, Chained, EndsWhole, SizeSound, HasRoom

\* The parts that depend on the log and the records only.
LEMMA ChainKept ==
  ASSUME UNCHANGED <<log, records>>
  PROVE  /\ Chained' = Chained /\ Whole' = Whole /\ EndAt(Whole)' = EndAt(Whole)
         /\ pc # "payload" /\ pc' # "payload" => EndsWhole' = EndsWhole
<1>1. Whole' = Whole /\ EndAt(Whole)' = EndAt(Whole)
  BY DEF Whole, EndAt, EndOfRecord
<1>2. Chained' = Chained
  BY DEF Chained, Whole, EndAt, EndOfRecord
<1>. QED BY <1>1, <1>2 DEF EndsWhole

\* Everything that is left of a segment whose object is gone.
LEMMA ServedEnd ==
  FaultFreeInv /\ Faults = {} /\ (Open \/ Close \/ DeleteSegment \/ Crash) => Served'
<1>. SUFFICES ASSUME FaultFreeInv, Faults = {}, Open \/ Close \/ DeleteSegment \/ Crash
              PROVE  Served'
  OBVIOUS
<1>1. /\ Served /\ cells \in [0 .. IndexCap - 1 -> Entry] /\ IndexCap \in Nat
      /\ Len(log) \in Nat /\ EndAt(Whole) \in Nat
  BY ServedFacts, SizesNat DEF FaultFreeInv, TypeInv, TypeOK
<1>2. CASE Open \/ Close \/ Crash
  <2>1. /\ UNCHANGED <<log, records>> /\ pc # "payload"
        /\ pc' \in {"down", "scan"} /\ (pc' = "scan" => size' = Len(log))
    BY <1>2 DEF Open, Close, Crash, disk, history
  <2>2. EntriesAbove'
    <3>1. CASE Close
      BY <1>1, <3>1 DEF Close, CutIndex, EntriesAbove, Served, NoEntry
    <3>2. CASE UNCHANGED cells
      BY <1>1, <3>2 DEF EntriesAbove, Served
    <3>. QED BY <1>2, <3>1, <3>2 DEF Open, OpenIndex, Crash, disk, index
  <2>3. Chained' /\ EndsWhole' /\ Whole' = Whole
    BY <1>1, <2>1, ChainKept DEF Served
  <2>. QED BY <1>1, <2>1, <2>2, <2>3 DEF Served, SizeSound, HasRoom
<1>3. CASE DeleteSegment
  <2>1. /\ log' = <<>> /\ records' = <<>> /\ pc' = "down"
        /\ cells' = [i \in DOMAIN cells |-> NoEntry]
    BY <1>3 DEF DeleteSegment
  <2>2. Whole' = 0 /\ EndAt(0)' = 0 /\ Len(log') = 0
    BY <2>1 DEF Whole, EndAt
  <2>3. EntriesAbove'
    BY <1>1, <2>1 DEF EntriesAbove, NoEntry
  <2>. QED BY <1>1, <2>1, <2>2, <2>3
       DEF Served, Chained, EndsWhole, SizeSound, HasRoom
<1>. QED BY <1>2, <1>3

\* The scan of such a log stops nowhere but at its end.
LEMMA NeverRefused ==
  ASSUME FaultFreeInv
  PROVE  ~ OpenRefused /\ ~ ScanFails /\ ~ WriteOverflow
<1>1. ~ OpenRefused
  <2>1. length > 0 => length - 1 \in 0 .. IndexCap - 1
    BY ServedFacts, SizesNat DEF TypeInv, TypeOK
  <2>2. EntriesAbove
    BY DEF FaultFreeInv, Served
  <2>. QED BY <2>1, <2>2 DEF EntriesAbove, OpenRefused, Sane
<1>2. ~ ScanFails
  <2>. SUFFICES ASSUME ScanFails PROVE FALSE
    OBVIOUS
  <2>1. pc = "scan" /\ (position + 1 = Len(log) \/ (position + 1 < Len(log) /\ count = IndexCap))
    BY DEF ScanFails, ScanTorn, ScanOverflow
  <2>2. /\ count <= Whole /\ position = EndAt(count)
        /\ Whole \in Nat /\ EndAt(Whole) \in Nat /\ Len(log) \in Nat
        /\ count \in Nat /\ position \in Nat
    BY <2>1, ServedFacts
  <2>3. Len(log) = EndAt(Whole) /\ Whole <= IndexCap /\ IndexCap \in Nat
    BY <2>1, <2>2, SizesNat DEF FaultFreeInv, Served, EndsWhole, HasRoom
  <2>4. CASE count = Whole
    BY <2>1, <2>2, <2>3, <2>4
  <2>5. CASE count < Whole
    <3>1. PICK i \in 1 .. Whole : i = count + 1
      BY <2>2, <2>5
    <3>2. i - 1 = count
      BY <2>2, <3>1
    <3>3. /\ EndAt(i) = EndAt(i - 1) + 2 + Len(records[i].payload)
          /\ EndAt(i) <= Len(log) /\ Len(records[i].payload) \in Nat
      BY ServedFacts, RecordAt, RecordTypes DEF Sound
    <3>. QED BY SMTT(40), <2>1, <2>2, <2>3, <2>5, <3>2, <3>3
  <2>. QED BY <2>2, <2>4, <2>5
<1>3. ~ WriteOverflow
  BY ServedFacts DEF WriteOverflow
<1>. QED BY <1>1, <1>2, <1>3

\* An entry made for the offset after those of the entries before it.
LEMMA AboveKept ==
  ASSUME TypeInv, EntriesAbove, count < IndexCap, NEW o \in Nat, o = BaseOffset + count,
         cells' = WithEntry(count, o, position)
  PROVE  EntriesAbove'
<1>1. /\ count \in 0 .. IndexCap /\ cells \in [0 .. IndexCap - 1 -> Entry]
      /\ position \in Int /\ IndexCap \in Nat /\ BaseOffset \in Nat
      /\ HalfWord \in Nat /\ IndexCap <= HalfWord
  BY SizesNat DEF TypeInv, TypeOK
<1>2. count \in 0 .. IndexCap - 1
  BY <1>1
<1>3. /\ cells'[count] = [off |-> Narrow(o - BaseOffset), pos |-> Narrow(position)]
      /\ \A i \in 0 .. IndexCap - 1 : i # count => cells'[i] = cells[i]
  BY <1>1, <1>2, EntryWritten
<1>4. cells'[count].off >= 0
  <2>1. o - BaseOffset = count /\ count \in Nat /\ count < HalfWord
    BY <1>1
  <2>. QED BY <1>2, <1>3, <2>1, NarrowFits
<1>. QED BY <1>3, <1>4 DEF EntriesAbove

LEMMA ServedScan == FaultFreeInv /\ (ScanRecord \/ ScanDone) => Served'
<1>. SUFFICES ASSUME FaultFreeInv, ScanRecord \/ ScanDone PROVE Served'
  OBVIOUS
<1>1. /\ pc = "scan" /\ pc' \in {"scan", "idle"} /\ UNCHANGED <<log, records, size>>
  BY DEF ScanRecord, AfterSeek, ScanDone, disk, object, history
<1>2. Served /\ TypeInv /\ Unburied /\ Sound /\ count <= Whole /\ position = EndAt(count)
  BY <1>1, ServedFacts DEF FaultFreeInv
<1>3. EntriesAbove'
  <2>1. CASE ScanRecord
    <3>1. /\ count < IndexCap /\ position + 1 < Len(log)
          /\ cells' = WithEntry(count, log[position + 1], position)
      BY <2>1 DEF ScanRecord
    <3>2. /\ Whole \in Nat /\ Len(log) \in Nat /\ count \in Nat /\ position \in Nat
          /\ EndAt(Whole) \in Nat /\ IndexCap \in Nat /\ BaseOffset \in Nat
      BY <1>1, ServedFacts, SizesNat
    <3>3. count < Whole
      <4>1. Len(log) = EndAt(Whole)
        BY <1>1, <1>2, <3>2 DEF Served, EndsWhole
      <4>. QED BY <1>2, <3>1, <3>2, <4>1
    <3>4. PICK i \in 1 .. Whole : i = count + 1
      BY <3>2, <3>3
    <3>5. i - 1 = count /\ i <= IndexCap
      BY <3>1, <3>2, <3>4
    <3>6. log[EndAt(i - 1) + 1] = BaseOffset + i - 1
      BY <1>2, <3>5, RecordAt DEF Sound
    <3>7. PICK o \in Nat : o = BaseOffset + count
      BY <3>2
    <3>8. log[position + 1] = o
      BY <1>2, <3>2, <3>4, <3>5, <3>6, <3>7
    <3>9. cells' = WithEntry(count, o, position)
      BY <3>1, <3>8
    <3>. QED BY <1>2, <3>1, <3>7, <3>9, AboveKept DEF Served
  <2>2. CASE ScanDone
    BY <1>2, <2>2 DEF ScanDone, disk, index, Served, EntriesAbove
  <2>. QED BY <2>1, <2>2
<1>4. Chained' /\ EndsWhole' /\ Whole' = Whole
  BY <1>1, <1>2, ChainKept DEF Served
<1>. QED BY <1>1, <1>2, <1>3, <1>4 DEF Served, SizeSound, HasRoom

LEMMA ServedWrite ==
  ASSUME RoomForAll, NEW p \in Payload, FaultFreeInv, Write(p) PROVE Served'
<1>1. /\ pc = "idle" /\ pc' = "payload" /\ UNCHANGED <<cells, size, records>>
      /\ log' = log \o <<nextOffset, Len(p)>> /\ ~ (position > MaxSize)
  BY DEF Write, IsFull, index, history
<1>2. /\ Served /\ TypeInv /\ Sound /\ position = EndAt(Whole)
      /\ Whole \in Nat /\ EndAt(Whole) \in Nat /\ Len(log) \in Nat /\ position \in Nat
      /\ IndexCap \in Nat /\ MaxSize \in Nat
  BY <1>1, ServedFacts, SizesNat DEF FaultFreeInv
<1>3. Len(log') = Len(log) + 2
  BY <1>1, <1>2, PayloadIsWords DEF TypeInv, TypeOK
<1>4. Chained' /\ Whole' = Whole /\ EndAt(Whole)' = EndAt(Whole)
  BY <1>1, <1>2 DEF Served, Chained, Whole, EndAt, EndOfRecord
<1>5. EndsWhole'
  BY <1>1, <1>2, <1>3, <1>4 DEF Served, EndsWhole
<1>6. HasRoom'
  <2>1. 2 * Whole <= EndAt(Whole)
    <3>1. Whole \in 0 .. Whole
      BY <1>2
    <3>. QED BY <1>2, <3>1 DEF Sound, LogSound
  <2>2. 2 * Whole < 2 * IndexCap
    BY <1>1, <1>2, <2>1 DEF RoomForAll
  <2>3. Whole < IndexCap
    BY <1>2, <2>2
  <2>. QED BY <1>2, <1>4, <2>3 DEF HasRoom
<1>7. SizeSound'
  BY <1>1, <1>2, <1>3 DEF Served, SizeSound
<1>. QED BY <1>1, <1>2, <1>4, <1>5, <1>6, <1>7 DEF Served, EntriesAbove

LEMMA ServedWritePayload == FaultFreeInv /\ WritePayload => Served'
<1>. SUFFICES ASSUME FaultFreeInv, WritePayload PROVE Served'
  OBVIOUS
<1>. DEFINE r == [pos |-> Len(log) - 2, payload |-> payload]
<1>1. /\ pc = "payload" /\ pc' = "index" /\ log' = log \o payload
      /\ records' = Append(records, r)
      /\ UNCHANGED <<cells, size, payload>>
  BY DEF WritePayload, index, object
<1>2. /\ Served /\ TypeInv /\ Len(log) = EndAt(Whole) + 2
      /\ Whole \in Nat /\ EndAt(Whole) \in Nat /\ Len(log) \in Nat /\ IndexCap \in Nat
  BY <1>1, ServedFacts, SizesNat DEF FaultFreeInv, Served, EndsWhole
<1>3. payload \in Seq(Int) /\ Len(payload) \in Nat /\ size \in Nat
  BY <1>1, <1>2, PayloadIsWords DEF TypeInv, TypeOK
<1>4. r.pos = EndAt(Whole) /\ r.payload = payload
  BY <1>2
<1>. HIDE DEF r
<1>5. Len(log') = Len(log) + Len(payload)
  <2>1. log \in Seq(Int)
    BY <1>2 DEF TypeInv, TypeOK
  <2>. QED BY <1>1, <1>3, <2>1
<1>6. /\ Whole' = Whole + 1
      /\ \A i \in 1 .. Whole : records'[i] = records[i]
      /\ records'[Whole + 1] = r
  <2>1. records \in Seq([pos : Nat, payload : Payload])
    BY <1>2 DEF TypeInv, TypeOK
  <2>. QED BY <1>1, <2>1 DEF Whole
<1>7. ASSUME NEW i \in 0 .. Whole PROVE EndAt(i)' = EndAt(i)
  BY <1>2, <1>6 DEF EndAt, EndOfRecord
<1>8. PICK n \in Nat : n = Whole + 1
  BY <1>2
<1>9. Whole' = n /\ records'[n] = r
  BY <1>6, <1>8
<1>10. EndAt(n)' = Len(log')
  <2>1. EndAt(n)' = r.pos + 2 + Len(r.payload)
    BY <1>2, <1>8, <1>9 DEF EndAt, EndOfRecord
  <2>. QED BY <1>2, <1>3, <1>4, <1>5, <2>1
<1>11. Chained'
  <2>1. ASSUME NEW i \in 1 .. n PROVE records'[i].pos = EndAt(i - 1)'
    <3>1. i - 1 \in 0 .. Whole
      BY <1>2, <1>8
    <3>2. EndAt(i - 1)' = EndAt(i - 1)
      BY <1>7, <3>1
    <3>3. CASE i = n
      <4>1. i - 1 = Whole
        BY <1>2, <1>8, <3>3
      <4>. QED BY <1>4, <1>9, <3>2, <3>3, <4>1
    <3>4. CASE i # n
      <4>1. i \in 1 .. Whole
        BY <1>2, <1>8, <3>4
      <4>. QED BY <1>2, <1>6, <3>2, <4>1 DEF Served, Chained
    <3>. QED BY <3>3, <3>4
  <2>. QED BY <1>9, <2>1 DEF Chained
<1>12. EndsWhole'
  <2>1. Len(log') = EndAt(n)' + 0
    BY <1>2, <1>3, <1>5, <1>10
  <2>. QED BY <1>1, <1>9, <2>1 DEF EndsWhole
<1>13. SizeSound'
  BY <1>1, <1>2, <1>3, <1>5 DEF Served, SizeSound
<1>14. HasRoom'
  BY <1>1, <1>2, <1>8, <1>9 DEF Served, HasRoom
<1>. QED BY <1>1, <1>2, <1>11, <1>12, <1>13, <1>14 DEF Served, EntriesAbove

LEMMA ServedWriteIndex == FaultFreeInv /\ WriteIndex => Served'
<1>. SUFFICES ASSUME FaultFreeInv, WriteIndex PROVE Served'
  OBVIOUS
<1>1. /\ pc = "index" /\ pc' = "idle" /\ UNCHANGED <<log, records>>
      /\ count < IndexCap /\ cells' = WithEntry(count, nextOffset, position)
      /\ size' = size + Header + Len(payload)
  BY DEF WriteIndex
<1>2. /\ Served /\ TypeInv /\ Sound /\ nextOffset \in Int /\ BaseOffset \in Nat /\ count \in Nat
  BY ServedFacts, SizesNat DEF FaultFreeInv, TypeInv, TypeOK
<1>3. EntriesAbove'
  <2>1. nextOffset = BaseOffset + count
    BY <1>1, <1>2 DEF Sound, EntriesSound
  <2>2. PICK o \in Nat : o = nextOffset
    BY <1>2, <2>1
  <2>. QED BY <1>1, <1>2, <2>1, <2>2, AboveKept DEF Served
<1>4. Chained' /\ EndsWhole' /\ Whole' = Whole
  BY <1>1, <1>2, ChainKept DEF Served
<1>. QED BY <1>1, <1>2, <1>3, <1>4 DEF Served, SizeSound, HasRoom

LEMMA FaultFreeNext ==
  ASSUME Faults = {}, RoomForAll, MaxSize < HalfWord, FaultFreeInv, [Next]_vars
  PROVE  FaultFreeInv'
<1>1. RemainsInv'
  BY RemainsNext DEF FaultFreeInv
<1>2. CASE Next
  <2>1. ~ ShortHeader /\ ~ ShortPayload
    BY DEF ShortHeader, ShortPayload
  <2>2. Served'
    BY <1>2, <2>1, NeverRefused, ServedEnd, ServedScan, ServedWrite, ServedWritePayload,
       ServedWriteIndex DEF Next, Scan
  <2>. QED BY <1>1, <2>2 DEF FaultFreeInv
<1>3. CASE UNCHANGED vars
  <2>1. UNCHANGED <<log, cells, pc, size, payload, records>>
    BY <1>3 DEF vars, disk, index, object, history
  <2>2. Served'
    BY <2>1, ChainKept
       DEF FaultFreeInv, Served, EntriesAbove, SizeSound, HasRoom, EndsWhole
  <2>. QED BY <1>1, <2>2 DEF FaultFreeInv
<1>. QED BY <1>2, <1>3

\* Without a fault and with room in the index, the log of a segment is its records
\* and nothing else, wherever the process was killed between two operations.
THEOREM FaultFreeInvariance ==
  ASSUME Faults = {}, RoomForAll, MaxSize < HalfWord PROVE Spec => []FaultFreeInv
BY FaultFreeInit, FaultFreeNext, PTL DEF Spec

LEMMA ServedSynced == FaultFreeInv => IndexSynced
<1>. SUFFICES ASSUME FaultFreeInv, pc = "idle"
              PROVE  /\ count = Len(records)
                     /\ \A i \in DOMAIN records :
                          /\ cells[i - 1] = [off |-> i - 1, pos |-> records[i].pos]
                          /\ Holds(records[i], BaseOffset + i - 1)
                     /\ nextOffset = BaseOffset + Len(records)
                     /\ position = Len(log) /\ size = Len(log)
  BY DEF IndexSynced
<1>1. /\ TypeInv /\ Sound /\ Served /\ count = Whole /\ position = EndAt(Whole)
      /\ nextOffset = BaseOffset + Whole
      /\ Whole \in Nat /\ Len(log) \in Nat /\ EndAt(Whole) \in Nat
      /\ DOMAIN records = 1 .. Whole
  BY ServedFacts, RecordTypes DEF FaultFreeInv
<1>2. position = Len(log) /\ size = Len(log)
  BY <1>1 DEF Served, EndsWhole, SizeSound
<1>3. ASSUME NEW i \in 1 .. Whole
      PROVE  /\ cells[i - 1] = [off |-> i - 1, pos |-> records[i].pos]
             /\ Holds(records[i], BaseOffset + i - 1)
  <2>1. i <= IndexCap
    BY <1>1, SizesNat DEF Served, HasRoom
  <2>2. /\ log[records[i].pos + 2] = Len(records[i].payload)
        /\ log[records[i].pos + 1] = BaseOffset + i - 1
    BY <1>1, <2>1 DEF Sound, LogSound
  <2>3. EndOfRecord(records[i]) <= Len(log)
    <3>1. i \in 0 .. Whole /\ i # 0
      BY <1>1
    <3>2. EndAt(i) <= Len(log)
      BY <1>1, <3>1 DEF Sound, LogSound
    <3>. QED BY <3>1, <3>2 DEF EndAt
  <2>4. SubSeq(log, records[i].pos + 2 + 1, records[i].pos + 2 + Len(records[i].payload))
          = records[i].payload
    BY <1>1, PayloadInLog DEF Sound
  <2>5. Holds(records[i], BaseOffset + i - 1)
    BY <2>2, <2>3, <2>4 DEF Holds, EndOfRecord
  <2>6. PICK k \in 0 .. IndexCap - 1 : k = i - 1 /\ k \in 0 .. count - 1 /\ k < Whole /\ k + 1 = i
    BY <1>1, <2>1, SizesNat
  <2>7. cells[k].off = k /\ cells[k].pos = records[i].pos
    BY <1>1, <2>6 DEF Sound, EntriesSound
  <2>8. cells[k] \in Entry
    BY <1>1, <2>6 DEF TypeInv, TypeOK
  <2>9. cells[k] = [off |-> k, pos |-> records[i].pos]
    BY <2>7, <2>8 DEF Entry
  <2>. QED BY <2>5, <2>6, <2>9
<1>. QED BY <1>1, <1>2, <1>3 DEF Whole

\* The index is the table of contents of the log whenever the object is at rest.
THEOREM Synced ==
  ASSUME Faults = {}, RoomForAll, MaxSize < HalfWord PROVE Spec => []IndexSynced
BY ServedSynced, FaultFreeInvariance, PTL

\* No open is refused.
THEOREM Reopens ==
  ASSUME Faults = {}, RoomForAll, MaxSize < HalfWord PROVE Spec => []ReopenSucceeds
<1>1. FaultFreeInv => ReopenSucceeds
  BY DEF FaultFreeInv, Served, ReopenSucceeds
<1>. QED BY <1>1, FaultFreeInvariance, PTL

\* Every message acknowledged is read back from its offset, whatever closings, kills
\* and openings happened since.
THEOREM Readable ==
  ASSUME Faults = {}, RoomForAll, MaxSize < HalfWord PROVE Spec => []AckedReadable
<1>1. FaultFreeInv => AckedReadable
  BY ServedFacts, RemainsRead DEF FaultFreeInv, RemainsHarmless
<1>. QED BY <1>1, FaultFreeInvariance, PTL

-----------------------------------------------------------------------------
(* The recursive function inside Starts                                    *)

After(g, p) ==
  IF \/ p + Header > Len(log) \/ log[p + Header] < 0
     \/ p + Header + log[p + Header] > Len(log)
  THEN <<>> ELSE <<p>> \o g[p + Header + log[p + Header]]

IsReader(g) == g = [p \in 0 .. Len(log) |-> After(g, p)]

LEMMA ReaderExists == ASSUME TypeInv PROVE \E g : IsReader(g)
<1>. DEFINE End == Len(log)
            UpTo(g, n) == \A p \in 0 .. End : End - p <= n => g[p] = After(g, p)
            Q(n) == \E g : g = [p \in 0 .. End |-> g[p]] /\ UpTo(g, n)
            Bad == {n \in Nat : ~ Q(n)}
<1>1. End \in Nat /\ \A j \in 1 .. End : log[j] \in Int
  BY RecordTypes
<1>. HIDE DEF End
<1>2. Q(0)
  <2>. DEFINE g == [p \in 0 .. End |-> <<>>]
  <2>1. \A p \in 0 .. End : End - p <= 0 => p + 2 > End
    BY <1>1
  <2>2. UpTo(g, 0)
    BY <2>1 DEF After, End
  <2>3. g = [p \in 0 .. End |-> g[p]]
    OBVIOUS
  <2>. QED BY <2>2, <2>3
<1>3. ASSUME NEW n \in Nat, Q(n) PROVE Q(n + 1)
  <2>1. PICK g : UpTo(g, n)
    BY <1>3
  <2>. DEFINE h == [p \in 0 .. End |-> After(g, p)]
  <2>2. \A p \in 0 .. End : End - p <= n => h[p] = g[p]
    BY <2>1
  <2>3. ASSUME NEW p \in 0 .. End, End - p <= n + 1 PROVE h[p] = After(h, p)
    <3>1. h[p] = After(g, p)
      OBVIOUS
    <3>. HIDE DEF h
    <3>2. CASE p + 2 > End
      BY <3>1, <3>2 DEF After, End
    <3>3. CASE p + 2 <= End
      <4>1. PICK s \in Int : s = log[p + 2]
        BY <1>1, <3>3
      <4>2. CASE p + 2 + s > End \/ s < 0
        BY <3>1, <4>1, <4>2 DEF After, End
      <4>3. CASE p + 2 + s <= End /\ s >= 0
        <5>1. p + 2 + s \in 0 .. End /\ End - (p + 2 + s) <= n
          BY <1>1, <2>3, <4>3
        <5>2. h[p + 2 + s] = g[p + 2 + s]
          BY <2>2, <5>1
        <5>. QED BY <3>1, <4>1, <5>2 DEF After
      <4>. QED BY <1>1, <4>2, <4>3
    <3>. QED BY <1>1, <3>2, <3>3
  <2>4. h = [p \in 0 .. End |-> h[p]]
    OBVIOUS
  <2>. HIDE DEF h
  <2>. QED BY <2>3, <2>4
<1>. HIDE DEF Q
<1>4. Bad = {}
  <2>. SUFFICES ASSUME Bad # {} PROVE FALSE
    OBVIOUS
  <2>1. PICK n \in Bad : \A m \in Bad : n <= m
    BY LeastNatural
  <2>2. n # 0 /\ n \in Nat
    BY <1>2
  <2>3. n - 1 \in Nat /\ n - 1 \notin Bad /\ (n - 1) + 1 = n
    BY <2>1, <2>2
  <2>. QED BY <2>3, <1>3
<1>5. Q(End)
  BY <1>1, <1>4
<1>6. PICK g : g = [p \in 0 .. End |-> g[p]] /\ UpTo(g, End)
  BY <1>5 DEF Q
<1>7. \A p \in 0 .. End : g[p] = After(g, p)
  BY <1>1, <1>6
<1>8. g = [p \in 0 .. End |-> After(g, p)]
  BY <1>6, <1>7
<1>. QED BY <1>8 DEF IsReader, End

LEMMA StartsIsRead ==
  ASSUME TypeInv
  PROVE  \E g : /\ Starts = g[0]
                /\ \A p \in 0 .. Len(log) : g[p] = After(g, p)
<1>. DEFINE g == CHOOSE g : IsReader(g)
<1>1. IsReader(g)
  BY ReaderExists
<1>2. Starts = g[0]
  BY DEF Starts, IsReader, After
<1>. HIDE DEF g
<1>3. \A p \in 0 .. Len(log) : g[p] = After(g, p)
  BY <1>1 DEF IsReader
<1>. QED BY <1>2, <1>3

-----------------------------------------------------------------------------
(* The log implements CommitLog                                            *)

\* A record without payload is whole once its header is written.
Pending == IF pc = "payload" /\ payload = <<>> THEN 1 ELSE 0

InLog == Whole + Pending

Kept == [o \in 0 .. InLog - 1 |-> IF o < Whole THEN records[o + 1].payload ELSE <<>>]

\* Where the i-th of these begins, the end of the file for i = InLog.
Place(i) == IF i <= Whole THEN EndAt(i) ELSE Len(log)

LEMMA PendingHeader ==
  ASSUME FaultFreeInv, pc = "payload"
  PROVE  /\ Len(log) = EndAt(Whole) + 2 /\ Whole < IndexCap
         /\ log[EndAt(Whole) + 1] = BaseOffset + Whole
         /\ log[EndAt(Whole) + 2] = Len(payload)
         /\ payload \in Seq(Int) /\ Len(payload) \in Nat
<1>1. /\ TypeInv /\ Sound /\ Served /\ Whole \in Nat /\ EndAt(Whole) \in Nat
  BY ServedFacts DEF FaultFreeInv
<1>2. Len(log) = EndAt(Whole) + 2 /\ Whole < IndexCap
  BY <1>1 DEF Served, EndsWhole, HasRoom
<1>3. log[EndAt(Whole) + 1] = BaseOffset + Whole
  <2>1. Len(log) > EndAt(Whole)
    BY <1>1, <1>2
  <2>. QED BY <1>1, <1>2, <2>1 DEF Sound, LogSound
<1>4. log[EndAt(Whole) + 2] = Len(payload)
  BY <1>1, <1>2 DEF Sound, WriteSound
<1>5. payload \in Seq(Int) /\ Len(payload) \in Nat
  BY <1>1, PayloadIsWords DEF TypeInv, TypeOK
<1>. QED BY <1>2, <1>3, <1>4, <1>5

LEMMA EmptyPayload == ASSUME NEW w \in Seq(Int) PROVE w = <<>> <=> Len(w) = 0
OBVIOUS

\* What the file shows at the place of a record.
LEMMA RecordShown ==
  ASSUME FaultFreeInv, NEW i \in 0 .. InLog - 1
  PROVE  /\ Place(i) \in Nat /\ Place(i + 1) \in Nat
         /\ log[Place(i) + 1] = BaseOffset + i
         /\ Place(i + 1) = Place(i) + 2 + log[Place(i) + 2]
         /\ Place(i) + 2 <= Place(i + 1) /\ Place(i + 1) <= Len(log)
         /\ SubSeq(log, Place(i) + 2 + 1, Place(i + 1)) = Kept[i]
<1>1. /\ TypeInv /\ Unburied /\ Sound /\ Served
      /\ Whole \in Nat /\ EndAt(Whole) \in Nat /\ Len(log) \in Nat
      /\ IndexCap \in Nat /\ BaseOffset \in Nat /\ log \in Seq(Int)
  BY ServedFacts, SizesNat DEF FaultFreeInv, TypeInv, TypeOK
<1>2. Kept[i] = IF i < Whole THEN records[i + 1].payload ELSE <<>>
  BY DEF Kept
<1>3. CASE i < Whole
  <2>1. PICK n \in 1 .. Whole : n = i + 1 /\ n - 1 = i
    BY <1>1, <1>3 DEF InLog, Pending
  <2>2. n <= IndexCap
    BY <1>1 DEF Served, HasRoom
  <2>3. /\ records[n].pos = EndAt(i)
        /\ EndAt(n) = EndAt(i) + 2 + Len(records[n].payload)
        /\ EndAt(n) <= Len(log)
        /\ log[EndAt(i) + 2] = Len(records[n].payload)
        /\ log[EndAt(i) + 1] = BaseOffset + n - 1
    BY <1>1, <2>1, <2>2, RecordAt DEF Sound
  <2>4. SubSeq(log, EndAt(i) + 2 + 1, EndAt(i) + 2 + Len(records[n].payload)) = records[n].payload
    BY <1>1, <2>3, PayloadInLog DEF Sound
  <2>5. Place(i) = EndAt(i) /\ Place(i + 1) = EndAt(n)
    BY <1>1, <1>3, <2>1 DEF Place
  <2>6. EndAt(i) \in Nat /\ EndAt(n) \in Nat /\ Len(records[n].payload) \in Nat
    <3>1. i \in 0 .. Whole /\ n \in 0 .. Whole
      BY <1>1, <1>3, <2>1
    <3>. QED BY <1>1, <3>1, RecordTypes
  <2>7. BaseOffset + n - 1 = BaseOffset + i
    BY <1>1, <2>1
  <2>8. Place(i) + 2 <= Place(i + 1)
    BY SMTT(40), <2>3, <2>5, <2>6
  <2>9. Kept[i] = records[n].payload
    BY <1>2, <1>3, <2>1
  <2>. QED BY <2>3, <2>4, <2>5, <2>6, <2>7, <2>8, <2>9
<1>4. CASE i = Whole
  <2>1. pc = "payload" /\ payload = <<>>
    BY <1>1, <1>4 DEF InLog, Pending
  <2>2. /\ Len(log) = EndAt(Whole) + 2
        /\ log[EndAt(Whole) + 1] = BaseOffset + Whole
        /\ log[EndAt(Whole) + 2] = 0
    BY <2>1, PendingHeader, EmptyPayload
  <2>3. Place(i) = EndAt(Whole) /\ Place(i + 1) = Len(log)
    BY <1>1, <1>4 DEF Place
  <2>4. SubSeq(log, EndAt(Whole) + 2 + 1, Len(log)) = <<>>
    <3>1. PICK b \in Nat : b = EndAt(Whole) + 2
      BY <1>1
    <3>2. SubSeq(log, b + 1, b) = <<>>
      BY <1>1, <3>1
    <3>. QED BY <2>2, <3>1, <3>2
  <2>. QED BY SMTT(40), <1>1, <1>2, <1>4, <2>2, <2>3, <2>4
<1>. QED BY <1>1, <1>3, <1>4 DEF InLog, Pending

\* No record is found after the last.
LEMMA ShownToTheEnd ==
  ASSUME FaultFreeInv
  PROVE  /\ InLog \in Nat /\ Place(0) = 0
         /\ \A i \in 0 .. InLog : Place(i) \in 0 .. Len(log)
         /\ \/ Place(InLog) + 2 > Len(log)
            \/ Place(InLog) + 2 + log[Place(InLog) + 2] > Len(log)
<1>1. /\ TypeInv /\ Sound /\ Served
      /\ Whole \in Nat /\ EndAt(Whole) \in Nat /\ Len(log) \in Nat
  BY ServedFacts DEF FaultFreeInv
<1>2. InLog \in Nat /\ (InLog = Whole \/ (InLog = Whole + 1 /\ pc = "payload"))
  BY <1>1 DEF InLog, Pending
<1>3. Place(0) = 0
  BY <1>1, RecordTypes DEF Place
<1>4. ASSUME NEW i \in 0 .. InLog PROVE Place(i) \in 0 .. Len(log)
  <2>1. CASE i <= Whole
    <3>1. i \in 0 .. Whole /\ Place(i) = EndAt(i)
      BY <1>1, <1>2, <2>1 DEF Place
    <3>2. EndAt(i) \in Nat /\ EndAt(i) <= Len(log)
      BY <1>1, <3>1, RecordTypes DEF Sound, LogSound
    <3>. QED BY <1>1, <3>1, <3>2
  <2>2. CASE ~ (i <= Whole)
    <3>1. Place(i) = Len(log)
      BY <2>2 DEF Place
    <3>. QED BY <1>1, <3>1
  <2>. QED BY <2>1, <2>2
<1>5. \/ Place(InLog) + 2 > Len(log)
      \/ Place(InLog) + 2 + log[Place(InLog) + 2] > Len(log)
  <2>1. CASE InLog = Whole + 1
    <3>1. Place(InLog) = Len(log)
      BY <1>1, <2>1 DEF Place
    <3>. QED BY <1>1, <3>1
  <2>2. CASE InLog = Whole
    <3>1. Place(InLog) = EndAt(Whole)
      BY <1>1, <2>2 DEF Place
    <3>2. CASE pc # "payload"
      <4>1. Len(log) = EndAt(Whole)
        BY <1>1, <3>2 DEF Served, EndsWhole
      <4>. QED BY <1>1, <3>1, <4>1
    <3>3. CASE pc = "payload"
      <4>1. Len(payload) # 0 /\ Len(payload) \in Nat
        <5>1. payload # <<>>
          BY <1>1, <2>2, <3>3 DEF InLog, Pending
        <5>. QED BY <3>3, <5>1, PendingHeader, EmptyPayload
      <4>2. Len(log) = EndAt(Whole) + 2 /\ log[EndAt(Whole) + 2] = Len(payload)
        BY <3>3, PendingHeader
      <4>. QED BY <1>1, <3>1, <4>1, <4>2
    <3>. QED BY <3>2, <3>3
  <2>. QED BY <1>2, <2>1, <2>2
<1>. QED BY <1>2, <1>3, <1>4, <1>5

\* The whole records of the file begin where they were written.
LEMMA StartsAre == ASSUME FaultFreeInv PROVE Starts = [k \in 1 .. InLog |-> Place(k - 1)]
<1>. DEFINE N == InLog
            Rest(i) == [k \in 1 .. N - i |-> Place(i + k - 1)]
<1>1. PICK g : Starts = g[0] /\ \A p \in 0 .. Len(log) : g[p] = After(g, p)
  BY StartsIsRead, ServedFacts
<1>2. N \in Nat /\ Place(0) = 0 /\ \A i \in 0 .. N : Place(i) \in 0 .. Len(log)
  BY ShownToTheEnd
<1>3. g[Place(N)] = Rest(N)
  <2>1. g[Place(N)] = <<>>
    <3>1. N \in 0 .. N
      BY <1>2
    <3>2. g[Place(N)] = After(g, Place(N))
      BY <1>1, <1>2, <3>1
    <3>. QED BY <3>2, ShownToTheEnd DEF After
  <2>2. 1 .. N - N = {}
    BY <1>2
  <2>3. Rest(N) = <<>>
    BY <2>2
  <2>. QED BY <2>1, <2>3
<1>4. ASSUME NEW i \in 0 .. N - 1, g[Place(i + 1)] = Rest(i + 1) PROVE g[Place(i)] = Rest(i)
  <2>1. /\ Place(i + 1) = Place(i) + 2 + log[Place(i) + 2]
        /\ Place(i) + 2 <= Place(i + 1) /\ Place(i + 1) <= Len(log)
        /\ Place(i) \in Nat /\ Place(i + 1) \in Nat
    BY RecordShown
  <2>2. g[Place(i)] = After(g, Place(i))
    <3>1. i \in 0 .. N
      BY <1>2
    <3>. QED BY <1>1, <1>2, <3>1
  <2>3. g[Place(i)] = <<Place(i)>> \o g[Place(i + 1)]
    <3>1. Len(log) \in Nat
      BY ServedFacts
    <3>2. /\ ~ (Place(i) + 2 > Len(log)) /\ ~ (Place(i) + 2 + log[Place(i) + 2] > Len(log))
          /\ ~ (log[Place(i) + 2] < 0)
      <4>1. PICK s \in Int : s = log[Place(i) + 2]
        <5>1. Place(i) + 2 \in 1 .. Len(log)
          BY <2>1, <3>1
        <5>. QED BY <5>1, ServedFacts, RecordTypes
      <4>. QED BY <2>1, <3>1, <4>1
    <3>. QED BY <2>1, <2>2, <3>2 DEF After
  <2>4. <<Place(i)>> \o Rest(i + 1) = Rest(i)
    <3>1. PICK m \in Nat : N - (i + 1) = m /\ N - i = m + 1
      BY <1>2
    <3>2. Rest(i + 1) = [k \in 1 .. m |-> Place(i + 1 + k - 1)]
      BY <3>1
    <3>3. \A k \in 1 .. m : Place(i + 1 + k - 1) \in Nat
      <4>1. ASSUME NEW k \in 1 .. m PROVE i + 1 + k - 1 \in 0 .. N
        BY <1>2, <3>1
      <4>. QED BY <1>2, <4>1
    <3>4. PICK r : r = Rest(i + 1)
      OBVIOUS
    <3>5. r \in [1 .. m -> Nat] /\ \A k \in 1 .. m : r[k] = Place(i + 1 + k - 1)
      BY <3>2, <3>3, <3>4
    <3>6. r \in Seq(Nat) /\ Len(r) = m
      BY <3>1, <3>5
    <3>7. Rest(i) = [k \in 1 .. m + 1 |-> Place(i + k - 1)]
      BY <3>1
    <3>. DEFINE c == <<Place(i)>> \o r
    <3>8. c \in Seq(Nat) /\ Len(c) = m + 1 /\ c[1] = Place(i)
          /\ \A k \in 1 .. m : c[k + 1] = r[k]
      BY <2>1, <3>1, <3>6
    <3>9. ASSUME NEW k \in 1 .. m + 1 PROVE c[k] = Place(i + k - 1)
      <4>1. CASE k = 1
        <5>1. i + k - 1 = i
          BY <4>1
        <5>. QED BY <3>8, <4>1, <5>1
      <4>2. CASE k # 1
        <5>1. PICK j \in 1 .. m : j + 1 = k
          BY <3>1, <4>2
        <5>2. i + 1 + j - 1 = i + k - 1
          BY <3>1, <5>1
        <5>. QED BY <3>8, <3>5, <5>1, <5>2
      <4>. QED BY <4>1, <4>2
    <3>10. c = [k \in 1 .. m + 1 |-> c[k]]
      BY <3>1, <3>8
    <3>. HIDE DEF c
    <3>11. c = Rest(i)
      BY <3>7, <3>9, <3>10
    <3>. QED BY <3>4, <3>11 DEF c
  <2>. QED BY <1>4, <2>3, <2>4
<1>. DEFINE Good(i) == g[Place(i)] = Rest(i)
<1>. HIDE DEF Good, N
<1>5. Good(N) /\ \A i \in 0 .. N - 1 : Good(i + 1) => Good(i)
  BY <1>3, <1>4 DEF Good, N
<1>6. N \in Nat
  BY <1>2 DEF N
<1>. DEFINE Bad == {n \in 0 .. N : ~ Good(N - n)}
<1>7. Bad = {}
  <2>. SUFFICES ASSUME Bad # {} PROVE FALSE
    OBVIOUS
  <2>1. Bad \subseteq Nat
    BY <1>6
  <2>2. PICK n \in Bad : \A m \in Bad : n <= m
    BY <2>1, LeastNatural
  <2>3. n # 0 /\ n \in 1 .. N
    BY <1>5, <1>6, <2>2
  <2>4. n - 1 \in 0 .. N /\ n - 1 \notin Bad
    BY <1>6, <2>2, <2>3
  <2>5. Good(N - (n - 1)) /\ N - (n - 1) = (N - n) + 1 /\ N - n \in 0 .. N - 1
    BY <1>6, <2>3, <2>4
  <2>6. Good(N - n)
    BY <1>5, <2>5
  <2>. QED BY <2>2, <2>6
<1>8. Good(0)
  <2>1. N \in 0 .. N /\ N - N = 0
    BY <1>6
  <2>. QED BY <1>7, <2>1
<1>9. g[0] = Rest(0)
  BY <1>2, <1>8 DEF Good
<1>10. Rest(0) = [k \in 1 .. N |-> Place(k - 1)]
  <2>1. N - 0 = N /\ \A k \in 1 .. N : 0 + k - 1 = k - 1
    BY <1>6
  <2>. QED BY <2>1
<1>. QED BY <1>1, <1>9, <1>10 DEF N

\* The abstract log is what was written, whole record by whole record.
LEMMA FileIs == FaultFreeInv => InFile = Kept /\ Len(Starts) = InLog
<1>. SUFFICES ASSUME FaultFreeInv PROVE InFile = Kept /\ Len(Starts) = InLog
  OBVIOUS
<1>1. PICK N \in Nat : N = InLog
  BY ShownToTheEnd
<1>2. Starts = [k \in 1 .. N |-> Place(k - 1)]
  BY <1>1, StartsAre
<1>3. Len(Starts) = N
  BY <1>2
<1>4. ASSUME NEW i \in 0 .. N - 1
      PROVE  /\ Place(i) \in Nat /\ log[Place(i) + 1] = BaseOffset + i
             /\ SubSeq(log, Place(i) + Header + 1, Place(i) + Header + log[Place(i) + Header])
                  = Kept[i]
  <2>1. i \in 0 .. InLog - 1
    BY <1>1
  <2>. QED BY <2>1, RecordShown
<1>5. Range(Starts) = {Place(i) : i \in 0 .. N - 1}
  <2>1. Range(Starts) = {Place(k - 1) : k \in 1 .. N}
    BY <1>2 DEF Range
  <2>2. \A k \in 1 .. N : k - 1 \in 0 .. N - 1
    OBVIOUS
  <2>3. \A i \in 0 .. N - 1 : i + 1 \in 1 .. N /\ (i + 1) - 1 = i
    OBVIOUS
  <2>. QED BY <2>1, <2>2, <2>3
<1>6. BaseOffset \in Nat
  BY SizesNat
<1>7. {log[p + 1] - BaseOffset : p \in Range(Starts)} = 0 .. N - 1
  <2>1. \A i \in 0 .. N - 1 : log[Place(i) + 1] - BaseOffset = i
    BY <1>4, <1>6
  <2>. QED BY <1>5, <2>1
<1>8. ASSUME NEW o \in 0 .. N - 1
      PROVE  (LET p == CHOOSE q \in Range(Starts) : log[q + 1] - BaseOffset = o
              IN SubSeq(log, p + Header + 1, p + Header + log[p + Header])) = Kept[o]
  <2>. DEFINE p == CHOOSE q \in Range(Starts) : log[q + 1] - BaseOffset = o
  <2>1. \E q \in Range(Starts) : log[q + 1] - BaseOffset = o
    <3>1. Place(o) \in Range(Starts)
      BY <1>5
    <3>2. log[Place(o) + 1] - BaseOffset = o
      <4>1. log[Place(o) + 1] = BaseOffset + o
        BY <1>4
      <4>. QED BY <1>6, <4>1
    <3>. QED BY <3>1, <3>2
  <2>2. p \in Range(Starts) /\ log[p + 1] - BaseOffset = o
    BY <2>1
  <2>. HIDE DEF p
  <2>3. PICK i \in 0 .. N - 1 : p = Place(i)
    BY <1>5, <2>2
  <2>4. i = o
    BY <1>4, <1>6, <2>2, <2>3
  <2>5. SubSeq(log, p + Header + 1, p + Header + log[p + Header]) = Kept[o]
    BY <1>4, <2>3, <2>4
  <2>. QED BY <2>5 DEF p
<1>9. InFile = [o \in 0 .. N - 1 |->
                  LET p == CHOOSE q \in Range(Starts) : log[q + 1] - BaseOffset = o
                  IN SubSeq(log, p + Header + 1, p + Header + log[p + Header])]
  BY <1>7 DEF InFile
<1>10. InFile = [o \in 0 .. N - 1 |-> Kept[o]]
  BY <1>8, <1>9
<1>11. Kept = [o \in 0 .. N - 1 |-> Kept[o]]
  BY <1>1 DEF Kept
<1>. QED BY <1>1, <1>3, <1>10, <1>11

\* A message is appended when the last of its words is in the file.
LEMMA RecordAppended ==
  ASSUME NEW N \in Nat, InLog = N, InLog' = N + 1, NEW p,
         \A o \in 0 .. N - 1 : Kept'[o] = Kept[o], Kept'[N] = p
  PROVE  /\ Kept' = [o \in DOMAIN Kept \cup {InLog} |-> IF o = InLog THEN p ELSE Kept[o]]
         /\ InLog' = InLog + 1
<1>1. DOMAIN Kept = 0 .. N - 1
  BY DEF Kept
<1>2. Kept' = [o \in 0 .. N |-> Kept'[o]]
  <2>1. Kept' = [o \in 0 .. (N + 1) - 1 |-> Kept'[o]]
    BY DEF Kept
  <2>. QED BY <2>1
<1>3. DOMAIN Kept \cup {InLog} = 0 .. N
  BY <1>1
<1>. QED BY <1>2, <1>3

LEMMA KeptSame ==
  ASSUME records' = records, Pending' = Pending PROVE Kept' = Kept /\ InLog' = InLog
BY DEF Kept, InLog, Whole

LEMMA RecordStep ==
  ASSUME FaultFreeInv, Faults = {}, [Next]_vars
  PROVE  \/ Kept' = Kept /\ InLog' = InLog
         \/ \E p \in Payload :
              /\ Kept' = [o \in DOMAIN Kept \cup {InLog} |-> IF o = InLog THEN p ELSE Kept[o]]
              /\ InLog' = InLog + 1
         \/ Kept' = CL!NoMessages /\ InLog' = 0
<1>1. /\ TypeInv /\ Whole \in Nat
  BY ServedFacts
<1>2. CASE \E p \in Payload : Write(p)
  <2>1. PICK p \in Payload : Write(p)
    BY <1>2
  <2>2. /\ pc = "idle" /\ pc' = "payload" /\ payload' = p /\ records' = records
    BY <2>1 DEF Write, history
  <2>3. CASE p = <<>>
    <3>1. Pending = 0 /\ Pending' = 1 /\ Whole' = Whole
      BY <2>2, <2>3 DEF Pending, Whole
    <3>2. InLog = Whole /\ InLog' = Whole + 1
      BY <1>1, <3>1 DEF InLog
    <3>3. PICK N \in Nat : N = Whole
      BY <1>1
    <3>4. (\A o \in 0 .. N - 1 : Kept'[o] = Kept[o]) /\ Kept'[N] = p
      BY <2>2, <2>3, <3>1, <3>2, <3>3 DEF Kept
    <3>5. InLog = N /\ InLog' = N + 1
      BY <3>2, <3>3
    <3>. QED BY <3>4, <3>5, RecordAppended
  <2>4. CASE p # <<>>
    <3>1. Pending = 0 /\ Pending' = 0
      BY <2>2, <2>4 DEF Pending
    <3>. QED BY <2>2, <3>1, KeptSame
  <2>. QED BY <2>3, <2>4
<1>3. CASE WritePayload
  <2>1. /\ pc = "payload" /\ pc' = "index" /\ payload \in Payload
        /\ records' = Append(records, [pos |-> Len(log) - Header, payload |-> payload])
    BY <1>1, <1>3 DEF WritePayload, TypeInv
  <2>2. PICK N \in Nat : N = Whole
    BY <1>1
  <2>3. /\ Whole' = N + 1
        /\ \A i \in 1 .. N : records'[i] = records[i]
        /\ records'[N + 1] = [pos |-> Len(log) - Header, payload |-> payload]
    <3>1. records \in Seq([pos : Nat, payload : Payload])
      BY <1>1 DEF TypeInv, TypeOK
    <3>. QED BY <2>1, <2>2, <3>1 DEF Whole
  <2>4. records'[N + 1].payload = payload
    BY <2>3
  <2>5. Pending' = 0 /\ InLog' = N + 1
    BY <2>1, <2>3 DEF Pending, InLog
  <2>6. ASSUME NEW o \in 0 .. N
        PROVE  Kept'[o] = records'[o + 1].payload
    BY <2>3, <2>5 DEF Kept
  <2>7. ASSUME NEW o \in 0 .. N - 1
        PROVE  Kept'[o] = records[o + 1].payload
    <3>1. o \in 0 .. N /\ o + 1 \in 1 .. N
      OBVIOUS
    <3>. QED BY <2>3, <2>6, <3>1
  <2>8. Kept'[N] = payload
    <3>1. N \in 0 .. N
      OBVIOUS
    <3>. QED BY <2>4, <2>6, <3>1
  <2>9. CASE payload # <<>>
    <3>1. Pending = 0 /\ InLog = N
      BY <2>2, <2>9 DEF Pending, InLog
    <3>2. \A o \in 0 .. N - 1 : Kept'[o] = Kept[o]
      BY <2>2, <2>7, <3>1 DEF Kept
    <3>. QED BY <2>1, <2>5, <2>8, <3>1, <3>2, RecordAppended
  <2>10. CASE payload = <<>>
    <3>1. Pending = 1 /\ InLog = N + 1
      BY <2>1, <2>2, <2>10 DEF Pending, InLog
    <3>2. \A o \in 0 .. N : Kept'[o] = Kept[o]
      <4>1. Kept[N] = <<>> /\ \A o \in 0 .. N - 1 : Kept[o] = records[o + 1].payload
        BY <2>2, <3>1 DEF Kept
      <4>2. ASSUME NEW o \in 0 .. N PROVE o = N \/ o \in 0 .. N - 1
        OBVIOUS
      <4>. QED BY <2>7, <2>8, <2>10, <4>1, <4>2
    <3>3. /\ Kept = [o \in 0 .. N |-> Kept[o]]
          /\ Kept' = [o \in 0 .. N |-> Kept'[o]]
      <4>1. (N + 1) - 1 = N
        OBVIOUS
      <4>. QED BY <2>5, <3>1, <4>1 DEF Kept
    <3>. QED BY <2>5, <3>1, <3>2, <3>3
  <2>. QED BY <2>9, <2>10
<1>4. CASE DeleteSegment
  <2>1. records' = <<>> /\ pc' = "down"
    BY <1>4 DEF DeleteSegment
  <2>2. Whole' = 0 /\ Pending' = 0 /\ InLog' = 0
    BY <2>1 DEF Whole, Pending, InLog
  <2>3. 0 .. InLog' - 1 = {}
    BY <2>2
  <2>4. Kept' = CL!NoMessages
    BY <2>3 DEF Kept, CL!NoMessages
  <2>. QED BY <2>2, <2>4
<1>5. CASE Open \/ ScanRecord \/ ScanDone \/ WriteIndex \/ Close \/ Crash \/ UNCHANGED vars
  <2>1. records' = records
    BY <1>5 DEF Open, ScanRecord, ScanDone, WriteIndex, Close, Crash, history, vars
  <2>2. Pending' = Pending
    <3>1. CASE UNCHANGED vars
      BY <3>1 DEF vars, object, Pending
    <3>2. CASE Open \/ ScanRecord \/ ScanDone \/ WriteIndex \/ Close \/ Crash
      <4>1. pc # "payload" /\ pc' # "payload"
        BY <3>2 DEF Open, ScanRecord, AfterSeek, ScanDone, WriteIndex, Close, Crash
      <4>. QED BY <4>1 DEF Pending
    <3>. QED BY <1>5, <3>1, <3>2
  <2>. QED BY <2>1, <2>2, KeptSame
<1>6. ~ ShortHeader /\ ~ ShortPayload /\ ~ OpenRefused /\ ~ ScanFails /\ ~ WriteOverflow
  BY NeverRefused DEF ShortHeader, ShortPayload
<1>. QED BY <1>2, <1>3, <1>4, <1>5, <1>6 DEF Next, Scan

\* The file implements the abstract log: a message has its offset from the moment
\* its record is whole, acknowledged or not, and the one after a restart the next.
THEOREM SegmentRefinement ==
  ASSUME Faults = {}, RoomForAll, MaxSize < HalfWord PROVE Spec => ImplementsCommitLog
<1>1. Init => CL!Init
  <2>. SUFFICES ASSUME Init PROVE CL!Init
    OBVIOUS
  <2>1. InFile = Kept /\ Len(Starts) = InLog
    BY FaultFreeInit, FileIs
  <2>2. InLog = 0
    BY DEF Init, InLog, Whole, Pending
  <2>3. 0 .. InLog - 1 = {}
    BY <2>2
  <2>4. Kept = CL!NoMessages
    BY <2>3 DEF Kept, CL!NoMessages
  <2>. QED BY <2>1, <2>2, <2>4 DEF CL!Init
<1>2. FaultFreeInv /\ FaultFreeInv' /\ [Next]_vars => [CL!Next]_(CL!vars)
  <2>. SUFFICES ASSUME FaultFreeInv, FaultFreeInv', [Next]_vars PROVE [CL!Next]_(CL!vars)
    OBVIOUS
  <2>1. InFile = Kept /\ Len(Starts) = InLog
    BY FileIs
  <2>2. InFile' = Kept' /\ Len(Starts)' = InLog'
    <3>1. (FaultFreeInv => InFile = Kept /\ Len(Starts) = InLog)'
      BY FileIs, PTL
    <3>. QED BY <3>1
  <2>3. CASE Kept' = Kept /\ InLog' = InLog
    BY <2>1, <2>2, <2>3 DEF CL!vars
  <2>4. CASE \E p \in Payload :
               /\ Kept' = [o \in DOMAIN Kept \cup {InLog} |-> IF o = InLog THEN p ELSE Kept[o]]
               /\ InLog' = InLog + 1
    BY <2>1, <2>2, <2>4 DEF CL!Next, CL!AppendMessage
  <2>5. CASE Kept' = CL!NoMessages /\ InLog' = 0
    BY <2>1, <2>2, <2>5 DEF CL!Next, CL!Destroy
  <2>. QED BY <2>3, <2>4, <2>5, RecordStep
<1>. QED BY <1>1, <1>2, FaultFreeInvariance, PTL DEF Spec, CL!Spec, ImplementsCommitLog

-----------------------------------------------------------------------------
(* What ScanEnds rests on besides fairness                                 *)

\* The entries the index has room for.
Room == IndexCap - count

\* While the segment is scanned only the scan and the death of the process happen,
\* and a turn of the loop takes a place of the index, wherever it leads.
ScanUsesIndex ==
  [][pc = "scan" => \/ ScanRecord /\ Room' \in 0 .. Room - 1
                    \/ (ScanDone \/ ScanFails \/ Crash) /\ pc' # "scan"]_vars

\* The scan is at a place of the file, or past its end: there is a record to index, or
\* the end to recognise, or an error to report.
ScanGoesOn ==
  pc = "scan" =>
    /\ position >= 0
    /\ \/ position + 1 < Len(log) /\ count < IndexCap
       \/ position >= Len(log)
       \/ ScanTorn \/ ScanOverflow

LEMMA ScanTurn ==
  ASSUME TypeInv, ScanRecord PROVE Room' \in 0 .. Room - 1
<1>1. /\ count \in 0 .. IndexCap /\ count < IndexCap /\ count' = count + 1
      /\ IndexCap \in Nat
  BY SizesNat DEF ScanRecord, TypeInv, TypeOK
<1>2. Room = IndexCap - count /\ Room' = IndexCap - count'
  BY DEF Room
<1>. QED BY <1>1, <1>2

\* Whatever the log holds, records or bytes of payloads taken for records, and even
\* when a negative size leads the scan back over records it has read, a turn of the
\* loop leaves the index less room; an index without room ends it
\* (Segment.cc:113-141, Index.cc:98-101).
THEOREM ScanAdvances == Spec => ScanUsesIndex
<1>1. TypeInv /\ [Next]_vars =>
        [pc = "scan" => \/ ScanRecord /\ Room' \in 0 .. Room - 1
                        \/ (ScanDone \/ ScanFails \/ Crash) /\ pc' # "scan"]_vars
  <2>. SUFFICES ASSUME TypeInv, Next, pc = "scan"
                PROVE  \/ ScanRecord /\ Room' \in 0 .. Room - 1
                       \/ (ScanDone \/ ScanFails \/ Crash) /\ pc' # "scan"
    OBVIOUS
  <2>1. CASE ScanRecord
    BY <2>1, ScanTurn
  <2>2. CASE ScanDone \/ ScanFails \/ Crash
    BY <2>2 DEF ScanDone, ScanFails, Crash
  <2>. QED BY <2>1, <2>2 DEF Next, Scan, Open, OpenRefused, Write, WritePayload,
              WriteIndex, WriteOverflow, ShortHeader, ShortPayload, Close, DeleteSegment
<1>2. Spec => []TypeInv
  BY TypeInit, TypeNext, PTL DEF Spec
<1>. QED BY <1>1, <1>2, PTL DEF Spec, ScanUsesIndex

\* And it is never stuck nor before the start of the file: a seek that would lead it
\* there has ended it, and what is neither a record to index nor the end of the file is
\* an error that ends it (Segment.cc:113-141).
THEOREM ScanDecides == Spec => []ScanGoesOn
<1>1. TypeInv => ScanGoesOn
  <2>. SUFFICES ASSUME TypeInv, pc = "scan"
                PROVE  /\ position >= 0
                       /\ \/ position + 1 < Len(log) /\ count < IndexCap
                          \/ position >= Len(log)
                          \/ ScanTorn \/ ScanOverflow
    BY DEF ScanGoesOn
  <2>1. PICK n \in Nat : n = Len(log)
    BY DEF TypeInv, TypeOK
  <2>2. position \in Nat /\ count \in 0 .. IndexCap /\ IndexCap \in Nat
    BY SizesNat DEF TypeInv, TypeOK
  <2>3. position >= n \/ position + 1 = n \/ position + 1 < n
    BY <2>1, <2>2
  <2>. QED BY <2>1, <2>2, <2>3 DEF ScanTorn, ScanOverflow
<1>2. Spec => []TypeInv
  BY TypeInit, TypeNext, PTL DEF Spec
<1>. QED BY <1>1, <1>2, PTL

=============================================================================
