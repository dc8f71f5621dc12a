------------------------------ MODULE Segment ------------------------------
(***************************************************************************)
(* One segment (src/src/commitlog/Segment.cc) and its index (Index.cc):    *)
(* the .log file word by word, the memory-mapped .index file entry by      *)
(* entry, and the object that appends to both.  A record is a header of    *)
(* two words, its offset and its size, and as many payload words; they     *)
(* reach the file by two calls of ::write, and the process may be killed   *)
(* or a call refused in between.                                           *)
(*                                                                         *)
(* Offsets and positions in the index are relative: counted from the base  *)
(* offset of the segment and from the start of the file.  Words are        *)
(* signed: a scan may take any bytes of a payload for an offset or a size. *)
(***************************************************************************)
EXTENDS Integers, SequencesExt

CONSTANTS
  Payload,     \* the payloads written: sequences of words
  BaseOffset,  \* base_offset_
  MaxSize,     \* max_size_
  IndexCap,    \* the entries an index holds: size_ / ENTRY_WIDTH
  HalfWord,    \* 2^31: an index holds 32-bit integers, fewer than that
  Faults,      \* the failures considered, see Fault
  MaxWords     \* bound: no write begins on a log of more words

Fault == {"killed_in_write",  \* the process dies between the two calls of ::write
          "short_write"}      \* a call of ::write writes less than it was given

ASSUME PayloadWords == Payload \subseteq Seq(Int)
ASSUME SizesNat == /\ BaseOffset \in Nat /\ MaxSize \in Nat
                   /\ IndexCap \in Nat \ {0} /\ HalfWord \in Nat \ {0}
                   /\ MaxWords \in Nat /\ IndexCap <= HalfWord
ASSUME FaultsKnown == Faults \subseteq Fault

VARIABLES
  log,        \* the .log file
  cells,      \* the entries of the .index file, zeros where it has none
  length,     \* the entries the .index file has, IndexCap while it is mapped
  pc,         \* the point the running operation has reached
  count,      \* Index::position_ / ENTRY_WIDTH
  position,   \* position_, and during the scan the place of the next read
  nextOffset, \* next_offset_
  size,       \* physical_size_
  payload,    \* the payload of the write in progress
  records,    \* history: the records whole in the log, where they are
  acked       \* history: the offsets and payloads acknowledged

index == <<cells, length>>
disk == <<log, index>>
object == <<count, position, nextOffset, size, payload>>
history == <<records, acked>>
vars == <<disk, pc, object, history>>

Header == 2
Entry == [off : Int, pos : Int]
NoEntry == [off |-> 0, pos |-> 0]

Points == {"down", "scan", "idle", "payload", "index", "failed"}

TypeOK ==
  /\ log \in Seq(Int)
  /\ cells \in [0 .. IndexCap - 1 -> Entry]
  /\ length \in 0 .. IndexCap
  /\ pc \in Points
  /\ count \in 0 .. IndexCap
  /\ position \in Int /\ nextOffset \in Int /\ size \in Nat
  /\ payload \in Payload \cup {<<>>}
  /\ records \in Seq([pos : Nat, payload : Payload])
  /\ acked \subseteq [offset : Int, payload : Payload]

-----------------------------------------------------------------------------
(* Index::write, Index::close                                              *)

\* A number as a 32-bit integer: rel_offset, rel_position.
Narrow(p) == ((p + HalfWord) % (2 * HalfWord)) - HalfWord

\* The cells once an entry for offset o at position p is written at n.
WithEntry(n, o, p) ==
  [cells EXCEPT ![n] = [off |-> Narrow(o - BaseOffset), pos |-> Narrow(p)]]

\* Closing cuts the file after its entries; opening it again fills with zeros.
CutIndex ==
  /\ cells' = [i \in DOMAIN cells |-> IF i < count THEN cells[i] ELSE NoEntry]
  /\ length' = count

LoseMemory ==
  /\ count' = 0 /\ position' = 0 /\ nextOffset' = BaseOffset
  /\ size' = 0 /\ payload' = <<>>

-----------------------------------------------------------------------------
(* Segment::open, reconstructIndexAndGetLastOffset                         *)

\* Index::sanityCheck: the last entry of the file does not come before the base.
Sane == length > 0 => cells[length - 1].off >= 0

\* The index is mapped at its full size, what a kill left in it included, and then
\* truncated to no entry.
OpenIndex == count' = 0 /\ length' = IndexCap /\ UNCHANGED cells

\* The object is new: position_ is 0.
Open ==
  /\ pc \in {"down", "failed"}
  /\ Sane
  /\ pc' = "scan"
  /\ OpenIndex
  /\ size' = Len(log)
  /\ UNCHANGED <<log, position, nextOffset, payload, history>>

\* The object is destroyed: the index closes with the length it had.
OpenRefused ==
  /\ pc \in {"down", "failed"}
  /\ ~ Sane
  /\ pc' = "failed"
  /\ UNCHANGED <<disk, object, history>>

\* The size of the record being scanned is gone, or the index is full.
ScanTorn == position + 1 = Len(log)
ScanOverflow == position + 1 < Len(log) /\ count = IndexCap

\* Where the record being scanned says the next one is.  The size is whatever the
\* file has there, and a negative one leads back.
NextPosition == position + Header + log[position + 2]

\* Seeking before the start of the file fails, and that ends the scan well.
AfterSeek == IF NextPosition < 0 THEN "idle" ELSE "scan"

\* Bug: next_offset_ stays at the offset of the last record.
Bug_ScanRecord ==
  /\ pc = "scan"
  /\ position + 1 < Len(log) /\ count < IndexCap
  /\ cells' = WithEntry(count, log[position + 1], position)
  /\ count' = count + 1
  /\ nextOffset' = log[position + 1]
  /\ position' = NextPosition
  /\ pc' = AfterSeek
  /\ UNCHANGED <<log, length, size, payload, history>>

\* Bug: a full index is no reason to stop.
Bug_ScanFull ==
  /\ pc = "scan"
  /\ position + 1 < Len(log)
  /\ IF count < IndexCap
       THEN /\ cells' = WithEntry(count, log[position + 1], position)
            /\ count' = count + 1
       ELSE UNCHANGED <<cells, count>>
  /\ nextOffset' = log[position + 1] + 1
  /\ position' = NextPosition
  /\ pc' = AfterSeek
  /\ UNCHANGED <<log, length, size, payload, history>>

\* One turn of the loop.  lseek goes past the end of the file if it must.
ScanRecord ==
  /\ pc = "scan"
  /\ position + 1 < Len(log) /\ count < IndexCap
  /\ cells' = WithEntry(count, log[position + 1], position)
  /\ count' = count + 1
  /\ nextOffset' = log[position + 1] + 1
  /\ position' = NextPosition
  /\ pc' = AfterSeek
  /\ UNCHANGED <<log, length, size, payload, history>>

ScanDone ==
  /\ pc = "scan"
  /\ position >= Len(log)
  /\ pc' = "idle"
  /\ UNCHANGED <<disk, object, history>>

\* The open is refused; the object is destroyed.
ScanFails ==
  /\ pc = "scan"
  /\ ScanTorn \/ ScanOverflow
  /\ pc' = "failed"
  /\ CutIndex
  /\ LoseMemory
  /\ UNCHANGED <<log, history>>

-----------------------------------------------------------------------------
(* Segment::write                                                          *)

IsFull == position > MaxSize

\* Bug: the size written counts the header.
Bug_Write(p) ==
  /\ pc = "idle"
  /\ ~ IsFull /\ Len(log) <= MaxWords
  /\ log' = log \o <<nextOffset, Header + Len(p)>>
  /\ payload' = p
  /\ pc' = "payload"
  /\ UNCHANGED <<index, count, position, nextOffset, size, history>>

\* The header.  Partition::write uses a segment that is not full.
Write(p) ==
  /\ pc = "idle"
  /\ ~ IsFull /\ Len(log) <= MaxWords
  /\ log' = log \o <<nextOffset, Len(p)>>
  /\ payload' = p
  /\ pc' = "payload"
  /\ UNCHANGED <<index, count, position, nextOffset, size, history>>

WritePayload ==
  /\ pc = "payload"
  /\ log' = log \o payload
  /\ records' = Append(records, [pos |-> Len(log) - Header, payload |-> payload])
  /\ pc' = "index"
  /\ UNCHANGED <<index, object, acked>>

\* Bug: the position grows by the payload only.
Bug_WriteIndex ==
  /\ pc = "index" /\ count < IndexCap
  /\ cells' = WithEntry(count, nextOffset, position)
  /\ count' = count + 1
  /\ acked' = acked \cup {[offset |-> nextOffset, payload |-> payload]}
  /\ nextOffset' = nextOffset + 1
  /\ position' = position + Len(payload)
  /\ size' = size + Header + Len(payload)
  /\ payload' = <<>>
  /\ pc' = "idle"
  /\ UNCHANGED <<log, length, records>>

\* Bug: the index is not asked whether it has room.
Bug_Overflow ==
  /\ pc = "index"
  /\ cells' = cells
  /\ count' = count + 1
  /\ acked' = acked \cup {[offset |-> nextOffset, payload |-> payload]}
  /\ nextOffset' = nextOffset + 1
  /\ position' = position + Header + Len(payload)
  /\ size' = size + Header + Len(payload)
  /\ payload' = <<>>
  /\ pc' = "idle"
  /\ UNCHANGED <<log, length, records>>

WriteIndex ==
  /\ pc = "index" /\ count < IndexCap
  /\ cells' = WithEntry(count, nextOffset, position)
  /\ count' = count + 1
  /\ acked' = acked \cup {[offset |-> nextOffset, payload |-> payload]}
  /\ nextOffset' = nextOffset + 1
  /\ position' = position + Header + Len(payload)
  /\ size' = size + Header + Len(payload)
  /\ payload' = <<>>
  /\ pc' = "idle"
  /\ UNCHANGED <<log, length, records>>

\* The index has no room: the write is refused, its record stays in the log.
WriteOverflow ==
  /\ pc = "index" /\ count = IndexCap
  /\ payload' = <<>>
  /\ pc' = "idle"
  /\ UNCHANGED <<disk, count, position, nextOffset, size, history>>

\* ::write stops short inside the header, or inside the payload.
ShortHeader ==
  /\ "short_write" \in Faults
  /\ pc = "idle"
  /\ ~ IsFull /\ Len(log) <= MaxWords
  /\ log' = Append(log, nextOffset)
  /\ UNCHANGED <<index, pc, object, history>>

ShortPayload ==
  /\ "short_write" \in Faults
  /\ pc = "payload"
  /\ \E n \in 0 .. Len(payload) - 1 : log' = log \o SubSeq(payload, 1, n)
  /\ payload' = <<>>
  /\ pc' = "idle"
  /\ UNCHANGED <<index, count, position, nextOffset, size, history>>

-----------------------------------------------------------------------------
(* Segment::close, Segment::deleteSegment, the death of the process        *)

Close ==
  /\ pc = "idle"
  /\ pc' = "down"
  /\ CutIndex
  /\ LoseMemory
  /\ UNCHANGED <<log, history>>

DeleteSegment ==
  /\ pc = "idle"
  /\ pc' = "down"
  /\ log' = <<>>
  /\ cells' = [i \in DOMAIN cells |-> NoEntry] /\ length' = 0
  /\ records' = <<>> /\ acked' = {}
  /\ LoseMemory

\* The mapped index keeps what was written to it.
Crash ==
  /\ pc # "down"
  /\ pc = "payload" => "killed_in_write" \in Faults
  /\ pc' = "down"
  /\ LoseMemory
  /\ UNCHANGED <<disk, history>>

-----------------------------------------------------------------------------
Init ==
  /\ log = <<>>
  /\ cells = [i \in 0 .. IndexCap - 1 |-> NoEntry] /\ length = 0
  /\ pc = "down"
  /\ count = 0 /\ position = 0 /\ nextOffset = BaseOffset
  /\ size = 0 /\ payload = <<>>
  /\ records = <<>> /\ acked = {}

Scan == ScanRecord \/ ScanDone \/ ScanFails

Next ==
  \/ Open \/ OpenRefused \/ Scan
  \/ \E p \in Payload : Write(p)
  \/ WritePayload \/ WriteIndex \/ WriteOverflow
  \/ ShortHeader \/ ShortPayload
  \/ Close \/ DeleteSegment \/ Crash

Spec == Init /\ [][Next]_vars

\* The thread that opens the segment keeps running until the process is killed.
FairSpec == Spec /\ WF_vars(Scan)

-----------------------------------------------------------------------------
(* Segment::findEntry, Segment::readAt                                     *)

\* Bug: the search stops one entry early.
Bug_SearchEnd == nextOffset - BaseOffset - 2

\* The range findEntry searches is what the offsets say, not what was indexed.
SearchEnd == nextOffset - BaseOffset - 1

\* Entry n, which an object may read beyond those it wrote; none past the mapping.
IndexRead(n) == {cells[i] : i \in DOMAIN cells \cap {n}}

\* The entry the binary search of findEntry answers for relative offset o, if
\* any; a probe past the mapped index is an error.
FindEntry(o) ==
  LET Search[r \in (0 .. SearchEnd + 1) \X (-1 .. SearchEnd)] ==
        LET mid == (r[1] + r[2]) \div 2
        IN IF r[1] > r[2] \/ IndexRead(mid) = {} THEN {}
           ELSE IF cells[mid].off = o THEN IndexRead(mid)
           ELSE IF cells[mid].off > o THEN Search[<<r[1], mid - 1>>]
           ELSE Search[<<mid + 1, r[2]>>]
  IN IF SearchEnd < 0 THEN {} ELSE Search[<<0, SearchEnd>>]

\* The payload read at relative offset o, no payload when the read fails.
ReadAt(o) ==
  {SubSeq(log, e.pos + Header + 1, e.pos + Header + log[e.pos + Header]) :
     e \in {f \in FindEntry(o) :
              /\ f.pos >= 0 /\ f.pos + Header <= Len(log)
              /\ log[f.pos + 1] >= 0 /\ log[f.pos + Header] >= 0
              /\ f.pos + Header + log[f.pos + Header] <= Len(log)}}

-----------------------------------------------------------------------------
EndOfRecord(r) == r.pos + Header + Len(r.payload)

\* The log holds record r, with offset o in its header.
Holds(r, o) ==
  /\ EndOfRecord(r) <= Len(log)
  /\ log[r.pos + 1] = o /\ log[r.pos + Header] = Len(r.payload)
  /\ SubSeq(log, r.pos + Header + 1, EndOfRecord(r)) = r.payload

\* Where the i-th record ends, the start of the file for i = 0.
EndAt(i) == IF i = 0 THEN 0 ELSE EndOfRecord(records[i])

\* The records follow one another from the start of the file, and what follows
\* the last is no longer than one record: nothing was appended after the
\* remains of a write that did not finish.
Unburied ==
  LET n == Len(records)
  IN /\ \A i \in 1 .. n : records[i].pos = EndAt(i - 1)
     /\ \/ Len(log) <= EndAt(n) + 1
        \/ Len(log) <= EndAt(n) + Header + log[EndAt(n) + Header]

\* The index is the log's table of contents: the entry of a record is in it, at
\* the place where the log holds the record under the same offset, it has no
\* other, and the object knows where the log ends.  Segment.hh:68-69 says of
\* write "Write at the end of the segment, the given payload. Will update the
\* index as well.", Segment.hh:60-61 of the scan "Ensure index and log are
\* synced."
IndexSynced ==
  pc = "idle" =>
    /\ count = Len(records)
    /\ \A i \in DOMAIN records :
         /\ cells[i - 1] = [off |-> i - 1, pos |-> records[i].pos]
         /\ Holds(records[i], BaseOffset + i - 1)
    /\ nextOffset = BaseOffset + Len(records)
    /\ position = Len(log) /\ size = Len(log)

\* A message acknowledged is read back from the offset that was given for it
\* (Segment.hh:73 "The offset where the data has been written"), whatever
\* closings, kills and openings happened since.
AckedReadable ==
  pc = "idle" => \A a \in acked : ReadAt(a.offset - BaseOffset) = {a.payload}

\* A write that did not finish, or that the index refused, costs none of the
\* messages acknowledged before it as long as nothing is appended to what it
\* left (Segment.cc:130-144, 150-161).
RemainsHarmless == Unburied => AckedReadable

\* The scan of any log ends, even of one that is not a sequence of records: the
\* bytes taken for a size may lead it back over records it has read, again and
\* again until the index is full (Segment.cc:123-141, Index.cc:98-101).
ScanEnds == pc = "scan" ~> pc # "scan"

\* Without a fault and with room in the index, no open is refused
\* (Segment.cc:126-135): the file left by a process killed anywhere else is
\* one that the next process can serve.
ReopenSucceeds == pc # "failed"

\* Where the whole records of the file begin, read from its headers alone.
Starts ==
  LET From[p \in 0 .. Len(log)] ==
        IF \/ p + Header > Len(log) \/ log[p + Header] < 0
           \/ p + Header + log[p + Header] > Len(log)
        THEN <<>> ELSE <<p>> \o From[p + Header + log[p + Header]]
  IN From[0]

InFile ==
  [o \in {log[p + 1] - BaseOffset : p \in Range(Starts)} |->
     LET p == CHOOSE q \in Range(Starts) : log[q + 1] - BaseOffset = o
     IN SubSeq(log, p + Header + 1, p + Header + log[p + Header])]

\* The file implements the abstract log, its offsets counted from its base: a
\* record counts from the moment it is whole in the file, acknowledged or not,
\* and the one after a restart takes the next offset.
CL == INSTANCE CommitLog WITH messages <- InFile, next <- Len(Starts)
ImplementsCommitLog == CL!Spec
=============================================================================
