# A verification project for myKafka

myKafka is a small message broker in C++: producers append messages to the
partitions of topics, consumers read them back by offset.  This directory holds
TLA+ models of its core, the TLC configurations that check them, and proofs
checked by TLAPS.  `PROJECT.json` says, for every definition that models code,
which lines it stands for; paths below are relative to `src/src/`.

## 1. The system

| Part | State | Operations | Talks to |
|---|---|---|---|
| `commitlog/Index` | mapped `.index` file, `position_` | open, write, read, truncateEntries, sanityCheck, close, deleteIndex | the kernel (mmap) |
| `commitlog/Segment` | `.log` file, `next_offset_`, `position_`, `physical_size_`, `mtime_`, an Index | open (scan of the log, index rebuilt), write, readAt, findEntry, close, deleteSegment | Index, the kernel |
| `commitlog/Partition` | a directory of segment files, `segments_`, `active_segment_`, `physical_size_`, `cancel_` | open, write (rollover, retention), readAt, oldest and newest offset, close, deletePartition | Segment, the clock |
| `utils/ConfigManager` | a mapped `.cfg` file per partition, `configs_` (a copy) | load, create, open, get, update, updateCommitOffset, remove, close | the kernel (mmap) |
| `broker/Broker` | `topics_`, `mutex_` | load, createPartition, deletePartition, deleteTopic, sendMessage, getMessage, getOffsets, getTopicInfo, close | Partition, ConfigManager |
| `network/RpcServer`, `RpcService`, `*Service` | completion queue, worker threads, one object per call | run, handleRpcs, proceed, process | Broker, gRPC |
| `network/Client` | channel, stub | one method per call, with a retry loop | the server |
| `main-server`, `main-producer`, `main-consumer`, `main-ctl` | the consumer's offset | load then serve; read lines and send; ask, print, advance; one call | Client, Broker |
| `utils/Utils` | none | errors, rounding, hashing | |

What is hard in it:

* **Death of the process.**  The server has no way to stop but being killed, so
  that every file is at any time what the next start will find.  The page cache
  and the mapped files outlive the process: files are cut between system calls,
  not inside.  (A failure of the machine is not considered: nothing is ever
  synced.)
* **Threads.**  The worker threads of the RPC server run the handlers.  The
  broker's `mutex_` makes handlers exclusive (or shared, for `getOffsets` and
  `getTopicInfo`); `getOffsets` reads the commit offset after releasing it.
* **Partial failures.**  Every system call is checked and its error returned, and
  rarely is what was done before it undone.
* **Time.**  Retention compares `::time(0)` with times of modification
  remembered by the segments.
* **Retries.**  The client sends again what may already have been done.

What makes each part correct:

* Index and Segment: every acknowledged message is read back at its offset; the
  index names exactly the records of the log; any log the program leaves can be
  opened again.
* Partition: offsets are given without a hole, kept, and forgotten from the old
  end only; limits are enforced and not more than enforced.
* ConfigManager and Broker: the four places that know a partition (directory,
  `.cfg` file, `topics_`, `configs_`) agree between requests; an acknowledged
  message is visible; the commit offset is the last offset.
* RPC server and clients: each call gets one answer and each service is freed
  once; a message sent is written at least once, and a consumer reads every
  message kept, in order.

The hazards, each at its line and with the properties that cover it, are listed
in `PROJECT.json`.

## 2. The modules

```
CommitLog            what a partition promises (abstract)
  ^         ^
  | implements
Partition   Segment          OffsetSearch       Broker
  ^           (one file of     (the searches      (partitions as offset
  |           Partition,       inside both)       ranges, configurations,
  |           word by word)                       threads)
  |- PartitionFaults   removals that fail, a clock that steps back
  |    ^- PartitionFaultsProofs
  |- PartitionProofs (with Sums, and an INSTANCE of OffsetSearch)

Segment      <- SegmentProofs (with Sums)
OffsetSearch <- OffsetSearchProofs
Broker       <- BrokerProofs

Delivery    the programs, the client library, a partition as a log
  ^- DeliveryProofs (with Sums)
RpcServer   the threads that call the handlers of Broker
  ^- RpcServerProofs (with Sums)
```

**CommitLog** is the abstract log: messages by offset, appended at `next`,
trimmed from below, or destroyed as a whole.

**Partition** is the core.  `logs` and `indexes` are the directory; `segments`,
`physicalSize` are the object; `pc` is the point reached by the operation in
progress, and there is one action for every change of the directory:

| Code | Actions |
|---|---|
| `open` | `Open`, `LoadSegment` (once per file, in order), `LoadDone`, then `MakeIndex`, `MakeLog` if there was none, then the retention pass |
| `write` | `Write`; on a full segment `MakeIndex`, `MakeLog` (rollover) and, with a limit, the retention pass; `AppendMessage` |
| `cleanOldSegments` | `UnlinkLog`, `UnlinkIndex` per segment removed, `CleanDone` |
| `close`, `deletePartition` | `Close`; `DeletePartition`, `RemoveLog`, `RemoveIndex` in any order, `RemoveDone` |
| a file cannot be created, or the new `.log` not opened for reading | `CreateFails` |
| the process is killed | `Crash`, anywhere |
| the clock | `Tick`; the retention pass reads it once, so it does not move within one |

When the read-only open of a new segment is refused its `.log` is there already: it
stays, empty and unlisted, at the next offset (`Leftover`), where the next rollover
or the next start takes it up (`NewFile`).

`readAt`, `findSegment`, `newestOffset` and `oldestOffset` change nothing and are
operators.  The partition's own lock makes its operations exclusive.  `doomed`
is a history variable: a deletion has begun and not emptied the directory.

**PartitionFaults** extends it with what `Partition` takes for granted.
`deleteSegment` closes a segment before it removes its files; when a removal is
refused (`UnlinkFails`) the segment stays in the list, closed and with a size and
a time of 0 (`StaysClosed`), the pass goes on with the next one, and every later
pass tries again.  `ReadClosed` is a read of an offset of such a segment:
`Index::read` looks into a mapping that is gone, and what that does is left
open between the death of the process and a refused read.  `ClockBack` lets
`::time(0)` step back between passes.  The deletion of the partition is left to
`Partition`.

**Segment** goes into one file.  `log` is a sequence of words: a header of two
(offset, size) and the payload, all of them signed.  `cells` is the mapped index,
which survives a kill as it is and is cut by a close; `length` is the entries its
file has.  The positions in it are 32-bit integers, which `Narrow` wraps at a width
that is a constant (`HalfWord`, 2^31 in the code).  `Sane` is `sanityCheck`, which
`open` applies to the index it finds, and `OpenRefused` what follows when it fails.
`Unburied` says that the log is what kills leave as long as nothing is appended
after an unfinished record: whole records in a chain (`EndAt`), then at most a part
of one.  The scan of `open` is a loop of `ScanRecord` ended by `ScanDone` or
`ScanFails`, or by a seek before the start of the file (`AfterSeek`), since the size
it follows may be negative payload bytes (`NextPosition`); `write` is `Write`
(header), `WritePayload`, `WriteIndex`, or `WriteOverflow` when the index is full.
`ShortHeader` and `ShortPayload` are writes that stop short.  `findEntry` is its
binary search, run on the range the code computes from the offsets and not from what
was indexed, so that what it answers on a damaged index is what the code answers.
`records` and `acked` are history variables.  In `Partition` a record is appended in
one step: `Segment` shows when this is right (no kill inside a write, room in the
index).

**OffsetSearch** is the loop shared by `findSegment` and `findEntry`.  What it is
shown to find is how `Partition!FindSegment` is defined.

**Broker** runs the handlers on a set of threads.  A partition is a range of
offsets, `dirs[k]`; `cfgs[k]` is its configuration file; `topics`, `configs` and
`cancelled` (the objects with `cancel_` set that are still listed) are memory.
`mutex_` is `lock`.  Each handler is an action that takes the lock and one
action per change of a file:

| Code | Actions |
|---|---|
| `createPartition` | `CreatePartition`, then `CreateConfigFile`, `SizeConfigFile`, `StoreConfig`, or `ConfigRefused` at any of them; `CreateRefused` when the partition cannot be opened |
| `sendMessage` | `SendMessage` (write), then `CommitOffset` or `CommitRefused`; `SendRefused` when the write fails, after a retention pass or not |
| `getOffsets` | `GetOffsets` under the lock, `GetCommitOffset` after it |
| `deletePartition` | `DeletePartition`, `CloseConfig`, `RemoveConfig` |
| `deleteTopic` | `DeleteTopic`, then per partition `DeleteOfTopic`, `CloseOfTopic`, `RemoveOfTopic`, at last `EraseTopic`; an error returns from the middle |
| `load` | `Load`, with any configurations skipped that cannot be opened; `LoadRefused` when a partition cannot be opened |
| killed | `Crash` |

`getMessage` changes nothing and holds the lock: it is the operator `Answered`.
`getTopicInfo` only formats.  A request refused at once (unknown or existing
partition) changes nothing and is left out.  `Control` is what `main-ctl.cc` asks
for.  `refused` is a history variable, the topics where a creation failed since the
last start: what the handlers leave there is not what they leave elsewhere.  So is
`skipped`, the configurations the last start could not open: `load` ignores the
error and serves without them (`ConfigManager.cc:62`).  The opening of a partition
ends with a retention pass, so that its first offset may move (`OpenedDirs`).

**RpcServer** is what runs under the handlers: `handleRpcs` is `SpecificHandle`
then a loop of `TakeEvent` and `proceed`, that is `ProceedProcess`, `Process`
(the next object of the method is made), `Finish` (the broker's work, one step
here, and the answer), or `ProceedFinish` (`delete this`).  `service[o]` is the object at an
address, and an address that is freed is the next to be used.  gRPC is external:
`Receive` gives a call to a registered object, and the event that follows an
answer may have `ok` false.

**Delivery** puts a producer and a consumer on a partition seen as a sequence of
lines.  A call is `sent`, `answered` or `failed` (`METHOD_IMPL` of `Client.cc`):
`DeadlineExceeded` fails it while the server may still execute it (`late`, or the
write in progress), `Reconnect` makes it again.  `SendLine` and `PrintAnswer` are
the producer's loop; `Ask`, `TakeFirstOffset` and `TakeMessage` the consumer's,
with its options.  In the server a write and its commit offset are two steps
(`SendMessage`, `UpdateCommitOffset`) and exclude every other handler, as in
`Broker`.  A call made again is a new one: late answers to the old one are
dropped by gRPC.  `ReadRefused` stands for every error `readAt` has for a committed
message: a failed call, a torn record (`segment_killed`), a segment left closed or a
hole (`PartitionFaults`).  A start may leave the partition out, as in `Broker`
(`known`): then every call is refused (`SendRefused`, `NoOffsets`, and `UNKNOWN` in
`MessageAt`).  A kill fails the calls in progress and may lose answers on their way;
like those of `Partition` and `Broker`, it does not fall inside `Segment::write`,
where `Segment` has it.

## 3. The runs

Every bound is a constant of its module and named there as such.

| Run | What it asks | Bounds, and why they are enough |
|---|---|---|
| `partition_size` | files, memory, reads and the abstract log, with a size limit | records of 1 and 3 bytes, segments of 2, a partition of 4, six offsets: rollovers by one record or several, exact and exceeded limits, two and more segments removed, kills everywhere, rollovers refused before and after the `.log` exists |
| `partition_retention` | the inductive invariant, the order of retention, that operations end | both limits, five instants, six offsets: files older than, at, and within the time to live, loaded and created |
| `partition_young` (fails) | a file is not removed by age while its last write is recent | smallest with a rollover after the time to live |
| `partition_faults` | what failed removals and a clock that steps back cost | two failures, three instants, both limits, six offsets: a removal refused twice, at the log and at the index, a segment taken from the middle, reads of what is left, restarts |
| `offset_search` | the search | every ascending table over 8 keys, every target in and around |
| `segment` | log, index and object agree, every open succeeds, the abstract log | payloads of 0, 1 and 2 words, a segment of 7 words, index of 4 entries: no more than 4 records begin before it is full; base offset 1 so that absolute and relative differ; positions of 4 bits (`HalfWord` 8), as wide as the segment and no wider |
| `segment_faults` | what remains of an unfinished write is harmless, the scan ends | three index entries, so that it overflows; a log of at most 7 words when a write begins, and payload words that a scan takes for offsets and sizes, some of them below the base, some negative, so that the scan goes back over records or before the start of the file |
| `segment_killed` (fails) | acknowledged messages are readable | a kill inside one write |
| `broker` | four views of a partition, acknowledged messages visible, commit offset, cache and file, answer of `getOffsets`, handlers end | two threads (one in a handler, one in `getOffsets`), two partitions of a topic, two offsets, a kill at any step, every creation, opening and write refused at will, a start's opening of a configuration (which goes unnoticed) and of a partition included |
| `rpc` | one owner per object, no deaf method, every call answered once | two threads, two methods, two calls of one and one of the other: the second call may find the only object of its method taken, two threads may be in one object, addresses are used again |
| `delivery` | lines written at least once, first in order, read without a gap, in the end | two lines, one late call, one kill, a start without the partition, refused writes and reads, any retention, the consumer with and without `--offset`, `--nb-offset` and `--stop-if-no-message`: a late write lands after the next line, a kill falls between write and commit, retention passes the consumer |
| `broker_commit` (fails) | the commit offset is the last offset | one thread, one kill |

Deadlock is checked except in `broker` and `broker_commit`: there the system
really may stop, because a kill between the creation and the sizing of a `.cfg`
file leaves a file whose mapping kills every later start (`Loadable`).

Three runs show a disagreement between the code and what is said of it:

* **`partition_young`**: `mtime_` is set when a segment is opened or created and
  never again (`commitlog/Segment.cc:72`), where `commitlog/Segment.hh:169` says
  "the last time the segment file has been modified".  With a time to live, a
  segment that was written a moment ago is removed at the next rollover.
* **`segment_killed`**: a kill between the header and the payload of a record
  leaves a header that the scan takes for a record; `position_` is past the end
  of the file while `O_APPEND` writes at its end, and messages acknowledged after
  the restart cannot be read.  `segment_faults` shows the limit of the damage:
  what was acknowledged before stays readable as long as nothing is appended.
* **`broker_commit`**: a kill between the write and the commit leaves a message
  beyond the commit offset, where `README:104-105` says that the commit offset is
  always the last offset.  The message becomes visible with the next one sent.

**Fairness.**  `Partition!FairSpec` and `Segment!FairSpec` assume weak fairness
of the steps of an operation in progress, `Broker!FairSpec` of the rest of each
thread's handler: a thread inside a call keeps running.  Nothing is assumed there of
clients, of the clock, of starts or of kills.  `RpcServer!FairSpec` assumes that
threads keep running and that gRPC gives a call to an object registered for it.
`Delivery!FairSpec` assumes that both programs keep running, that the server goes
on serving each of them, and that it is started again after a kill; kills and
missed deadlines are finitely many by their bounds.  The retry loop has no other
end, so that with a server that never comes back the clients never return: that is
what the assumption stands for.  A handler that waits for the
broker's lock is one that has not begun.

## 4. The proofs

All are for any constants that satisfy the assumptions of the modules, which TLC
evaluates in the runs.

* **`Sums`**.  What a sum over the finite set of files is: no file, one file more
  or less, a file whose size changes, a part of the files.  The library's
  induction theorems cannot be used (they take an operator as a parameter); the
  lemmas go by the smallest set that contradicts them, which exists because a
  nonempty set of naturals has a least element.
* **`PartitionProofs`**.  `Invariance`: `Spec => []IndInv`, from which
  `TypeCorrect`, `Contiguity` (`DiskContiguous`) and `RetentionOrder`
  (`RetentionTakesOldest`) follow.  `DiskContiguous` is not inductive: the file made
  by a rollover begins where the last *segment in memory* ends, so the list must be
  known to mirror the files at each point of the code (`SegmentsMatch`,
  `ControlSound`; `SegmentsCover`, but for the empty file of a refused rollover), a
  removal must be known to take the first of the list (so times of modification must
  grow along it: `SegmentsSorted`, `FilesOrdered`), and a segment must have a
  record before it is followed by another (`FilesOrdered`).  That the limits are not
  negative (`LimitsNat`) is used: with a negative segment size an empty segment is
  full.  That the clock does not step back is part of the model and used as well.

  `Refinement`: `Spec => ImplementsCommitLog`.
  `AppendMessage` is the abstract append, `UnlinkLog` the abstract trim,
  `DeletePartition` the abstract destruction, and every other step, kills
  included, a stutter.  `Readability`: between operations every offset held reads
  its message and no other offset reads anything.

  `DiskInvariance`: `Spec => []DiskInv`, which adds the bytes to `IndInv`, and
  from it `DiskLimit` (`DiskBounded`), `Mirror` (`SegmentsMirrorDisk`), `Orphans`
  (`OrphanIndexes`) and `RetentionWhenDue` (`SizeRetentionWhenDue`).  That the
  files stay within their limit by one rollover and one record rests on three
  facts that hold at different moments: the total in memory is the sum of the
  files, except inside a removal and while they are loaded; the files but the
  last are within the limit whenever no pass is due; no file is longer than a
  full segment and one record.

  `Advance` and `NeverBlocked` are about the steps of an operation in progress: each
  leaves a smaller number (`Steps`: two for a segment a retention pass may remove,
  three for a file still to be opened, one for each file of a deletion), nothing but
  a kill moves it otherwise, and there always is one to take.  That needs the
  directory to be finite (`FinitelyMany`).  `LookupServes` composes the partition
  with `OffsetSearch`: the list of bases is at every step a table that the search is
  proved for (`Ascending`), and what `SearchCorrect` says of its answer makes it the
  segment that `FindSegment` names.
* **`PartitionFaultsProofs`**, with any number of failed removals, steps of the
  clock, kills and restarts.  Nothing here knows an order of age any more: the
  invariant rests on the order of the offsets alone.
  `OrderInvariance`: `SpecFaults => []OrderInv`.  The files do not overlap
  (`FilesInOrder`) but may have holes between them; the list is in their order,
  with gaps (`Chained`); a segment of it knows its file, or is closed, or is the
  one whose removal is half done (`SegmentsKnow`, `HalfGone`); the active one is
  open and has its file (`ActiveOpen`).  From it `FaultsTypeCorrect` and
  `ReadingRight` (`ReadsRight`).  `BytesInvariance`: `SpecFaults => []BytesInv`: the
  total in memory is never below the files (`TotalCovers`; while a segment is being
  removed, by that segment's size too), and between passes the open files but the
  active one are within the limit (`OpenBounded`).  From it `LimitAlways`
  (`LimitEnforced`) and `OffsetsStay` (`OffsetsStable`), which needs that the files
  are finitely many for there to be a last one.  `PassAdvances` and `PassFindsWork`:
  a retention pass ends within two steps for each segment of the list and one more,
  though the same removal fails in pass after pass, because the segments it failed on
  (`passed`) are behind it.
* **`SegmentProofs`**.  `TypeCorrect` (`TypeOK`) with every fault and with signed
  words: `position` may end below 0, the index stays within its capacity.
  `Remains` (`RemainsHarmless`), with every fault and any number of kills: what was
  acknowledged is read back as long as no record follows an unfinished one.
  `RemainsInvariance` is its invariant: the words of the acknowledged records are in
  the log, the records form a chain, the scan in progress is at a record of the
  chain or past what is whole, the index has what the scan has passed, and a write
  in progress has put its words at the end.  All of it is conditional on `Unburied`,
  which later steps may lose for ever.

  Without a fault (`Faults = {}`: no kill inside a write, no short write) and with
  an index that has an entry for every record of a full log (`RoomForAll`:
  `MaxSize < 2 * IndexCap`), `FaultFreeInvariance`, and from it `Synced`
  (`IndexSynced`), `Reopens` (`ReopenSucceeds`), `Readable` (`AckedReadable`) and
  `SegmentRefinement` (`ImplementsCommitLog`; a record in the log is an abstract
  message once its payload is written).  These are the conditions under which
  `Partition` may append in one step.  They, and `Remains`, assume
  `MaxSize < HalfWord`: the code's positions are 32-bit and a segment beyond
  2^31 bytes wraps them.  `RoomForAll` is not a
  consequence of the code, which gives every index one size whatever the size of
  its segment: `segment_faults` is where the index overflows.

  `FindEntry` (the binary search) and `Starts` (the records a scan finds) are
  recursive functions; what they compute is proved by the least value that
  contradicts it.

  `ScanAdvances` and `ScanDecides`, with every fault: a turn of the scan leaves the
  index less room, even when a negative size leads it back over what it has read (so
  the words left are no measure), an index without room ends it, and what is neither
  a record nor the end of the file is an error that ends it; a seek that would lead
  before the start of the file has ended it, without an error.
* **`OffsetSearchProofs`**.  `SearchInvariant`, `SearchInside`, `SearchCorrect`,
  for tables of any length.  The invariant says that positions before the range
  have keys not above the target, positions after it keys above, that the key
  kept is the last one read if that was not too high, and that a hit ends the
  loop.  `SearchEnds`: a probe leaves at most half of the range, rounded down.

* **`BrokerProofs`**.  `Invariance`, and from it `TypeCorrect`, `CacheCorrect`
  (`CacheMirrorsFile`), `NothingHidden` (`AckedAnswered`) and `CommitLast`
  (`CommitIsLastUnlessKilled`), with any number of threads, topics, partitions,
  refusals and kills.  `AckedAnswered` speaks of the state between two handlers;
  what makes it inductive is where the one handler in progress is on its key
  (`Locking`, `Handling`: who is inside a handler holds the lock), which keys may be
  listed without directory or configured without being listed (`Listing`), and that
  an acknowledged message is at every step in its directory and below the commit
  offset *of the file* (`AckedKept`), which is what the next start reads.  While its
  configuration is skipped nothing else can be promised of it, and that much is
  (`Skipping`: what is skipped is in the files only, whatever is asked of it).
  `Committed` says that the commit offset is one behind only between the write and
  the commit of the same handler.

  `ViewsAgree` (`FourViewsAgree`): outside the topics where a creation failed, and
  but for skipped configurations, the views differ only by the key of the handler in
  progress and by the keys `deleteTopic` has yet to erase (`Views`).
  `AnswersOrdered` (`OffsetsAnswerOrdered`): as long as a thread's partition has not
  been deleted, its commit offset is cached and not behind what the thread read
  (`Current`); this rests on `Views` and on `Committed`.

  `HandlersBounded`: each step of a handler leaves it fewer turns (`Rest`: three for
  each partition `deleteTopic` has not deleted, three at most in the other handlers)
  and no other thread adds any; it needs that the partition being deleted with its
  topic is listed and not yet in the list of those to erase (`Deleting`).
  `LockGivenBack`: `mutex_` is only ever held by a thread with turns left, that is,
  every return gives it back, the early ones included.
* **`RpcServerProofs`**.  `TypeCorrect`, `Ownership` (`OneOwner`) and
  `AlwaysListening` (`NeverDeaf`), with any number of threads, methods, objects
  and calls.  `OneOwner` needs to know what each thread is about to do with the
  object it holds (`ThreadsSound`) and in which state an object is when the queue
  holds its event (`CallsSound`); `NeverDeaf` counts the listeners of a method,
  one for each thread that has started, with the theorems on finite sets.

  `AnsweredBeforeDeleted`: an object that has taken a call is worked on until the
  call is answered.  `ServerProgress`: every step, of a thread or of gRPC, decreases
  one natural number (`Work`: the threads to start, seven for each call not given to
  an object, and the stages each object has before it).  `NothingStuck`: a thread
  waits for nothing but an event, and when all of them wait and there is none, every
  call is answered or can be given to a listener of its method.
* **`DeliveryProofs`**.  `TypeCorrect`, `NoLineLost` (`AtLeastOnce`),
  `FirstCopiesInOrder` (`FirstTimesInOrder`), `NoMessageSkipped` (`GaplessReading`)
  and `NoStrayError` (`StopsOnlyBehind`), with any number of lines, late calls,
  kills and refusals.  The invariant says what an answer on its way still means when
  it is taken: the producer's names a committed offset that holds its line
  (`Sending`), the consumer's the message at its offset, or an offset that retention
  has passed or where a committed message could not be read (`Asking`).
  `NoStrayError` is for both values of `IoErrors`: if nothing fails, only retention
  stops the consumer with an error.  The order of first copies needs that the server
  has heard of no line after the producer's, and that a line told is somewhere
  before any later one (`Ordered`); that a line written has a first place is carried
  along (`Placed`), since least elements would need induction.

  Two theorems say what the retries cost.  `CopiesBounded`: the log never has more
  copies than lines begun and not refused, and one more for each deadline missed and
  each kill; its invariant (`Accounted`) counts the copies still to come with those
  written, each of them once wherever it waits.  `ExactlyOnce`: before the first
  missed deadline and the first kill, every line passed and not refused is in the
  log once, in the order of the lines (`Calm`: the producer's line is not in the log
  before its call writes it, and nothing is late).  The runs check neither.

Only model-checked: liveness (`OperationsFinish`, `Terminates`, `ScanEnds`,
`HandlersEnd`, `EveryCallAnswered`, `EveryLineAnswered`, `AckedConsumed`): fairness
and `ENABLED` are out of the prover's reach.  What the first five rest on besides
fairness is proved: a number that each step decreases (`Advance`, `SearchEnds`,
`ScanAdvances`, `HandlersBounded`, `ServerProgress`, and `PassAdvances` for a pass
with failures, which no run asks to end) and, for all but the search and the broker,
a state that is never stuck (`NeverBlocked`, `ScanDecides`, `NothingStuck`,
`PassFindsWork`).  The last two, on `Delivery`, are on small instances only.  Every
safety property of the passing runs has a theorem.

## 5. Not modelled

* In the RPC server: its shutdown, which nothing calls while `run` lasts.  An object
  whose answer could not be sent is never deleted (`RpcServer.cc:63`), where
  `RpcService.hh:33-35` says that it deallocates itself in the end: `OneOwner`
  states that these (`dropped`) are the only objects lost.  `Receive` assumes of
  gRPC that the event by which an object gets its call has `ok` true while the
  server runs: `RpcServer.cc:63` skips an event that has not, and the method would
  lose a listener.
* In the clients: calls without `try_reconnect`, several
  producers or consumers of a partition, and the deletion of the partition they use.
* Failures of `close`, which `Partition::close` meets with a list it leaves half
  deleted, and of `fstat` and `mmap` in a segment, and of `lseek` but for the scan's
  seek before the start of the file; the descriptor that `Segment::open` closes on
  an error and does not reset, so that the destructor closes the number again
  (`Segment.cc:74-101`); an exception of `remove_all`, which ends the process as a
  kill inside the deletion does; failed removals and a clock that steps back while a
  partition is being deleted.
* Limits that are negative (`LimitsNat`); in a segment, the overflow of offsets
  (64 bits, and 32 relative to the base) and a header of which a part of a word was
  written or is read; failures of the machine.
* Invalid names of configuration files, which `load` skips: the program makes none.
* The names of directories and files: keys are pairs, and two keys with one name
  (topic `a-` partition 1, topic `a` partition -1) need a partition number that
  the client refuses.
* `Utils`, option parsing, message formats, benches, tests and demonstrations.

## 6. Plan

1. (done) `CommitLog`, `Partition`, its runs and proofs; `OffsetSearch` and its
   proofs; `Segment`; `Broker` with the configuration files.
2. (done) `RpcServer`, `Delivery`.
3. `Delivery` with several producers and consumers, and with the deletion of the
   partition; its log as an implementation of `CommitLog` (its `WriteMessage` is
   retention and append in one step, two steps of the abstract log).
4. (done) Failures of `unlink` and a clock that steps back; refusals in the broker;
   the width of the index and its sanity check.
5. (done) Proofs of the safety properties of the broker, of the RPC server and of
   the delivery.
6. (done) Proofs of the bytes on the disk and of the segment, with its refinement.
7. (done) Proofs of `PartitionFaults`.
8. (done) Proofs of what the liveness properties rest on besides fairness: measures
   that decrease, states that are never stuck; of what retries cost; of the search
   inside the partition.
9. The same measure for the retry loop of `Delivery`, whose bounds (`delays`,
   `crashes`) are its only end.
