------------------------------- MODULE Broker -------------------------------
(***************************************************************************)
(* The broker (src/src/broker/Broker.cc) and the configuration files it    *)
(* keeps beside the partitions (src/src/utils/ConfigManager.cc).  A pool of *)
(* threads runs the handlers.  mutex_ serialises them but for the end of   *)
(* getOffsets, which reads the configuration after releasing it.  Every    *)
(* change of a file is a step of its own; the process may be killed        *)
(* between any two, and any creation, opening or write may be refused.     *)
(*                                                                         *)
(* A partition is here what Partition.tla shows it to be: a range of       *)
(* offsets, that retention shortens from below when a message is written.  *)
(***************************************************************************)
EXTENDS Integers, FiniteSetsExt, Functions

CONSTANTS
  Thread,       \* the threads of the RPC server
  Topic,        \* the topics
  PartitionId,  \* the partition numbers
  IoErrors,     \* whether the system may refuse a file or a write
  MaxOffset,    \* bound: the offsets given in the partitions there are
  MaxCrashes    \* bound: the times the process is killed

ASSUME IoErrorsBool == IoErrors \in BOOLEAN
ASSUME KeysExist == Topic # {} /\ PartitionId # {}
ASSUME BoundsNat == MaxOffset \in Nat /\ MaxCrashes \in Nat

Key == Topic \X PartitionId
TopicOf(k) == k[1]
Free == "free"
ASSUME FreeIsNoThread == Free \notin Thread

VARIABLES
  dirs,       \* the partition directories: key -> first and next offset
  cfgs,       \* the .cfg files: key -> whether sized, commit_offset
  up,         \* the process has loaded and serves
  topics,     \* topics_: the keys it holds
  cancelled,  \* the keys of topics_ whose partition has cancel_ set
  configs,    \* configs_: key -> the commit_offset cached
  lock,       \* the thread that holds mutex_
  call,       \* the handler each thread is in
  deleteList, \* delete_list of the deleteTopic in progress
  acked,      \* history: the offsets answered to producers, by key
  refused,    \* history: the topics with a creation failed since the last start
  skipped,    \* history: the keys whose configuration the last start could not open
  crashes     \* history: the times the process was killed

files == <<dirs, cfgs>>
memory == <<topics, cancelled, configs>>
control == <<lock, call, deleteList>>
history == <<acked, refused, skipped, crashes>>
vars == <<files, up, memory, control, history>>

Op == {"idle", "config", "size", "store", "commit", "offsets",
       "close", "remove", "topic", "topic_close", "topic_remove"}

Call == [op : Op, key : Key, last : Int, fresh : BOOLEAN]

TypeOK ==
  /\ dirs \in [DOMAIN dirs -> [first : Nat, next : Nat]] /\ DOMAIN dirs \subseteq Key
  /\ cfgs \in [DOMAIN cfgs -> [sized : BOOLEAN, commit : Int]]
  /\ DOMAIN cfgs \subseteq Key
  /\ up \in BOOLEAN
  /\ topics \subseteq Key /\ cancelled \subseteq topics
  /\ configs \in [DOMAIN configs -> Int] /\ DOMAIN configs \subseteq Key
  /\ lock \in Thread \cup {Free}
  /\ call \in [Thread -> Call]
  /\ deleteList \subseteq Key
  /\ acked \subseteq Key \X Nat
  /\ refused \subseteq Topic /\ skipped \subseteq Key
  /\ crashes \in Nat

-----------------------------------------------------------------------------
With(f, k, v) == [x \in DOMAIN f \cup {k} |-> IF x = k THEN v ELSE f[x]]
Without(f, k) == Restrict(f, DOMAIN f \ {k})

NewDir == [first |-> 0, next |-> 0]

\* Partition::open makes a directory that is not there and, in one that is, ends
\* with the retention, which may take its oldest segments.
OpenedDir(k) ==
  IF k \in DOMAIN dirs
  THEN {[first |-> f, next |-> dirs[k].next] : f \in dirs[k].first .. dirs[k].next}
  ELSE {NewDir}

\* The directories there may be once the partitions ks are open.
OpenedDirs(ks) ==
  {d \in [DOMAIN dirs \cup ks -> UNION {OpenedDir(k) : k \in DOMAIN dirs \cup ks}] :
     \A k \in DOMAIN dirs \cup ks : IF k \in ks THEN d[k] \in OpenedDir(k) ELSE d[k] = dirs[k]}

\* A thread in a handler on key k; last is the last offset a getOffsets has read.
Doing(op, k, last) == [op |-> op, key |-> k, last |-> last, fresh |-> TRUE]

NoCall == Doing("idle", CHOOSE k \in Key : TRUE, -1)

\* A thread takes the lock and starts a handler, goes on, or returns.
Enter(t, op, k) ==
  /\ up /\ lock = Free /\ call[t].op = "idle"
  /\ lock' = t
  /\ call' = [call EXCEPT ![t] = Doing(op, k, -1)]

Goto(t, op) == call' = [call EXCEPT ![t].op = op] /\ UNCHANGED lock

Return(t) == call' = [call EXCEPT ![t] = NoCall] /\ lock' = Free

In(t, op) == call[t].op = op

KeyOf(t) == call[t].key

\* A getOffsets that has read partition k now holds offsets of a partition gone:
\* no property tells them apart.
Outdate(c, k) ==
  [u \in Thread |-> IF c[u].op = "offsets" /\ c[u].key = k
                    THEN [op |-> "offsets", key |-> k, last |-> -2, fresh |-> FALSE]
                    ELSE c[u]]

-----------------------------------------------------------------------------
(* createPartition                                                         *)

\* The partition is opened, on the directory left by an earlier one if any, and
\* listed before its configuration exists.
CreatePartition(t, k) ==
  /\ k \notin topics
  /\ Enter(t, "config", k)
  /\ dirs' \in OpenedDirs({k})
  /\ topics' = topics \cup {k}
  /\ UNCHANGED <<cfgs, up, cancelled, configs, deleteList, history>>

\* The partition cannot be opened; its directory may have been made, or some of
\* its segments removed.
CreateRefused(t, k) ==
  /\ IoErrors
  /\ up /\ lock = Free /\ In(t, "idle")
  /\ k \notin topics
  /\ dirs' \in {dirs} \cup OpenedDirs({k})
  /\ refused' = refused \cup {TopicOf(k)}
  /\ UNCHANGED <<cfgs, up, memory, control, acked, skipped, crashes>>

\* ConfigManager::create refuses a file that exists; open, ftruncate or mmap may
\* fail, and leave the file as it is by then.
ConfigRefused(t) ==
  /\ \/ In(t, "config") /\ (IoErrors \/ KeyOf(t) \in DOMAIN cfgs)
     \/ (In(t, "size") \/ In(t, "store")) /\ IoErrors
  /\ refused' = refused \cup {TopicOf(KeyOf(t))}
  /\ Return(t)
  /\ UNCHANGED <<files, up, memory, deleteList, acked, skipped, crashes>>

CreateConfigFile(t) ==
  /\ In(t, "config")
  /\ KeyOf(t) \notin DOMAIN cfgs
  /\ cfgs' = With(cfgs, KeyOf(t), [sized |-> FALSE, commit |-> 0])
  /\ Goto(t, "size")
  /\ UNCHANGED <<dirs, up, memory, deleteList, history>>

\* ftruncate fills the file with zeros.
SizeConfigFile(t) ==
  /\ In(t, "size")
  /\ cfgs' = With(cfgs, KeyOf(t), [sized |-> TRUE, commit |-> 0])
  /\ Goto(t, "store")
  /\ UNCHANGED <<dirs, up, memory, deleteList, history>>

StoreConfig(t) ==
  /\ In(t, "store")
  /\ cfgs' = With(cfgs, KeyOf(t), [sized |-> TRUE, commit |-> -1])
  /\ configs' = With(configs, KeyOf(t), -1)
  /\ Return(t)
  /\ UNCHANGED <<dirs, up, topics, cancelled, deleteList, history>>

-----------------------------------------------------------------------------
(* sendMessage                                                             *)

SendMessage(t, k) ==
  /\ k \in topics \ cancelled
  /\ Enter(t, "commit", k)
  /\ MapThenSumSet(LAMBDA x : dirs[x].next, DOMAIN dirs) < MaxOffset
  /\ \E f \in dirs[k].first .. dirs[k].next :
       dirs' = With(dirs, k, [first |-> f, next |-> dirs[k].next + 1])
  /\ UNCHANGED <<cfgs, up, memory, deleteList, history>>

\* Partition::write fails: the answer is an error; a rollover and its retention
\* may have come first.
SendRefused(t, k) ==
  /\ IoErrors
  /\ up /\ lock = Free /\ In(t, "idle")
  /\ k \in topics \ cancelled
  /\ \E f \in dirs[k].first .. dirs[k].next :
       dirs' = With(dirs, k, [first |-> f, next |-> dirs[k].next])
  /\ UNCHANGED <<cfgs, up, memory, control, history>>

Written(k) == dirs[k].next - 1

\* Bug: the cached commit offset is not updated.
Bug_CommitOffset(t) ==
  LET k == KeyOf(t)
  IN /\ In(t, "commit")
     /\ k \in DOMAIN configs
     /\ cfgs' = With(cfgs, k, [sized |-> TRUE, commit |-> Written(k)])
     /\ configs' = configs
     /\ acked' = acked \cup {<<k, Written(k)>>}
     /\ Return(t)
     /\ UNCHANGED <<dirs, up, topics, cancelled, deleteList, refused, skipped, crashes>>

\* Bug: the cached commit offset is updated, the file is not.
Bug_CommitFirst(t) ==
  LET k == KeyOf(t)
  IN /\ In(t, "commit")
     /\ k \in DOMAIN configs
     /\ cfgs' = cfgs
     /\ configs' = With(configs, k, Written(k))
     /\ acked' = acked \cup {<<k, Written(k)>>}
     /\ Return(t)
     /\ UNCHANGED <<dirs, up, topics, cancelled, deleteList, refused, skipped, crashes>>

\* updateCommitOffset writes through the mapping and to its copy.
CommitOffset(t) ==
  LET k == KeyOf(t)
  IN /\ In(t, "commit")
     /\ k \in DOMAIN configs
     /\ cfgs' = With(cfgs, k, [sized |-> TRUE, commit |-> Written(k)])
     /\ configs' = With(configs, k, Written(k))
     /\ acked' = acked \cup {<<k, Written(k)>>}
     /\ Return(t)
     /\ UNCHANGED <<dirs, up, topics, cancelled, deleteList, refused, skipped, crashes>>

\* The partition has no configuration: the message is written and the producer
\* told of an error.
CommitRefused(t) ==
  /\ In(t, "commit")
  /\ KeyOf(t) \notin DOMAIN configs
  /\ Return(t)
  /\ UNCHANGED <<files, up, memory, deleteList, history>>

-----------------------------------------------------------------------------
(* getOffsets: last_offset under the lock, commit_offset after it          *)

GetOffsets(t, k) ==
  /\ up /\ lock = Free /\ In(t, "idle")
  /\ k \in topics
  /\ call' = [call EXCEPT ![t] =
                Doing("offsets", k, IF k \in cancelled THEN -2 ELSE dirs[k].next - 1)]
  /\ UNCHANGED <<files, up, memory, lock, deleteList, history>>

GetCommitOffset(t) ==
  /\ In(t, "offsets")
  /\ call' = [call EXCEPT ![t] = NoCall]
  /\ UNCHANGED <<files, up, memory, lock, deleteList, history>>

-----------------------------------------------------------------------------
(* deletePartition                                                         *)

\* Partition::deletePartition and the erasure from topics_.
DeletePartition(t, k) ==
  /\ k \in topics
  /\ up /\ lock = Free /\ In(t, "idle")
  /\ lock' = t
  /\ call' = Outdate([call EXCEPT ![t] = Doing("close", k, -1)], k)
  /\ dirs' = Without(dirs, k)
  /\ topics' = topics \ {k} /\ cancelled' = cancelled \ {k}
  /\ acked' = {a \in acked : a[1] # k}
  /\ UNCHANGED <<cfgs, up, configs, deleteList, refused, skipped, crashes>>

\* ConfigManager::close(key), and an error if the key is not there.
CloseConfig(t) ==
  /\ In(t, "close")
  /\ configs' = Without(configs, KeyOf(t))
  /\ IF KeyOf(t) \in DOMAIN configs THEN Goto(t, "remove") ELSE Return(t)
  /\ UNCHANGED <<files, up, topics, cancelled, deleteList, history>>

\* Bug: the configuration is closed and its file left.
Bug_RemoveConfig(t) ==
  /\ In(t, "remove")
  /\ Return(t)
  /\ UNCHANGED <<files, up, memory, deleteList, history>>

RemoveConfig(t) ==
  /\ In(t, "remove")
  /\ cfgs' = Without(cfgs, KeyOf(t))
  /\ Return(t)
  /\ UNCHANGED <<dirs, up, memory, deleteList, history>>

-----------------------------------------------------------------------------
(* deleteTopic                                                             *)

DeleteTopic(t, k) ==
  /\ Enter(t, "topic", k)
  /\ UNCHANGED <<files, up, memory, deleteList, history>>

Remaining(t) == {k \in topics \ deleteList : TopicOf(k) = TopicOf(KeyOf(t))}

\* One entry of the loop: its partition goes first.
DeleteOfTopic(t) ==
  /\ In(t, "topic")
  /\ \E k \in Remaining(t) :
       /\ dirs' = Without(dirs, k)
       /\ cancelled' = cancelled \cup {k}
       /\ acked' = {a \in acked : a[1] # k}
       /\ call' = Outdate([call EXCEPT ![t].op = "topic_close", ![t].key = k], k)
  /\ UNCHANGED <<cfgs, up, topics, configs, lock, deleteList, refused, skipped, crashes>>

\* An entry without configuration ends the loop: nothing is erased from topics_.
CloseOfTopic(t) ==
  /\ In(t, "topic_close")
  /\ configs' = Without(configs, KeyOf(t))
  /\ IF KeyOf(t) \in DOMAIN configs
     THEN Goto(t, "topic_remove") /\ UNCHANGED deleteList
     ELSE Return(t) /\ deleteList' = {}
  /\ UNCHANGED <<files, up, topics, cancelled, history>>

RemoveOfTopic(t) ==
  /\ In(t, "topic_remove")
  /\ cfgs' = Without(cfgs, KeyOf(t))
  /\ deleteList' = deleteList \cup {KeyOf(t)}
  /\ Goto(t, "topic")
  /\ UNCHANGED <<dirs, up, memory, history>>

\* Bug: the loop goes on while topics_ has an entry of the topic.
Bug_EraseTopic(t) ==
  /\ In(t, "topic")
  /\ \A k \in topics : TopicOf(k) # TopicOf(KeyOf(t))
  /\ Return(t)
  /\ UNCHANGED <<files, up, memory, deleteList, history>>

EraseTopic(t) ==
  /\ In(t, "topic")
  /\ Remaining(t) = {}
  /\ topics' = topics \ deleteList
  /\ cancelled' = cancelled \ deleteList
  /\ Return(t) /\ deleteList' = {}
  /\ UNCHANGED <<files, up, configs, history>>

-----------------------------------------------------------------------------
(* Start and death of the process                                          *)

\* The configurations that are not opened: Broker::load has no error of it.
Skippable(ks) == ks \subseteq DOMAIN cfgs /\ (IoErrors \/ ks = {})

\* Reading through the mapping of a file that has no size kills the process.
Loadable(ks) == \A k \in DOMAIN cfgs \ ks : cfgs[k].sized

\* Bug: the commit offset is not read back.
Bug_LoadedConfigs(ks) == [k \in DOMAIN cfgs \ ks |-> -1]

\* ConfigManager::load: the files as they are, but those it could not open or map.
LoadedConfigs(ks) == [k \in DOMAIN cfgs \ ks |-> cfgs[k].commit]

\* Broker::load: every configuration that opens, then the partition of each.
Load ==
  /\ ~ up /\ up' = TRUE
  /\ \E ks \in SUBSET DOMAIN cfgs :
       /\ Skippable(ks) /\ Loadable(ks)
       /\ skipped' = ks
       /\ configs' = LoadedConfigs(ks)
       /\ topics' = DOMAIN LoadedConfigs(ks)
       /\ dirs' \in OpenedDirs(topics')
  /\ UNCHANGED <<cfgs, cancelled, control, acked, refused, crashes>>

\* One of the partitions cannot be opened: main returns, after some were.
LoadRefused ==
  /\ IoErrors /\ ~ up
  /\ \E ks \in SUBSET DOMAIN cfgs :
       /\ Loadable(DOMAIN cfgs \ ks)
       /\ dirs' \in OpenedDirs(ks)
  /\ UNCHANGED <<cfgs, up, memory, control, history>>

Crash ==
  /\ up
  /\ crashes < MaxCrashes
  /\ crashes' = crashes + 1
  /\ up' = FALSE
  /\ topics' = {} /\ cancelled' = {} /\ configs' = [k \in {} |-> 0]
  /\ lock' = Free /\ call' = [t \in Thread |-> NoCall] /\ deleteList' = {}
  /\ refused' = {} /\ skipped' = {}
  /\ UNCHANGED <<files, acked>>

-----------------------------------------------------------------------------
Init ==
  /\ dirs = [k \in {} |-> NewDir] /\ cfgs = [k \in {} |-> NewDir]
  /\ up = FALSE
  /\ topics = {} /\ cancelled = {} /\ configs = [k \in {} |-> 0]
  /\ lock = Free /\ call = [t \in Thread |-> NoCall] /\ deleteList = {}
  /\ acked = {} /\ refused = {} /\ skipped = {} /\ crashes = 0

\* What the control program asks for: to create, to delete a partition or (without
\* a number) a topic, or for offsets.
Control(t) ==
  \E k \in Key :
    CreatePartition(t, k) \/ CreateRefused(t, k) \/ GetOffsets(t, k)
    \/ DeletePartition(t, k) \/ DeleteTopic(t, k)

\* A client's request reaches a thread.
Request(t) == Control(t) \/ \E k \in Key : SendMessage(t, k) \/ SendRefused(t, k)

\* The thread goes on with the handler it is in.
Continue(t) ==
  \/ ConfigRefused(t) \/ CreateConfigFile(t) \/ SizeConfigFile(t) \/ StoreConfig(t)
  \/ CommitOffset(t) \/ CommitRefused(t)
  \/ GetCommitOffset(t)
  \/ CloseConfig(t) \/ RemoveConfig(t)
  \/ DeleteOfTopic(t) \/ CloseOfTopic(t) \/ RemoveOfTopic(t) \/ EraseTopic(t)

Next == Load \/ LoadRefused \/ Crash \/ \E t \in Thread : Request(t) \/ Continue(t)

Spec == Init /\ [][Next]_vars

\* A thread inside a handler keeps running until the process is killed.
FairSpec == Spec /\ \A t \in Thread : WF_vars(Continue(t))

-----------------------------------------------------------------------------
(* getMessage holds the lock throughout: what it answers is a function of  *)
(* the state.                                                              *)

\* The offset is not beyond the commit offset.
Visible(k, o) == o <= configs[k]

\* The request is answered with a payload.
Answered(k, o) ==
  /\ k \in DOMAIN configs /\ Visible(k, o)
  /\ k \in topics \ cancelled
  /\ o \in dirs[k].first .. dirs[k].next - 1

-----------------------------------------------------------------------------
Serving == up /\ lock = Free

\* The next start that opens its configuration answers with the message, unless
\* retention has passed it.
Kept(k, o) ==
  /\ k \in DOMAIN cfgs /\ cfgs[k].sized /\ o <= cfgs[k].commit
  /\ k \in DOMAIN dirs /\ o < dirs[k].next

\* A message acknowledged to its producer is given to the consumers that ask
\* for it for as long as retention keeps it and its partition is not deleted:
\* neither a kill between the write and the commit of a later one
\* (Broker.cc:253-259), nor one in the creation or the deletion of a partition
\* (Broker.cc:90-97, 111-116), nor a configuration that could not be created
\* hides it.  A configuration that the last start could not open does, without
\* an error to anyone (ConfigManager.cc:62), but only until the next start: what
\* is asked of its partition meanwhile loses nothing.
AckedAnswered ==
  Serving => \A a \in acked :
    IF a[1] \in skipped
    THEN Kept(a[1], a[2])
    ELSE Answered(a[1], a[2]) \/ a[2] < dirs[a[1]].first

\* The copy of the commit offset kept in memory is the one of the mapped file, at
\* every step (ConfigManager.cc:206-221): what a kill leaves is what the threads
\* saw.
CacheMirrorsFile ==
  \A k \in DOMAIN configs :
    k \in DOMAIN cfgs /\ cfgs[k] = [sized |-> TRUE, commit |-> configs[k]]

\* Between two handlers the partitions listed, the configurations open, their
\* files and the directories are for the same keys, and no partition is closed:
\* no handler leaves a partition half created or half deleted, wherever earlier
\* ones were killed; only a directory without configuration may be left by a
\* kill (Broker.cc:90-97, 108-116, 127-142).  A configuration the last start could
\* not open keeps its file and nothing else.  A creation that fails confines the
\* disagreement to its topic: there a configuration open is still that of a
\* partition listed, and one listed and not closed still has its directory.
FourViewsAgree ==
  Serving =>
    /\ DOMAIN configs \subseteq topics \cap DOMAIN cfgs
    /\ topics \ cancelled \subseteq DOMAIN dirs
    /\ \A k \in Key : TopicOf(k) \notin refused =>
         /\ k \notin cancelled
         /\ k \in topics <=> k \in DOMAIN configs
         /\ k \in topics <=> k \in DOMAIN cfgs \ skipped
         /\ crashes = 0 => (k \in topics <=> k \in DOMAIN dirs)

\* Between two handlers the commit offset of a partition is the offset of its last
\* message.  README:104-105 says: the commit offset is always equal to the last
\* offset ("toujours egale au dernier offset").
CommitIsLast ==
  Serving => \A k \in topics \ cancelled :
    k \in DOMAIN configs => configs[k] = dirs[k].next - 1

\* This holds as long as the process has not been killed, whatever failed and was
\* deleted or created again.
CommitIsLastUnlessKilled == crashes = 0 => CommitIsLast

\* The commit offset of a getOffsets answer is read later than the last offset in
\* it (Broker.cc:170-184) and is not behind it, whatever other threads did
\* in between, unless they deleted the partition or the process was killed once.
OffsetsAnswerOrdered ==
  [][\A t \in Thread :
       (/\ In(t, "offsets") /\ call'[t].op = "idle" /\ call[t].fresh
        /\ crashes' = 0 /\ TopicOf(KeyOf(t)) \notin refused)
         => KeyOf(t) \in DOMAIN configs /\ configs[KeyOf(t)] >= call[t].last]_vars

\* A handler that has begun ends, unless the process is killed: the loop of
\* deleteTopic (Broker.cc:127-139) and every early return give the lock back.
HandlersEnd == \A t \in Thread : ~ In(t, "idle") ~> In(t, "idle")
=============================================================================
