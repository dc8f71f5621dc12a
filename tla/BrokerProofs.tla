---------------------------- MODULE BrokerProofs ----------------------------
(***************************************************************************)
(* Proofs about Broker.tla, for any number of threads, topics, partitions, *)
(* offsets and kills: no acknowledged message is hidden, the commit offset *)
(* cached is the one of the file, the commit offset is the last offset     *)
(* until a kill, and the views of the broker agree between two handlers.   *)
(***************************************************************************)
EXTENDS Broker, FiniteSetTheorems, TLAPS

-----------------------------------------------------------------------------
(* The inductive invariant                                                 *)

\* The handlers that hold the lock have it, and a process that is down has
\* forgotten everything.
Locking ==
  /\ \A t \in Thread : call[t].op \notin {"idle", "offsets"} <=> lock = t
  /\ ~ up => /\ lock = Free /\ topics = {} /\ DOMAIN configs = {}
             /\ \A t \in Thread : In(t, "idle")

\* Where the handler in progress is in its work on its key.
Handling ==
  /\ \A t \in Thread :
       /\ call[t].op \in {"config", "size", "store"} =>
            KeyOf(t) \in topics \ cancelled /\ KeyOf(t) \notin DOMAIN configs
       /\ In(t, "commit") =>
            KeyOf(t) \in topics \ cancelled /\ dirs[KeyOf(t)].next > 0
       /\ call[t].op \in {"close", "remove"} => KeyOf(t) \notin topics
       /\ In(t, "remove") => KeyOf(t) \notin DOMAIN configs
       /\ call[t].op \in {"topic_close", "topic_remove"} => KeyOf(t) \in cancelled
       /\ In(t, "topic_remove") => KeyOf(t) \notin DOMAIN configs
  /\ deleteList \subseteq cancelled /\ deleteList \cap DOMAIN configs = {}
  /\ deleteList # {} =>
       \E t \in Thread : call[t].op \in {"topic", "topic_close", "topic_remove"}

\* The partitions listed have directories, unless they are closed, and the
\* configurations belong to partitions listed, but for the one being deleted.
Listing ==
  /\ topics \ cancelled \subseteq DOMAIN dirs
  /\ cancelled \cap DOMAIN dirs = {}
  /\ DOMAIN configs \subseteq topics \cup {KeyOf(t) : t \in {u \in Thread : In(u, "close")}}
  /\ \A k \in DOMAIN dirs : dirs[k].first <= dirs[k].next

\* Messages acknowledged and not deleted are in their directory and covered by
\* the commit offset of the file, and the partition is served whenever the
\* process is up and could open its configuration.
AckedKept ==
  \A a \in acked :
    /\ a[1] \in DOMAIN cfgs /\ cfgs[a[1]].sized /\ a[2] <= cfgs[a[1]].commit
    /\ a[1] \in DOMAIN dirs /\ a[2] < dirs[a[1]].next
    /\ up => \/ a[1] \in skipped
             \/ a[1] \in DOMAIN configs /\ a[1] \in topics \ cancelled

\* A message of k is written and its commit offset not yet.
Committing(k) == \E t \in Thread : In(t, "commit") /\ KeyOf(t) = k

\* As long as the process has not been killed: the commit offset is the last
\* offset, but for the message just written, and a directory with messages
\* belongs to a partition listed.
Committed ==
  crashes = 0 =>
    /\ \A k \in DOMAIN configs \cap DOMAIN dirs :
         configs[k] = dirs[k].next - (IF Committing(k) THEN 2 ELSE 1)
    /\ \A k \in DOMAIN dirs \ topics : dirs[k].next = 0
    /\ \A t \in Thread : call[t].op \in {"config", "size", "store"} => dirs[KeyOf(t)].next = 0
    /\ ~ up => DOMAIN dirs = {} /\ DOMAIN cfgs = {}

\* A configuration that could not be opened has its file, and nothing in memory,
\* until the process is killed.
Skipping ==
  /\ skipped \subseteq DOMAIN cfgs /\ skipped \cap DOMAIN configs = {}
  /\ \A t \in Thread :
       call[t].op \in {"size", "store", "remove", "topic_remove"} => KeyOf(t) \notin skipped
  /\ ~ up => skipped = {}

IndInv ==
  /\ TypeOK /\ Locking /\ Handling /\ Listing
  /\ CacheMirrorsFile /\ AckedKept /\ Committed /\ Skipping
-----------------------------------------------------------------------------
(* Functions with one value more or less                                   *)

LEMMA WithFacts ==
  ASSUME NEW f, NEW k, NEW v
  PROVE  /\ DOMAIN With(f, k, v) = DOMAIN f \cup {k}
         /\ With(f, k, v)[k] = v
         /\ \A x \in DOMAIN f : x # k => With(f, k, v)[x] = f[x]
BY DEF With

LEMMA WithType ==
  ASSUME NEW S, NEW f, f \in [DOMAIN f -> S], NEW k, NEW v \in S
  PROVE  With(f, k, v) \in [DOMAIN With(f, k, v) -> S]
BY DEF With

LEMMA WithoutFacts ==
  ASSUME NEW f, NEW k
  PROVE  /\ DOMAIN Without(f, k) = DOMAIN f \ {k}
         /\ \A x \in DOMAIN f : x # k => Without(f, k)[x] = f[x]
BY DEF Without, Restrict

LEMMA WithoutType ==
  ASSUME NEW S, NEW f, f \in [DOMAIN f -> S], NEW k
  PROVE  Without(f, k) \in [DOMAIN Without(f, k) -> S]
BY DEF Without, Restrict

-----------------------------------------------------------------------------
(* How the calls of the threads move                                       *)

Outside == {"idle", "offsets"}

\* Thread t goes to op with key k while no other thread is inside a handler.
Moves(t, op, k) ==
  /\ call' \in [Thread -> Call]
  /\ call'[t].op = op /\ call'[t].key = k
  /\ \A u \in Thread \ {t} : call[u].op \in Outside /\ call'[u].op = call[u].op

LEMMA DoingFacts ==
  /\ \A op \in Op, k \in Key, last \in Int :
       /\ Doing(op, k, last) \in Call
       /\ Doing(op, k, last).op = op /\ Doing(op, k, last).key = k
       /\ Doing(op, k, last).last = last /\ Doing(op, k, last).fresh = TRUE
  /\ NoCall \in Call /\ NoCall.op = "idle"
<1>1. \A op \in Op, k \in Key, last \in Int :
        /\ Doing(op, k, last) \in Call
        /\ Doing(op, k, last).op = op /\ Doing(op, k, last).key = k
        /\ Doing(op, k, last).last = last /\ Doing(op, k, last).fresh = TRUE
  BY DEF Doing, Call
<1>2. (CHOOSE k \in Key : TRUE) \in Key
  <2> PICK a \in Topic, b \in PartitionId : TRUE
    BY KeysExist
  <2>1. <<a, b>> \in Key
    BY DEF Key
  <2> QED BY <2>1
<1>3. "idle" \in Op
  BY DEF Op
<1> QED BY <1>1, <1>2, <1>3 DEF NoCall

LEMMA HolderAlone ==
  ASSUME TypeOK, Locking, NEW t \in Thread, lock = Free \/ call[t].op \notin Outside
  PROVE  \A u \in Thread \ {t} : call[u].op \in Outside
BY FreeIsNoThread DEF Locking, Outside

LEMMA OutdateFacts ==
  ASSUME NEW c \in [Thread -> Call], NEW k
  PROVE  /\ Outdate(c, k) \in [Thread -> Call]
         /\ \A u \in Thread : /\ Outdate(c, k)[u].op = c[u].op
                              /\ Outdate(c, k)[u].key = c[u].key
BY DEF Outdate, Call

LEMMA EnterFacts ==
  ASSUME TypeOK, Locking, NEW t \in Thread, NEW op \in Op, NEW k \in Key, Enter(t, op, k)
  PROVE  /\ up /\ lock = Free /\ lock' = t
         /\ call[t].op = "idle"
         /\ Moves(t, op, k)
BY DoingFacts, HolderAlone DEF Enter, Moves, TypeOK

LEMMA GotoFacts ==
  ASSUME TypeOK, Locking, NEW t \in Thread, NEW op \in Op, Goto(t, op),
         call[t].op \notin Outside
  PROVE  /\ up /\ lock = t /\ lock' = t
         /\ Moves(t, op, KeyOf(t))
<1>1. call' = [call EXCEPT ![t] = [op |-> op, key |-> KeyOf(t), last |-> call[t].last,
                                   fresh |-> call[t].fresh]]
  <2>1. call[t] \in Call
    BY DEF TypeOK
  <2>2. [call[t] EXCEPT !.op = op] = [op |-> op, key |-> call[t].key, last |-> call[t].last,
                                      fresh |-> call[t].fresh]
    BY <2>1 DEF Call
  <2> QED BY <2>2 DEF Goto, KeyOf
<1>2. [op |-> op, key |-> KeyOf(t), last |-> call[t].last, fresh |-> call[t].fresh] \in Call
  BY DEF KeyOf, TypeOK, Call
<1>3. Moves(t, op, KeyOf(t))
  BY <1>1, <1>2, HolderAlone DEF Moves, TypeOK, KeyOf
<1>4. up /\ lock = t /\ lock' = t
  BY DEF Goto, Locking, Outside, In, TypeOK
<1> QED BY <1>3, <1>4

LEMMA ReturnFacts ==
  ASSUME TypeOK, Locking, NEW t \in Thread, Return(t), call[t].op \notin Outside
  PROVE  /\ up /\ lock = t /\ lock' = Free
         /\ Moves(t, "idle", NoCall.key)
BY DoingFacts, HolderAlone DEF Return, Moves, TypeOK, Locking, Outside, In

\* The lock follows the moves.
LEMMA LockingKept ==
  ASSUME TypeOK, Locking, NEW t \in Thread, NEW op, NEW k, Moves(t, op, k), up, up' = up,
         \/ op \in Outside /\ lock' = Free
         \/ op \notin Outside /\ lock' = t
  PROVE  Locking'
BY FreeIsNoThread DEF Locking, Moves, Outside

\* The handlers in progress in the next state.
LEMMA HandlingKept ==
  ASSUME NEW t \in Thread, NEW op, NEW k, Moves(t, op, k),
         op \in {"config", "size", "store"} => k \in (topics \ cancelled)' /\ k \notin DOMAIN configs',
         op = "commit" => k \in (topics \ cancelled)' /\ dirs'[k].next > 0,
         op \in {"close", "remove"} => k \notin topics',
         op = "remove" => k \notin DOMAIN configs',
         op \in {"topic_close", "topic_remove"} => k \in cancelled',
         op = "topic_remove" => k \notin DOMAIN configs',
         deleteList' \subseteq cancelled', deleteList' \cap DOMAIN configs' = {},
         deleteList' # {} => op \in {"topic", "topic_close", "topic_remove"}
  PROVE  Handling'
BY DEF Handling, Moves, Outside, In, KeyOf

\* The configurations skipped stay so.
LEMMA SkippingKept ==
  ASSUME Skipping, NEW t \in Thread, NEW op, NEW k, Moves(t, op, k),
         skipped' = skipped, up' = up,
         skipped \subseteq DOMAIN cfgs', skipped \cap DOMAIN configs' = {},
         op \in {"size", "store", "remove", "topic_remove"} => k \notin skipped
  PROVE  Skipping'
BY DEF Skipping, Moves, Outside, KeyOf

\* A partition whose commit is in progress in the next state.
LEMMA CommittingMoves ==
  ASSUME NEW t \in Thread, NEW op, NEW k, Moves(t, op, k), NEW x
  PROVE  Committing(x)' <=> op = "commit" /\ x = k
BY DEF Committing, Moves, Outside, In, KeyOf

LEMMA CommittingNow ==
  ASSUME NEW t \in Thread, NEW x, \A u \in Thread \ {t} : call[u].op \in Outside
  PROVE  Committing(x) <=> In(t, "commit") /\ x = KeyOf(t)
BY DEF Committing, Outside, In, KeyOf
-----------------------------------------------------------------------------
(* Types of the files and of their copies                                  *)

DirsOK(d) == d \in [DOMAIN d -> [first : Nat, next : Nat]] /\ DOMAIN d \subseteq Key
CfgsOK(c) == c \in [DOMAIN c -> [sized : BOOLEAN, commit : Int]] /\ DOMAIN c \subseteq Key
ConfigsOK(c) == c \in [DOMAIN c -> Int] /\ DOMAIN c \subseteq Key

LEMMA DirsKept ==
  ASSUME NEW d, DirsOK(d), NEW k \in Key
  PROVE  /\ \A v \in [first : Nat, next : Nat] : DirsOK(With(d, k, v))
         /\ DirsOK(Without(d, k))
BY DEF With, Without, Restrict, DirsOK

LEMMA CfgsKept ==
  ASSUME NEW c, CfgsOK(c), NEW k \in Key
  PROVE  /\ \A v \in [sized : BOOLEAN, commit : Int] : CfgsOK(With(c, k, v))
         /\ CfgsOK(Without(c, k))
BY DEF With, Without, Restrict, CfgsOK

LEMMA ConfigsKept ==
  ASSUME NEW c, ConfigsOK(c), NEW k \in Key
  PROVE  /\ \A v \in Int : ConfigsOK(With(c, k, v))
         /\ ConfigsOK(Without(c, k))
BY DEF With, Without, Restrict, ConfigsOK

\* TypeOK in parts.
TypeParts ==
             /\ DirsOK(dirs) /\ CfgsOK(cfgs) /\ ConfigsOK(configs)
             /\ up \in BOOLEAN /\ topics \subseteq Key /\ cancelled \subseteq topics
             /\ lock \in Thread \cup {Free} /\ call \in [Thread -> Call]
             /\ deleteList \subseteq Key /\ acked \subseteq Key \X Nat
             /\ refused \subseteq Topic /\ skipped \subseteq Key /\ crashes \in Nat

LEMMA PartsTyped == TypeOK <=> TypeParts
BY DEF TypeOK, TypeParts, DirsOK, CfgsOK, ConfigsOK

LEMMA PartsTypedNext == TypeOK' <=> TypeParts'
BY DEF TypeOK, TypeParts, DirsOK, CfgsOK, ConfigsOK

LEMMA RecordTypes ==
  /\ NewDir \in [first : Nat, next : Nat] /\ NewDir.next = 0 /\ NewDir.first = 0
  /\ \A n \in Int, b \in BOOLEAN :
       /\ [sized |-> b, commit |-> n] \in [sized : BOOLEAN, commit : Int]
       /\ [sized |-> b, commit |-> n].commit = n
       /\ [sized |-> b, commit |-> n].sized = b
BY DEF NewDir

LEMMA KeyOfKey == ASSUME TypeOK, NEW t \in Thread PROVE KeyOf(t) \in Key /\ TopicOf(KeyOf(t)) \in Topic
<1>1. KeyOf(t) \in Key
  BY DEF TypeOK, Call, KeyOf
<1> QED BY <1>1 DEF Key, TopicOf

\* The directories once the partitions ks are open.
LEMMA OpenedFacts ==
  ASSUME TypeOK, Listing, NEW ks \in SUBSET Key, NEW d \in OpenedDirs(ks)
  PROVE  /\ DirsOK(d) /\ DOMAIN d = DOMAIN dirs \cup ks
         /\ \A k \in DOMAIN d : d[k].first <= d[k].next
         /\ \A k \in DOMAIN dirs : d[k].next = dirs[k].next
         /\ \A k \in ks \ DOMAIN dirs : d[k].first = 0 /\ d[k].next = 0
<1>1. /\ DOMAIN d = DOMAIN dirs \cup ks /\ d = [k \in DOMAIN d |-> d[k]]
      /\ \A k \in DOMAIN d : IF k \in ks THEN d[k] \in OpenedDir(k) ELSE d[k] = dirs[k]
  BY DEF OpenedDirs
<1>2. ASSUME NEW k \in DOMAIN d
      PROVE  /\ d[k] \in [first : Nat, next : Nat] /\ d[k].first <= d[k].next
             /\ k \in DOMAIN dirs => d[k].next = dirs[k].next
             /\ k \notin DOMAIN dirs => d[k].first = 0 /\ d[k].next = 0
  <2>1. CASE k \in DOMAIN dirs /\ k \in ks
    <3>1. dirs[k].first \in Nat /\ dirs[k].next \in Nat
      BY <2>1 DEF TypeOK
    <3>2. PICK f \in dirs[k].first .. dirs[k].next : d[k] = [first |-> f, next |-> dirs[k].next]
      BY <1>1, <1>2, <2>1 DEF OpenedDir
    <3> QED BY <2>1, <3>1, <3>2
  <2>2. CASE k \in DOMAIN dirs /\ k \notin ks
    <3>1. d[k] = dirs[k]
      BY <1>1, <1>2, <2>2
    <3> QED BY <2>2, <3>1 DEF TypeOK, Listing
  <2>3. CASE k \notin DOMAIN dirs
    <3>1. d[k] = NewDir
      BY <1>1, <1>2, <2>3 DEF OpenedDir
    <3> QED BY <2>3, <3>1, RecordTypes
  <2> QED BY <2>1, <2>2, <2>3
<1>3. DirsOK(d)
  BY <1>1, <1>2 DEF DirsOK, TypeOK
<1> QED BY <1>1, <1>2, <1>3

-----------------------------------------------------------------------------
(* createPartition                                                         *)

LEMMA CreatePartitionInductive ==
  ASSUME IndInv, NEW t \in Thread, NEW k \in Key, CreatePartition(t, k)
  PROVE  IndInv'
<1> USE DEF IndInv
<1>1. /\ up /\ lock = Free /\ lock' = t /\ call[t].op = "idle"
      /\ Moves(t, "config", k)
  BY EnterFacts DEF CreatePartition, Op
<1>2. /\ k \notin topics /\ topics' = topics \cup {k}
      /\ UNCHANGED <<cfgs, up, cancelled, configs, deleteList, acked, refused, skipped, crashes>>
  BY DEF CreatePartition, history
<1>3. /\ DirsOK(dirs') /\ DOMAIN dirs' = DOMAIN dirs \cup {k}
      /\ \A x \in DOMAIN dirs' : dirs'[x].first <= dirs'[x].next
      /\ \A x \in DOMAIN dirs : dirs'[x].next = dirs[x].next
      /\ k \notin DOMAIN dirs => dirs'[k].next = 0
  <2>1. PICK ks \in SUBSET Key : ks = {k} /\ dirs' \in OpenedDirs(ks)
    BY DEF CreatePartition
  <2>2. /\ DirsOK(dirs') /\ DOMAIN dirs' = DOMAIN dirs \cup ks
        /\ \A x \in DOMAIN dirs' : dirs'[x].first <= dirs'[x].next
        /\ \A x \in DOMAIN dirs : dirs'[x].next = dirs[x].next
        /\ \A x \in ks \ DOMAIN dirs : dirs'[x].first = 0 /\ dirs'[x].next = 0
    BY <2>1, OpenedFacts
  <2> QED BY <2>1, <2>2
<1>4. TypeOK'
  BY <1>1, <1>2, <1>3, PartsTyped, PartsTypedNext DEF Moves, TypeParts
<1>5. Locking'
  BY <1>1, <1>2, LockingKept DEF Outside
<1>6. k \notin DOMAIN configs /\ k \notin cancelled
  BY <1>1, <1>2, FreeIsNoThread DEF Listing, Locking, In, TypeOK
<1>7. Handling'
  <2>1. deleteList = {}
    BY <1>1, FreeIsNoThread DEF Handling, Locking
  <2> QED BY <1>1, <1>2, <1>6, <2>1, HandlingKept
<1>8. Listing'
  BY <1>1, <1>2, <1>3, <1>6, FreeIsNoThread DEF Listing, Locking, In
<1>9. CacheMirrorsFile'
  BY <1>2 DEF CacheMirrorsFile
<1>10. AckedKept'
  BY <1>2, <1>3 DEF AckedKept, TypeOK
<1>11. Committed'
  <2>1. \A x : ~ Committing(x) /\ ~ Committing(x)'
    BY <1>1, CommittingMoves, FreeIsNoThread DEF Committing, Locking, In
  <2>2. crashes = 0 => dirs'[k].next = 0
    BY <1>2, <1>3 DEF Committed
  <2>3. crashes = 0 => \A x \in (DOMAIN configs \cap DOMAIN dirs)' : configs[x] = dirs'[x].next - 1
    BY <1>2, <1>3, <1>6, <2>1 DEF Committed
  <2> QED BY <1>1, <1>2, <1>3, <2>1, <2>2, <2>3 DEF Committed, Moves, Outside, In, KeyOf
<1>20. Skipping'
  BY <1>1, <1>2, SkippingKept DEF Skipping
<1> QED BY <1>4, <1>5, <1>7, <1>8, <1>9, <1>10, <1>11, <1>20
LEMMA CreateRefusedInductive ==
  ASSUME IndInv, NEW t \in Thread, NEW k \in Key, CreateRefused(t, k)
  PROVE  IndInv'
<1> USE DEF IndInv
<1>1. /\ up /\ k \notin topics /\ refused' = refused \cup {TopicOf(k)}
      /\ UNCHANGED <<cfgs, up, topics, cancelled, configs, lock, call, deleteList,
                     acked, skipped, crashes>>
  BY DEF CreateRefused, memory, control
<1>2. dirs' = dirs \/ dirs' \in OpenedDirs({k})
  BY DEF CreateRefused
<1>3. /\ DirsOK(dirs') /\ DOMAIN dirs \subseteq DOMAIN dirs'
      /\ DOMAIN dirs' \subseteq DOMAIN dirs \cup {k}
      /\ \A x \in DOMAIN dirs' : dirs'[x].first <= dirs'[x].next
      /\ \A x \in DOMAIN dirs : dirs'[x].next = dirs[x].next
      /\ k \in DOMAIN dirs' \ DOMAIN dirs => dirs'[k].next = 0
  <2>1. CASE dirs' = dirs
    BY <2>1, PartsTyped DEF Listing, TypeParts
  <2>2. CASE dirs' \in OpenedDirs({k})
    <3>1. PICK ks \in SUBSET Key : ks = {k} /\ dirs' \in OpenedDirs(ks)
      BY <2>2
    <3>2. /\ DirsOK(dirs') /\ DOMAIN dirs' = DOMAIN dirs \cup ks
          /\ \A x \in DOMAIN dirs' : dirs'[x].first <= dirs'[x].next
          /\ \A x \in DOMAIN dirs : dirs'[x].next = dirs[x].next
          /\ \A x \in ks \ DOMAIN dirs : dirs'[x].first = 0 /\ dirs'[x].next = 0
      BY <3>1, OpenedFacts
    <3> QED BY <3>1, <3>2
  <2> QED BY <1>2, <2>1, <2>2
<1>4. TypeOK'
  <2>1. TopicOf(k) \in Topic
    BY DEF Key, TopicOf
  <2> QED BY <1>1, <1>3, <2>1, PartsTyped, PartsTypedNext DEF TypeParts
<1>5. Locking'
  BY <1>1 DEF Locking, In
<1>6. Listing'
  BY <1>1, <1>3 DEF Listing, In, KeyOf, TypeOK
<1>7. Handling'
  BY <1>1, <1>3 DEF Handling, Listing, In, KeyOf
<1>8. CacheMirrorsFile'
  BY <1>1 DEF CacheMirrorsFile
<1>9. AckedKept'
  BY <1>1, <1>3 DEF AckedKept, TypeOK
<1>10. Committed'
  <2>1. \A x : Committing(x)' <=> Committing(x)
    BY <1>1 DEF Committing, In, KeyOf
  <2>2. k \notin DOMAIN configs
    BY <1>1, FreeIsNoThread DEF CreateRefused, Listing, Locking, In
  <2>3. \A u \in Thread : call[u].op \in Outside
    BY FreeIsNoThread DEF CreateRefused, Locking, Outside
  <2> QED BY <1>1, <1>3, <2>1, <2>2, <2>3 DEF Committed, Outside
<1>20. Skipping'
  BY <1>1 DEF Skipping, KeyOf
<1> QED BY <1>4, <1>5, <1>6, <1>7, <1>8, <1>9, <1>10, <1>20

\* A step that changes no file and no view: the handler returns or goes on.
LEMMA StillSound ==
  ASSUME IndInv, NEW t \in Thread, NEW op \in Op, NEW k \in Key,
         call[t].op \notin Outside, Moves(t, op, k),
         UNCHANGED <<dirs, cfgs, up, topics, cancelled, configs, acked, skipped, crashes>>
  PROVE  /\ call[t].op # "close" => Listing'
         /\ CacheMirrorsFile' /\ AckedKept'
<1> USE DEF IndInv
<1>1. \A u \in Thread \ {t} : call[u].op \in Outside
  BY DEF Moves
<1>2. call[t].op # "close" => Listing'
  BY <1>1 DEF Listing, In, KeyOf, Outside
<1>3. CacheMirrorsFile'
  BY DEF CacheMirrorsFile
<1>4. AckedKept'
  BY DEF AckedKept
<1> QED BY <1>2, <1>3, <1>4

LEMMA ConfigRefusedInductive ==
  ASSUME IndInv, NEW t \in Thread, ConfigRefused(t)
  PROVE  IndInv'
<1> USE DEF IndInv
<1>1. /\ call[t].op \in {"config", "size", "store"}
      /\ refused' = refused \cup {TopicOf(KeyOf(t))}
      /\ UNCHANGED <<dirs, cfgs, up, topics, cancelled, configs, deleteList,
                     acked, skipped, crashes>>
  BY DEF ConfigRefused, files, memory, In
<1>2. up /\ lock = t /\ lock' = Free /\ Moves(t, "idle", NoCall.key)
  BY <1>1, ReturnFacts DEF ConfigRefused, Outside
<1>3. deleteList = {}
  BY <1>1, <1>2 DEF Handling, Moves, Outside
<1>4. TypeOK'
  BY <1>1, <1>2, KeyOfKey, PartsTyped, PartsTypedNext DEF TypeParts, Moves
<1>5. Locking'
  BY <1>1, <1>2, LockingKept DEF Outside
<1>6. Handling'
  BY <1>1, <1>2, <1>3, HandlingKept
<1>7. Listing' /\ CacheMirrorsFile' /\ AckedKept'
  BY <1>1, <1>2, StillSound, DoingFacts DEF Op, Outside, Call
<1>8. Committed'
  <2>1. \A x : ~ Committing(x)' /\ ~ Committing(x)
    BY <1>1, <1>2, CommittingMoves, CommittingNow DEF Moves, In
  <2> QED BY <1>1, <1>2, <2>1 DEF Committed, Moves, Outside
<1>20. Skipping'
  BY <1>1, <1>2, SkippingKept DEF Skipping
<1> QED BY <1>4, <1>5, <1>6, <1>7, <1>8, <1>20

LEMMA CreateConfigFileInductive ==
  ASSUME IndInv, NEW t \in Thread, CreateConfigFile(t)
  PROVE  IndInv'
<1> USE DEF IndInv
<1> DEFINE k == KeyOf(t)
           v == [sized |-> FALSE, commit |-> 0]
<1>1. /\ call[t].op = "config" /\ k \in Key /\ k \notin DOMAIN cfgs
      /\ cfgs' = With(cfgs, k, v)
      /\ UNCHANGED <<dirs, up, topics, cancelled, configs, deleteList,
                     acked, refused, skipped, crashes>>
  BY KeyOfKey DEF CreateConfigFile, memory, history, In
<1>2. up /\ lock = t /\ lock' = t /\ Moves(t, "size", k)
  BY <1>1, GotoFacts DEF CreateConfigFile, Outside, Op
<1> HIDE DEF k
<1>3. /\ DOMAIN cfgs' = DOMAIN cfgs \cup {k}
      /\ \A x \in DOMAIN cfgs : cfgs'[x] = cfgs[x]
  BY <1>1 DEF With
<1>4. k \in topics \ cancelled /\ k \notin DOMAIN configs /\ deleteList = {}
  BY <1>1, <1>2 DEF Handling, k, Moves, Outside
<1>5. TypeOK'
  <2>1. CfgsOK(cfgs')
    <3>1. v \in [sized : BOOLEAN, commit : Int]
      OBVIOUS
    <3> QED BY <1>1, <3>1, PartsTyped, CfgsKept DEF TypeParts
  <2> QED BY <1>1, <1>2, <2>1, PartsTyped, PartsTypedNext DEF TypeParts, Moves
<1>6. Locking'
  BY <1>1, <1>2, LockingKept DEF Outside
<1>7. Handling'
  BY <1>1, <1>2, <1>4, HandlingKept
<1>8. Listing'
  BY <1>1, <1>2 DEF Listing, In, Moves, Outside, KeyOf
<1>9. CacheMirrorsFile'
  BY <1>1, <1>3 DEF CacheMirrorsFile
<1>10. AckedKept'
  BY <1>1, <1>3 DEF AckedKept
<1>11. Committed'
  <2>1. \A x : ~ Committing(x)' /\ ~ Committing(x)
    BY <1>1, <1>2, CommittingMoves, CommittingNow DEF Moves, In
  <2>2. crashes = 0 => dirs[k].next = 0
    BY <1>1 DEF Committed, k
  <2> QED BY <1>1, <1>2, <2>1, <2>2 DEF Committed, Moves, Outside, KeyOf
<1>20. Skipping'
  BY <1>1, <1>2, <1>3, SkippingKept DEF Skipping
<1> QED BY <1>5, <1>6, <1>7, <1>8, <1>9, <1>10, <1>11, <1>20

LEMMA SizeConfigFileInductive ==
  ASSUME IndInv, NEW t \in Thread, SizeConfigFile(t)
  PROVE  IndInv'
<1> USE DEF IndInv
<1> DEFINE k == KeyOf(t)
           v == [sized |-> TRUE, commit |-> 0]
<1>1. /\ call[t].op = "size" /\ k \in Key
      /\ cfgs' = With(cfgs, k, v)
      /\ UNCHANGED <<dirs, up, topics, cancelled, configs, deleteList,
                     acked, refused, skipped, crashes>>
  BY KeyOfKey DEF SizeConfigFile, memory, history, In
<1>2. up /\ lock = t /\ lock' = t /\ Moves(t, "store", k)
  BY <1>1, GotoFacts DEF SizeConfigFile, Outside, Op
<1> HIDE DEF k
<1>3. /\ DOMAIN cfgs' = DOMAIN cfgs \cup {k}
      /\ \A x \in DOMAIN cfgs : x # k => cfgs'[x] = cfgs[x]
  BY <1>1 DEF With
<1>4. k \in topics \ cancelled /\ k \notin DOMAIN configs /\ deleteList = {}
  BY <1>1, <1>2 DEF Handling, k, Moves, Outside
<1>5. TypeOK'
  <2>1. CfgsOK(cfgs')
    <3>1. v \in [sized : BOOLEAN, commit : Int]
      OBVIOUS
    <3> QED BY <1>1, <3>1, PartsTyped, CfgsKept DEF TypeParts
  <2> QED BY <1>1, <1>2, <2>1, PartsTyped, PartsTypedNext DEF TypeParts, Moves
<1>6. Locking'
  BY <1>1, <1>2, LockingKept DEF Outside
<1>7. Handling'
  BY <1>1, <1>2, <1>4, HandlingKept
<1>8. Listing'
  BY <1>1, <1>2 DEF Listing, In, Moves, Outside, KeyOf
<1>9. CacheMirrorsFile'
  BY <1>1, <1>3, <1>4 DEF CacheMirrorsFile
<1>10. AckedKept'
  BY <1>1, <1>2, <1>3, <1>4 DEF AckedKept, Skipping, k
<1>11. Committed'
  <2>1. \A x : ~ Committing(x)' /\ ~ Committing(x)
    BY <1>1, <1>2, CommittingMoves, CommittingNow DEF Moves, In
  <2>2. crashes = 0 => dirs[k].next = 0
    BY <1>1 DEF Committed, k
  <2> QED BY <1>1, <1>2, <2>1, <2>2 DEF Committed, Moves, Outside, KeyOf
<1>20. Skipping'
  BY <1>1, <1>2, <1>3, SkippingKept DEF Skipping, k
<1> QED BY <1>5, <1>6, <1>7, <1>8, <1>9, <1>10, <1>11, <1>20

LEMMA StoreConfigInductive ==
  ASSUME IndInv, NEW t \in Thread, StoreConfig(t)
  PROVE  IndInv'
<1> USE DEF IndInv
<1> DEFINE k == KeyOf(t)
           v == [sized |-> TRUE, commit |-> -1]
<1>1. /\ call[t].op = "store" /\ k \in Key
      /\ cfgs' = With(cfgs, k, v) /\ configs' = With(configs, k, -1)
      /\ UNCHANGED <<dirs, up, topics, cancelled, deleteList, acked, refused, skipped, crashes>>
  BY KeyOfKey DEF StoreConfig, history, In
<1>2. up /\ lock = t /\ lock' = Free /\ Moves(t, "idle", NoCall.key)
  BY <1>1, ReturnFacts DEF StoreConfig, Outside
<1> HIDE DEF k
<1>3. /\ DOMAIN cfgs' = DOMAIN cfgs \cup {k} /\ cfgs'[k] = v
      /\ \A x \in DOMAIN cfgs : x # k => cfgs'[x] = cfgs[x]
      /\ DOMAIN configs' = DOMAIN configs \cup {k} /\ configs'[k] = -1
      /\ \A x \in DOMAIN configs : x # k => configs'[x] = configs[x]
  BY <1>1 DEF With
<1>4. k \in topics \ cancelled /\ k \notin DOMAIN configs /\ deleteList = {}
  BY <1>1, <1>2 DEF Handling, k, Moves, Outside
<1>5. TypeOK'
  <2>1. CfgsOK(cfgs')
    <3>1. v \in [sized : BOOLEAN, commit : Int]
      OBVIOUS
    <3> QED BY <1>1, <3>1, PartsTyped, CfgsKept DEF TypeParts
  <2>2. ConfigsOK(configs')
    BY <1>1, PartsTyped, ConfigsKept DEF TypeParts
  <2> QED BY <1>1, <1>2, <2>1, <2>2, PartsTyped, PartsTypedNext DEF TypeParts, Moves
<1>6. Locking'
  BY <1>1, <1>2, LockingKept DEF Outside
<1>7. Handling'
  BY <1>1, <1>2, <1>4, HandlingKept
<1>8. Listing'
  BY <1>1, <1>2, <1>3, <1>4 DEF Listing, In, Moves, Outside, KeyOf
<1>9. CacheMirrorsFile'
  BY <1>1, <1>3, <1>4 DEF CacheMirrorsFile
<1>10. AckedKept'
  BY <1>1, <1>2, <1>3, <1>4 DEF AckedKept, Skipping, k
<1>11. Committed'
  <2>1. \A x : ~ Committing(x)' /\ ~ Committing(x)
    BY <1>1, <1>2, CommittingMoves, CommittingNow DEF Moves, In
  <2>2. crashes = 0 => dirs[k].next = 0
    BY <1>1 DEF Committed, k
  <2> QED BY <1>1, <1>2, <1>3, <2>1, <2>2 DEF Committed, Moves, Outside, KeyOf
<1>20. Skipping'
  BY <1>1, <1>2, <1>3, SkippingKept DEF Skipping, k
<1> QED BY <1>5, <1>6, <1>7, <1>8, <1>9, <1>10, <1>11, <1>20
-----------------------------------------------------------------------------
(* sendMessage, getOffsets                                                 *)

\* Retention may move the first offset of k, and a message may be added.
LEMMA WrittenDirs ==
  ASSUME TypeOK, Listing, NEW k \in topics \ cancelled, NEW n \in {0, 1},
         NEW f \in dirs[k].first .. dirs[k].next,
         dirs' = With(dirs, k, [first |-> f, next |-> dirs[k].next + n])
  PROVE  /\ k \in Key /\ k \in DOMAIN dirs /\ DirsOK(dirs')
         /\ DOMAIN dirs' = DOMAIN dirs
         /\ dirs[k].next \in Nat
         /\ dirs'[k].next = dirs[k].next + n /\ dirs'[k].first <= dirs'[k].next
         /\ \A x \in DOMAIN dirs : x # k => dirs'[x] = dirs[x]
<1>1. k \in Key /\ k \in DOMAIN dirs
  BY DEF Listing, TypeOK
<1>2. dirs[k].first \in Nat /\ dirs[k].next \in Nat
  BY <1>1 DEF TypeOK
<1>3. f \in Nat /\ f <= dirs[k].next
  BY <1>2
<1>4. [first |-> f, next |-> dirs[k].next + n] \in [first : Nat, next : Nat]
  BY <1>2, <1>3
<1>5. DirsOK(dirs')
  BY <1>1, <1>4, PartsTyped, DirsKept DEF TypeParts
<1>6. /\ DOMAIN dirs' = DOMAIN dirs
      /\ dirs'[k] = [first |-> f, next |-> dirs[k].next + n]
      /\ \A x \in DOMAIN dirs : x # k => dirs'[x] = dirs[x]
  BY <1>1 DEF With
<1> QED BY <1>1, <1>2, <1>3, <1>5, <1>6

LEMMA SendMessageInductive ==
  ASSUME IndInv, NEW t \in Thread, NEW k \in Key, SendMessage(t, k)
  PROVE  IndInv'
<1> USE DEF IndInv
<1>1. /\ up /\ lock = Free /\ lock' = t /\ call[t].op = "idle"
      /\ Moves(t, "commit", k)
  BY EnterFacts DEF SendMessage, Op
<1>2. /\ k \in topics \ cancelled
      /\ UNCHANGED <<cfgs, up, topics, cancelled, configs, deleteList,
                     acked, refused, skipped, crashes>>
  BY DEF SendMessage, history, memory
<1>3. /\ k \in DOMAIN dirs /\ DirsOK(dirs') /\ DOMAIN dirs' = DOMAIN dirs
      /\ dirs[k].next \in Nat
      /\ dirs'[k].next = dirs[k].next + 1 /\ dirs'[k].first <= dirs'[k].next
      /\ \A x \in DOMAIN dirs : x # k => dirs'[x] = dirs[x]
  BY <1>2, WrittenDirs DEF SendMessage
<1>4. TypeOK'
  BY <1>1, <1>2, <1>3, PartsTyped, PartsTypedNext DEF TypeParts, Moves
<1>5. Locking'
  BY <1>1, <1>2, LockingKept DEF Outside
<1>6. \A u \in Thread : call[u].op \in Outside
  BY <1>1, FreeIsNoThread DEF Locking, Outside
<1>7. Handling'
  <2>1. deleteList = {}
    BY <1>6 DEF Handling, Outside
  <2> QED BY <1>1, <1>2, <1>3, <2>1, HandlingKept
<1>8. Listing'
  BY <1>1, <1>2, <1>3, <1>6 DEF Listing, In, Outside
<1>9. CacheMirrorsFile'
  BY <1>2 DEF CacheMirrorsFile
<1>10. AckedKept'
  <2> SUFFICES ASSUME NEW a \in acked
               PROVE  a[1] \in DOMAIN dirs /\ a[2] < dirs'[a[1]].next
    BY <1>2, <1>3 DEF AckedKept
  <2>1. a[1] \in DOMAIN dirs /\ a[2] < dirs[a[1]].next /\ a[2] \in Nat
    BY DEF AckedKept, TypeOK
  <2> QED BY <1>3, <2>1
<1>11. Committed'
  <2>1. \A x : ~ Committing(x) /\ (Committing(x)' <=> x = k)
    BY <1>1, <1>6, CommittingMoves DEF Committing, In, Outside
  <2>2. \A x \in DOMAIN configs : configs[x] \in Int
    BY DEF TypeOK
  <2> QED BY <1>1, <1>2, <1>3, <2>1, <2>2 DEF Committed, Moves, Outside
<1>20. Skipping'
  BY <1>1, <1>2, SkippingKept DEF Skipping
<1> QED BY <1>4, <1>5, <1>7, <1>8, <1>9, <1>10, <1>11, <1>20

LEMMA SendRefusedInductive ==
  ASSUME IndInv, NEW t \in Thread, NEW k \in Key, SendRefused(t, k)
  PROVE  IndInv'
<1> USE DEF IndInv
<1>1. /\ up /\ lock = Free /\ k \in topics \ cancelled
      /\ UNCHANGED <<cfgs, up, topics, cancelled, configs, lock, call, deleteList,
                     acked, refused, skipped, crashes>>
  BY DEF SendRefused, history, memory, control
<1>2. /\ k \in DOMAIN dirs /\ DirsOK(dirs') /\ DOMAIN dirs' = DOMAIN dirs
      /\ dirs[k].next \in Nat
      /\ dirs'[k].next = dirs[k].next /\ dirs'[k].first <= dirs'[k].next
      /\ \A x \in DOMAIN dirs : x # k => dirs'[x] = dirs[x]
  <2>1. PICK f \in dirs[k].first .. dirs[k].next :
          dirs' = With(dirs, k, [first |-> f, next |-> dirs[k].next])
    BY DEF SendRefused
  <2>2. dirs[k].next + 0 = dirs[k].next
    BY <1>1 DEF Listing, TypeOK
  <2> QED BY <1>1, <2>1, <2>2, WrittenDirs
<1>3. \A x \in DOMAIN dirs : dirs'[x].next = dirs[x].next
  BY <1>2
<1>4. TypeOK'
  BY <1>1, <1>2, PartsTyped, PartsTypedNext DEF TypeParts
<1>5. Locking'
  BY <1>1 DEF Locking, In
<1>6. Handling'
  BY <1>1, <1>2, <1>3 DEF Handling, Listing, In, KeyOf
<1>7. Listing'
  BY <1>1, <1>2 DEF Listing, In, KeyOf
<1>8. CacheMirrorsFile'
  BY <1>1 DEF CacheMirrorsFile
<1>9. AckedKept'
  BY <1>1, <1>2, <1>3 DEF AckedKept
<1>10. Committed'
  <2>1. \A x : Committing(x)' <=> Committing(x)
    BY <1>1 DEF Committing, In, KeyOf
  <2>2. \A u \in Thread : call[u].op \in Outside
    BY <1>1, FreeIsNoThread DEF Locking, Outside
  <2> QED BY <1>1, <1>2, <1>3, <2>1, <2>2 DEF Committed, Outside
<1>20. Skipping'
  BY <1>1 DEF Skipping, KeyOf
<1> QED BY <1>4, <1>5, <1>6, <1>7, <1>8, <1>9, <1>10, <1>20

LEMMA CommitOffsetInductive ==
  ASSUME IndInv, NEW t \in Thread, CommitOffset(t)
  PROVE  IndInv'
<1> USE DEF IndInv
<1> DEFINE k == KeyOf(t)
           n == Written(k)
           v == [sized |-> TRUE, commit |-> n]
<1>1. /\ call[t].op = "commit" /\ k \in Key /\ k \in DOMAIN configs
      /\ cfgs' = With(cfgs, k, v) /\ configs' = With(configs, k, n)
      /\ acked' = acked \cup {<<k, n>>}
      /\ UNCHANGED <<dirs, up, topics, cancelled, deleteList, refused, skipped, crashes>>
  BY KeyOfKey DEF CommitOffset, In
<1>2. up /\ lock = t /\ lock' = Free /\ Moves(t, "idle", NoCall.key)
  BY <1>1, ReturnFacts DEF CommitOffset, Outside
<1>3. k \in topics \ cancelled /\ dirs[k].next > 0 /\ deleteList = {}
  BY <1>1, <1>2 DEF Handling, Moves, Outside, In
<1>4. k \in DOMAIN dirs /\ dirs[k].next \in Nat /\ n \in Nat /\ n = dirs[k].next - 1
  BY <1>3 DEF Listing, TypeOK, Written
<1> HIDE DEF k, n
<1>5. /\ DOMAIN cfgs' = DOMAIN cfgs \cup {k} /\ cfgs'[k] = v
      /\ \A x \in DOMAIN cfgs : x # k => cfgs'[x] = cfgs[x]
      /\ DOMAIN configs' = DOMAIN configs \cup {k} /\ configs'[k] = n
      /\ \A x \in DOMAIN configs : x # k => configs'[x] = configs[x]
  BY <1>1 DEF With
<1>6. TypeOK'
  <2>1. CfgsOK(cfgs')
    <3>1. v \in [sized : BOOLEAN, commit : Int]
      BY <1>4
    <3> QED BY <1>1, <3>1, PartsTyped, CfgsKept DEF TypeParts
  <2>2. ConfigsOK(configs')
    BY <1>1, <1>4, PartsTyped, ConfigsKept DEF TypeParts
  <2>3. acked' \subseteq Key \X Nat
    BY <1>1, <1>4 DEF TypeOK
  <2> QED BY <1>1, <1>2, <2>1, <2>2, <2>3, PartsTyped, PartsTypedNext DEF TypeParts, Moves
<1>7. Locking'
  BY <1>1, <1>2, LockingKept DEF Outside
<1>8. Handling'
  BY <1>1, <1>2, <1>3, HandlingKept
<1>9. Listing'
  BY <1>1, <1>2, <1>3, <1>5 DEF Listing, In, Moves, Outside, KeyOf
<1>10. CacheMirrorsFile'
  BY <1>1, <1>5 DEF CacheMirrorsFile
<1>11. v.sized = TRUE /\ v.commit = n
  OBVIOUS
<1> HIDE DEF v
<1>12. AckedKept'
  <2> SUFFICES ASSUME NEW a \in acked'
               PROVE  /\ a[1] \in DOMAIN cfgs' /\ cfgs'[a[1]].sized
                      /\ a[2] <= cfgs'[a[1]].commit
                      /\ a[1] \in DOMAIN dirs' /\ a[2] < dirs'[a[1]].next
                      /\ \/ a[1] \in skipped'
                         \/ a[1] \in DOMAIN configs' /\ a[1] \in (topics \ cancelled)'
    BY DEF AckedKept
  <2>1. CASE a = <<k, n>>
    BY <1>1, <1>3, <1>4, <1>5, <1>11, <2>1
  <2>2. CASE a \in acked
    <3>1. /\ a[1] \in DOMAIN cfgs /\ cfgs[a[1]].sized
          /\ a[2] <= cfgs[a[1]].commit
          /\ a[1] \in DOMAIN dirs /\ a[2] < dirs[a[1]].next
          /\ a[1] \in skipped \/ (a[1] \in DOMAIN configs /\ a[1] \in topics \ cancelled)
          /\ a[2] \in Nat
      BY <1>2, <2>2 DEF AckedKept, TypeOK
    <3>2. a[1] = k => a[2] <= n
      BY <1>4, <3>1
    <3> QED BY <1>1, <1>5, <1>11, <3>1, <3>2
  <2> QED BY <1>1, <2>1, <2>2
<1>13. Committed'
  <2>1. \A x : ~ Committing(x)' /\ (x # k => ~ Committing(x))
    BY <1>2, CommittingMoves, CommittingNow DEF Moves, k
  <2> QED BY <1>1, <1>2, <1>4, <1>5, <2>1 DEF Committed, Moves, Outside
<1>20. Skipping'
  BY <1>1, <1>2, <1>5, SkippingKept DEF Skipping
<1> QED BY <1>6, <1>7, <1>8, <1>9, <1>10, <1>12, <1>13, <1>20

LEMMA CommitRefusedInductive ==
  ASSUME IndInv, NEW t \in Thread, CommitRefused(t)
  PROVE  IndInv'
<1> USE DEF IndInv
<1>1. /\ call[t].op = "commit" /\ KeyOf(t) \notin DOMAIN configs
      /\ UNCHANGED <<dirs, cfgs, up, topics, cancelled, configs, deleteList,
                     acked, refused, skipped, crashes>>
  BY DEF CommitRefused, files, memory, history, In
<1>2. up /\ lock = t /\ lock' = Free /\ Moves(t, "idle", NoCall.key)
  BY <1>1, ReturnFacts DEF CommitRefused, Outside
<1>3. deleteList = {}
  BY <1>1, <1>2 DEF Handling, Moves, Outside
<1>4. TypeOK'
  BY <1>1, <1>2, PartsTyped, PartsTypedNext DEF TypeParts, Moves
<1>5. Locking'
  BY <1>1, <1>2, LockingKept DEF Outside
<1>6. Handling'
  BY <1>1, <1>2, <1>3, HandlingKept
<1>7. Listing' /\ CacheMirrorsFile' /\ AckedKept'
  BY <1>1, <1>2, StillSound, DoingFacts DEF Op, Outside, Call
<1>8. Committed'
  <2>1. \A x : ~ Committing(x)' /\ (x # KeyOf(t) => ~ Committing(x))
    BY <1>2, CommittingMoves, CommittingNow DEF Moves
  <2> QED BY <1>1, <1>2, <2>1 DEF Committed, Moves, Outside
<1>20. Skipping'
  BY <1>1, <1>2, SkippingKept DEF Skipping
<1> QED BY <1>4, <1>5, <1>6, <1>7, <1>8, <1>20

\* A thread that does not hold the lock begins or ends a getOffsets.
LEMMA AsideInductive ==
  ASSUME IndInv, NEW t \in Thread, call[t].op \in Outside,
         call' \in [Thread -> Call], call'[t].op \in Outside, ~ up => call'[t].op = "idle",
         \A u \in Thread \ {t} : call'[u] = call[u],
         UNCHANGED <<dirs, cfgs, up, topics, cancelled, configs, lock, deleteList,
                     acked, refused, skipped, crashes>>
  PROVE  IndInv'
<1> USE DEF IndInv
<1>1. \A u \in Thread : /\ call[u].op \notin Outside => call'[u] = call[u]
                        /\ call'[u].op \notin Outside => call'[u] = call[u]
  OBVIOUS
<1>2. TypeOK'
  BY PartsTyped, PartsTypedNext DEF TypeParts
<1>3. Locking'
  BY <1>1 DEF Locking, In, Outside
<1>4. Handling'
  BY <1>1 DEF Handling, In, KeyOf, Outside
<1>5. Listing'
  BY <1>1 DEF Listing, In, KeyOf, Outside
<1>6. CacheMirrorsFile' /\ AckedKept'
  BY DEF CacheMirrorsFile, AckedKept
<1>7. Committed'
  <2>1. \A x : Committing(x)' <=> Committing(x)
    BY <1>1 DEF Committing, In, KeyOf, Outside
  <2> QED BY <1>1, <2>1 DEF Committed, KeyOf, Outside
<1>20. Skipping'
  BY <1>1 DEF Skipping, KeyOf, Outside
<1> QED BY <1>2, <1>3, <1>4, <1>5, <1>6, <1>7, <1>20

LEMMA GetOffsetsFacts ==
  ASSUME TypeOK, Listing, NEW t \in Thread, NEW k \in Key, GetOffsets(t, k)
  PROVE  /\ call' \in [Thread -> Call] /\ call'[t].op = "offsets" /\ call'[t].key = k
         /\ k \notin cancelled => call'[t].last = dirs[k].next - 1
         /\ \A u \in Thread \ {t} : call'[u] = call[u]
<1> DEFINE last == IF k \in cancelled THEN -2 ELSE dirs[k].next - 1
<1>1. last \in Int
  BY DEF GetOffsets, Listing, TypeOK
<1>2. call' = [call EXCEPT ![t] = Doing("offsets", k, last)]
  BY DEF GetOffsets
<1>3. k \notin cancelled => last = dirs[k].next - 1
  OBVIOUS
<1> HIDE DEF last
<1>4. "offsets" \in Op
  BY DEF Op
<1> QED BY <1>1, <1>2, <1>3, <1>4, DoingFacts DEF TypeOK

LEMMA GetOffsetsInductive ==
  ASSUME IndInv, NEW t \in Thread, NEW k \in Key, GetOffsets(t, k)
  PROVE  IndInv'
BY GetOffsetsFacts, AsideInductive DEF IndInv, GetOffsets, In, Outside, files, memory, history

LEMMA GetCommitOffsetInductive ==
  ASSUME IndInv, NEW t \in Thread, GetCommitOffset(t)
  PROVE  IndInv'
<1>1. /\ call' \in [Thread -> Call] /\ call'[t].op = "idle" /\ call[t].op = "offsets"
      /\ \A u \in Thread \ {t} : call'[u] = call[u]
  BY DoingFacts DEF GetCommitOffset, IndInv, TypeOK, In
<1> QED BY <1>1, AsideInductive DEF GetCommitOffset, Outside, files, memory, history
-----------------------------------------------------------------------------
(* deletePartition                                                         *)

\* The files and the acknowledged messages once the partition k is gone.
Gone(k) ==
  /\ DOMAIN dirs' = DOMAIN dirs \ {k}
  /\ \A x \in DOMAIN dirs : x # k => dirs'[x] = dirs[x]
  /\ acked' = {a \in acked : a[1] # k}

LEMMA GoneFacts ==
  ASSUME TypeOK, NEW k \in Key, dirs' = Without(dirs, k), acked' = {a \in acked : a[1] # k}
  PROVE  DirsOK(dirs') /\ Gone(k) /\ acked' \subseteq Key \X Nat
<1>1. DirsOK(dirs')
  BY PartsTyped, DirsKept DEF TypeParts
<1>2. Gone(k)
  BY DEF Gone, Without, Restrict
<1> QED BY <1>1, <1>2 DEF TypeOK

LEMMA DeletePartitionMoves ==
  ASSUME TypeOK, Locking, NEW t \in Thread, NEW k \in Key, DeletePartition(t, k)
  PROVE  Moves(t, "close", k)
<1> DEFINE c == [call EXCEPT ![t] = Doing("close", k, -1)]
<1>1. \A u \in Thread \ {t} : call[u].op \in Outside
  BY HolderAlone DEF DeletePartition
<1>2. "close" \in Op /\ -1 \in Int
  BY DEF Op
<1>3. /\ c \in [Thread -> Call] /\ c[t].op = "close" /\ c[t].key = k
      /\ \A u \in Thread \ {t} : c[u] = call[u]
  BY <1>2, DoingFacts DEF TypeOK
<1>4. call' = Outdate(c, k)
  BY DEF DeletePartition
<1> HIDE DEF c
<1> QED BY <1>1, <1>3, <1>4, OutdateFacts DEF Moves

LEMMA DeletePartitionInductive ==
  ASSUME IndInv, NEW t \in Thread, NEW k \in Key, DeletePartition(t, k)
  PROVE  IndInv'
<1> USE DEF IndInv
<1>1. /\ up /\ lock = Free /\ lock' = t /\ call[t].op = "idle" /\ k \in topics
      /\ topics' = topics \ {k} /\ cancelled' = cancelled \ {k}
      /\ UNCHANGED <<cfgs, up, configs, deleteList, refused, skipped, crashes>>
  BY DEF DeletePartition, In
<1>2. DirsOK(dirs') /\ Gone(k) /\ acked' \subseteq Key \X Nat
  BY GoneFacts DEF DeletePartition
<1>3. \A u \in Thread : call[u].op \in Outside
  BY <1>1, FreeIsNoThread DEF Locking, Outside
<1>4. Moves(t, "close", k)
  BY DeletePartitionMoves
<1>5. deleteList = {}
  BY <1>3 DEF Handling, Outside
<1>6. TypeOK'
  BY <1>1, <1>2, <1>4, PartsTyped, PartsTypedNext DEF TypeParts, Moves
<1>7. Locking'
  BY <1>1, <1>4, LockingKept DEF Outside
<1>8. Handling'
  BY <1>1, <1>4, <1>5, HandlingKept
<1>9. Listing'
  BY <1>1, <1>2, <1>3, <1>4 DEF Listing, Gone, Moves, In, KeyOf, Outside
<1>10. CacheMirrorsFile'
  BY <1>1 DEF CacheMirrorsFile
<1>11. AckedKept'
  BY <1>1, <1>2 DEF AckedKept, Gone, TypeOK
<1>12. Committed'
  <2>1. \A x : ~ Committing(x)' /\ ~ Committing(x)
    BY <1>3, <1>4, CommittingMoves DEF Committing, In, Outside
  <2> QED BY <1>1, <1>2, <1>3, <1>4, <2>1 DEF Committed, Gone, Moves, Outside
<1>20. Skipping'
  BY <1>1, <1>4, SkippingKept DEF Skipping
<1> QED BY <1>6, <1>7, <1>8, <1>9, <1>10, <1>11, <1>12, <1>20

LEMMA CloseConfigInductive ==
  ASSUME IndInv, NEW t \in Thread, CloseConfig(t)
  PROVE  IndInv'
<1> USE DEF IndInv
<1> DEFINE k == KeyOf(t)
<1>1. /\ call[t].op = "close" /\ k \in Key /\ configs' = Without(configs, k)
      /\ UNCHANGED <<dirs, cfgs, up, topics, cancelled, deleteList,
                     acked, refused, skipped, crashes>>
  BY KeyOfKey DEF CloseConfig, files, history, In
<1>2. PICK op \in {"remove", "idle"}, q \in Key :
        /\ up /\ lock = t /\ Moves(t, op, q)
        /\ op = "remove" => k \in DOMAIN configs /\ q = k /\ lock' = t
        /\ op = "idle" => lock' = Free
  <2>1. CASE k \in DOMAIN configs
    <3>1. Goto(t, "remove")
      BY <2>1 DEF CloseConfig
    <3> QED BY <1>1, <2>1, <3>1, GotoFacts DEF Op, Outside
  <2>2. CASE k \notin DOMAIN configs
    <3>1. Return(t)
      BY <2>2 DEF CloseConfig
    <3>2. NoCall.key \in Key
      BY DoingFacts DEF Call
    <3> QED BY <1>1, <3>1, <3>2, ReturnFacts DEF Outside
  <2> QED BY <2>1, <2>2
<1>3. k \notin topics
  BY <1>1 DEF Handling
<1> HIDE DEF k
<1>4. /\ DOMAIN configs' = DOMAIN configs \ {k}
      /\ \A x \in DOMAIN configs : x # k => configs'[x] = configs[x]
  BY <1>1 DEF Without, Restrict
<1>5. deleteList = {}
  BY <1>1, <1>2 DEF Handling, Moves, Outside
<1>6. TypeOK'
  <2>1. ConfigsOK(configs')
    BY <1>1, PartsTyped, ConfigsKept DEF TypeParts
  <2> QED BY <1>1, <1>2, <2>1, PartsTyped, PartsTypedNext DEF TypeParts, Moves
<1>7. Locking'
  BY <1>1, <1>2, LockingKept DEF Outside
<1>8. Handling'
  BY <1>1, <1>2, <1>3, <1>4, <1>5, HandlingKept
<1>9. Listing'
  BY <1>1, <1>2, <1>4 DEF Listing, Moves, In, KeyOf, Outside, k
<1>10. CacheMirrorsFile'
  BY <1>1, <1>4 DEF CacheMirrorsFile
<1>11. AckedKept'
  BY <1>1, <1>2, <1>3, <1>4 DEF AckedKept
<1>12. Committed'
  <2>1. \A x : ~ Committing(x)' /\ ~ Committing(x)
    BY <1>1, <1>2, CommittingMoves, CommittingNow DEF Moves, In
  <2> QED BY <1>1, <1>2, <1>4, <2>1 DEF Committed, Moves, Outside
<1>20. Skipping'
  BY <1>1, <1>2, <1>4, SkippingKept DEF Skipping
<1> QED BY <1>6, <1>7, <1>8, <1>9, <1>10, <1>11, <1>12, <1>20

LEMMA RemoveConfigInductive ==
  ASSUME IndInv, NEW t \in Thread, RemoveConfig(t)
  PROVE  IndInv'
<1> USE DEF IndInv
<1> DEFINE k == KeyOf(t)
<1>1. /\ call[t].op = "remove" /\ k \in Key /\ cfgs' = Without(cfgs, k)
      /\ UNCHANGED <<dirs, up, topics, cancelled, configs, deleteList,
                     acked, refused, skipped, crashes>>
  BY KeyOfKey DEF RemoveConfig, memory, history, In
<1>2. up /\ lock = t /\ lock' = Free /\ Moves(t, "idle", NoCall.key)
  BY <1>1, ReturnFacts DEF RemoveConfig, Outside
<1>3. k \notin topics /\ k \notin DOMAIN configs
  BY <1>1 DEF Handling, In
<1> HIDE DEF k
<1>4. /\ DOMAIN cfgs' = DOMAIN cfgs \ {k}
      /\ \A x \in DOMAIN cfgs : x # k => cfgs'[x] = cfgs[x]
  BY <1>1 DEF Without, Restrict
<1>5. deleteList = {}
  BY <1>1, <1>2 DEF Handling, Moves, Outside
<1>6. TypeOK'
  <2>1. CfgsOK(cfgs')
    BY <1>1, PartsTyped, CfgsKept DEF TypeParts
  <2> QED BY <1>1, <1>2, <2>1, PartsTyped, PartsTypedNext DEF TypeParts, Moves
<1>7. Locking'
  BY <1>1, <1>2, LockingKept DEF Outside
<1>8. Handling'
  BY <1>1, <1>2, <1>5, HandlingKept
<1>9. Listing'
  BY <1>1, <1>2 DEF Listing, Moves, In, KeyOf, Outside
<1>10. CacheMirrorsFile'
  BY <1>1, <1>3, <1>4 DEF CacheMirrorsFile
<1>11. AckedKept'
  BY <1>1, <1>2, <1>3, <1>4 DEF AckedKept, Skipping, k
<1>12. Committed'
  <2>1. \A x : ~ Committing(x)' /\ ~ Committing(x)
    BY <1>1, <1>2, CommittingMoves, CommittingNow DEF Moves, In
  <2> QED BY <1>1, <1>2, <2>1 DEF Committed, Moves, Outside
<1>20. Skipping'
  BY <1>1, <1>2, <1>4, SkippingKept DEF Skipping, k
<1> QED BY <1>6, <1>7, <1>8, <1>9, <1>10, <1>11, <1>12, <1>20

-----------------------------------------------------------------------------
(* deleteTopic                                                             *)

LEMMA DeleteTopicInductive ==
  ASSUME IndInv, NEW t \in Thread, NEW k \in Key, DeleteTopic(t, k)
  PROVE  IndInv'
<1> USE DEF IndInv
<1>1. /\ up /\ lock = Free /\ lock' = t /\ call[t].op = "idle" /\ Moves(t, "topic", k)
      /\ UNCHANGED <<dirs, cfgs, up, topics, cancelled, configs, deleteList,
                     acked, refused, skipped, crashes>>
  BY EnterFacts DEF DeleteTopic, Op, files, memory, history
<1>2. \A u \in Thread : call[u].op \in Outside
  BY <1>1, FreeIsNoThread DEF Locking, Outside
<1>3. TypeOK'
  BY <1>1, PartsTyped, PartsTypedNext DEF TypeParts, Moves
<1>4. Locking'
  BY <1>1, LockingKept DEF Outside
<1>5. Handling'
  <2>1. deleteList = {}
    BY <1>2 DEF Handling, Outside
  <2> QED BY <1>1, <2>1, HandlingKept
<1>6. Listing'
  BY <1>1, <1>2 DEF Listing, In, Outside
<1>7. CacheMirrorsFile' /\ AckedKept'
  BY <1>1 DEF CacheMirrorsFile, AckedKept
<1>8. Committed'
  <2>1. \A x : ~ Committing(x) /\ ~ Committing(x)'
    BY <1>1, <1>2, CommittingMoves DEF Committing, In, Outside
  <2> QED BY <1>1, <2>1 DEF Committed, Moves, Outside
<1>20. Skipping'
  BY <1>1, SkippingKept DEF Skipping
<1> QED BY <1>3, <1>4, <1>5, <1>6, <1>7, <1>8, <1>20

LEMMA DeleteOfTopicMoves ==
  ASSUME TypeOK, Locking, NEW t \in Thread, DeleteOfTopic(t)
  PROVE  \E k \in Remaining(t) :
           /\ dirs' = Without(dirs, k) /\ cancelled' = cancelled \cup {k}
           /\ acked' = {a \in acked : a[1] # k}
           /\ Moves(t, "topic_close", k)
<1>1. PICK k \in Remaining(t) :
        /\ dirs' = Without(dirs, k) /\ cancelled' = cancelled \cup {k}
        /\ acked' = {a \in acked : a[1] # k}
        /\ call' = Outdate([call EXCEPT ![t].op = "topic_close", ![t].key = k], k)
  BY DEF DeleteOfTopic
<1> DEFINE c == [call EXCEPT ![t].op = "topic_close", ![t].key = k]
<1>2. \A u \in Thread \ {t} : call[u].op \in Outside
  BY HolderAlone DEF DeleteOfTopic, Outside, In
<1>3. k \in Key
  BY DEF Remaining, TypeOK
<1>4. /\ c \in [Thread -> Call] /\ c[t].op = "topic_close" /\ c[t].key = k
      /\ \A u \in Thread \ {t} : c[u] = call[u]
  BY ZenonT(60), <1>3 DEF TypeOK, Call, Op
<1>5. call' = Outdate(c, k)
  BY <1>1
<1> HIDE DEF c
<1>6. Moves(t, "topic_close", k)
  BY <1>2, <1>4, <1>5, OutdateFacts DEF Moves
<1> QED BY <1>1, <1>6

LEMMA DeleteOfTopicInductive ==
  ASSUME IndInv, NEW t \in Thread, DeleteOfTopic(t)
  PROVE  IndInv'
<1> USE DEF IndInv
<1>1. PICK k \in Remaining(t) :
        /\ dirs' = Without(dirs, k) /\ cancelled' = cancelled \cup {k}
        /\ acked' = {a \in acked : a[1] # k}
        /\ Moves(t, "topic_close", k)
  BY DeleteOfTopicMoves
<1>2. /\ call[t].op = "topic"
      /\ UNCHANGED <<cfgs, up, topics, configs, lock, deleteList, refused, skipped, crashes>>
  BY DEF DeleteOfTopic, In
<1>3. k \in topics /\ k \in Key
  BY DEF Remaining, TypeOK
<1>4. DirsOK(dirs') /\ Gone(k) /\ acked' \subseteq Key \X Nat
  BY <1>1, <1>3, GoneFacts
<1>5. up /\ lock = t /\ \A u \in Thread \ {t} : call[u].op \in Outside
  BY <1>2, HolderAlone DEF Locking, Outside, In
<1>6. Moves(t, "topic_close", k)
  BY <1>1
<1>7. TypeOK'
  BY <1>1, <1>2, <1>3, <1>4, <1>6, PartsTyped, PartsTypedNext DEF TypeParts, Moves
<1>8. Locking'
  BY <1>2, <1>5, <1>6, LockingKept DEF Outside
<1>9. Handling'
  <2>1. deleteList' \subseteq cancelled' /\ deleteList' \cap DOMAIN configs' = {}
    BY <1>1, <1>2 DEF Handling
  <2> QED BY <1>1, <1>6, <2>1, HandlingKept
<1>10. Listing'
  BY <1>1, <1>2, <1>3, <1>4, <1>6 DEF Listing, Gone, Moves, In, KeyOf, Outside
<1>11. CacheMirrorsFile'
  BY <1>2 DEF CacheMirrorsFile
<1>12. AckedKept'
  BY <1>1, <1>2, <1>4 DEF AckedKept, Gone, TypeOK
<1>13. Committed'
  <2>1. \A x : ~ Committing(x)' /\ ~ Committing(x)
    BY <1>2, <1>5, <1>6, CommittingMoves, CommittingNow DEF In
  <2> QED BY <1>2, <1>4, <1>5, <1>6, <2>1 DEF Committed, Gone, Moves, Outside
<1>20. Skipping'
  BY <1>2, <1>6, SkippingKept DEF Skipping
<1> QED BY <1>7, <1>8, <1>9, <1>10, <1>11, <1>12, <1>13, <1>20

LEMMA CloseOfTopicInductive ==
  ASSUME IndInv, NEW t \in Thread, CloseOfTopic(t)
  PROVE  IndInv'
<1> USE DEF IndInv
<1> DEFINE k == KeyOf(t)
<1>1. /\ call[t].op = "topic_close" /\ k \in Key /\ configs' = Without(configs, k)
      /\ UNCHANGED <<dirs, cfgs, up, topics, cancelled, acked, refused, skipped, crashes>>
  BY KeyOfKey DEF CloseOfTopic, files, history, In
<1>2. PICK op \in {"topic_remove", "idle"}, q \in Key :
        /\ up /\ lock = t /\ Moves(t, op, q)
        /\ op = "topic_remove" => k \in DOMAIN configs /\ q = k /\ lock' = t /\ deleteList' = deleteList
        /\ op = "idle" => lock' = Free /\ deleteList' = {}
  <2>1. CASE k \in DOMAIN configs
    <3>1. Goto(t, "topic_remove") /\ deleteList' = deleteList
      BY <2>1 DEF CloseOfTopic
    <3> QED BY <1>1, <2>1, <3>1, GotoFacts DEF Op, Outside
  <2>2. CASE k \notin DOMAIN configs
    <3>1. Return(t) /\ deleteList' = {}
      BY <2>2 DEF CloseOfTopic
    <3>2. NoCall.key \in Key
      BY DoingFacts DEF Call
    <3> QED BY <1>1, <3>1, <3>2, ReturnFacts DEF Outside
  <2> QED BY <2>1, <2>2
<1>3. k \in cancelled
  BY <1>1 DEF Handling
<1> HIDE DEF k
<1>4. /\ DOMAIN configs' = DOMAIN configs \ {k}
      /\ \A x \in DOMAIN configs : x # k => configs'[x] = configs[x]
  BY <1>1 DEF Without, Restrict
<1>5. TypeOK'
  <2>1. ConfigsOK(configs')
    BY <1>1, PartsTyped, ConfigsKept DEF TypeParts
  <2> QED BY <1>1, <1>2, <2>1, PartsTyped, PartsTypedNext DEF TypeParts, Moves
<1>6. Locking'
  BY <1>1, <1>2, LockingKept DEF Outside
<1>7. Handling'
  <2>1. deleteList' \subseteq cancelled' /\ deleteList' \cap DOMAIN configs' = {}
    BY <1>1, <1>2, <1>4 DEF Handling
  <2> QED BY <1>1, <1>2, <1>3, <1>4, <2>1, HandlingKept
<1>8. Listing'
  BY <1>1, <1>2, <1>4 DEF Listing, Moves, In, KeyOf, Outside
<1>9. CacheMirrorsFile'
  BY <1>1, <1>4 DEF CacheMirrorsFile
<1>10. AckedKept'
  BY <1>1, <1>2, <1>3, <1>4 DEF AckedKept
<1>11. Committed'
  <2>1. \A x : ~ Committing(x)' /\ ~ Committing(x)
    BY <1>1, <1>2, CommittingMoves, CommittingNow DEF Moves, In
  <2> QED BY <1>1, <1>2, <1>4, <2>1 DEF Committed, Moves, Outside
<1>20. Skipping'
  BY <1>1, <1>2, <1>4, SkippingKept DEF Skipping
<1> QED BY <1>5, <1>6, <1>7, <1>8, <1>9, <1>10, <1>11, <1>20

LEMMA RemoveOfTopicInductive ==
  ASSUME IndInv, NEW t \in Thread, RemoveOfTopic(t)
  PROVE  IndInv'
<1> USE DEF IndInv
<1> DEFINE k == KeyOf(t)
<1>1. /\ call[t].op = "topic_remove" /\ k \in Key /\ cfgs' = Without(cfgs, k)
      /\ deleteList' = deleteList \cup {k}
      /\ UNCHANGED <<dirs, up, topics, cancelled, configs, acked, refused, skipped, crashes>>
  BY KeyOfKey DEF RemoveOfTopic, memory, history, In
<1>2. up /\ lock = t /\ lock' = t /\ Moves(t, "topic", k)
  BY <1>1, GotoFacts DEF RemoveOfTopic, Outside, Op
<1>3. k \in cancelled /\ k \notin DOMAIN configs
  BY <1>1 DEF Handling, In
<1> HIDE DEF k
<1>4. /\ DOMAIN cfgs' = DOMAIN cfgs \ {k}
      /\ \A x \in DOMAIN cfgs : x # k => cfgs'[x] = cfgs[x]
  BY <1>1 DEF Without, Restrict
<1>5. TypeOK'
  <2>1. CfgsOK(cfgs')
    BY <1>1, PartsTyped, CfgsKept DEF TypeParts
  <2> QED BY <1>1, <1>2, <2>1, PartsTyped, PartsTypedNext DEF TypeParts, Moves
<1>6. Locking'
  BY <1>1, <1>2, LockingKept DEF Outside
<1>7. Handling'
  <2>1. deleteList' \subseteq cancelled' /\ deleteList' \cap DOMAIN configs' = {}
    BY <1>1, <1>3 DEF Handling
  <2> QED BY <1>1, <1>2, <2>1, HandlingKept
<1>8. Listing'
  BY <1>1, <1>2 DEF Listing, Moves, In, KeyOf, Outside
<1>9. CacheMirrorsFile'
  BY <1>1, <1>3, <1>4 DEF CacheMirrorsFile
<1>10. AckedKept'
  BY <1>1, <1>2, <1>3, <1>4 DEF AckedKept, Skipping, k
<1>11. Committed'
  <2>1. \A x : ~ Committing(x)' /\ ~ Committing(x)
    BY <1>1, <1>2, CommittingMoves, CommittingNow DEF Moves, In
  <2> QED BY <1>1, <1>2, <2>1 DEF Committed, Moves, Outside
<1>20. Skipping'
  BY <1>1, <1>2, <1>4, SkippingKept DEF Skipping, k
<1> QED BY <1>5, <1>6, <1>7, <1>8, <1>9, <1>10, <1>11, <1>20

LEMMA EraseTopicInductive ==
  ASSUME IndInv, NEW t \in Thread, EraseTopic(t)
  PROVE  IndInv'
<1> USE DEF IndInv
<1>1. /\ call[t].op = "topic" /\ deleteList' = {}
      /\ topics' = topics \ deleteList /\ cancelled' = cancelled \ deleteList
      /\ UNCHANGED <<dirs, cfgs, up, configs, acked, refused, skipped, crashes>>
  BY DEF EraseTopic, files, history, In
<1>2. up /\ lock = t /\ lock' = Free /\ Moves(t, "idle", NoCall.key)
  BY <1>1, ReturnFacts DEF EraseTopic, Outside
<1>3. \A k \in deleteList : k \in cancelled /\ k \notin DOMAIN dirs /\ k \notin DOMAIN configs
  BY DEF Handling, Listing
<1>4. TypeOK'
  BY <1>1, <1>2, PartsTyped, PartsTypedNext DEF TypeParts, Moves
<1>5. Locking'
  BY <1>1, <1>2, LockingKept DEF Outside
<1>6. Handling'
  BY <1>1, <1>2, HandlingKept
<1>7. Listing'
  BY <1>1, <1>2, <1>3 DEF Listing, Moves, In, KeyOf, Outside
<1>8. CacheMirrorsFile'
  BY <1>1 DEF CacheMirrorsFile
<1>9. AckedKept'
  BY <1>1, <1>3 DEF AckedKept
<1>10. Committed'
  <2>1. \A x : ~ Committing(x)' /\ ~ Committing(x)
    BY <1>1, <1>2, CommittingMoves, CommittingNow DEF Moves, In
  <2> QED BY <1>1, <1>2, <1>3, <2>1 DEF Committed, Moves, Outside
<1>20. Skipping'
  BY <1>1, <1>2, SkippingKept DEF Skipping
<1> QED BY <1>4, <1>5, <1>6, <1>7, <1>8, <1>9, <1>10, <1>20

-----------------------------------------------------------------------------
(* Start and death of the process                                          *)

LEMMA LoadInductive ==
  ASSUME IndInv, Load
  PROVE  IndInv'
<1> USE DEF IndInv
<1>1. PICK ks \in SUBSET DOMAIN cfgs :
        /\ Loadable(ks) /\ skipped' = ks /\ configs' = LoadedConfigs(ks)
        /\ topics' = DOMAIN LoadedConfigs(ks) /\ dirs' \in OpenedDirs(topics')
  BY DEF Load
<1>2. /\ ~ up /\ up' = TRUE
      /\ UNCHANGED <<cfgs, cancelled, lock, call, deleteList, acked, refused, crashes>>
  BY DEF Load, control
<1>3. /\ lock = Free /\ topics = {} /\ cancelled = {} /\ deleteList = {}
      /\ \A t \in Thread : call[t].op = "idle"
  BY <1>2 DEF Locking, Handling, TypeOK, In
<1>4. /\ topics' = DOMAIN cfgs \ ks /\ DOMAIN configs' = DOMAIN cfgs \ ks
      /\ \A k \in DOMAIN cfgs \ ks : cfgs[k] = [sized |-> TRUE, commit |-> configs'[k]]
      /\ ConfigsOK(configs')
  <2>1. ASSUME NEW k \in DOMAIN cfgs \ ks
        PROVE  /\ cfgs[k] = [sized |-> TRUE, commit |-> cfgs[k].commit]
               /\ cfgs[k].commit \in Int /\ k \in Key
    <3>1. cfgs[k].sized
      BY <1>1, <2>1 DEF Loadable
    <3>2. cfgs[k] \in [sized : BOOLEAN, commit : Int] /\ k \in Key
      BY <2>1 DEF TypeOK
    <3> QED BY <3>1, <3>2
  <2>2. configs' = [k \in DOMAIN cfgs \ ks |-> cfgs[k].commit]
    BY <1>1 DEF LoadedConfigs
  <2> QED BY <1>1, <2>1, <2>2 DEF ConfigsOK, LoadedConfigs
<1>5. topics' \subseteq Key /\ ks \subseteq Key
  BY <1>1, <1>4 DEF TypeOK
<1>6. /\ DirsOK(dirs') /\ DOMAIN dirs' = DOMAIN dirs \cup topics'
      /\ \A k \in DOMAIN dirs' : dirs'[k].first <= dirs'[k].next
      /\ \A k \in DOMAIN dirs : dirs'[k].next = dirs[k].next
  BY <1>1, <1>5, OpenedFacts
<1>7. TypeOK'
  BY <1>1, <1>2, <1>3, <1>4, <1>5, <1>6, PartsTyped, PartsTypedNext DEF TypeParts
<1>8. Locking'
  BY <1>2, <1>3, FreeIsNoThread DEF Locking
<1>9. Handling'
  BY <1>2, <1>3 DEF Handling, In, KeyOf
<1>10. Listing'
  BY <1>2, <1>3, <1>4, <1>6 DEF Listing
<1>11. CacheMirrorsFile'
  BY <1>2, <1>4 DEF CacheMirrorsFile
<1>12. AckedKept'
  BY <1>1, <1>2, <1>3, <1>4, <1>6 DEF AckedKept
<1>13. Committed'
  BY <1>2, <1>3, <1>4, <1>6 DEF Committed
<1>20. Skipping'
  BY <1>1, <1>2, <1>3, <1>4 DEF Skipping, KeyOf
<1> QED BY <1>7, <1>8, <1>9, <1>10, <1>11, <1>12, <1>13, <1>20

LEMMA LoadRefusedInductive ==
  ASSUME IndInv, LoadRefused
  PROVE  IndInv'
<1> USE DEF IndInv
<1>1. PICK ks \in SUBSET DOMAIN cfgs : dirs' \in OpenedDirs(ks)
  BY DEF LoadRefused
<1>2. /\ ~ up
      /\ UNCHANGED <<cfgs, up, topics, cancelled, configs, lock, call, deleteList,
                     acked, refused, skipped, crashes>>
  BY DEF LoadRefused, memory, control, history
<1>3. /\ topics = {} /\ cancelled = {} /\ DOMAIN configs = {}
      /\ \A t \in Thread : call[t].op = "idle"
  BY <1>2 DEF Locking, TypeOK, In
<1>4. ks \subseteq Key
  BY DEF TypeOK
<1>5. /\ DirsOK(dirs') /\ DOMAIN dirs' = DOMAIN dirs \cup ks
      /\ \A k \in DOMAIN dirs' : dirs'[k].first <= dirs'[k].next
      /\ \A k \in DOMAIN dirs : dirs'[k].next = dirs[k].next
  BY <1>1, <1>4, OpenedFacts
<1>6. TypeOK'
  BY <1>2, <1>5, PartsTyped, PartsTypedNext DEF TypeParts
<1>7. Locking' /\ CacheMirrorsFile'
  BY <1>2 DEF Locking, CacheMirrorsFile, In
<1>8. Handling'
  BY <1>2, <1>3 DEF Handling, In, KeyOf
<1>9. Listing'
  BY <1>2, <1>3, <1>5 DEF Listing, In, KeyOf
<1>10. AckedKept'
  BY <1>2, <1>5 DEF AckedKept
<1>11. Committed'
  BY <1>2, <1>3, <1>5 DEF Committed
<1>20. Skipping'
  BY <1>2 DEF Skipping, KeyOf
<1> QED BY <1>6, <1>7, <1>8, <1>9, <1>10, <1>11, <1>20

LEMMA CrashInductive ==
  ASSUME IndInv, Crash
  PROVE  IndInv'
<1> USE DEF IndInv
<1>1. /\ crashes' = crashes + 1 /\ up' = FALSE
      /\ topics' = {} /\ cancelled' = {} /\ configs' = [k \in {} |-> 0]
      /\ lock' = Free /\ call' = [t \in Thread |-> NoCall] /\ deleteList' = {}
      /\ refused' = {} /\ skipped' = {} /\ UNCHANGED <<dirs, cfgs, acked>>
  BY DEF Crash, files
<1>2. ConfigsOK(configs') /\ DOMAIN configs' = {}
  BY <1>1 DEF ConfigsOK
<1>3. call' \in [Thread -> Call] /\ \A t \in Thread : call'[t].op = "idle"
  BY <1>1, DoingFacts
<1>4. TypeOK'
  <2>1. TypeParts
    BY PartsTyped
  <2>2. DirsOK(dirs') /\ CfgsOK(cfgs') /\ crashes' \in Nat /\ acked' \subseteq Key \X Nat
    BY <1>1, <2>1 DEF TypeParts
  <2> QED BY <1>1, <1>2, <1>3, <2>2, PartsTypedNext DEF TypeParts
<1>5. Locking'
  BY <1>1, <1>2, <1>3, FreeIsNoThread DEF Locking, In
<1>6. Handling'
  BY <1>1, <1>3 DEF Handling, In, KeyOf
<1>7. Listing'
  BY <1>1, <1>2 DEF Listing
<1>8. CacheMirrorsFile' /\ AckedKept'
  BY <1>1, <1>2 DEF CacheMirrorsFile, AckedKept
<1>9. Committed'
  BY <1>1 DEF Committed, TypeOK
<1>20. Skipping'
  BY <1>1, <1>2, <1>3 DEF Skipping, KeyOf
<1> QED BY <1>4, <1>5, <1>6, <1>7, <1>8, <1>9, <1>20

LEMMA InitInductive ==
  ASSUME Init
  PROVE  IndInv
<1>1. /\ DOMAIN dirs = {} /\ DOMAIN cfgs = {} /\ DOMAIN configs = {}
      /\ DirsOK(dirs) /\ CfgsOK(cfgs) /\ ConfigsOK(configs)
  BY DEF Init, DirsOK, CfgsOK, ConfigsOK
<1>2. call \in [Thread -> Call] /\ \A t \in Thread : call[t].op = "idle"
  BY DoingFacts DEF Init
<1>3. TypeOK
  BY <1>1, <1>2, PartsTyped DEF TypeParts, Init
<1>4. Locking
  BY <1>1, <1>2, FreeIsNoThread DEF Locking, In, Init
<1>5. Handling
  BY <1>2 DEF Handling, In, KeyOf, Init
<1>6. Listing /\ CacheMirrorsFile /\ AckedKept /\ Committed
  BY <1>1, <1>2 DEF Listing, CacheMirrorsFile, AckedKept, Committed, Init
<1>7. Skipping
  BY <1>1, <1>2 DEF Skipping, KeyOf, Init
<1> QED BY <1>3, <1>4, <1>5, <1>6, <1>7 DEF IndInv

LEMMA StutterInductive ==
  ASSUME IndInv, UNCHANGED vars
  PROVE  IndInv'
<1>1. /\ UNCHANGED <<dirs, cfgs, up, topics, cancelled, configs, lock, call, deleteList>>
      /\ UNCHANGED <<acked, refused, skipped, crashes>>
  BY DEF vars, files, memory, control, history
<1> QED BY <1>1 DEF IndInv, TypeOK, Locking, Handling, Listing, CacheMirrorsFile, AckedKept,
           Committed, Committing, Skipping, In, KeyOf

LEMMA StepInductive ==
  ASSUME IndInv, [Next]_vars
  PROVE  IndInv'
<1>1. CASE Load \/ LoadRefused \/ Crash
  BY <1>1, LoadInductive, LoadRefusedInductive, CrashInductive
<1>2. ASSUME NEW t \in Thread, Request(t)
      PROVE  IndInv'
  <2>1. PICK k \in Key :
          \/ CreatePartition(t, k) \/ CreateRefused(t, k) \/ GetOffsets(t, k)
          \/ DeletePartition(t, k) \/ DeleteTopic(t, k)
          \/ SendMessage(t, k) \/ SendRefused(t, k)
    BY <1>2 DEF Request, Control
  <2> QED BY <2>1, CreatePartitionInductive, CreateRefusedInductive, GetOffsetsInductive,
             DeletePartitionInductive, DeleteTopicInductive, SendMessageInductive,
             SendRefusedInductive
<1>3. ASSUME NEW t \in Thread, Continue(t)
      PROVE  IndInv'
  BY <1>3, ConfigRefusedInductive, CreateConfigFileInductive, SizeConfigFileInductive,
     StoreConfigInductive, CommitOffsetInductive, CommitRefusedInductive,
     GetCommitOffsetInductive, CloseConfigInductive, RemoveConfigInductive,
     DeleteOfTopicInductive, CloseOfTopicInductive, RemoveOfTopicInductive,
     EraseTopicInductive DEF Continue
<1>4. CASE UNCHANGED vars
  BY <1>4, StutterInductive
<1> QED BY <1>1, <1>2, <1>3, <1>4 DEF Next

-----------------------------------------------------------------------------
(* The theorems                                                            *)

\* What Broker.cc maintains at every step: the strengthened invariant.
THEOREM Invariance == Spec => []IndInv
<1>1. Init => IndInv
  BY InitInductive
<1>2. IndInv /\ [Next]_vars => IndInv'
  BY StepInductive
<1> QED BY <1>1, <1>2, PTL DEF Spec

\* The variables of Broker.cc and ConfigManager.cc keep their types.
THEOREM TypeCorrect == Spec => []TypeOK
BY Invariance, PTL DEF IndInv

\* The cached commit offset is the one of the mapped file at every step
\* (ConfigManager.cc:206-221).
THEOREM CacheCorrect == Spec => []CacheMirrorsFile
BY Invariance, PTL DEF IndInv

\* No message acknowledged by sendMessage is hidden from the consumers, wherever
\* the process was killed and whatever creation failed (Broker.cc:253-259), and
\* those of a configuration that a start could not open are kept for the next one
\* (ConfigManager.cc:62).
THEOREM NothingHidden == Spec => []AckedAnswered
<1>1. IndInv => AckedAnswered
  <2> SUFFICES ASSUME IndInv, Serving, NEW a \in acked
               PROVE  IF a[1] \in skipped
                      THEN Kept(a[1], a[2])
                      ELSE Answered(a[1], a[2]) \/ a[2] < dirs[a[1]].first
    BY DEF AckedAnswered
  <2> DEFINE k == a[1]
             o == a[2]
  <2>1. k \in Key /\ o \in Nat
    BY DEF IndInv, TypeOK
  <2>2. /\ k \in DOMAIN cfgs /\ cfgs[k].sized /\ o <= cfgs[k].commit
        /\ k \in DOMAIN dirs /\ o < dirs[k].next
        /\ k \in skipped \/ (k \in DOMAIN configs /\ k \in topics \ cancelled)
    BY DEF IndInv, AckedKept, Serving
  <2>3. Kept(k, o)
    BY <2>2 DEF Kept
  <2>4. ASSUME k \notin skipped
        PROVE  Visible(k, o) /\ k \in DOMAIN configs /\ k \in topics \ cancelled
    <3>1. cfgs[k] = [sized |-> TRUE, commit |-> configs[k]]
      BY <2>2, <2>4 DEF IndInv, CacheMirrorsFile
    <3> QED BY <2>2, <2>4, <3>1 DEF Visible
  <2>5. dirs[k].first \in Nat /\ dirs[k].next \in Nat
    BY <2>2 DEF IndInv, TypeOK
  <2> HIDE DEF k, o
  <2>6. k \notin skipped => Answered(k, o) \/ o < dirs[k].first
    BY <2>1, <2>2, <2>4, <2>5 DEF Answered
  <2> QED BY <2>3, <2>6 DEF k, o
<1> QED BY <1>1, Invariance, PTL

\* Until the process is killed the commit offset is the offset of the last message,
\* as README:104-105 says.
THEOREM CommitLast == Spec => []CommitIsLastUnlessKilled
<1>1. IndInv => CommitIsLastUnlessKilled
  <2> SUFFICES ASSUME IndInv, crashes = 0, Serving, NEW k \in topics \ cancelled,
                      k \in DOMAIN configs
               PROVE  configs[k] = dirs[k].next - 1
    BY DEF CommitIsLastUnlessKilled, CommitIsLast
  <2>1. k \in DOMAIN dirs
    BY DEF IndInv, Listing
  <2>2. ~ Committing(k)
    BY FreeIsNoThread DEF IndInv, Locking, Committing, In, Serving
  <2> QED BY <2>1, <2>2 DEF IndInv, Committed
<1> QED BY <1>1, Invariance, PTL

-----------------------------------------------------------------------------
(* The four views agree                                                    *)

\* No creation failed in the topic of k since the process was started.
Sound(k) == TopicOf(k) \notin refused

\* A handler is at one of these places with the key k.
InWork(k, ops) == \E t \in Thread : call[t].op \in ops /\ KeyOf(t) = k

\* In the topics where no creation failed the views differ only by the key of the
\* handler in progress, and by the keys deleteTopic has yet to erase.
Views ==
  /\ \A k \in cancelled : Sound(k) =>
       k \in deleteList \/ InWork(k, {"topic_close", "topic_remove"})
  /\ \A k \in topics : Sound(k) =>
       \/ k \in DOMAIN configs \/ k \in deleteList
       \/ InWork(k, {"config", "size", "store", "topic_remove"})
  /\ up => \A k \in DOMAIN cfgs : Sound(k) =>
       \/ k \in DOMAIN configs \/ k \in skipped
       \/ InWork(k, {"size", "store", "remove", "topic_remove"})
  /\ crashes = 0 => \A k \in DOMAIN dirs : Sound(k) => k \in topics
  /\ \A t \in Thread : call[t].op \in {"close", "topic_close"} /\ Sound(KeyOf(t)) =>
       KeyOf(t) \in DOMAIN configs
  /\ \A t \in Thread : call[t].op \in {"topic", "topic_close", "topic_remove"} =>
       \A k \in deleteList : TopicOf(k) = TopicOf(KeyOf(t))

-----------------------------------------------------------------------------
(* The work in progress moves with the handler                             *)

LEMMA WorkMoves ==
  ASSUME NEW t \in Thread, NEW op, NEW k, Moves(t, op, k)
  PROVE  \A x, ops : ops \cap Outside = {} =>
           /\ InWork(x, ops) <=> call[t].op \in ops /\ KeyOf(t) = x
           /\ InWork(x, ops)' <=> op \in ops /\ k = x
BY DEF InWork, Moves, KeyOf

\* A handler works alone: the views, once it has moved from its place and key to
\* the next, differ by its key alone.
Before(op, k) ==
  /\ \A x \in cancelled : Sound(x) =>
       x \in deleteList \/ (op \in {"topic_close", "topic_remove"} /\ x = k)
  /\ \A x \in topics : Sound(x) =>
       \/ x \in DOMAIN configs \/ x \in deleteList
       \/ op \in {"config", "size", "store", "topic_remove"} /\ x = k
  /\ \A x \in DOMAIN cfgs : Sound(x) =>
       \/ x \in DOMAIN configs \/ x \in skipped
       \/ op \in {"size", "store", "remove", "topic_remove"} /\ x = k
  /\ crashes = 0 => \A x \in DOMAIN dirs : Sound(x) => x \in topics
  /\ op \in {"close", "topic_close"} /\ Sound(k) => k \in DOMAIN configs
  /\ op \in {"topic", "topic_close", "topic_remove"} =>
       \A x \in deleteList : TopicOf(x) = TopicOf(k)

LEMMA ViewsBefore ==
  ASSUME Views, up, NEW t \in Thread, NEW op, NEW k, Moves(t, op, k)
  PROVE  Before(call[t].op, KeyOf(t))
<1>1. \A x : /\ InWork(x, {"topic_close", "topic_remove"})
                  <=> call[t].op \in {"topic_close", "topic_remove"} /\ KeyOf(t) = x
             /\ InWork(x, {"config", "size", "store", "topic_remove"})
                  <=> call[t].op \in {"config", "size", "store", "topic_remove"} /\ KeyOf(t) = x
             /\ InWork(x, {"size", "store", "remove", "topic_remove"})
                  <=> call[t].op \in {"size", "store", "remove", "topic_remove"} /\ KeyOf(t) = x
  BY WorkMoves DEF Outside
<1> QED BY <1>1 DEF Views, Before

LEMMA ViewsAfter ==
  ASSUME NEW t \in Thread, NEW op, NEW k, Moves(t, op, k), Before(op, k)'
  PROVE  Views'
<1>1. \A x : /\ InWork(x, {"topic_close", "topic_remove"})'
                  <=> op \in {"topic_close", "topic_remove"} /\ k = x
             /\ InWork(x, {"config", "size", "store", "topic_remove"})'
                  <=> op \in {"config", "size", "store", "topic_remove"} /\ k = x
             /\ InWork(x, {"size", "store", "remove", "topic_remove"})'
                  <=> op \in {"size", "store", "remove", "topic_remove"} /\ k = x
  BY WorkMoves DEF Outside
<1>2. \A u \in Thread : call'[u].op \notin Outside => call'[u].op = op /\ KeyOf(u)' = k
  BY DEF Moves, KeyOf
<1> QED BY <1>1, <1>2 DEF Views, Before, Outside, Sound

-----------------------------------------------------------------------------
(* createPartition                                                         *)

LEMMA CreatePartitionViews ==
  ASSUME IndInv, Views, NEW t \in Thread, NEW k \in Key, CreatePartition(t, k)
  PROVE  Views'
<1> USE DEF IndInv
<1>1. /\ up /\ call[t].op = "idle" /\ Moves(t, "config", k)
      /\ k \notin topics /\ topics' = topics \cup {k}
      /\ UNCHANGED <<cfgs, up, cancelled, configs, deleteList, refused, skipped, crashes>>
  BY EnterFacts DEF CreatePartition, Op, history
<1>2. DOMAIN dirs' = DOMAIN dirs \cup {k}
  BY DEF CreatePartition, OpenedDirs
<1>3. Before("idle", KeyOf(t))
  BY <1>1, ViewsBefore
<1>4. Before("config", k)'
  BY <1>1, <1>2, <1>3 DEF Before, Sound
<1> QED BY <1>1, <1>4, ViewsAfter

LEMMA CreateRefusedViews ==
  ASSUME IndInv, Views, NEW t \in Thread, NEW k \in Key, CreateRefused(t, k)
  PROVE  Views'
<1>1. /\ refused' = refused \cup {TopicOf(k)}
      /\ UNCHANGED <<cfgs, up, topics, cancelled, configs, call, deleteList, skipped, crashes>>
  BY DEF CreateRefused, memory, control
<1>2. DOMAIN dirs' \subseteq DOMAIN dirs \cup {k}
  BY DEF CreateRefused, OpenedDirs
<1>3. \A x, ops : InWork(x, ops)' <=> InWork(x, ops)
  BY <1>1 DEF InWork, KeyOf
<1> QED BY <1>1, <1>2, <1>3 DEF Views, Sound, KeyOf

LEMMA ConfigRefusedViews ==
  ASSUME IndInv, Views, NEW t \in Thread, NEW k, k = KeyOf(t), ConfigRefused(t)
  PROVE  Views'
<1> USE DEF IndInv
<1>1. /\ call[t].op \in {"config", "size", "store"}
      /\ refused' = refused \cup {TopicOf(k)}
      /\ UNCHANGED <<dirs, cfgs, up, topics, cancelled, configs, deleteList, skipped, crashes>>
  BY DEF ConfigRefused, files, memory, In
<1>2. up /\ Moves(t, "idle", NoCall.key)
  BY <1>1, ReturnFacts DEF ConfigRefused, Outside
<1>3. Before(call[t].op, k)
  BY <1>2, ViewsBefore
<1>4. Before("idle", NoCall.key)'
  BY <1>1, <1>3 DEF Before, Sound
<1> QED BY <1>2, <1>4, ViewsAfter

LEMMA CreateConfigFileViews ==
  ASSUME IndInv, Views, NEW t \in Thread, NEW k, k = KeyOf(t), CreateConfigFile(t)
  PROVE  Views'
<1> USE DEF IndInv
<1>1. /\ call[t].op = "config"
      /\ UNCHANGED <<dirs, up, topics, cancelled, configs, deleteList, refused, skipped, crashes>>
  BY DEF CreateConfigFile, memory, history, In
<1>2. up /\ Moves(t, "size", k)
  BY <1>1, GotoFacts DEF CreateConfigFile, Outside, Op
<1>3. DOMAIN cfgs' = DOMAIN cfgs \cup {k}
  BY DEF CreateConfigFile, With
<1>4. Before("config", k)
  BY <1>1, <1>2, ViewsBefore
<1>5. Before("size", k)'
  BY <1>1, <1>3, <1>4 DEF Before, Sound
<1> QED BY <1>2, <1>5, ViewsAfter

LEMMA SizeConfigFileViews ==
  ASSUME IndInv, Views, NEW t \in Thread, NEW k, k = KeyOf(t), SizeConfigFile(t)
  PROVE  Views'
<1> USE DEF IndInv
<1>1. /\ call[t].op = "size"
      /\ UNCHANGED <<dirs, up, topics, cancelled, configs, deleteList, refused, skipped, crashes>>
  BY DEF SizeConfigFile, memory, history, In
<1>2. up /\ Moves(t, "store", k)
  BY <1>1, GotoFacts DEF SizeConfigFile, Outside, Op
<1>3. DOMAIN cfgs' = DOMAIN cfgs \cup {k}
  BY DEF SizeConfigFile, With
<1>4. Before("size", k)
  BY <1>1, <1>2, ViewsBefore
<1>5. Before("store", k)'
  BY <1>1, <1>3, <1>4 DEF Before, Sound
<1> QED BY <1>2, <1>5, ViewsAfter

LEMMA StoreConfigViews ==
  ASSUME IndInv, Views, NEW t \in Thread, NEW k, k = KeyOf(t), StoreConfig(t)
  PROVE  Views'
<1> USE DEF IndInv
<1>1. /\ call[t].op = "store"
      /\ UNCHANGED <<dirs, up, topics, cancelled, deleteList, refused, skipped, crashes>>
  BY DEF StoreConfig, history, In
<1>2. up /\ Moves(t, "idle", NoCall.key)
  BY <1>1, ReturnFacts DEF StoreConfig, Outside
<1>3. DOMAIN cfgs' = DOMAIN cfgs \cup {k} /\ DOMAIN configs' = DOMAIN configs \cup {k}
  BY DEF StoreConfig, With
<1>4. Before("store", k)
  BY <1>1, <1>2, ViewsBefore
<1>5. Before("idle", NoCall.key)'
  BY <1>1, <1>3, <1>4 DEF Before, Sound
<1> QED BY <1>2, <1>5, ViewsAfter

-----------------------------------------------------------------------------
(* sendMessage, getOffsets                                                 *)

LEMMA SendMessageViews ==
  ASSUME IndInv, Views, NEW t \in Thread, NEW k \in Key, SendMessage(t, k)
  PROVE  Views'
<1> USE DEF IndInv
<1>1. /\ up /\ call[t].op = "idle" /\ Moves(t, "commit", k) /\ k \in topics \ cancelled
      /\ UNCHANGED <<cfgs, up, topics, cancelled, configs, deleteList, refused, skipped, crashes>>
  BY EnterFacts DEF SendMessage, Op, history, memory
<1>2. DOMAIN dirs' = DOMAIN dirs
  BY WrittenDirs DEF SendMessage
<1>3. Before("idle", KeyOf(t))
  BY <1>1, ViewsBefore
<1>4. Before("commit", k)'
  BY <1>1, <1>2, <1>3 DEF Before, Sound
<1> QED BY <1>1, <1>4, ViewsAfter

LEMMA SendRefusedViews ==
  ASSUME IndInv, Views, NEW t \in Thread, NEW k \in Key, SendRefused(t, k)
  PROVE  Views'
<1>1. /\ k \in topics \ cancelled
      /\ UNCHANGED <<cfgs, up, topics, cancelled, configs, call, deleteList,
                     refused, skipped, crashes>>
  BY DEF SendRefused, history, memory, control
<1>2. DOMAIN dirs' = DOMAIN dirs
  <2>1. k \in DOMAIN dirs
    BY <1>1 DEF IndInv, Listing
  <2> QED BY <2>1 DEF SendRefused, With
<1>3. \A x, ops : InWork(x, ops)' <=> InWork(x, ops)
  BY <1>1 DEF InWork, KeyOf
<1> QED BY <1>1, <1>2, <1>3 DEF Views, Sound, KeyOf

LEMMA CommitOffsetViews ==
  ASSUME IndInv, Views, NEW t \in Thread, NEW k, k = KeyOf(t), CommitOffset(t)
  PROVE  Views'
<1> USE DEF IndInv
<1>1. /\ call[t].op = "commit" /\ k \in DOMAIN configs
      /\ UNCHANGED <<dirs, up, topics, cancelled, deleteList, refused, skipped, crashes>>
  BY DEF CommitOffset, In
<1>2. up /\ Moves(t, "idle", NoCall.key)
  BY <1>1, ReturnFacts DEF CommitOffset, Outside
<1>3. DOMAIN cfgs' = DOMAIN cfgs \cup {k} /\ DOMAIN configs' = DOMAIN configs
  BY <1>1 DEF CommitOffset, With
<1>4. Before("commit", k)
  BY <1>1, <1>2, ViewsBefore
<1>5. Before("idle", NoCall.key)'
  BY <1>1, <1>3, <1>4 DEF Before, Sound
<1> QED BY <1>2, <1>5, ViewsAfter

LEMMA CommitRefusedViews ==
  ASSUME IndInv, Views, NEW t \in Thread, CommitRefused(t)
  PROVE  Views'
<1> USE DEF IndInv
<1>1. /\ call[t].op = "commit"
      /\ UNCHANGED <<dirs, cfgs, up, topics, cancelled, configs, deleteList,
                     refused, skipped, crashes>>
  BY DEF CommitRefused, files, memory, history, In
<1>2. up /\ Moves(t, "idle", NoCall.key)
  BY <1>1, ReturnFacts DEF CommitRefused, Outside
<1>3. Before("commit", KeyOf(t))
  BY <1>1, <1>2, ViewsBefore
<1>4. Before("idle", NoCall.key)'
  BY <1>1, <1>3 DEF Before, Sound
<1> QED BY <1>2, <1>4, ViewsAfter

LEMMA AsideViews ==
  ASSUME Views, NEW t \in Thread, call[t].op \in Outside, call'[t].op \in Outside,
         \A u \in Thread \ {t} : call'[u] = call[u],
         UNCHANGED <<dirs, cfgs, up, topics, cancelled, configs, deleteList,
                     refused, skipped, crashes>>
  PROVE  Views'
<1>1. \A x : /\ InWork(x, {"topic_close", "topic_remove"})'
                  <=> InWork(x, {"topic_close", "topic_remove"})
             /\ InWork(x, {"config", "size", "store", "topic_remove"})'
                  <=> InWork(x, {"config", "size", "store", "topic_remove"})
             /\ InWork(x, {"size", "store", "remove", "topic_remove"})'
                  <=> InWork(x, {"size", "store", "remove", "topic_remove"})
  BY DEF InWork, KeyOf, Outside
<1>2. \A u \in Thread : call'[u].op \notin Outside =>
        call[u].op = call'[u].op /\ KeyOf(u)' = KeyOf(u)
  BY DEF KeyOf
<1> QED BY <1>1, <1>2 DEF Views, Sound, Outside

LEMMA OffsetsViews ==
  ASSUME IndInv, Views, NEW t \in Thread,
         GetCommitOffset(t) \/ \E k \in Key : GetOffsets(t, k)
  PROVE  Views'
<1> USE DEF IndInv
<1>1. CASE GetCommitOffset(t)
  <2>1. /\ call'[t].op = "idle" /\ call[t].op = "offsets"
        /\ \A u \in Thread \ {t} : call'[u] = call[u]
    BY <1>1, DoingFacts DEF GetCommitOffset, TypeOK, In
  <2> QED BY <1>1, <2>1, AsideViews DEF GetCommitOffset, Outside, files, memory, history
<1>2. ASSUME NEW k \in Key, GetOffsets(t, k)
      PROVE  Views'
  BY <1>2, GetOffsetsFacts, AsideViews DEF GetOffsets, In, Outside, files, memory, history
<1> QED BY <1>1, <1>2

-----------------------------------------------------------------------------
(* deletePartition                                                         *)

LEMMA DeletePartitionViews ==
  ASSUME IndInv, Views, NEW t \in Thread, NEW k \in Key, DeletePartition(t, k)
  PROVE  Views'
<1> USE DEF IndInv
<1>1. /\ up /\ lock = Free /\ call[t].op = "idle" /\ k \in topics
      /\ topics' = topics \ {k} /\ cancelled' = cancelled \ {k}
      /\ UNCHANGED <<cfgs, up, configs, deleteList, refused, skipped, crashes>>
  BY DEF DeletePartition, In
<1>2. DOMAIN dirs' = DOMAIN dirs \ {k}
  BY DEF DeletePartition, Without, Restrict
<1>3. Moves(t, "close", k)
  BY DeletePartitionMoves
<1>4. deleteList = {}
  BY <1>1, FreeIsNoThread DEF Handling, Locking
<1>5. Before("idle", KeyOf(t))
  BY <1>1, <1>3, ViewsBefore
<1>6. Before("close", k)'
  BY <1>1, <1>2, <1>4, <1>5 DEF Before, Sound
<1> QED BY <1>3, <1>6, ViewsAfter

LEMMA CloseConfigViews ==
  ASSUME IndInv, Views, NEW t \in Thread, NEW k, k = KeyOf(t), CloseConfig(t)
  PROVE  Views'
<1> USE DEF IndInv
<1>1. /\ call[t].op = "close"
      /\ UNCHANGED <<dirs, cfgs, up, topics, cancelled, deleteList, refused, skipped, crashes>>
  BY DEF CloseConfig, files, history, In
<1>2. DOMAIN configs' = DOMAIN configs \ {k} /\ k \notin topics
  BY <1>1 DEF CloseConfig, Without, Restrict, Handling
<1>3. CASE k \in DOMAIN configs
  <2>1. up /\ Moves(t, "remove", k)
    BY <1>1, <1>3, GotoFacts DEF CloseConfig, Op, Outside
  <2>2. Before("close", k)
    BY <1>1, <2>1, ViewsBefore
  <2>3. Before("remove", k)'
    BY <1>1, <1>2, <2>2 DEF Before, Sound
  <2> QED BY <2>1, <2>3, ViewsAfter
<1>4. CASE k \notin DOMAIN configs
  <2>1. up /\ Moves(t, "idle", NoCall.key)
    BY <1>1, <1>4, ReturnFacts DEF CloseConfig, Outside
  <2>2. Before("close", k)
    BY <1>1, <2>1, ViewsBefore
  <2>3. Before("idle", NoCall.key)'
    BY <1>1, <1>2, <1>4, <2>2 DEF Before, Sound
  <2> QED BY <2>1, <2>3, ViewsAfter
<1> QED BY <1>3, <1>4

LEMMA RemoveConfigViews ==
  ASSUME IndInv, Views, NEW t \in Thread, NEW k, k = KeyOf(t), RemoveConfig(t)
  PROVE  Views'
<1> USE DEF IndInv
<1>1. /\ call[t].op = "remove"
      /\ UNCHANGED <<dirs, up, topics, cancelled, configs, deleteList, refused, skipped, crashes>>
  BY DEF RemoveConfig, memory, history, In
<1>2. up /\ Moves(t, "idle", NoCall.key)
  BY <1>1, ReturnFacts DEF RemoveConfig, Outside
<1>3. DOMAIN cfgs' = DOMAIN cfgs \ {k}
  BY DEF RemoveConfig, Without, Restrict
<1>4. Before("remove", k)
  BY <1>1, <1>2, ViewsBefore
<1>5. Before("idle", NoCall.key)'
  BY <1>1, <1>3, <1>4 DEF Before, Sound
<1> QED BY <1>2, <1>5, ViewsAfter

-----------------------------------------------------------------------------
(* deleteTopic                                                             *)

LEMMA DeleteTopicViews ==
  ASSUME IndInv, Views, NEW t \in Thread, NEW k \in Key, DeleteTopic(t, k)
  PROVE  Views'
<1> USE DEF IndInv
<1>1. /\ up /\ lock = Free /\ call[t].op = "idle" /\ Moves(t, "topic", k)
      /\ UNCHANGED <<dirs, cfgs, up, topics, cancelled, configs, deleteList,
                     refused, skipped, crashes>>
  BY EnterFacts DEF DeleteTopic, Op, files, memory, history
<1>2. deleteList = {}
  BY <1>1, FreeIsNoThread DEF Handling, Locking
<1>3. Before("idle", KeyOf(t))
  BY <1>1, ViewsBefore
<1>4. Before("topic", k)'
  BY <1>1, <1>2, <1>3 DEF Before, Sound
<1> QED BY <1>1, <1>4, ViewsAfter

LEMMA DeleteOfTopicViews ==
  ASSUME IndInv, Views, NEW t \in Thread, DeleteOfTopic(t)
  PROVE  Views'
<1> USE DEF IndInv
<1>1. PICK k \in Remaining(t) :
        /\ dirs' = Without(dirs, k) /\ cancelled' = cancelled \cup {k}
        /\ Moves(t, "topic_close", k)
  BY DeleteOfTopicMoves
<1>2. /\ call[t].op = "topic"
      /\ UNCHANGED <<cfgs, up, topics, configs, deleteList, refused, skipped, crashes>>
  BY DEF DeleteOfTopic, In
<1>3. up
  BY <1>2 DEF Locking, In
<1>4. k \in topics \ deleteList /\ TopicOf(k) = TopicOf(KeyOf(t))
  BY DEF Remaining
<1>5. DOMAIN dirs' = DOMAIN dirs \ {k}
  BY <1>1 DEF Without, Restrict
<1>6. Before("topic", KeyOf(t))
  BY <1>1, <1>2, <1>3, ViewsBefore
<1>7. Before("topic_close", k)'
  BY <1>1, <1>2, <1>4, <1>5, <1>6 DEF Before, Sound
<1> QED BY <1>1, <1>7, ViewsAfter

LEMMA CloseOfTopicViews ==
  ASSUME IndInv, Views, NEW t \in Thread, NEW k, k = KeyOf(t), CloseOfTopic(t)
  PROVE  Views'
<1> USE DEF IndInv
<1>1. /\ call[t].op = "topic_close"
      /\ UNCHANGED <<dirs, cfgs, up, topics, cancelled, refused, skipped, crashes>>
  BY DEF CloseOfTopic, files, history, In
<1>2. DOMAIN configs' = DOMAIN configs \ {k}
  BY DEF CloseOfTopic, Without, Restrict
<1>3. CASE k \in DOMAIN configs
  <2>1. up /\ Moves(t, "topic_remove", k) /\ deleteList' = deleteList
    BY <1>1, <1>3, GotoFacts DEF CloseOfTopic, Op, Outside
  <2>2. Before("topic_close", k)
    BY <1>1, <2>1, ViewsBefore
  <2>3. Before("topic_remove", k)'
    BY <1>1, <1>2, <2>1, <2>2 DEF Before, Sound
  <2> QED BY <2>1, <2>3, ViewsAfter
<1>4. CASE k \notin DOMAIN configs
  <2>1. up /\ Moves(t, "idle", NoCall.key) /\ deleteList' = {}
    BY <1>1, <1>4, ReturnFacts DEF CloseOfTopic, Outside
  <2>2. Before("topic_close", k)
    BY <1>1, <2>1, ViewsBefore
  <2>3. ~ Sound(k) /\ \A x \in deleteList : ~ Sound(x)
    BY <1>4, <2>2 DEF Before, Sound
  <2>4. Before("idle", NoCall.key)'
    BY <1>1, <1>2, <1>4, <2>1, <2>2, <2>3 DEF Before, Sound
  <2> QED BY <2>1, <2>4, ViewsAfter
<1> QED BY <1>3, <1>4

LEMMA RemoveOfTopicViews ==
  ASSUME IndInv, Views, NEW t \in Thread, NEW k, k = KeyOf(t), RemoveOfTopic(t)
  PROVE  Views'
<1> USE DEF IndInv
<1>1. /\ call[t].op = "topic_remove" /\ deleteList' = deleteList \cup {k}
      /\ UNCHANGED <<dirs, up, topics, cancelled, configs, refused, skipped, crashes>>
  BY DEF RemoveOfTopic, memory, history, In
<1>2. up /\ Moves(t, "topic", k)
  BY <1>1, GotoFacts DEF RemoveOfTopic, Outside, Op
<1>3. DOMAIN cfgs' = DOMAIN cfgs \ {k}
  BY DEF RemoveOfTopic, Without, Restrict
<1>4. Before("topic_remove", k)
  BY <1>1, <1>2, ViewsBefore
<1>5. Before("topic", k)'
  BY <1>1, <1>3, <1>4 DEF Before, Sound
<1> QED BY <1>2, <1>5, ViewsAfter

LEMMA EraseTopicViews ==
  ASSUME IndInv, Views, NEW t \in Thread, EraseTopic(t)
  PROVE  Views'
<1> USE DEF IndInv
<1>1. /\ call[t].op = "topic" /\ deleteList' = {}
      /\ topics' = topics \ deleteList /\ cancelled' = cancelled \ deleteList
      /\ UNCHANGED <<dirs, cfgs, up, configs, refused, skipped, crashes>>
  BY DEF EraseTopic, files, history, In
<1>2. up /\ Moves(t, "idle", NoCall.key)
  BY <1>1, ReturnFacts DEF EraseTopic, Outside
<1>3. deleteList \cap DOMAIN dirs = {}
  BY DEF Handling, Listing
<1>4. Before("topic", KeyOf(t))
  BY <1>1, <1>2, ViewsBefore
<1>5. Before("idle", NoCall.key)'
  BY <1>1, <1>3, <1>4 DEF Before, Sound
<1> QED BY <1>2, <1>5, ViewsAfter

-----------------------------------------------------------------------------
(* Start and death of the process                                          *)

LEMMA LoadViews ==
  ASSUME IndInv, Views, Load
  PROVE  Views'
<1>1. PICK ks \in SUBSET DOMAIN cfgs :
        /\ skipped' = ks /\ configs' = LoadedConfigs(ks)
        /\ topics' = DOMAIN LoadedConfigs(ks) /\ dirs' \in OpenedDirs(topics')
  BY DEF Load
<1>2. ~ up /\ UNCHANGED <<cfgs, cancelled, call, deleteList, crashes>>
  BY DEF Load, control
<1>3. /\ topics' = DOMAIN cfgs \ ks /\ DOMAIN configs' = DOMAIN cfgs \ ks
      /\ DOMAIN dirs' = DOMAIN dirs \cup topics'
  BY <1>1 DEF LoadedConfigs, OpenedDirs
<1>4. cancelled = {} /\ \A t \in Thread : call[t].op = "idle"
  BY <1>2 DEF IndInv, Locking, TypeOK, In
<1>5. crashes = 0 => DOMAIN dirs' \subseteq topics'
  BY <1>2, <1>3 DEF IndInv, Committed
<1> QED BY <1>1, <1>2, <1>3, <1>4, <1>5 DEF Views

LEMMA LoadRefusedViews ==
  ASSUME IndInv, Views, LoadRefused
  PROVE  Views'
<1>1. /\ ~ up
      /\ UNCHANGED <<cfgs, up, topics, cancelled, configs, call, deleteList,
                     refused, skipped, crashes>>
  BY DEF LoadRefused, memory, control, history
<1>2. topics = {} /\ cancelled = {} /\ \A t \in Thread : call[t].op = "idle"
  BY <1>1 DEF IndInv, Locking, TypeOK, In
<1>3. crashes = 0 => DOMAIN dirs' = {}
  BY <1>1 DEF IndInv, Committed, LoadRefused, OpenedDirs
<1> QED BY <1>1, <1>2, <1>3 DEF Views

LEMMA CrashViews ==
  ASSUME IndInv, Crash
  PROVE  Views'
<1>1. /\ crashes' = crashes + 1 /\ up' = FALSE /\ topics' = {} /\ cancelled' = {}
      /\ \A t \in Thread : call'[t].op = "idle"
  BY DoingFacts DEF Crash
<1>2. crashes' # 0
  BY <1>1 DEF IndInv, TypeOK
<1> QED BY <1>1, <1>2 DEF Views

-----------------------------------------------------------------------------
LEMMA ViewsInit ==
  ASSUME Init
  PROVE  Views
<1>1. \A t \in Thread : call[t].op = "idle"
  BY DoingFacts DEF Init
<1> QED BY <1>1 DEF Views, Init

LEMMA ViewsStep ==
  ASSUME IndInv, Views, [Next]_vars
  PROVE  Views'
<1>1. CASE Load \/ LoadRefused \/ Crash
  BY <1>1, LoadViews, LoadRefusedViews, CrashViews
<1>2. ASSUME NEW t \in Thread, Request(t)
      PROVE  Views'
  <2>1. PICK k \in Key :
          \/ CreatePartition(t, k) \/ CreateRefused(t, k) \/ GetOffsets(t, k)
          \/ DeletePartition(t, k) \/ DeleteTopic(t, k)
          \/ SendMessage(t, k) \/ SendRefused(t, k)
    BY <1>2 DEF Request, Control
  <2> QED BY <2>1, CreatePartitionViews, CreateRefusedViews, OffsetsViews, DeletePartitionViews,
             DeleteTopicViews, SendMessageViews, SendRefusedViews
<1>3. ASSUME NEW t \in Thread, Continue(t)
      PROVE  Views'
  BY <1>3, ConfigRefusedViews, CreateConfigFileViews, SizeConfigFileViews, StoreConfigViews,
     CommitOffsetViews, CommitRefusedViews, OffsetsViews, CloseConfigViews, RemoveConfigViews,
     DeleteOfTopicViews, CloseOfTopicViews, RemoveOfTopicViews, EraseTopicViews DEF Continue
<1>4. CASE UNCHANGED vars
  <2>1. UNCHANGED <<dirs, cfgs, up, topics, cancelled, configs, call, deleteList,
                    refused, skipped, crashes>>
    BY <1>4 DEF vars, files, memory, control, history
  <2> QED BY <2>1 DEF Views, Sound, InWork, KeyOf
<1> QED BY <1>1, <1>2, <1>3, <1>4 DEF Next

\* Between two handlers no partition is half created or half deleted, wherever
\* earlier handlers were killed or failed (Broker.cc:82-145).
THEOREM ViewsAgree == Spec => []FourViewsAgree
<1>1. Init => IndInv /\ Views
  BY InitInductive, ViewsInit
<1>2. IndInv /\ Views /\ [Next]_vars => (IndInv /\ Views)'
  BY StepInductive, ViewsStep
<1>3. IndInv /\ Views => FourViewsAgree
  <2> SUFFICES ASSUME IndInv, Views, Serving
               PROVE  /\ DOMAIN configs \subseteq topics \cap DOMAIN cfgs
                      /\ topics \ cancelled \subseteq DOMAIN dirs
                      /\ \A k \in Key : Sound(k) =>
                           /\ k \notin cancelled
                           /\ k \in topics <=> k \in DOMAIN configs
                           /\ k \in topics <=> k \in DOMAIN cfgs \ skipped
                           /\ crashes = 0 => (k \in topics <=> k \in DOMAIN dirs)
    BY DEF FourViewsAgree, Sound
  <2>1. \A t \in Thread : call[t].op \in Outside
    BY FreeIsNoThread DEF IndInv, Locking, Serving, Outside
  <2>2. deleteList = {}
    BY <2>1 DEF IndInv, Handling, Outside
  <2>3. DOMAIN configs \subseteq topics \cap DOMAIN cfgs
    BY <2>1 DEF IndInv, Listing, CacheMirrorsFile, Outside, In
  <2>4. topics \ cancelled \subseteq DOMAIN dirs
    BY DEF IndInv, Listing
  <2>5. ASSUME NEW k \in Key, Sound(k)
        PROVE  /\ k \notin cancelled
               /\ k \in topics => k \in DOMAIN configs
               /\ k \in DOMAIN cfgs \ skipped => k \in DOMAIN configs
               /\ crashes = 0 => (k \in DOMAIN dirs => k \in topics)
    BY <2>1, <2>2, <2>5 DEF Views, InWork, Outside, Serving
  <2>6. skipped \cap DOMAIN configs = {}
    BY DEF IndInv, Skipping
  <2> QED BY <2>3, <2>4, <2>5, <2>6
<1> QED BY <1>1, <1>2, <1>3, PTL DEF Spec
-----------------------------------------------------------------------------
(* The answers of getOffsets                                               *)

\* Thread u has read the last offset of a partition that has not been deleted since.
Asking(u) == call[u].op = "offsets" /\ call[u].fresh

\* As long as the process has not been killed, the commit offset of that partition
\* is cached, and is not behind what the thread has read.
Ahead(k, last) ==
  k \in topics \ cancelled /\ k \in DOMAIN configs /\ last <= configs[k]

Current ==
  \A u \in Thread : (Asking(u) /\ crashes = 0 /\ Sound(KeyOf(u))) => Ahead(KeyOf(u), call[u].last)

\* The thread goes on asking, and the commit offset cached has not gone back.
LEMMA CurrentKept ==
  ASSUME TypeOK, TypeOK', Current, refused \subseteq refused', crashes' = crashes,
         \A u \in Thread : Asking(u)' =>
           /\ Asking(u) /\ call'[u].key = call[u].key /\ call'[u].last = call[u].last
           /\ (KeyOf(u) \in DOMAIN configs /\ KeyOf(u) \in topics \ cancelled /\ crashes = 0) =>
                /\ KeyOf(u) \in DOMAIN configs' /\ KeyOf(u) \in topics' \ cancelled'
                /\ configs[KeyOf(u)] <= configs'[KeyOf(u)]
  PROVE  Current'
<1> SUFFICES ASSUME NEW u \in Thread, Asking(u)', crashes' = 0, Sound(KeyOf(u))'
             PROVE  Ahead(KeyOf(u), call[u].last)'
  BY DEF Current
<1>1. KeyOf(u)' = KeyOf(u) /\ Sound(KeyOf(u))
  BY DEF KeyOf, Sound
<1>2. Ahead(KeyOf(u), call[u].last)
  BY <1>1 DEF Current
<1>3. KeyOf(u) \in DOMAIN configs' /\ KeyOf(u) \in topics' \ cancelled'
  BY <1>2 DEF Ahead
<1>4. /\ configs[KeyOf(u)] \in Int /\ configs'[KeyOf(u)] \in Int /\ call[u].last \in Int
      /\ configs[KeyOf(u)] <= configs'[KeyOf(u)] /\ call[u].last <= configs[KeyOf(u)]
  BY <1>2, <1>3 DEF TypeOK, Ahead, Call
<1>5. call[u].last <= configs'[KeyOf(u)] /\ call'[u].last = call[u].last
  BY <1>4
<1> QED BY <1>1, <1>3, <1>5 DEF Ahead

\* A handler that does not answer getOffsets leaves the threads that do alone.
LEMMA OthersAsk ==
  ASSUME TypeOK, NEW t \in Thread, NEW op, op # "offsets",
         (\E k \in Key : Enter(t, op, k)) \/ Goto(t, op) \/ Return(t)
  PROVE  \A u \in Thread : call'[u].op = "offsets" => call'[u] = call[u]
<1>1. CASE \E k \in Key : Enter(t, op, k)
  <2>1. PICK k \in Key : call' = [call EXCEPT ![t] = Doing(op, k, -1)]
    BY <1>1 DEF Enter
  <2>2. Doing(op, k, -1).op = op
    BY DEF Doing
  <2> QED BY <2>1, <2>2 DEF TypeOK
<1>2. CASE Goto(t, op)
  BY <1>2 DEF Goto, TypeOK, Call
<1>3. CASE Return(t)
  BY <1>3, DoingFacts DEF Return, TypeOK
<1> QED BY <1>1, <1>2, <1>3

LEMMA CurrentOthers ==
  ASSUME TypeOK, TypeOK', Current, refused \subseteq refused', crashes' = crashes,
         \A u \in Thread : call'[u].op = "offsets" => call'[u] = call[u],
         \A k \in DOMAIN configs : (k \in topics \ cancelled /\ crashes = 0) =>
           k \in DOMAIN configs' /\ k \in topics' \ cancelled' /\ configs[k] <= configs'[k]
  PROVE  Current'
BY CurrentKept DEF Asking, KeyOf

\* What the deletion of partition k does to them.
LEMMA Outdated ==
  ASSUME NEW c \in [Thread -> Call], NEW t \in Thread, NEW k, call' = Outdate(c, k),
         c[t].op # "offsets", \A u \in Thread \ {t} : c[u] = call[u]
  PROVE  \A u \in Thread : Asking(u)' =>
           /\ Asking(u) /\ KeyOf(u) # k
           /\ call'[u].key = call[u].key /\ call'[u].last = call[u].last
<1> SUFFICES ASSUME NEW u \in Thread, Asking(u)'
             PROVE  /\ Asking(u) /\ KeyOf(u) # k
                    /\ call'[u].key = call[u].key /\ call'[u].last = call[u].last
  OBVIOUS
<1>1. ~ (c[u].op = "offsets" /\ c[u].key = k) /\ call'[u] = c[u]
  BY DEF Outdate, Asking
<1>2. c[u] = call[u]
  BY <1>1 DEF Asking
<1> QED BY <1>1, <1>2 DEF Asking, KeyOf
-----------------------------------------------------------------------------
\* The handlers that change no view of the partitions, and no configuration.
LEMMA QuietCurrent ==
  ASSUME IndInv, IndInv', Current, NEW t \in Thread,
         \/ \E k \in Key : CreateRefused(t, k) \/ SendMessage(t, k) \/ SendRefused(t, k)
                           \/ DeleteTopic(t, k)
         \/ ConfigRefused(t) \/ CreateConfigFile(t) \/ SizeConfigFile(t) \/ CommitRefused(t)
         \/ RemoveConfig(t) \/ RemoveOfTopic(t) \/ GetCommitOffset(t)
  PROVE  Current'
<1> USE DEF IndInv
<1>1. UNCHANGED <<topics, cancelled, configs, crashes>> /\ refused \subseteq refused'
  BY DEF CreateRefused, SendMessage, SendRefused, DeleteTopic, ConfigRefused, CreateConfigFile,
     SizeConfigFile, CommitRefused, RemoveConfig, RemoveOfTopic, GetCommitOffset, memory, history
<1>2. \A u \in Thread : call'[u].op = "offsets" => call'[u] = call[u]
  <2>1. CASE \E k \in Key : CreateRefused(t, k) \/ SendRefused(t, k)
    BY <2>1 DEF CreateRefused, SendRefused, control
  <2>2. CASE \E k \in Key : SendMessage(t, k) \/ DeleteTopic(t, k)
    BY <2>2, OthersAsk DEF SendMessage, DeleteTopic
  <2>3. CASE ConfigRefused(t) \/ CommitRefused(t) \/ RemoveConfig(t)
    <3>1. Return(t)
      BY <2>3 DEF ConfigRefused, CommitRefused, RemoveConfig
    <3> QED BY <3>1, OthersAsk
  <2>4. CASE CreateConfigFile(t) \/ SizeConfigFile(t) \/ RemoveOfTopic(t)
    BY <2>4, OthersAsk DEF CreateConfigFile, SizeConfigFile, RemoveOfTopic
  <2>5. CASE GetCommitOffset(t)
    BY <2>5, DoingFacts DEF GetCommitOffset, TypeOK
  <2> QED BY <2>1, <2>2, <2>3, <2>4, <2>5
<1>3. \A k \in DOMAIN configs : configs[k] <= configs[k]
  BY DEF TypeOK
<1> QED BY <1>1, <1>2, <1>3, CurrentOthers

LEMMA CreatePartitionCurrent ==
  ASSUME IndInv, IndInv', Current, NEW t \in Thread, NEW k \in Key, CreatePartition(t, k)
  PROVE  Current'
<1> USE DEF IndInv
<1>1. /\ topics' = topics \cup {k} /\ UNCHANGED <<cancelled, configs, refused, crashes>>
      /\ \A u \in Thread : call'[u].op = "offsets" => call'[u] = call[u]
  BY OthersAsk DEF CreatePartition, history
<1>2. \A x \in DOMAIN configs : configs[x] <= configs[x]
  BY DEF TypeOK
<1> QED BY <1>1, <1>2, CurrentOthers

LEMMA StoreConfigCurrent ==
  ASSUME IndInv, IndInv', Current, NEW t \in Thread, StoreConfig(t)
  PROVE  Current'
<1> USE DEF IndInv
<1>1. /\ UNCHANGED <<topics, cancelled, refused, crashes>>
      /\ configs' = With(configs, KeyOf(t), -1)
      /\ KeyOf(t) \notin DOMAIN configs
  BY DEF StoreConfig, history, Handling, In
<1>2. \A u \in Thread : call'[u].op = "offsets" => call'[u] = call[u]
  BY OthersAsk DEF StoreConfig
<1>3. \A x \in DOMAIN configs : x \in DOMAIN configs' /\ configs[x] <= configs'[x]
  BY <1>1 DEF TypeOK, With
<1> QED BY <1>1, <1>2, <1>3, CurrentOthers

LEMMA CommitOffsetCurrent ==
  ASSUME IndInv, IndInv', Current, NEW t \in Thread, CommitOffset(t)
  PROVE  Current'
<1> USE DEF IndInv
<1> DEFINE k == KeyOf(t)
<1>1. /\ UNCHANGED <<topics, cancelled, refused, crashes>>
      /\ In(t, "commit") /\ k \in DOMAIN configs
      /\ configs' = With(configs, k, dirs[k].next - 1)
  BY DEF CommitOffset, Written
<1>2. \A u \in Thread : call'[u].op = "offsets" => call'[u] = call[u]
  BY OthersAsk DEF CommitOffset
<1>3. crashes = 0 => configs[k] <= configs'[k]
  <2>1. k \in DOMAIN dirs /\ dirs[k].next \in Nat
    BY <1>1 DEF Handling, Listing, TypeOK
  <2>2. crashes = 0 => configs[k] = dirs[k].next - 2
    <3>1. Committing(k)
      BY <1>1 DEF Committing
    <3> QED BY <1>1, <2>1, <3>1 DEF Committed
  <2>3. configs'[k] = dirs[k].next - 1
    BY <1>1 DEF With
  <2> QED BY <2>1, <2>2, <2>3
<1> HIDE DEF k
<1>4. \A x \in DOMAIN configs : x \in DOMAIN configs' /\ (crashes = 0 => configs[x] <= configs'[x])
  BY <1>1, <1>3 DEF TypeOK, With
<1> QED BY <1>1, <1>2, <1>4, CurrentOthers

\* Views says that the configuration of a partition listed is there.
LEMMA GetOffsetsCurrent ==
  ASSUME IndInv, IndInv', Views, Current, NEW t \in Thread, NEW k \in Key, GetOffsets(t, k)
  PROVE  Current'
<1> USE DEF IndInv
<1>1. /\ UNCHANGED <<topics, cancelled, configs, refused, crashes>> /\ lock = Free /\ k \in topics
  BY DEF GetOffsets, memory, history
<1>2. /\ call'[t].key = k
      /\ k \notin cancelled => call'[t].last = dirs[k].next - 1
      /\ \A u \in Thread \ {t} : call'[u] = call[u]
  BY GetOffsetsFacts
<1>3. \A u \in Thread : call[u].op \in Outside
  BY <1>1, FreeIsNoThread DEF Locking, Outside
<1>4. deleteList = {}
  BY <1>3 DEF Handling, Outside
<1>5. (crashes = 0 /\ Sound(k)) => Ahead(k, dirs[k].next - 1) /\ k \notin cancelled
  <2> SUFFICES ASSUME crashes = 0, Sound(k)
               PROVE  Ahead(k, dirs[k].next - 1) /\ k \notin cancelled
    OBVIOUS
  <2>1. k \notin cancelled /\ k \in DOMAIN configs
    BY <1>1, <1>3, <1>4 DEF Views, InWork, Outside
  <2>2. k \in DOMAIN dirs /\ ~ Committing(k)
    BY <1>1, <1>3, <2>1 DEF Listing, Committing, In, Outside
  <2>3. configs[k] = dirs[k].next - 1 /\ dirs[k].next \in Nat
    BY <2>1, <2>2 DEF Committed, TypeOK
  <2> QED BY <1>1, <2>1, <2>3 DEF Ahead
<1>6. ASSUME NEW u \in Thread, Asking(u)', crashes' = 0, Sound(KeyOf(u))'
      PROVE  Ahead(KeyOf(u), call[u].last)'
  <2>1. CASE u = t
    <3>1. KeyOf(u)' = k /\ Sound(k)
      BY <1>1, <1>2, <1>6, <2>1 DEF KeyOf, Sound
    <3>2. Ahead(k, dirs[k].next - 1) /\ call'[u].last = dirs[k].next - 1
      BY <1>1, <1>2, <1>5, <1>6, <2>1, <3>1
    <3> QED BY <1>1, <3>1, <3>2 DEF Ahead
  <2>2. CASE u # t
    <3>1. call'[u] = call[u] /\ Sound(KeyOf(u)) /\ Asking(u)
      BY <1>1, <1>2, <1>6, <2>2 DEF KeyOf, Sound, Asking
    <3>2. Ahead(KeyOf(u), call[u].last)
      BY <1>1, <1>6, <3>1 DEF Current
    <3> QED BY <1>1, <3>1, <3>2 DEF Ahead, KeyOf
  <2> QED BY <2>1, <2>2
<1> QED BY <1>6 DEF Current

LEMMA DeletePartitionCurrent ==
  ASSUME IndInv, IndInv', Current, NEW t \in Thread, NEW k \in Key, DeletePartition(t, k)
  PROVE  Current'
<1> USE DEF IndInv
<1> DEFINE c == [call EXCEPT ![t] = Doing("close", k, -1)]
<1>1. /\ topics' = topics \ {k} /\ cancelled' = cancelled \ {k}
      /\ UNCHANGED <<configs, refused, crashes>> /\ call' = Outdate(c, k)
  BY DEF DeletePartition
<1>2. "close" \in Op /\ -1 \in Int
  BY DEF Op
<1>3. c \in [Thread -> Call] /\ c[t].op = "close" /\ \A u \in Thread \ {t} : c[u] = call[u]
  BY <1>2, DoingFacts DEF TypeOK
<1> HIDE DEF c
<1>4. \A u \in Thread : Asking(u)' =>
        Asking(u) /\ KeyOf(u) # k /\ call'[u].key = call[u].key /\ call'[u].last = call[u].last
  BY <1>1, <1>3, Outdated
<1>5. \A x \in DOMAIN configs : configs[x] <= configs[x]
  BY DEF TypeOK
<1> QED BY <1>1, <1>4, <1>5, CurrentKept

LEMMA DeleteOfTopicCurrent ==
  ASSUME IndInv, IndInv', Current, NEW t \in Thread, DeleteOfTopic(t)
  PROVE  Current'
<1>1. PICK k \in Remaining(t) :
        /\ cancelled' = cancelled \cup {k}
        /\ call' = Outdate([call EXCEPT ![t].op = "topic_close", ![t].key = k], k)
  BY DEF DeleteOfTopic
<1> DEFINE c == [call EXCEPT ![t].op = "topic_close", ![t].key = k]
<1>2. UNCHANGED <<topics, configs, refused, crashes>> /\ call' = Outdate(c, k)
  BY <1>1 DEF DeleteOfTopic
<1>3. k \in Key /\ call \in [Thread -> Call]
  BY DEF IndInv, Remaining, TypeOK
<1>4. c \in [Thread -> Call] /\ c[t].op = "topic_close" /\ \A u \in Thread \ {t} : c[u] = call[u]
  BY <1>3 DEF Call, Op
<1> HIDE DEF c
<1>5. \A u \in Thread : Asking(u)' =>
        Asking(u) /\ KeyOf(u) # k /\ call'[u].key = call[u].key /\ call'[u].last = call[u].last
  BY <1>2, <1>4, Outdated
<1>6. \A x \in DOMAIN configs : configs[x] <= configs[x]
  BY DEF IndInv, TypeOK
<1> QED BY <1>1, <1>2, <1>5, <1>6, CurrentKept DEF IndInv

\* The configurations closed are those of partitions that are not listed any more.
LEMMA CloseCurrent ==
  ASSUME IndInv, IndInv', Current, NEW t \in Thread, CloseConfig(t) \/ CloseOfTopic(t)
  PROVE  Current'
<1> USE DEF IndInv
<1>1. /\ UNCHANGED <<topics, cancelled, refused, crashes>>
      /\ configs' = Without(configs, KeyOf(t))
  BY DEF CloseConfig, CloseOfTopic, history
<1>2. KeyOf(t) \notin topics \ cancelled
  BY DEF CloseConfig, CloseOfTopic, Handling, In
<1>3. Goto(t, "remove") \/ Goto(t, "topic_remove") \/ Return(t)
  BY DEF CloseConfig, CloseOfTopic
<1>4. \A u \in Thread : call'[u].op = "offsets" => call'[u] = call[u]
  BY <1>3, OthersAsk
<1>5. \A x \in DOMAIN configs : x # KeyOf(t) =>
        x \in DOMAIN configs' /\ configs[x] <= configs'[x]
  BY <1>1 DEF TypeOK, Without, Restrict
<1> QED BY <1>1, <1>2, <1>4, <1>5, CurrentOthers

LEMMA EraseTopicCurrent ==
  ASSUME IndInv, IndInv', Current, NEW t \in Thread, EraseTopic(t)
  PROVE  Current'
<1> USE DEF IndInv
<1>1. /\ topics' = topics \ deleteList /\ cancelled' = cancelled \ deleteList
      /\ UNCHANGED <<configs, refused, crashes>> /\ deleteList \subseteq cancelled
  BY DEF EraseTopic, history, Handling
<1>2. \A u \in Thread : call'[u].op = "offsets" => call'[u] = call[u]
  BY OthersAsk DEF EraseTopic
<1>3. \A x \in DOMAIN configs : configs[x] <= configs[x]
  BY DEF TypeOK
<1> QED BY <1>1, <1>2, <1>3, CurrentOthers

LEMMA CurrentStep ==
  ASSUME IndInv, IndInv', Views, Current, [Next]_vars
  PROVE  Current'
<1>1. CASE Load \/ LoadRefused
  <2>1. ~ up /\ UNCHANGED call
    BY <1>1 DEF Load, LoadRefused, control
  <2> QED BY <2>1 DEF IndInv, Locking, In, Current, Asking
<1>2. CASE Crash
  <2>1. \A u \in Thread : call'[u].op = "idle"
    BY <1>2, DoingFacts DEF Crash
  <2> QED BY <2>1 DEF Current, Asking
<1>3. ASSUME NEW t \in Thread, Request(t)
      PROVE  Current'
  <2>1. PICK k \in Key :
          \/ CreatePartition(t, k) \/ CreateRefused(t, k) \/ GetOffsets(t, k)
          \/ DeletePartition(t, k) \/ DeleteTopic(t, k)
          \/ SendMessage(t, k) \/ SendRefused(t, k)
    BY <1>3 DEF Request, Control
  <2> QED BY <2>1, QuietCurrent, CreatePartitionCurrent, GetOffsetsCurrent,
             DeletePartitionCurrent
<1>4. ASSUME NEW t \in Thread, Continue(t)
      PROVE  Current'
  BY <1>4, QuietCurrent, StoreConfigCurrent, CommitOffsetCurrent, CloseCurrent,
     DeleteOfTopicCurrent, EraseTopicCurrent DEF Continue
<1>5. CASE UNCHANGED vars
  <2>1. UNCHANGED <<topics, cancelled, configs, call, refused, crashes>>
    BY <1>5 DEF vars, memory, control, history
  <2> QED BY <2>1 DEF Current, Asking, Ahead, Sound, KeyOf
<1> QED BY <1>1, <1>2, <1>3, <1>4, <1>5 DEF Next

\* Only a kill counts as one.
LEMMA CrashesCount ==
  ASSUME Next
  PROVE  crashes' = crashes \/ crashes' = crashes + 1
BY ZenonT(60)
   DEF Next, Load, LoadRefused, Crash, Request, Control, Continue, CreatePartition,
   CreateRefused, GetOffsets, DeletePartition, DeleteTopic, SendMessage, SendRefused, ConfigRefused,
   CreateConfigFile, SizeConfigFile, StoreConfig, CommitOffset, CommitRefused, GetCommitOffset,
   CloseConfig, RemoveConfig, DeleteOfTopic, CloseOfTopic, RemoveOfTopic, EraseTopic, history, control

\* The commit offset that getOffsets reads after it has given the lock back is not
\* behind the last offset it read under it (Broker.cc:170-184).
THEOREM AnswersOrdered == Spec => OffsetsAnswerOrdered
<1>1. Init => IndInv /\ Views /\ Current
  <2>1. Init => Current
    <3>1. Init => \A t \in Thread : call[t].op = "idle"
      BY DoingFacts DEF Init
    <3> QED BY <3>1 DEF Current, Asking
  <2> QED BY <2>1, InitInductive, ViewsInit
<1>2. IndInv /\ Views /\ Current /\ [Next]_vars => (IndInv /\ Views /\ Current)'
  BY StepInductive, ViewsStep, CurrentStep
<1>3. IndInv /\ Current /\ IndInv' /\ [Next]_vars =>
        [\A t \in Thread :
           (/\ In(t, "offsets") /\ call'[t].op = "idle" /\ call[t].fresh
            /\ crashes' = 0 /\ TopicOf(KeyOf(t)) \notin refused)
             => KeyOf(t) \in DOMAIN configs /\ configs[KeyOf(t)] >= call[t].last]_vars
  <2> SUFFICES ASSUME IndInv, Current, Next, NEW t \in Thread, In(t, "offsets"), call[t].fresh,
                      crashes' = 0, TopicOf(KeyOf(t)) \notin refused
               PROVE  KeyOf(t) \in DOMAIN configs /\ configs[KeyOf(t)] >= call[t].last
    OBVIOUS
  <2>1. crashes = 0
    <3>1. crashes' = crashes \/ crashes' = crashes + 1
      BY CrashesCount
    <3> QED BY <3>1 DEF IndInv, TypeOK
  <2>2. Ahead(KeyOf(t), call[t].last)
    BY <2>1 DEF Current, Asking, In, Sound
  <2>3. configs[KeyOf(t)] \in Int /\ call[t].last \in Int
    BY <2>2 DEF IndInv, TypeOK, Call, Ahead
  <2> QED BY <2>2, <2>3 DEF Ahead
<1> QED BY <1>1, <1>2, <1>3, PTL DEF Spec, OffsetsAnswerOrdered

-----------------------------------------------------------------------------
(* Every handler ends: the turns left to the thread that is in it          *)

OfTopic == {"topic", "topic_close", "topic_remove"}

\* The steps still to come in a handler on one partition.
Turns(op) ==
  CASE op = "idle" -> 0
    [] op = "config" -> 3
    [] op \in {"size", "close"} -> 2
    [] OTHER -> 1

\* Three steps for each partition of the topic that deleteTopic has not deleted, and
\* one for the end.
Rest(t) ==
  CASE In(t, "topic") -> 3 * Cardinality(Remaining(t)) + 1
    [] In(t, "topic_close") -> 3 * Cardinality(Remaining(t))
    [] In(t, "topic_remove") -> 3 * Cardinality(Remaining(t)) - 1
    [] OTHER -> Turns(call[t].op)

\* There are finitely many partitions, and the one being deleted with its topic is
\* listed and not in delete_list.
Deleting ==
  /\ IsFiniteSet(topics) /\ IsFiniteSet(DOMAIN cfgs)
  /\ \A t \in Thread :
       call[t].op \in {"topic_close", "topic_remove"} => KeyOf(t) \in topics \ deleteList

\* After a step of thread t.
LEMMA DeletingKept ==
  ASSUME Deleting, NEW t \in Thread, NEW op, NEW k, Moves(t, op, k),
         IsFiniteSet(topics'), IsFiniteSet(DOMAIN cfgs'),
         op \in {"topic_close", "topic_remove"} => k \in topics' \ deleteList'
  PROVE  Deleting'
BY DEF Deleting, Moves, Outside, KeyOf

LEMMA RestOf ==
  ASSUME NEW t \in Thread
  PROVE  /\ In(t, "topic") => Rest(t) = 3 * Cardinality(Remaining(t)) + 1
         /\ In(t, "topic_close") => Rest(t) = 3 * Cardinality(Remaining(t))
         /\ In(t, "topic_remove") => Rest(t) = 3 * Cardinality(Remaining(t)) - 1
         /\ call[t].op \notin OfTopic => Rest(t) = Turns(call[t].op)
BY DEF Rest, In, OfTopic

LEMMA RestNext ==
  ASSUME NEW t \in Thread
  PROVE  /\ In(t, "topic")' => Rest(t)' = 3 * Cardinality(Remaining(t)') + 1
         /\ In(t, "topic_close")' => Rest(t)' = 3 * Cardinality(Remaining(t)')
         /\ In(t, "topic_remove")' => Rest(t)' = 3 * Cardinality(Remaining(t)') - 1
         /\ call'[t].op \notin OfTopic => Rest(t)' = Turns(call'[t].op)
BY DEF Rest, In, OfTopic, Turns

LEMMA RemainingFinite ==
  ASSUME TypeOK, Deleting, NEW t \in Thread
  PROVE  /\ IsFiniteSet(Remaining(t)) /\ Cardinality(Remaining(t)) \in Nat
         /\ call[t].op \in {"topic_close", "topic_remove"} =>
              KeyOf(t) \in Remaining(t) /\ Cardinality(Remaining(t)) > 0
<1>1. IsFiniteSet(Remaining(t)) /\ Cardinality(Remaining(t)) \in Nat
  <2>1. Remaining(t) \subseteq topics /\ IsFiniteSet(topics)
    BY DEF Remaining, Deleting
  <2> QED BY <2>1, FS_Subset, FS_CardinalityType
<1>2. ASSUME call[t].op \in {"topic_close", "topic_remove"}
      PROVE  KeyOf(t) \in Remaining(t) /\ Cardinality(Remaining(t)) > 0
  <2>1. KeyOf(t) \in Remaining(t)
    BY <1>2 DEF Deleting, Remaining
  <2>2. Cardinality(Remaining(t)) # 0
    BY <1>1, <2>1, FS_EmptySet
  <2> QED BY <1>1, <2>1, <2>2
<1> QED BY <1>1, <1>2

\* A rank is a natural number, and nothing is left to an idle thread only.
LEMMA RestNatural ==
  ASSUME TypeOK, Deleting, NEW t \in Thread
  PROVE  Rest(t) \in Nat /\ (Rest(t) = 0 <=> In(t, "idle"))
<1>1. PICK n \in Nat : n = Cardinality(Remaining(t))
  BY RemainingFinite
<1>2. CASE In(t, "topic")
  BY <1>1, <1>2, RestOf DEF In
<1>3. CASE In(t, "topic_close") \/ In(t, "topic_remove")
  <2>1. n > 0
    BY <1>1, <1>3, RemainingFinite DEF In
  <2> QED BY <1>1, <1>3, <2>1, RestOf DEF In
<1>4. CASE call[t].op \notin OfTopic
  BY <1>4, RestOf DEF Turns, In
<1> QED BY <1>2, <1>3, <1>4 DEF In, OfTopic

\* The same after the step.
LEMMA RestNaturalNext ==
  ASSUME Deleting', NEW t \in Thread
  PROVE  Rest(t)' \in Int
<1>1. PICK n \in Nat : n = Cardinality(Remaining(t)')
  <2>1. Remaining(t)' \subseteq topics' /\ IsFiniteSet(topics')
    BY DEF Remaining, Deleting
  <2>2. IsFiniteSet(Remaining(t)')
    BY <2>1, FS_Subset
  <2> QED BY <2>2, FS_CardinalityType
<1>2. CASE In(t, "topic")' \/ In(t, "topic_close")' \/ In(t, "topic_remove")'
  BY <1>1, <1>2, RestNext
<1>3. CASE call'[t].op \notin OfTopic
  BY <1>3, RestNext DEF Turns
<1> QED BY <1>2, <1>3 DEF In, OfTopic

\* The other threads are outside of the handlers that hold the lock.
LEMMA OthersRest ==
  ASSUME NEW t \in Thread, NEW op, NEW k, Moves(t, op, k)
  PROVE  \A u \in Thread \ {t} : Rest(u)' = Rest(u)
<1> SUFFICES ASSUME NEW u \in Thread \ {t} PROVE Rest(u)' = Rest(u)
  OBVIOUS
<1>1. call[u].op \notin OfTopic /\ call'[u].op = call[u].op
  BY DEF Moves, Outside, OfTopic
<1> QED BY <1>1, RestOf, RestNext

-----------------------------------------------------------------------------
(* One step of a handler                                                   *)

\* The handlers on one partition: the next turn, or the end.
LEMMA TurnTaken ==
  ASSUME IndInv, Deleting, NEW t \in Thread,
         \/ ConfigRefused(t) \/ CreateConfigFile(t) \/ SizeConfigFile(t) \/ StoreConfig(t)
         \/ CommitOffset(t) \/ CommitRefused(t) \/ CloseConfig(t) \/ RemoveConfig(t)
  PROVE  /\ Deleting' /\ Rest(t)' < Rest(t)
         /\ \A u \in Thread \ {t} : Rest(u)' = Rest(u)
<1> USE DEF IndInv
<1>1. call[t].op \notin Outside \cup OfTopic
  BY DEF ConfigRefused, CreateConfigFile, SizeConfigFile, StoreConfig, CommitOffset,
         CommitRefused, CloseConfig, RemoveConfig, In, Outside, OfTopic
<1>2. PICK op \in {"idle", "size", "store", "remove"} :
        /\ Goto(t, op) \/ (op = "idle" /\ Return(t))
        /\ Turns(op) < Turns(call[t].op)
  <2>1. CASE ConfigRefused(t) \/ StoreConfig(t) \/ CommitOffset(t) \/ CommitRefused(t)
             \/ RemoveConfig(t)
    <3>1. Return(t)
      BY <2>1 DEF ConfigRefused, StoreConfig, CommitOffset, CommitRefused, RemoveConfig
    <3>2. Turns("idle") < Turns(call[t].op)
      BY <1>1 DEF Turns, Outside
    <3> QED BY <3>1, <3>2
  <2>2. CASE CreateConfigFile(t)
    <3>1. Goto(t, "size") /\ Turns("size") < Turns(call[t].op)
      BY <2>2 DEF CreateConfigFile, Turns, In
    <3> QED BY <3>1
  <2>3. CASE SizeConfigFile(t)
    <3>1. Goto(t, "store") /\ Turns("store") < Turns(call[t].op)
      BY <2>3 DEF SizeConfigFile, Turns, In
    <3> QED BY <3>1
  <2>4. CASE CloseConfig(t)
    <3>1. Goto(t, "remove") \/ Return(t)
      BY <2>4 DEF CloseConfig
    <3>2. Turns("remove") < Turns(call[t].op) /\ Turns("idle") < Turns(call[t].op)
      BY <2>4 DEF CloseConfig, Turns, In
    <3> QED BY <3>1, <3>2
  <2> QED BY <2>1, <2>2, <2>3, <2>4
<1>3. PICK k : Moves(t, op, k)
  <2>1. op \in Op
    BY DEF Op
  <2>2. CASE Goto(t, op)
    BY <1>1, <2>1, <2>2, GotoFacts
  <2>3. CASE op = "idle" /\ Return(t)
    BY <1>1, <2>3, ReturnFacts
  <2> QED BY <1>2, <2>2, <2>3
<1>4. Rest(t)' < Rest(t)
  <2>1. call'[t].op = op /\ op \notin OfTopic
    BY <1>3 DEF Moves, OfTopic
  <2> QED BY <1>1, <1>2, <2>1, RestOf, RestNext
<1>5. topics' = topics /\ IsFiniteSet(DOMAIN cfgs')
  <2>1. /\ topics' = topics
        /\ UNCHANGED cfgs \/ (\E v : cfgs' = With(cfgs, KeyOf(t), v))
           \/ cfgs' = Without(cfgs, KeyOf(t))
    BY DEF ConfigRefused, CreateConfigFile, SizeConfigFile, StoreConfig, CommitOffset,
           CommitRefused, CloseConfig, RemoveConfig, memory, files
  <2>2. \/ DOMAIN cfgs' \subseteq DOMAIN cfgs
        \/ DOMAIN cfgs' = DOMAIN cfgs \cup {KeyOf(t)}
    <3>1. \A v : DOMAIN With(cfgs, KeyOf(t), v) = DOMAIN cfgs \cup {KeyOf(t)}
      BY WithFacts
    <3>2. DOMAIN Without(cfgs, KeyOf(t)) = DOMAIN cfgs \ {KeyOf(t)}
      BY WithoutFacts
    <3> QED BY <2>1, <3>1, <3>2
  <2>3. IsFiniteSet(DOMAIN cfgs)
    BY DEF Deleting
  <2>4. IsFiniteSet(DOMAIN cfgs \cup {KeyOf(t)})
    BY <2>3, FS_AddElement
  <2> QED BY <2>1, <2>2, <2>3, <2>4, FS_Subset
<1>6. Deleting'
  BY <1>3, <1>5, DeletingKept DEF Deleting
<1> QED BY <1>3, <1>4, <1>6, OthersRest

LEMMA OffsetsTaken ==
  ASSUME IndInv, Deleting, NEW t \in Thread, GetCommitOffset(t)
  PROVE  /\ Deleting' /\ Rest(t)' < Rest(t)
         /\ \A u \in Thread \ {t} : Rest(u)' = Rest(u)
<1>1. /\ call'[t] = NoCall /\ \A u \in Thread \ {t} : call'[u] = call[u]
      /\ UNCHANGED <<topics, cfgs, deleteList>>
  BY DEF IndInv, TypeOK, GetCommitOffset, files, memory
<1>2. Deleting'
  BY <1>1, DoingFacts DEF Deleting, KeyOf
<1>3. Rest(t)' < Rest(t)
  <2>1. call[t].op = "offsets" /\ call'[t].op = "idle"
    BY <1>1, DoingFacts DEF GetCommitOffset, In
  <2>2. Rest(t) = Turns("offsets") /\ Rest(t)' = Turns("idle")
    BY <2>1, RestOf, RestNext DEF OfTopic
  <2> QED BY <2>2 DEF Turns
<1>4. \A u \in Thread \ {t} : Rest(u)' = Rest(u)
  BY <1>1 DEF Rest, In, Remaining, KeyOf, Turns
<1> QED BY <1>2, <1>3, <1>4

LEMMA DeleteOfTopicTaken ==
  ASSUME IndInv, Deleting, NEW t \in Thread, DeleteOfTopic(t)
  PROVE  /\ Deleting' /\ Rest(t)' < Rest(t)
         /\ \A u \in Thread \ {t} : Rest(u)' = Rest(u)
<1> USE DEF IndInv
<1>1. PICK k \in Remaining(t) : Moves(t, "topic_close", k)
  BY DeleteOfTopicMoves
<1>2. UNCHANGED <<cfgs, topics, deleteList>> /\ In(t, "topic")
  BY DEF DeleteOfTopic
<1>3. Remaining(t)' = Remaining(t)
  BY <1>1, <1>2 DEF Remaining, Moves, KeyOf
<1>4. Rest(t)' < Rest(t)
  <2>1. In(t, "topic_close")'
    BY <1>1 DEF Moves, In
  <2>2. PICK n \in Nat : n = Cardinality(Remaining(t))
    BY RemainingFinite
  <2>3. Rest(t)' = 3 * n /\ Rest(t) = 3 * n + 1
    BY <1>2, <1>3, <2>1, <2>2, RestOf, RestNext
  <2> QED BY <2>3
<1>5. Deleting'
  <2>1. k \in topics' \ deleteList'
    BY <1>2 DEF Remaining
  <2> QED BY <1>1, <1>2, <2>1, DeletingKept DEF Deleting
<1> QED BY <1>1, <1>4, <1>5, OthersRest

LEMMA CloseOfTopicTaken ==
  ASSUME IndInv, Deleting, NEW t \in Thread, CloseOfTopic(t)
  PROVE  /\ Deleting' /\ Rest(t)' < Rest(t)
         /\ \A u \in Thread \ {t} : Rest(u)' = Rest(u)
<1> USE DEF IndInv
<1>1. In(t, "topic_close") /\ UNCHANGED <<cfgs, topics>>
  BY DEF CloseOfTopic, files
<1>2. PICK n \in Nat : n = Cardinality(Remaining(t)) /\ n > 0 /\ Rest(t) = 3 * n
  BY <1>1, RemainingFinite, RestOf DEF In
<1>3. CASE Goto(t, "topic_remove") /\ UNCHANGED deleteList
  <2>1. Moves(t, "topic_remove", KeyOf(t))
    BY <1>1, <1>3, GotoFacts DEF Op, Outside, In
  <2>2. In(t, "topic_remove")' /\ Remaining(t)' = Remaining(t)
    BY <1>1, <1>3, <2>1 DEF Moves, In, Remaining, KeyOf
  <2>3. Rest(t)' = 3 * n - 1
    BY <1>2, <2>2, RestNext
  <2>4. Rest(t)' < Rest(t)
    BY <1>2, <2>3
  <2>5. KeyOf(t) \in topics' \ deleteList'
    BY <1>1, <1>3 DEF Deleting, In
  <2>6. Deleting'
    BY <1>1, <2>1, <2>5, DeletingKept DEF Deleting
  <2> QED BY <2>1, <2>4, <2>6, OthersRest
<1>4. CASE Return(t)
  <2>1. Moves(t, "idle", NoCall.key)
    BY <1>1, <1>4, ReturnFacts DEF Outside, In
  <2>2. Rest(t)' = 0
    BY <2>1, RestNext DEF Moves, OfTopic, Turns
  <2>3. Rest(t)' < Rest(t)
    BY <1>2, <2>2
  <2>4. Deleting'
    BY <1>1, <2>1, DeletingKept DEF Deleting
  <2> QED BY <2>1, <2>3, <2>4, OthersRest
<1> QED BY <1>3, <1>4 DEF CloseOfTopic

LEMMA RemoveOfTopicTaken ==
  ASSUME IndInv, Deleting, NEW t \in Thread, RemoveOfTopic(t)
  PROVE  /\ Deleting' /\ Rest(t)' < Rest(t)
         /\ \A u \in Thread \ {t} : Rest(u)' = Rest(u)
<1> USE DEF IndInv
<1>1. /\ In(t, "topic_remove") /\ topics' = topics /\ cfgs' = Without(cfgs, KeyOf(t))
      /\ deleteList' = deleteList \cup {KeyOf(t)} /\ Goto(t, "topic")
  BY DEF RemoveOfTopic, memory
<1>2. Moves(t, "topic", KeyOf(t))
  BY <1>1, GotoFacts DEF Op, Outside, In
<1>3. In(t, "topic")' /\ Remaining(t)' = Remaining(t) \ {KeyOf(t)}
  BY <1>1, <1>2 DEF Moves, In, Remaining, KeyOf
<1>4. PICK n \in Nat : n = Cardinality(Remaining(t)) /\ n > 0 /\ Rest(t) = 3 * n - 1
  BY <1>1, RemainingFinite, RestOf DEF In
<1>5. Cardinality(Remaining(t) \ {KeyOf(t)}) = n - 1
  <2>1. KeyOf(t) \in Remaining(t) /\ IsFiniteSet(Remaining(t))
    BY <1>1, RemainingFinite DEF In
  <2> QED BY <1>4, <2>1, FS_RemoveElement
<1>6. Rest(t)' = 3 * (n - 1) + 1
  BY <1>3, <1>5, RestNext
<1>7. Rest(t)' < Rest(t)
  BY <1>4, <1>6
<1>8. IsFiniteSet(DOMAIN cfgs')
  <2>1. DOMAIN cfgs' \subseteq DOMAIN cfgs
    BY <1>1, WithoutFacts
  <2> QED BY <2>1, FS_Subset DEF Deleting
<1>9. Deleting'
  BY <1>1, <1>2, <1>8, DeletingKept DEF Deleting
<1> QED BY <1>2, <1>7, <1>9, OthersRest

LEMMA EraseTopicTaken ==
  ASSUME IndInv, Deleting, NEW t \in Thread, EraseTopic(t)
  PROVE  /\ Deleting' /\ Rest(t)' < Rest(t)
         /\ \A u \in Thread \ {t} : Rest(u)' = Rest(u)
<1> USE DEF IndInv
<1>1. /\ In(t, "topic") /\ topics' \subseteq topics /\ cfgs' = cfgs /\ Return(t)
  BY DEF EraseTopic, files
<1>2. Moves(t, "idle", NoCall.key)
  BY <1>1, ReturnFacts DEF Outside, In
<1>3. Rest(t)' = 0
  BY <1>2, RestNext DEF Moves, OfTopic, Turns
<1>4. Rest(t) \in Nat /\ Rest(t) # 0
  BY <1>1, RestNatural DEF In
<1>5. Rest(t)' < Rest(t)
  BY <1>3, <1>4
<1>6. IsFiniteSet(topics')
  BY <1>1, FS_Subset DEF Deleting
<1>7. Deleting'
  BY <1>1, <1>2, <1>6, DeletingKept DEF Deleting
<1> QED BY <1>2, <1>5, <1>7, OthersRest

LEMMA ContinueTaken ==
  ASSUME IndInv, Deleting, NEW t \in Thread, Continue(t)
  PROVE  /\ Deleting' /\ Rest(t)' < Rest(t)
         /\ \A u \in Thread \ {t} : Rest(u)' = Rest(u)
BY TurnTaken, OffsetsTaken, DeleteOfTopicTaken, CloseOfTopicTaken, RemoveOfTopicTaken,
   EraseTopicTaken DEF Continue

\* A request finds its thread idle; the others are where they were.
LEMMA RequestTaken ==
  ASSUME IndInv, Deleting, NEW t \in Thread, Request(t)
  PROVE  /\ Deleting' /\ In(t, "idle")
         /\ \A u \in Thread \ {t} : Rest(u)' = Rest(u)
<1> USE DEF IndInv
<1>1. PICK k \in Key :
        \/ CreatePartition(t, k) \/ CreateRefused(t, k) \/ GetOffsets(t, k)
        \/ DeletePartition(t, k) \/ DeleteTopic(t, k)
        \/ SendMessage(t, k) \/ SendRefused(t, k)
  BY DEF Request, Control
<1>2. In(t, "idle")
  BY <1>1 DEF CreatePartition, CreateRefused, GetOffsets, DeletePartition, DeleteTopic,
              SendMessage, SendRefused, Enter, In
<1>3. cfgs' = cfgs /\ IsFiniteSet(topics')
  <2>1. /\ cfgs' = cfgs
        /\ topics' = topics \cup {k} \/ topics' = topics \/ topics' = topics \ {k}
    BY <1>1 DEF CreatePartition, CreateRefused, GetOffsets, DeletePartition, DeleteTopic,
                SendMessage, SendRefused, files, memory
  <2>2. IsFiniteSet(topics)
    BY DEF Deleting
  <2>3. IsFiniteSet(topics \cup {k}) /\ IsFiniteSet(topics \ {k})
    BY <2>2, FS_AddElement, FS_RemoveElement
  <2> QED BY <2>1, <2>2, <2>3
<1>4. CASE CreateRefused(t, k) \/ SendRefused(t, k)
  <2>1. UNCHANGED <<topics, deleteList, call>>
    BY <1>4 DEF CreateRefused, SendRefused, memory, control
  <2>2. Deleting'
    BY <1>3, <2>1 DEF Deleting, KeyOf
  <2>3. \A u \in Thread : Rest(u)' = Rest(u)
    BY <2>1 DEF Rest, In, Remaining, KeyOf, Turns
  <2> QED BY <1>2, <2>2, <2>3
<1>5. CASE ~ (CreateRefused(t, k) \/ SendRefused(t, k))
  <2>1. PICK op \in {"config", "commit", "topic", "close", "offsets"} : Moves(t, op, k)
    <3>1. CASE CreatePartition(t, k)
      BY <3>1, EnterFacts DEF CreatePartition, Op
    <3>2. CASE SendMessage(t, k)
      BY <3>2, EnterFacts DEF SendMessage, Op
    <3>3. CASE DeleteTopic(t, k)
      BY <3>3, EnterFacts DEF DeleteTopic, Op
    <3>4. CASE DeletePartition(t, k)
      BY <3>4, DeletePartitionMoves
    <3>5. CASE GetOffsets(t, k)
      <4>1. /\ call' \in [Thread -> Call] /\ call'[t].op = "offsets" /\ call'[t].key = k
            /\ \A u \in Thread \ {t} : call'[u] = call[u]
        BY <3>5, GetOffsetsFacts
      <4>2. \A u \in Thread \ {t} : call[u].op \in Outside
        BY <3>5, HolderAlone DEF GetOffsets
      <4> QED BY <4>1, <4>2 DEF Moves
    <3> QED BY <1>1, <1>5, <3>1, <3>2, <3>3, <3>4, <3>5
  <2>2. Deleting'
    BY <1>3, <2>1, DeletingKept DEF Deleting
  <2> QED BY <1>2, <2>1, <2>2, OthersRest
<1> QED BY <1>4, <1>5

\* The process starts, and is killed, with nothing left to any thread.
LEMMA StartTaken ==
  ASSUME IndInv, IndInv', Deleting, Load \/ LoadRefused \/ Crash
  PROVE  Deleting' /\ \A u \in Thread : Rest(u)' <= Rest(u)
<1> USE DEF IndInv
<1>1. \A u \in Thread : call'[u].op = "idle"
  <2>1. CASE Load \/ LoadRefused
    BY <2>1 DEF Load, LoadRefused, control, Locking, In
  <2>2. CASE Crash
    BY <2>2, DoingFacts DEF Crash
  <2> QED BY <2>1, <2>2
<1>2. IsFiniteSet(topics') /\ IsFiniteSet(DOMAIN cfgs')
  <2>1. cfgs' = cfgs /\ (topics' = topics \/ topics' \subseteq DOMAIN cfgs)
    <3>1. CASE Load
      BY <3>1 DEF Load, LoadedConfigs
    <3>2. CASE LoadRefused \/ Crash
      BY <3>2 DEF LoadRefused, Crash, memory, files
    <3> QED BY <3>1, <3>2
  <2> QED BY <2>1, FS_Subset DEF Deleting
<1>3. Deleting'
  BY <1>1, <1>2 DEF Deleting
<1>4. ASSUME NEW u \in Thread PROVE Rest(u)' <= Rest(u)
  <2>1. Rest(u)' = 0
    BY <1>1, RestNext DEF Turns, OfTopic
  <2>2. Rest(u) \in Nat
    BY RestNatural
  <2> QED BY <2>1, <2>2
<1> QED BY <1>3, <1>4

LEMMA DeletingInit == Init => Deleting
<1>1. Init => \A t \in Thread : call[t].op = "idle"
  BY DoingFacts DEF Init
<1>2. Init => topics = {} /\ DOMAIN cfgs = {}
  BY DEF Init
<1> QED BY <1>1, <1>2, FS_EmptySet DEF Deleting

LEMMA DeletingStep ==
  ASSUME IndInv, IndInv', Deleting, [Next]_vars
  PROVE  Deleting'
<1>1. CASE UNCHANGED vars
  BY <1>1 DEF vars, files, memory, control, Deleting, KeyOf
<1> QED BY <1>1, ContinueTaken, RequestTaken, StartTaken DEF Next

\* Each step of a handler (Broker.cc, from the lock to the return that gives it
\* back) leaves it fewer turns, and no step of another thread leaves it more: a
\* deleteTopic takes at most three turns for each partition listed
\* (Broker.cc:127-142), the other handlers three at most.
HandlersShrink ==
  [][\A t \in Thread :
       /\ Rest(t)' <= Rest(t) \/ In(t, "idle")
       /\ Continue(t) => Rest(t)' < Rest(t)]_vars

\* A handler that has the lock returns after the turns it had when it took it: no
\* interleaving with other threads makes it longer.
THEOREM HandlersBounded == Spec => HandlersShrink
<1>1. Init => Deleting
  BY DeletingInit
<1>2. IndInv /\ IndInv' /\ Deleting /\ [Next]_vars => Deleting'
  BY DeletingStep
<1>3. IndInv /\ IndInv' /\ Deleting /\ [Next]_vars =>
        [\A t \in Thread :
           /\ Rest(t)' <= Rest(t) \/ In(t, "idle")
           /\ Continue(t) => Rest(t)' < Rest(t)]_vars
  <2> SUFFICES ASSUME IndInv, IndInv', Deleting, Next, NEW t \in Thread
               PROVE  /\ Rest(t)' <= Rest(t) \/ In(t, "idle")
                      /\ Continue(t) => Rest(t)' < Rest(t)
    OBVIOUS
  <2>1. Rest(t) \in Nat
    BY RestNatural DEF IndInv
  <2>2. Continue(t) => Rest(t)' < Rest(t)
    BY ContinueTaken
  <2>3. CASE Load \/ LoadRefused \/ Crash
    BY <2>2, <2>3, StartTaken
  <2>4. ASSUME NEW u \in Thread, Request(u)
        PROVE  Rest(t)' <= Rest(t) \/ In(t, "idle")
    <3>1. In(u, "idle") /\ \A x \in Thread \ {u} : Rest(x)' = Rest(x)
      BY <2>4, RequestTaken
    <3>2. CASE t = u
      BY <3>1, <3>2
    <3>3. CASE t # u
      <4>1. Rest(t)' = Rest(t)
        BY <3>1, <3>3
      <4> QED BY <2>1, <4>1
    <3> QED BY <3>2, <3>3
  <2>5. ASSUME NEW u \in Thread, Continue(u)
        PROVE  Rest(t)' <= Rest(t)
    <3>1. Rest(u)' < Rest(u) /\ Rest(u) \in Nat /\ \A x \in Thread \ {u} : Rest(x)' = Rest(x)
      BY <2>5, ContinueTaken, RestNatural DEF IndInv
    <3>2. CASE t = u
      <4>1. Rest(t)' \in Int
        BY <2>5, ContinueTaken, RestNaturalNext
      <4> QED BY <3>1, <3>2, <4>1
    <3>3. CASE t # u
      <4>1. Rest(t)' = Rest(t)
        BY <3>1, <3>3
      <4> QED BY <2>1, <4>1
    <3> QED BY <3>2, <3>3
  <2> QED BY <2>2, <2>3, <2>4, <2>5 DEF Next
<1> QED BY <1>1, <1>2, <1>3, InitInductive, StepInductive, PTL DEF Spec, HandlersShrink

\* The lock is held by a thread that is in a handler, with turns left to it, and by
\* no other: no return, early or not, keeps it (Broker.cc:81-259).
THEOREM LockGivenBack ==
  Spec => [](/\ lock # Free => lock \in Thread /\ Rest(lock) > 0
             /\ \A t \in Thread : /\ Rest(t) \in Nat /\ (Rest(t) = 0 <=> In(t, "idle"))
                                  /\ Rest(t) > 0 => lock = t \/ In(t, "offsets"))
<1>1. Init => Deleting
  BY DeletingInit
<1>2. IndInv /\ IndInv' /\ Deleting /\ [Next]_vars => Deleting'
  BY DeletingStep
<1>3. ASSUME IndInv, Deleting
      PROVE  /\ lock # Free => lock \in Thread /\ Rest(lock) > 0
             /\ \A t \in Thread : /\ Rest(t) \in Nat /\ (Rest(t) = 0 <=> In(t, "idle"))
                                  /\ Rest(t) > 0 => lock = t \/ In(t, "offsets")
  <2>1. \A t \in Thread : Rest(t) \in Nat /\ (Rest(t) = 0 <=> In(t, "idle"))
    BY <1>3, RestNatural DEF IndInv
  <2>2. \A t \in Thread : call[t].op \notin {"idle", "offsets"} <=> lock = t
    BY <1>3 DEF IndInv, Locking
  <2>3. lock \in Thread \cup {Free}
    BY <1>3 DEF IndInv, TypeOK
  <2> QED BY <2>1, <2>2, <2>3 DEF In
<1> QED BY <1>1, <1>2, <1>3, InitInductive, StepInductive, PTL DEF Spec

=============================================================================
