------------------------------ MODULE Delivery ------------------------------
(***************************************************************************)
(* A producer and a consumer of one partition, over a server that may be   *)
(* killed and a network that may be late: the loops of main-producer.cc    *)
(* and main-consumer.cc, and the retry loop of network/Client.cc under     *)
(* both.  A call that has no answer at its deadline fails and is made      *)
(* again; the server does not know, and may still execute the first one.   *)
(*                                                                         *)
(* The partition is the sequence of lines that Partition.tla shows it to   *)
(* be; writing a message and its commit offset are two steps under the     *)
(* broker's lock, as in Broker.tla.                                        *)
(***************************************************************************)
EXTENDS Integers, Sequences, SequencesExt

CONSTANTS
  Lines,        \* the number of lines given to the producer
  Starts,       \* values given to --offset, beside -1 when none is given
  Limits,       \* values of --nb-offset: 0 is no limit
  Retention,    \* whether the partition has a limit of size or time
  IoErrors,     \* whether a write, a read or the opening of a file may fail
  MaxLate,      \* bound: the calls to a living server that miss their deadline
  MaxCrashes    \* bound: the times the server is killed

ASSUME LinesNat == Lines \in Nat
ASSUME OptionsNat == Starts \subseteq Nat /\ Limits \subseteq Nat
ASSUME Switches == Retention \in BOOLEAN /\ IoErrors \in BOOLEAN
ASSUME BoundsNat == MaxLate \in Nat /\ MaxCrashes \in Nat

Line == 1 .. Lines
Client == {"producer", "consumer"}
Options == [from : Starts \cup {-1}, limit : Limits, stopIdle : BOOLEAN]

VARIABLES
  log,       \* the line in the message of each offset (offset 0 is log[1])
  first,     \* the oldest offset kept
  commit,    \* the commit offset
  up,        \* the server serves
  known,     \* its last start has opened the configuration of the partition
  writing,   \* the line whose commit offset is not yet written, and for whom
  late,      \* line -> sends abandoned by the client and not by the server
  call,      \* the call each client is in
  line,      \* the line the producer is at
  told,      \* history: line -> the offset printed for it (main-producer.cc:58)
  refused,   \* history: the lines for which an error was printed
  offset,    \* the consumer's offset
  mode,      \* where the consumer is: "offsets", "messages", or why it stopped
  got,       \* history: the lines the consumer printed
  start,     \* history: the offset the consumer began at
  options,   \* the consumer's options
  delays, crashes  \* history, for the bounds

partition == <<log, first, commit>>
server == <<up, known, writing, late>>
producer == <<line, told, refused>>
consumer == <<offset, mode, got, start, options>>
bounds == <<delays, crashes>>
vars == <<partition, server, call, producer, consumer, bounds>>

Nothing == [line |-> 0, live |-> FALSE]
NoCall == [state |-> "none", code |-> "", value |-> 0]
Sent == [state |-> "sent", code |-> "", value |-> 0]
Failed == [state |-> "failed", code |-> "", value |-> 0]
Answer(code, value) == [state |-> "answered", code |-> code, value |-> value]

Stops == {"error", "unknown", "idle", "limit"}

TypeOK ==
  /\ log \in Seq(Line) /\ first \in 0 .. Len(log) /\ commit \in -1 .. Len(log) - 1
  /\ up \in BOOLEAN /\ known \in BOOLEAN
  /\ writing \in [line : Line, live : BOOLEAN] \cup {Nothing}
  /\ late \in [Line -> Nat]
  /\ call \in [Client -> [state : {"none", "sent", "answered", "failed"},
                          code : {"", "OK", "NO_MESSAGE", "ERROR", "UNKNOWN"}, value : Int]]
  /\ line \in 1 .. Lines + 1 /\ refused \subseteq Line
  /\ told \in [DOMAIN told -> Nat] /\ DOMAIN told \subseteq Line
  /\ offset \in Int /\ start \in Int /\ got \in Seq(Line)
  /\ mode \in {"offsets", "messages"} \cup Stops
  /\ options \in Options
  /\ delays \in 0 .. MaxLate /\ crashes \in 0 .. MaxCrashes

-----------------------------------------------------------------------------
(* The call of a client (Client.cc): sent, answered or failed; a failed one *)
(* is made again for as long as it takes.                                  *)

Is(c, state) == call[c].state = state

Set(c, v) == call' = [call EXCEPT ![c] = v]

\* The send in progress in the server is the one the client waits for.
Executing(c) == c = "producer" /\ writing.live

\* The deadline passes on a call the living server has or will never have, or whose
\* answer is on its way.  The server may still execute a send (a question given
\* up changes nothing there).
DeadlineExceeded(c) ==
  /\ up /\ delays < MaxLate
  /\ Is(c, "sent") \/ Is(c, "answered")
  /\ Set(c, Failed)
  /\ delays' = delays + 1
  /\ \/ UNCHANGED <<writing, late>> /\ ~ Executing(c)
     \/ Executing(c) /\ writing' = [line |-> writing.line, live |-> FALSE] /\ UNCHANGED late
     \/ /\ c = "producer" /\ Is(c, "sent") /\ ~ Executing(c)
        /\ late' = [late EXCEPT ![line] = @ + 1]
        /\ UNCHANGED writing
  /\ UNCHANGED <<partition, up, known, producer, consumer, crashes>>

\* A call made while the server is down fails, if it does not come back first.
ConnectionLost(c) ==
  /\ ~ up /\ Is(c, "sent")
  /\ Set(c, Failed)
  /\ UNCHANGED <<partition, server, producer, consumer, bounds>>

\* Bug: without try_reconnect the caller goes on with an empty response.
Bug_Reconnect(c) ==
  /\ Is(c, "failed")
  /\ Set(c, Answer("OK", 0))
  /\ UNCHANGED <<partition, server, producer, consumer, bounds>>

\* reconnect() waits for the server, however often; the call is made again.
Reconnect(c) ==
  /\ up /\ Is(c, "failed")
  /\ Set(c, Sent)
  /\ UNCHANGED <<partition, server, producer, consumer, bounds>>

-----------------------------------------------------------------------------
(* The server.  Handlers exclude one another: nothing begins while a       *)
(* message is written and its commit offset is not.                        *)

Available == up /\ writing = Nothing

\* What retention may leave as the oldest offset when the newest is n - 1, if the
\* partition is open.
Oldest(n, open) == IF Retention /\ open THEN first .. n ELSE {first}

WriteMessage(n, live) ==
  /\ log' = Append(log, n)
  /\ first' \in Oldest(Len(log), TRUE)
  /\ writing' = [line |-> n, live |-> live]
  /\ UNCHANGED <<commit, up, known, call, producer, consumer, bounds>>

\* Broker::sendMessage up to the write, for the producer or for a call it has
\* given up.
SendMessage ==
  /\ Available /\ known
  /\ \/ Is("producer", "sent") /\ WriteMessage(line, TRUE) /\ UNCHANGED late
     \/ \E n \in Line :
          /\ late[n] > 0 /\ late' = [late EXCEPT ![n] = @ - 1]
          /\ WriteMessage(n, FALSE)

\* The write fails, after a rollover or before, or the server does not know the
\* partition (then a call given up does nothing).
SendRefused ==
  /\ Available /\ IoErrors /\ Is("producer", "sent")
  /\ first' \in Oldest(Len(log), known)
  /\ Set("producer", Answer("ERROR", 0))
  /\ UNCHANGED <<log, commit, server, producer, consumer, bounds>>

\* Bug: the commit offset is the one before.
Bug_CommitBefore ==
  /\ writing # Nothing
  /\ commit' = Len(log) - 2
  /\ writing' = Nothing
  /\ call' = IF writing.live
             THEN [call EXCEPT !["producer"] = Answer("OK", Len(log) - 1)] ELSE call
  /\ UNCHANGED <<log, first, up, known, late, producer, consumer, bounds>>

\* The end of Broker::sendMessage.  Only a call not given up gets the answer.
UpdateCommitOffset ==
  /\ writing # Nothing
  /\ commit' = Len(log) - 1
  /\ writing' = Nothing
  /\ call' = IF writing.live
             THEN [call EXCEPT !["producer"] = Answer("OK", Len(log) - 1)] ELSE call
  /\ UNCHANGED <<log, first, up, known, late, producer, consumer, bounds>>

\* Broker::getOffsets: the consumer uses the first offset only.
GetOffsets ==
  /\ Available /\ Is("consumer", "sent") /\ mode = "offsets"
  /\ Set("consumer", IF known THEN Answer("OK", first) ELSE Answer("UNKNOWN", 0))
  /\ UNCHANGED <<partition, server, producer, consumer, bounds>>

\* Bug: what is not committed is taken for forgotten.
Bug_MessageAt(o) ==
  CASE ~ known -> Answer("UNKNOWN", 0)
    [] known /\ o \in first .. commit -> Answer("OK", log[o + 1])
    [] OTHER -> Answer("ERROR", 0)

\* What Broker::getMessage answers for offset o, when the read it makes succeeds.
MessageAt(o) ==
  CASE ~ known -> Answer("UNKNOWN", 0)
    [] known /\ o > commit -> Answer("NO_MESSAGE", 0)
    [] known /\ o \in first .. commit -> Answer("OK", log[o + 1])
    [] OTHER -> Answer("ERROR", 0)

GetMessage ==
  /\ Available /\ Is("consumer", "sent") /\ mode = "messages"
  /\ Set("consumer", MessageAt(offset))
  /\ UNCHANGED <<partition, server, producer, consumer, bounds>>

\* A committed message cannot be read: a failed call, a torn record, a segment left
\* closed or a hole between two.
ReadRefused ==
  /\ Available /\ known /\ IoErrors
  /\ Is("consumer", "sent") /\ mode = "messages" /\ offset \in first .. commit
  /\ Set("consumer", Answer("ERROR", 0))
  /\ UNCHANGED <<partition, server, producer, consumer, bounds>>

\* The process is killed: the calls it had accepted fail, and any answer that has
\* not arrived may be lost with it.
Crash ==
  /\ up /\ crashes < MaxCrashes
  /\ up' = FALSE /\ crashes' = crashes + 1
  /\ writing' = Nothing
  /\ late' = [n \in Line |-> 0]
  /\ \E lost \in SUBSET {c \in Client : Is(c, "answered")} :
       call' = [c \in Client |-> IF Is(c, "sent") \/ c \in lost THEN Failed ELSE call[c]]
  /\ UNCHANGED <<partition, known, producer, consumer, delays>>

\* The server is started again: the log and the commit offset are as they were,
\* but for a retention pass; without the partition, if its configuration cannot
\* be opened.
Restart ==
  /\ ~ up
  /\ up' = TRUE
  /\ known' \in IF IoErrors THEN BOOLEAN ELSE {TRUE}
  /\ first' \in Oldest(Len(log), known')
  /\ UNCHANGED <<log, commit, writing, late, call, producer, consumer, bounds>>

-----------------------------------------------------------------------------
(* main-producer.cc                                                        *)

SendLine ==
  /\ line \in Line /\ Is("producer", "none")
  /\ Set("producer", Sent)
  /\ UNCHANGED <<partition, server, producer, consumer, bounds>>

\* Bug: a line refused is sent again.
Bug_PrintAnswer ==
  /\ Is("producer", "answered")
  /\ Set("producer", NoCall)
  /\ IF call["producer"].code = "OK"
     THEN /\ line' = line + 1
          /\ told' = [n \in DOMAIN told \cup {line} |->
                        IF n = line THEN call["producer"].value ELSE told[n]]
     ELSE UNCHANGED <<line, told>>
  /\ UNCHANGED <<refused, partition, server, consumer, bounds>>

\* The answer is printed, and the next line read whatever it was.
PrintAnswer ==
  /\ Is("producer", "answered")
  /\ Set("producer", NoCall)
  /\ line' = line + 1
  /\ IF call["producer"].code = "OK"
     THEN /\ told' = [n \in DOMAIN told \cup {line} |->
                        IF n = line THEN call["producer"].value ELSE told[n]]
          /\ UNCHANGED refused
     ELSE refused' = refused \cup {line} /\ UNCHANGED told
  /\ UNCHANGED <<partition, server, consumer, bounds>>

-----------------------------------------------------------------------------
(* main-consumer.cc                                                        *)

Ask ==
  /\ mode \in {"offsets", "messages"} /\ Is("consumer", "none")
  /\ Set("consumer", Sent)
  /\ UNCHANGED <<partition, server, producer, consumer, bounds>>

\* Where to begin, when no offset was given.
TakeFirstOffset ==
  /\ mode = "offsets" /\ Is("consumer", "answered") /\ call["consumer"].code = "OK"
  /\ Set("consumer", NoCall)
  /\ offset' = call["consumer"].value /\ start' = offset'
  /\ mode' = "messages"
  /\ UNCHANGED <<partition, server, producer, got, options, bounds>>

\* There is nowhere to begin: CHECK_ERROR of ClientHelpers.hh.
NoOffsets ==
  /\ mode = "offsets" /\ Is("consumer", "answered") /\ call["consumer"].code # "OK"
  /\ Set("consumer", NoCall)
  /\ mode' = "unknown"
  /\ UNCHANGED <<partition, server, producer, offset, start, got, options, bounds>>

LimitReached(o) == options.limit > 0 /\ o >= options.limit

\* Bug: the offset moves on whatever the answer.
Bug_Advance(code) == 1

Advance(code) == IF code = "OK" THEN 1 ELSE 0

\* One turn of the loop.
TakeMessage ==
  LET code == call["consumer"].code
  IN /\ mode = "messages" /\ Is("consumer", "answered")
     /\ Set("consumer", NoCall)
     /\ offset' = offset + Advance(code)
     /\ got' = IF code = "OK" THEN Append(got, call["consumer"].value) ELSE got
     /\ mode' = CASE code = "ERROR" -> "error"
                  [] code = "UNKNOWN" -> "unknown"
                  [] code = "NO_MESSAGE" /\ options.stopIdle -> "idle"
                  [] LimitReached(offset') -> "limit"
                  [] OTHER -> "messages"
     /\ UNCHANGED <<partition, server, producer, start, options, bounds>>

-----------------------------------------------------------------------------
Init ==
  /\ log = <<>> /\ first = 0 /\ commit = -1
  /\ up = TRUE /\ known = TRUE /\ writing = Nothing /\ late = [n \in Line |-> 0]
  /\ call = [c \in Client |-> NoCall]
  /\ line = 1 /\ told = [n \in {} |-> 0] /\ refused = {}
  /\ options \in Options
  /\ offset = options.from /\ start = options.from /\ got = <<>>
  /\ mode = IF options.from < 0 THEN "offsets" ELSE "messages"
  /\ delays = 0 /\ crashes = 0

\* The client programs and the library under them.
ClientStep(c) == ConnectionLost(c) \/ Reconnect(c)
ProducerStep == SendLine \/ PrintAnswer
ConsumerStep == Ask \/ TakeFirstOffset \/ NoOffsets \/ TakeMessage

\* A handler begins or ends.
Serve == SendMessage \/ SendRefused \/ UpdateCommitOffset
Give == GetOffsets \/ GetMessage \/ ReadRefused

\* Both programs have returned.
Ended == line = Lines + 1 /\ mode \in Stops /\ UNCHANGED vars

Next ==
  \/ \E c \in Client : DeadlineExceeded(c) \/ ClientStep(c)
  \/ ProducerStep \/ ConsumerStep
  \/ Serve \/ Give
  \/ Crash \/ Restart \/ Ended

Spec == Init /\ [][Next]_vars

\* The programs keep running, the threads of the server serve both clients, and
\* the server is started again after a kill.
FairSpec ==
  /\ Spec
  /\ \A c \in Client : WF_vars(ClientStep(c))
  /\ WF_vars(ProducerStep) /\ WF_vars(ConsumerStep)
  /\ WF_vars(Serve) /\ WF_vars(Give)
  /\ WF_vars(Restart)

-----------------------------------------------------------------------------
FirstPlace(n) == CHOOSE i \in DOMAIN log : log[i] = n /\ \A j \in 1 .. i - 1 : log[j] # n

Written(n) == \E i \in DOMAIN log : log[i] = n

\* The lines the producer has left behind, but for those it printed an error for.
Passed == (1 .. line - 1) \ refused

\* A line is written at least once when the producer goes on to the next, however
\* often its call failed and was made again (Client.cc:13-23), and the offset
\* printed for it (main-producer.cc:58) is one where it is, and committed.
AtLeastOnce ==
  \A n \in Passed :
    /\ n \in DOMAIN told
    /\ told[n] + 1 \in DOMAIN log /\ log[told[n] + 1] = n /\ told[n] <= commit

\* A send given up by the client may be executed after the lines that follow it:
\* a line may come again, but never for the first time after a later line.
FirstTimesInOrder ==
  \A m \in Passed, n \in Line :
    m < n /\ Written(n) => Written(m) /\ FirstPlace(m) < FirstPlace(n)

\* The consumer prints the messages of the log from where it began up to its
\* offset, none left out, none twice, and only committed ones, across failed calls,
\* kills and writes given up (main-consumer.cc:70-108).
GaplessReading ==
  /\ offset = start + Len(got)
  /\ got # <<>> => offset <= commit + 1
  /\ \A i \in DOMAIN got : got[i] = log[start + i]

\* The error of a read stops the consumer only behind the oldest message, or at a
\* committed one that could not be read (Segment.cc:181-209): never at a message
\* that is not committed yet, as after a kill between a write and its commit
\* (Broker.cc:208), however the log and the commit offset have moved since.
StopsOnlyBehind ==
  mode = "error" => offset < first \/ (IoErrors /\ offset <= commit)

\* Every line of the producer gets an answer, as long as the server comes back.
EveryLineAnswered == <>(line = Lines + 1)

\* A line whose offset was printed to the producer is printed by the consumer, if
\* that goes on and began before it.
AckedConsumed ==
  \A n \in Line :
    n \in DOMAIN told ~>
      mode \in Stops \/ (n \in DOMAIN told /\ start > told[n]) \/ n \in ToSet(got)
=============================================================================
