--------------------------- MODULE DeliveryProofs ---------------------------
(***************************************************************************)
(* Proofs about Delivery.tla, for any number of lines, late calls and      *)
(* kills: no line is lost, first copies are in order, and the consumer     *)
(* reads without a gap.                                                    *)
(***************************************************************************)
EXTENDS Delivery, Sums

-----------------------------------------------------------------------------
(* The inductive invariant                                                 *)

\* The line of the producer is known to the server, or still to be sent; an
\* answer names a committed offset where the line is.
Sending ==
  /\ ~ Is("producer", "none") => line \in Line
  /\ (Is("producer", "answered") /\ call["producer"].code = "OK") =>
       /\ call["producer"].value \in 0 .. commit
       /\ log[call["producer"].value + 1] = line
  /\ writing # Nothing =>
       up /\ log # <<>> /\ log[Len(log)] = writing.line
  /\ writing.live => Is("producer", "sent") /\ writing.line = line

\* The lines behind the producer.
Behind ==
  /\ \A n \in 1 .. line - 1 : n \in DOMAIN told \/ n \in refused
  /\ \A n \in DOMAIN told :
       told[n] <= commit /\ log[told[n] + 1] = n

\* The server has heard of no line after that of the producer, and a line that was
\* not refused is written before any later one.
Ordered ==
  /\ \A j \in DOMAIN log : log[j] <= line
  /\ \A n \in Line : late[n] > 0 => n <= line
  /\ \A m \in Passed, j \in DOMAIN log : m < log[j] => \E i \in 1 .. j - 1 : log[i] = m

\* The answer the consumer is about to take is still right when it takes it.
Asking ==
  Is("consumer", "answered") =>
    /\ mode \in {"offsets", "messages"}
    /\ (mode = "offsets" /\ call["consumer"].code = "OK") => call["consumer"].value >= 0
    /\ (mode = "messages" /\ call["consumer"].code = "OK") =>
         offset \in 0 .. commit /\ call["consumer"].value = log[offset + 1]
    /\ (mode = "messages" /\ call["consumer"].code = "ERROR") =>
         offset < first \/ (IoErrors /\ offset <= commit)

\* What the consumer has printed.
Reading ==
  /\ mode = "offsets" => got = <<>>
  /\ mode = "messages" \/ got # <<>> => start >= 0
  /\ GaplessReading
  /\ StopsOnlyBehind

\* Every line written has a first place (so that the CHOOSE of FirstPlace finds one).
FirstAt(n, i) == i \in DOMAIN log /\ log[i] = n /\ \A j \in 1 .. i - 1 : log[j] # n
Placed == \A n \in Line : Written(n) => \E i \in DOMAIN log : FirstAt(n, i)

IndInv == TypeOK /\ Sending /\ Behind /\ Ordered /\ Placed /\ Asking /\ Reading

-----------------------------------------------------------------------------
(* The calls, and what a step leaves alone                                 *)

\* The three values a call takes, without the EXCEPTs.
LEMMA CallValues ==
  /\ NoCall.state = "none" /\ Sent.state = "sent" /\ Failed.state = "failed"
  /\ \A code, value : /\ Answer(code, value).state = "answered"
                      /\ Answer(code, value).code = code
                      /\ Answer(code, value).value = value
  /\ Nothing.live = FALSE
  /\ \A n \in Line, b \in BOOLEAN : [line |-> n, live |-> b] # Nothing
<1>1. NoCall.state = "none" /\ Sent.state = "sent" /\ Failed.state = "failed"
  BY DEF NoCall, Sent, Failed
<1>2. \A code, value : /\ Answer(code, value).state = "answered"
                      /\ Answer(code, value).code = code
                      /\ Answer(code, value).value = value
  BY DEF Answer
<1>3. Nothing.live = FALSE /\ Nothing.line = 0
  BY DEF Nothing
<1>4. \A n \in Line, b \in BOOLEAN : [line |-> n, live |-> b].line # 0
  BY LinesNat DEF Line
<1> QED BY <1>1, <1>2, <1>3, <1>4

CallType == [state : {"none", "sent", "answered", "failed"},
             code : {"", "OK", "NO_MESSAGE", "ERROR", "UNKNOWN"}, value : Int]

LEMMA CallTypes ==
  /\ NoCall \in CallType /\ Sent \in CallType /\ Failed \in CallType
  /\ \A code \in {"OK", "NO_MESSAGE", "ERROR", "UNKNOWN"}, value \in Int :
       Answer(code, value) \in CallType
<1>1. NoCall \in CallType /\ Sent \in CallType /\ Failed \in CallType
  BY DEF NoCall, Sent, Failed, CallType
<1>2. \A code \in {"OK", "NO_MESSAGE", "ERROR", "UNKNOWN"}, value \in Int :
        Answer(code, value) \in CallType
  BY DEF Answer, CallType
<1> QED BY <1>1, <1>2

\* A call is set for one client and kept for the other.
LEMMA CallSet ==
  ASSUME TypeOK, NEW c \in Client, NEW v \in CallType, Set(c, v)
  PROVE  /\ call' \in [Client -> CallType]
         /\ call'[c] = v
         /\ \A d \in Client : d # c => call'[d] = call[d]
BY DEF TypeOK, Set, CallType

LEMMA TwoClients == /\ "producer" \in Client /\ "consumer" \in Client
                    /\ \A c \in Client : c = "producer" \/ c = "consumer"
BY DEF Client

\* The log grows, and nothing in it or before the commit offset goes back.
Grows ==
  /\ Len(log) <= Len(log')
  /\ \A i \in DOMAIN log : i \in DOMAIN log' /\ log'[i] = log[i]
  /\ commit <= commit' /\ first <= first'

\* What the consumer has been answered stays true as the log grows.
LEMMA AskingKept ==
  ASSUME IndInv, Grows, UNCHANGED consumer, commit' \in Int, first' \in Int,
         call'["consumer"] = call["consumer"]
  PROVE  Asking'
<1>1. /\ log \in Seq(Line) /\ commit \in -1 .. Len(log) - 1 /\ first \in 0 .. Len(log)
      /\ offset \in Int
  BY DEF IndInv, TypeOK
<1>2. DOMAIN log = 1 .. Len(log) /\ Len(log) \in Nat
  BY <1>1
<1>3. Asking
  BY DEF IndInv
<1>4. \A o \in 0 .. commit : log'[o + 1] = log[o + 1]
  BY <1>1, <1>2 DEF Grows
<1>5. 0 .. commit \subseteq 0 .. commit'
  BY <1>1 DEF Grows
<1>6. offset < first \/ (IoErrors /\ offset <= commit) =>
        offset < first' \/ (IoErrors /\ offset <= commit')
  BY <1>1 DEF Grows
<1> QED BY <1>3, <1>4, <1>5, <1>6 DEF Asking, Is, consumer

\* So does what it has printed.
LEMMA ReadingKept ==
  ASSUME IndInv, Grows, UNCHANGED consumer, commit' \in Int, first' \in Int
  PROVE  Reading'
<1>1. /\ log \in Seq(Line) /\ commit \in -1 .. Len(log) - 1 /\ first \in 0 .. Len(log)
      /\ offset \in Int /\ start \in Int /\ got \in Seq(Line)
  BY DEF IndInv, TypeOK
<1>2. DOMAIN log = 1 .. Len(log) /\ DOMAIN got = 1 .. Len(got) /\ Len(log) \in Nat
  BY <1>1
<1>3. /\ mode = "offsets" => got = <<>>
      /\ mode = "messages" \/ got # <<>> => start >= 0
  BY DEF IndInv, Reading
<1>4. offset = start + Len(got)
  BY DEF IndInv, Reading, GaplessReading
<1>5. got # <<>> => offset <= commit + 1
  BY DEF IndInv, Reading, GaplessReading
<1>6. \A i \in DOMAIN got : got[i] = log[start + i]
  BY DEF IndInv, Reading, GaplessReading
<1>7. got # <<>> => offset <= commit' + 1
  <2> SUFFICES ASSUME got # <<>> PROVE offset <= commit' + 1
    OBVIOUS
  <2>1. offset <= commit + 1
    BY <1>5
  <2>2. commit \in Int /\ offset \in Int
    BY <1>1
  <2>3. commit' \in Int /\ commit <= commit'
    BY DEF Grows
  <2>4. \A a, b, c \in Int : a <= b + 1 /\ b <= c => a <= c + 1
    OBVIOUS
  <2> QED BY <2>1, <2>2, <2>3, <2>4
<1>8. \A i \in DOMAIN got : start + i \in DOMAIN log
  BY <1>3, <1>4, <1>5, <1>1, <1>2
<1>9. \A i \in DOMAIN got : got[i] = log'[start + i]
  BY <1>6, <1>8 DEF Grows
<1>10. mode = "error" => offset < first' \/ (IoErrors /\ offset <= commit')
  BY <1>1 DEF IndInv, Reading, StopsOnlyBehind, Grows
<1> QED BY <1>3, <1>4, <1>7, <1>9, <1>10
     DEF Reading, GaplessReading, StopsOnlyBehind, consumer

\* A step that neither writes nor moves the producer keeps what is written and told.
LEMMA LinesKept ==
  ASSUME IndInv, UNCHANGED <<log, producer>>, commit' \in Int, commit <= commit',
         \A n \in Line : late'[n] > 0 => late[n] > 0 \/ n <= line
  PROVE  Behind' /\ Ordered' /\ Placed'
<1>1. /\ commit \in Int /\ told \in [DOMAIN told -> Nat]
      /\ UNCHANGED <<log, line, told, refused>>
  <2>1. TypeOK
    BY DEF IndInv
  <2>2. commit \in Int
    <3>1. log \in Seq(Line) /\ commit \in -1 .. Len(log) - 1
      BY <2>1 DEF TypeOK
    <3> QED BY <3>1
  <2>3. told \in [DOMAIN told -> Nat]
    BY <2>1 DEF TypeOK
  <2> QED BY <2>2, <2>3 DEF producer
<1>2. Behind'
  BY <1>1 DEF IndInv, Behind
<1>3. Ordered'
  BY <1>1 DEF IndInv, Ordered, Passed
<1>4. Placed'
  BY <1>1 DEF IndInv, Placed, FirstAt, Written
<1> QED BY <1>2, <1>3, <1>4

\* The first state: nothing sent, nothing written, nothing read.
LEMMA InitInductive == Init => IndInv
<1> SUFFICES ASSUME Init PROVE IndInv
  OBVIOUS
<1> USE CallValues, CallTypes, TwoClients
<1>1. /\ options \in Options /\ offset \in Int /\ start \in Int
      /\ (IF options.from < 0 THEN TRUE ELSE start >= 0)
  BY OptionsNat DEF Init, Options
<1>2. TypeOK
  <2>1. call \in [Client -> CallType]
    BY DEF Init
  <2>2. /\ log \in Seq(Line) /\ first \in 0 .. Len(log) /\ commit \in -1 .. Len(log) - 1
        /\ up \in BOOLEAN /\ known \in BOOLEAN /\ writing \in {Nothing} /\ late \in [Line -> Nat]
    BY DEF Init
  <2>3. /\ line \in 1 .. Lines + 1 /\ refused \subseteq Line
        /\ told \in [DOMAIN told -> Nat] /\ DOMAIN told \subseteq Line
    BY LinesNat DEF Init
  <2>4. /\ got \in Seq(Line) /\ mode \in {"offsets", "messages"} \cup Stops
        /\ delays \in 0 .. MaxLate /\ crashes \in 0 .. MaxCrashes
    BY BoundsNat DEF Init
  <2> QED BY <1>1, <2>1, <2>2, <2>3, <2>4 DEF TypeOK, CallType
<1>3. Sending
  BY DEF Init, Sending, Is
<1>4. Behind
  BY DEF Init, Behind
<1>5. Ordered
  BY DEF Init, Ordered
<1>6. Placed
  BY DEF Init, Placed, Written
<1>7. Asking
  BY DEF Init, Asking, Is
<1>8. Reading
  <2>1. /\ got = <<>>
        /\ mode = "messages" => start >= 0
    BY <1>1 DEF Init
  <2>2. GaplessReading
    BY <1>1 DEF Init, GaplessReading
  <2>3. StopsOnlyBehind
    BY DEF Init, StopsOnlyBehind
  <2> QED BY <2>1, <2>2, <2>3 DEF Reading
<1> QED BY <1>2, <1>3, <1>4, <1>5, <1>6, <1>7, <1>8 DEF IndInv

-----------------------------------------------------------------------------
(* Steps that set a call, and change no line                               *)

\* A call is begun, ended or given up, without an answer.
LEMMA CallMoved ==
  ASSUME IndInv, NEW c \in Client, NEW v \in CallType, Set(c, v), v.state # "answered",
         UNCHANGED <<partition, up, known, producer, consumer>>,
         c = "producer" => v.state = "none" \/ line \in Line,
         writing' \in [line : Line, live : BOOLEAN] \cup {Nothing},
         writing' # Nothing => writing # Nothing /\ writing'.line = writing.line,
         writing'.live => writing.live /\ (c = "producer" => v.state = "sent"),
         late' \in [Line -> Nat],
         \A n \in Line : late'[n] > 0 => late[n] > 0 \/ n <= line,
         delays' \in 0 .. MaxLate, crashes' \in 0 .. MaxCrashes
  PROVE  IndInv'
<1> USE DEF partition, producer, consumer
<1>1. TypeOK
  BY DEF IndInv
<1>2. /\ call' \in [Client -> CallType] /\ call'[c] = v
      /\ \A d \in Client : d # c => call'[d] = call[d]
  BY <1>1, CallSet
<1>3. TypeOK'
  BY <1>1, <1>2 DEF TypeOK, CallType
<1>4. Grows /\ commit' \in Int /\ first' \in Int
  <2>1. log \in Seq(Line) /\ commit \in -1 .. Len(log) - 1 /\ first \in 0 .. Len(log)
    BY <1>1 DEF TypeOK
  <2> QED BY <2>1 DEF Grows
<1>5. Sending'
  <2>1. Sending
    BY DEF IndInv
  <2>2. /\ ~ Is("producer", "none")' => line' \in Line
        /\ Is("producer", "answered")' => Is("producer", "answered")
        /\ Is("producer", "answered")' => call'["producer"] = call["producer"]
    BY <2>1, <1>2, TwoClients DEF Sending, Is
  <2>3. writing'.live => Is("producer", "sent")'
    BY <2>1, <1>2, TwoClients DEF Sending, Is
  <2>4. writing' # Nothing => up' /\ log' # <<>> /\ log'[Len(log')] = writing'.line
    BY <2>1 DEF Sending
  <2>5. writing'.live => writing'.line = line'
    <3>1. writing'.live => writing'.line = writing.line
      BY CallValues
    <3> QED BY <2>1, <3>1 DEF Sending
  <2>6. (Is("producer", "answered") /\ call["producer"].code = "OK")' =>
          /\ call'["producer"].value \in 0 .. commit'
          /\ log'[call'["producer"].value + 1] = line'
    BY <2>1, <2>2 DEF Sending
  <2> QED BY <2>2, <2>3, <2>4, <2>5, <2>6 DEF Sending
<1>6. Behind' /\ Ordered' /\ Placed'
  BY <1>4, LinesKept DEF Grows
<1>7. Asking'
  <2>1. CASE c = "consumer"
    BY <2>1, <1>2 DEF Asking, Is
  <2>2. CASE c # "consumer"
    BY <2>2, <1>2, <1>4, AskingKept, TwoClients
  <2> QED BY <2>1, <2>2
<1>8. Reading'
  BY <1>4, ReadingKept
<1> QED BY <1>3, <1>5, <1>6, <1>7, <1>8 DEF IndInv

LEMMA DeadlineInductive ==
  ASSUME IndInv, NEW c \in Client, DeadlineExceeded(c)
  PROVE  IndInv'
<1> USE CallValues, CallTypes
<1>1. TypeOK /\ Sending
  BY DEF IndInv
<1>2. /\ Set(c, Failed) /\ UNCHANGED <<partition, up, known, producer, consumer, crashes>>
      /\ c = "producer" => line \in Line
  BY <1>1 DEF DeadlineExceeded, Sending, Is
<1>3. delays' \in 0 .. MaxLate /\ crashes' \in 0 .. MaxCrashes
  <2>1. delays \in 0 .. MaxLate /\ crashes \in 0 .. MaxCrashes
    BY <1>1 DEF TypeOK
  <2>2. delays < MaxLate /\ delays' = delays + 1
    BY DEF DeadlineExceeded
  <2> QED BY <1>2, <2>1, <2>2, BoundsNat
<1>4. /\ writing' \in [line : Line, live : BOOLEAN] \cup {Nothing}
      /\ writing' # Nothing => writing # Nothing /\ writing'.line = writing.line
      /\ writing'.live => writing.live /\ c # "producer"
  <2>1. CASE UNCHANGED writing /\ ~ Executing(c)
    BY <2>1, <1>1 DEF TypeOK, Executing
  <2>2. CASE Executing(c) /\ writing' = [line |-> writing.line, live |-> FALSE]
    <3>1. writing # Nothing
      BY <2>2 DEF Executing
    <3>2. writing.line \in Line
      BY <3>1, <1>1 DEF TypeOK
    <3> QED BY <2>2, <3>1, <3>2
  <2> QED BY <2>1, <2>2 DEF DeadlineExceeded
<1>5. /\ late' \in [Line -> Nat]
      /\ \A n \in Line : late'[n] > 0 => late[n] > 0 \/ n <= line
  <2>0. late \in [Line -> Nat]
    BY <1>1 DEF TypeOK
  <2>1. CASE UNCHANGED late
    BY <2>0, <2>1
  <2>2. CASE c = "producer" /\ late' = [late EXCEPT ![line] = @ + 1]
    <3>1. line \in Line /\ line \in Nat
      BY <2>2, <1>2, LinesNat DEF Line
    <3> QED BY <2>0, <2>2, <3>1
  <2> QED BY <2>1, <2>2 DEF DeadlineExceeded
<1> QED BY <1>2, <1>3, <1>4, <1>5, CallMoved

LEMMA ClientInductive ==
  ASSUME IndInv, NEW c \in Client, ClientStep(c)
  PROVE  IndInv'
<1> USE CallValues, CallTypes
<1>1. TypeOK /\ Sending
  BY DEF IndInv
<1>2. PICK v \in {Sent, Failed} : Set(c, v)
  BY DEF ClientStep, ConnectionLost, Reconnect
<1>3. /\ UNCHANGED <<partition, server, producer, consumer, bounds>>
      /\ v \in CallType /\ v.state # "answered"
      /\ c = "producer" => line \in Line
  BY <1>1, <1>2 DEF ClientStep, ConnectionLost, Reconnect, Sending, Is
<1>4. writing'.live => writing.live /\ (c = "producer" => v.state = "sent")
  <2>1. ~ up => writing = Nothing
    BY <1>1 DEF Sending
  <2>2. CASE ConnectionLost(c)
    BY <2>1, <2>2, <1>3 DEF ConnectionLost, server
  <2>3. CASE Reconnect(c)
    BY <2>3, <1>1, <1>3 DEF Reconnect, Sending, Is, server
  <2> QED BY <2>2, <2>3 DEF ClientStep
<1>5. /\ writing' \in [line : Line, live : BOOLEAN] \cup {Nothing}
      /\ late' \in [Line -> Nat]
      /\ delays' \in 0 .. MaxLate /\ crashes' \in 0 .. MaxCrashes
  BY <1>1, <1>3 DEF TypeOK, server, bounds
<1> QED BY <1>2, <1>3, <1>4, <1>5, CallMoved DEF server

LEMMA SendLineInductive ==
  ASSUME IndInv, SendLine
  PROVE  IndInv'
<1> USE CallValues, CallTypes, TwoClients
<1>1. TypeOK /\ Sending
  BY DEF IndInv
<1>2. /\ writing' \in [line : Line, live : BOOLEAN] \cup {Nothing}
      /\ late' \in [Line -> Nat]
      /\ delays' \in 0 .. MaxLate /\ crashes' \in 0 .. MaxCrashes
  BY <1>1 DEF SendLine, TypeOK, server, bounds
<1> QED BY <1>1, <1>2, CallMoved DEF SendLine, server

LEMMA AskInductive ==
  ASSUME IndInv, Ask
  PROVE  IndInv'
<1> USE CallValues, CallTypes, TwoClients
<1>1. TypeOK /\ Sending
  BY DEF IndInv
<1>2. /\ writing' \in [line : Line, live : BOOLEAN] \cup {Nothing}
      /\ late' \in [Line -> Nat]
      /\ delays' \in 0 .. MaxLate /\ crashes' \in 0 .. MaxCrashes
  BY <1>1 DEF Ask, TypeOK, server, bounds
<1> QED BY <1>1, <1>2, CallMoved DEF Ask, server

-----------------------------------------------------------------------------
(* The server                                                              *)

\* A line is written: by the producer's call, or by one it has given up.
LEMMA WriteInductive ==
  ASSUME IndInv, NEW n \in Line, NEW live \in BOOLEAN, up, writing = Nothing,
         WriteMessage(n, live), n <= line,
         live => Is("producer", "sent") /\ n = line,
         late' \in [Line -> Nat],
         \A k \in Line : late'[k] > 0 => k <= line
  PROVE  IndInv'
<1> USE CallValues, TwoClients
<1>1. TypeOK /\ Sending /\ Behind /\ Ordered /\ Placed
  BY DEF IndInv
<1>2. /\ log \in Seq(Line) /\ Len(log) \in Nat /\ DOMAIN log = 1 .. Len(log)
      /\ first \in 0 .. Len(log) /\ commit \in -1 .. Len(log) - 1 /\ commit \in Int
  <2>1. /\ log \in Seq(Line) /\ first \in 0 .. Len(log)
        /\ commit \in -1 .. Len(log) - 1
    BY <1>1 DEF TypeOK
  <2> QED BY <2>1
<1>3. /\ log' = Append(log, n) /\ writing' = [line |-> n, live |-> live]
      /\ UNCHANGED <<commit, up, known, call, line, told, refused, delays, crashes>>
      /\ UNCHANGED <<offset, mode, got, start, options>> /\ UNCHANGED consumer
  BY DEF WriteMessage, producer, consumer, bounds
<1>4. /\ log' \in Seq(Line) /\ Len(log') = Len(log) + 1
      /\ DOMAIN log' = 1 .. Len(log) + 1
      /\ \A i \in DOMAIN log : log'[i] = log[i]
      /\ log'[Len(log) + 1] = n
  BY <1>2, <1>3
<1>5. first <= first' /\ first' \in 0 .. Len(log) /\ first' \in Int
  BY <1>2 DEF WriteMessage, Oldest
<1>6. Grows /\ commit' \in Int
  BY <1>2, <1>3, <1>4, <1>5 DEF Grows
<1>7. TypeOK'
  <2>1. first' \in 0 .. Len(log') /\ commit' \in -1 .. Len(log') - 1
    BY <1>2, <1>3, <1>4, <1>5
  <2>2. writing' \in [line : Line, live : BOOLEAN] \cup {Nothing}
    BY <1>3
  <2> QED BY <1>1, <1>3, <1>4, <2>1, <2>2 DEF TypeOK
<1>8. Sending'
  <2>1. /\ ~ Is("producer", "none")' => line' \in Line
        /\ Is("producer", "answered")' => Is("producer", "answered")
        /\ Is("producer", "sent")' <=> Is("producer", "sent")
    BY <1>1, <1>3 DEF Sending, Is
  <2>2. (Is("producer", "answered") /\ call["producer"].code = "OK")' =>
          /\ call'["producer"].value \in 0 .. commit'
          /\ log'[call'["producer"].value + 1] = line'
    <3> SUFFICES ASSUME Is("producer", "answered"), call["producer"].code = "OK"
                 PROVE  /\ call["producer"].value \in 0 .. commit
                        /\ log'[call["producer"].value + 1] = line
      BY <2>1, <1>3
    <3>1. /\ call["producer"].value \in 0 .. commit
          /\ log[call["producer"].value + 1] = line
      BY <1>1 DEF Sending
    <3>2. call["producer"].value + 1 \in DOMAIN log
      BY SMTT(40), <3>1, <1>2
    <3> QED BY <3>1, <3>2, <1>4
  <2>3. up' /\ log' # <<>> /\ log'[Len(log')] = writing'.line
    BY <1>3, <1>4, <1>2
  <2>4. writing'.live => Is("producer", "sent")' /\ writing'.line = line'
    BY <1>3, <2>1
  <2> QED BY <2>1, <2>2, <2>3, <2>4 DEF Sending
<1>9. \A m \in DOMAIN told : told[m] + 1 \in DOMAIN log /\ log[told[m] + 1] = m
  <2>1. told \in [DOMAIN told -> Nat]
    BY <1>1 DEF TypeOK
  <2>2. \A m \in DOMAIN told : told[m] <= commit /\ log[told[m] + 1] = m
    BY <1>1 DEF Behind
  <2> QED BY <2>1, <2>2, <1>2
<1>10. Behind'
  BY <1>1, <1>3, <1>4, <1>9 DEF Behind
<1>11. Ordered'
  <2>1. \A j \in DOMAIN log' : log'[j] <= line'
    <3>1. \A j \in DOMAIN log : log[j] <= line
      BY <1>1 DEF Ordered
    <3>2. \A j \in DOMAIN log' : j \in DOMAIN log \/ j = Len(log) + 1
      BY <1>2, <1>4
    <3> QED BY <3>1, <3>2, <1>3, <1>4
  <2>2. ASSUME NEW m \in Passed, NEW j \in DOMAIN log', m < log'[j]
        PROVE  \E i \in 1 .. j - 1 : log'[i] = m
    <3>1. CASE j \in DOMAIN log
      <4>1. PICK i \in 1 .. j - 1 : log[i] = m
        BY <1>1, <1>4, <2>2, <3>1 DEF Ordered
      <4>2. i \in DOMAIN log
        BY <1>2, <3>1
      <4> QED BY <4>1, <4>2, <1>4
    <3>2. CASE j = Len(log) + 1
      <4>1. m \in DOMAIN told
        BY <1>1 DEF Behind, Passed
      <4>2. told[m] + 1 \in 1 .. j - 1 /\ log[told[m] + 1] = m
        BY <4>1, <1>9, <1>2, <3>2
      <4>3. log'[told[m] + 1] = m
        BY <4>1, <4>2, <1>9, <1>4
      <4> QED BY <4>2, <4>3
    <3> QED BY <3>1, <3>2, <1>2, <1>4
  <2>3. Passed' = Passed
    BY <1>3 DEF Passed
  <2>4. \A k \in Line : late'[k] > 0 => k <= line'
    BY <1>3
  <2> QED BY <2>1, <2>2, <2>3, <2>4 DEF Ordered
<1>12. Placed'
  <2> SUFFICES ASSUME NEW m \in Line, Written(m)'
               PROVE  \E i \in DOMAIN log' : FirstAt(m, i)'
    BY DEF Placed
  <2>1. CASE Written(m)
    <3>1. PICK i \in DOMAIN log : FirstAt(m, i)
      BY <1>1, <2>1 DEF Placed
    <3>2. /\ i \in DOMAIN log' /\ log'[i] = m
          /\ \A k \in 1 .. i - 1 : k \in DOMAIN log /\ log[k] # m
      BY <3>1, <1>2, <1>4 DEF FirstAt
    <3>3. FirstAt(m, i)'
      BY <3>2, <1>4 DEF FirstAt
    <3> QED BY <3>2, <3>3
  <2>2. CASE ~ Written(m)
    <3>1. \A k \in DOMAIN log : log'[k] # m
      BY <2>2, <1>4 DEF Written
    <3>2. log'[Len(log) + 1] = m
      BY <3>1, <1>2, <1>4 DEF Written
    <3> DEFINE i == Len(log')
    <3>3. i = Len(log) + 1 /\ i \in DOMAIN log' /\ \A j \in 1 .. i - 1 : j \in DOMAIN log
      BY <1>2, <1>4
    <3> HIDE DEF i
    <3>4. log'[i] = m /\ \A j \in 1 .. i - 1 : log'[j] # m
      BY <3>1, <3>2, <3>3
    <3> QED BY <3>3, <3>4 DEF FirstAt
  <2> QED BY <2>1, <2>2
<1>13. Asking' /\ Reading'
  BY <1>3, <1>5, <1>6, AskingKept, ReadingKept
<1> QED BY <1>7, <1>8, <1>10, <1>11, <1>12, <1>13 DEF IndInv

LEMMA SendMessageInductive ==
  ASSUME IndInv, SendMessage
  PROVE  IndInv'
<1>1. TypeOK /\ Sending /\ Ordered
  BY DEF IndInv
<1>2. up /\ writing = Nothing
  BY DEF SendMessage, Available
<1>3. late \in [Line -> Nat] /\ \A k \in Line : late[k] > 0 => k <= line
  BY <1>1 DEF TypeOK, Ordered
<1>4. CASE Is("producer", "sent") /\ WriteMessage(line, TRUE) /\ UNCHANGED late
  <2>1. line \in Line /\ line <= line
    BY <1>1, <1>4, LinesNat DEF Sending, Is, Line
  <2> QED BY <1>2, <1>3, <1>4, <2>1, WriteInductive
<1>5. ASSUME NEW n \in Line, late[n] > 0, late' = [late EXCEPT ![n] = @ - 1],
             WriteMessage(n, FALSE)
      PROVE  IndInv'
  <2>1. late' \in [Line -> Nat] /\ \A k \in Line : late'[k] > 0 => late[k] > 0
    BY <1>3, <1>5
  <2> QED BY <1>2, <1>3, <1>5, <2>1, WriteInductive
<1> QED BY <1>4, <1>5 DEF SendMessage

LEMMA SendRefusedInductive ==
  ASSUME IndInv, SendRefused
  PROVE  IndInv'
<1> USE CallValues, CallTypes, TwoClients
<1>1. TypeOK /\ Sending
  BY DEF IndInv
<1>2. /\ Is("producer", "sent") /\ writing = Nothing
      /\ Set("producer", Answer("ERROR", 0)) /\ first' \in Oldest(Len(log), known)
      /\ UNCHANGED <<log, commit, up, known, writing, late, delays, crashes>>
      /\ UNCHANGED <<producer, consumer>>
  BY DEF SendRefused, Available, server, bounds
<1>3. /\ call' \in [Client -> CallType]
      /\ call'["producer"].state = "answered" /\ call'["producer"].code = "ERROR"
      /\ call'["consumer"] = call["consumer"]
  <2>1. Answer("ERROR", 0) \in CallType
    OBVIOUS
  <2> QED BY <1>1, <1>2, <2>1, CallSet
<1>4. /\ log \in Seq(Line) /\ first \in 0 .. Len(log)
      /\ commit \in -1 .. Len(log) - 1
  BY <1>1 DEF TypeOK
<1>5. first <= first' /\ first' \in 0 .. Len(log)
  BY <1>2, <1>4 DEF Oldest
<1>6. Grows /\ commit' \in Int /\ first' \in Int
  BY <1>2, <1>4, <1>5 DEF Grows
<1>7. TypeOK'
  BY <1>1, <1>2, <1>3, <1>5 DEF TypeOK, CallType, producer, consumer
<1>8. Sending'
  BY <1>1, <1>2, <1>3 DEF Sending, Is, producer
<1>9. Behind' /\ Ordered' /\ Placed'
  BY <1>2, <1>6, LinesKept DEF Grows
<1>10. Asking' /\ Reading'
  BY <1>2, <1>3, <1>6, AskingKept, ReadingKept
<1> QED BY <1>7, <1>8, <1>9, <1>10 DEF IndInv

LEMMA UpdateCommitInductive ==
  ASSUME IndInv, UpdateCommitOffset
  PROVE  IndInv'
<1> USE CallValues, CallTypes, TwoClients
<1>1. TypeOK /\ Sending
  BY DEF IndInv
<1>2. /\ writing # Nothing /\ writing' = Nothing /\ commit' = Len(log) - 1
      /\ UNCHANGED <<log, first, up, known, late, delays, crashes>>
      /\ UNCHANGED <<producer, consumer>>
  BY DEF UpdateCommitOffset, bounds
<1>3. /\ log \in Seq(Line) /\ first \in 0 .. Len(log)
      /\ commit \in -1 .. Len(log) - 1 /\ Len(log) \in Nat /\ DOMAIN log = 1 .. Len(log)
  <2>1. /\ log \in Seq(Line) /\ first \in 0 .. Len(log)
        /\ commit \in -1 .. Len(log) - 1
    BY <1>1 DEF TypeOK
  <2> QED BY <2>1
<1>4. log # <<>> /\ log[Len(log)] = writing.line /\ Len(log) > 0
  <2>1. log # <<>> /\ log[Len(log)] = writing.line
    BY <1>1, <1>2 DEF Sending
  <2> QED BY <2>1, <1>3
<1>5. Grows /\ commit' \in Int /\ first' \in Int
  BY <1>2, <1>3 DEF Grows
<1>6. call' \in [Client -> CallType] /\ call'["consumer"] = call["consumer"]
  <2>1. call \in [Client -> CallType]
    BY <1>1 DEF TypeOK, CallType
  <2>2. Answer("OK", Len(log) - 1) \in CallType
    BY <1>3
  <2>3. CASE writing.live
    BY <2>1, <2>2, <2>3 DEF UpdateCommitOffset
  <2>4. CASE ~ writing.live
    BY <2>1, <2>4 DEF UpdateCommitOffset
  <2> QED BY <2>3, <2>4
<1>7. TypeOK'
  <2>1. commit' \in -1 .. Len(log') - 1 /\ first' \in 0 .. Len(log')
    BY <1>2, <1>3, <1>4
  <2> QED BY <1>1, <1>2, <1>6, <2>1 DEF TypeOK, CallType, producer, consumer
<1>8. Sending'
  <2>1. CASE writing.live
    <3>1. /\ call'["producer"] = Answer("OK", Len(log) - 1)
          /\ line \in Line /\ writing.line = line
      <4>1. call \in [Client -> CallType]
        BY <1>1 DEF TypeOK, CallType
      <4> QED BY <4>1, <1>1, <2>1 DEF UpdateCommitOffset, Sending, Is
    <3>2. /\ call'["producer"].value = Len(log) - 1
          /\ call'["producer"].value \in 0 .. commit'
          /\ log'[call'["producer"].value + 1] = line'
      BY <3>1, <1>2, <1>3, <1>4 DEF producer
    <3> QED BY <3>1, <3>2, <1>2 DEF Sending, producer
  <2>2. CASE ~ writing.live
    <3>1. call' = call /\ line' = line
      BY <2>2, <1>2 DEF UpdateCommitOffset, producer
    <3>2. commit <= commit'
      BY <1>5 DEF Grows
    <3>3. /\ ~ Is("producer", "none")' => line' \in Line
          /\ Is("producer", "answered")' => Is("producer", "answered")
      BY <1>1, <3>1 DEF Sending, Is
    <3>4. (Is("producer", "answered") /\ call["producer"].code = "OK") =>
            /\ call["producer"].value \in 0 .. commit'
            /\ log[call["producer"].value + 1] = line
      BY <1>1, <1>3, <1>5, <3>2 DEF Sending
    <3> QED BY <3>1, <3>3, <3>4, <1>2 DEF Sending
  <2> QED BY <2>1, <2>2
<1>9. Behind' /\ Ordered' /\ Placed'
  BY <1>2, <1>5, LinesKept DEF Grows, Ordered
<1>10. Asking' /\ Reading'
  BY <1>2, <1>5, <1>6, AskingKept, ReadingKept
<1> QED BY <1>7, <1>8, <1>9, <1>10 DEF IndInv
\* A question is answered, and nothing else moves.
LEMMA AnswerInductive ==
  ASSUME IndInv, NEW v \in CallType, Set("consumer", v),
         UNCHANGED <<partition, server, producer, consumer, bounds>>,
         Asking'
  PROVE  IndInv'
<1> USE TwoClients
<1>1. TypeOK /\ Sending
  BY DEF IndInv
<1>2. /\ UNCHANGED <<log, first, commit, up, known, writing, late, delays, crashes>>
      /\ UNCHANGED <<producer, consumer>>
  BY DEF partition, server, bounds
<1>3. call' \in [Client -> CallType] /\ call'["producer"] = call["producer"]
  BY <1>1, CallSet
<1>4. /\ log \in Seq(Line) /\ first \in 0 .. Len(log)
      /\ commit \in -1 .. Len(log) - 1
  BY <1>1 DEF TypeOK
<1>5. Grows /\ commit' \in Int /\ first' \in Int
  BY <1>2, <1>4 DEF Grows
<1>6. TypeOK'
  BY <1>1, <1>2, <1>3 DEF TypeOK, CallType, producer, consumer
<1>7. Sending'
  BY <1>1, <1>2, <1>3 DEF Sending, Is, producer
<1>8. Behind' /\ Ordered' /\ Placed'
  BY <1>2, <1>5, LinesKept DEF Grows
<1>9. Reading'
  BY <1>2, <1>5, ReadingKept
<1> QED BY <1>6, <1>7, <1>8, <1>9 DEF IndInv

LEMMA GetOffsetsInductive ==
  ASSUME IndInv, GetOffsets
  PROVE  IndInv'
<1> USE CallValues, CallTypes, TwoClients
<1>1. TypeOK
  BY DEF IndInv
<1>2. first \in Int /\ first >= 0 /\ mode = "offsets"
  <2>1. log \in Seq(Line) /\ first \in 0 .. Len(log)
    BY <1>1 DEF TypeOK
  <2> QED BY <2>1 DEF GetOffsets
<1>3. PICK v \in {Answer("OK", first), Answer("UNKNOWN", 0)} : Set("consumer", v)
  BY DEF GetOffsets
<1>4. v \in CallType /\ UNCHANGED <<partition, server, producer, consumer, bounds>>
  BY <1>2, <1>3 DEF GetOffsets
<1>5. mode' = mode /\ call'["consumer"] = v
  BY <1>1, <1>3, <1>4, CallSet DEF consumer
<1>6. Asking'
  BY <1>2, <1>3, <1>5 DEF Asking
<1> QED BY <1>3, <1>4, <1>6, AnswerInductive

LEMMA GetMessageInductive ==
  ASSUME IndInv, GetMessage
  PROVE  IndInv'
<1> USE CallValues, CallTypes, TwoClients
<1>1. TypeOK
  BY DEF IndInv
<1>2. /\ log \in Seq(Line) /\ Len(log) \in Nat /\ DOMAIN log = 1 .. Len(log)
      /\ first \in 0 .. Len(log) /\ commit \in -1 .. Len(log) - 1 /\ offset \in Int
  <2>1. /\ log \in Seq(Line) /\ first \in 0 .. Len(log)
        /\ commit \in -1 .. Len(log) - 1 /\ offset \in Int
    BY <1>1 DEF TypeOK
  <2> QED BY <2>1
<1>3. offset \in first .. commit => offset \in 0 .. commit /\ log[offset + 1] \in Int
  BY <1>2, LinesNat DEF Line
<1>4. \/ MessageAt(offset) \in {Answer("NO_MESSAGE", 0), Answer("UNKNOWN", 0)}
      \/ /\ offset \in first .. commit
         /\ MessageAt(offset) = Answer("OK", log[offset + 1])
      \/ offset < first /\ MessageAt(offset) = Answer("ERROR", 0)
  BY <1>2 DEF MessageAt
<1>5. MessageAt(offset) \in CallType
  BY <1>3, <1>4
<1>6. /\ mode = "messages" /\ call'["consumer"] = MessageAt(offset)
      /\ UNCHANGED <<log, first, commit, mode, offset>>
  BY <1>1, <1>5, CallSet DEF GetMessage, partition, consumer
<1>7. Asking'
  BY <1>3, <1>4, <1>6 DEF Asking
<1> QED BY <1>5, <1>7, AnswerInductive DEF GetMessage

LEMMA ReadRefusedInductive ==
  ASSUME IndInv, ReadRefused
  PROVE  IndInv'
<1> USE CallValues, CallTypes, TwoClients
<1>1. TypeOK
  BY DEF IndInv
<1>2. log \in Seq(Line) /\ first \in 0 .. Len(log) /\ commit \in -1 .. Len(log) - 1
  BY <1>1 DEF TypeOK
<1>3. Answer("ERROR", 0) \in CallType
  OBVIOUS
<1>4. /\ mode = "messages" /\ offset \in first .. commit /\ IoErrors
      /\ UNCHANGED <<commit, mode, offset>> /\ call'["consumer"] = Answer("ERROR", 0)
  BY <1>1, <1>3, CallSet DEF ReadRefused, partition, consumer
<1>5. Asking'
  BY <1>2, <1>4 DEF Asking
<1> QED BY <1>3, <1>5, AnswerInductive DEF ReadRefused

LEMMA CrashInductive ==
  ASSUME IndInv, Crash
  PROVE  IndInv'
<1> USE CallValues, CallTypes, TwoClients
<1>1. TypeOK /\ Sending
  BY DEF IndInv
<1>2. /\ UNCHANGED <<log, first, commit, known, delays>> /\ UNCHANGED <<producer, consumer>>
      /\ up' = FALSE /\ crashes' = crashes + 1 /\ writing' = Nothing
      /\ late' = [n \in Line |-> 0] /\ crashes < MaxCrashes
  BY DEF Crash, partition
<1>3. /\ call' \in [Client -> CallType]
      /\ \A c \in Client : call'[c] = Failed \/ call'[c] = call[c]
      /\ \A c \in Client : call[c].state \notin {"sent", "answered"} => call'[c] = call[c]
  <2>1. PICK lost \in SUBSET {c \in Client : Is(c, "answered")} :
          call' = [c \in Client |-> IF Is(c, "sent") \/ c \in lost THEN Failed ELSE call[c]]
    BY DEF Crash
  <2>2. call \in [Client -> CallType]
    BY <1>1 DEF TypeOK, CallType
  <2> QED BY <2>1, <2>2 DEF Is
<1>4. /\ log \in Seq(Line) /\ first \in 0 .. Len(log)
      /\ commit \in -1 .. Len(log) - 1
  BY <1>1 DEF TypeOK
<1>5. Grows /\ commit' \in Int /\ first' \in Int
  BY <1>2, <1>4 DEF Grows
<1>6. TypeOK'
  <2>1. crashes' \in 0 .. MaxCrashes
    <3>1. crashes \in 0 .. MaxCrashes
      BY <1>1 DEF TypeOK
    <3> QED BY <3>1, <1>2, BoundsNat
  <2> QED BY <1>1, <1>2, <1>3, <2>1 DEF TypeOK, CallType, producer, consumer
<1>7. Sending'
  <2>1. /\ ~ Is("producer", "none")' => line' \in Line
        /\ Is("producer", "answered")' => Is("producer", "answered")
        /\ Is("producer", "answered")' => call'["producer"] = call["producer"]
    BY <1>1, <1>2, <1>3 DEF Sending, Is, producer
  <2>2. (Is("producer", "answered") /\ call["producer"].code = "OK")' =>
          /\ call'["producer"].value \in 0 .. commit'
          /\ log'[call'["producer"].value + 1] = line'
    BY <1>1, <1>2, <2>1 DEF Sending, producer
  <2> QED BY <1>2, <2>1, <2>2 DEF Sending
<1>8. Behind' /\ Ordered' /\ Placed'
  BY <1>2, <1>5, LinesKept DEF Grows
<1>9. Asking'
  <2>1. CASE call'["consumer"] = Failed
    BY <2>1 DEF Asking, Is
  <2>2. CASE call'["consumer"] = call["consumer"]
    BY <2>2, <1>2, <1>5, AskingKept
  <2> QED BY <2>1, <2>2, <1>3
<1>10. Reading'
  BY <1>2, <1>5, ReadingKept
<1> QED BY <1>6, <1>7, <1>8, <1>9, <1>10 DEF IndInv

LEMMA RestartInductive ==
  ASSUME IndInv, Restart
  PROVE  IndInv'
<1> USE CallValues, TwoClients
<1>1. TypeOK /\ Sending
  BY DEF IndInv
<1>2. /\ UNCHANGED <<log, commit, writing, late, call, delays, crashes>>
      /\ UNCHANGED <<producer, consumer>>
      /\ ~ up /\ up' = TRUE /\ known' \in BOOLEAN /\ first' \in Oldest(Len(log), known')
  BY DEF Restart, bounds
<1>3. /\ log \in Seq(Line) /\ first \in 0 .. Len(log)
      /\ commit \in -1 .. Len(log) - 1
  BY <1>1 DEF TypeOK
<1>4. first <= first' /\ first' \in 0 .. Len(log)
  BY <1>2, <1>3 DEF Oldest
<1>5. Grows /\ commit' \in Int /\ first' \in Int
  BY <1>2, <1>3, <1>4 DEF Grows
<1>6. TypeOK'
  BY <1>1, <1>2, <1>4 DEF TypeOK, producer, consumer
<1>7. Sending'
  BY <1>1, <1>2 DEF Sending, Is, producer
<1>8. Behind' /\ Ordered' /\ Placed'
  BY <1>2, <1>5, LinesKept DEF Grows
<1>9. Asking' /\ Reading'
  BY <1>2, <1>5, AskingKept, ReadingKept
<1> QED BY <1>6, <1>7, <1>8, <1>9 DEF IndInv


-----------------------------------------------------------------------------
(* The programs                                                            *)

LEMMA PrintAnswerInductive ==
  ASSUME IndInv, PrintAnswer
  PROVE  IndInv'
<1> USE CallValues, CallTypes, TwoClients
<1>1. TypeOK /\ Sending /\ Behind /\ Ordered /\ Placed
  BY DEF IndInv
<1> DEFINE ok == call["producer"].code = "OK"
           value == call["producer"].value
<1>2. /\ UNCHANGED <<log, first, commit, up, known, writing, late, delays, crashes>>
      /\ UNCHANGED consumer
      /\ line' = line + 1 /\ Set("producer", NoCall) /\ Is("producer", "answered")
  BY DEF PrintAnswer, partition, server, bounds
<1>3. /\ line \in Line /\ line \in 1 .. Lines
      /\ ok => value \in 0 .. commit /\ log[value + 1] = line
      /\ ~ writing.live
  BY <1>1, <1>2 DEF Sending, Is, Line
<1>4. /\ call' \in [Client -> CallType] /\ call'["producer"] = NoCall
      /\ call'["consumer"] = call["consumer"]
  BY <1>1, <1>2, CallSet
<1>5. /\ log \in Seq(Line) /\ first \in 0 .. Len(log)
      /\ commit \in -1 .. Len(log) - 1 /\ DOMAIN log = 1 .. Len(log)
  <2>1. /\ log \in Seq(Line) /\ first \in 0 .. Len(log)
        /\ commit \in -1 .. Len(log) - 1
    BY <1>1 DEF TypeOK
  <2> QED BY <2>1
<1>6. Grows /\ commit' \in Int /\ first' \in Int
  BY <1>2, <1>5 DEF Grows
<1>7. told \in [DOMAIN told -> Nat] /\ DOMAIN told \subseteq Line /\ refused \subseteq Line
  BY <1>1 DEF TypeOK
<1>8. ASSUME ok PROVE TypeOK' /\ Behind' /\ Passed' \subseteq Passed \cup {line}
  <2>1. /\ told' = [n \in DOMAIN told \cup {line} |-> IF n = line THEN value ELSE told[n]]
        /\ refused' = refused
    BY <1>8 DEF PrintAnswer
  <2> HIDE DEF value, ok
  <2>2. value \in Nat /\ value <= commit
    BY <1>3, <1>8, <1>5
  <2>3. /\ DOMAIN told' = DOMAIN told \cup {line} /\ told'[line] = value
        /\ \A n \in DOMAIN told : n # line => told'[n] = told[n]
    BY <2>1
  <2>4. told' \in [DOMAIN told' -> Nat] /\ DOMAIN told' \subseteq Line
    BY <2>1, <2>2, <1>3, <1>7
  <2>5. TypeOK'
    <3>1. line' \in 1 .. Lines + 1
      BY <1>2, <1>3, LinesNat
    <3> QED BY <1>1, <1>2, <1>4, <2>1, <2>4, <3>1 DEF TypeOK, CallType, consumer
  <2>6. Behind'
    <3>1. \A n \in 1 .. line' - 1 : n \in 1 .. line - 1 \/ n = line
      BY <1>2, <1>3
    <3>2. \A n \in 1 .. line' - 1 : n \in DOMAIN told' \/ n \in refused'
      BY <3>1, <2>1, <2>3, <1>1 DEF Behind
    <3>3. \A n \in DOMAIN told' : told'[n] <= commit' /\ log'[told'[n] + 1] = n
      BY <2>2, <2>3, <1>2, <1>3, <1>8, <1>1 DEF Behind
    <3> QED BY <3>2, <3>3 DEF Behind
  <2>7. Passed' \subseteq Passed \cup {line}
    BY <2>1, <1>2, <1>3 DEF Passed
  <2> QED BY <2>5, <2>6, <2>7
<1>9. ASSUME ~ ok PROVE TypeOK' /\ Behind' /\ Passed' \subseteq Passed \cup {line}
  <2>1. told' = told /\ refused' = refused \cup {line}
    BY <1>9 DEF PrintAnswer
  <2>2. TypeOK'
    <3>1. line' \in 1 .. Lines + 1 /\ refused' \subseteq Line
      BY <1>2, <1>3, <1>7, <2>1, LinesNat
    <3> QED BY <1>1, <1>2, <1>4, <2>1, <3>1 DEF TypeOK, CallType, consumer
  <2>3. Behind'
    <3>1. \A n \in 1 .. line' - 1 : n \in 1 .. line - 1 \/ n = line
      BY <1>2, <1>3
    <3> QED BY <3>1, <2>1, <1>1, <1>2 DEF Behind
  <2>4. Passed' \subseteq Passed \cup {line}
    BY <2>1, <1>2, <1>3 DEF Passed
  <2> QED BY <2>2, <2>3, <2>4
<1>10. TypeOK' /\ Behind' /\ Passed' \subseteq Passed \cup {line}
  BY <1>8, <1>9
<1>11. Sending'
  BY <1>1, <1>2, <1>3, <1>4 DEF Sending, Is
<1>12. Ordered'
  <2>1. \A j \in DOMAIN log : log[j] \in Int /\ log[j] <= line
    BY <1>1, <1>5, LinesNat DEF Ordered, Line
  <2>2. \A j \in DOMAIN log' : log'[j] <= line'
    BY <2>1, <1>2, <1>3
  <2>3. \A n \in Line : late'[n] > 0 => n <= line'
    BY <1>1, <1>2, <1>3, LinesNat DEF Ordered, Line
  <2>4. \A m \in Passed', j \in DOMAIN log' :
          m < log'[j] => \E i \in 1 .. j - 1 : log'[i] = m
    <3>1. \A m \in Passed', j \in DOMAIN log : m < log[j] => m \in Passed
      BY <2>1, <1>3, <1>10
    <3> QED BY <3>1, <1>1, <1>2 DEF Ordered
  <2> QED BY <2>2, <2>3, <2>4 DEF Ordered
<1>13. Placed'
  BY <1>1, <1>2 DEF Placed, FirstAt, Written
<1>14. Asking' /\ Reading'
  BY <1>2, <1>4, <1>6, AskingKept, ReadingKept
<1> QED BY <1>10, <1>11, <1>12, <1>13, <1>14 DEF IndInv

\* What a step of the consumer leaves alone.
LEMMA ConsumerMoved ==
  ASSUME IndInv, Set("consumer", NoCall), UNCHANGED <<partition, server, producer, bounds>>,
         options' = options, offset' \in Int, start' \in Int, got' \in Seq(Line),
         mode' \in {"offsets", "messages"} \cup Stops, Reading'
  PROVE  IndInv'
<1> USE CallValues, CallTypes, TwoClients
<1>1. TypeOK /\ Sending
  BY DEF IndInv
<1>2. /\ UNCHANGED <<log, first, commit, up, known, writing, late, delays, crashes>>
      /\ UNCHANGED producer
  BY DEF partition, server, bounds
<1>3. /\ call' \in [Client -> CallType] /\ call'["consumer"] = NoCall
      /\ call'["producer"] = call["producer"]
  BY <1>1, CallSet
<1>4. TypeOK'
  <2>1. /\ log' \in Seq(Line) /\ first' \in 0 .. Len(log') /\ commit' \in -1 .. Len(log') - 1
        /\ up' \in BOOLEAN /\ known' \in BOOLEAN
        /\ writing' \in [line : Line, live : BOOLEAN] \cup {Nothing}
        /\ late' \in [Line -> Nat]
        /\ delays' \in 0 .. MaxLate /\ crashes' \in 0 .. MaxCrashes
    BY <1>1, <1>2 DEF TypeOK
  <2>2. /\ line' \in 1 .. Lines + 1 /\ refused' \subseteq Line
        /\ told' \in [DOMAIN told' -> Nat] /\ DOMAIN told' \subseteq Line
        /\ options' \in Options
    BY <1>1, <1>2 DEF TypeOK, producer
  <2> QED BY <1>3, <2>1, <2>2 DEF TypeOK, CallType
<1>5. Sending'
  BY <1>1, <1>2, <1>3 DEF Sending, Is, producer
<1>6. commit' \in Int /\ commit <= commit'
  <2>1. log \in Seq(Line) /\ commit \in -1 .. Len(log) - 1
    BY <1>1 DEF TypeOK
  <2> QED BY <2>1, <1>2
<1>7. Behind' /\ Ordered' /\ Placed'
  BY <1>2, <1>6, LinesKept
<1>8. Asking'
  BY <1>3 DEF Asking, Is
<1> QED BY <1>4, <1>5, <1>7, <1>8 DEF IndInv

LEMMA TakeFirstOffsetInductive ==
  ASSUME IndInv, TakeFirstOffset
  PROVE  IndInv'
<1>1. TypeOK /\ Asking /\ Reading
  BY DEF IndInv
<1>2. /\ mode = "offsets" /\ mode' = "messages" /\ got = <<>> /\ got' = got
      /\ offset' = call["consumer"].value /\ start' = offset' /\ offset' >= 0
  BY <1>1 DEF TakeFirstOffset, Asking, Reading
<1>3. offset' \in Int /\ start' \in Int /\ got' \in Seq(Line)
  BY <1>1, <1>2, TwoClients DEF TypeOK
<1>4. GaplessReading' /\ StopsOnlyBehind'
  BY <1>2, <1>3 DEF GaplessReading, StopsOnlyBehind
<1>5. Reading'
  BY <1>2, <1>4 DEF Reading
<1> QED BY <1>2, <1>3, <1>5, ConsumerMoved DEF TakeFirstOffset

LEMMA NoOffsetsInductive ==
  ASSUME IndInv, NoOffsets
  PROVE  IndInv'
<1>1. TypeOK /\ Reading
  BY DEF IndInv
<1>2. /\ mode = "offsets" /\ mode' = "unknown" /\ got = <<>>
      /\ UNCHANGED <<got, offset, start, options, log, commit>>
  BY <1>1 DEF NoOffsets, Reading, partition
<1>3. GaplessReading' /\ StopsOnlyBehind'
  BY <1>1, <1>2 DEF Reading, GaplessReading, StopsOnlyBehind
<1>4. Reading'
  BY <1>2, <1>3 DEF Reading
<1>5. offset' \in Int /\ start' \in Int /\ got' \in Seq(Line)
  BY <1>1, <1>2 DEF TypeOK
<1> QED BY <1>2, <1>4, <1>5, ConsumerMoved DEF NoOffsets, Stops

LEMMA TakeMessageInductive ==
  ASSUME IndInv, TakeMessage
  PROVE  IndInv'
<1> USE TwoClients
<1>1. TypeOK /\ Asking /\ Reading
  BY DEF IndInv
<1> DEFINE code == call["consumer"].code
<1>2. /\ mode = "messages" /\ Is("consumer", "answered")
      /\ UNCHANGED <<log, first, commit, start>>
      /\ offset' = offset + Advance(code)
      /\ got' = IF code = "OK" THEN Append(got, call["consumer"].value) ELSE got
  BY DEF TakeMessage, partition
<1>3. /\ mode' \in {"messages"} \cup Stops
      /\ mode' = "error" => code = "ERROR"
  BY DEF TakeMessage, Stops
<1>4. /\ log \in Seq(Line) /\ commit \in -1 .. Len(log) - 1 /\ Len(log) \in Nat
      /\ offset \in Int /\ start \in Int /\ got \in Seq(Line)
      /\ DOMAIN log = 1 .. Len(log) /\ DOMAIN got = 1 .. Len(got) /\ Len(got) \in Nat
  <2>1. /\ log \in Seq(Line) /\ commit \in -1 .. Len(log) - 1
        /\ offset \in Int /\ start \in Int /\ got \in Seq(Line)
    BY <1>1 DEF TypeOK
  <2> QED BY <2>1
<1>5. /\ start >= 0 /\ offset = start + Len(got)
      /\ \A i \in DOMAIN got : got[i] = log[start + i]
  BY <1>1, <1>2 DEF Reading, GaplessReading
<1>6. got # <<>> => offset <= commit + 1
  BY <1>1 DEF Reading, GaplessReading
<1>7. code = "OK" => offset \in 0 .. commit /\ call["consumer"].value = log[offset + 1]
  BY <1>1, <1>2 DEF Asking
<1>8. code = "ERROR" => offset < first \/ (IoErrors /\ offset <= commit)
  BY <1>1, <1>2 DEF Asking
<1> HIDE DEF code
<1>9. CASE code = "OK"
  <2> DEFINE v == call["consumer"].value
  <2>1. offset' = offset + 1 /\ got' = Append(got, v)
    BY <1>2, <1>9 DEF Advance
  <2>2. v = log[offset + 1] /\ offset \in 0 .. commit
    BY <1>7, <1>9
  <2> HIDE DEF v
  <2>3. v \in Line
    BY <2>2, <1>4
  <2>4. /\ got' \in Seq(Line) /\ Len(got') = Len(got) + 1
        /\ DOMAIN got' = 1 .. Len(got) + 1
        /\ \A i \in DOMAIN got : got'[i] = got[i]
        /\ got'[Len(got) + 1] = v
    BY <2>1, <2>3, <1>4
  <2>5. offset' = start + Len(got') /\ offset' <= commit + 1 /\ offset' \in Int
    BY <2>1, <2>2, <2>4, <1>4, <1>5
  <2>6. \A i \in DOMAIN got' : got'[i] = log[start + i]
    <3> SUFFICES ASSUME NEW i \in DOMAIN got' PROVE got'[i] = log[start + i]
      OBVIOUS
    <3>1. CASE i \in DOMAIN got
      BY <3>1, <2>4, <1>5
    <3>2. CASE i = Len(got) + 1
      <4>1. start + i = offset + 1
        BY <3>2, <1>4, <1>5
      <4> QED BY <3>2, <4>1, <2>2, <2>4
    <3> QED BY <3>1, <3>2, <2>4, <1>4
  <2>7. mode' # "error"
    BY <1>3, <1>9
  <2>8. Reading'
    <3>1. mode' # "offsets"
      BY <1>3 DEF Stops
    <3> QED BY <1>2, <1>5, <2>5, <2>6, <2>7, <3>1
         DEF Reading, GaplessReading, StopsOnlyBehind
  <2> QED BY <1>2, <1>3, <1>4, <2>4, <2>5, <2>8, ConsumerMoved DEF TakeMessage
<1>10. CASE code # "OK"
  <2>1. offset' = offset /\ got' = got
    BY <1>2, <1>4, <1>10 DEF Advance
  <2>2. StopsOnlyBehind'
    BY <1>2, <1>3, <1>8, <2>1 DEF StopsOnlyBehind
  <2>3. Reading'
    <3>1. mode' # "offsets"
      BY <1>3 DEF Stops
    <3> QED BY <1>2, <1>5, <1>6, <2>1, <2>2, <3>1 DEF Reading, GaplessReading
  <2> QED BY <1>2, <1>3, <1>4, <2>1, <2>3, ConsumerMoved DEF TakeMessage
<1> QED BY <1>9, <1>10


-----------------------------------------------------------------------------
(* The theorems                                                            *)

LEMMA StutterInductive ==
  ASSUME IndInv, UNCHANGED vars
  PROVE  IndInv'
<1>1. UNCHANGED <<log, first, commit, up, known, writing, late, call, line, told, refused,
                  offset, mode, got, start, options, delays, crashes>>
  BY DEF vars, partition, server, producer, consumer, bounds
<1>2. TypeOK'
  BY <1>1 DEF IndInv, TypeOK
<1>3. Sending' /\ Behind'
  BY <1>1 DEF IndInv, Sending, Behind, Is
<1>4. Ordered' /\ Placed'
  BY <1>1 DEF IndInv, Ordered, Passed, Placed, FirstAt, Written
<1>5. Asking' /\ Reading'
  BY <1>1 DEF IndInv, Asking, Is, Reading, GaplessReading, StopsOnlyBehind
<1> QED BY <1>2, <1>3, <1>4, <1>5 DEF IndInv

LEMMA StepInductive == IndInv /\ [Next]_vars => IndInv'
<1> SUFFICES ASSUME IndInv, [Next]_vars PROVE IndInv'
  OBVIOUS
<1>1. ASSUME NEW c \in Client, DeadlineExceeded(c) PROVE IndInv'
  BY <1>1, DeadlineInductive
<1>2. ASSUME NEW c \in Client, ClientStep(c) PROVE IndInv'
  BY <1>2, ClientInductive
<1>3. CASE ProducerStep
  BY <1>3, SendLineInductive, PrintAnswerInductive DEF ProducerStep
<1>4. CASE ConsumerStep
  BY <1>4, AskInductive, TakeFirstOffsetInductive, NoOffsetsInductive,
           TakeMessageInductive DEF ConsumerStep
<1>5. CASE Serve
  BY <1>5, SendMessageInductive, SendRefusedInductive, UpdateCommitInductive DEF Serve
<1>6. CASE Give
  BY <1>6, GetOffsetsInductive, GetMessageInductive, ReadRefusedInductive DEF Give
<1>7. CASE Crash
  BY <1>7, CrashInductive
<1>8. CASE Restart
  BY <1>8, RestartInductive
<1>9. CASE UNCHANGED vars
  BY <1>9, StutterInductive
<1> QED BY <1>1, <1>2, <1>3, <1>4, <1>5, <1>6, <1>7, <1>8, <1>9 DEF Next, Ended

THEOREM Invariance == Spec => []IndInv
<1> QED BY InitInductive, StepInductive, PTL DEF Spec

\* Every variable keeps its type: counters of calls given up stay natural, offsets
\* told and commit offsets stay within the log (Client.cc, main-producer.cc).
THEOREM TypeCorrect == Spec => []TypeOK
<1>1. IndInv => TypeOK
  BY DEF IndInv
<1> QED BY <1>1, Invariance, PTL

\* The loop of main-producer.cc:46-63 over the retries of Client.cc:13-23 loses no
\* line it was not told of, however many calls are late and however often the
\* server is killed.
THEOREM NoLineLost == Spec => []AtLeastOnce
<1>1. IndInv => AtLeastOnce
  <2> SUFFICES ASSUME IndInv, NEW n \in Passed
               PROVE  /\ n \in DOMAIN told /\ told[n] + 1 \in DOMAIN log
                      /\ log[told[n] + 1] = n /\ told[n] <= commit
    BY DEF AtLeastOnce
  <2>1. /\ log \in Seq(Line) /\ commit \in -1 .. Len(log) - 1
        /\ told \in [DOMAIN told -> Nat]
    BY DEF IndInv, TypeOK
  <2>2. n \in DOMAIN told /\ told[n] <= commit /\ log[told[n] + 1] = n
    BY DEF IndInv, Behind, Passed
  <2>3. told[n] + 1 \in DOMAIN log
    BY <2>1, <2>2
  <2> QED BY <2>2, <2>3
<1> QED BY <1>1, Invariance, PTL

\* A send given up and executed late (Client.cc:13-23) repeats a line, and never
\* puts a later line before the first copy of an earlier one.
THEOREM FirstCopiesInOrder == Spec => []FirstTimesInOrder
<1>1. IndInv => FirstTimesInOrder
  <2> SUFFICES ASSUME IndInv, NEW m \in Passed, NEW n \in Line, m < n, Written(n)
               PROVE  Written(m) /\ FirstPlace(m) < FirstPlace(n)
    BY DEF FirstTimesInOrder
  <2>1. /\ DOMAIN log = 1 .. Len(log) /\ Len(log) \in Nat /\ line \in 1 .. Lines + 1
    <3>1. log \in Seq(Line) /\ line \in 1 .. Lines + 1
      BY DEF IndInv, TypeOK
    <3> QED BY <3>1
  <2>2. \A k \in Line : Written(k) => FirstAt(k, FirstPlace(k))
    <3> SUFFICES ASSUME NEW k \in Line, Written(k) PROVE FirstAt(k, FirstPlace(k))
      OBVIOUS
    <3>1. \E i \in DOMAIN log : log[i] = k /\ \A j \in 1 .. i - 1 : log[j] # k
      BY DEF IndInv, Placed, FirstAt
    <3> QED BY <3>1 DEF FirstPlace, FirstAt
  <2>3. FirstPlace(n) \in DOMAIN log /\ log[FirstPlace(n)] = n
    BY <2>2 DEF FirstAt
  <2>4. PICK i \in 1 .. FirstPlace(n) - 1 : log[i] = m
    BY <2>3 DEF IndInv, Ordered
  <2>5. Written(m) /\ i \in DOMAIN log
    BY <2>1, <2>3, <2>4 DEF Written
  <2>6. m \in Line
    BY <2>1, LinesNat DEF Passed, Line
  <2>7. FirstPlace(m) \in DOMAIN log /\ \A j \in 1 .. FirstPlace(m) - 1 : log[j] # m
    BY <2>2, <2>5, <2>6 DEF FirstAt
  <2>8. FirstPlace(m) <= i
    BY <2>1, <2>4, <2>5, <2>7
  <2> QED BY <2>1, <2>3, <2>4, <2>5, <2>7, <2>8
<1> QED BY <1>1, Invariance, PTL

\* The loop of main-consumer.cc:70-108 prints what the log holds from its start to
\* its offset, across failed calls and kills.
THEOREM NoMessageSkipped == Spec => []GaplessReading
<1>1. IndInv => GaplessReading
  BY DEF IndInv, Reading
<1> QED BY <1>1, Invariance, PTL

\* A message not committed yet is no error to the consumer (Broker.cc:208), whatever
\* was killed, given up or removed before: where a read stops it, the message was
\* forgotten, or is committed and could not be read; only forgotten, if no read
\* fails (Segment.cc:181-209).
THEOREM NoStrayError == Spec => []StopsOnlyBehind
<1>1. IndInv => StopsOnlyBehind
  BY DEF IndInv, Reading
<1> QED BY <1>1, Invariance, PTL

-----------------------------------------------------------------------------
(* How many copies there can be                                            *)

\* The call of the producer may still write its line, or print an error for it.
Due == IF \/ Is("producer", "failed")
          \/ Is("producer", "sent") /\ ~ writing.live
          \/ Is("producer", "answered") /\ call["producer"].code # "OK"
       THEN 1 ELSE 0

Begun == IF Is("producer", "none") THEN 0 ELSE 1
LateSends == SumFunctionOnSet(late, Line)

\* Every copy written or still to come is that of a line begun, or is paid for by a
\* missed deadline or a kill.
Accounted ==
  Len(log) + LateSends + Cardinality(refused) + Due <= line - 1 + Begun + delays + crashes

LEMMA LineFinite == IsFiniteSet(Line) /\ Line \subseteq Nat
BY LinesNat, FS_Interval DEF Line

LEMMA LateNatural == ASSUME NEW f \in [Line -> Nat] PROVE SumFunctionOnSet(f, Line) \in Nat
<1>1. \A n \in Line : f[n] \in Nat
  OBVIOUS
<1>2. SumFunctionOnSet(f, Line) \in Int
  <2>1. \A n \in Line : f[n] \in Int
    BY <1>1
  <2> QED BY <2>1, LineFinite, SumInt
<1>3. Line \in SUBSET Line
  OBVIOUS
<1>4. SumFunctionOnSet(f, Line) \in 0 .. SumFunctionOnSet(f, Line)
  BY <1>1, <1>3, LineFinite, SumFewer
<1> QED BY <1>2, <1>4

LEMMA NoLateSends == ASSUME NEW f, \A n \in Line : f[n] = 0 PROVE SumFunctionOnSet(f, Line) = 0
<1> DEFINE Wrong == {s \in SUBSET Line : SumFunctionOnSet(f, s) # 0}
<1> SUFFICES ASSUME Wrong # {} PROVE FALSE
  OBVIOUS
<1>1. PICK s \in Wrong : \A n \in s : s \ {n} \notin Wrong
  BY SmallestSet, LineFinite
<1>2. s # {} /\ IsFiniteSet(s)
  BY SumEmpty, LineFinite, FS_Subset
<1>3. PICK n \in s : TRUE
  BY <1>2
<1>4. SumFunctionOnSet(f, s) = f[n] + SumFunctionOnSet(f, s \ {n})
  <2>1. \A m \in s : f[m] \in Int
    OBVIOUS
  <2> QED BY <2>1, <1>2, SumRemove
<1>5. SumFunctionOnSet(f, s \ {n}) = 0
  BY <1>1
<1> QED BY <1>4, <1>5

LEMMA CountsNatural ==
  ASSUME TypeOK
  PROVE  /\ Len(log) \in Nat /\ LateSends \in Nat /\ Cardinality(refused) \in Nat
         /\ IsFiniteSet(refused) /\ Due \in {0, 1} /\ Begun \in {0, 1}
         /\ line \in Nat /\ delays \in Nat /\ crashes \in Nat
<1>1. log \in Seq(Line) /\ late \in [Line -> Nat] /\ refused \subseteq Line
  BY DEF TypeOK
<1>2. line \in Nat /\ delays \in Nat /\ crashes \in Nat
  <2>1. line \in 1 .. Lines + 1 /\ delays \in 0 .. MaxLate /\ crashes \in 0 .. MaxCrashes
    BY DEF TypeOK
  <2> QED BY <2>1, LinesNat, BoundsNat
<1>3. Len(log) \in Nat /\ LateSends \in Nat
  BY <1>1, LateNatural DEF LateSends
<1>4. IsFiniteSet(refused) /\ Cardinality(refused) \in Nat
  BY <1>1, LineFinite, FS_Subset, FS_CardinalityType
<1> QED BY <1>2, <1>3, <1>4 DEF Due, Begun

\* The same after the step.
LEMMA NextNatural ==
  ASSUME TypeOK'
  PROVE  /\ Len(log') \in Nat /\ LateSends' \in Nat /\ Cardinality(refused') \in Nat
         /\ Due' \in {0, 1} /\ Begun' \in {0, 1}
         /\ line' \in Nat /\ delays' \in Nat /\ crashes' \in Nat
<1>1. log' \in Seq(Line) /\ late' \in [Line -> Nat] /\ refused' \subseteq Line
  BY DEF TypeOK
<1>2. line' \in Nat /\ delays' \in Nat /\ crashes' \in Nat
  <2>1. line' \in 1 .. Lines + 1 /\ delays' \in 0 .. MaxLate /\ crashes' \in 0 .. MaxCrashes
    BY DEF TypeOK
  <2> QED BY <2>1, LinesNat, BoundsNat
<1>3. Len(log') \in Nat /\ LateSends' \in Nat
  <2> PICK h : h = late'
    OBVIOUS
  <2> QED BY <1>1, LateNatural DEF LateSends
<1>4. Cardinality(refused') \in Nat
  BY <1>1, LineFinite, FS_Subset, FS_CardinalityType
<1> QED BY <1>2, <1>3, <1>4 DEF Due, Begun

LEMMA InitAccounted == Init => Accounted
<1> SUFFICES ASSUME Init PROVE Accounted
  OBVIOUS
<1>1. log = <<>> /\ refused = {} /\ line = 1 /\ delays = 0 /\ crashes = 0
  BY DEF Init
<1>2. Due = 0 /\ Begun = 0
  BY CallValues, TwoClients DEF Init, Due, Begun, Is
<1>3. LateSends = 0
  <2>1. \A n \in Line : late[n] = 0
    BY DEF Init
  <2> QED BY <2>1, NoLateSends DEF LateSends
<1>4. Len(log) = 0 /\ Cardinality(refused) = 0
  BY <1>1, FS_EmptySet
<1> QED BY <1>1, <1>2, <1>3, <1>4 DEF Accounted

\* A step adds no more to the one side than to the other.
Paid ==
  Len(log') + LateSends' + Cardinality(refused') + Due' + line + Begun + delays + crashes
    <= line' + Begun' + delays' + crashes' + Len(log) + LateSends + Cardinality(refused) + Due

LEMMA AccountBalanced ==
  ASSUME TypeOK, TypeOK', Accounted, Paid
  PROVE  Accounted'
<1>1. /\ Len(log) \in Nat /\ LateSends \in Nat /\ Cardinality(refused) \in Nat
      /\ Due \in Nat /\ Begun \in Nat
      /\ line \in Nat /\ delays \in Nat /\ crashes \in Nat
  BY CountsNatural
<1>2. /\ Len(log') \in Nat /\ LateSends' \in Nat /\ Cardinality(refused') \in Nat
      /\ Due' \in Nat /\ Begun' \in Nat
      /\ line' \in Nat /\ delays' \in Nat /\ crashes' \in Nat
  BY NextNatural
<1>3. PICK a \in Nat, b \in Nat, c \in Nat, d \in Nat,
           l \in Nat, e \in Nat, f \in Nat, g \in Nat :
      /\ a = Len(log) /\ b = LateSends /\ c = Cardinality(refused) /\ d = Due
      /\ l = line /\ e = Begun /\ f = delays /\ g = crashes
  BY <1>1
<1>4. PICK a2 \in Nat, b2 \in Nat, c2 \in Nat, d2 \in Nat,
           l2 \in Nat, e2 \in Nat, f2 \in Nat, g2 \in Nat :
      /\ a2 = Len(log') /\ b2 = LateSends' /\ c2 = Cardinality(refused') /\ d2 = Due'
      /\ l2 = line' /\ e2 = Begun' /\ f2 = delays' /\ g2 = crashes'
  BY <1>2
<1>5. a + b + c + d <= l - 1 + e + f + g
  BY <1>3 DEF Accounted
<1>6. a2 + b2 + c2 + d2 + l + e + f + g <= l2 + e2 + f2 + g2 + a + b + c + d
  BY <1>3, <1>4 DEF Paid
<1>7. a2 + b2 + c2 + d2 <= l2 - 1 + e2 + f2 + g2
  BY <1>5, <1>6
<1> QED BY <1>4, <1>7 DEF Accounted

LEMMA LateKept == ASSUME TypeOK, UNCHANGED late PROVE LateSends' <= LateSends
BY CountsNatural DEF LateSends

\* A step that keeps the log and the lines refused, and gives up no call.
LEMMA AccountKept ==
  ASSUME TypeOK, TypeOK', Accounted, UNCHANGED <<log, refused, line>>,
         LateSends' <= LateSends,
         NEW n \in Nat, Due' <= Due + n,
         Begun' + delays' + crashes' = Begun + delays + crashes + n
  PROVE  Accounted'
<1>1. Len(log) \in Nat /\ LateSends \in Nat /\ Cardinality(refused) \in Nat /\ line \in Nat
  BY CountsNatural
<1>2. Due \in Nat /\ Begun \in Nat /\ delays \in Nat /\ crashes \in Nat
  <2>1. Due \in {0, 1} /\ Begun \in {0, 1} /\ delays \in Nat /\ crashes \in Nat
    BY CountsNatural
  <2>2. \A b \in {0, 1} : b \in Nat
    OBVIOUS
  <2> QED BY <2>1, <2>2
<1>3. Due' \in Nat /\ LateSends' \in Nat /\ Begun' \in Nat /\ delays' \in Nat /\ crashes' \in Nat
  <2>1. /\ Due' \in {0, 1} /\ LateSends' \in Nat /\ Begun' \in {0, 1}
        /\ delays' \in Nat /\ crashes' \in Nat
    BY NextNatural
  <2>2. \A b \in {0, 1} : b \in Nat
    OBVIOUS
  <2> QED BY <2>1, <2>2
<1>4. /\ Len(log') = Len(log)
      /\ Cardinality(refused') = Cardinality(refused) /\ line' = line
  OBVIOUS
<1>5. PICK a \in Nat, b \in Nat, c \in Nat, d \in Nat,
           l \in Nat, e \in Nat, f \in Nat, g \in Nat :
      /\ a = Len(log) /\ b = LateSends /\ c = Cardinality(refused) /\ d = Due
      /\ l = line /\ e = Begun /\ f = delays /\ g = crashes
  BY <1>1, <1>2
<1>6. PICK b2 \in Nat, d2 \in Nat, e2 \in Nat, f2 \in Nat, g2 \in Nat :
      b2 = LateSends' /\ d2 = Due' /\ e2 = Begun' /\ f2 = delays' /\ g2 = crashes'
  BY <1>3
<1>7. b2 <= b /\ d2 <= d + n /\ e2 + f2 + g2 = e + f + g + n
  BY <1>5, <1>6
<1>8. a + b2 + c + d2 + l + e + f + g <= l + e2 + f2 + g2 + a + b + c + d
  BY <1>7
<1>9. Paid
  BY <1>4, <1>5, <1>6, <1>8 DEF Paid
<1> QED BY <1>9, AccountBalanced

\* The account looks at the call of the producer only.
LEMMA DueKept ==
  ASSUME call'["producer"] = call["producer"], writing'.live = writing.live
  PROVE  Due' = Due /\ Begun' = Begun
BY DEF Due, Begun, Is

\* The deadline of the producer: one copy more may come of it.
LEMMA DeadlineAccounted ==
  ASSUME IndInv, IndInv', Accounted, NEW c \in Client, DeadlineExceeded(c)
  PROVE  Accounted'
<1> USE CallValues, CallTypes, TwoClients
<1>1. TypeOK /\ TypeOK' /\ Sending
  BY DEF IndInv
<1>2. /\ UNCHANGED <<log, refused, line, crashes>> /\ delays' = delays + 1
      /\ call'[c] = Failed /\ \A d \in Client : d # c => call'[d] = call[d]
  BY <1>1, CallSet DEF DeadlineExceeded, partition, producer
<1>3. /\ Len(log) \in Nat /\ LateSends \in Nat /\ Cardinality(refused) \in Nat
      /\ Due \in {0, 1} /\ Begun \in {0, 1}
      /\ line \in Nat /\ delays \in Nat /\ crashes \in Nat
  BY <1>1, CountsNatural
<1>4. Due' \in {0, 1} /\ Begun' \in {0, 1} /\ LateSends' \in Nat
  BY <1>1, NextNatural
<1>5. Begun' = Begun
  BY <1>2 DEF DeadlineExceeded, Begun, Is
<1>6. CASE UNCHANGED late
  <2>1. Due' <= Due + 1
    BY <1>3, <1>4
  <2>2. Begun' + delays' + crashes' = Begun + delays + crashes + 1
    BY <1>2, <1>3, <1>5
  <2> QED BY <2>1, <2>2, <1>1, <1>2, <1>6, AccountKept, LateKept
<1>7. CASE /\ c = "producer" /\ Is(c, "sent") /\ ~ Executing(c)
           /\ late' = [late EXCEPT ![line] = @ + 1]
  <2>1. Due = 1
    BY <1>7 DEF Due, Executing
  <2>2. line \in Line /\ late \in [Line -> Nat]
    BY <1>1, <1>7 DEF Sending, TypeOK, Is
  <2>3. SumFunctionOnSet(late', Line) = SumFunctionOnSet(late, Line) - late[line] + late'[line]
    <3>1. \A n \in Line : late[n] \in Int
      BY <2>2
    <3>2. late'[line] \in Int /\ \A n \in Line \ {line} : late'[n] = late[n]
      BY <2>2, <1>7
    <3> PICK h : h = late'
      OBVIOUS
    <3>3. h[line] \in Int /\ \A n \in Line \ {line} : h[n] = late[n]
      BY <3>2
    <3>4. IsFiniteSet(Line) /\ line \in Line
      BY <2>2, LineFinite
    <3>5. SumFunctionOnSet(h, Line) = SumFunctionOnSet(late, Line) - late[line] + h[line]
      BY <3>1, <3>3, <3>4, SumChange
    <3> QED BY <3>5
  <2>4. late'[line] = late[line] + 1 /\ late[line] \in Nat
    BY <2>2, <1>7
  <2>5. LateSends' = LateSends + 1
    BY <2>3, <2>4, <1>3 DEF LateSends
  <2>6. Due' <= Due
    BY <2>1, <1>4
  <2>7. Len(log') = Len(log) /\ Cardinality(refused') = Cardinality(refused)
    BY <1>2
  <2>8. Paid
    BY SMTT(40), <2>5, <2>6, <2>7, <1>2, <1>3, <1>4, <1>5 DEF Paid
  <2> QED BY <2>8, <1>1, AccountBalanced
<1> QED BY <1>6, <1>7 DEF DeadlineExceeded

\* A call lost with the server, or made again, is the call it was.
LEMMA ClientAccounted ==
  ASSUME IndInv, IndInv', Accounted, NEW c \in Client, ClientStep(c)
  PROVE  Accounted'
<1> USE CallValues, CallTypes, TwoClients
<1>1. TypeOK /\ TypeOK' /\ Sending
  BY DEF IndInv
<1>2. UNCHANGED <<log, late, writing, refused, line, delays, crashes>>
  BY DEF ClientStep, ConnectionLost, Reconnect, partition, server, producer, bounds
<1>3. Begun \in {0, 1} /\ Due \in {0, 1} /\ delays \in Nat /\ crashes \in Nat
  BY <1>1, CountsNatural
<1>4. Due' \in {0, 1}
  BY <1>1, NextNatural
<1>5. PICK v \in {Sent, Failed} : Set(c, v)
  BY DEF ClientStep, ConnectionLost, Reconnect
<1>6. v \in CallType /\ call'[c] = v /\ \A d \in Client : d # c => call'[d] = call[d]
  BY <1>1, <1>5, CallSet
<1>7. CASE c = "producer"
  <2>1. ~ up => writing = Nothing
    BY <1>1 DEF Sending
  <2>2. Due = 1 /\ Begun = 1
    BY <2>1, <1>7 DEF ClientStep, ConnectionLost, Reconnect, Due, Begun, Is
  <2>3. Begun' = 1
    BY <1>5, <1>6, <1>7 DEF Begun, Is
  <2>4. Due' <= Due + 0
    BY <2>2, <1>4
  <2>5. Begun' + delays' + crashes' = Begun + delays + crashes + 0
    BY <2>2, <2>3, <1>2, <1>3
  <2> QED BY <2>4, <2>5, <1>1, <1>2, AccountKept, LateKept
<1>8. CASE c = "consumer"
  <2>1. Due' = Due /\ Begun' = Begun
    BY <1>2, <1>6, <1>8, DueKept
  <2>2. Due' <= Due + 0 /\ Begun' + delays' + crashes' = Begun + delays + crashes + 0
    BY <2>1, <1>2, <1>3
  <2> QED BY <2>2, <1>1, <1>2, AccountKept, LateKept
<1> QED BY <1>7, <1>8

\* A step of the consumer, an answer to it, or a restart, leaves the log and the
\* producer's call alone.
LEMMA ProducerLeft ==
  ASSUME TypeOK, ConsumerStep \/ Give \/ Restart
  PROVE  /\ UNCHANGED <<log, late, writing, refused, line, delays, crashes>>
         /\ up => up'
         /\ call'["producer"] = call["producer"]
<1> USE TwoClients
<1>1. \A v : Set("consumer", v) => call'["producer"] = call["producer"]
  BY DEF Set, TypeOK
<1>2. CASE ConsumerStep
  <2>1. UNCHANGED <<partition, server, producer, bounds>> /\ \E v : Set("consumer", v)
    BY <1>2 DEF ConsumerStep, Ask, TakeFirstOffset, NoOffsets, TakeMessage
  <2> QED BY <1>1, <2>1 DEF partition, server, producer, bounds
<1>3. CASE Give
  <2>1. UNCHANGED <<partition, server, producer, bounds>> /\ \E v : Set("consumer", v)
    BY <1>3 DEF Give, GetOffsets, GetMessage, ReadRefused
  <2> QED BY <1>1, <2>1 DEF partition, server, producer, bounds
<1>4. CASE Restart
  BY <1>4 DEF Restart, producer, bounds
<1> QED BY <1>2, <1>3, <1>4

LEMMA OthersAccounted ==
  ASSUME IndInv, IndInv', Accounted, ConsumerStep \/ Give \/ Restart
  PROVE  Accounted'
<1>1. TypeOK /\ TypeOK'
  BY DEF IndInv
<1>2. /\ UNCHANGED <<log, late, writing, refused, line, delays, crashes>>
      /\ call'["producer"] = call["producer"]
  BY <1>1, ProducerLeft
<1>3. Begun \in {0, 1} /\ Due \in {0, 1} /\ delays \in Nat /\ crashes \in Nat
  BY <1>1, CountsNatural
<1>4. Due' = Due /\ Begun' = Begun
  BY <1>2, DueKept
<1>5. Due' <= Due + 0 /\ Begun' + delays' + crashes' = Begun + delays + crashes + 0
  BY <1>2, <1>3, <1>4
<1> QED BY <1>1, <1>2, <1>5, AccountKept, LateKept

LEMMA CrashAccounted ==
  ASSUME IndInv, IndInv', Accounted, Crash
  PROVE  Accounted'
<1> USE CallValues, CallTypes, TwoClients
<1>1. TypeOK /\ TypeOK'
  BY DEF IndInv
<1>2. UNCHANGED <<log, refused, line, delays>> /\ crashes' = crashes + 1
  BY DEF Crash, partition, producer
<1>3. LateSends' = 0
  <2> PICK h : h = late'
    OBVIOUS
  <2>1. \A n \in Line : h[n] = 0
    BY DEF Crash
  <2> QED BY <2>1, NoLateSends DEF LateSends
<1>4. /\ LateSends \in Nat /\ Due \in {0, 1} /\ Begun \in {0, 1}
      /\ delays \in Nat /\ crashes \in Nat
  BY <1>1, CountsNatural
<1>5. Due' \in {0, 1}
  BY <1>1, NextNatural
<1>6. Begun' = Begun
  BY DEF Crash, Begun, Is
<1>7. Due' <= Due + 1 /\ LateSends' <= LateSends
  BY <1>3, <1>4, <1>5
<1>8. Begun' + delays' + crashes' = Begun + delays + crashes + 1
  BY <1>2, <1>4, <1>6
<1> QED BY <1>1, <1>2, <1>7, <1>8, AccountKept

\* A line begun is a copy owed.
LEMMA SendLineAccounted ==
  ASSUME IndInv, IndInv', Accounted, SendLine
  PROVE  Accounted'
<1> USE CallValues, CallTypes, TwoClients
<1>1. TypeOK /\ TypeOK'
  BY DEF IndInv
<1>2. UNCHANGED <<log, late, refused, line, delays, crashes>>
  BY DEF SendLine, partition, server, producer, bounds
<1>3. Due \in {0, 1} /\ delays \in Nat /\ crashes \in Nat
  BY <1>1, CountsNatural
<1>4. Due' \in {0, 1}
  BY <1>1, NextNatural
<1>5. Begun = 0 /\ Begun' = 1
  <2>1. call'["producer"] = Sent
    BY <1>1, CallSet DEF SendLine
  <2> QED BY <2>1 DEF SendLine, Begun, Is
<1>6. Due' <= Due + 1
  BY <1>3, <1>4
<1>7. Begun' + delays' + crashes' = Begun + delays + crashes + 1
  BY <1>2, <1>3, <1>5
<1> QED BY <1>1, <1>2, <1>6, <1>7, AccountKept, LateKept

\* An answer that is sent: the copy is written, or refused and still owed.
LEMMA AnswerAccounted ==
  ASSUME IndInv, IndInv', Accounted, SendRefused \/ UpdateCommitOffset
  PROVE  Accounted'
<1> USE CallValues, CallTypes, TwoClients
<1>1. TypeOK /\ TypeOK' /\ Sending
  BY DEF IndInv
<1>2. UNCHANGED <<log, late, refused, line, delays, crashes>>
  BY DEF SendRefused, UpdateCommitOffset, server, producer, bounds
<1>3. Due \in {0, 1} /\ Begun \in {0, 1} /\ delays \in Nat /\ crashes \in Nat
  BY <1>1, CountsNatural
<1>4. Due' \in {0, 1}
  BY <1>1, NextNatural
<1>5. Due' <= Due /\ Begun' = Begun
  <2>1. CASE SendRefused
    <3>1. call'["producer"] = Answer("ERROR", 0)
      BY <1>1, <2>1, CallSet DEF SendRefused
    <3>2. Due = 1 /\ Begun = 1 /\ Begun' = 1
      BY <2>1, <3>1 DEF SendRefused, Available, Due, Begun, Is
    <3> QED BY <3>2, <1>4
  <2>2. CASE UpdateCommitOffset /\ writing.live
    <3>1. call'["producer"].state = "answered" /\ call'["producer"].code = "OK"
      BY <1>1, <2>2 DEF UpdateCommitOffset, TypeOK
    <3>2. Is("producer", "sent")
      BY <1>1, <2>2 DEF Sending
    <3>3. Due' = 0 /\ Begun' = 1 /\ Begun = 1
      BY <3>1, <3>2 DEF Due, Begun, Is
    <3> QED BY <3>3, <1>3
  <2>3. CASE UpdateCommitOffset /\ ~ writing.live
    <3>1. call' = call /\ ~ writing'.live
      BY <2>3 DEF UpdateCommitOffset
    <3>2. Due' = Due /\ Begun' = Begun
      BY <2>3, <3>1 DEF Due, Begun, Is
    <3> QED BY <3>2, <1>3
  <2> QED BY <2>1, <2>2, <2>3
<1>6. Due' <= Due + 0
  BY <1>3, <1>5
<1>7. Begun' + delays' + crashes' = Begun + delays + crashes + 0
  BY <1>2, <1>3, <1>5
<1> QED BY <1>1, <1>2, <1>6, <1>7, AccountKept, LateKept

\* The producer goes on: the copy is in the log, or the line is refused.
LEMMA PrintAnswerAccounted ==
  ASSUME IndInv, IndInv', Accounted, PrintAnswer
  PROVE  Accounted'
<1> USE CallValues, CallTypes, TwoClients
<1>1. TypeOK /\ TypeOK'
  BY DEF IndInv
<1>2. UNCHANGED <<log, late, delays, crashes>> /\ line' = line + 1
  BY DEF PrintAnswer, partition, server, bounds
<1>3. /\ Len(log) \in Nat /\ LateSends \in Nat /\ Cardinality(refused) \in Nat
      /\ IsFiniteSet(refused) /\ Due \in {0, 1}
      /\ line \in Nat /\ delays \in Nat /\ crashes \in Nat
  BY <1>1, CountsNatural
<1>4. Cardinality(refused') \in Nat
  BY <1>1, NextNatural
<1>5. Begun = 1 /\ Begun' = 0 /\ Due' = 0
  <2>1. call'["producer"] = NoCall
    BY <1>1, CallSet DEF PrintAnswer
  <2> QED BY <2>1 DEF PrintAnswer, Begun, Due, Is
<1>6. Cardinality(refused') <= Cardinality(refused) + Due
  <2>1. CASE call["producer"].code = "OK"
    <3>1. refused' = refused
      BY <2>1 DEF PrintAnswer
    <3> QED BY <3>1, <1>3
  <2>2. CASE call["producer"].code # "OK"
    <3>1. refused' = refused \cup {line}
      BY <2>2 DEF PrintAnswer
    <3>2. Due = 1
      BY <2>2 DEF PrintAnswer, Due
    <3>3. \/ Cardinality(refused \cup {line}) = Cardinality(refused)
          \/ Cardinality(refused \cup {line}) = Cardinality(refused) + 1
      BY <1>3, FS_AddElement, Zenon
    <3> QED BY <3>1, <3>2, <3>3, <1>3
  <2> QED BY <2>1, <2>2
<1>7. LateSends' = LateSends /\ Len(log') = Len(log)
  BY <1>2 DEF LateSends
<1>8. PICK a \in Nat, b \in Nat, c \in Nat, d \in Nat, c2 \in Nat,
           l \in Nat, f \in Nat, g \in Nat :
      /\ a = Len(log) /\ b = LateSends /\ c = Cardinality(refused) /\ d = Due
      /\ c2 = Cardinality(refused') /\ l = line /\ f = delays /\ g = crashes
  BY <1>3, <1>4
<1>9. c2 <= c + d
  BY <1>6, <1>8
<1>10. a + b + c2 + 0 + l + 1 + f + g <= (l + 1) + 0 + f + g + a + b + c + d
  BY <1>9
<1>11. Paid
  BY <1>2, <1>5, <1>7, <1>8, <1>10 DEF Paid
<1> QED BY <1>1, <1>11, AccountBalanced

\* A copy written was owed, by the call of the producer or by one given up.
LEMMA SendMessageAccounted ==
  ASSUME IndInv, IndInv', Accounted, SendMessage
  PROVE  Accounted'
<1> USE CallValues, TwoClients
<1>1. TypeOK /\ TypeOK'
  BY DEF IndInv
<1>2. /\ UNCHANGED <<call, refused, line, delays, crashes>>
      /\ writing = Nothing /\ Len(log') = Len(log) + 1
  <2>1. log \in Seq(Line) /\ \E n : log' = Append(log, n)
    BY <1>1 DEF TypeOK, SendMessage, WriteMessage
  <2>2. Len(log') = Len(log) + 1
    BY <2>1
  <2> QED BY <2>2 DEF SendMessage, WriteMessage, Available, producer, bounds
<1>3. /\ Len(log) \in Nat /\ LateSends \in Nat /\ Cardinality(refused) \in Nat
      /\ Due \in {0, 1} /\ Begun \in {0, 1}
      /\ line \in Nat /\ delays \in Nat /\ crashes \in Nat
  BY <1>1, CountsNatural
<1>4. Due' \in {0, 1} /\ LateSends' \in Nat
  BY <1>1, NextNatural
<1>5. Begun' = Begun
  BY <1>2 DEF Begun, Is
<1>6. LateSends' + Due' + 1 = LateSends + Due
  <2>1. CASE Is("producer", "sent") /\ WriteMessage(line, TRUE) /\ UNCHANGED late
    <3>1. writing'.live
      BY <2>1 DEF WriteMessage
    <3>2. Due = 1 /\ Due' = 0
      BY <2>1, <3>1, <1>2 DEF Due, Is
    <3>3. LateSends' = LateSends
      BY <2>1 DEF LateSends
    <3> QED BY <3>2, <3>3, <1>3
  <2>2. ASSUME NEW n \in Line, late[n] > 0, late' = [late EXCEPT ![n] = @ - 1],
               WriteMessage(n, FALSE)
        PROVE  LateSends' + Due' + 1 = LateSends + Due
    <3>1. late \in [Line -> Nat] /\ late[n] \in Nat
      BY <1>1 DEF TypeOK
    <3>2. PICK h : h = late'
      OBVIOUS
    <3>3. h[n] = late[n] - 1 /\ h[n] \in Int /\ \A m \in Line \ {n} : h[m] = late[m]
      BY <2>2, <3>1, <3>2
    <3>4. IsFiniteSet(Line) /\ \A m \in Line : late[m] \in Int
      BY <3>1, LineFinite
    <3>5. SumFunctionOnSet(h, Line) = SumFunctionOnSet(late, Line) - late[n] + h[n]
      BY <3>3, <3>4, SumChange
    <3>6. LateSends' = LateSends - late[n] + (late[n] - 1)
      BY <3>2, <3>3, <3>5 DEF LateSends
    <3>7. PICK p \in Nat, q \in Nat : p = LateSends /\ q = late[n]
      BY <1>3, <3>1
    <3>8. p - q + (q - 1) = p - 1
      OBVIOUS
    <3>9. LateSends' = p - 1
      BY <3>6, <3>7, <3>8
    <3>10. ~ writing'.live /\ ~ writing.live
      BY <2>2, <1>2 DEF WriteMessage
    <3>11. Due' = Due
      BY <3>10, <1>2 DEF Due, Is
    <3>12. PICK d \in Nat : d = Due
      BY <1>3
    <3>13. p - 1 + d + 1 = p + d
      OBVIOUS
    <3> QED BY <3>7, <3>9, <3>11, <3>12, <3>13
  <2> QED BY <2>1, <2>2 DEF SendMessage
<1>7. PICK a \in Nat, b \in Nat, c \in Nat, l \in Nat, f \in Nat, g \in Nat :
      /\ a = Len(log) /\ b = LateSends /\ c = Cardinality(refused)
      /\ l = line /\ f = delays /\ g = crashes
  BY <1>3
<1>8. PICK b2 \in Nat, d \in Nat, d2 \in Nat, e \in Nat :
      b2 = LateSends' /\ d = Due /\ d2 = Due' /\ e = Begun
  BY <1>3, <1>4
<1>9. b2 + d2 + 1 = b + d
  BY <1>6, <1>7, <1>8
<1>10. (a + 1) + b2 + c + d2 + l + e + f + g <= l + e + f + g + a + b + c + d
  BY <1>9
<1>11. Paid
  BY <1>2, <1>5, <1>7, <1>8, <1>10 DEF Paid
<1> QED BY <1>1, <1>11, AccountBalanced

LEMMA StepAccounted == IndInv /\ IndInv' /\ Accounted /\ [Next]_vars => Accounted'
<1> SUFFICES ASSUME IndInv, IndInv', Accounted, [Next]_vars PROVE Accounted'
  OBVIOUS
<1>1. ASSUME NEW c \in Client, DeadlineExceeded(c) PROVE Accounted'
  BY <1>1, DeadlineAccounted
<1>2. ASSUME NEW c \in Client, ClientStep(c) PROVE Accounted'
  BY <1>2, ClientAccounted
<1>3. CASE ProducerStep
  BY <1>3, SendLineAccounted, PrintAnswerAccounted DEF ProducerStep
<1>4. CASE ConsumerStep \/ Give \/ Restart
  BY <1>4, OthersAccounted
<1>5. CASE Serve
  BY <1>5, SendMessageAccounted, AnswerAccounted DEF Serve
<1>6. CASE Crash
  BY <1>6, CrashAccounted
<1>7. CASE UNCHANGED vars
  <2>1. UNCHANGED <<log, late, writing, call, refused, line, delays, crashes>>
    BY <1>7 DEF vars, partition, server, producer, bounds
  <2> QED BY <2>1 DEF Accounted, LateSends, Due, Begun, Is
<1> QED BY <1>1, <1>2, <1>3, <1>4, <1>5, <1>6, <1>7 DEF Next, Ended

\* A call made again may write its line again (Client.cc:13-23): there are no more
\* copies in the log than lines the producer has begun and was not refused, and
\* one more for each deadline missed and each kill.
THEOREM CopiesBounded ==
  Spec => [](Len(log) + Cardinality(refused) <= line - 1 + Begun + delays + crashes)
<1>1. IndInv /\ Accounted =>
        Len(log) + Cardinality(refused) <= line - 1 + Begun + delays + crashes
  <2> SUFFICES ASSUME IndInv, Accounted
               PROVE  Len(log) + Cardinality(refused) <= line - 1 + Begun + delays + crashes
    OBVIOUS
  <2>1. /\ Len(log) \in Nat /\ LateSends \in Nat /\ Cardinality(refused) \in Nat
        /\ Due \in Nat /\ Begun \in Nat
        /\ line \in Nat /\ delays \in Nat /\ crashes \in Nat
    BY CountsNatural DEF IndInv
  <2>2. PICK a \in Nat, b \in Nat, c \in Nat, d \in Nat :
        a = Len(log) /\ b = LateSends /\ c = Cardinality(refused) /\ d = Due
    BY <2>1
  <2>3. PICK n \in Int : n = line - 1 + Begun + delays + crashes
    BY <2>1
  <2>4. a + b + c + d <= n
    BY <2>2, <2>3 DEF Accounted
  <2>5. a + c <= n
    BY <2>4
  <2> QED BY <2>2, <2>3, <2>5
<1> QED BY <1>1, InitAccounted, StepAccounted, Invariance, PTL DEF Spec

-----------------------------------------------------------------------------
(* Exactly once, when no deadline passes and nothing is killed             *)

Undisturbed == delays = 0 /\ crashes = 0

InOrder == \A i, j \in DOMAIN log : i < j => log[i] < log[j]

\* No call is given up or made again, and the line of the producer is not in the
\* log before its call has written it.
Calm ==
  Undisturbed =>
    /\ up /\ ~ Is("producer", "failed") /\ \A n \in Line : late[n] = 0
    /\ InOrder
    /\ \A i \in DOMAIN log :
         log[i] = line => \/ writing.live
                          \/ Is("producer", "answered") /\ call["producer"].code = "OK"

\* A step that takes neither the log nor the line on.
LEMMA CalmKept ==
  ASSUME TypeOK, Calm, UNCHANGED <<log, line, late, delays, crashes>>, up => up',
         Undisturbed => ~ Is("producer", "failed")',
         writing.live => \/ writing'.live
                         \/ Is("producer", "answered")' /\ call'["producer"].code = "OK",
         (Is("producer", "answered") /\ call["producer"].code = "OK") =>
           (Is("producer", "answered")' /\ call'["producer"].code = "OK")
  PROVE  Calm'
<1> SUFFICES ASSUME Undisturbed'
             PROVE  /\ up' /\ ~ Is("producer", "failed")' /\ \A n \in Line : late'[n] = 0
                    /\ InOrder'
                    /\ \A i \in DOMAIN log' :
                         log'[i] = line' =>
                           \/ writing'.live
                           \/ Is("producer", "answered")' /\ call'["producer"].code = "OK"
  BY DEF Calm
<1>1. Undisturbed
  BY DEF Undisturbed
<1>2. up' /\ ~ Is("producer", "failed")' /\ \A n \in Line : late'[n] = 0
  BY <1>1 DEF Calm
<1>3. InOrder'
  BY <1>1 DEF Calm, InOrder
<1>4. \A i \in DOMAIN log' :
        log'[i] = line' => \/ writing'.live
                           \/ Is("producer", "answered")' /\ call'["producer"].code = "OK"
  BY <1>1 DEF Calm
<1> QED BY <1>2, <1>3, <1>4

LEMMA WriteCalm ==
  ASSUME IndInv, Calm, SendMessage
  PROVE  Calm'
<1> USE CallValues, TwoClients
<1>1. TypeOK /\ Ordered
  BY DEF IndInv
<1> SUFFICES ASSUME Undisturbed' PROVE Calm'
  BY DEF Calm
<1>2. UNCHANGED <<up, call, line, delays, crashes>> /\ writing = Nothing
  BY DEF SendMessage, WriteMessage, Available, producer, bounds
<1>3. /\ Undisturbed /\ up /\ ~ Is("producer", "failed") /\ \A n \in Line : late[n] = 0
      /\ InOrder
  BY <1>2 DEF Undisturbed, Calm
<1>4. Is("producer", "sent") /\ WriteMessage(line, TRUE) /\ UNCHANGED late
  <2>1. ~ \E n \in Line : late[n] > 0
    BY <1>3
  <2> QED BY <2>1 DEF SendMessage
<1>5. /\ log' = Append(log, line) /\ writing'.live
  BY <1>4 DEF WriteMessage
<1>6. /\ log \in Seq(Line) /\ DOMAIN log = 1 .. Len(log) /\ Len(log) \in Nat /\ line \in Int
  <2>1. log \in Seq(Line) /\ line \in 1 .. Lines + 1
    BY <1>1 DEF TypeOK
  <2> QED BY <2>1
<1>7. \A i \in DOMAIN log : log[i] \in Int /\ log[i] < line
  <2> SUFFICES ASSUME NEW i \in DOMAIN log PROVE log[i] \in Int /\ log[i] < line
    OBVIOUS
  <2>1. log[i] \in Int
    BY <1>6, LinesNat DEF Line
  <2>2. log[i] <= line
    BY <1>1 DEF Ordered
  <2>3. log[i] # line
    BY <1>2, <1>3, <1>4 DEF Calm, Is
  <2> QED BY <2>1, <2>2, <2>3, <1>6
<1>8. /\ DOMAIN log' = 1 .. Len(log) + 1 /\ log'[Len(log) + 1] = line
      /\ \A i \in DOMAIN log : log'[i] = log[i]
  BY <1>5, <1>6
<1>9. InOrder'
  <2> SUFFICES ASSUME NEW i \in DOMAIN log', NEW j \in DOMAIN log', i < j
               PROVE  log'[i] < log'[j]
    BY DEF InOrder
  <2>1. i \in DOMAIN log
    BY <1>6, <1>8
  <2>2. CASE j \in DOMAIN log
    BY <2>1, <2>2, <1>3, <1>8 DEF InOrder
  <2>3. CASE j = Len(log) + 1
    BY <2>1, <2>3, <1>7, <1>8
  <2> QED BY <2>2, <2>3, <1>6, <1>8
<1>10. up' /\ ~ Is("producer", "failed")' /\ \A n \in Line : late'[n] = 0
  BY <1>2, <1>3, <1>4 DEF Is
<1> QED BY <1>5, <1>9, <1>10 DEF Calm

LEMMA PrintCalm ==
  ASSUME IndInv, Calm, PrintAnswer
  PROVE  Calm'
<1> USE CallValues, CallTypes, TwoClients
<1>1. TypeOK /\ Ordered
  BY DEF IndInv
<1> SUFFICES ASSUME Undisturbed' PROVE Calm'
  BY DEF Calm
<1>2. UNCHANGED <<log, up, late, delays, crashes>> /\ line' = line + 1
  BY DEF PrintAnswer, partition, server, bounds
<1>3. /\ up /\ \A n \in Line : late[n] = 0
      /\ InOrder
  BY <1>2 DEF Undisturbed, Calm
<1>4. ~ Is("producer", "failed")'
  BY <1>1, CallSet DEF PrintAnswer, Is
<1>5. \A i \in DOMAIN log : log[i] # line + 1
  <2>1. log \in Seq(Line) /\ line \in 1 .. Lines + 1
    BY <1>1 DEF TypeOK
  <2>2. \A i \in DOMAIN log : log[i] \in Int /\ log[i] <= line
    BY <2>1, <1>1, LinesNat DEF Ordered, Line
  <2> QED BY <2>1, <2>2, LinesNat
<1>6. InOrder'
  BY <1>2, <1>3 DEF InOrder
<1> QED BY <1>2, <1>3, <1>4, <1>5, <1>6 DEF Calm

LEMMA StepCalm == IndInv /\ Calm /\ [Next]_vars => Calm'
<1> SUFFICES ASSUME IndInv, Calm, [Next]_vars PROVE Calm'
  OBVIOUS
<1> USE CallValues, CallTypes, TwoClients
<1>1. TypeOK /\ Sending
  BY DEF IndInv
<1>2. delays \in Nat /\ crashes \in Nat
  BY <1>1, CountsNatural
<1>3. ASSUME NEW c \in Client, DeadlineExceeded(c) PROVE Calm'
  <2>1. delays' # 0
    BY <1>2, <1>3 DEF DeadlineExceeded
  <2> QED BY <2>1 DEF Calm, Undisturbed
<1>4. CASE Crash
  <2>1. crashes' # 0
    BY <1>2, <1>4 DEF Crash
  <2> QED BY <2>1 DEF Calm, Undisturbed
<1>5. ASSUME NEW c \in Client, ClientStep(c) PROVE Calm'
  <2>1. UNCHANGED <<log, up, line, late, writing, delays, crashes>>
    BY <1>5 DEF ClientStep, ConnectionLost, Reconnect, partition, server, producer, bounds
  <2>2. Undisturbed => c = "consumer"
    <3>1. Undisturbed => up /\ ~ Is("producer", "failed")
      BY DEF Calm
    <3> QED BY <3>1, <1>5 DEF ClientStep, ConnectionLost, Reconnect
  <2>3. (\E v : Set(c, v)) /\ ~ Is(c, "answered")
    BY <1>5 DEF ClientStep, ConnectionLost, Reconnect, Is
  <2>4. \A d \in Client : d # c => call'[d] = call[d]
    BY <2>3, <1>1 DEF Set, TypeOK
  <2>5. CASE c = "consumer"
    BY <2>1, <2>4, <2>5, <1>1, CalmKept DEF Is, Calm
  <2>6. CASE ~ Undisturbed
    BY <2>1, <2>6 DEF Calm, Undisturbed
  <2> QED BY <2>2, <2>5, <2>6
<1>6. CASE SendLine
  <2>1. UNCHANGED <<log, up, line, late, writing, delays, crashes>>
    BY <1>6 DEF SendLine, partition, server, producer, bounds
  <2>2. call'["producer"] = Sent
    BY <1>1, <1>6, CallSet DEF SendLine
  <2> QED BY <2>1, <2>2, <1>1, <1>6, CalmKept DEF SendLine, Is
<1>7. CASE ConsumerStep \/ Give \/ Restart
  <2>1. /\ UNCHANGED <<log, line, late, writing, delays, crashes>> /\ (up => up')
        /\ call'["producer"] = call["producer"]
    BY <1>1, <1>7, ProducerLeft
  <2>2. Undisturbed => ~ Is("producer", "failed")'
    BY <2>1 DEF Calm, Is
  <2> QED BY <2>1, <2>2, <1>1, CalmKept DEF Is
<1>8. CASE SendRefused
  <2>1. UNCHANGED <<log, up, line, late, writing, delays, crashes>> /\ writing = Nothing
    BY <1>8 DEF SendRefused, Available, server, producer, bounds
  <2>2. call'["producer"].state = "answered"
    BY <1>1, <1>8, CallSet DEF SendRefused
  <2> QED BY <2>1, <2>2, <1>1, <1>8, CalmKept DEF SendRefused, Is
<1>9. CASE UpdateCommitOffset
  <2>1. UNCHANGED <<log, up, line, late, delays, crashes>>
    BY <1>9 DEF UpdateCommitOffset, producer, bounds
  <2>2. CASE writing.live
    <3>1. call'["producer"].state = "answered" /\ call'["producer"].code = "OK"
      <4>1. call' = [call EXCEPT !["producer"] = Answer("OK", Len(log) - 1)]
        BY <1>9, <2>2 DEF UpdateCommitOffset
      <4>2. "producer" \in DOMAIN call
        BY <1>1 DEF TypeOK
      <4>3. call'["producer"] = Answer("OK", Len(log) - 1)
        BY <4>1, <4>2
      <4> QED BY <4>3
    <3> QED BY <2>1, <3>1, <1>1, CalmKept DEF Is
  <2>3. CASE ~ writing.live
    <3>1. call' = call
      BY <1>9, <2>3 DEF UpdateCommitOffset
    <3> QED BY <2>1, <2>3, <3>1, <1>1, CalmKept DEF Is, Calm
  <2> QED BY <2>2, <2>3
<1>10. CASE UNCHANGED vars
  <2>1. UNCHANGED <<log, up, late, writing, call, line, delays, crashes>>
    BY <1>10 DEF vars, partition, server, producer, bounds
  <2> QED BY <2>1, <1>1, CalmKept DEF Is, Calm
<1>11. CASE SendMessage
  BY <1>11, WriteCalm
<1>12. CASE PrintAnswer
  BY <1>12, PrintCalm
<1> QED BY <1>3, <1>4, <1>5, <1>6, <1>7, <1>8, <1>9, <1>10, <1>11, <1>12
     DEF Next, Ended, ProducerStep, Serve

\* As long as no deadline has passed and the server was not killed, the log holds
\* every line the producer has left behind and was not refused, once, and in the
\* order it sent them (main-producer.cc:46-63).
THEOREM ExactlyOnce ==
  Spec => [](Undisturbed => InOrder /\ \A n \in Passed : Written(n))
<1>1. Init => Calm
  BY CallValues, TwoClients DEF Init, Calm, InOrder, Is
<1>2. IndInv /\ Calm => (Undisturbed => InOrder /\ \A n \in Passed : Written(n))
  <2> SUFFICES ASSUME IndInv, NEW n \in Passed PROVE Written(n)
    BY DEF Calm
  <2>1. /\ log \in Seq(Line) /\ commit \in -1 .. Len(log) - 1
        /\ told \in [DOMAIN told -> Nat]
    BY DEF IndInv, TypeOK
  <2>2. n \in DOMAIN told /\ told[n] <= commit /\ log[told[n] + 1] = n
    BY DEF IndInv, Behind, Passed
  <2>3. told[n] + 1 \in DOMAIN log
    BY <2>1, <2>2
  <2> QED BY <2>2, <2>3 DEF Written
<1> QED BY <1>1, <1>2, StepCalm, Invariance, PTL DEF Spec

=============================================================================
