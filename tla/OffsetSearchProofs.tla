------------------------- MODULE OffsetSearchProofs -------------------------
(***************************************************************************)
(* The binary search is correct for tables of any length and any target,   *)
(* present or not.                                                         *)
(***************************************************************************)
EXTENDS OffsetSearch, TLAPS

LEMMA HalfBetween ==
  ASSUME NEW b \in Nat, NEW e \in Int, b <= e
  PROVE  Half(b + e) \in b .. e
  BY DEF Half

LEMMA InitInv == Init => SearchInv
<1>. SUFFICES ASSUME Init PROVE SearchInv
  OBVIOUS
<1>1. table \in Seq(Nat) /\ Ascending(table) /\ target \in Int
  BY TablesAscending, TargetsInt DEF Init
<1>2. Len(table) \in Nat /\ begin = 0 /\ end = Len(table) - 1
      /\ found = -1 /\ probed = -1 /\ pos = Half(begin + end)
  BY <1>1 DEF Init
<1>3. 0 .. begin - 1 = {} /\ end + 1 .. Len(table) - 1 = {}
  BY <1>2
<1>. QED BY <1>1, <1>2, <1>3 DEF SearchInv

\* The position probed is inside the range, and the range inside the table.
LEMMA Inside ==
  ASSUME SearchInv, Searching
  PROVE  /\ pos \in begin .. end /\ pos \in 0 .. Len(table) - 1
         /\ Key(pos) \in Nat
<1>1. /\ Len(table) \in Nat /\ begin \in 0 .. Len(table)
      /\ end \in -1 .. Len(table) - 1 /\ begin <= end
      /\ pos = Half(begin + end) /\ table \in Seq(Nat)
  BY DEF SearchInv, Searching
<1>2. pos \in begin .. end
  <2>1. begin \in Nat /\ end \in Int /\ begin <= end
    BY <1>1
  <2>2. Half(begin + end) \in begin .. end
    BY <2>1, HalfBetween
  <2>. QED BY <1>1, <2>2
<1>3. pos + 1 \in 1 .. Len(table) /\ pos \in 0 .. Len(table) - 1
  BY <1>1, <1>2
<1>. QED BY SMTT(40), <1>1, <1>2, <1>3 DEF Key

\* Keys ascend with positions.
LEMMA KeysAscend ==
  ASSUME SearchInv, NEW i \in 0 .. Len(table) - 1, NEW j \in 0 .. Len(table) - 1,
         i < j
  PROVE  Key(i) \in Nat /\ Key(j) \in Nat /\ Key(i) < Key(j)
<1>1. table \in Seq(Nat) /\ Ascending(table)
  BY DEF SearchInv
<1>2. Len(table) \in Nat /\ DOMAIN table = 1 .. Len(table)
  BY <1>1
<1>3. i + 1 \in DOMAIN table /\ j + 1 \in DOMAIN table /\ i + 1 < j + 1
  BY <1>2
<1>4. table[i + 1] \in Nat /\ table[j + 1] \in Nat /\ table[i + 1] < table[j + 1]
  BY <1>1, <1>3 DEF Ascending
<1>. QED BY <1>4 DEF Key

LEMMA ProbeInv == SearchInv /\ Probe => SearchInv'
<1>. SUFFICES ASSUME SearchInv, Probe PROVE SearchInv'
  OBVIOUS
<1>1. /\ table' = table /\ target' = target /\ probed' = Key(pos)
      /\ pos' = Half(begin' + end') /\ Searching
  BY DEF Probe
<1>2. /\ pos \in begin .. end /\ pos \in 0 .. Len(table) - 1 /\ Key(pos) \in Nat
  BY <1>1, Inside
<1>3. /\ table \in Seq(Nat) /\ Ascending(table) /\ target \in Int
      /\ Len(table) \in Nat /\ begin \in 0 .. Len(table)
      /\ end \in -1 .. Len(table) - 1 /\ found = begin - 1
      /\ \A i \in 0 .. begin - 1 : Key(i) <= target
      /\ \A i \in end + 1 .. Len(table) - 1 : Key(i) > target
      /\ found >= 0 /\ Key(found) = target => probed = target
      /\ begin <= end /\ probed # target
  BY <1>1 DEF SearchInv, Searching
<1>4. CASE TooHigh
  <2>1. Key(pos) > target /\ end' = pos - 1 /\ begin' = begin /\ found' = found
    BY <1>4 DEF TooHigh
  <2>2. ASSUME NEW i \in pos .. Len(table) - 1 PROVE Key(i) > target
    <3>1. i = pos \/ (i \in 0 .. Len(table) - 1 /\ pos < i)
      BY <1>2, <1>3
    <3>. QED BY SMTT(40), <1>2, <1>3, <2>1, <3>1, KeysAscend
  <2>3. \A i \in end' + 1 .. Len(table') - 1 : Key(i)' > target'
    BY <1>1, <1>2, <2>1, <2>2 DEF Key
  <2>4. \A i \in 0 .. begin' - 1 : Key(i)' <= target'
    BY <1>1, <1>3, <2>1 DEF Key
  <2>5. /\ begin' \in 0 .. Len(table') /\ end' \in -1 .. Len(table') - 1
        /\ begin' <= end' + 1 /\ found' = begin' - 1
    BY <1>1, <1>2, <1>3, <2>1
  <2>6. probed' \in Nat /\ ~ (probed' <= target')
    BY <1>1, <1>2, <1>3, <2>1
  <2>7. ~ (found' >= 0 /\ Key(found)' = target')
    BY <1>1, <1>3, <2>1 DEF Key
  <2>. QED BY <1>1, <1>3, <2>3, <2>4, <2>5, <2>6, <2>7 DEF SearchInv
<1>5. CASE NotTooHigh
  <2>1. Key(pos) <= target /\ found' = pos /\ begin' = pos + 1 /\ end' = end
    BY <1>5 DEF NotTooHigh
  <2>2. ASSUME NEW i \in 0 .. pos PROVE Key(i) <= target
    <3>1. i = pos \/ (i \in 0 .. Len(table) - 1 /\ i < pos)
      BY <1>2, <1>3
    <3>. QED BY SMTT(40), <1>2, <1>3, <2>1, <3>1, KeysAscend
  <2>3. \A i \in 0 .. begin' - 1 : Key(i)' <= target'
    BY <1>1, <1>2, <2>1, <2>2 DEF Key
  <2>4. \A i \in end' + 1 .. Len(table') - 1 : Key(i)' > target'
    BY <1>1, <1>3, <2>1 DEF Key
  <2>5. found' >= 0 /\ Key(found)' = probed'
    BY <1>1, <1>2, <2>1 DEF Key
  <2>6. /\ begin' \in 0 .. Len(table') /\ end' \in -1 .. Len(table') - 1
        /\ begin' <= end' + 1 /\ found' = begin' - 1
    BY <1>1, <1>2, <1>3, <2>1
  <2>7. probed' \in Nat
    BY <1>1, <1>2
  <2>. QED BY <1>1, <1>3, <2>3, <2>4, <2>5, <2>6, <2>7 DEF SearchInv
<1>. QED BY <1>4, <1>5 DEF Probe

LEMMA StepInv == SearchInv /\ [Next]_vars => SearchInv'
<1>. SUFFICES ASSUME SearchInv, [Next]_vars PROVE SearchInv'
  OBVIOUS
<1>1. CASE Probe
  BY <1>1, ProbeInv
<1>2. CASE UNCHANGED vars
  BY <1>2 DEF vars, SearchInv, Key
<1>. QED BY <1>1, <1>2 DEF Next, Return

\* The range never excludes the answer.
THEOREM SearchInvariant == Spec => []SearchInv
<1>. QED BY InitInv, StepInv, PTL DEF Spec

\* The index and the list are read inside their bounds, for any length.
THEOREM SearchInside == Spec => []ProbesInside
<1>1. SearchInv => ProbesInside
  BY Inside DEF ProbesInside
<1>. QED BY <1>1, SearchInvariant, PTL

\* When the loop ends its answer is right, for every ascending table and target.
THEOREM SearchCorrect == Spec => []FindsLast
<1>1. SearchInv => FindsLast
  <2>. SUFFICES ASSUME SearchInv, ~ Searching
                PROVE  /\ Below = 0 .. found
                       /\ EntryFound = {i \in 0 .. Len(table) - 1 : Key(i) = target}
    BY DEF FindsLast
  <2>1. /\ table \in Seq(Nat) /\ target \in Int /\ Len(table) \in Nat
        /\ begin \in 0 .. Len(table) /\ end \in -1 .. Len(table) - 1
        /\ begin <= end + 1 /\ found = begin - 1
        /\ \A i \in 0 .. begin - 1 : Key(i) <= target
        /\ \A i \in end + 1 .. Len(table) - 1 : Key(i) > target
        /\ probed = -1 \/ (probed \in Nat /\ (probed <= target => found >= 0 /\ Key(found) = probed))
        /\ found >= 0 /\ Key(found) = target => probed = target
    BY DEF SearchInv
  <2>2. ASSUME NEW i \in 0 .. Len(table) - 1 PROVE Key(i) \in Nat
    <3>1. i + 1 \in DOMAIN table
      BY <2>1, <2>2
    <3>. QED BY <2>1, <3>1 DEF Key
  <2>3. ASSUME NEW i \in 0 .. Len(table) - 1, i > found PROVE Key(i) > target
    <3>1. CASE probed = target /\ target >= 0
      <4>1. found \in 0 .. Len(table) - 1 /\ Key(found) = target
        BY <2>1, <3>1
      <4>. QED BY <2>3, <4>1, KeysAscend
    <3>2. CASE target < 0
      BY <2>1, <2>2, <3>2
    <3>3. CASE probed # target
      BY <2>1, <2>3, <3>3 DEF Searching
    <3>. QED BY <2>1, <3>1, <3>2, <3>3
  <2>4. Below = 0 .. found
    <3>1. ASSUME NEW i \in 0 .. Len(table) - 1
          PROVE  Key(i) <= target <=> i \in 0 .. found
      <4>1. CASE i <= found
        BY <2>1, <4>1
      <4>2. CASE i > found
        BY <2>1, <2>2, <2>3, <4>2
      <4>. QED BY <2>1, <4>1, <4>2
    <3>2. 0 .. found \subseteq 0 .. Len(table) - 1
      BY <2>1
    <3>. QED BY <3>1, <3>2 DEF Below
  <2>5. ASSUME NEW i \in 0 .. Len(table) - 1, Key(i) = target
        PROVE  i = found /\ probed = target /\ target >= 0
    <3>1. i <= found /\ found \in 0 .. Len(table) - 1 /\ Key(found) <= target
      BY <2>1, <2>2, <2>3, <2>5
    <3>2. i = found
      BY <2>2, <2>5, <3>1, KeysAscend
    <3>. QED BY <2>1, <2>2, <2>5, <3>1, <3>2
  <2>6. probed = target /\ target >= 0 => found \in 0 .. Len(table) - 1 /\ Key(found) = target
    BY <2>1
  <2>. QED BY <2>4, <2>5, <2>6 DEF EntryFound
<1>. QED BY <1>1, SearchInvariant, PTL

\* The positions left to look at.
Left == end - begin + 1

SearchHalves == [][Left > 0 /\ 2 * Left' \in 0 .. Left]_vars

\* Each probe leaves at most half of the range, rounded down: both loops end after
\* as many reads as the length of the table has binary digits, and never go on with
\* the range they had (Partition.cc:270-281, Segment.cc:264-281).
THEOREM SearchEnds == Spec => SearchHalves
<1>1. SearchInv /\ [Next]_vars => [Left > 0 /\ 2 * Left' \in 0 .. Left]_vars
  <2>. SUFFICES ASSUME SearchInv, Probe
                PROVE  Left > 0 /\ 2 * Left' \in 0 .. Left
    BY DEF Next, Return
  <2>1. begin \in Nat /\ end \in Int /\ begin <= end /\ pos = Half(begin + end)
    BY DEF Probe, Searching, SearchInv
  <2>2. pos = (begin + end) \div 2 /\ pos \in begin .. end
    BY <2>1, HalfBetween DEF Half
  <2>3. CASE TooHigh
    BY <2>1, <2>2, <2>3 DEF TooHigh, Left
  <2>4. CASE NotTooHigh
    BY <2>1, <2>2, <2>4 DEF NotTooHigh, Left
  <2>. QED BY <2>3, <2>4 DEF Probe
<1>. QED BY <1>1, SearchInvariant, PTL DEF Spec, SearchHalves

=============================================================================
