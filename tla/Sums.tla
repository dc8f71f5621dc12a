-------------------------------- MODULE Sums --------------------------------
(***************************************************************************)
(* Least elements, and what SumFunctionOnSet of the community modules does *)
(* when an element is added, removed or changed.  The theorems of the      *)
(* library about induction take an operator as a parameter; here induction *)
(* goes by the least counterexample, a set.                                *)
(***************************************************************************)
EXTENDS Integers, FiniteSets, Functions, FiniteSetTheorems, WellFoundedInduction,
        TLAPS

LessNat == {p \in Nat \X Nat : p[1] < p[2]}

LEMMA LeastNatural ==
  ASSUME NEW T, T \subseteq Nat, T # {}
  PROVE  \E n \in T : \A m \in T : n <= m
<1>1. IsWellFoundedOn(LessNat, Nat)
  BY NatLessThanWellFounded DEF OpToRel, LessNat
<1>2. PICK n \in T : \A m \in T : ~ (<<m, n>> \in LessNat)
  BY <1>1, WFMin
<1>3. ASSUME NEW m \in T PROVE n <= m
  <2>1. m \in Nat /\ n \in Nat
    OBVIOUS
  <2>2. <<m, n>> \in LessNat <=> m < n
    BY <2>1 DEF LessNat
  <2> QED BY <2>1, <2>2, <1>2
<1> QED BY <1>3

\* In a set of finite sets there is one from which nothing can be taken away.
LEMMA SmallestSet ==
  ASSUME NEW S, IsFiniteSet(S), NEW B, B \subseteq SUBSET S, B # {}
  PROVE  \E s \in B : \A x \in s : s \ {x} \notin B
<1> DEFINE N == {Cardinality(s) : s \in B}
<1>1. \A s \in B : IsFiniteSet(s) /\ Cardinality(s) \in Nat
  BY FS_Subset, FS_CardinalityType
<1>2. N \subseteq Nat /\ N # {}
  BY <1>1
<1>3. PICK n \in N : \A m \in N : n <= m
  BY <1>2, LeastNatural
<1>4. PICK s \in B : Cardinality(s) = n
  OBVIOUS
<1>5. ASSUME NEW x \in s, s \ {x} \in B PROVE FALSE
  <2>1. Cardinality(s \ {x}) = n - 1
    BY <1>1, <1>4, FS_RemoveElement
  <2>2. n - 1 \in N
    BY <2>1, <1>5
  <2>3. n \in Nat /\ n <= n - 1
    BY <1>2, <1>3, <2>2
  <2> QED BY <2>3
<1> QED BY <1>4, <1>5

\* A function on a finite set takes its greatest value somewhere.
LEMMA GreatestValue ==
  ASSUME NEW S, IsFiniteSet(S), S # {}, NEW f, \A x \in S : f[x] \in Nat
  PROVE  \E x \in S : \A y \in S : f[y] <= f[x]
<1> DEFINE Bad == {s \in SUBSET S : s # {} /\ \A x \in s : \E y \in s : ~ (f[y] <= f[x])}
<1> SUFFICES ASSUME Bad # {} PROVE FALSE
  OBVIOUS
<1>1. PICK s \in Bad : \A x \in s : s \ {x} \notin Bad
  BY SmallestSet
<1>2. PICK x \in s : TRUE
  OBVIOUS
<1>3. PICK y \in s : ~ (f[y] <= f[x])
  OBVIOUS
<1>4. x # y /\ s \ {x} # {} /\ s \ {x} \in SUBSET S
  BY <1>3
<1>5. PICK m \in s \ {x} : \A z \in s \ {x} : f[z] <= f[m]
  BY <1>1, <1>4
<1>6. \A z \in s : f[z] <= f[m]
  BY <1>3, <1>5
<1> QED BY <1>5, <1>6

-----------------------------------------------------------------------------
(* The recursive function inside SumFunctionOnSet                          *)

Pick(s) == CHOOSE x \in s : TRUE

Turn(f, g, s) == IF s = {} THEN 0 ELSE f[Pick(s)] + g[s \ {Pick(s)}]

IsSummer(f, S, g) == g = [s \in SUBSET S |-> Turn(f, g, s)]

LEMMA SummerExists ==
  ASSUME NEW f, NEW S, IsFiniteSet(S)
  PROVE  \E g : IsSummer(f, S, g)
<1> DEFINE UpTo(g, n) == \A s \in SUBSET S : Cardinality(s) <= n => g[s] = Turn(f, g, s)
           Q(n) == \E g : g = [s \in SUBSET S |-> g[s]] /\ UpTo(g, n)
           Bad == {n \in Nat : ~ Q(n)}
<1>1. \A s \in SUBSET S : IsFiniteSet(s) /\ Cardinality(s) \in Nat
  BY FS_Subset, FS_CardinalityType
<1>2. \A s \in SUBSET S : s # {} => /\ Pick(s) \in s /\ s \ {Pick(s)} \in SUBSET S
                                   /\ Cardinality(s \ {Pick(s)}) = Cardinality(s) - 1
  <2> SUFFICES ASSUME NEW s \in SUBSET S, s # {}
               PROVE  /\ Pick(s) \in s /\ s \ {Pick(s)} \in SUBSET S
                      /\ Cardinality(s \ {Pick(s)}) = Cardinality(s) - 1
    OBVIOUS
  <2>1. Pick(s) \in s
    BY DEF Pick
  <2> QED BY <2>1, <1>1, FS_RemoveElement
<1>3. Q(0)
  <2> DEFINE g == [s \in SUBSET S |-> 0]
  <2>1. \A s \in SUBSET S : Cardinality(s) <= 0 => s = {}
    BY <1>1, FS_EmptySet
  <2>2. UpTo(g, 0)
    BY <2>1 DEF Turn
  <2>3. g = [s \in SUBSET S |-> g[s]]
    OBVIOUS
  <2> QED BY <2>2, <2>3
<1>4. ASSUME NEW n \in Nat, Q(n) PROVE Q(n + 1)
  <2>1. PICK g : UpTo(g, n)
    BY <1>4
  <2> DEFINE h == [s \in SUBSET S |-> Turn(f, g, s)]
  <2>2. \A s \in SUBSET S : Cardinality(s) <= n => h[s] = g[s]
    BY <2>1
  <2>3. ASSUME NEW s \in SUBSET S, Cardinality(s) <= n + 1 PROVE h[s] = Turn(f, h, s)
    <3>1. h[s] = Turn(f, g, s)
      OBVIOUS
    <3> HIDE DEF h
    <3>2. CASE s = {}
      BY <3>1, <3>2 DEF Turn
    <3>3. CASE s # {}
      <4>1. h[s \ {Pick(s)}] = g[s \ {Pick(s)}]
        BY <1>1, <1>2, <2>2, <2>3, <3>3
      <4> QED BY <3>1, <3>3, <4>1 DEF Turn
    <3> QED BY <3>2, <3>3
  <2>4. h = [s \in SUBSET S |-> h[s]]
    OBVIOUS
  <2> HIDE DEF h
  <2> QED BY <2>3, <2>4
<1> HIDE DEF Q
<1>5. Bad = {}
  <2> SUFFICES ASSUME Bad # {} PROVE FALSE
    OBVIOUS
  <2>1. PICK n \in Bad : \A m \in Bad : n <= m
    BY LeastNatural
  <2>2. n # 0 /\ n \in Nat
    BY <1>3
  <2>3. n - 1 \in Nat /\ n - 1 \notin Bad /\ (n - 1) + 1 = n
    BY <2>1, <2>2
  <2> QED BY <2>3, <1>4
<1>6. Q(Cardinality(S))
  BY <1>1, <1>5
<1>7. PICK g : g = [s \in SUBSET S |-> g[s]] /\ UpTo(g, Cardinality(S))
  BY <1>6 DEF Q
<1>8. \A s \in SUBSET S : g[s] = Turn(f, g, s)
  BY <1>7, FS_Subset
<1>9. g = [s \in SUBSET S |-> Turn(f, g, s)]
  BY <1>7, <1>8
<1> QED BY <1>9 DEF IsSummer

LEMMA SumIsSummer ==
  ASSUME NEW f, NEW S, IsFiniteSet(S)
  PROVE  \E g : IsSummer(f, S, g) /\ SumFunctionOnSet(f, S) = g[S]
<1> DEFINE g == CHOOSE g : IsSummer(f, S, g)
<1>1. IsSummer(f, S, g)
  BY SummerExists
<1>2. SumFunctionOnSet(f, S) = g[S]
  BY DEF SumFunctionOnSet, FoldFunctionOnSet, MapThenFoldSet, IsSummer, Turn, Pick
<1> QED BY <1>1, <1>2

LEMMA SummerTurns ==
  ASSUME NEW f, NEW S, NEW g, IsSummer(f, S, g), NEW s \in SUBSET S
  PROVE  g[s] = Turn(f, g, s)
BY DEF IsSummer

LEMMA SummerInt ==
  ASSUME NEW f, NEW S, IsFiniteSet(S), \A x \in S : f[x] \in Int,
         NEW g, IsSummer(f, S, g)
  PROVE  \A s \in SUBSET S : g[s] \in Int
<1> DEFINE Bad == {s \in SUBSET S : g[s] \notin Int}
<1> SUFFICES ASSUME Bad # {} PROVE FALSE
  OBVIOUS
<1>1. PICK s \in Bad : \A x \in s : s \ {x} \notin Bad
  BY SmallestSet
<1>4. s \in SUBSET S /\ g[s] = Turn(f, g, s)
  BY SummerTurns
<1>2. CASE s = {}
  <2>1. g[s] = 0
    BY <1>2, <1>4 DEF Turn
  <2> QED BY <2>1
<1>3. CASE s # {}
  <2>1. Pick(s) \in s /\ f[Pick(s)] \in Int
    BY <1>3 DEF Pick
  <2>2. g[s] = f[Pick(s)] + g[s \ {Pick(s)}]
    BY <1>3, <1>4 DEF Turn
  <2>3. g[s \ {Pick(s)}] \in Int
    BY <1>1, <2>1
  <2> QED BY <2>1, <2>2, <2>3
<1> QED BY <1>2, <1>3

\* An element of a set may be taken first, whichever Pick chooses.
LEMMA SummerAnyFirst ==
  ASSUME NEW f, NEW S, IsFiniteSet(S), \A x \in S : f[x] \in Int,
         NEW g, IsSummer(f, S, g)
  PROVE  \A s \in SUBSET S : \A x \in s : g[s] = f[x] + g[s \ {x}]
<1> DEFINE Bad == {s \in SUBSET S : \E x \in s : g[s] # f[x] + g[s \ {x}]}
<1> SUFFICES ASSUME Bad # {} PROVE FALSE
  OBVIOUS
<1>1. PICK s \in Bad : \A x \in s : s \ {x} \notin Bad
  BY SmallestSet
<1>2. PICK x \in s : g[s] # f[x] + g[s \ {x}]
  OBVIOUS
<1>3. \A y, z \in s : y # z => g[s \ {y}] = f[z] + g[(s \ {y}) \ {z}]
  <2> SUFFICES ASSUME NEW y \in s, NEW z \in s, y # z
               PROVE  g[s \ {y}] = f[z] + g[(s \ {y}) \ {z}]
    OBVIOUS
  <2>1. s \ {y} \in SUBSET S /\ z \in s \ {y}
    OBVIOUS
  <2> QED BY <2>1, <1>1
<1> DEFINE p == Pick(s)
<1>4. p \in s
  BY DEF Pick
<1>5. g[s] = f[p] + g[s \ {p}]
  <2>1. s \in SUBSET S /\ s # {} /\ g[s] = Turn(f, g, s)
    BY SummerTurns
  <2> QED BY <2>1 DEF Turn
<1> HIDE DEF p
<1>6. x # p
  BY <1>2, <1>5
<1> DEFINE r == (s \ {p}) \ {x}
<1>7. (s \ {x}) \ {p} = r /\ r \in SUBSET S
  OBVIOUS
<1> HIDE DEF r
<1>8. g[s \ {p}] = f[x] + g[r] /\ g[s \ {x}] = f[p] + g[r]
  BY <1>3, <1>4, <1>6, <1>7 DEF r
<1>9. g[r] \in Int /\ f[x] \in Int /\ f[p] \in Int
  BY <1>4, <1>7, SummerInt
<1> QED BY <1>2, <1>5, <1>8, <1>9

\* Where two functions agree their sums do.
LEMMA SummersAgree ==
  ASSUME NEW f, NEW h, NEW S, NEW T, IsFiniteSet(S),
         NEW g, IsSummer(f, S, g), NEW k, IsSummer(h, T, k)
  PROVE  \A s \in SUBSET S : s \subseteq T /\ (\A x \in s : f[x] = h[x]) => g[s] = k[s]
<1> DEFINE Bad == {s \in SUBSET S : s \subseteq T /\ (\A x \in s : f[x] = h[x]) /\ g[s] # k[s]}
<1> SUFFICES ASSUME Bad # {} PROVE FALSE
  OBVIOUS
<1>1. PICK s \in Bad : \A x \in s : s \ {x} \notin Bad
  BY SmallestSet
<1>4. /\ s \in SUBSET S /\ s \in SUBSET T
      /\ g[s] = Turn(f, g, s) /\ k[s] = Turn(h, k, s)
  BY SummerTurns
<1>2. CASE s = {}
  <2>1. g[s] = 0 /\ k[s] = 0
    BY <1>2, <1>4 DEF Turn
  <2> QED BY <2>1
<1>3. CASE s # {}
  <2> DEFINE p == Pick(s)
  <2>1. p \in s
    BY <1>3 DEF Pick
  <2>2. g[s] = f[p] + g[s \ {p}] /\ k[s] = h[p] + k[s \ {p}]
    BY <1>3, <1>4 DEF Turn
  <2> HIDE DEF p
  <2>3. g[s \ {p}] = k[s \ {p}]
    BY <1>1, <2>1
  <2> QED BY <2>1, <2>2, <2>3
<1> QED BY <1>2, <1>3

-----------------------------------------------------------------------------
(* The sum                                                                 *)

LEMMA SumEmpty == ASSUME NEW f PROVE SumFunctionOnSet(f, {}) = 0
<1>1. PICK g : IsSummer(f, {}, g) /\ SumFunctionOnSet(f, {}) = g[{}]
  BY SumIsSummer, FS_EmptySet
<1> QED BY <1>1, SummerTurns DEF Turn

LEMMA SumInt ==
  ASSUME NEW f, NEW S, IsFiniteSet(S), \A x \in S : f[x] \in Int
  PROVE  SumFunctionOnSet(f, S) \in Int
<1>1. PICK g : IsSummer(f, S, g) /\ SumFunctionOnSet(f, S) = g[S]
  BY SumIsSummer
<1> QED BY <1>1, SummerInt

LEMMA SumAgree ==
  ASSUME NEW f, NEW h, NEW S, IsFiniteSet(S), \A x \in S : f[x] = h[x]
  PROVE  SumFunctionOnSet(f, S) = SumFunctionOnSet(h, S)
<1>1. PICK g : IsSummer(f, S, g) /\ SumFunctionOnSet(f, S) = g[S]
  BY SumIsSummer
<1>2. PICK k : IsSummer(h, S, k) /\ SumFunctionOnSet(h, S) = k[S]
  BY SumIsSummer
<1>3. \A s \in SUBSET S : s \subseteq S /\ (\A x \in s : f[x] = h[x]) => g[s] = k[s]
  BY <1>1, <1>2, SummersAgree
<1> QED BY <1>1, <1>2, <1>3

\* An element more, an element less.
LEMMA SumRemove ==
  ASSUME NEW f, NEW S, IsFiniteSet(S), \A x \in S : f[x] \in Int, NEW x \in S
  PROVE  SumFunctionOnSet(f, S) = f[x] + SumFunctionOnSet(f, S \ {x})
<1>1. PICK g : IsSummer(f, S, g) /\ SumFunctionOnSet(f, S) = g[S]
  BY SumIsSummer
<1>2. IsFiniteSet(S \ {x})
  BY FS_RemoveElement
<1>3. PICK k : IsSummer(f, S \ {x}, k) /\ SumFunctionOnSet(f, S \ {x}) = k[S \ {x}]
  BY <1>2, SumIsSummer
<1>4. g[S] = f[x] + g[S \ {x}]
  BY <1>1, SummerAnyFirst
<1>5. k[S \ {x}] = g[S \ {x}]
  BY <1>1, <1>2, <1>3, SummersAgree
<1> QED BY <1>1, <1>3, <1>4, <1>5

LEMMA SumAdd ==
  ASSUME NEW T, IsFiniteSet(T), NEW x \in T,
         NEW f, \A y \in T \ {x} : f[y] \in Int,
         NEW h, h[x] \in Int, \A y \in T \ {x} : h[y] = f[y]
  PROVE  SumFunctionOnSet(h, T) = SumFunctionOnSet(f, T \ {x}) + h[x]
<1>1. IsFiniteSet(T \ {x}) /\ (T \ {x}) \cup {x} = T
  BY FS_RemoveElement
<1> PICK S : S = T \ {x}
  OBVIOUS
<1>3. SumFunctionOnSet(h, T) = h[x] + SumFunctionOnSet(h, T \ {x})
  <2>1. \A y \in T : h[y] \in Int
    OBVIOUS
  <2> QED BY <2>1, SumRemove
<1>4. SumFunctionOnSet(h, S) = SumFunctionOnSet(f, S)
  BY <1>1, SumAgree
<1>5. SumFunctionOnSet(f, S) \in Int
  BY <1>1, SumInt
<1> QED BY <1>3, <1>4, <1>5

\* One value changes.
LEMMA SumChange ==
  ASSUME NEW f, NEW S, IsFiniteSet(S), \A x \in S : f[x] \in Int,
         NEW h, NEW x \in S, h[x] \in Int, \A y \in S \ {x} : h[y] = f[y]
  PROVE  SumFunctionOnSet(h, S) = SumFunctionOnSet(f, S) - f[x] + h[x]
<1>1. IsFiniteSet(S \ {x})
  BY FS_RemoveElement
<1>2. SumFunctionOnSet(f, S) = f[x] + SumFunctionOnSet(f, S \ {x})
  BY SumRemove
<1>3. \A y \in S : h[y] \in Int
  OBVIOUS
<1>4. SumFunctionOnSet(h, S) = h[x] + SumFunctionOnSet(h, S \ {x})
  BY <1>3, SumRemove
<1>5. SumFunctionOnSet(h, S \ {x}) = SumFunctionOnSet(f, S \ {x})
  BY <1>1, SumAgree
<1>6. SumFunctionOnSet(f, S \ {x}) \in Int
  BY <1>1, SumInt
<1> QED BY <1>2, <1>4, <1>5, <1>6

\* Of natural numbers, fewer make no more.
LEMMA SumFewer ==
  ASSUME NEW f, NEW S, IsFiniteSet(S), \A x \in S : f[x] \in Nat
  PROVE  \A s \in SUBSET S : SumFunctionOnSet(f, s) \in 0 .. SumFunctionOnSet(f, S)
<1>1. PICK g : IsSummer(f, S, g) /\ SumFunctionOnSet(f, S) = g[S]
  BY SumIsSummer
<1>2. \A s \in SUBSET S : SumFunctionOnSet(f, s) = g[s]
  <2> SUFFICES ASSUME NEW s \in SUBSET S PROVE SumFunctionOnSet(f, s) = g[s]
    OBVIOUS
  <2>1. IsFiniteSet(s)
    BY FS_Subset
  <2>2. PICK k : IsSummer(f, s, k) /\ SumFunctionOnSet(f, s) = k[s]
    BY <2>1, SumIsSummer
  <2>3. \A t \in SUBSET s : t \subseteq S /\ (\A x \in t : f[x] = f[x]) => k[t] = g[t]
    BY <1>1, <2>1, <2>2, SummersAgree
  <2> QED BY <2>2, <2>3
<1>3. \A s \in SUBSET S : g[s] \in Int
  BY <1>1, SummerInt
<1>4. \A s \in SUBSET S : \A x \in s : g[s] = f[x] + g[s \ {x}]
  <2>1. \A x \in S : f[x] \in Int
    OBVIOUS
  <2> SUFFICES ASSUME NEW s \in SUBSET S, NEW x \in s PROVE g[s] = f[x] + g[s \ {x}]
    OBVIOUS
  <2> QED BY <1>1, <2>1, SummerAnyFirst
<1>5. \A s \in SUBSET S : g[s] >= 0
  <2> DEFINE Bad == {s \in SUBSET S : g[s] < 0}
  <2> SUFFICES ASSUME Bad # {} PROVE FALSE
    BY <1>3
  <2>1. PICK s \in Bad : \A x \in s : s \ {x} \notin Bad
    BY SmallestSet
  <2>2. g[{}] = 0
    BY <1>1, SummerTurns DEF Turn
  <2>3. PICK x \in s : TRUE
    BY <2>2
  <2>4. g[s] = f[x] + g[s \ {x}] /\ f[x] \in Nat /\ g[s \ {x}] \in Int
    BY <1>3, <1>4
  <2>5. g[s \ {x}] >= 0
    BY <2>1, <2>4
  <2> QED BY <2>4, <2>5
<1>6. \A s \in SUBSET S : g[s] <= g[S]
  <2> DEFINE Bad == {s \in SUBSET S : ~ (g[S \ s] <= g[S])}
  <2>1. Bad = {}
    <3> SUFFICES ASSUME Bad # {} PROVE FALSE
      OBVIOUS
    <3>1. PICK s \in Bad : \A x \in s : s \ {x} \notin Bad
      BY SmallestSet
    <3>2. S \ {} = S /\ g[S] <= g[S]
      BY <1>3
    <3>3. PICK x \in s : TRUE
      BY <3>2
    <3>4. /\ S \ (s \ {x}) \in SUBSET S /\ x \in S \ (s \ {x})
          /\ (S \ (s \ {x})) \ {x} = S \ s /\ s \ {x} \in SUBSET S
      OBVIOUS
    <3>5. g[S \ (s \ {x})] = f[x] + g[S \ s]
      BY <3>4, <1>4
    <3>6. g[S \ (s \ {x})] <= g[S]
      BY <3>1, <3>4
    <3>7. f[x] \in Nat /\ g[S \ s] \in Int /\ g[S] \in Int
      BY <1>3
    <3>8. g[S \ s] <= g[S]
      BY <3>5, <3>6, <3>7
    <3> QED BY <3>8
  <2> QED
    <3> SUFFICES ASSUME NEW s \in SUBSET S PROVE g[s] <= g[S]
      OBVIOUS
    <3>1. S \ s \in SUBSET S /\ S \ (S \ s) = s
      OBVIOUS
    <3>2. g[S \ (S \ s)] <= g[S]
      BY <2>1, <3>1
    <3> QED BY <3>1, <3>2
<1> QED BY <1>1, <1>2, <1>3, <1>5, <1>6

=============================================================================
