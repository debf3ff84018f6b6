------------------------------- MODULE Induction -------------------------------
(***************************************************************************)
(* Induction and recursion on the natural numbers without an operator for  *)
(* a parameter: over a set of numbers, and for a step that is a function.  *)
(* The replays of logs elsewhere are functions these lemmas describe.      *)
(***************************************************************************)
EXTENDS Naturals, SequencesExt, TLAPS, WellFoundedInduction

\* A set of numbers that has any has a smallest.
LEMMA SmallestElement ==
    ASSUME NEW T \in SUBSET Nat, T # {}
    PROVE  \E m \in T : \A n \in T : m <= n
<1> DEFINE R == OpToRel(<, Nat)
<1>1. \E m \in T : \A n \in T : <<n, m>> \notin R
  BY NatLessThanWellFounded, WFMin, Zenon
<1>2. PICK m \in T : \A n \in T : <<n, m>> \notin R
  BY <1>1, Zenon
<1>3. \A n \in T : ~ (n < m)
  BY <1>2, Zenon DEF OpToRel
<1> HIDE DEF R
<1> QED BY <1>3

\* What holds of 0 and is handed on by every number holds of all.
LEMMA InductionOnSet ==
    ASSUME NEW T, 0 \in T, \A n \in Nat : n \in T => n + 1 \in T
    PROVE  Nat \subseteq T
<1> DEFINE S == Nat \ T
<1>1. SUFFICES ASSUME S # {} PROVE FALSE
  OBVIOUS
<1>2. PICK m \in S : \A n \in S : m <= n
  BY <1>1, SmallestElement
<1>3. m \in Nat /\ m # 0 /\ m \notin T
  BY <1>2
<1>4. m - 1 \in Nat /\ m - 1 < m /\ (m - 1) + 1 = m
  BY <1>3
<1>5. m - 1 \in T
  BY <1>2, <1>4
<1> QED BY <1>3, <1>4, <1>5

\* The equation of FoldLeft on a sequence of length k has a solution: sets of positions
\* are emptied from their largest element down.
FoldEquation(f, k, start, step) ==
    /\ f[{}] = start
    /\ \A s \in SUBSET (1 .. k) :
          s # {} => f[s] = step[<<Max(s), f[s \ {Max(s)}]>>]

FoldSolved(V, k, start, step) ==
    \E f \in [SUBSET (1 .. k) -> V] : FoldEquation(f, k, start, step)

LEMMA LargestOfSet ==
    ASSUME NEW s, NEW m \in Nat, s \subseteq 1 .. m, m \in s
    PROVE  Max(s) = m
<1>1. \A x \in s : (\A y \in s : x >= y) <=> x = m
  OBVIOUS
<1> QED BY <1>1 DEF Max

LEMMA LargestIsElement ==
    ASSUME NEW k \in Nat, NEW s, s \subseteq 1 .. k, s # {}
    PROVE  Max(s) \in s
<1> DEFINE T == {n \in Nat : \A t \in SUBSET (1 .. n) : t # {} => \E x \in t : \A y \in t : x >= y}
<1>1. 0 \in T
  <2>1. \A t \in SUBSET (1 .. 0) : t = {}
    OBVIOUS
  <2> QED BY <2>1
<1>2. ASSUME NEW n \in Nat, n \in T PROVE n + 1 \in T
  <2> SUFFICES ASSUME NEW t \in SUBSET (1 .. n + 1), t # {}
               PROVE  \E x \in t : \A y \in t : x >= y
    OBVIOUS
  <2>1. CASE n + 1 \in t
    BY <2>1
  <2>2. CASE n + 1 \notin t
    <3>1. t \in SUBSET (1 .. n)
      BY <2>2
    <3> QED BY <1>2, <3>1
  <2> QED BY <2>1, <2>2
<1> HIDE DEF T
<1>3. k \in T
  BY <1>1, <1>2, InductionOnSet
<1>4. \E x \in s : \A y \in s : x >= y
  BY <1>3 DEF T
<1> QED BY <1>4 DEF Max

LEMMA FoldExists ==
    ASSUME NEW V, NEW start \in V, NEW k \in Nat, NEW step \in [(1 .. k) \X V -> V]
    PROVE  FoldSolved(V, k, start, step)
<1> DEFINE T == {m \in Nat : m <= k => FoldSolved(V, m, start, step)}
<1>1. 0 \in T
  <2> DEFINE f == [s \in SUBSET (1 .. 0) |-> start]
  <2>1. f \in [SUBSET (1 .. 0) -> V] /\ f[{}] = start
    OBVIOUS
  <2>2. \A s \in SUBSET (1 .. 0) : s = {}
    OBVIOUS
  <2>3. FoldEquation(f, 0, start, step)
    BY <2>1, <2>2 DEF FoldEquation
  <2> QED BY <2>1, <2>3 DEF FoldSolved
<1>2. ASSUME NEW m \in Nat, m \in T PROVE m + 1 \in T
  <2> SUFFICES ASSUME m + 1 <= k
               PROVE  FoldSolved(V, m + 1, start, step)
    OBVIOUS
  <2>0. FoldSolved(V, m, start, step)
    BY <1>2
  <2> HIDE DEF T
  <2>1. PICK f \in [SUBSET (1 .. m) -> V] : FoldEquation(f, m, start, step)
    BY <2>0 DEF FoldSolved
  <2> DEFINE g == [s \in SUBSET (1 .. m + 1) |->
                      IF m + 1 \in s THEN step[<<m + 1, f[s \ {m + 1}]>>] ELSE f[s]]
  <2>2. \A s \in SUBSET (1 .. m + 1) : /\ s \ {m + 1} \in SUBSET (1 .. m)
                                       /\ m + 1 \notin s => s \in SUBSET (1 .. m)
    OBVIOUS
  <2>3. ASSUME NEW s \in SUBSET (1 .. m + 1)
        PROVE  (IF m + 1 \in s THEN step[<<m + 1, f[s \ {m + 1}]>>] ELSE f[s]) \in V
    BY <2>1, <2>2
  <2>4. g \in [SUBSET (1 .. m + 1) -> V]
    BY <2>3
  <2>5. g[{}] = start
    BY <2>1 DEF FoldEquation
  <2>6. ASSUME NEW s \in SUBSET (1 .. m + 1), s # {}
        PROVE  g[s] = step[<<Max(s), g[s \ {Max(s)}]>>]
    <3>1. CASE m + 1 \in s
      <4>1. Max(s) = m + 1
        <5>1. m + 1 \in Nat /\ s \subseteq 1 .. m + 1
          OBVIOUS
        <5> HIDE DEF g
        <5> QED BY <3>1, <5>1, LargestOfSet
      <4>2. g[s \ {m + 1}] = f[s \ {m + 1}]
        BY <2>2
      <4>3. g[s] = step[<<m + 1, f[s \ {m + 1}]>>]
        BY <3>1
      <4> HIDE DEF g
      <4> QED BY <4>1, <4>2, <4>3
    <3>2. CASE m + 1 \notin s
      <4>1. s \in SUBSET (1 .. m)
        BY <2>2, <3>2
      <4>2. s \ {Max(s)} \in SUBSET (1 .. m) /\ s \ {Max(s)} \in SUBSET (1 .. m + 1)
            /\ m + 1 \notin s \ {Max(s)}
        BY <3>2, <4>1
      <4>3. g[s] = f[s] /\ g[s \ {Max(s)}] = f[s \ {Max(s)}]
        BY <3>2, <4>2
      <4>4. f[s] = step[<<Max(s), f[s \ {Max(s)}]>>]
        BY <2>1, <2>6, <4>1 DEF FoldEquation
      <4> HIDE DEF g
      <4> QED BY <4>3, <4>4
    <3> QED BY <3>1, <3>2
  <2> HIDE DEF g
  <2> QED BY <2>4, <2>5, <2>6 DEF FoldEquation, FoldSolved
<1> HIDE DEF T
<1>3. k \in T
  BY <1>1, <1>2, InductionOnSet
<1> QED BY <1>3 DEF T

LEMMA LargestOfInterval ==
    ASSUME NEW n \in Nat
    PROVE  /\ Max(1 .. n + 1) = n + 1
           /\ (1 .. n + 1) \ {n + 1} = 1 .. n
<1>1. n + 1 \in Nat /\ n + 1 \in 1 .. n + 1
  OBVIOUS
<1>2. Max(1 .. n + 1) = n + 1
  BY <1>1, LargestOfSet
<1>3. (1 .. n + 1) \ {n + 1} = 1 .. n
  OBVIOUS
<1> QED BY <1>2, <1>3

\* A solution of the equation counts up through the sequence.
LEMMA FoldSteps ==
    ASSUME NEW V, NEW k \in Nat, NEW start, NEW step,
           NEW f \in [SUBSET (1 .. k) -> V], FoldEquation(f, k, start, step)
    PROVE  /\ f[1 .. 0] = start
           /\ \A n \in 1 .. k : f[1 .. n] = step[<<n, f[1 .. n - 1]>>]
           /\ \A n \in 0 .. k : f[1 .. n] \in V
<1>1. f[1 .. 0] = start
  <2>1. 1 .. 0 = {}
    OBVIOUS
  <2> QED BY <2>1 DEF FoldEquation
<1>2. ASSUME NEW n \in 1 .. k
      PROVE  f[1 .. n] = step[<<n, f[1 .. n - 1]>>]
  <2>1. n - 1 \in Nat /\ (n - 1) + 1 = n
    OBVIOUS
  <2>2. Max(1 .. n) = n /\ (1 .. n) \ {n} = 1 .. n - 1
    BY <2>1, LargestOfInterval
  <2>3. 1 .. n \in SUBSET (1 .. k) /\ 1 .. n # {}
    OBVIOUS
  <2>4. f[1 .. n] = step[<<Max(1 .. n), f[(1 .. n) \ {Max(1 .. n)}]>>]
    BY <2>3 DEF FoldEquation
  <2> QED BY <2>2, <2>4
<1>3. \A n \in 0 .. k : 1 .. n \in SUBSET (1 .. k)
  OBVIOUS
<1> QED BY <1>1, <1>2, <1>3

\* What begins alike and is continued alike stays alike.
LEMMA StepsAgree ==
    ASSUME NEW k \in Nat, NEW a, NEW b, a[0] = b[0],
           \A n \in 1 .. k : a[n - 1] = b[n - 1] => a[n] = b[n]
    PROVE  a[k] = b[k]
<1> DEFINE T == {m \in Nat : m <= k => a[m] = b[m]}
<1>1. 0 \in T
  OBVIOUS
<1>2. ASSUME NEW m \in Nat, m \in T PROVE m + 1 \in T
  <2> SUFFICES ASSUME m + 1 <= k PROVE a[m + 1] = b[m + 1]
    OBVIOUS
  <2>1. m + 1 \in 1 .. k /\ (m + 1) - 1 = m /\ a[m] = b[m]
    BY <1>2
  <2> QED BY <2>1
<1> HIDE DEF T
<1>3. k \in T
  BY <1>1, <1>2, InductionOnSet
<1> QED BY <1>3 DEF T

\* What begins in a set and is continued in it stays in it.
LEMMA StepsTyped ==
    ASSUME NEW V, NEW k \in Nat, NEW a, a[0] \in V,
           \A n \in 1 .. k : a[n - 1] \in V => a[n] \in V
    PROVE  \A n \in 0 .. k : a[n] \in V
<1> DEFINE T == {m \in Nat : m <= k => a[m] \in V}
<1>1. 0 \in T
  OBVIOUS
<1>2. ASSUME NEW m \in Nat, m \in T PROVE m + 1 \in T
  <2> SUFFICES ASSUME m + 1 <= k PROVE a[m + 1] \in V
    OBVIOUS
  <2>1. m + 1 \in 1 .. k /\ (m + 1) - 1 = m /\ a[m] \in V
    BY <1>2
  <2> QED BY <2>1
<1> HIDE DEF T
<1>3. Nat \subseteq T
  BY <1>1, <1>2, InductionOnSet
<1> QED BY <1>3 DEF T

=============================================================================
